----------------------------- MODULE ExecuteOnce -----------------------------
(***************************************************************************)
(* What the approval wall promises of an exact action, seen from outside:  *)
(* a human authorises it, a workspace-write action is then taken by one    *)
(* executor, and an authorised (and, for a workspace write, taken and      *)
(* evidenced) action is spent.  Each of these happens at most once and     *)
(* none of them is ever undone.                                            *)
(***************************************************************************)
CONSTANTS Actions, Exclusive   \* Exclusive: the actions executed under a lease

VARIABLES authorised, taken, evidenced, spent   \* sets of actions

contract == <<authorised, taken, evidenced, spent>>

Init ==
  /\ authorised = {} /\ taken = {}
  /\ evidenced = {} /\ spent = {}

Authorise(a) ==
  /\ authorised' = authorised \cup {a}
  /\ UNCHANGED <<taken, evidenced, spent>>

Take(a) ==
  /\ a \in Exclusive /\ a \in authorised \ taken
  /\ taken' = taken \cup {a}
  /\ UNCHANGED <<authorised, evidenced, spent>>

Evidence(a) ==
  /\ a \in taken
  /\ evidenced' = evidenced \cup {a}
  /\ UNCHANGED <<authorised, taken, spent>>

Spend(a) ==
  /\ a \in authorised \ spent
  /\ a \in Exclusive => a \in taken \cap evidenced
  /\ spent' = spent \cup {a}
  /\ UNCHANGED <<authorised, taken, evidenced>>

Next == \E a \in Actions : Authorise(a) \/ Take(a) \/ Evidence(a) \/ Spend(a)

Spec == Init /\ [][Next]_contract
=============================================================================
