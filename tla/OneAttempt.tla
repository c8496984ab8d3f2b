------------------------------ MODULE OneAttempt ------------------------------
(***************************************************************************)
(* What workspace writes promise of their execution, seen from the lease,  *)
(* the worktree and the ledger.  The lease of an action is granted once,   *)
(* to one worker or, when nobody waits for the answer any more, to none.   *)
(* Only the worker it was granted to works: it opens the worktree, leaves  *)
(* the diff there, records evidence of a diff that is there, asks once to  *)
(* have the action spent on that evidence, and may stop or roll back at    *)
(* any time.  Nobody takes over from it.  An action is spent only when it  *)
(* was asked for, and possibly after the worker that asked is gone.        *)
(***************************************************************************)
CONSTANTS Actions, Workers

VARIABLES
  leased,     \* actions with a lease, open or closed
  atWork,     \* <<worker, action>>: granted, and not gone yet
  worktree,   \* of each action: "none", "open" or with its "diff"
  evidenced,  \* actions with recorded evidence
  asked,      \* actions whose worker has asked to have them spent
  spent

attempt == <<leased, atWork, worktree, evidenced, asked, spent>>

Init ==
  /\ leased = {} /\ atWork = {}
  /\ worktree = [a \in Actions |-> "none"]
  /\ evidenced = {} /\ asked = {} /\ spent = {}

Grant(a) ==
  /\ a \notin leased /\ leased' = leased \cup {a}
  /\ \/ atWork' = atWork
     \/ \E w \in Workers : atWork' = atWork \cup {<<w, a>>}
  /\ UNCHANGED <<worktree, evidenced, asked, spent>>

Leave(w, a) ==
  /\ <<w, a>> \in atWork /\ atWork' = atWork \ {<<w, a>>}
  /\ UNCHANGED <<leased, worktree, evidenced, asked, spent>>

RollBack(w, a) ==
  /\ <<w, a>> \in atWork /\ atWork' = atWork \ {<<w, a>>}
  /\ worktree' = [worktree EXCEPT ![a] = "none"]
  /\ UNCHANGED <<leased, evidenced, asked, spent>>

Work(w, a, from, to) ==
  /\ <<w, a>> \in atWork /\ worktree[a] = from
  /\ worktree' = [worktree EXCEPT ![a] = to]
  /\ UNCHANGED <<leased, atWork, evidenced, asked, spent>>

Record(w, a) ==
  /\ <<w, a>> \in atWork /\ worktree[a] = "diff" /\ a \notin evidenced
  /\ evidenced' = evidenced \cup {a}
  /\ UNCHANGED <<leased, atWork, worktree, asked, spent>>

Ask(w, a) ==
  /\ <<w, a>> \in atWork /\ worktree[a] = "diff" /\ a \in evidenced \ asked
  /\ asked' = asked \cup {a}
  /\ UNCHANGED <<leased, atWork, worktree, evidenced, spent>>

Spend(a) ==
  /\ a \in asked \ spent /\ spent' = spent \cup {a}
  /\ UNCHANGED <<leased, atWork, worktree, evidenced, asked>>

Next == \E a \in Actions :
  \/ Grant(a) \/ Spend(a)
  \/ \E w \in Workers :
       \/ Leave(w, a) \/ RollBack(w, a) \/ Record(w, a) \/ Ask(w, a)
       \/ Work(w, a, "none", "open") \/ Work(w, a, "open", "diff")

Spec == Init /\ [][Next]_attempt
=============================================================================
