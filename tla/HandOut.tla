------------------------------- MODULE HandOut -------------------------------
(***************************************************************************)
(* What the shared pool promises of one task, seen from the agents: a task *)
(* that lies in the pool is taken by one of them, who is told so and owns  *)
(* it from then on.  As long as an agent has been told, only an operator   *)
(* puts the task back into the pool or gives it to somebody else, and it   *)
(* is then nobody's claim any more.                                        *)
(***************************************************************************)
CONSTANTS Agents, Nobody

VARIABLES pooled,  \* the task can be claimed
          owner,   \* whose it is, or Nobody's
          told     \* the agents that have been told that it is theirs

handing == <<pooled, owner, told>>

Init ==
  /\ pooled = TRUE /\ owner \in Agents \cup {Nobody} /\ told = {}

Take(a) ==
  /\ pooled /\ pooled' = FALSE
  /\ owner' = a /\ told' = {a}

\* An agent that repeats its claim is told again.
TellAgain(a) ==
  /\ ~pooled /\ owner = a /\ told' = {a}
  /\ UNCHANGED <<pooled, owner>>

\* An unclaimed task is no longer in the pool: one of its runs was started or has
\* ended, or a person said so.
Withdraw ==
  /\ told = {} /\ pooled' = FALSE
  /\ UNCHANGED <<owner, told>>

\* The start of a run gives an unclaimed task an owner if it has none.
Adopt(a) ==
  /\ told = {} /\ owner = Nobody
  /\ pooled' = FALSE /\ owner' = a
  /\ UNCHANGED told

\* The operator.
Return ==
  /\ pooled' = TRUE /\ owner' \in {owner, Nobody} /\ told' = {}

Assign(o) ==
  /\ owner' = o /\ told' = {}
  /\ UNCHANGED pooled

Next ==
  \/ \E a \in Agents : Take(a) \/ TellAgain(a) \/ Adopt(a)
  \/ Withdraw \/ Return \/ \E o \in Agents \cup {Nobody} : Assign(o)

Spec == Init /\ [][Next]_handing
=============================================================================
