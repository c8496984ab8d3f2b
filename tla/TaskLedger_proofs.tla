-------------------------- MODULE TaskLedger_proofs --------------------------
(***************************************************************************)
(* Proofs about TaskLedger, for every set of agents and of run ids.        *)
(*                                                                         *)
(* IInv adds to the invariants what a handler relies on between its        *)
(* statements: a heartbeat writes to a run that exists, only the end of a  *)
(* run reaches the task, and an end that is a completion is recorded.      *)
(***************************************************************************)
EXTENDS TaskLedger, TLAPS

\* A heartbeat's run exists, and keeps its agent.
BeatingRow ==
  \A a \in Agents : request[a].pc = "beat" => runs[request[a].run].agent \in Agents

\* What goes on to the task is the end of a run; a completion is in the history.
EndingRun ==
  \A a \in Agents : request[a].pc = "beat_task" =>
    /\ request[a].status \in {"completed", "blocked", "failed"}
    /\ request[a].status = "completed" => completers # {}

\* Every claimant owns the task, and a task with a claimant is not claimable.
Claimed ==
  /\ \A a \in claimants : a = task.owner
  /\ claimants # {} => task.status \notin Claimable

LedgerTypes == LedgerTypeOK /\ BeatingRow /\ EndingRun

IInv == LedgerTypes /\ Claimed /\ CompletedByARun

-----------------------------------------------------------------------------
(* Type correctness, with what heartbeats rely on: one lemma per handler.   *)

\* A claim keeps the types.
LEMMA ClaimType ==
  ASSUME LedgerTypes, NEW a \in Agents, ClaimRead(a) \/ Claim(a)
  PROVE  LedgerTypes'
<1>1. CASE ClaimRead(a)
  BY <1>1, LedgerAssumption DEF LedgerTypes, LedgerTypeOK, BeatingRow, EndingRun, ClaimRead, Serve
<1>2. CASE Claim(a)
  BY <1>2 DEF LedgerTypes, LedgerTypeOK, BeatingRow, EndingRun, Claim, TaskStatuses, NoRequest
<1> QED
  BY <1>1, <1>2

\* The start of a run keeps the types.
LEMMA StartType ==
  ASSUME LedgerTypes, NEW a \in Agents,
         \/ \E r \in Runs, s \in RunStatuses : StartRead(a, r, s)
         \/ StartBinding(a) \/ StartUpsert(a) \/ StartTask(a)
  PROVE  LedgerTypes'
<1>1. ASSUME NEW r \in Runs, NEW s \in RunStatuses, StartRead(a, r, s)
      PROVE  LedgerTypes'
  BY <1>1, LedgerAssumption DEF LedgerTypes, LedgerTypeOK, BeatingRow, EndingRun, StartRead, Serve, Coerce
<1>2. CASE StartBinding(a)
  BY <1>2 DEF LedgerTypes, LedgerTypeOK, BeatingRow, EndingRun, StartBinding, NoRequest
<1>3. CASE StartUpsert(a)
  BY <1>3 DEF LedgerTypes, LedgerTypeOK, BeatingRow, EndingRun, StartUpsert, NoRun
<1>4. CASE StartTask(a)
  BY <1>4 DEF LedgerTypes, LedgerTypeOK, BeatingRow, EndingRun, StartTask, TaskStatuses, NoRequest
<1> QED
  BY <1>1, <1>2, <1>3, <1>4

\* A heartbeat keeps the types.
LEMMA BeatType ==
  ASSUME LedgerTypes, NEW a \in Agents,
         \/ \E r \in Runs, s \in RunStatuses \cup {"absent"} : BeatRead(a, r, s)
         \/ BeatRun(a) \/ BeatTask(a)
  PROVE  LedgerTypes'
<1>1. ASSUME NEW r \in Runs, NEW s \in RunStatuses \cup {"absent"}, BeatRead(a, r, s)
      PROVE  LedgerTypes'
  <2>1. runs[r].status \in RunStatuses
    BY <1>1, LedgerAssumption DEF LedgerTypes, LedgerTypeOK, BeatingRow, EndingRun, BeatRead, NoRun
  <2> QED
    BY <1>1, <2>1, LedgerAssumption DEF LedgerTypes, LedgerTypeOK, BeatingRow, EndingRun, BeatRead, Serve, Coerce
<1>2. CASE BeatRun(a)
  <2> DEFINE q == request[a]
  <2>1. q.run \in Runs /\ q.status \in RunStatuses /\ runs[q.run].agent \in Agents
    BY <1>2 DEF LedgerTypes, LedgerTypeOK, BeatingRow, BeatRun
  <2>2. runs[q.run] \in [status : RunStatuses, agent : Agents]
    BY <2>1, LedgerAssumption DEF LedgerTypes, LedgerTypeOK, NoRun
  <2>3. /\ runs' \in [Runs -> [status : RunStatuses, agent : Agents] \cup {NoRun}]
        /\ \A r \in Runs : runs'[r].agent = runs[r].agent
    BY <1>2, <2>1, <2>2 DEF LedgerTypes, LedgerTypeOK, BeatRun
  <2>4. /\ completers' \subseteq Runs \cup {Person} /\ completers \subseteq completers'
        /\ q.status = "completed" => completers' # {}
    BY <1>2, <2>1 DEF LedgerTypes, LedgerTypeOK, BeatRun
  <2>5. request' = [request EXCEPT ![a] = IF Ends(q.status) THEN [q EXCEPT !.pc = "beat_task"] ELSE NoRequest]
    BY <1>2 DEF BeatRun
  <2>6. \A b \in Agents \ {a} : request'[b] = request[b]
    BY <2>5 DEF LedgerTypes, LedgerTypeOK
  <2>7. CASE Ends(q.status)
    <3>1. /\ request'[a] = [q EXCEPT !.pc = "beat_task"]
          /\ q.status \in {"completed", "blocked", "failed"}
      BY <2>5, <2>7 DEF LedgerTypes, LedgerTypeOK, Ends, TerminalTaskStatus
    <3> QED
      BY <1>2, <2>1, <2>3, <2>4, <2>5, <2>6, <2>7, <3>1
      DEF LedgerTypes, LedgerTypeOK, BeatingRow, EndingRun, BeatRun
  <2>8. CASE ~Ends(q.status)
    <3>1. request'[a] = NoRequest
      BY <2>5, <2>8 DEF LedgerTypes, LedgerTypeOK
    <3> QED
      BY <1>2, <2>3, <2>4, <2>5, <2>6, <2>8, <3>1
      DEF LedgerTypes, LedgerTypeOK, BeatingRow, EndingRun, BeatRun, NoRequest
  <2> QED
    BY <2>7, <2>8
<1>3. CASE BeatTask(a)
  BY <1>3 DEF LedgerTypes, LedgerTypeOK, BeatingRow, EndingRun, BeatTask, TerminalTaskStatus, TaskStatuses, NoRequest
<1> QED
  BY <1>1, <1>2, <1>3

\* The release, the PATCH routes and a stop of the server keep the types.
LEMMA OperatorType ==
  ASSUME LedgerTypes,
         \/ \E force \in BOOLEAN : ReleaseRead(force)
         \/ ReleaseList
         \/ \E r \in Runs : ReleaseRun(r)
         \/ ReleaseTask
         \/ \E s \in TaskStatuses : PatchStatus(s)
         \/ \E o \in Agents \cup {Nobody} : PatchAssign(o)
         \/ Stop
  PROVE  LedgerTypes'
<1>1. ASSUME NEW force \in BOOLEAN, ReleaseRead(force)
      PROVE  LedgerTypes'
  BY <1>1, LedgerAssumption DEF LedgerTypes, LedgerTypeOK, BeatingRow, EndingRun, ReleaseRead, Serve
<1>2. CASE ReleaseList
  BY <1>2 DEF LedgerTypes, LedgerTypeOK, BeatingRow, EndingRun, ReleaseList
<1>3. ASSUME NEW r \in Runs, ReleaseRun(r)
      PROVE  LedgerTypes'
  BY <1>3 DEF LedgerTypes, LedgerTypeOK, BeatingRow, EndingRun, ReleaseRun, NoRun, RunStatuses
<1>4. CASE ReleaseTask
  BY <1>4 DEF LedgerTypes, LedgerTypeOK, BeatingRow, EndingRun, ReleaseTask, NoRelease, TaskStatuses, Claimable
<1>5. ASSUME NEW s \in TaskStatuses, PatchStatus(s)
      PROVE  LedgerTypes'
  BY <1>5, LedgerAssumption DEF LedgerTypes, LedgerTypeOK, BeatingRow, EndingRun, PatchStatus, Serve
<1>6. ASSUME NEW o \in Agents \cup {Nobody}, PatchAssign(o)
      PROVE  LedgerTypes'
  BY <1>6, LedgerAssumption DEF LedgerTypes, LedgerTypeOK, BeatingRow, EndingRun, PatchAssign, Serve
<1>7. CASE Stop
  BY <1>7 DEF LedgerTypes, LedgerTypeOK, BeatingRow, EndingRun, Stop, NoRequest, NoRelease
<1> QED
  BY <1>1, <1>2, <1>3, <1>4, <1>5, <1>6, <1>7

\* Every step keeps the types.
LEMMA StepType ==
  LedgerTypes /\ [Next]_vars => LedgerTypes'
<1> SUFFICES ASSUME LedgerTypes, [Next]_vars
             PROVE  LedgerTypes'
  OBVIOUS
<1>1. CASE UNCHANGED vars
  BY <1>1 DEF vars, LedgerTypes, LedgerTypeOK, BeatingRow, EndingRun
<1>2. CASE Next
  BY <1>2, ClaimType, StartType, BeatType, OperatorType DEF Next
<1> QED
  BY <1>1, <1>2

-----------------------------------------------------------------------------
(* Who has claimed the task.                                                *)

\* The claimants stay the owner: only the guarded UPDATE adds one, and every
\* statement that changes the owner or frees the task clears them, or keeps an
\* owner who is there.
LEMMA StepClaimed ==
  LedgerTypes /\ Claimed /\ [Next]_vars => Claimed'
<1> SUFFICES ASSUME LedgerTypes, Claimed, [Next]_vars
             PROVE  Claimed'
  OBVIOUS
<1> USE DEF Claimed, Claimable
<1>1. ASSUME NEW a \in Agents, ClaimRead(a)
      PROVE  Claimed'
  BY <1>1 DEF ClaimRead
<1>2. ASSUME NEW a \in Agents, Claim(a)
      PROVE  Claimed'
  BY <1>2 DEF Claim
<1>3. ASSUME NEW a \in Agents, StartTask(a)
      PROVE  Claimed'
  <2>1. CASE task.owner = Nobody
    BY <1>3, <2>1, LedgerAssumption DEF StartTask, LedgerTypes, LedgerTypeOK
  <2>2. CASE task.owner # Nobody
    BY <1>3, <2>2 DEF StartTask
  <2> QED
    BY <2>1, <2>2
<1>4. ASSUME NEW a \in Agents, BeatTask(a)
      PROVE  Claimed'
  BY <1>4 DEF BeatTask, TerminalTaskStatus, LedgerTypes, LedgerTypeOK, EndingRun
<1>5. CASE ReleaseTask
  BY <1>5 DEF ReleaseTask
<1>6. ASSUME NEW s \in TaskStatuses, PatchStatus(s)
      PROVE  Claimed'
  BY <1>6 DEF PatchStatus, LedgerTypes, LedgerTypeOK
<1>7. ASSUME NEW o \in Agents \cup {Nobody}, PatchAssign(o)
      PROVE  Claimed'
  BY <1>7 DEF PatchAssign
<1>8. ASSUME UNCHANGED <<task, claimants>>
      PROVE  Claimed'
  BY <1>8
<1> QED
  BY <1>1, <1>2, <1>3, <1>4, <1>5, <1>6, <1>7, <1>8
  DEF Next, vars, StartRead, StartBinding, StartUpsert, BeatRead, BeatRun,
      ReleaseRead, ReleaseList, ReleaseRun, Stop

-----------------------------------------------------------------------------
(* How the task gets completed.                                             *)

\* A task is completed by the end of a run that is in the history already, or
\* by a person.
LEMMA StepCompleted ==
  LedgerTypes /\ CompletedByARun /\ [Next]_vars => CompletedByARun'
<1> SUFFICES ASSUME LedgerTypes, CompletedByARun, [Next]_vars
             PROVE  CompletedByARun'
  OBVIOUS
<1> USE DEF CompletedByARun
<1>1. ASSUME NEW a \in Agents, ClaimRead(a) \/ Claim(a) \/ StartTask(a)
      PROVE  CompletedByARun'
  BY <1>1 DEF ClaimRead, Claim, StartTask, LedgerTypes, LedgerTypeOK
<1>2. ASSUME NEW a \in Agents, StartUpsert(a) \/ BeatRun(a)
      PROVE  CompletedByARun'
  BY <1>2 DEF StartUpsert, BeatRun
<1>3. ASSUME NEW a \in Agents, BeatTask(a)
      PROVE  CompletedByARun'
  BY <1>3 DEF BeatTask, TerminalTaskStatus, LedgerTypes, LedgerTypeOK, EndingRun
<1>4. CASE ReleaseTask
  BY <1>4 DEF ReleaseTask
<1>5. ASSUME NEW s \in TaskStatuses, PatchStatus(s)
      PROVE  CompletedByARun'
  BY <1>5 DEF PatchStatus, LedgerTypes, LedgerTypeOK
<1>6. ASSUME NEW o \in Agents \cup {Nobody}, PatchAssign(o)
      PROVE  CompletedByARun'
  BY <1>6 DEF PatchAssign, LedgerTypes, LedgerTypeOK
<1>7. ASSUME UNCHANGED <<task, completers>>
      PROVE  CompletedByARun'
  BY <1>7
<1> QED
  BY <1>1, <1>2, <1>3, <1>4, <1>5, <1>6, <1>7
  DEF Next, vars, StartRead, StartBinding, BeatRead, ReleaseRead, ReleaseList, ReleaseRun, Stop

-----------------------------------------------------------------------------
(* The invariant and what follows from it.                                  *)

\* The inductive invariant holds in every reachable state.
THEOREM LedgerInvariant == LedgerSpec => []IInv
<1>1. LedgerInit => IInv
  BY LedgerAssumption
  DEF LedgerInit, IInv, LedgerTypes, LedgerTypeOK, BeatingRow, EndingRun, Claimed, CompletedByARun,
      TaskStatuses, Claimable, NoRequest, NoRelease
<1>2. IInv /\ [Next]_vars => IInv'
  BY StepType, StepClaimed, StepCompleted DEF IInv
<1> QED
  BY <1>1, <1>2, PTL DEF LedgerSpec

\* The variables keep their types (all handlers of the task and its runs).
THEOREM LedgerTypeCorrect == LedgerSpec => []LedgerTypeOK
<1>1. IInv => LedgerTypeOK
  BY DEF IInv, LedgerTypes
<1> QED
  BY <1>1, LedgerInvariant, PTL

\* The pool hands the task to one agent at a time (the guarded UPDATE of
\* agent_gateway_claim_task, against every other handler).
THEOREM OneClaimant == LedgerSpec => []AtMostOneClaimant
<1>1. IInv => AtMostOneClaimant
  BY DEF IInv, Claimed, AtMostOneClaimant
<1> QED
  BY <1>1, LedgerInvariant, PTL

\* The row keeps saying who won the claim, and stays out of the pool.
THEOREM ClaimantKept == LedgerSpec => []ClaimantOwnsTheTask
<1>1. IInv => ClaimantOwnsTheTask
  BY DEF IInv, Claimed, ClaimantOwnsTheTask
<1> QED
  BY <1>1, LedgerInvariant, PTL

\* A task is completed only after one of its runs was, or by a person (the
\* order of the two UPDATEs of agent_gateway_run_heartbeat).
THEOREM CompletionIsRecorded == LedgerSpec => []CompletedByARun
<1>1. IInv => CompletedByARun
  BY DEF IInv
<1> QED
  BY <1>1, LedgerInvariant, PTL

-----------------------------------------------------------------------------
(* The pool keeps the promise of HandOut.                                   *)

\* A claim takes the task, tells its owner again, or is not seen.
LEMMA ClaimHandsOut ==
  ASSUME IInv, NEW a \in Agents, ClaimRead(a) \/ Claim(a)
  PROVE  [Promise!Next]_(Promise!handing)
<1>1. CASE ClaimRead(a)
  <2>1. CASE task.status = "running" /\ task.owner = a /\ claimants' = claimants \cup {a}
    <3>1. claimants' = {a} /\ UNCHANGED task /\ task.status \notin Claimable
      BY <1>1, <2>1 DEF ClaimRead, IInv, Claimed, Claimable
    <3>2. Promise!TellAgain(a)
      BY <2>1, <3>1 DEF Promise!TellAgain
    <3> QED
      BY <3>2 DEF Promise!Next
  <2>2. CASE UNCHANGED claimants
    BY <1>1, <2>2 DEF ClaimRead, Promise!handing
  <2> QED
    BY <1>1, <2>1, <2>2 DEF ClaimRead
<1>2. CASE Claim(a)
  <2>1. CASE task.status \in Claimable
    <3>1. /\ task' = [status |-> "running", owner |-> a] /\ claimants = {}
          /\ claimants' = claimants \cup {a}
      BY <1>2, <2>1 DEF Claim, IInv, Claimed
    <3>2. Promise!Take(a)
      BY <2>1, <3>1 DEF Promise!Take, Claimable
    <3> QED
      BY <3>2 DEF Promise!Next
  <2>2. CASE task.status \notin Claimable
    BY <1>2, <2>2 DEF Claim, Promise!handing
  <2> QED
    BY <2>1, <2>2
<1> QED
  BY <1>1, <1>2

\* The start and the end of a run write the task without a guard, and still take
\* nothing from an agent that has been told.
LEMMA RunHandsOut ==
  ASSUME IInv, NEW a \in Agents, StartTask(a) \/ BeatTask(a)
  PROVE  [Promise!Next]_(Promise!handing)
<1>1. task'.status \notin Claimable
  BY DEF StartTask, BeatTask, TerminalTaskStatus, IInv, LedgerTypes, EndingRun, LedgerTypeOK, Claimable
<1>2. /\ task'.owner = task.owner \/ (task.owner = Nobody /\ task'.owner = a)
      /\ UNCHANGED claimants
  BY DEF StartTask, BeatTask, IInv, LedgerTypes, LedgerTypeOK
<1>3. CASE claimants = {}
  <2>1. Promise!Withdraw \/ Promise!Adopt(a)
    BY <1>1, <1>2, <1>3 DEF Promise!Withdraw, Promise!Adopt
  <2> QED
    BY <2>1 DEF Promise!Next
<1>4. CASE claimants # {}
  <2>1. task.status \notin Claimable /\ task.owner # Nobody
    BY <1>4, LedgerAssumption DEF IInv, Claimed, LedgerTypes, LedgerTypeOK
  <2> QED
    BY <1>1, <1>2, <2>1 DEF Promise!handing
<1> QED
  BY <1>3, <1>4

\* A release and the PATCH routes are the operator's.
LEMMA OperatorHandsOut ==
  ASSUME IInv,
         \/ ReleaseTask
         \/ \E s \in TaskStatuses : PatchStatus(s)
         \/ \E o \in Agents \cup {Nobody} : PatchAssign(o)
  PROVE  [Promise!Next]_(Promise!handing)
<1> USE DEF IInv, LedgerTypes, LedgerTypeOK
<1>1. CASE ReleaseTask
  <2>1. Promise!Return
    BY <1>1 DEF ReleaseTask, Promise!Return, Claimable
  <2> QED
    BY <2>1 DEF Promise!Next
<1>2. ASSUME NEW s \in TaskStatuses, PatchStatus(s)
      PROVE  [Promise!Next]_(Promise!handing)
  <2>1. task'.owner = task.owner /\ task'.status = s
    BY <1>2 DEF PatchStatus
  <2>2. CASE s \in Claimable
    <3>1. Promise!Return
      BY <1>2, <2>1, <2>2 DEF PatchStatus, Promise!Return
    <3> QED
      BY <3>1 DEF Promise!Next
  <2>3. CASE s \notin Claimable
    <3>1. UNCHANGED claimants
      BY <1>2, <2>3 DEF PatchStatus
    <3>2. CASE claimants # {}
      BY <2>1, <2>3, <3>1, <3>2 DEF Promise!handing, Claimed
    <3>3. CASE claimants = {}
      <4>1. Promise!Withdraw
        BY <2>1, <2>3, <3>1, <3>3 DEF Promise!Withdraw
      <4> QED
        BY <4>1 DEF Promise!Next
    <3> QED
      BY <3>2, <3>3
  <2> QED
    BY <2>2, <2>3
<1>3. ASSUME NEW o \in Agents \cup {Nobody}, PatchAssign(o)
      PROVE  [Promise!Next]_(Promise!handing)
  <2>1. Promise!Assign(o)
    BY <1>3 DEF PatchAssign, Promise!Assign
  <2> QED
    BY <2>1 DEF Promise!Next
<1> QED
  BY <1>1, <1>2, <1>3

\* The task is handed out as HandOut says, whatever handlers interleave and
\* wherever the server stops.
THEOREM PoolImplementsHandOut == LedgerSpec => ImplementsHandOut
<1>1. LedgerInit => Promise!Init
  BY DEF LedgerInit, Promise!Init
<1>2. IInv /\ [Next]_vars => [Promise!Next]_(Promise!handing)
  <2> SUFFICES ASSUME IInv, [Next]_vars PROVE [Promise!Next]_(Promise!handing)
    OBVIOUS
  <2>1. CASE UNCHANGED <<task, claimants>>
    BY <2>1 DEF Promise!handing
  <2>2. CASE ~UNCHANGED <<task, claimants>>
    <3>1. \/ \E a \in Agents : ClaimRead(a) \/ Claim(a) \/ StartTask(a) \/ BeatTask(a)
          \/ ReleaseTask
          \/ \E s \in TaskStatuses : PatchStatus(s)
          \/ \E o \in Agents \cup {Nobody} : PatchAssign(o)
      BY <2>2 DEF Next, vars, StartRead, StartBinding, StartUpsert, BeatRead, BeatRun, ReleaseRead,
                  ReleaseList, ReleaseRun, Stop
    <3> QED
      BY <3>1, ClaimHandsOut, RunHandsOut, OperatorHandsOut
  <2> QED
    BY <2>1, <2>2
<1> QED
  BY <1>1, <1>2, LedgerInvariant, PTL DEF LedgerSpec, ImplementsHandOut, Promise!Spec
=============================================================================
