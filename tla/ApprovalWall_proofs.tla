------------------------- MODULE ApprovalWall_proofs -------------------------
(***************************************************************************)
(* Proofs about ApprovalWall, for every set of actions and of threads.     *)
(***************************************************************************)
EXTENDS ApprovalWall, TLAPS

-----------------------------------------------------------------------------
(* Type correctness.  The updates that several handlers share come first.  *)

\* Writing a decision keeps the domains.
LEMMA SetApprovalType ==
  ASSUME TypeOK, NEW t \in Threads, NEW here, NEW decision \in Decisions, NEW next \in Labels,
         SetApproval(t, here, decision, next)
  PROVE  TypeOK'
BY DEF TypeOK, SetApproval, Target, Goto, clocks

\* Writing the status of an action keeps the domains.
LEMMA SetStatusType ==
  ASSUME TypeOK, NEW t \in Threads, NEW here, NEW next \in Labels, NEW value,
         Target(t) \in Actions => value \in Statuses,
         SetStatus(t, here, value, next)
  PROVE  TypeOK'
BY DEF TypeOK, SetStatus, Target, Goto, clocks, history

\* Writing the status of a tool call keeps the domains.
LEMMA SetToolType ==
  ASSUME TypeOK, NEW t \in Threads, NEW here, NEW next \in Labels, NEW value \in WorkStatuses,
         SetTool(t, here, value, next)
  PROVE  TypeOK'
BY DEF TypeOK, SetTool, Target, Goto, clocks, history

\* Writing the status of a run keeps the domains.
LEMMA SetRunType ==
  ASSUME TypeOK, NEW t \in Threads, NEW here, NEW next \in Labels, NEW value,
         Target(t) \in Actions => value \in WorkStatuses,
         SetRun(t, here, value, next)
  PROVE  TypeOK'
BY DEF TypeOK, SetRun, Target, Goto, clocks, history

\* Writing the status of a task keeps the domains.
LEMMA SetTaskType ==
  ASSUME TypeOK, NEW t \in Threads, NEW here, NEW next \in Labels, NEW value,
         Target(t) \in Actions => value \in WorkStatuses,
         SetTask(t, here, value, next)
  PROVE  TypeOK'
BY DEF TypeOK, SetTask, Target, Goto, clocks, history

\* The guarded update of a lease keeps the domains.
LEMMA MoveLeaseType ==
  ASSUME TypeOK, NEW t \in Threads, NEW here, NEW next \in Labels, NEW value \in LeaseStatuses,
         MoveLease(t, here, value, next)
  PROVE  TypeOK'
BY DEF TypeOK, MoveLease, Target, Goto, clocks, history

\* A handler that only tests what it has read moves its program counter alone.
LEMMA GotoType ==
  ASSUME TypeOK, NEW t \in Threads, NEW next \in Labels, Goto(t, next),
         UNCHANGED <<ledger, clocks, req, history>>
  PROVE  TypeOK'
BY DEF TypeOK, Goto, ledger, clocks, history

\* Reading the row keeps the domains.
LEMMA ReadRowType ==
  ASSUME TypeOK, NEW t \in Threads, NEW here, NEW next \in Labels, ReadRow(t, here, next)
  PROVE  TypeOK'
<1> DEFINE spent == consumed[Target(t)] \/ status[Target(t)] = "consumed"
<1>1. spent \in BOOLEAN
  OBVIOUS
<1>2. [req[t] EXCEPT !.sawSpent = spent] \in Requests
  BY <1>1 DEF TypeOK, Requests
<1>3. req' = [req EXCEPT ![t] = [req[t] EXCEPT !.sawSpent = spent]]
  BY Zenon DEF ReadRow
<1> HIDE DEF spent
<1>4. req' \in [Threads -> Requests]
  BY <1>2, <1>3 DEF TypeOK
<1> QED
  BY <1>4 DEF TypeOK, ReadRow, Goto, ledger, clocks, history

\* The arrival of a request keeps the domains.
LEMMA ArriveType ==
  ASSUME TypeOK, NEW t \in Threads, NEW a \in Actions, NEW op \in Operations,
         NEW holder \in BOOLEAN, NEW first \in Labels, Arrive(t, a, op, holder, first)
  PROVE  TypeOK'
BY DEF TypeOK, Arrive, Goto, Requests, NoRequest, ledger, clocks, history

\* The statements that handlers go to are labels.
LEMMA LabelsOfHandlers ==
  /\ {"expire_action", "decide_action", "decide_tool", "decide_run", "decide_task",
      "claim_gate", "claim_insert", "claim_existing", "fail_lease", "refused", "ok", "idle",
      "resume_approval", "resume_lease", "resume_verify", "resume_consume", "resume_complete",
      "resume_tool", "resume_run", "resume_task",
      "close_lease", "close_action", "close_run", "close_task", "close_tool"} \subseteq Labels
  /\ {"expire_approval", "decide_approval", "claim_row", "resume_row"} \subseteq Labels
BY DEF Labels, Finished

\* decide_approval keeps the domains.
LEMMA DecideType ==
  ASSUME TypeOK, NEW t \in Threads, Decide(t)
  PROVE  TypeOK'
<1> USE LabelsOfHandlers DEF Decisions, Statuses, WorkStatuses
<1>1. CASE ExpireApproval(t)
  BY <1>1, SetApprovalType DEF ExpireApproval
<1>2. CASE ExpireAction(t)
  BY <1>2, SetStatusType DEF ExpireAction
<1>3. CASE DecideApproval(t)
  BY <1>3, SetApprovalType DEF DecideApproval, Verdict
<1>4. CASE DecideAction(t)
  BY <1>4, SetStatusType DEF DecideAction, Verdict
<1>5. CASE DecideTool(t)
  BY <1>5, SetToolType DEF DecideTool
<1>6. CASE DecideRun(t)
  BY <1>6, SetRunType DEF DecideRun
<1>7. CASE DecideTask(t)
  BY <1>7, SetTaskType DEF DecideTask
<1> QED
  BY <1>1, <1>2, <1>3, <1>4, <1>5, <1>6, <1>7 DEF Decide

\* claim-execution keeps the domains.
LEMMA ClaimType ==
  ASSUME TypeOK, NEW t \in Threads, Claim(t)
  PROVE  TypeOK'
<1> USE LabelsOfHandlers
<1>1. CASE ClaimRow(t)
  BY <1>1, ReadRowType DEF ClaimRow
<1>2. CASE ClaimGate(t)
  BY <1>2, GotoType DEF ClaimGate, Branch
<1>3. CASE ClaimInsert(t)
  <2> DEFINE more == grants[Target(t)] + 1
  <2>1. Target(t) \in Actions => more \in Nat
    BY DEF TypeOK
  <2>2. grants' = [grants EXCEPT ![Target(t)] = more]
    BY <1>3 DEF ClaimInsert
  <2> HIDE DEF more
  <2>3. grants' \in [Actions -> Nat]
    BY <2>1, <2>2 DEF TypeOK
  <2>4. lease' \in [Actions -> LeaseStatuses]
    BY <1>3 DEF TypeOK, ClaimInsert, LeaseStatuses
  <2>5. pc' \in [Threads -> Labels]
    BY <1>3 DEF TypeOK, ClaimInsert, Goto
  <2> QED
    BY <1>3, <2>3, <2>4, <2>5 DEF TypeOK, ClaimInsert, clocks
<1>4. CASE ClaimConflict(t)
  BY <1>4, GotoType DEF ClaimConflict
<1>5. CASE ClaimExisting(t)
  BY <1>5, GotoType DEF ClaimExisting, Branch
<1> QED
  BY <1>1, <1>2, <1>3, <1>4, <1>5 DEF Claim

\* fail-execution and the closing of a lapsed lease keep the domains.
LEMMA CloseType ==
  ASSUME TypeOK, NEW t \in Threads, Close(t) \/ FailLease(t)
  PROVE  TypeOK'
<1> USE LabelsOfHandlers DEF WorkStatuses
<1>1. CASE CloseLease(t)
  BY <1>1, MoveLeaseType DEF CloseLease, LeaseStatuses
<1>2. CASE CloseAction(t)
  <2> DEFINE value == IF status[Target(t)] = "approved" THEN "expired" ELSE status[Target(t)]
  <2>1. Target(t) \in Actions => value \in Statuses
    BY DEF TypeOK, Statuses
  <2>2. SetStatus(t, "close_action", value, "close_run")
    BY <1>2 DEF CloseAction
  <2> HIDE DEF value
  <2> QED
    BY <2>1, <2>2, SetStatusType
<1>3. CASE CloseRun(t)
  BY <1>3, SetRunType DEF CloseRun
<1>4. CASE CloseTask(t)
  BY <1>4, SetTaskType DEF CloseTask
<1>5. CASE CloseTool(t)
  BY <1>5, SetToolType DEF CloseTool
<1>6. CASE FailLease(t)
  BY <1>6, GotoType DEF FailLease, Branch
<1> QED
  BY <1>1, <1>2, <1>3, <1>4, <1>5, <1>6 DEF Close

\* A resumed run or task has a status of its domain.
LEMMA ResumedType ==
  ASSUME NEW t \in Threads, NEW work \in WorkStatuses
  PROVE  Resumed(t, work) \in WorkStatuses
BY DEF Resumed, WorkStatuses

\* resume keeps the domains.
LEMMA ResumeType ==
  ASSUME TypeOK, NEW t \in Threads, Resume(t)
  PROVE  TypeOK'
<1> USE LabelsOfHandlers
<1>1. CASE ResumeRow(t)
  BY <1>1, ReadRowType DEF ResumeRow
<1>2. CASE ResumeApproval(t)
  <2> DEFINE seen == approval[Target(t)] = "approved"
  <2>1. seen \in BOOLEAN
    OBVIOUS
  <2>2. req' = [req EXCEPT ![t] = [req[t] EXCEPT !.sawApproved = seen]]
    BY <1>2, Zenon DEF ResumeApproval
  <2>3. PICK next \in Labels : Goto(t, next)
    BY <1>2 DEF ResumeApproval, Branch
  <2>4. UNCHANGED <<ledger, clocks, history>>
    BY <1>2 DEF ResumeApproval
  <2> HIDE DEF seen
  <2>5. [req[t] EXCEPT !.sawApproved = seen] \in Requests
    BY <2>1 DEF TypeOK, Requests
  <2>6. req' \in [Threads -> Requests]
    BY <2>5, <2>2 DEF TypeOK
  <2> QED
    BY <2>3, <2>4, <2>6 DEF TypeOK, Goto, ledger, clocks, history
<1>3. CASE ResumeLease(t)
  BY <1>3, GotoType DEF ResumeLease, Branch
<1>4. CASE ResumeVerify(t)
  BY <1>4, GotoType DEF ResumeVerify, Branch
<1>5. CASE ResumeConsume(t)
  <2> DEFINE more == spends[Target(t)] + 1
  <2>1. Target(t) \in Actions => more \in Nat
    BY DEF TypeOK
  <2>2. spends' = [spends EXCEPT ![Target(t)] = more]
    BY <1>5 DEF ResumeConsume
  <2> HIDE DEF more
  <2>3. spends' \in [Actions -> Nat]
    BY <2>1, <2>2 DEF TypeOK
  <2>4. consumed' \in [Actions -> BOOLEAN] /\ status' \in [Actions -> Statuses]
    BY <1>5 DEF TypeOK, ResumeConsume, Statuses
  <2>5. pc' \in [Threads -> Labels]
    BY <1>5 DEF TypeOK, ResumeConsume, Goto
  <2> QED
    BY <1>5, <2>3, <2>4, <2>5 DEF TypeOK, ResumeConsume, clocks
<1>6. CASE ResumeSpent(t)
  BY <1>6, GotoType DEF ResumeSpent
<1>7. CASE ResumeComplete(t)
  BY <1>7, MoveLeaseType DEF ResumeComplete, LeaseStatuses
<1>8. CASE ResumeTool(t)
  BY <1>8, SetToolType DEF ResumeTool, WorkStatuses
<1>9. CASE ResumeRun(t)
  <2>1. Target(t) \in Actions => Resumed(t, run[Target(t)]) \in WorkStatuses
    BY ResumedType DEF TypeOK
  <2> QED
    BY <1>9, <2>1, SetRunType DEF ResumeRun
<1>10. CASE ResumeTask(t)
  <2>1. Target(t) \in Actions => Resumed(t, task[Target(t)]) \in WorkStatuses
    BY ResumedType DEF TypeOK
  <2> QED
    BY <1>10, <2>1, SetTaskType DEF ResumeTask
<1> QED
  BY <1>1, <1>2, <1>3, <1>4, <1>5, <1>6, <1>7, <1>8, <1>9, <1>10 DEF Resume

\* Every request arrives within the domains.
LEMMA BeginType ==
  ASSUME TypeOK, NEW t \in Threads, NEW a \in Actions, Begin(t, a)
  PROVE  TypeOK'
<1> USE LabelsOfHandlers DEF Operations
<1>1. CASE BeginApprove(t, a)
  BY <1>1, ArriveType DEF BeginApprove
<1>2. CASE BeginReject(t, a)
  BY <1>2, ArriveType DEF BeginReject
<1>3. CASE BeginClaim(t, a)
  BY <1>3, ArriveType DEF BeginClaim
<1>4. ASSUME NEW holder \in BOOLEAN, BeginFail(t, a, holder)
      PROVE  TypeOK'
  BY <1>4, ArriveType DEF BeginFail
<1>5. ASSUME NEW holder \in BOOLEAN, BeginResume(t, a, holder)
      PROVE  TypeOK'
  BY <1>5, ArriveType DEF BeginResume
<1> QED
  BY <1>1, <1>2, <1>3, <1>4, <1>5 DEF Begin

\* Prepare, the clock and recorded evidence keep the domains.
LEMMA EnvironmentType ==
  ASSUME TypeOK, NEW a \in Actions,
         Prepare(a) \/ ActionLapses(a) \/ LeaseLapses(a) \/ RecordEvidence(a)
  PROVE  TypeOK'
<1>1. CASE Prepare(a)
  BY <1>1 DEF TypeOK, Prepare, Decisions, Statuses, WorkStatuses, clocks, history
<1>2. CASE ActionLapses(a)
  BY <1>2 DEF TypeOK, ActionLapses, ledger, history
<1>3. CASE LeaseLapses(a)
  BY <1>3 DEF TypeOK, LeaseLapses, ledger, history
<1>4. CASE RecordEvidence(a)
  BY <1>4 DEF TypeOK, RecordEvidence, clocks, history
<1> QED
  BY <1>1, <1>2, <1>3, <1>4

\* A response or a cut-off keeps the domains.
LEMMA DisconnectType ==
  ASSUME TypeOK, NEW t \in Threads, Respond(t) \/ CutOff(t)
  PROVE  TypeOK'
<1>1. NoRequest \in Requests
  BY DEF NoRequest, Requests, Operations
<1>2. CASE Respond(t)
  BY <1>1, <1>2, LabelsOfHandlers DEF TypeOK, Respond, Goto, ledger, clocks, history
<1>3. CASE CutOff(t)
  BY <1>1, <1>3, LabelsOfHandlers DEF TypeOK, CutOff, Goto, Target, ledger, clocks
<1> QED
  BY <1>2, <1>3

\* Every step keeps the domains.
LEMMA TypeStep ==
  ASSUME TypeOK, [Next]_vars
  PROVE  TypeOK'
<1>1. CASE UNCHANGED vars
  BY <1>1 DEF TypeOK, vars, ledger, clocks, history
<1>2. ASSUME NEW a \in Actions,
             Prepare(a) \/ ActionLapses(a) \/ LeaseLapses(a) \/ RecordEvidence(a)
      PROVE  TypeOK'
  BY <1>2, EnvironmentType
<1>3. ASSUME NEW t \in Threads, NEW a \in Actions, Begin(t, a)
      PROVE  TypeOK'
  BY <1>3, BeginType
<1>4. ASSUME NEW t \in Threads, Statement(t)
      PROVE  TypeOK'
  BY <1>4, DecideType, ClaimType, CloseType, ResumeType DEF Statement
<1>5. ASSUME NEW t \in Threads, Respond(t) \/ CutOff(t)
      PROVE  TypeOK'
  BY <1>5, DisconnectType
<1> QED
  BY <1>1, <1>2, <1>3, <1>4, <1>5 DEF Next

\* Every statement of every handler keeps each row, clock and program counter in
\* its domain.
THEOREM TypeCorrect == Spec => []TypeOK
<1>1. Init => TypeOK
  BY DEF Init, TypeOK, Decisions, Statuses, LeaseStatuses, WorkStatuses, Labels, Requests,
         NoRequest, Operations
<1>2. TypeOK /\ [Next]_vars => TypeOK'
  BY TypeStep
<1> QED
  BY <1>1, <1>2, PTL DEF Spec

-----------------------------------------------------------------------------
(* The inductive invariant.  A handler tests rows that other handlers go on *)
(* changing; what it has passed is still true at its last statement because *)
(* nothing it tested is ever taken back (Kept).                             *)

\* What a thread that is about to run the statement label may rely on.
Entitled(t, label) ==
  /\ label # "idle" => Target(t) \in Actions /\ approval[Target(t)] # "none"
  /\ (label # "idle" /\ req[t].sawApproved) => authorised[Target(t)]
  /\ label \in {"claim_insert", "resume_verify", "resume_consume"} => authorised[Target(t)]
  /\ label \in {"claim_insert", "resume_lease", "resume_verify"} => Target(t) \in WorkspaceWrite
  /\ (label \in {"resume_verify", "resume_consume"} /\ Target(t) \in WorkspaceWrite)
       => lease[Target(t)] # "none"
  /\ (label = "resume_consume" /\ Target(t) \in WorkspaceWrite) => evidence[Target(t)]
  /\ label \in {"resume_complete", "resume_tool", "resume_run", "resume_task"}
       => consumed[Target(t)]

ThreadsEntitled == \A t \in Threads : Entitled(t, pc[t])

\* The rows of one action, and the histories that count what they show.
RowsAgree ==
  \A a \in Actions :
    /\ lease[a] # "none" => a \in WorkspaceWrite /\ approval[a] # "none"
    /\ approval[a] = "approved" => authorised[a]
    /\ grants[a] = IF lease[a] = "none" THEN 0 ELSE 1
    /\ spends[a] = IF consumed[a] THEN 1 ELSE 0

Rows == RowsAgree /\ ConsumptionIsEarned /\ CompletedMeansConsumed

IInv == TypeOK /\ ThreadsEntitled /\ Rows

\* What no step takes back.
Kept ==
  \A a \in Actions :
    /\ approval[a] # "none" => approval'[a] # "none"
    /\ authorised[a] => authorised'[a]
    /\ lease[a] # "none" => lease'[a] # "none"
    /\ evidence[a] => evidence'[a]
    /\ consumed[a] => consumed'[a]

\* The threads that do not move stay entitled.
LEMMA ThreadsStep ==
  ASSUME TypeOK, ThreadsEntitled, Kept, NEW t \in Threads, NEW next, Goto(t, next),
         \A u \in Threads \ {t} : req'[u] = req[u],
         Entitled(t, next)'
  PROVE  ThreadsEntitled'
<1> SUFFICES ASSUME NEW u \in Threads
             PROVE  Entitled(u, pc[u])'
  BY DEF ThreadsEntitled
<1>1. CASE u = t
  <2>1. pc'[u] = next
    BY <1>1 DEF TypeOK, Goto
  <2> QED
    BY <1>1, <2>1 DEF Entitled
<1>2. CASE u # t
  <2>1. pc'[u] = pc[u] /\ req'[u] = req[u]
    BY <1>2 DEF TypeOK, Goto
  <2>2. Entitled(u, pc[u])
    BY DEF ThreadsEntitled
  <2> QED
    BY <2>1, <2>2 DEF Entitled, Kept, Target
<1> QED
  BY <1>1, <1>2

\* The clock and the ledger move, no thread does.
LEMMA NoThreadStep ==
  ASSUME ThreadsEntitled, Kept, UNCHANGED <<pc, req>>
  PROVE  ThreadsEntitled'
BY DEF ThreadsEntitled, Entitled, Kept, Target

\* A step that leaves the ledger and the histories alone keeps the rows.
LEMMA RowsUnchanged ==
  ASSUME Rows, UNCHANGED <<approval, consumed, lease, evidence, authorised, grants, spends>>
  PROVE  Kept /\ Rows'
BY DEF Rows, RowsAgree, ConsumptionIsEarned, CompletedMeansConsumed, Kept

\* Updates that touch neither a decision, a lease nor a consumption.
LEMMA WorkStep ==
  ASSUME IInv, NEW t \in Threads, NEW next, Goto(t, next),
         UNCHANGED <<approval, consumed, lease, evidence, req, authorised, grants, spends>>,
         Entitled(t, next)
  PROVE  ThreadsEntitled' /\ Rows'
<1>1. Kept /\ Rows'
  BY RowsUnchanged DEF IInv
<1>2. Entitled(t, next)'
  BY DEF Entitled, Target
<1> QED
  BY <1>1, <1>2, ThreadsStep DEF IInv

\* What the thread that moves may rely on.
LEMMA EntitledHere ==
  ASSUME IInv, NEW t \in Threads
  PROVE  Entitled(t, pc[t])
BY DEF IInv, ThreadsEntitled

\* A statement of decide_approval keeps entitlement and rows.
LEMMA DecideStep ==
  ASSUME IInv, NEW t \in Threads, Decide(t)
  PROVE  ThreadsEntitled' /\ Rows'
<1> USE EntitledHere
<1>1. ASSUME NEW here, NEW decision, NEW next, here # "idle", decision # "none",
             next \in {"expire_action", "decide_action"},
             SetApproval(t, here, decision, next)
      PROVE  ThreadsEntitled' /\ Rows'
  <2>1. Kept /\ Rows'
    BY <1>1 DEF IInv, TypeOK, Rows, RowsAgree, ConsumptionIsEarned, CompletedMeansConsumed,
                Kept, SetApproval, Entitled
  <2>2. Entitled(t, next)'
    BY <1>1 DEF IInv, TypeOK, SetApproval, Entitled, Target
  <2> QED
    BY <1>1, <2>1, <2>2, ThreadsStep DEF IInv, SetApproval
<1>2. CASE ExpireApproval(t) \/ DecideApproval(t)
  BY <1>1, <1>2 DEF ExpireApproval, DecideApproval, Verdict
<1>3. CASE ExpireAction(t) \/ DecideAction(t)
  BY <1>3, WorkStep DEF ExpireAction, DecideAction, SetStatus, Entitled, history
<1>4. CASE DecideTool(t)
  BY <1>4, WorkStep DEF DecideTool, SetTool, Entitled, history
<1>5. CASE DecideRun(t)
  BY <1>5, WorkStep DEF DecideRun, SetRun, Entitled, history
<1>6. CASE DecideTask(t)
  BY <1>6, WorkStep DEF DecideTask, SetTask, Entitled, history
<1> QED
  BY <1>2, <1>3, <1>4, <1>5, <1>6 DEF Decide

\* Reading the row changes only what the thread itself has read.
LEMMA ReadRowStep ==
  ASSUME IInv, NEW t \in Threads, NEW here, NEW next, here # "idle",
         next \in {"claim_gate", "resume_approval"}, ReadRow(t, here, next)
  PROVE  ThreadsEntitled' /\ Rows'
<1>1. Kept /\ Rows'
  BY RowsUnchanged DEF IInv, ReadRow, ledger, history
<1>2. Entitled(t, next)'
  BY EntitledHere DEF IInv, TypeOK, ReadRow, Entitled, Target, Requests, ledger, history
<1>3. \A u \in Threads \ {t} : req'[u] = req[u]
  BY DEF IInv, TypeOK, ReadRow
<1> QED
  BY <1>1, <1>2, <1>3, ThreadsStep DEF IInv, ReadRow

\* A statement of claim-execution keeps entitlement and rows.
LEMMA ClaimStep ==
  ASSUME IInv, NEW t \in Threads, Claim(t)
  PROVE  ThreadsEntitled' /\ Rows'
<1> USE EntitledHere
<1>1. CASE ClaimRow(t)
  BY <1>1, ReadRowStep DEF ClaimRow
<1>2. CASE ClaimGate(t)
  <2>1. approval[Target(t)] = "approved" => authorised[Target(t)]
    BY <1>2 DEF IInv, Rows, RowsAgree, ClaimGate, Entitled
  <2> QED
    BY <1>2, <2>1, WorkStep DEF ClaimGate, Branch, GateOpen, Entitled, ledger, history
<1>3. CASE ClaimInsert(t)
  <2>1. Kept /\ Rows'
    BY <1>3 DEF IInv, TypeOK, Rows, RowsAgree, ConsumptionIsEarned, CompletedMeansConsumed,
                Kept, ClaimInsert, LeaseFree, Entitled
  <2>2. Entitled(t, "ok")'
    BY <1>3 DEF IInv, TypeOK, ClaimInsert, Entitled, Target
  <2> QED
    BY <1>3, <2>1, <2>2, ThreadsStep DEF IInv, ClaimInsert
<1>4. CASE ClaimConflict(t)
  BY <1>4, WorkStep DEF ClaimConflict, Entitled, ledger, history
<1>5. CASE ClaimExisting(t)
  BY <1>5, WorkStep DEF ClaimExisting, Branch, Entitled, ledger, history
<1> QED
  BY <1>1, <1>2, <1>3, <1>4, <1>5 DEF Claim

\* A lease is completed only by the thread that consumed the action.
LEMMA MoveLeaseStep ==
  ASSUME IInv, NEW t \in Threads, NEW here, NEW value, NEW next, here # "idle",
         value \in {"failed", "completed"}, value = "completed" => consumed[Target(t)],
         Entitled(t, next), MoveLease(t, here, value, next)
  PROVE  ThreadsEntitled' /\ Rows'
<1>1. Kept /\ Rows'
  BY EntitledHere DEF IInv, TypeOK, Rows, RowsAgree, ConsumptionIsEarned,
                      CompletedMeansConsumed, Kept, MoveLease, Entitled, history
<1>2. Entitled(t, next)'
  BY <1>1 DEF Kept, MoveLease, Entitled, Target, history
<1> QED
  BY <1>1, <1>2, ThreadsStep DEF IInv, MoveLease

\* A closing update keeps entitlement and rows.
LEMMA CloseStep ==
  ASSUME IInv, NEW t \in Threads, Close(t) \/ FailLease(t)
  PROVE  ThreadsEntitled' /\ Rows'
<1> USE EntitledHere
<1>1. CASE CloseLease(t)
  <2>1. Entitled(t, "close_action")
    BY <1>1 DEF CloseLease, MoveLease, Entitled
  <2> QED
    BY <1>1, <2>1, MoveLeaseStep DEF CloseLease
<1>2. CASE CloseAction(t)
  BY <1>2, WorkStep DEF CloseAction, SetStatus, Entitled, history
<1>3. CASE CloseRun(t)
  BY <1>3, WorkStep DEF CloseRun, SetRun, Entitled, history
<1>4. CASE CloseTask(t)
  BY <1>4, WorkStep DEF CloseTask, SetTask, Entitled, history
<1>5. CASE CloseTool(t)
  BY <1>5, WorkStep DEF CloseTool, SetTool, Entitled, history
<1>6. CASE FailLease(t)
  BY <1>6, WorkStep DEF FailLease, Branch, Entitled, ledger, history
<1> QED
  BY <1>1, <1>2, <1>3, <1>4, <1>5, <1>6 DEF Close

\* A statement of resume keeps entitlement and rows.
LEMMA ResumeStep ==
  ASSUME IInv, NEW t \in Threads, Resume(t)
  PROVE  ThreadsEntitled' /\ Rows'
<1> USE EntitledHere
<1>1. CASE ResumeRow(t)
  BY <1>1, ReadRowStep DEF ResumeRow
<1>2. CASE ResumeApproval(t)
  <2>1. PICK next \in {"resume_lease", "resume_consume", "refused"} :
          /\ Goto(t, next)
          /\ next = "resume_lease" => Target(t) \in WorkspaceWrite
          /\ next = "resume_consume" =>
               Target(t) \notin WorkspaceWrite /\ approval[Target(t)] = "approved"
    BY <1>2 DEF ResumeApproval, Branch, GateOpen
  <2>2. Kept /\ Rows'
    BY <1>2, RowsUnchanged DEF IInv, ResumeApproval, ledger, history
  <2>3. \A u \in Threads \ {t} : req'[u] = req[u]
    BY <1>2 DEF IInv, TypeOK, ResumeApproval
  <2>4. Entitled(t, next)'
    BY <1>2, <2>1 DEF IInv, TypeOK, Rows, RowsAgree, ResumeApproval, Entitled, Target,
                      Requests, ledger, history
  <2> QED
    BY <2>1, <2>2, <2>3, <2>4, ThreadsStep DEF IInv
<1>3. CASE ResumeLease(t)
  BY <1>3, WorkStep DEF ResumeLease, Branch, GateOpen, Entitled, ledger, history
<1>4. CASE ResumeVerify(t)
  BY <1>4, WorkStep DEF ResumeVerify, Branch, Entitled, ledger, history
<1>5. CASE ResumeConsume(t)
  <2>1. PICK next \in {"resume_complete", "resume_tool"} : Goto(t, next)
    BY <1>5 DEF ResumeConsume
  <2>2. Kept /\ Rows'
    BY <1>5 DEF IInv, TypeOK, Rows, RowsAgree, ConsumptionIsEarned, CompletedMeansConsumed,
                Kept, ResumeConsume, Spendable, Entitled
  <2>3. Entitled(t, next)'
    BY <1>5 DEF IInv, TypeOK, ResumeConsume, Entitled, Target
  <2> QED
    BY <1>5, <2>1, <2>2, <2>3, ThreadsStep DEF IInv, ResumeConsume
<1>6. CASE ResumeSpent(t)
  BY <1>6, WorkStep DEF ResumeSpent, Entitled, ledger, history
<1>7. CASE ResumeComplete(t)
  <2>1. Entitled(t, "resume_tool") /\ consumed[Target(t)]
    BY <1>7 DEF ResumeComplete, MoveLease, Entitled
  <2> QED
    BY <1>7, <2>1, MoveLeaseStep DEF ResumeComplete
<1>8. CASE ResumeTool(t)
  BY <1>8, WorkStep DEF ResumeTool, SetTool, Entitled, history
<1>9. CASE ResumeRun(t)
  BY <1>9, WorkStep DEF ResumeRun, SetRun, Entitled, history
<1>10. CASE ResumeTask(t)
  BY <1>10, WorkStep DEF ResumeTask, SetTask, Entitled, history
<1> QED
  BY <1>1, <1>2, <1>3, <1>4, <1>5, <1>6, <1>7, <1>8, <1>9, <1>10 DEF Resume

\* An arriving request is entitled to its first statement.
LEMMA ArriveStep ==
  ASSUME IInv, NEW t \in Threads, NEW a \in Actions, NEW op, NEW holder, NEW first,
         first \in {"expire_approval", "decide_approval", "claim_row", "fail_lease", "resume_row"},
         Arrive(t, a, op, holder, first)
  PROVE  ThreadsEntitled' /\ Rows'
<1>1. Kept /\ Rows'
  BY RowsUnchanged DEF IInv, Arrive, ledger, history
<1>2. req'[t].action = a /\ req'[t].sawApproved = FALSE
  BY DEF IInv, TypeOK, Arrive, NoRequest
<1>3. \A u \in Threads \ {t} : req'[u] = req[u]
  BY DEF IInv, TypeOK, Arrive
<1>4. Entitled(t, first)'
  BY <1>2 DEF Arrive, Entitled, Target, ledger
<1> QED
  BY <1>1, <1>3, <1>4, ThreadsStep DEF IInv, Arrive

\* Every kind of request arrives entitled.
LEMMA BeginStep ==
  ASSUME IInv, NEW t \in Threads, NEW a \in Actions, Begin(t, a)
  PROVE  ThreadsEntitled' /\ Rows'
<1>1. CASE BeginApprove(t, a) \/ BeginReject(t, a) \/ BeginClaim(t, a)
  BY <1>1, ArriveStep DEF BeginApprove, BeginReject, BeginClaim
<1>2. ASSUME NEW holder \in BOOLEAN, BeginFail(t, a, holder) \/ BeginResume(t, a, holder)
      PROVE  ThreadsEntitled' /\ Rows'
  BY <1>2, ArriveStep DEF BeginFail, BeginResume
<1> QED
  BY <1>1, <1>2 DEF Begin

\* Prepare, the clock and recorded evidence keep entitlement and rows.
LEMMA EnvironmentStep ==
  ASSUME IInv, NEW a \in Actions,
         Prepare(a) \/ ActionLapses(a) \/ LeaseLapses(a) \/ RecordEvidence(a)
  PROVE  ThreadsEntitled' /\ Rows'
<1>1. CASE Prepare(a)
  <2>1. Kept /\ Rows'
    BY <1>1 DEF IInv, TypeOK, Rows, RowsAgree, ConsumptionIsEarned, CompletedMeansConsumed,
                Kept, Prepare, history
  <2> QED
    BY <1>1, <2>1, NoThreadStep DEF IInv, Prepare
<1>2. CASE ActionLapses(a)
  BY <1>2, RowsUnchanged, NoThreadStep DEF IInv, ActionLapses, ledger, history
<1>3. CASE LeaseLapses(a)
  BY <1>3, RowsUnchanged, NoThreadStep DEF IInv, LeaseLapses, ledger, history
<1>4. CASE RecordEvidence(a)
  <2>1. Kept /\ Rows'
    BY <1>4 DEF IInv, TypeOK, Rows, RowsAgree, ConsumptionIsEarned, CompletedMeansConsumed,
                Kept, RecordEvidence, history
  <2> QED
    BY <1>4, <2>1, NoThreadStep DEF IInv, RecordEvidence
<1> QED
  BY <1>1, <1>2, <1>3, <1>4

\* A response or a cut-off keeps entitlement and rows.
LEMMA DisconnectStep ==
  ASSUME IInv, NEW t \in Threads, Respond(t) \/ CutOff(t)
  PROVE  ThreadsEntitled' /\ Rows'
<1>1. Kept /\ Rows'
  BY RowsUnchanged DEF IInv, Respond, CutOff, ledger, history
<1>2. Goto(t, "idle") /\ \A u \in Threads \ {t} : req'[u] = req[u]
  BY DEF IInv, TypeOK, Respond, CutOff
<1>3. Entitled(t, "idle")'
  BY DEF Entitled
<1> QED
  BY <1>1, <1>2, <1>3, ThreadsStep DEF IInv

\* The invariant is inductive.
LEMMA InvariantStep ==
  ASSUME IInv, [Next]_vars
  PROVE  IInv'
<1>1. TypeOK'
  BY TypeStep DEF IInv
<1> SUFFICES ThreadsEntitled' /\ Rows'
  BY <1>1 DEF IInv
<1>2. CASE UNCHANGED vars
  BY <1>2, RowsUnchanged, NoThreadStep DEF IInv, vars, ledger, history
<1>3. ASSUME NEW a \in Actions,
             Prepare(a) \/ ActionLapses(a) \/ LeaseLapses(a) \/ RecordEvidence(a)
      PROVE  ThreadsEntitled' /\ Rows'
  BY <1>3, EnvironmentStep
<1>4. ASSUME NEW t \in Threads, NEW a \in Actions, Begin(t, a)
      PROVE  ThreadsEntitled' /\ Rows'
  BY <1>4, BeginStep
<1>5. ASSUME NEW t \in Threads, Statement(t)
      PROVE  ThreadsEntitled' /\ Rows'
  BY <1>5, DecideStep, ClaimStep, CloseStep, ResumeStep DEF Statement
<1>6. ASSUME NEW t \in Threads, Respond(t) \/ CutOff(t)
      PROVE  ThreadsEntitled' /\ Rows'
  BY <1>6, DisconnectStep
<1> QED
  BY <1>2, <1>3, <1>4, <1>5, <1>6 DEF Next

\* In every reachable state each thread is entitled to the statement it is about
\* to run and the rows of every action agree: the tests a handler made before its
\* last statement still stand when the statement commits.
THEOREM InvariantHolds == Spec => []IInv
<1>1. Init => IInv
  <2> SUFFICES ASSUME Init PROVE IInv
    OBVIOUS
  <2>1. TypeOK
    BY DEF Init, TypeOK, Decisions, Statuses, LeaseStatuses, WorkStatuses, Labels, Requests,
           NoRequest, Operations
  <2>2. ThreadsEntitled
    BY DEF Init, ThreadsEntitled, Entitled
  <2>3. Rows
    BY DEF Init, Rows, RowsAgree, ConsumptionIsEarned, CompletedMeansConsumed
  <2> QED
    BY <2>1, <2>2, <2>3 DEF IInv
<1>2. IInv /\ [Next]_vars => IInv'
  BY InvariantStep
<1> QED
  BY <1>1, <1>2, PTL DEF Spec

\* At most one execution lease is ever granted for an action, and at most one
\* resume consumes it, for any number of concurrent claims, failures, resumes,
\* decisions and cut-off requests.
THEOREM ExecutedAtMostOnce == Spec => []AtMostOnce
<1>1. ASSUME IInv, NEW a \in Actions
      PROVE  grants[a] \in {0, 1} /\ spends[a] \in {0, 1}
  BY <1>1 DEF IInv, Rows, RowsAgree
<1>2. IInv => AtMostOnce
  <2> SUFFICES ASSUME IInv, NEW a \in Actions
               PROVE  grants[a] <= 1 /\ spends[a] <= 1
    BY DEF AtMostOnce
  <2>1. \A n \in {0, 1} : n <= 1
    OBVIOUS
  <2> QED
    BY <1>1, <2>1
<1> QED
  BY <1>2, InvariantHolds, PTL

\* A consumed action was approved by a human, and a consumed workspace write was
\* leased and has verified evidence.
THEOREM ConsumptionAlwaysEarned == Spec => []ConsumptionIsEarned
<1>1. IInv => ConsumptionIsEarned
  BY DEF IInv, Rows
<1> QED
  BY <1>1, InvariantHolds, PTL

\* A completed lease belongs to a consumed action.
THEOREM CompletedAlwaysConsumed == Spec => []CompletedMeansConsumed
<1>1. IInv => CompletedMeansConsumed
  BY DEF IInv, Rows
<1> QED
  BY <1>1, InvariantHolds, PTL

-----------------------------------------------------------------------------
(* Action properties.  First, what a step can be: of one thread it moves,   *)
(* of the lease and the consumption it changes, of the gate it passes.      *)

\* A statement of one thread moves no other thread.
LEMMA StatementFrame ==
  ASSUME TypeOK, NEW t \in Threads, Statement(t), NEW u \in Threads, u # t
  PROVE  pc'[u] = pc[u] /\ req'[u] = req[u]
<1>1. CASE Decide(t)
  BY <1>1 DEF TypeOK, Decide, ExpireApproval, ExpireAction, DecideApproval, DecideAction,
              DecideTool, DecideRun, DecideTask, SetApproval, SetStatus, SetTool, SetRun,
              SetTask, Goto
<1>2. CASE Claim(t)
  BY <1>2 DEF TypeOK, Claim, ClaimRow, ClaimGate, ClaimInsert, ClaimConflict, ClaimExisting,
              ReadRow, Branch, Goto
<1>3. CASE Close(t) \/ FailLease(t)
  BY <1>3 DEF TypeOK, Close, CloseLease, CloseAction, CloseRun, CloseTask, CloseTool,
              FailLease, MoveLease, SetStatus, SetTool, SetRun, SetTask, Branch, Goto
<1>4. CASE Resume(t)
  BY <1>4 DEF TypeOK, Resume, ResumeRow, ResumeApproval, ResumeLease, ResumeVerify,
              ResumeConsume, ResumeSpent, ResumeComplete, ResumeTool, ResumeRun, ResumeTask,
              ReadRow, MoveLease, SetTool, SetRun, SetTask, Branch, Goto
<1> QED
  BY <1>1, <1>2, <1>3, <1>4 DEF Statement

\* A step moves at most one thread.
LEMMA OneThreadMoves ==
  ASSUME TypeOK, [Next]_vars, NEW u \in Threads
  PROVE  \/ pc'[u] = pc[u] /\ req'[u] = req[u]
         \/ \E a \in Actions : Begin(u, a)
         \/ Statement(u) \/ Respond(u) \/ CutOff(u)
<1>1. CASE UNCHANGED vars
  BY <1>1 DEF vars
<1>2. ASSUME NEW a \in Actions,
             Prepare(a) \/ ActionLapses(a) \/ LeaseLapses(a) \/ RecordEvidence(a)
      PROVE  pc'[u] = pc[u] /\ req'[u] = req[u]
  BY <1>2 DEF Prepare, ActionLapses, LeaseLapses, RecordEvidence
<1>3. ASSUME NEW t \in Threads, NEW a \in Actions, Begin(t, a), u # t
      PROVE  pc'[u] = pc[u] /\ req'[u] = req[u]
  BY <1>3 DEF TypeOK, Begin, BeginApprove, BeginReject, BeginClaim, BeginFail, BeginResume,
              Arrive, Goto
<1>4. ASSUME NEW t \in Threads, Statement(t), u # t
      PROVE  pc'[u] = pc[u] /\ req'[u] = req[u]
  BY <1>4, StatementFrame
<1>5. ASSUME NEW t \in Threads, Respond(t) \/ CutOff(t), u # t
      PROVE  pc'[u] = pc[u] /\ req'[u] = req[u]
  BY <1>5 DEF TypeOK, Respond, CutOff, Goto
<1> QED
  BY <1>1, <1>2, <1>3, <1>4, <1>5 DEF Next

\* Which steps write what: every other step leaves these variables alone.
LEMMA Writers ==
  ASSUME [Next]_vars
  PROVE  /\ \/ UNCHANGED <<lease, consumed, grants, spends>>
            \/ \E t \in Threads :
                 ClaimInsert(t) \/ CloseLease(t) \/ ResumeComplete(t) \/ ResumeConsume(t)
         /\ \/ UNCHANGED authorised
            \/ \E t \in Threads : ExpireApproval(t) \/ DecideApproval(t)
         /\ UNCHANGED evidence \/ \E a \in Actions : RecordEvidence(a)
         /\ UNCHANGED lapsed \/ \E a \in Actions : ActionLapses(a)
         /\ UNCHANGED cut \/ \E t \in Threads : CutOff(t)
<1> DEFINE LeaseKept == UNCHANGED <<lease, consumed, grants, spends>>
           RestKept == UNCHANGED <<authorised, evidence, lapsed, cut>>
<1>1. CASE UNCHANGED vars
  BY <1>1 DEF vars, ledger, clocks, history
<1>2. ASSUME NEW a \in Actions, Prepare(a) \/ LeaseLapses(a)
      PROVE  LeaseKept /\ RestKept
  BY <1>2 DEF Prepare, LeaseLapses, ledger, clocks, history
<1>3. ASSUME NEW a \in Actions, ActionLapses(a)
      PROVE  LeaseKept /\ UNCHANGED <<authorised, evidence, cut>>
  BY <1>3 DEF ActionLapses, ledger, history
<1>4. ASSUME NEW a \in Actions, RecordEvidence(a)
      PROVE  LeaseKept /\ UNCHANGED <<authorised, lapsed, cut>>
  BY <1>4 DEF RecordEvidence, clocks, history
<1>5. ASSUME NEW t \in Threads, NEW a \in Actions, Begin(t, a)
      PROVE  LeaseKept /\ RestKept
  BY <1>5 DEF Begin, BeginApprove, BeginReject, BeginClaim, BeginFail, BeginResume, Arrive,
              ledger, clocks, history
<1>6. ASSUME NEW t \in Threads, ExpireApproval(t) \/ DecideApproval(t)
      PROVE  LeaseKept /\ UNCHANGED <<evidence, lapsed, cut>>
  BY <1>6 DEF ExpireApproval, DecideApproval, SetApproval, clocks
<1>7. ASSUME NEW t \in Threads, Decide(t), ~ExpireApproval(t), ~DecideApproval(t)
      PROVE  LeaseKept /\ RestKept
  BY <1>7 DEF Decide, ExpireAction, DecideAction, DecideTool, DecideRun, DecideTask,
              SetStatus, SetTool, SetRun, SetTask, clocks, history
<1>8. ASSUME NEW t \in Threads, Claim(t)
      PROVE  (LeaseKept \/ ClaimInsert(t)) /\ RestKept
  BY <1>8 DEF Claim, ClaimRow, ClaimGate, ClaimInsert, ClaimConflict, ClaimExisting, ReadRow,
              ledger, clocks, history
<1>9. ASSUME NEW t \in Threads, Close(t) \/ FailLease(t)
      PROVE  (LeaseKept \/ CloseLease(t)) /\ RestKept
  BY <1>9 DEF Close, CloseLease, CloseAction, CloseRun, CloseTask, CloseTool, FailLease,
              MoveLease, SetStatus, SetTool, SetRun, SetTask, ledger, clocks, history
<1>10. ASSUME NEW t \in Threads, Resume(t)
       PROVE  (LeaseKept \/ ResumeConsume(t) \/ ResumeComplete(t)) /\ RestKept
  BY <1>10 DEF Resume, ResumeRow, ResumeApproval, ResumeLease, ResumeVerify, ResumeConsume,
               ResumeSpent, ResumeComplete, ResumeTool, ResumeRun, ResumeTask, ReadRow,
               MoveLease, SetTool, SetRun, SetTask, ledger, clocks, history
<1>11. ASSUME NEW t \in Threads, Respond(t)
       PROVE  LeaseKept /\ RestKept
  BY <1>11 DEF Respond, ledger, clocks, history
<1>12. ASSUME NEW t \in Threads, CutOff(t)
       PROVE  LeaseKept /\ UNCHANGED <<authorised, evidence, lapsed>>
  BY <1>12 DEF CutOff, ledger, clocks
<1> QED
  BY <1>1, <1>2, <1>3, <1>4, <1>5, <1>6, <1>7, <1>8, <1>9, <1>10, <1>11, <1>12
     DEF Next, Statement

\* Only four statements take a thread through the gate.
LEMMA GateStep ==
  ASSUME TypeOK, [Next]_vars, NEW u \in Threads,
         pc'[u] \in {"claim_insert", "resume_verify", "resume_consume"}
  PROVE  /\ Target(u)' = Target(u)
         /\ pc'[u] = pc[u] \/ ClaimGate(u) \/ ResumeApproval(u) \/ ResumeLease(u) \/ ResumeVerify(u)
<1>1. CASE pc'[u] = pc[u] /\ req'[u] = req[u]
  BY <1>1 DEF Target
<1>2. ASSUME NEW a \in Actions, Begin(u, a)
      PROVE  FALSE
  BY <1>2 DEF TypeOK, Begin, BeginApprove, BeginReject, BeginClaim, BeginFail, BeginResume,
              Arrive, Goto
<1>3. CASE Decide(u)
  BY <1>3 DEF TypeOK, Decide, ExpireApproval, ExpireAction, DecideApproval, DecideAction,
              DecideTool, DecideRun, DecideTask, SetApproval, SetStatus, SetTool, SetRun,
              SetTask, Goto
<1>4. CASE Claim(u)
  BY <1>4 DEF TypeOK, Claim, ClaimRow, ClaimGate, ClaimInsert, ClaimConflict, ClaimExisting,
              ReadRow, Branch, Goto, Target
<1>5. CASE Close(u) \/ FailLease(u)
  BY <1>5 DEF TypeOK, Close, CloseLease, CloseAction, CloseRun, CloseTask, CloseTool,
              FailLease, MoveLease, SetStatus, SetTool, SetRun, SetTask, Branch, Goto
<1>6. CASE ResumeApproval(u)
  BY <1>6 DEF TypeOK, ResumeApproval, Target, Requests
<1>7. CASE Resume(u) /\ ~ResumeApproval(u)
  BY <1>7 DEF TypeOK, Resume, ResumeRow, ResumeLease, ResumeVerify,
              ResumeConsume, ResumeSpent, ResumeComplete, ResumeTool, ResumeRun, ResumeTask,
              ReadRow, MoveLease, SetTool, SetRun, SetTask, Branch, Goto, Target
<1>8. CASE Respond(u) \/ CutOff(u)
  BY <1>8 DEF TypeOK, Respond, CutOff, Goto
<1> QED
  BY <1>1, <1>2, <1>3, <1>4, <1>5, <1>6, <1>7, <1>8, OneThreadMoves DEF Statement

\* What a step leaves of the outcome of an action.
Final(a) ==
  /\ lease[a] \in {"completed", "failed"} => lease'[a] = lease[a]
  /\ lease[a] = "executing" => lease'[a] # "none"
  /\ consumed[a] => consumed'[a]

\* No step changes an outcome or takes back a lease or a consumption.
LEMMA OutcomeStep ==
  ASSUME TypeOK, [Next]_vars, NEW a \in Actions
  PROVE  Final(a)
<1>1. CASE UNCHANGED <<lease, consumed, grants, spends>>
  BY <1>1 DEF Final
<1>2. ASSUME NEW t \in Threads, ClaimInsert(t)
      PROVE  Final(a)
  BY <1>2 DEF TypeOK, ClaimInsert, LeaseFree, Final
<1>3. ASSUME NEW t \in Threads, CloseLease(t) \/ ResumeComplete(t)
      PROVE  Final(a)
  BY <1>3 DEF TypeOK, CloseLease, ResumeComplete, MoveLease, Final
<1>4. ASSUME NEW t \in Threads, ResumeConsume(t)
      PROVE  Final(a)
  BY <1>4 DEF TypeOK, ResumeConsume, Final
<1> QED
  BY <1>1, <1>2, <1>3, <1>4, Writers

\* No step takes back a lease, its outcome or a consumption.
THEOREM OutcomesStayFinal == Spec => OutcomeIsFinal
<1>1. TypeOK /\ [Next]_vars =>
        [\A a \in Actions :
           /\ lease[a] \in {"completed", "failed"} => lease'[a] = lease[a]
           /\ lease[a] = "executing" => lease'[a] # "none"
           /\ consumed[a] => consumed'[a]]_vars
  BY OutcomeStep DEF Final
<1> QED
  BY <1>1, TypeCorrect, PTL DEF Spec, OutcomeIsFinal

\* A failed, unconsumed workspace write stays failed and unconsumed: no later
\* approval, claim or resume replays the old approval.
THEOREM ClosedStaysClosedAlways == Spec => ClosedStaysClosed
<1>1. ASSUME TypeOK, Next, NEW a \in WorkspaceWrite, Closed(a)
      PROVE  Closed(a)'
  <2> a \in Actions
    BY ConstantsAssumption
  <2>1. ~PastLeaseTest(a)'
    <3> SUFFICES ASSUME NEW u \in Threads, Target(u)' = a,
                        pc'[u] \in {"resume_verify", "resume_consume"}
                 PROVE  FALSE
      BY DEF PastLeaseTest
    <3>1. Target(u) = a /\ pc[u] \notin {"resume_verify", "resume_consume"}
      BY <1>1, GateStep DEF Closed, PastLeaseTest
    <3>2. CASE ClaimGate(u)
      BY <1>1, <3>2 DEF TypeOK, ClaimGate, Branch, Goto
    <3>3. CASE ResumeApproval(u)
      BY <1>1, <3>1, <3>3 DEF TypeOK, ResumeApproval, Goto
    <3>4. CASE ResumeLease(u)
      BY <1>1, <3>1, <3>4 DEF TypeOK, ResumeLease, Branch, Goto, Closed
    <3>5. CASE ResumeVerify(u)
      BY <3>1, <3>5 DEF ResumeVerify
    <3> QED
      BY <1>1, <3>1, <3>2, <3>3, <3>4, <3>5, GateStep
  <2>2. lease'[a] = "failed" /\ ~consumed'[a]
    <3>1. CASE UNCHANGED <<lease, consumed, grants, spends>>
      BY <1>1, <3>1 DEF Closed
    <3>2. ASSUME NEW t \in Threads, ClaimInsert(t)
          PROVE  lease'[a] = "failed" /\ ~consumed'[a]
      BY <1>1, <3>2 DEF TypeOK, Closed, ClaimInsert, LeaseFree
    <3>3. ASSUME NEW t \in Threads, CloseLease(t) \/ ResumeComplete(t)
          PROVE  lease'[a] = "failed" /\ ~consumed'[a]
      BY <1>1, <3>3 DEF TypeOK, Closed, CloseLease, ResumeComplete, MoveLease
    <3>4. ASSUME NEW t \in Threads, ResumeConsume(t)
          PROVE  lease'[a] = "failed" /\ ~consumed'[a]
      BY <1>1, <3>4 DEF TypeOK, Closed, PastLeaseTest, ResumeConsume
    <3> QED
      BY <1>1, <3>1, <3>2, <3>3, <3>4, Writers
  <2> QED
    BY <2>1, <2>2 DEF Closed
<1>2. TypeOK /\ [Next]_vars => [\A a \in WorkspaceWrite : Closed(a) => Closed(a)']_vars
  BY <1>1
<1> QED
  BY <1>2, TypeCorrect, PTL DEF Spec, ClosedStaysClosed

\* A clock that has passed an expiry stays past it.
LEMMA LapsedStays ==
  ASSUME TypeOK, [Next]_vars, NEW a \in Actions, lapsed[a]
  PROVE  lapsed'[a]
BY Writers DEF TypeOK, ActionLapses

\* An action that lapses with no request past the gate is never leased and never
\* consumed, whatever is approved afterwards.
THEOREM DeadStaysDeadAlways == Spec => DeadStaysDead
<1>1. ASSUME TypeOK, Next, NEW a \in Actions, Dead(a)
      PROVE  Dead(a)'
  <2>1. ~PastGate(a)'
    <3> SUFFICES ASSUME NEW u \in Threads, Target(u)' = a,
                        pc'[u] \in {"claim_insert", "resume_verify", "resume_consume"}
                 PROVE  FALSE
      BY DEF PastGate
    <3>1. /\ Target(u) = a
          /\ pc[u] \notin {"claim_insert", "resume_verify", "resume_consume"}
      BY <1>1, GateStep DEF Dead, PastGate
    <3>2. CASE ClaimGate(u)
      BY <1>1, <3>1, <3>2 DEF TypeOK, ClaimGate, GateOpen, Branch, Goto, Dead
    <3>3. CASE ResumeApproval(u)
      BY <1>1, <3>1, <3>3 DEF TypeOK, ResumeApproval, GateOpen, Branch, Goto, Dead
    <3>4. CASE ResumeLease(u)
      BY <1>1, <3>1, <3>4 DEF TypeOK, ResumeLease, GateOpen, Branch, Goto, Dead
    <3>5. CASE ResumeVerify(u)
      BY <3>1, <3>5 DEF ResumeVerify
    <3> QED
      BY <1>1, <3>1, <3>2, <3>3, <3>4, <3>5, GateStep
  <2>2. grants'[a] = 0 /\ spends'[a] = 0
    <3>1. CASE UNCHANGED <<lease, consumed, grants, spends>>
      BY <1>1, <3>1 DEF Dead
    <3>2. ASSUME NEW t \in Threads, ClaimInsert(t)
          PROVE  grants'[a] = 0 /\ spends'[a] = 0
      BY <1>1, <3>2 DEF TypeOK, Dead, PastGate, ClaimInsert
    <3>3. ASSUME NEW t \in Threads, CloseLease(t) \/ ResumeComplete(t)
          PROVE  grants'[a] = 0 /\ spends'[a] = 0
      BY <1>1, <3>3 DEF Dead, CloseLease, ResumeComplete, MoveLease, history
    <3>4. ASSUME NEW t \in Threads, ResumeConsume(t)
          PROVE  grants'[a] = 0 /\ spends'[a] = 0
      BY <1>1, <3>4 DEF TypeOK, Dead, PastGate, ResumeConsume
    <3> QED
      BY <1>1, <3>1, <3>2, <3>3, <3>4, Writers
  <2>3. lapsed'[a]
    BY <1>1, LapsedStays DEF Dead
  <2> QED
    BY <2>1, <2>2, <2>3 DEF Dead
<1>2. TypeOK /\ [Next]_vars => [\A a \in Actions : Dead(a) => Dead(a)']_vars
  BY <1>1
<1> QED
  BY <1>2, TypeCorrect, PTL DEF Spec, DeadStaysDead

-----------------------------------------------------------------------------
(* FailureBlocks, from an invariant about handlers that are still closing.  *)

\* A thread that has closed the lease and not yet blocked the run, or the task.
ClosingRun(a) == \E t \in Threads : Target(t) = a /\ pc[t] \in {"close_action", "close_run"}
ClosingTask(a) ==
  \E t \in Threads : Target(t) = a /\ pc[t] \in {"close_action", "close_run", "close_task"}

\* Whoever moves a lease to failed goes on to block the run and the task.
FailurePropagates ==
  \A a \in Actions : (lease[a] = "failed" /\ ~consumed[a] /\ ~cut[a]) =>
    /\ run[a] = "blocked" \/ ClosingRun(a)
    /\ task[a] = "blocked" \/ ClosingTask(a)

\* While an action is leased and not consumed, the wall only ever blocks its run
\* and task.
LEMMA WorkStatusStep ==
  ASSUME IInv, [Next]_vars, NEW a \in Actions, lease[a] # "none", ~consumed[a]
  PROVE  /\ run'[a] = run[a] \/ run'[a] = "blocked"
         /\ task'[a] = task[a] \/ task'[a] = "blocked"
<1> DEFINE Good == /\ run'[a] = run[a] \/ run'[a] = "blocked"
                   /\ task'[a] = task[a] \/ task'[a] = "blocked"
<1>1. CASE UNCHANGED vars
  BY <1>1 DEF vars, ledger
<1>2. ASSUME NEW b \in Actions,
             Prepare(b) \/ ActionLapses(b) \/ LeaseLapses(b) \/ RecordEvidence(b)
      PROVE  Good
  BY <1>2 DEF IInv, TypeOK, Rows, RowsAgree, Prepare, ActionLapses, LeaseLapses,
              RecordEvidence, ledger
<1>3. ASSUME NEW t \in Threads, NEW b \in Actions, Begin(t, b)
      PROVE  Good
  BY <1>3 DEF Begin, BeginApprove, BeginReject, BeginClaim, BeginFail, BeginResume, Arrive,
              ledger
<1>4. ASSUME NEW t \in Threads, Decide(t)
      PROVE  Good
  BY <1>4 DEF IInv, TypeOK, Decide, ExpireApproval, ExpireAction, DecideApproval, DecideAction,
              DecideTool, DecideRun, DecideTask, SetApproval, SetStatus, SetTool, SetRun, SetTask
<1>5. ASSUME NEW t \in Threads, Claim(t)
      PROVE  Good
  BY <1>5 DEF Claim, ClaimRow, ClaimGate, ClaimInsert, ClaimConflict, ClaimExisting, ReadRow,
              ledger
<1>6. ASSUME NEW t \in Threads, Close(t) \/ FailLease(t)
      PROVE  Good
  BY <1>6 DEF IInv, TypeOK, Close, CloseLease, CloseAction, CloseRun, CloseTask, CloseTool,
              FailLease, MoveLease, SetStatus, SetTool, SetRun, SetTask, ledger
<1>7. ASSUME NEW t \in Threads, ResumeRun(t) \/ ResumeTask(t)
      PROVE  Good
  <2>1. consumed[Target(t)]
    BY <1>7, EntitledHere DEF Entitled, ResumeRun, ResumeTask, SetRun, SetTask
  <2> QED
    BY <1>7, <2>1 DEF IInv, TypeOK, ResumeRun, ResumeTask, SetRun, SetTask
<1>8. ASSUME NEW t \in Threads, Resume(t), ~ResumeRun(t), ~ResumeTask(t)
      PROVE  Good
  BY <1>8 DEF Resume, ResumeRow, ResumeApproval, ResumeLease, ResumeVerify, ResumeConsume,
              ResumeSpent, ResumeComplete, ResumeTool, ReadRow, MoveLease, SetTool, ledger
<1>9. ASSUME NEW t \in Threads, Respond(t) \/ CutOff(t)
      PROVE  Good
  BY <1>9 DEF Respond, CutOff, ledger
<1> QED
  BY <1>1, <1>2, <1>3, <1>4, <1>5, <1>6, <1>7, <1>8, <1>9 DEF Next, Statement

\* A recorded cut-off stays recorded.
LEMMA CutStays ==
  ASSUME TypeOK, [Next]_vars, NEW a \in Actions, cut[a]
  PROVE  cut'[a]
BY Writers DEF TypeOK, CutOff

\* A thread that is closing stands still, goes on to its next statement, or is cut.
LEMMA ClosingStep ==
  ASSUME TypeOK, [Next]_vars, NEW t \in Threads,
         pc[t] \in {"close_action", "close_run", "close_task"}
  PROVE  \/ pc'[t] = pc[t] /\ Target(t)' = Target(t)
         \/ CloseAction(t) \/ CloseRun(t) \/ CloseTask(t) \/ CutOff(t)
<1>1. CASE pc'[t] = pc[t] /\ req'[t] = req[t]
  BY <1>1 DEF Target
<1>2. ASSUME NEW a \in Actions, Begin(t, a)
      PROVE  FALSE
  BY <1>2 DEF Begin, BeginApprove, BeginReject, BeginClaim, BeginFail, BeginResume, Arrive
<1>3. CASE Decide(t) \/ Claim(t)
  BY <1>3 DEF Decide, ExpireApproval, ExpireAction, DecideApproval, DecideAction, DecideTool,
              DecideRun, DecideTask, SetApproval, SetStatus, SetTool, SetRun, SetTask,
              Claim, ClaimRow, ClaimGate, ClaimInsert, ClaimConflict, ClaimExisting, ReadRow
<1>4. CASE Close(t) \/ FailLease(t)
  BY <1>4 DEF Close, CloseLease, CloseTool, FailLease, MoveLease, SetTool
<1>5. CASE Resume(t)
  BY <1>5 DEF Resume, ResumeRow, ResumeApproval, ResumeLease, ResumeVerify, ResumeConsume,
              ResumeSpent, ResumeComplete, ResumeTool, ResumeRun, ResumeTask, ReadRow,
              MoveLease, SetTool, SetRun, SetTask
<1>6. CASE Respond(t)
  BY <1>6 DEF Respond, Finished
<1> QED
  BY <1>1, <1>2, <1>3, <1>4, <1>5, <1>6, OneThreadMoves DEF Statement

\* The propagation of a failure to run and task is kept by every step.
LEMMA FailureStep ==
  ASSUME IInv, FailurePropagates, [Next]_vars
  PROVE  FailurePropagates'
<1> SUFFICES ASSUME NEW a \in Actions, lease'[a] = "failed", ~consumed'[a], ~cut'[a]
             PROVE  /\ run'[a] = "blocked" \/ ClosingRun(a)'
                    /\ task'[a] = "blocked" \/ ClosingTask(a)'
  BY DEF FailurePropagates
<1>1. TypeOK
  BY DEF IInv
<1>2. ~consumed[a] /\ ~cut[a]
  BY <1>1, OutcomeStep, CutStays DEF Final
<1>3. CASE lease[a] = "failed"
  <2>1. /\ run'[a] = run[a] \/ run'[a] = "blocked"
        /\ task'[a] = task[a] \/ task'[a] = "blocked"
    BY <1>2, <1>3, WorkStatusStep
  <2>2. ASSUME NEW t \in Threads, Target(t) = a, pc[t] \in {"close_action", "close_run"}
        PROVE  run'[a] = "blocked" \/ ClosingRun(a)'
    <3>1. CASE pc'[t] = pc[t] /\ Target(t)' = Target(t)
      BY <2>2, <3>1 DEF ClosingRun
    <3>2. CASE CloseAction(t)
      BY <1>1, <2>2, <3>2 DEF TypeOK, CloseAction, SetStatus, Goto, ClosingRun, Target
    <3>3. CASE CloseRun(t)
      BY <1>1, <2>2, <3>3 DEF TypeOK, CloseRun, SetRun
    <3>4. CASE CloseTask(t)
      BY <2>2, <3>4 DEF CloseTask, SetTask
    <3>5. CASE CutOff(t)
      BY <1>1, <2>2, <3>5 DEF TypeOK, CutOff, Midway
    <3> QED
      BY <1>1, <2>2, <3>1, <3>2, <3>3, <3>4, <3>5, ClosingStep
  <2>3. ASSUME NEW t \in Threads, Target(t) = a,
               pc[t] \in {"close_action", "close_run", "close_task"}
        PROVE  task'[a] = "blocked" \/ ClosingTask(a)'
    <3>1. CASE pc'[t] = pc[t] /\ Target(t)' = Target(t)
      BY <2>3, <3>1 DEF ClosingTask
    <3>2. CASE CloseAction(t)
      BY <1>1, <2>3, <3>2 DEF TypeOK, CloseAction, SetStatus, Goto, ClosingTask, Target
    <3>3. CASE CloseRun(t)
      BY <1>1, <2>3, <3>3 DEF TypeOK, CloseRun, SetRun, Goto, ClosingTask, Target
    <3>4. CASE CloseTask(t)
      BY <1>1, <2>3, <3>4 DEF TypeOK, CloseTask, SetTask
    <3>5. CASE CutOff(t)
      BY <1>1, <2>3, <3>5 DEF TypeOK, CutOff, Midway
    <3> QED
      BY <1>1, <2>3, <3>1, <3>2, <3>3, <3>4, <3>5, ClosingStep
  <2>4. /\ run[a] = "blocked" \/ ClosingRun(a)
        /\ task[a] = "blocked" \/ ClosingTask(a)
    BY <1>2, <1>3 DEF FailurePropagates
  <2> QED
    BY <2>1, <2>2, <2>3, <2>4 DEF ClosingRun, ClosingTask
<1>4. CASE lease[a] # "failed"
  <2>1. PICK t \in Threads :
          ClaimInsert(t) \/ CloseLease(t) \/ ResumeComplete(t) \/ ResumeConsume(t)
    BY <1>4, Writers
  <2>2. ~ClaimInsert(t) /\ ~ResumeComplete(t) /\ ~ResumeConsume(t)
    BY <1>1, <1>4 DEF TypeOK, ClaimInsert, ResumeComplete, MoveLease, ResumeConsume
  <2>3. Target(t)' = a /\ pc'[t] = "close_action"
    BY <1>1, <1>4, <2>1, <2>2 DEF TypeOK, CloseLease, MoveLease, Goto, Target
  <2> QED
    BY <2>3 DEF ClosingRun, ClosingTask
<1> QED
  BY <1>3, <1>4

\* Once the handlers have finished, and unless one was cut off midway, a failed lease
\* that was not consumed leaves the run and the task blocked.
THEOREM FailureAlwaysBlocks == Spec => []FailureBlocks
<1>1. Init => FailurePropagates
  BY DEF Init, FailurePropagates
<1>2. IInv /\ FailurePropagates /\ [Next]_vars => FailurePropagates'
  BY FailureStep
<1>3. FailurePropagates => FailureBlocks
  BY DEF FailurePropagates, FailureBlocks, ClosingRun, ClosingTask, Settled, Busy, Finished
<1> QED
  BY <1>1, <1>2, <1>3, InvariantHolds, PTL DEF Spec

-----------------------------------------------------------------------------
(* Refinement: every statement is one step of ExecuteOnce, or none.         *)

\* Every step of the wall is a step of the contract or a stutter.
LEMMA ContractStep ==
  ASSUME IInv, [Next]_vars
  PROVE  [Contract!Next]_(Contract!contract)
<1>1. CASE UNCHANGED <<lease, consumed, authorised, evidence>>
  BY <1>1 DEF Contract!contract

<1>2. ASSUME NEW t \in Threads, ExpireApproval(t) \/ DecideApproval(t)
      PROVE  Contract!Authorise(Target(t)) \/ UNCHANGED Contract!contract
  BY <1>2 DEF IInv, TypeOK, ExpireApproval, DecideApproval, SetApproval, Contract!Authorise, Contract!contract
<1>3. ASSUME NEW t \in Threads, ClaimInsert(t)
      PROVE  Contract!Take(Target(t))
  BY <1>3, EntitledHere DEF IInv, TypeOK, ClaimInsert, LeaseFree, Entitled, Contract!Take
<1>4. ASSUME NEW t \in Threads, CloseLease(t) \/ ResumeComplete(t)
      PROVE  UNCHANGED Contract!contract
  BY <1>4 DEF IInv, TypeOK, CloseLease, ResumeComplete, MoveLease, history, Contract!contract
<1>5. ASSUME NEW a \in Actions, RecordEvidence(a)
      PROVE  Contract!Evidence(a)
  BY <1>5 DEF IInv, TypeOK, RecordEvidence, history, Contract!Evidence
<1>6. ASSUME NEW t \in Threads, ResumeConsume(t)
      PROVE  Contract!Spend(Target(t))
  BY <1>6, EntitledHere DEF IInv, TypeOK, ResumeConsume, Spendable, Entitled, Contract!Spend
<1>7. ASSUME NEW t \in Threads, pc[t] # "idle",
             Contract!Authorise(Target(t)) \/ Contract!Take(Target(t)) \/ Contract!Spend(Target(t))
      PROVE  Contract!Next
  <2>1. Target(t) \in Actions
    BY <1>7, EntitledHere DEF Entitled
  <2> QED
    BY <1>7, <2>1 DEF Contract!Next, Contract!Authorise, Contract!Take, Contract!Spend
<1>8. ASSUME NEW t \in Threads, ExpireApproval(t) \/ DecideApproval(t)
      PROVE  [Contract!Next]_(Contract!contract)
  <2>1. pc[t] # "idle"
    BY <1>8 DEF ExpireApproval, DecideApproval, SetApproval
  <2> QED
    BY <1>2, <1>7, <1>8, <2>1
<1>9. ASSUME NEW t \in Threads, ClaimInsert(t) \/ ResumeConsume(t)
      PROVE  Contract!Next
  <2>1. pc[t] # "idle"
    BY <1>9 DEF ClaimInsert, ResumeConsume
  <2> QED
    BY <1>3, <1>6, <1>7, <1>9, <2>1
<1>10. ASSUME NEW a \in Actions, RecordEvidence(a)
       PROVE  Contract!Next
  BY <1>5, <1>10 DEF Contract!Next
<1> QED
  BY <1>1, <1>4, <1>8, <1>9, <1>10, Writers

\* The wall implements the contract ExecuteOnce: authorised, taken, evidenced and
\* spent, each at most once and in that order.
THEOREM WallImplementsContract == Spec => ImplementsContract
<1>1. Init => Contract!Init
  BY DEF Init, Contract!Init
<1>2. IInv /\ [Next]_vars => [Contract!Next]_(Contract!contract)
  BY ContractStep
<1> QED
  BY <1>1, <1>2, InvariantHolds, PTL DEF Spec, ImplementsContract, Contract!Spec
=============================================================================
