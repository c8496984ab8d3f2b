---------------------- MODULE CodexWorkspaceWrite_proofs ----------------------
(***************************************************************************)
(* Proofs about CodexWorkspaceWrite, for every set of actions, threads and *)
(* workers, and any number of decisions.                                   *)
(*                                                                         *)
(* A worker acts on answers.  So first comes what an answer of the wall is *)
(* worth (Course, Worth): a granted claim is a lease, a granted resume is  *)
(* a consumption, an accepted failure report closes the action.  Then what *)
(* a worker that awaits an answer may rely on: the thread serves its own   *)
(* request and no other worker's.  A lease is granted once, so a granted   *)
(* worker is alone with its action, and with the worktree.                 *)
(***************************************************************************)
EXTENDS CodexWorkspaceWrite, ApprovalWall_proofs

-----------------------------------------------------------------------------
(* What an answer of the wall is worth.                                    *)

Closing == {"close_lease", "close_action", "close_run", "close_task"}
Deciding == {"expire_approval", "expire_action", "decide_approval", "decide_action",
             "decide_tool", "decide_run", "decide_task"}
Claiming == {"claim_row", "claim_gate", "claim_insert", "claim_existing"}
Resuming == {"resume_row", "resume_approval", "resume_lease", "resume_verify", "resume_consume",
             "resume_complete", "resume_tool", "resume_run", "resume_task"}

\* The statements a thread can stand at follow from the operation it serves.
OnCourse(t) ==
  /\ req[t].op = "none" => pc[t] = "idle"
  /\ req[t].op \in {"approve", "reject"} => pc[t] \in Deciding \cup Finished
  /\ req[t].op = "claim" => pc[t] \in Claiming \cup Closing \cup Finished
  /\ req[t].op = "resume" => pc[t] \in Resuming \cup Closing \cup Finished
  /\ req[t].op = "fail" => pc[t] \in {"fail_lease", "close_tool"} \cup Closing \cup Finished

\* What the progress of a thread says of its action.
Worth(t) ==
  /\ req[t].op = "claim" /\ pc[t] = "ok" => lease[Target(t)] # "none"
  /\ req[t].op = "resume" /\ pc[t] = "ok" => consumed[Target(t)]
  /\ req[t].op = "fail" =>
       /\ pc[t] \in {"close_action", "close_run", "close_task", "close_tool", "ok"}
            => lease[Target(t)] \in {"failed", "completed"}
       /\ pc[t] \in {"close_task", "close_tool", "ok"}
            => consumed[Target(t)] \/ run[Target(t)] = "blocked"
       /\ pc[t] \in {"close_tool", "ok"}
            => consumed[Target(t)] \/ task[Target(t)] = "blocked"
       /\ pc[t] = "close_lease" => lease[Target(t)] # "none"

Course == \A t \in Threads : OnCourse(t)
AnswersWorth == \A t \in Threads : Worth(t)

WallInv == IInv /\ Course /\ AnswersWorth

\* A statement keeps its thread on course, and on its request.
LEMMA StatementOnCourse ==
  ASSUME TypeOK, NEW t \in Threads, OnCourse(t), Statement(t)
  PROVE  OnCourse(t)' /\ req'[t].op = req[t].op /\ Target(t)' = Target(t) /\ pc'[t] # "idle"
<1> USE DEF OnCourse, Closing, Deciding, Claiming, Resuming, Finished, Target
<1>0. req[t] \in Requests /\ req[t].op \in Operations
  BY DEF TypeOK, Requests
<1>1. CASE Decide(t)
  BY <1>0, <1>1 DEF TypeOK, Operations, Decide, ExpireApproval, ExpireAction, DecideApproval, DecideAction,
              DecideTool, DecideRun, DecideTask, SetApproval, SetStatus, SetTool, SetRun,
              SetTask, Goto
<1>2. CASE ClaimGate(t) \/ ClaimInsert(t) \/ ClaimConflict(t) \/ ClaimExisting(t)
  BY <1>0, <1>2 DEF TypeOK, Operations, ClaimGate, ClaimInsert, ClaimConflict, ClaimExisting,
              Branch, Goto
<1>3. ASSUME NEW here \in Labels, NEW next \in Labels, ReadRow(t, here, next),
             \/ here = "claim_row" /\ next = "claim_gate"
             \/ here = "resume_row" /\ next = "resume_approval"
      PROVE  OnCourse(t)' /\ req'[t].op = req[t].op /\ Target(t)' = Target(t) /\ pc'[t] # "idle"
  <2>1. req'[t].op = req[t].op /\ req'[t].action = req[t].action
    BY <1>0, <1>3 DEF TypeOK, ReadRow, Requests
  <2>2. pc[t] = here /\ pc'[t] = next
    BY <1>3 DEF TypeOK, ReadRow, Goto
  <2> QED
    BY <1>0, <1>3, <2>1, <2>2 DEF Operations
<1>4. CASE Close(t) \/ FailLease(t)
  BY <1>0, <1>4 DEF TypeOK, Operations, Close, CloseLease, CloseAction, CloseRun, CloseTask, CloseTool,
              FailLease, MoveLease, SetStatus, SetTool, SetRun, SetTask, Branch, Goto
<1>5. CASE ResumeApproval(t)
  <2>1. req'[t].op = req[t].op /\ req'[t].action = req[t].action
    BY <1>0, <1>5 DEF TypeOK, ResumeApproval, Requests
  <2>2. pc[t] = "resume_approval" /\ pc'[t] \in {"resume_lease", "resume_consume", "refused"}
    BY <1>5 DEF TypeOK, ResumeApproval, Branch, Goto
  <2> QED
    BY <1>0, <2>1, <2>2 DEF Operations
<1>6. CASE ResumeLease(t) \/ ResumeVerify(t) \/ ResumeConsume(t) \/ ResumeSpent(t)
           \/ ResumeComplete(t) \/ ResumeTool(t) \/ ResumeRun(t) \/ ResumeTask(t)
  BY <1>0, <1>6 DEF TypeOK, Operations, ResumeLease, ResumeVerify,
              ResumeConsume, ResumeSpent, ResumeComplete, ResumeTool, ResumeRun, ResumeTask,
              MoveLease, SetTool, SetRun, SetTask, Branch, Goto
<1> QED
  BY <1>1, <1>2, <1>3, <1>4, <1>5, <1>6 DEF Statement, Claim, Resume, ClaimRow, ResumeRow, Labels

\* A request starts its thread on its course.
LEMMA BeginOnCourse ==
  ASSUME TypeOK, NEW t \in Threads, NEW a \in Actions, Begin(t, a)
  PROVE  OnCourse(t)' /\ Worth(t)' /\ Target(t)' = a /\ pc[t] = "idle" /\ pc'[t] # "idle"
<1>1. ASSUME NEW op, NEW holder, NEW first, Arrive(t, a, op, holder, first)
      PROVE  /\ req'[t].op = op /\ req'[t].action = a /\ pc'[t] = first /\ pc[t] = "idle"
  BY <1>1 DEF TypeOK, Arrive, Goto, NoRequest
<1>2. CASE BeginApprove(t, a)
  <2>1. /\ req'[t].op = "approve" /\ req'[t].action = a /\ pc[t] = "idle"
        /\ pc'[t] \in {"expire_approval", "decide_approval"}
    BY <1>2 DEF BeginApprove, TypeOK, Arrive, Goto, NoRequest
  <2> QED
    BY <2>1 DEF OnCourse, Worth, Target, Deciding, Finished
<1>3. CASE BeginReject(t, a)
  <2>1. req'[t].op = "reject" /\ req'[t].action = a /\ pc'[t] = "decide_approval" /\ pc[t] = "idle"
    BY <1>3 DEF BeginReject, TypeOK, Arrive, Goto, NoRequest
  <2> QED
    BY <2>1 DEF OnCourse, Worth, Target, Deciding, Finished
<1>4. CASE BeginClaim(t, a)
  <2>1. req'[t].op = "claim" /\ req'[t].action = a /\ pc'[t] = "claim_row" /\ pc[t] = "idle"
    BY <1>4 DEF BeginClaim, TypeOK, Arrive, Goto, NoRequest
  <2> QED
    BY <2>1 DEF OnCourse, Worth, Target, Claiming
<1>5. ASSUME NEW holder \in BOOLEAN, BeginFail(t, a, holder)
      PROVE  OnCourse(t)' /\ Worth(t)' /\ Target(t)' = a /\ pc[t] = "idle" /\ pc'[t] # "idle"
  BY <1>1, <1>5 DEF BeginFail, OnCourse, Worth, Target
<1>6. ASSUME NEW holder \in BOOLEAN, BeginResume(t, a, holder)
      PROVE  OnCourse(t)' /\ Worth(t)' /\ Target(t)' = a /\ pc[t] = "idle" /\ pc'[t] # "idle"
  BY <1>1, <1>6 DEF BeginResume, OnCourse, Worth, Target, Resuming
<1> QED
  BY <1>2, <1>3, <1>4, <1>5, <1>6 DEF Begin

\* Every step keeps every thread on course.
LEMMA CourseStep ==
  ASSUME TypeOK, Course, [Next]_vars
  PROVE  Course'
<1> SUFFICES ASSUME NEW u \in Threads
             PROVE  OnCourse(u)'
  BY DEF Course
<1>1. CASE pc'[u] = pc[u] /\ req'[u] = req[u]
  BY <1>1 DEF Course, OnCourse
<1>2. ASSUME NEW a \in Actions, Begin(u, a)
      PROVE  OnCourse(u)'
  BY <1>2, BeginOnCourse
<1>3. CASE Statement(u)
  BY <1>3, StatementOnCourse DEF Course
<1>4. CASE Respond(u) \/ CutOff(u)
  BY <1>4 DEF TypeOK, Respond, CutOff, Goto, NoRequest, OnCourse
<1> QED
  BY <1>1, <1>2, <1>3, <1>4, OneThreadMoves

\* What a step keeps of an action that is leased.
LEMMA LeasedKept ==
  ASSUME IInv, [Next]_vars, NEW a \in Actions, lease[a] # "none"
  PROVE  /\ lease'[a] # "none"
         /\ lease[a] \in {"failed", "completed"} => lease'[a] = lease[a]
         /\ consumed[a] => consumed'[a]
         /\ (consumed[a] \/ run[a] = "blocked") => (consumed'[a] \/ run'[a] = "blocked")
         /\ (consumed[a] \/ task[a] = "blocked") => (consumed'[a] \/ task'[a] = "blocked")
<1>1. TypeOK
  BY DEF IInv
<1>2. Final(a)
  BY <1>1, OutcomeStep
<1>3. ~consumed[a] => /\ run'[a] = run[a] \/ run'[a] = "blocked"
                      /\ task'[a] = task[a] \/ task'[a] = "blocked"
  BY WorkStatusStep
<1> QED
  BY <1>1, <1>2, <1>3 DEF Final, TypeOK, LeaseStatuses

\* What a thread that does not move has achieved stays.
LEMMA WorthKept ==
  ASSUME WallInv, [Next]_vars, NEW u \in Threads, pc'[u] = pc[u], req'[u] = req[u]
  PROVE  Worth(u)'
<1>0. IInv /\ TypeOK /\ Worth(u) /\ OnCourse(u) /\ Entitled(u, pc[u]) /\ Target(u)' = Target(u)
  BY DEF WallInv, IInv, AnswersWorth, Course, ThreadsEntitled, Target
<1> DEFINE a == Target(u)
<1>1. CASE pc[u] = "idle"
  BY <1>0, <1>1 DEF Worth
<1>2. CASE pc[u] # "idle"
  <2>1. a \in Actions
    BY <1>0, <1>2 DEF Entitled
  <2>2. consumed[a] => consumed'[a]
    BY <1>0, <2>1, OutcomeStep DEF Final
  <2>3. CASE lease[a] # "none"
    <3> HIDE DEF a
    <3>1. /\ lease'[a] # "none"
          /\ lease[a] \in {"failed", "completed"} => lease'[a] = lease[a]
          /\ (consumed[a] \/ run[a] = "blocked") => (consumed'[a] \/ run'[a] = "blocked")
          /\ (consumed[a] \/ task[a] = "blocked") => (consumed'[a] \/ task'[a] = "blocked")
      BY <1>0, <2>1, <2>3, LeasedKept
    <3> QED
      BY <1>0, <2>2, <2>3, <3>1 DEF Worth, a
  <2>4. CASE lease[a] = "none"
    BY <1>0, <2>2, <2>4 DEF Worth
  <2> QED
    BY <2>3, <2>4
<1> QED
  BY <1>1, <1>2

\* A statement of a handler achieves what its label says.
LEMMA StatementWorth ==
  ASSUME WallInv, NEW t \in Threads, Statement(t)
  PROVE  Worth(t)'
<1> DEFINE a == Target(t)
<1>0. /\ IInv /\ TypeOK /\ Worth(t) /\ OnCourse(t) /\ Entitled(t, pc[t])
      /\ [Next]_vars
  BY DEF WallInv, IInv, AnswersWorth, Course, ThreadsEntitled, Next
<1>1. OnCourse(t)' /\ req'[t].op = req[t].op /\ Target(t)' = a /\ pc'[t] # "idle"
  BY <1>0, StatementOnCourse
<1>2. pc[t] # "idle" /\ a \in Actions
  <2>1. pc[t] # "idle"
    BY <1>0
    DEF OnCourse, Statement, Decide, Claim, Close, Resume, FailLease,
        ExpireApproval, ExpireAction, DecideApproval, DecideAction, DecideTool, DecideRun, DecideTask,
        SetApproval, SetStatus, SetTool, SetRun, SetTask,
        ClaimRow, ClaimGate, ClaimInsert, ClaimConflict, ClaimExisting, ReadRow,
        CloseLease, CloseAction, CloseRun, CloseTask, CloseTool, MoveLease,
        ResumeRow, ResumeApproval, ResumeLease, ResumeVerify,
        ResumeConsume, ResumeSpent, ResumeComplete, ResumeTool, ResumeRun, ResumeTask
  <2> QED
    BY <1>0, <2>1 DEF Entitled
<1>3. consumed[a] => consumed'[a]
  BY <1>0, <1>2, OutcomeStep DEF Final
<1>4. CASE req[t].op = "claim"
  <2> SUFFICES ASSUME pc'[t] = "ok"
               PROVE  lease'[a] # "none"
    BY <1>1, <1>4 DEF Worth
  <2>1. ClaimInsert(t)
    BY <1>0, <1>4
    DEF TypeOK, OnCourse, Claiming, Closing, Finished, Statement, Decide, Claim, Close, Resume, FailLease,
        ExpireApproval, ExpireAction, DecideApproval, DecideAction, DecideTool, DecideRun, DecideTask,
        SetApproval, SetStatus, SetTool, SetRun, SetTask,
        ClaimRow, ClaimGate, ClaimConflict, ClaimExisting, ReadRow,
        CloseLease, CloseAction, CloseRun, CloseTask, CloseTool, MoveLease,
        ResumeRow, ResumeApproval, ResumeLease, ResumeVerify,
        ResumeConsume, ResumeSpent, ResumeComplete, ResumeTool, ResumeRun, ResumeTask, Branch, Goto
  <2> QED
    BY <1>0, <1>2, <2>1 DEF TypeOK, ClaimInsert
<1>5. CASE req[t].op = "resume"
  <2> SUFFICES ASSUME pc'[t] = "ok"
               PROVE  consumed'[a]
    BY <1>1, <1>5 DEF Worth
  <2>1. ResumeTask(t)
    BY <1>0, <1>5
    DEF TypeOK, OnCourse, Resuming, Closing, Finished, Statement, Decide, Claim, Close, Resume, FailLease,
        ExpireApproval, ExpireAction, DecideApproval, DecideAction, DecideTool, DecideRun, DecideTask,
        SetApproval, SetStatus, SetTool, SetRun, SetTask,
        ClaimRow, ClaimGate, ClaimInsert, ClaimConflict, ClaimExisting, ReadRow,
        CloseLease, CloseAction, CloseRun, CloseTask, CloseTool, MoveLease,
        ResumeRow, ResumeApproval, ResumeLease, ResumeVerify,
        ResumeConsume, ResumeSpent, ResumeComplete, ResumeTool, ResumeRun, Branch, Goto
  <2> QED
    BY <1>0, <1>3, <2>1 DEF Entitled, ResumeTask, SetTask
<1>6. CASE req[t].op = "fail"
  <2>1. FailLease(t) \/ Close(t)
    BY <1>0, <1>6
    DEF OnCourse, Closing, Finished, Statement, Decide, Claim, Resume,
        ExpireApproval, ExpireAction, DecideApproval, DecideAction, DecideTool, DecideRun, DecideTask,
        SetApproval, SetStatus, SetTool, SetRun, SetTask,
        ClaimRow, ClaimGate, ClaimInsert, ClaimConflict, ClaimExisting, ReadRow, MoveLease,
        ResumeRow, ResumeApproval, ResumeLease, ResumeVerify,
        ResumeConsume, ResumeSpent, ResumeComplete, ResumeTool, ResumeRun, ResumeTask
  <2>2. CASE FailLease(t)
    BY <1>1, <1>6, <2>2 DEF TypeOK, WallInv, IInv, FailLease, Branch, Goto, Worth, ledger, Finished, Target
  <2>3. CASE CloseLease(t)
    <3>1. pc'[t] = "close_action" /\ lease'[a] \in {"failed", "completed"}
      BY <1>0, <1>2, <1>6, <2>3 DEF TypeOK, LeaseStatuses, CloseLease, MoveLease, Goto, Worth
    <3> QED
      BY <1>1, <1>6, <3>1 DEF Worth
  <2>4. CASE CloseAction(t)
    BY <1>0, <1>1, <1>6, <2>4 DEF TypeOK, CloseAction, SetStatus, Goto, Worth
  <2>5. CASE CloseRun(t)
    <3>1. pc[t] = "close_run" /\ pc'[t] = "close_task" /\ lease' = lease /\ run'[a] = "blocked"
      BY <1>0, <1>2, <2>5 DEF TypeOK, CloseRun, SetRun, Goto
    <3> QED
      BY <1>0, <1>1, <1>6, <3>1 DEF Worth
  <2>6. CASE CloseTask(t)
    <3>1. /\ pc[t] = "close_task" /\ pc'[t] = "close_tool"
          /\ UNCHANGED <<lease, run, consumed>> /\ task'[a] = "blocked"
      BY <1>0, <1>2, <1>6, <2>6 DEF TypeOK, CloseTask, SetTask, Goto
    <3> QED
      BY <1>0, <1>1, <1>6, <3>1 DEF Worth
  <2>7. CASE CloseTool(t)
    BY <1>0, <1>1, <1>6, <2>7 DEF TypeOK, CloseTool, SetTool, Goto, Worth
  <2> QED
    BY <2>1, <2>2, <2>3, <2>4, <2>5, <2>6, <2>7 DEF Close
<1>7. CASE req[t].op \notin {"claim", "resume", "fail"}
  BY <1>1, <1>7 DEF Worth
<1> QED
  BY <1>4, <1>5, <1>6, <1>7

\* What answers are worth is an invariant of the wall.
LEMMA WallInvStep ==
  ASSUME WallInv, [Next]_vars
  PROVE  WallInv'
<1>0. TypeOK
  BY DEF WallInv, IInv
<1>1. IInv' /\ Course'
  BY <1>0, InvariantStep, CourseStep DEF WallInv
<1>2. ASSUME NEW u \in Threads
      PROVE  Worth(u)'
  <2>1. CASE Respond(u) \/ CutOff(u)
    BY <1>0, <2>1 DEF TypeOK, Respond, CutOff, Goto, NoRequest, Worth
  <2> QED
    BY <1>0, <2>1, WorthKept, StatementWorth, BeginOnCourse, OneThreadMoves
<1> QED
  BY <1>1, <1>2 DEF WallInv, AnswersWorth

\* Nothing is answered in the beginning.
LEMMA InitWallInv == Init => Course /\ AnswersWorth
BY DEF Init, Course, OnCourse, AnswersWorth, Worth, NoRequest

-----------------------------------------------------------------------------
(* Steps of the system.                                                    *)

\* One step of one worker, by what it does to the wall.
Answers(w) ==
  \/ ClaimGranted(w) \/ ClaimRefused(w) \/ ResumeGranted(w) \/ ResumeRefused(w)
  \/ FailAccepted(w) \/ FailRefused(w)
Works(w) ==
  \/ CreateWorktree(w) \/ CodexSucceeds(w) \/ CodexFails(w)
  \/ RemoveWorktree(w, "rollback") \/ RemoveWorktree(w, "undo")
  \/ EvidenceFails(w) \/ ReadClosureLease(w) \/ ClosureUnknown(w) \/ ReadClosureRun(w)
Acts(w) ==
  \/ \E a \in Actions : Inspect(w, a)
  \/ SendClaim(w) \/ SendResume(w) \/ SendFail(w) \/ Answers(w) \/ Works(w)
  \/ SubmitEvidence(w) \/ ReadClosureRow(w)
  \/ Loss(w) \/ AwaitedCutOff(w) \/ WorkerCrash(w)

Unmoved(w) ==
  /\ stage'[w] = stage[w] /\ job'[w] = job[w] /\ conn'[w] = conn[w]
  /\ sawSpent'[w] = sawSpent[w] /\ resumed'[w] = resumed[w]

\* Stages of a worker whose claim was granted.
Granting == Executing \cup {"report", "await_fail", "succeeded", "reconciled", "manual", "unknown", "failed"}

\* A worker past its inspection has an action, and resumes only after that.
Employed ==
  \A w \in Workers :
    /\ stage[w] # "idle" => job[w] \in WorkspaceWrite
    /\ resumed[w] => stage[w] # "idle"

CodexTypes == CodexTypeOK /\ Employed

\* What a worker does, by kind.
LEMMA ActsKinds ==
  ASSUME NEW w \in Workers
  PROVE  ((\E a \in Actions : Inspect(w, a)) \/ WorkerStep(w) \/ Loss(w) \/ AwaitedCutOff(w) \/ WorkerCrash(w))
           <=> Acts(w)
BY DEF Acts, Answers, Works, WorkerStep

\* The stages between which answers lead.
LEMMA AnswersEdge ==
  ASSUME NEW w \in Workers, Answers(w)
  PROVE  \E from \in Awaiting, reply \in Finished, to \in WorkerStages \ (Awaiting \cup {"idle"}) :
           Answered(w, from, reply, to)
BY DEF Answers, ClaimGranted, ClaimRefused, ResumeGranted, ResumeRefused, FailAccepted, FailRefused,
       Awaiting, Finished, WorkerStages, Executing, Outcomes

\* The stages between which a worker moves by itself.
LEMMA WorksEdge ==
  ASSUME NEW w \in Workers, Works(w)
  PROVE  \E from \in Granting \ Awaiting, to \in Granting \ Awaiting : Local(w, from, to)
<1>1. CASE ReadClosureLease(w)
  BY <1>1, Zenon DEF ReadClosureLease, Granting, Awaiting, Executing
<1>2. CASE Works(w) /\ ~ReadClosureLease(w)
  BY <1>2 DEF Works, CreateWorktree, CodexSucceeds, CodexFails, RemoveWorktree, EvidenceFails,
              ClosureUnknown, ReadClosureRun, Granting, Awaiting, Executing
<1> QED
  BY <1>1, <1>2

\* The stages between which a worker loses its connection.
LEMMA LossEdge ==
  ASSUME NEW w \in Workers, Loss(w)
  PROVE  \E from \in Awaiting \cup {"claim", "resume", "report"}, to \in {"stopped", "check_row"} :
           /\ Lost(w, from, to)
           /\ to = "check_row" => from \in {"resume", "await_resume"}
BY DEF Loss, ClaimLost, ResumeLost, FailLost, Awaiting

\* A worker that acts moves no other worker.
LEMMA ActsFrame ==
  ASSUME CodexTypes, NEW w \in Workers, Acts(w), NEW v \in Workers, v # w
  PROVE  Unmoved(v)
<1> USE DEF CodexTypes, CodexTypeOK, Unmoved, Move
<1>1. ASSUME NEW a \in Actions, Inspect(w, a)
      PROVE  Unmoved(v)
  BY <1>1 DEF Inspect
<1>2. CASE SendClaim(w) \/ SendResume(w) \/ SendFail(w)
  BY <1>2 DEF SendClaim, SendResume, SendFail, Send
<1>3. CASE Answers(w)
  BY <1>3, AnswersEdge DEF Answered
<1>4. CASE Works(w)
  BY <1>4, WorksEdge DEF Local
<1>5. CASE SubmitEvidence(w)
  BY <1>5 DEF SubmitEvidence
<1>6. CASE ReadClosureRow(w)
  BY <1>6 DEF ReadClosureRow
<1>7. CASE Loss(w)
  BY <1>7, LossEdge DEF Lost
<1>8. CASE AwaitedCutOff(w)
  BY <1>8 DEF AwaitedCutOff
<1>9. CASE WorkerCrash(w)
  BY <1>9 DEF WorkerCrash
<1> QED
  BY <1>1, <1>2, <1>3, <1>4, <1>5, <1>6, <1>7, <1>8, <1>9 DEF Acts

\* A worker's step is a step of the wall, or none.
LEMMA ActsOnWall ==
  ASSUME CodexTypes, NEW w \in Workers, Acts(w)
  PROVE  [Next]_vars
<1>0. stage[w] # "idle" => job[w] \in Actions
  BY ConstantsAssumption DEF CodexTypes, Employed
<1>1. CASE SendClaim(w)
  BY <1>0, <1>1 DEF SendClaim, Send, Move, Begin, Next
<1>2. CASE SendResume(w)
  BY <1>0, <1>2 DEF SendResume, Send, Move, Begin, Next
<1>3. CASE SendFail(w)
  BY <1>0, <1>3 DEF SendFail, Send, Move, Begin, Next
<1>4. CASE Answers(w)
  <2>1. PICK from \in Awaiting : stage[w] = from /\ Respond(conn[w])
    BY <1>4, AnswersEdge DEF Answered, Move
  <2>2. conn[w] \in Threads
    BY <2>1 DEF CodexTypes, CodexTypeOK
  <2> QED
    BY <2>1, <2>2 DEF Next
<1>5. CASE AwaitedCutOff(w)
  BY <1>5 DEF CodexTypes, CodexTypeOK, AwaitedCutOff, Next
<1>6. CASE SubmitEvidence(w)
  BY <1>0, <1>6 DEF SubmitEvidence, Move, Next
<1>7. CASE \/ \E a \in Actions : Inspect(w, a)
           \/ Works(w) \/ ReadClosureRow(w) \/ Loss(w) \/ WorkerCrash(w)
  BY <1>7, WorksEdge, LossEdge DEF Inspect, Local, ReadClosureRow, Lost, WorkerCrash
<1> QED
  BY <1>1, <1>2, <1>3, <1>4, <1>5, <1>6, <1>7 DEF Acts

\* Every step of the system is a step of the wall, or none.
LEMMA StepOfTheWall ==
  ASSUME CodexTypes, [CodexNext]_systemVars
  PROVE  [Next]_vars
<1>1. CASE UNCHANGED systemVars
  BY <1>1 DEF systemVars
<1>2. ASSUME NEW a \in Actions, Prepare(a) \/ ActionLapses(a) \/ LeaseLapses(a)
      PROVE  [Next]_vars
  BY <1>2 DEF Next
<1>3. ASSUME NEW t \in Threads, ServerStep(t)
      PROVE  [Next]_vars
  BY <1>3 DEF ServerStep, Next
<1>4. ASSUME NEW t \in Threads, NEW a \in Actions, HumanDecides(t, a)
      PROVE  [Next]_vars
  BY <1>4 DEF HumanDecides, Begin, Next
<1>5. ASSUME NEW w \in Workers, Acts(w)
      PROVE  [Next]_vars
  BY <1>5, ActsOnWall
<1> QED
  BY <1>1, <1>2, <1>3, <1>4, <1>5, ActsKinds DEF CodexNext

\* In a step of the system a worker acts, or it does not move.
LEMMA OneWorkerActs ==
  ASSUME CodexTypes, [CodexNext]_systemVars, NEW v \in Workers
  PROVE  Acts(v) \/ Unmoved(v)
<1>1. CASE UNCHANGED codexVars
  BY <1>1 DEF codexVars, workerVars, Unmoved
<1>2. ASSUME NEW t \in Threads, NEW a \in Actions, HumanDecides(t, a)
      PROVE  Unmoved(v)
  BY <1>2 DEF HumanDecides, workerVars, Unmoved
<1>3. ASSUME NEW w \in Workers, Acts(w)
      PROVE  Acts(v) \/ Unmoved(v)
  BY <1>3, ActsFrame
<1> QED
  BY <1>1, <1>2, <1>3, ActsKinds DEF CodexNext, ServerStep, systemVars

-----------------------------------------------------------------------------
(* Types of the workers.                                                   *)

\* A worker that acts keeps the types of the workers.
LEMMA ActsType ==
  ASSUME CodexTypes, NEW w \in Workers, Acts(w), TypeOK'
  PROVE  CodexTypes'
<1> USE DEF CodexTypes, CodexTypeOK, Employed, Move, WorkerStages, Awaiting, Executing, Outcomes
<1>1. ASSUME NEW a \in Actions, Inspect(w, a)
      PROVE  CodexTypes'
  BY <1>1 DEF Inspect
<1>2. CASE SendClaim(w)
  BY <1>2, CodexAssumption DEF SendClaim, Send
<1>3. CASE SendResume(w)
  BY <1>3, CodexAssumption DEF SendResume, Send
<1>4. CASE SendFail(w)
  BY <1>4, CodexAssumption DEF SendFail, Send
<1>5. CASE Answers(w)
  <2>1. PICK from \in Awaiting, to \in WorkerStages \ (Awaiting \cup {"idle"}) :
          /\ Move(w, from, to) /\ conn' = [conn EXCEPT ![w] = NoThread]
          /\ UNCHANGED <<job, sawSpent, resumed, worktree, decisions>>
    BY <1>5, AnswersEdge DEF Answered
  <2> QED
    BY <2>1
<1>6. CASE Works(w)
  <2>1. PICK from \in Granting \ Awaiting, to \in Granting \ Awaiting :
          /\ Move(w, from, to)
          /\ UNCHANGED <<vars, job, conn, sawSpent, resumed, decisions>>
    BY <1>6, WorksEdge DEF Local
  <2>2. job[w] \in Actions
    BY <2>1, ConstantsAssumption DEF Granting
  <2>3. worktree' \in [Actions -> Worktrees]
    BY <1>6, <2>2
    DEF Works, CreateWorktree, CodexSucceeds, CodexFails, RemoveWorktree, EvidenceFails,
        ReadClosureLease, ClosureUnknown, ReadClosureRun, Worktrees
  <2> QED
    BY <2>1, <2>3 DEF Granting
<1>7. CASE SubmitEvidence(w)
  BY <1>7 DEF SubmitEvidence
<1>8. CASE ReadClosureRow(w)
  <2> DEFINE spent == status[job[w]] = "consumed"
  <2>1. spent \in BOOLEAN
    OBVIOUS
  <2>2. sawSpent' = [sawSpent EXCEPT ![w] = spent]
    BY <1>8 DEF ReadClosureRow
  <2> HIDE DEF spent
  <2>3. sawSpent' \in [Workers -> BOOLEAN]
    BY <2>1, <2>2
  <2> QED
    BY <1>8, <2>3 DEF ReadClosureRow
<1>9. CASE Loss(w)
  <2>1. PICK from \in Awaiting \cup {"claim", "resume", "report"}, to \in {"stopped", "check_row"} : Lost(w, from, to)
    BY <1>9, LossEdge
  <2> QED
    BY <2>1 DEF Lost
<1>10. CASE AwaitedCutOff(w)
  BY <1>10 DEF AwaitedCutOff
<1>11. CASE WorkerCrash(w)
  BY <1>11 DEF WorkerCrash
<1> QED
  BY <1>1, <1>2, <1>3, <1>4, <1>5, <1>6, <1>7, <1>8, <1>9, <1>10, <1>11 DEF Acts

\* Every step keeps the types.
LEMMA CodexTypeStep ==
  ASSUME CodexTypes, [CodexNext]_systemVars
  PROVE  CodexTypes'
<1>1. TypeOK'
  BY StepOfTheWall, TypeStep DEF CodexTypes, CodexTypeOK
<1>2. CASE UNCHANGED codexVars
  BY <1>1, <1>2 DEF codexVars, workerVars, CodexTypes, CodexTypeOK, Employed
<1>3. ASSUME NEW t \in Threads, NEW a \in Actions, HumanDecides(t, a)
      PROVE  CodexTypes'
  BY <1>1, <1>3, CodexAssumption DEF HumanDecides, workerVars, CodexTypes, CodexTypeOK, Employed
<1>4. ASSUME NEW w \in Workers, Acts(w)
      PROVE  CodexTypes'
  BY <1>1, <1>4, ActsType
<1> QED
  BY <1>2, <1>3, <1>4, ActsKinds DEF CodexNext, ServerStep, systemVars

\* In the beginning no worker has an action.
LEMMA InitCodexTypes == CodexInit => CodexTypes
<1> SUFFICES ASSUME CodexInit
             PROVE  CodexTypes
  OBVIOUS
<1>1. TypeOK
  BY ConstantsAssumption
  DEF CodexInit, Init, TypeOK, Decisions, Statuses, LeaseStatuses, WorkStatuses, Labels, Requests,
      NoRequest, Operations
<1> QED
  BY <1>1, CodexAssumption
  DEF CodexInit, CodexTypes, CodexTypeOK, Employed, WorkerStages, Awaiting, Worktrees

\* Workers, connections and worktrees keep their domains, and an answer is
\* awaited exactly by the workers that are waiting.
THEOREM CodexTypeCorrect == CodexSpec => []CodexTypeOK
<1>1. CodexTypes /\ [CodexNext]_systemVars => CodexTypes'
  BY CodexTypeStep
<1>2. CodexTypes => CodexTypeOK
  BY DEF CodexTypes
<1> QED
  BY <1>1, <1>2, InitCodexTypes, PTL DEF CodexSpec

\* The system obeys the wall: every theorem about the wall holds with workers
\* running, crashing and losing answers.
THEOREM CodexObeysWall == CodexSpec => Spec
<1>1. CodexTypes /\ [CodexNext]_systemVars => CodexTypes' /\ [Next]_vars
  BY CodexTypeStep, StepOfTheWall
<1>2. CodexInit => Init
  BY DEF CodexInit
<1> QED
  BY <1>1, <1>2, InitCodexTypes, PTL DEF CodexSpec, Spec

-----------------------------------------------------------------------------
(* What a worker that awaits an answer may rely on.                        *)

\* The thread it waits for serves its own request, to its end.
ServedBy(w) ==
  conn[w] # NoThread =>
    /\ pc[conn[w]] # "idle" /\ Target(conn[w]) = job[w]
    /\ stage[w] = "await_claim" => req[conn[w]].op = "claim"
    /\ stage[w] = "await_resume" => req[conn[w]].op = "resume"
    /\ stage[w] = "await_fail" => req[conn[w]].op = "fail"

Served == \A w \in Workers : ServedBy(w)

\* No two workers wait for one thread.
Apart == \A v, w \in Workers : v # w /\ conn[v] = conn[w] => conn[v] = NoThread

Connections == Served /\ Apart

\* A worker sends a request to an idle thread.
LEMMA SendsTo ==
  ASSUME CodexTypes, NEW w \in Workers, SendClaim(w) \/ SendResume(w) \/ SendFail(w)
  PROVE  \E t \in Threads :
           /\ Begin(t, job[w]) /\ job[w] \in Actions
           /\ conn' = [conn EXCEPT ![w] = t] /\ conn[w] = NoThread
           /\ job'[w] = job[w]
           /\ stage'[w] = "await_claim" => req'[t].op = "claim"
           /\ stage'[w] = "await_resume" => req'[t].op = "resume"
           /\ stage'[w] = "await_fail" => req'[t].op = "fail"
<1> USE DEF CodexTypes, CodexTypeOK, Employed, Send, Move, Awaiting
<1>0. stage[w] # "idle" => job[w] \in Actions
  BY ConstantsAssumption
<1>1. CASE SendClaim(w)
  <2>1. PICK t \in Threads : Send(w, t, "claim", "await_claim") /\ BeginClaim(t, job[w])
    BY <1>1 DEF SendClaim
  <2>2. req'[t].op = "claim"
    BY <2>1 DEF TypeOK, BeginClaim, Arrive, NoRequest
  <2> QED
    BY <1>0, <2>1, <2>2 DEF Begin
<1>2. CASE SendResume(w)
  <2>1. PICK t \in Threads : Send(w, t, "resume", "await_resume") /\ BeginResume(t, job[w], TRUE)
    BY <1>2 DEF SendResume
  <2>2. req'[t].op = "resume"
    BY <2>1 DEF TypeOK, BeginResume, Arrive, NoRequest
  <2> QED
    BY <1>0, <2>1, <2>2 DEF Begin
<1>3. CASE SendFail(w)
  <2>1. PICK t \in Threads : Send(w, t, "report", "await_fail") /\ BeginFail(t, job[w], TRUE)
    BY <1>3 DEF SendFail
  <2>2. req'[t].op = "fail"
    BY <2>1 DEF TypeOK, BeginFail, Arrive, NoRequest
  <2> QED
    BY <1>0, <2>1, <2>2 DEF Begin
<1> QED
  BY <1>1, <1>2, <1>3

\* A worker that acts without sending waits for nobody afterwards.
LEMMA ActsDisconnected ==
  ASSUME CodexTypes, NEW w \in Workers, Acts(w), ~SendClaim(w), ~SendResume(w), ~SendFail(w)
  PROVE  conn' = [conn EXCEPT ![w] = NoThread]
<1> USE DEF CodexTypes, CodexTypeOK, Move, Awaiting
<1>1. CASE Answers(w)
  BY <1>1, AnswersEdge DEF Answered
<1>2. CASE Loss(w)
  BY <1>2, LossEdge DEF Lost
<1>3. CASE AwaitedCutOff(w) \/ WorkerCrash(w)
  BY <1>3 DEF AwaitedCutOff, WorkerCrash
<1>4. CASE Works(w)
  BY <1>4, WorksEdge DEF Local
<1>5. CASE (\E a \in Actions : Inspect(w, a)) \/ SubmitEvidence(w) \/ ReadClosureRow(w)
  BY <1>5 DEF Inspect, SubmitEvidence, ReadClosureRow
<1> QED
  BY <1>1, <1>2, <1>3, <1>4, <1>5, SMTT(60) DEF Acts

\* A thread that leaves a request, or takes one, leaves other threads alone.
LEMMA OtherThreads ==
  ASSUME TypeOK, NEW t \in Threads, NEW u \in Threads, u # t,
         \/ \E a \in Actions : Begin(t, a)
         \/ Respond(t) \/ CutOff(t)
  PROVE  pc'[u] = pc[u] /\ req'[u] = req[u]
BY ZenonT(60)
DEF TypeOK, Begin, BeginApprove, BeginReject, BeginClaim, BeginFail, BeginResume, Arrive,
    Respond, CutOff, Goto

\* While a worker waits, its thread goes on with its request or stands still.
LEMMA AwaitedThread ==
  ASSUME CodexTypes, Connections, [CodexNext]_systemVars, NEW v \in Workers, Unmoved(v),
         conn[v] # NoThread
  PROVE  \/ pc'[conn[v]] = pc[conn[v]] /\ req'[conn[v]] = req[conn[v]]
         \/ Statement(conn[v])
<1> DEFINE u == conn[v]
           Still == pc'[u] = pc[u] /\ req'[u] = req[u]
<1>0. TypeOK /\ u \in Threads /\ pc[u] # "idle"
  BY DEF CodexTypes, CodexTypeOK, Connections, Served, ServedBy
<1> HIDE DEF u
<1>1. CASE UNCHANGED vars
  BY <1>1 DEF vars
<1>2. ASSUME NEW a \in Actions, Prepare(a) \/ ActionLapses(a) \/ LeaseLapses(a) \/ RecordEvidence(a)
      PROVE  Still
  BY <1>2 DEF Prepare, ActionLapses, LeaseLapses, RecordEvidence
<1>3. ASSUME NEW t \in Threads, ServerStep(t)
      PROVE  Still \/ Statement(u)
  <2>1. CASE Statement(t)
    BY <1>0, <2>1, StatementFrame
  <2>2. CASE ~Awaited(t) /\ (Respond(t) \/ CutOff(t))
    <3>1. u # t
      BY <2>2 DEF Awaited, u
    <3> QED
      BY <1>0, <2>2, <3>1, OtherThreads
  <2> QED
    BY <1>3, <2>1, <2>2 DEF ServerStep
<1>4. ASSUME NEW t \in Threads, NEW a \in Actions, Begin(t, a)
      PROVE  Still
  <2>1. u # t
    BY <1>0, <1>4, BeginOnCourse
  <2> QED
    BY <1>0, <1>4, <2>1, OtherThreads
<1>5. ASSUME NEW w \in Workers, Acts(w)
      PROVE  Still
  <2>1. CASE SendClaim(w) \/ SendResume(w) \/ SendFail(w)
    BY <1>4, <2>1, SendsTo
  <2>2. CASE ~(SendClaim(w) \/ SendResume(w) \/ SendFail(w)) /\ w = v
    <3>1. conn'[v] = NoThread
      BY <1>5, <2>2, ActsDisconnected DEF CodexTypes, CodexTypeOK
    <3> QED
      BY <3>1 DEF Unmoved
  <2>3. CASE Answers(w) /\ w # v
    <3>1. conn[w] \in Threads /\ Respond(conn[w])
      <4>1. PICK from \in Awaiting : stage[w] = from /\ Respond(conn[w])
        BY <2>3, AnswersEdge DEF Answered, Move
      <4> QED
        BY <4>1 DEF CodexTypes, CodexTypeOK
    <3>2. conn[w] # u
      BY <2>3 DEF Connections, Apart, u
    <3> QED
      BY <1>0, <3>1, <3>2, OtherThreads
  <2>4. CASE AwaitedCutOff(w) /\ w # v
    <3>1. conn[w] \in Threads /\ CutOff(conn[w])
      BY <2>4 DEF AwaitedCutOff, CodexTypes, CodexTypeOK
    <3>2. conn[w] # u
      BY <2>4 DEF Connections, Apart, u
    <3> QED
      BY <1>0, <3>1, <3>2, OtherThreads
  <2>5. CASE SubmitEvidence(w)
    BY <2>5 DEF SubmitEvidence, RecordEvidence
  <2>6. CASE \/ \E a \in Actions : Inspect(w, a)
             \/ Works(w) \/ ReadClosureRow(w) \/ Loss(w) \/ WorkerCrash(w)
    <3>1. UNCHANGED vars
      BY <2>6, WorksEdge, LossEdge DEF Inspect, Local, ReadClosureRow, Lost, WorkerCrash
    <3> QED
      BY <3>1 DEF vars
  <2> QED
    BY <1>5, <2>1, <2>2, <2>3, <2>4, <2>5, <2>6 DEF Acts
<1>6. ASSUME NEW t \in Threads, NEW a \in Actions, HumanDecides(t, a)
      PROVE  Still
  BY <1>4, <1>6 DEF HumanDecides, Begin
<1> QED
  BY <1>1, <1>2, <1>3, <1>5, <1>6, ActsKinds DEF CodexNext, systemVars, u

\* Every step keeps each worker connected to its own request, and apart.
LEMMA ConnectionsStep ==
  ASSUME CodexTypes, Connections, Course, [CodexNext]_systemVars
  PROVE  Connections'
<1>0. TypeOK
  BY DEF CodexTypes, CodexTypeOK
<1>1. ASSUME NEW v \in Workers
      PROVE  ServedBy(v)'
  <2>1. CASE Unmoved(v)
    <3> SUFFICES ASSUME conn[v] # NoThread
                 PROVE  ServedBy(v)'
      BY <2>1 DEF ServedBy, Unmoved
    <3>1. conn[v] \in Threads /\ ServedBy(v) /\ OnCourse(conn[v])
      BY DEF CodexTypes, CodexTypeOK, Connections, Served, Course
    <3>2. CASE pc'[conn[v]] = pc[conn[v]] /\ req'[conn[v]] = req[conn[v]]
      BY <2>1, <3>1, <3>2 DEF ServedBy, Unmoved, Target
    <3>3. CASE Statement(conn[v])
      <4>1. /\ req'[conn[v]].op = req[conn[v]].op /\ req'[conn[v]].action = req[conn[v]].action
            /\ pc'[conn[v]] # "idle"
        <5> DEFINE u == conn[v]
        <5> HIDE DEF u
        <5>1. u \in Threads /\ OnCourse(u) /\ Statement(u)
          BY <3>1, <3>3 DEF u
        <5>2. req'[u].op = req[u].op /\ req'[u].action = req[u].action /\ pc'[u] # "idle"
          BY <1>0, <5>1, StatementOnCourse DEF Target
        <5> QED
          BY <5>2 DEF u
      <4> QED
        BY <2>1, <3>1, <4>1 DEF ServedBy, Unmoved, Target
    <3> QED
      BY <2>1, <3>2, <3>3, AwaitedThread
  <2>2. CASE SendClaim(v) \/ SendResume(v) \/ SendFail(v)
    <3>1. PICK t \in Threads :
             /\ Begin(t, job[v]) /\ job[v] \in Actions
             /\ conn' = [conn EXCEPT ![v] = t] /\ job'[v] = job[v]
             /\ stage'[v] = "await_claim" => req'[t].op = "claim"
             /\ stage'[v] = "await_resume" => req'[t].op = "resume"
             /\ stage'[v] = "await_fail" => req'[t].op = "fail"
      BY <2>2, SendsTo
    <3>2. conn'[v] = t
      BY <3>1 DEF CodexTypes, CodexTypeOK
    <3>3. Target(t)' = job[v] /\ pc'[t] # "idle"
      BY <1>0, <3>1, BeginOnCourse
    <3> QED
      BY <3>1, <3>2, <3>3 DEF ServedBy, Target
  <2>3. CASE Acts(v) /\ ~SendClaim(v) /\ ~SendResume(v) /\ ~SendFail(v)
    BY <2>3, ActsDisconnected DEF CodexTypes, CodexTypeOK, ServedBy
  <2> QED
    BY <2>1, <2>2, <2>3, OneWorkerActs
<1>2. Apart'
  <2> SUFFICES ASSUME NEW v \in Workers, NEW w \in Workers, v # w, conn'[v] = conn'[w],
                      conn'[v] # NoThread
               PROVE  FALSE
    BY DEF Apart
  <2>1. ASSUME NEW x \in Workers, NEW y \in Workers, x # y, SendClaim(x) \/ SendResume(x) \/ SendFail(x)
        PROVE  conn'[x] # conn'[y]
    <3>1. PICK t \in Threads : Begin(t, job[x]) /\ job[x] \in Actions /\ conn' = [conn EXCEPT ![x] = t]
      BY <2>1, SendsTo
    <3>2. pc[t] = "idle"
      BY <1>0, <3>1, BeginOnCourse
    <3>3. conn'[x] = t /\ conn'[y] = conn[y]
      BY <2>1, <3>1 DEF CodexTypes, CodexTypeOK
    <3>4. t # NoThread
      BY CodexAssumption
    <3> QED
      BY <3>2, <3>3, <3>4 DEF Connections, Served, ServedBy
  <2>2. ASSUME NEW x \in Workers, ~SendClaim(x), ~SendResume(x), ~SendFail(x)
        PROVE  conn'[x] \in {conn[x], NoThread}
    BY <2>2, OneWorkerActs, ActsDisconnected DEF Unmoved, CodexTypes, CodexTypeOK
  <2> QED
    BY <2>1, <2>2 DEF Connections, Apart
<1> QED
  BY <1>1, <1>2 DEF Connections, Served

-----------------------------------------------------------------------------
(* A granted worker is alone.                                              *)

\* The worker's claim was granted, although its reply may still be on its way.
Granted(w) ==
  \/ stage[w] \in Granting
  \/ stage[w] = "await_claim" /\ pc[conn[w]] = "ok"
  \/ resumed[w]

Alone ==
  /\ \A w \in Workers : Granted(w) => lease[job[w]] # "none"
  /\ \A v, w \in Workers : v # w /\ Granted(v) /\ Granted(w) => job[v] # job[w]

\* A claim that is answered with success has just inserted its lease.
LEMMA ClaimAnswered ==
  ASSUME TypeOK, NEW t \in Threads, OnCourse(t), Statement(t), req[t].op = "claim", pc'[t] = "ok"
  PROVE  ClaimInsert(t)
BY DEF TypeOK, OnCourse, Claiming, Closing, Finished, Statement, Decide, Claim, Close, Resume, FailLease,
       ExpireApproval, ExpireAction, DecideApproval, DecideAction, DecideTool, DecideRun, DecideTask,
       SetApproval, SetStatus, SetTool, SetRun, SetTask,
       ClaimRow, ClaimGate, ClaimConflict, ClaimExisting, ReadRow,
       CloseLease, CloseAction, CloseRun, CloseTask, CloseTool, MoveLease,
       ResumeRow, ResumeApproval, ResumeLease, ResumeVerify,
       ResumeConsume, ResumeSpent, ResumeComplete, ResumeTool, ResumeRun, ResumeTask, Branch, Goto

\* Only the insert of a lease grants a worker.
LEMMA GrantedBefore ==
  ASSUME CodexTypes, Connections, Course, [CodexNext]_systemVars, NEW v \in Workers, Granted(v)'
  PROVE  /\ job'[v] = job[v]
         /\ \/ Granted(v)
            \/ /\ stage[v] = "await_claim" /\ conn[v] \in Threads
               /\ ClaimInsert(conn[v]) /\ Target(conn[v]) = job[v]
<1> USE DEF CodexTypes, CodexTypeOK, Employed, Move, Granting, Executing
<1>1. CASE Unmoved(v)
  <2>1. CASE stage[v] \in Granting \/ resumed[v]
    BY <1>1, <2>1 DEF Granted, Unmoved
  <2>2. CASE stage[v] = "await_claim" /\ pc'[conn[v]] = "ok"
    <3> DEFINE u == conn[v]
    <3>1. conn[v] \in Threads /\ conn[v] # NoThread
      BY <2>2, CodexAssumption DEF Awaiting
    <3>2. CASE pc'[u] = pc[u]
      BY <1>1, <2>2, <3>2 DEF Granted, Unmoved
    <3>3. CASE Statement(u)
      <4>1. req[u].op = "claim" /\ Target(u) = job[v] /\ OnCourse(u)
        BY <2>2, <3>1 DEF Connections, Served, ServedBy, Course
      <4> HIDE DEF u
      <4>2. ClaimInsert(u)
        BY <2>2, <3>1, <3>3, <4>1, ClaimAnswered DEF u
      <4> QED
        BY <1>1, <2>2, <3>1, <4>1, <4>2 DEF Unmoved, u
    <3> QED
      BY <1>1, <3>1, <3>2, <3>3, AwaitedThread
  <2> QED
    BY <1>1, <2>1, <2>2 DEF Granted, Unmoved
<1>2. ASSUME NEW a \in Actions, Inspect(v, a)
      PROVE  FALSE
  BY <1>2 DEF Inspect, Granted
<1>3. CASE SendClaim(v)
  <2>1. PICK t \in Threads : Send(v, t, "claim", "await_claim") /\ BeginClaim(t, job[v]) /\ UNCHANGED resumed
    BY <1>3 DEF SendClaim
  <2>2. conn'[v] = t /\ pc'[t] = "claim_row" /\ stage'[v] = "await_claim" /\ job' = job
    BY <2>1 DEF Send, BeginClaim, Arrive, Goto, TypeOK
  <2> QED
    BY <2>1, <2>2 DEF Granted
<1>4. CASE SendResume(v) \/ SendFail(v)
  BY <1>4 DEF SendResume, SendFail, Send, Granted
<1>5. CASE ClaimGranted(v)
  BY <1>5 DEF ClaimGranted, Answered, Granted
<1>6. CASE Answers(v) /\ ~ClaimGranted(v)
  BY <1>6
  DEF Answers, ClaimRefused, ResumeGranted, ResumeRefused, FailAccepted, FailRefused, Answered, Granted
<1>7. CASE Works(v)
  BY <1>7, WorksEdge DEF Local, Granted
<1>8. CASE SubmitEvidence(v) \/ ReadClosureRow(v)
  BY <1>8 DEF SubmitEvidence, ReadClosureRow, Granted
<1>9. CASE Loss(v)
  <2>1. PICK from \in Awaiting \cup {"claim", "resume", "report"}, to \in {"stopped", "check_row"} :
           Lost(v, from, to) /\ (to = "check_row" => from \in {"resume", "await_resume"})
    BY <1>9, LossEdge
  <2> QED
    BY <2>1 DEF Lost, Granted
<1>10. CASE AwaitedCutOff(v) \/ WorkerCrash(v)
  BY <1>10 DEF AwaitedCutOff, WorkerCrash, Granted
<1> QED
  BY <1>1, <1>2, <1>3, <1>4, <1>5, <1>6, <1>7, <1>8, <1>9, <1>10, OneWorkerActs DEF Acts

\* Every step keeps granted workers alone: a lease is inserted only where there
\* is none, and by one thread at a time.
LEMMA AloneStep ==
  ASSUME CodexTypes, WallInv, Connections, Alone, [CodexNext]_systemVars
  PROVE  Alone'
<1>0. IInv /\ TypeOK /\ Course /\ [Next]_vars
  BY StepOfTheWall DEF CodexTypes, CodexTypeOK, WallInv
<1>1. ASSUME NEW t \in Threads, ClaimInsert(t), Target(t) \in Actions
      PROVE  lease[Target(t)] = "none" /\ lease'[Target(t)] = "executing"
  BY <1>0, <1>1 DEF ClaimInsert, LeaseFree, TypeOK
<1>2. ASSUME NEW w \in Workers, Granted(w)'
      PROVE  job'[w] = job[w] /\ job[w] \in Actions
  <2>1. job'[w] = job[w]
    BY <1>0, <1>2, GrantedBefore
  <2>2. stage[w] # "idle"
    BY <1>0, <1>2, GrantedBefore
    DEF CodexTypes, Employed, Granted, Granting, Executing
  <2> QED
    BY <2>1, <2>2, ConstantsAssumption DEF CodexTypes, Employed
<1>3. ASSUME NEW w \in Workers, Granted(w)'
      PROVE  lease'[job'[w]] # "none"
  <2>1. CASE Granted(w)
    BY <1>0, <1>2, <1>3, <2>1, LeasedKept DEF Alone
  <2>2. CASE ~Granted(w)
    <3>1. ClaimInsert(conn[w]) /\ conn[w] \in Threads /\ Target(conn[w]) = job[w]
      BY <1>0, <1>3, <2>2, GrantedBefore
    <3> QED
      BY <1>1, <1>2, <1>3, <3>1
  <2> QED
    BY <2>1, <2>2
<1>4. ASSUME NEW v \in Workers, NEW w \in Workers, v # w, Granted(v)', Granted(w)'
      PROVE  job'[v] # job'[w]
  <2>1. CASE Granted(v) /\ Granted(w)
    BY <1>2, <1>4, <2>1 DEF Alone
  <2>2. ASSUME NEW x \in Workers, NEW y \in Workers, Granted(x), Granted(y)', ~Granted(y)
        PROVE  job[x] # job[y]
    <3>1. ClaimInsert(conn[y]) /\ conn[y] \in Threads /\ Target(conn[y]) = job[y]
      BY <1>0, <2>2, GrantedBefore
    <3>2. lease[job[y]] = "none"
      BY <1>1, <1>2, <2>2, <3>1
    <3> QED
      BY <2>2, <3>2 DEF Alone
  <2>3. CASE ~Granted(v) /\ ~Granted(w)
    <3>1. /\ ClaimInsert(conn[v]) /\ conn[v] \in Threads
          /\ ClaimInsert(conn[w]) /\ conn[w] \in Threads
      BY <1>0, <1>4, <2>3, GrantedBefore
    <3>2. conn[v] # conn[w]
      BY <1>4, <3>1, CodexAssumption DEF Connections, Apart
    <3>3. pc'[conn[w]] = "ok" /\ pc'[conn[w]] = "claim_insert"
      BY <1>0, <3>1, <3>2 DEF ClaimInsert, Goto, TypeOK
    <3> QED
      BY <3>3
  <2> QED
    BY <1>2, <1>4, <2>1, <2>2, <2>3
<1> QED
  BY <1>3, <1>4 DEF Alone

-----------------------------------------------------------------------------
(* Resumes are sent by workers.                                            *)

\* A thread that resumes an action, and a consumed action, were sent for by a
\* worker that serves it.
SentFor(a) == \E w \in Workers : resumed[w] /\ job[w] = a
Requested ==
  /\ \A t \in Threads : req[t].op = "resume" => SentFor(Target(t))
  /\ \A a \in WorkspaceWrite : consumed[a] => SentFor(a)

\* A worker that has sent its resume has sent it for good.
LEMMA SentForKept ==
  ASSUME CodexTypes, [CodexNext]_systemVars, NEW a, SentFor(a)
  PROVE  SentFor(a)'
<1> USE DEF CodexTypes, CodexTypeOK, Employed, Move
<1>1. PICK w \in Workers : resumed[w] /\ job[w] = a /\ stage[w] # "idle"
  BY DEF SentFor
<1>2. ASSUME Acts(w)
      PROVE  resumed'[w] /\ job'[w] = job[w]
  <2>1. CASE SendClaim(w) \/ SendResume(w) \/ SendFail(w)
    BY <1>1, <2>1 DEF SendClaim, SendResume, SendFail, Send
  <2>2. CASE Answers(w)
    BY <1>1, <2>2, AnswersEdge DEF Answered
  <2>3. CASE Works(w)
    BY <1>1, <2>3, WorksEdge DEF Local
  <2>4. CASE Loss(w)
    BY <1>1, <2>4, LossEdge DEF Lost
  <2>5. CASE (\E b \in Actions : Inspect(w, b)) \/ SubmitEvidence(w) \/ ReadClosureRow(w)
             \/ AwaitedCutOff(w) \/ WorkerCrash(w)
    BY <1>1, <2>5 DEF Inspect, SubmitEvidence, ReadClosureRow, AwaitedCutOff, WorkerCrash
  <2> QED
    BY <1>2, <2>1, <2>2, <2>3, <2>4, <2>5 DEF Acts
<1> QED
  BY <1>1, <1>2, OneWorkerActs DEF Unmoved, SentFor

\* A thread resumes because it did, or because a worker has just sent for it.
LEMMA ResumeSent ==
  ASSUME CodexTypes, Course, [CodexNext]_systemVars, NEW u \in Threads, req'[u].op = "resume"
  PROVE  (req[u].op = "resume" /\ Target(u)' = Target(u)) \/ SentFor(Target(u))'
<1> DEFINE Same == req'[u] = req[u]
<1>0. TypeOK
  BY DEF CodexTypes, CodexTypeOK
<1>1. CASE req'[u] = req[u]
  BY <1>1 DEF Target
<1>2. CASE Statement(u)
  BY <1>0, <1>2, StatementOnCourse DEF Course
<1>3. CASE Respond(u) \/ CutOff(u)
  BY <1>0, <1>3 DEF TypeOK, Respond, CutOff, NoRequest
<1>4. ASSUME NEW t \in Threads, ServerStep(t)
      PROVE  Same \/ Statement(u) \/ Respond(u) \/ CutOff(u)
  BY <1>0, <1>4, StatementFrame, OtherThreads DEF ServerStep
<1>5. ASSUME NEW t \in Threads, NEW a \in Actions, HumanDecides(t, a)
      PROVE  Same
  BY <1>0, <1>5 DEF TypeOK, HumanDecides, BeginApprove, BeginReject, Arrive, NoRequest
<1>6. ASSUME NEW w \in Workers, SendClaim(w)
      PROVE  Same
  BY <1>0, <1>6 DEF TypeOK, SendClaim, BeginClaim, Arrive, NoRequest
<1>7. ASSUME NEW w \in Workers, SendFail(w)
      PROVE  Same
  BY <1>0, <1>7 DEF TypeOK, SendFail, BeginFail, Arrive, NoRequest
<1>8. ASSUME NEW w \in Workers, SendResume(w)
      PROVE  Same \/ SentFor(Target(u))'
  <2>1. PICK t \in Threads : Send(w, t, "resume", "await_resume") /\ BeginResume(t, job[w], TRUE)
    BY <1>8 DEF SendResume
  <2>2. CASE t # u
    BY <1>0, <2>1, <2>2 DEF TypeOK, BeginResume, Arrive
  <2>3. CASE t = u
    <3>1. Target(u)' = job[w] /\ job' = job
      BY <1>0, <2>1, <2>3 DEF TypeOK, BeginResume, Arrive, NoRequest, Target, Send
    <3>2. resumed'[w]
      BY <1>8 DEF SendResume, CodexTypes, CodexTypeOK
    <3> QED
      BY <3>1, <3>2 DEF SentFor
  <2> QED
    BY <2>2, <2>3
<1>9. ASSUME NEW w \in Workers, Acts(w), ~SendClaim(w), ~SendResume(w), ~SendFail(w)
      PROVE  Same \/ Respond(u) \/ CutOff(u)
  <2>1. ASSUME NEW t \in Threads, Respond(t) \/ CutOff(t)
        PROVE  Same \/ Respond(u) \/ CutOff(u)
    BY <1>0, <2>1, OtherThreads
  <2>2. CASE Answers(w)
    <3>1. PICK from \in Awaiting : stage[w] = from /\ Respond(conn[w])
      BY <2>2, AnswersEdge DEF Answered, Move
    <3>2. conn[w] \in Threads
      BY <3>1 DEF CodexTypes, CodexTypeOK
    <3> QED
      BY <2>1, <3>1, <3>2
  <2>3. CASE AwaitedCutOff(w)
    BY <2>1, <2>3 DEF AwaitedCutOff, CodexTypes, CodexTypeOK
  <2>4. CASE SubmitEvidence(w)
    BY <2>4 DEF SubmitEvidence, RecordEvidence
  <2>5. CASE \/ \E a \in Actions : Inspect(w, a)
             \/ Works(w) \/ ReadClosureRow(w) \/ Loss(w) \/ WorkerCrash(w)
    <3>1. UNCHANGED vars
      BY <2>5, WorksEdge, LossEdge DEF Inspect, Local, ReadClosureRow, Lost, WorkerCrash
    <3> QED
      BY <3>1 DEF vars
  <2> QED
    BY <1>9, <2>2, <2>3, <2>4, <2>5 DEF Acts
<1>10. ASSUME NEW a \in Actions, Prepare(a) \/ ActionLapses(a) \/ LeaseLapses(a)
       PROVE  Same
  BY <1>10 DEF Prepare, ActionLapses, LeaseLapses
<1>11. ASSUME UNCHANGED systemVars
       PROVE  Same
  BY <1>11 DEF systemVars, vars
<1>12. Same \/ Statement(u) \/ Respond(u) \/ CutOff(u) \/ SentFor(Target(u))'
  <2>1. ASSUME NEW w \in Workers, Acts(w)
        PROVE  Same \/ Respond(u) \/ CutOff(u) \/ SentFor(Target(u))'
    BY <1>6, <1>7, <1>8, <1>9, <2>1
  <2>2. CASE CodexNext
    <3> HIDE DEF Same
    <3> QED
      BY <1>4, <1>5, <1>10, <2>1, <2>2, ActsKinds, Zenon DEF CodexNext
  <2> QED
    BY <1>11, <2>2
<1> QED
  <2>1. CASE Same
    BY <1>1, <2>1
  <2>2. CASE Statement(u)
    BY <1>2, <2>2
  <2>3. CASE Respond(u) \/ CutOff(u)
    BY <1>3, <2>3
  <2>4. CASE SentFor(Target(u))'
    BY <2>4
  <2> QED
    BY <1>12, <2>1, <2>2, <2>3, <2>4

\* Every step keeps resumes and consumptions accounted for.
LEMMA RequestedStep ==
  ASSUME CodexTypes, WallInv, Requested, [CodexNext]_systemVars
  PROVE  Requested'
<1>0. IInv /\ TypeOK /\ Course /\ [Next]_vars
  BY StepOfTheWall DEF CodexTypes, CodexTypeOK, WallInv
<1>1. ASSUME NEW t \in Threads, req'[t].op = "resume"
      PROVE  SentFor(Target(t))'
  <2>1. CASE req[t].op = "resume" /\ Target(t)' = Target(t)
    <3>1. PICK a : a = Target(t)
      OBVIOUS
    <3>2. SentFor(a)
      BY <2>1, <3>1 DEF Requested, SentFor
    <3>3. SentFor(a)'
      BY <3>2, SentForKept
    <3> QED
      BY <2>1, <3>1, <3>3 DEF SentFor
  <2> QED
    BY <1>0, <1>1, <2>1, ResumeSent
<1>2. ASSUME NEW a \in WorkspaceWrite, consumed'[a]
      PROVE  SentFor(a)'
  <2>1. CASE consumed[a]
    BY <2>1, SentForKept DEF Requested
  <2>2. CASE ~consumed[a]
    <3>1. PICK t \in Threads : ResumeConsume(t) /\ Target(t) = a
      BY <1>0, <1>2, <2>2, Writers, ConstantsAssumption
      DEF TypeOK, ClaimInsert, CloseLease, ResumeComplete, ResumeConsume, MoveLease
    <3>2. req[t].op = "resume"
      BY <1>0, <3>1
      DEF ResumeConsume, Course, OnCourse, TypeOK, Requests, Operations, Deciding, Claiming, Closing, Finished
    <3>3. SentFor(a)
      BY <3>1, <3>2 DEF Requested
    <3> QED
      BY <3>3, SentForKept
  <2> QED
    BY <2>1, <2>2
<1> QED
  BY <1>1, <1>2 DEF Requested

-----------------------------------------------------------------------------
(* What a worker reports is so.                                            *)

\* From its diff until its success a worker leaves the worktree as it is.
Keeping == {"finalize", "resume", "await_resume", "check_row", "check_lease", "check_run",
            "succeeded", "reconciled"}
KeepsDiff(w) == stage[w] \in Keeping => worktree[job[w]] = "diff"

\* A worker about to report success has seen the action consumed.
SeesConsumed(w) == stage[w] \in {"succeeded", "reconciled", "check_run"} => consumed[job[w]]

\* A worker reports a failure only when its action is closed.
ClosesFailed(w) ==
  stage[w] = "failed" =>
    /\ lease[job[w]] \in {"failed", "completed"}
    /\ consumed[job[w]] \/ run[job[w]] = "blocked"
    /\ consumed[job[w]] \/ task[job[w]] = "blocked"

Diff == \A w \in Workers : KeepsDiff(w)
Truth == \A w \in Workers : SeesConsumed(w)
Failure == \A w \in Workers : ClosesFailed(w)

CodexInv ==
  CodexTypes /\ WallInv /\ Connections /\ Alone /\ Requested /\ Diff /\ Truth /\ Failure

\* A worker that acts has left its diff in place when it goes on to report it.
LEMMA ActsDiff ==
  ASSUME CodexTypes, NEW w \in Workers, Acts(w), KeepsDiff(w)
  PROVE  KeepsDiff(w)'
<1> USE DEF CodexTypes, CodexTypeOK, Employed, Move, Keeping, KeepsDiff
<1>1. CASE (\E a \in Actions : Inspect(w, a)) \/ WorkerCrash(w) \/ AwaitedCutOff(w)
  BY <1>1 DEF Inspect, WorkerCrash, AwaitedCutOff
<1>2. CASE SendClaim(w) \/ SendFail(w) \/ SendResume(w)
  BY <1>2 DEF SendClaim, SendFail, SendResume, Send
<1>3. CASE Answers(w)
  BY <1>3
  DEF Answers, ClaimGranted, ClaimRefused, ResumeGranted, ResumeRefused, FailAccepted, FailRefused, Answered
<1>4. CASE Loss(w)
  <2>1. PICK from \in Awaiting \cup {"claim", "resume", "report"}, to \in {"stopped", "check_row"} :
           Lost(w, from, to) /\ (to = "check_row" => from \in {"resume", "await_resume"})
    BY <1>4, LossEdge
  <2> QED
    BY <2>1 DEF Lost
<1>5. CASE SubmitEvidence(w) \/ ReadClosureRow(w)
  BY <1>5 DEF SubmitEvidence, ReadClosureRow
<1>6. CASE CodexSucceeds(w)
  <2>1. job[w] \in Actions
    BY <1>6, ConstantsAssumption DEF CodexSucceeds, Local
  <2> QED
    BY <1>6, <2>1 DEF CodexSucceeds, Local
<1>7. CASE ReadClosureLease(w)
  <2>1. stage[w] \in Keeping /\ worktree' = worktree /\ job' = job
    BY <1>7 DEF ReadClosureLease, Local
  <2> QED
    BY <2>1
<1>8. CASE CreateWorktree(w) \/ CodexFails(w) \/ RemoveWorktree(w, "rollback")
           \/ RemoveWorktree(w, "undo") \/ EvidenceFails(w) \/ ClosureUnknown(w) \/ ReadClosureRun(w)
  BY <1>8
  DEF CreateWorktree, CodexFails, RemoveWorktree, EvidenceFails, ClosureUnknown, ReadClosureRun, Local
<1> QED
  BY <1>1, <1>2, <1>3, <1>4, <1>5, <1>6, <1>7, <1>8 DEF Acts, Works

\* Only a granted worker writes a worktree, and only that of its action.
LEMMA WorktreeWriter ==
  ASSUME CodexTypes, NEW w \in Workers, Acts(w), NEW a \in Actions, a # job[w] \/ ~Granted(w)
  PROVE  worktree'[a] = worktree[a]
<1> USE DEF CodexTypes, CodexTypeOK, Move
<1>1. CASE Works(w)
  <2>1. Granted(w) /\ job[w] # a
    BY <1>1, WorksEdge DEF Local, Granted
  <2> QED
    BY <1>1, <2>1
    DEF Works, CreateWorktree, CodexSucceeds, CodexFails, RemoveWorktree, EvidenceFails,
        ReadClosureLease, ClosureUnknown, ReadClosureRun
<1>2. CASE Answers(w)
  BY <1>2, AnswersEdge DEF Answered
<1>3. CASE Loss(w)
  BY <1>3, LossEdge DEF Lost
<1>4. CASE SendClaim(w) \/ SendFail(w) \/ SendResume(w)
  BY <1>4 DEF SendClaim, SendFail, SendResume, Send
<1>5. CASE (\E b \in Actions : Inspect(w, b)) \/ SubmitEvidence(w) \/ ReadClosureRow(w)
           \/ AwaitedCutOff(w) \/ WorkerCrash(w)
  BY <1>5 DEF Inspect, SubmitEvidence, ReadClosureRow, AwaitedCutOff, WorkerCrash
<1> QED
  BY <1>1, <1>2, <1>3, <1>4, <1>5 DEF Acts

\* Every step leaves the diffs of workers that go on to report them.
LEMMA DiffStep ==
  ASSUME CodexTypes, Alone, Diff, [CodexNext]_systemVars
  PROVE  Diff'
<1> SUFFICES ASSUME NEW w \in Workers
             PROVE  KeepsDiff(w)'
  BY DEF Diff
<1>1. CASE Acts(w)
  BY <1>1, ActsDiff DEF Diff
<1>2. CASE ~Acts(w)
  <2>1. Unmoved(w)
    BY <1>2, OneWorkerActs
  <2> SUFFICES ASSUME stage[w] \in Keeping
               PROVE  worktree'[job[w]] = "diff"
    BY <2>1 DEF KeepsDiff, Unmoved
  <2>2. /\ job[w] \in Actions /\ worktree[job[w]] = "diff" /\ Granted(w)
    BY ConstantsAssumption
    DEF Diff, KeepsDiff, CodexTypes, Employed, Granted, Granting, Executing, Keeping
  <2>3. ASSUME NEW v \in Workers, Acts(v)
        PROVE  worktree'[job[w]] = worktree[job[w]]
    <3>1. v # w
      BY <1>2, <2>3
    <3>2. job[w] # job[v] \/ ~Granted(v)
      BY <2>2, <3>1 DEF Alone
    <3> QED
      BY <2>2, <2>3, <3>2, WorktreeWriter
  <2>4. ASSUME NEW t \in Threads, NEW a \in Actions, HumanDecides(t, a)
        PROVE  worktree' = worktree
    BY <2>4 DEF HumanDecides
  <2> QED
    BY <2>2, <2>3, <2>4, ActsKinds DEF CodexNext, ServerStep, systemVars, codexVars
<1> QED
  BY <1>1, <1>2

\* What the answer that a worker waits for is worth to it.
LEMMA AnswerWorth ==
  ASSUME CodexTypes, WallInv, Connections, NEW w \in Workers, stage[w] \in Awaiting,
         pc[conn[w]] = "ok"
  PROVE  /\ stage[w] = "await_resume" => consumed[job[w]]
         /\ stage[w] = "await_fail" =>
              /\ lease[job[w]] \in {"failed", "completed"}
              /\ consumed[job[w]] \/ run[job[w]] = "blocked"
              /\ consumed[job[w]] \/ task[job[w]] = "blocked"
<1>1. conn[w] \in Threads /\ conn[w] # NoThread
  BY CodexAssumption DEF CodexTypes, CodexTypeOK
<1> QED
  BY <1>1 DEF Connections, Served, ServedBy, WallInv, AnswersWorth, Worth

\* Every step leaves true what workers report, and what they saw of it.
LEMMA ReportsStep ==
  ASSUME CodexTypes, WallInv, Connections, Truth, Failure, [CodexNext]_systemVars
  PROVE  Truth' /\ Failure'
<1>0. IInv /\ TypeOK /\ [Next]_vars
  BY StepOfTheWall DEF CodexTypes, CodexTypeOK, WallInv
<1> SUFFICES ASSUME NEW w \in Workers
             PROVE  SeesConsumed(w)' /\ ClosesFailed(w)'
  BY DEF Truth, Failure
<1>1. SeesConsumed(w) /\ ClosesFailed(w)
  BY DEF Truth, Failure
<1>2. CASE Unmoved(w)
  <2>1. ASSUME stage[w] \in {"succeeded", "reconciled", "check_run", "failed"}
        PROVE  job[w] \in Actions /\ Final(job[w])
    BY <1>0, <2>1, OutcomeStep, ConstantsAssumption DEF CodexTypes, Employed
  <2>2. SeesConsumed(w)'
    BY <1>1, <1>2, <2>1 DEF SeesConsumed, Unmoved, Final
  <2>3. ClosesFailed(w)'
    <3> SUFFICES ASSUME stage[w] = "failed"
                 PROVE  /\ lease'[job[w]] \in {"failed", "completed"}
                        /\ consumed'[job[w]] \/ run'[job[w]] = "blocked"
                        /\ consumed'[job[w]] \/ task'[job[w]] = "blocked"
      BY <1>2 DEF ClosesFailed, Unmoved
    <3>1. PICK a \in Actions : a = job[w]
      BY <2>1
    <3>2. /\ lease[a] \in {"failed", "completed"}
          /\ consumed[a] \/ run[a] = "blocked"
          /\ consumed[a] \/ task[a] = "blocked"
      BY <1>1, <3>1 DEF ClosesFailed
    <3> QED
      BY <1>0, <3>1, <3>2, LeasedKept
  <2> QED
    BY <2>2, <2>3
<1>3. CASE Answers(w)
  <2>1. /\ UNCHANGED <<lease, consumed, run, task>> /\ job' = job
        /\ stage[w] \in Awaiting
    BY <1>3, AnswersEdge DEF Answered, Respond, ledger, Move
  <2>2. /\ stage'[w] = "succeeded" => stage[w] = "await_resume" /\ pc[conn[w]] = "ok"
        /\ stage'[w] = "failed" => stage[w] = "await_fail" /\ pc[conn[w]] = "ok"
        /\ stage'[w] \notin {"reconciled", "check_run"}
    BY <1>3
    DEF Answers, ClaimGranted, ClaimRefused, ResumeGranted, ResumeRefused, FailAccepted, FailRefused,
        Answered, Move, CodexTypes, CodexTypeOK
  <2> QED
    BY <2>1, <2>2, AnswerWorth DEF SeesConsumed, ClosesFailed
<1>4. CASE ReadClosureLease(w)
  <2>1. /\ UNCHANGED consumed /\ job' = job
        /\ stage'[w] = "check_run" => lease[job[w]] = "completed"
        /\ stage'[w] \in {"check_run", "manual", "undo"} /\ stage[w] # "idle"
    BY <1>4 DEF ReadClosureLease, Local, Move, CodexTypes, CodexTypeOK, vars, ledger
  <2>2. job[w] \in Actions
    BY <2>1, ConstantsAssumption DEF CodexTypes, Employed
  <2>3. lease[job[w]] = "completed" => consumed[job[w]]
    BY <1>0, <2>2 DEF IInv, Rows, CompletedMeansConsumed
  <2> QED
    BY <2>1, <2>3 DEF SeesConsumed, ClosesFailed
<1>5. CASE ReadClosureRun(w)
  BY <1>1, <1>5
  DEF ReadClosureRun, Local, Move, CodexTypes, CodexTypeOK, vars, ledger, SeesConsumed, ClosesFailed
<1>6. ASSUME stage'[w] \notin {"succeeded", "reconciled", "check_run", "failed"}
      PROVE  SeesConsumed(w)' /\ ClosesFailed(w)'
  BY <1>6 DEF SeesConsumed, ClosesFailed
<1>7. ASSUME Acts(w), ~Answers(w), ~ReadClosureLease(w), ~ReadClosureRun(w)
      PROVE  stage'[w] \notin {"succeeded", "reconciled", "check_run", "failed"}
  <2> USE DEF CodexTypes, CodexTypeOK, Move
  <2>1. CASE Loss(w)
    BY <2>1, LossEdge DEF Lost
  <2>2. CASE Works(w)
    BY <1>7, <2>2
    DEF Works, CreateWorktree, CodexSucceeds, CodexFails, RemoveWorktree, EvidenceFails, ClosureUnknown, Local
  <2>3. CASE SendClaim(w) \/ SendFail(w) \/ SendResume(w)
    BY <2>3 DEF SendClaim, SendFail, SendResume, Send
  <2>4. CASE (\E a \in Actions : Inspect(w, a)) \/ SubmitEvidence(w) \/ ReadClosureRow(w)
             \/ AwaitedCutOff(w) \/ WorkerCrash(w)
    BY <2>4 DEF Inspect, SubmitEvidence, ReadClosureRow, AwaitedCutOff, WorkerCrash
  <2> QED
    BY <1>7, <2>1, <2>2, <2>3, <2>4 DEF Acts
<1> QED
  BY <1>2, <1>3, <1>4, <1>5, <1>6, <1>7, OneWorkerActs

\* Every step keeps the invariant of the system.
LEMMA CodexInvStep ==
  ASSUME CodexInv, [CodexNext]_systemVars
  PROVE  CodexInv'
<1>1. [Next]_vars /\ Course
  BY StepOfTheWall DEF CodexInv, WallInv
<1> QED
  BY <1>1, CodexTypeStep, WallInvStep, ConnectionsStep, AloneStep, RequestedStep, DiffStep, ReportsStep
  DEF CodexInv

\* In the beginning no worker has done anything.
LEMMA InitCodexInv == CodexInit => CodexInv
<1> SUFFICES ASSUME CodexInit
             PROVE  CodexInv
  OBVIOUS
<1>1. CodexTypes /\ Init
  BY InitCodexTypes DEF CodexInit
<1>2. IInv
  BY <1>1
  DEF CodexTypes, CodexTypeOK, Init, IInv, ThreadsEntitled, Entitled, Rows, RowsAgree,
      ConsumptionIsEarned, CompletedMeansConsumed
<1>3. WallInv
  BY <1>1, <1>2, InitWallInv DEF WallInv
<1>4. /\ Connections /\ Alone
      /\ Diff /\ Truth /\ Failure
  BY DEF CodexInit, Connections, Served, ServedBy, Apart, Alone, Granted, Granting, Executing,
         Diff, KeepsDiff, Keeping, Truth, SeesConsumed, Failure, ClosesFailed
<1>5. Requested
  BY <1>1, ConstantsAssumption DEF Init, NoRequest, Requested
<1> QED
  BY <1>1, <1>3, <1>4, <1>5 DEF CodexInv

\* Answers are worth what workers take them for, granted workers are alone,
\* resumes are accounted for, and what workers report is so.
THEOREM CodexInvariant == CodexSpec => []CodexInv
BY InitCodexInv, CodexInvStep, PTL DEF CodexSpec

\* The worktree of an action has one writer, for any number of workers, claims,
\* lapses, crashes and lost answers.
THEOREM OneWriterAlways == CodexSpec => []OneWriter
<1>1. CodexInv => OneWriter
  BY DEF CodexInv, Alone, Granted, Granting, OneWriter
<1> QED
  BY <1>1, CodexInvariant, PTL

\* A worker that reports success tells the truth.
THEOREM SuccessAlwaysTrue == CodexSpec => []SuccessIsTrue
<1>1. ASSUME CodexInv, NEW w \in Workers, stage[w] \in {"succeeded", "reconciled"}
      PROVE  consumed[job[w]] /\ evidence[job[w]] /\ worktree[job[w]] = "diff"
  <2>1. job[w] \in WorkspaceWrite /\ job[w] \in Actions
    BY <1>1, ConstantsAssumption DEF CodexInv, CodexTypes, Employed
  <2>2. consumed[job[w]] /\ worktree[job[w]] = "diff"
    BY <1>1 DEF CodexInv, Truth, SeesConsumed, Diff, KeepsDiff, Keeping
  <2> QED
    BY <1>1, <2>1, <2>2 DEF CodexInv, WallInv, IInv, Rows, ConsumptionIsEarned
<1>2. CodexInv => SuccessIsTrue
  BY <1>1 DEF SuccessIsTrue
<1> QED
  BY <1>2, CodexInvariant, PTL

\* A failure reported before any resume was sent is final: nobody else could
\* have sent the resume that would still consume the action.
THEOREM FailureAlwaysFinal == CodexSpec => []FailureIsFinal
<1>1. ASSUME CodexInv, NEW w \in Workers, stage[w] = "failed", ~resumed[w]
      PROVE  Closed(job[w]) /\ run[job[w]] = "blocked" /\ task[job[w]] = "blocked"
  <2>1. job[w] \in WorkspaceWrite /\ job[w] \in Actions /\ Granted(w)
    BY <1>1, ConstantsAssumption DEF CodexInv, CodexTypes, Employed, Granted, Granting
  <2>2. ~SentFor(job[w])
    BY <1>1, <2>1 DEF CodexInv, Alone, Granted, SentFor
  <2>3. ~consumed[job[w]]
    BY <1>1, <2>1, <2>2 DEF CodexInv, Requested
  <2>4. /\ lease[job[w]] \in {"failed", "completed"}
        /\ run[job[w]] = "blocked" /\ task[job[w]] = "blocked"
    BY <1>1, <2>3 DEF CodexInv, Failure, ClosesFailed
  <2>5. lease[job[w]] # "completed"
    BY <1>1, <2>1, <2>3 DEF CodexInv, WallInv, IInv, Rows, CompletedMeansConsumed
  <2>6. ~PastLeaseTest(job[w])
    <3> SUFFICES ASSUME NEW t \in Threads, Target(t) = job[w],
                        pc[t] \in {"resume_verify", "resume_consume"}
                 PROVE  FALSE
      BY DEF PastLeaseTest
    <3>1. OnCourse(t) /\ req[t].op \in Operations
      BY <1>1 DEF CodexInv, WallInv, Course, IInv, TypeOK, Requests
    <3>2. req[t].op = "resume"
      BY <3>1 DEF OnCourse, Operations, Deciding, Claiming, Closing, Finished
    <3> QED
      BY <1>1, <2>2, <3>2 DEF CodexInv, Requested
  <2> QED
    BY <2>3, <2>4, <2>5, <2>6 DEF Closed
<1>2. CodexInv => FailureIsFinal
  BY <1>1 DEF FailureIsFinal
<1> QED
  BY <1>2, CodexInvariant, PTL

\* What the wall promises of an action it also keeps with workers running.
THEOREM WorkersKeepTheContract ==
  CodexSpec => ImplementsContract /\ []AtMostOnce /\ []FailureBlocks /\ ClosedStaysClosed
BY CodexObeysWall, WallImplementsContract, ExecutedAtMostOnce, FailureAlwaysBlocks,
   ClosedStaysClosedAlways, PTL

-----------------------------------------------------------------------------
(* One attempt executes an action.                                         *)

\* The stages of a worker that has not sent its resume.
Unsent == {"idle", "claim", "await_claim", "execute", "run", "rollback", "finalize", "resume"}

\* A worker runs in a worktree that it has just opened, and sends its resume once,
\* after its evidence.
InOrder(w) ==
  /\ resumed[w] => stage[w] \notin Unsent
  /\ stage[w] = "run" => worktree[job[w]] = "open"
  /\ stage[w] = "resume" => evidence[job[w]]

Ordered == \A w \in Workers : InOrder(w)

\* While a granted worker does not act its worktree stays as it is.
LEMMA WorktreeKept ==
  ASSUME CodexTypes, Alone, [CodexNext]_systemVars, NEW w \in Workers, ~Acts(w), Granted(w),
         job[w] \in Actions
  PROVE  worktree'[job[w]] = worktree[job[w]]
<1>1. ASSUME NEW v \in Workers, Acts(v)
      PROVE  worktree'[job[w]] = worktree[job[w]]
  <2>1. job[w] # job[v] \/ ~Granted(v)
    BY <1>1 DEF Alone
  <2> QED
    BY <1>1, <2>1, WorktreeWriter
<1>2. ASSUME NEW t \in Threads, NEW a \in Actions, HumanDecides(t, a)
      PROVE  worktree' = worktree
  BY <1>2 DEF HumanDecides
<1> QED
  BY <1>1, <1>2, ActsKinds DEF CodexNext, ServerStep, systemVars, codexVars

\* Evidence is never taken back.
LEMMA EvidenceKept ==
  ASSUME TypeOK, [Next]_vars, NEW a \in Actions, evidence[a]
  PROVE  evidence'[a]
BY Writers DEF TypeOK, RecordEvidence

\* A worker that acts keeps its order.
LEMMA ActsInOrder ==
  ASSUME CodexTypes, NEW w \in Workers, Acts(w), InOrder(w)
  PROVE  InOrder(w)'
<1> USE DEF CodexTypes, CodexTypeOK, Employed, Move, InOrder, Unsent
<1>0. stage[w] # "idle" => job[w] \in Actions
  BY ConstantsAssumption
<1>1. CASE (\E a \in Actions : Inspect(w, a)) \/ WorkerCrash(w) \/ AwaitedCutOff(w)
           \/ ReadClosureRow(w)
  BY <1>1 DEF Inspect, WorkerCrash, AwaitedCutOff, ReadClosureRow
<1>2. CASE SendClaim(w) \/ SendFail(w) \/ SendResume(w)
  BY <1>2 DEF SendClaim, SendFail, SendResume, Send
<1>3. CASE Answers(w)
  BY <1>3
  DEF Answers, ClaimGranted, ClaimRefused, ResumeGranted, ResumeRefused, FailAccepted, FailRefused, Answered
<1>4. CASE Loss(w)
  <2>1. PICK from \in Awaiting \cup {"claim", "resume", "report"}, to \in {"stopped", "check_row"} :
           Lost(w, from, to) /\ (to = "check_row" => from \in {"resume", "await_resume"})
    BY <1>4, LossEdge
  <2> QED
    BY <2>1 DEF Lost
<1>5. CASE SubmitEvidence(w)
  BY <1>0, <1>5 DEF SubmitEvidence, RecordEvidence, TypeOK
<1>6. CASE ReadClosureLease(w)
  <2>1. /\ resumed' = resumed /\ stage[w] = "check_lease"
        /\ stage'[w] \in {"check_run", "manual", "undo"}
    BY <1>6 DEF ReadClosureLease, Local
  <2> QED
    BY <2>1
<1>7. CASE CreateWorktree(w) \/ CodexSucceeds(w) \/ CodexFails(w) \/ RemoveWorktree(w, "rollback")
           \/ RemoveWorktree(w, "undo") \/ EvidenceFails(w) \/ ClosureUnknown(w) \/ ReadClosureRun(w)
  BY <1>0, <1>7
  DEF CreateWorktree, CodexSucceeds, CodexFails, RemoveWorktree, EvidenceFails, ClosureUnknown,
      ReadClosureRun, Local
<1> QED
  BY <1>1, <1>2, <1>3, <1>4, <1>5, <1>6, <1>7 DEF Acts, Works

\* Every step keeps the order of every worker.
LEMMA OrderedStep ==
  ASSUME CodexInv, Ordered, [CodexNext]_systemVars
  PROVE  Ordered'
<1>0. CodexTypes /\ TypeOK /\ Alone /\ [Next]_vars
  BY StepOfTheWall DEF CodexInv, CodexTypes, CodexTypeOK
<1> SUFFICES ASSUME NEW w \in Workers
             PROVE  InOrder(w)'
  BY DEF Ordered
<1>1. CASE Acts(w)
  BY <1>0, <1>1, ActsInOrder DEF Ordered
<1>2. CASE ~Acts(w)
  <2>1. Unmoved(w) /\ InOrder(w)
    BY <1>0, <1>2, OneWorkerActs DEF Ordered
  <2>2. CASE stage[w] = "run"
    <3>1. Granted(w) /\ job[w] \in Actions
      BY <1>0, <2>2, ConstantsAssumption
      DEF CodexTypes, Employed, Granted, Granting, Executing
    <3> QED
      BY <1>0, <1>2, <2>1, <2>2, <3>1, WorktreeKept DEF InOrder, Unmoved
  <2>3. CASE stage[w] = "resume"
    <3>1. job[w] \in Actions
      BY <1>0, <2>3, ConstantsAssumption DEF CodexTypes, Employed
    <3> QED
      BY <1>0, <2>1, <2>3, <3>1, EvidenceKept DEF InOrder, Unmoved
  <2>4. CASE stage[w] \notin {"run", "resume"}
    BY <2>1, <2>4 DEF InOrder, Unmoved
  <2> QED
    BY <2>2, <2>3, <2>4
<1> QED
  BY <1>1, <1>2

\* A thread that has answered with success has no statement left.
LEMMA StatementUnanswered ==
  ASSUME NEW t \in Threads, Statement(t)
  PROVE  pc[t] # "ok"
BY DEF Statement, Decide, Claim, Close, Resume, FailLease,
       ExpireApproval, ExpireAction, DecideApproval, DecideAction, DecideTool, DecideRun, DecideTask,
       SetApproval, SetStatus, SetTool, SetRun, SetTask,
       ClaimRow, ClaimGate, ClaimInsert, ClaimConflict, ClaimExisting, ReadRow,
       CloseLease, CloseAction, CloseRun, CloseTask, CloseTool, MoveLease,
       ResumeRow, ResumeApproval, ResumeLease, ResumeVerify,
       ResumeConsume, ResumeSpent, ResumeComplete, ResumeTool, ResumeRun, ResumeTask

\* A statement grants a waiting worker when it inserts its lease; no other step
\* of the server changes who is at work.
LEMMA AtWorkUnmoved ==
  ASSUME CodexTypes, Connections, Course, [CodexNext]_systemVars, NEW v \in Workers, Unmoved(v)
  PROVE  AtWork(v)' <=>
           \/ AtWork(v)
           \/ /\ stage[v] = "await_claim" /\ conn[v] \in Threads
              /\ ClaimInsert(conn[v]) /\ Target(conn[v]) = job[v]
<1>0. TypeOK
  BY DEF CodexTypes, CodexTypeOK
<1>1. CASE stage[v] # "await_claim"
  BY <1>1 DEF Unmoved, AtWork
<1>2. CASE stage[v] = "await_claim"
  <2>1. PICK u \in Threads : u = conn[v] /\ u # NoThread
    BY <1>2, CodexAssumption DEF CodexTypes, CodexTypeOK, Awaiting
  <2>2. req[u].op = "claim" /\ Target(u) = job[v] /\ OnCourse(u)
    BY <1>2, <2>1 DEF Connections, Served, ServedBy, Course
  <2>3. AtWork(v) <=> pc[u] = "ok"
    BY <1>2, <2>1 DEF AtWork, Executing
  <2>4. AtWork(v)' <=> pc'[u] = "ok"
    BY <1>2, <2>1 DEF AtWork, Executing, Unmoved
  <2>5. CASE pc'[u] = pc[u] /\ req'[u] = req[u]
    <3>1. ~ClaimInsert(u)
      BY <1>0, <2>5 DEF ClaimInsert, Goto, TypeOK
    <3> QED
      BY <2>1, <2>3, <2>4, <2>5, <3>1
  <2>6. CASE Statement(u)
    <3>1. pc'[u] = "ok" => ClaimInsert(u)
      BY <1>0, <2>2, <2>6, ClaimAnswered
    <3>2. ClaimInsert(u) => pc'[u] = "ok"
      BY <1>0 DEF ClaimInsert, Goto, TypeOK
    <3>3. pc[u] # "ok"
      BY <2>6, StatementUnanswered
    <3> QED
      BY <1>2, <2>1, <2>2, <2>3, <2>4, <3>1, <3>2, <3>3
  <2> QED
    BY <2>1, <2>5, <2>6, AwaitedThread
<1> QED
  BY <1>1, <1>2

\* A worker that acts leaves leases and consumptions to the server.
LEMMA ActsLedger ==
  ASSUME CodexTypes, NEW w \in Workers, Acts(w)
  PROVE  /\ UNCHANGED <<lease, consumed>>
         /\ UNCHANGED evidence \/ SubmitEvidence(w)
<1> USE DEF ledger
<1>1. CASE SendClaim(w) \/ SendFail(w) \/ SendResume(w)
  BY <1>1 DEF SendClaim, SendFail, SendResume, BeginClaim, BeginFail, BeginResume, Arrive
<1>2. CASE Answers(w)
  BY <1>2, AnswersEdge DEF Answered, Respond
<1>3. CASE AwaitedCutOff(w)
  BY <1>3 DEF AwaitedCutOff, CutOff
<1>4. CASE SubmitEvidence(w)
  BY <1>4 DEF SubmitEvidence, RecordEvidence
<1>5. CASE \/ \E a \in Actions : Inspect(w, a)
           \/ Works(w) \/ ReadClosureRow(w) \/ Loss(w) \/ WorkerCrash(w)
  <2>1. UNCHANGED vars
    BY <1>5, WorksEdge, LossEdge DEF Inspect, Local, ReadClosureRow, Lost, WorkerCrash
  <2> QED
    BY <2>1 DEF vars
<1> QED
  BY <1>1, <1>2, <1>3, <1>4, <1>5 DEF Acts

\* While one worker acts the others are at work, or not, as before.
LEMMA OthersAtWork ==
  ASSUME CodexInv, [CodexNext]_systemVars, NEW w \in Workers, Acts(w), NEW v \in Workers, v # w
  PROVE  (AtWork(v)' <=> AtWork(v)) /\ job'[v] = job[v] /\ resumed'[v] = resumed[v]
<1>0. CodexTypes /\ TypeOK /\ Connections /\ Course
  BY DEF CodexInv, CodexTypes, CodexTypeOK, WallInv
<1>1. Unmoved(v)
  BY <1>0, ActsFrame
<1>2. ASSUME stage[v] = "await_claim", NEW t \in Threads, ClaimInsert(t), Target(t) = job[v]
      PROVE  FALSE
  <2>1. job[v] \in Actions
    BY <1>0, <1>2, ConstantsAssumption DEF CodexTypes, Employed
  <2>2. lease[job[v]] = "none" /\ lease'[job[v]] = "executing"
    BY <1>0, <1>2, <2>1 DEF ClaimInsert, LeaseFree, TypeOK
  <2> QED
    BY <1>0, <2>2, ActsLedger
<1> QED
  BY <1>0, <1>1, <1>2, AtWorkUnmoved DEF Unmoved

\* A worker that is at work after its step was so before, on the same action.
LEMMA AtWorkBefore ==
  ASSUME CodexTypes, NEW w \in Workers, Acts(w), AtWork(w)'
  PROVE  AtWork(w) /\ job'[w] = job[w]
<1> USE DEF CodexTypes, CodexTypeOK, Move, AtWork, Executing
<1>1. CASE (\E a \in Actions : Inspect(w, a)) \/ WorkerCrash(w) \/ AwaitedCutOff(w)
           \/ ReadClosureRow(w) \/ SubmitEvidence(w)
  BY <1>1 DEF Inspect, WorkerCrash, AwaitedCutOff, ReadClosureRow, SubmitEvidence
<1>2. CASE SendClaim(w)
  <2>1. PICK t \in Threads : Send(w, t, "claim", "await_claim") /\ BeginClaim(t, job[w])
    BY <1>2 DEF SendClaim
  <2>2. stage'[w] = "await_claim" /\ conn'[w] = t /\ pc'[t] = "claim_row"
    BY <2>1 DEF Send, BeginClaim, Arrive, Goto, TypeOK
  <2> QED
    BY <2>2
<1>3. CASE SendFail(w) \/ SendResume(w)
  BY <1>3 DEF SendFail, SendResume, Send
<1>4. CASE Answers(w)
  BY <1>4
  DEF Answers, ClaimGranted, ClaimRefused, ResumeGranted, ResumeRefused, FailAccepted, FailRefused, Answered
<1>5. CASE Loss(w)
  <2>1. PICK from \in Awaiting \cup {"claim", "resume", "report"}, to \in {"stopped", "check_row"} :
           Lost(w, from, to) /\ (to = "check_row" => from \in {"resume", "await_resume"})
    BY <1>5, LossEdge
  <2> QED
    BY <2>1 DEF Lost
<1>6. CASE ReadClosureLease(w)
  <2>1. job' = job /\ stage[w] = "check_lease"
    BY <1>6 DEF ReadClosureLease, Local
  <2> QED
    BY <2>1
<1>7. CASE CreateWorktree(w) \/ CodexSucceeds(w) \/ CodexFails(w) \/ RemoveWorktree(w, "rollback")
           \/ RemoveWorktree(w, "undo") \/ EvidenceFails(w) \/ ClosureUnknown(w) \/ ReadClosureRun(w)
  BY <1>7
  DEF CreateWorktree, CodexSucceeds, CodexFails, RemoveWorktree, EvidenceFails, ClosureUnknown,
      ReadClosureRun, Local
<1> QED
  BY <1>1, <1>2, <1>3, <1>4, <1>5, <1>6, <1>7 DEF Acts, Works

\* The workers at work and the actions asked for, as the promise sees them.
Pairs == {<<w, job[w]>> : w \in {v \in Workers : AtWork(v)}}
Asked == {job[w] : w \in {v \in Workers : resumed[v]}}

\* One worker acts: the others stay at work, and it goes on or leaves.
LEMMA OnlyOneActs ==
  ASSUME CodexInv, [CodexNext]_systemVars, NEW w \in Workers, Acts(w)
  PROVE  Pairs' = IF AtWork(w)' THEN Pairs ELSE Pairs \ {<<w, job[w]>>}
<1>1. \A v \in Workers \ {w} : (AtWork(v)' <=> AtWork(v)) /\ job'[v] = job[v]
  BY OthersAtWork
<1>2. AtWork(w)' => AtWork(w) /\ job'[w] = job[w]
  BY AtWorkBefore DEF CodexInv
<1> HIDE DEF AtWork
<1> QED
  BY <1>1, <1>2 DEF Pairs

\* A worker that acts and sends no resume asks for nothing.
LEMMA AsksNothing ==
  ASSUME CodexInv, [CodexNext]_systemVars, NEW w \in Workers, Acts(w), resumed'[w] = resumed[w]
  PROVE  Asked' = Asked
<1>1. \A v \in Workers \ {w} : resumed'[v] = resumed[v] /\ job'[v] = job[v]
  BY OthersAtWork
<1>2. resumed[w] => job'[w] = job[w]
  <2>1. CodexTypes /\ (resumed[w] => stage[w] # "idle")
    BY DEF CodexInv, CodexTypes, Employed
  <2>2. CASE \E a \in Actions : Inspect(w, a)
    BY <2>1, <2>2 DEF Inspect, Move
  <2>3. CASE SendClaim(w) \/ SendResume(w) \/ SendFail(w)
    BY <2>3 DEF SendClaim, SendResume, SendFail, Send
  <2>4. CASE Answers(w)
    BY <2>4, AnswersEdge DEF Answered
  <2>5. CASE Works(w)
    BY <2>5, WorksEdge DEF Local
  <2>6. CASE Loss(w)
    BY <2>6, LossEdge DEF Lost
  <2>7. CASE SubmitEvidence(w) \/ ReadClosureRow(w) \/ AwaitedCutOff(w) \/ WorkerCrash(w)
    BY <2>7 DEF SubmitEvidence, ReadClosureRow, AwaitedCutOff, WorkerCrash
  <2> QED
    BY <2>2, <2>3, <2>4, <2>5, <2>6, <2>7 DEF Acts
<1> QED
  BY <1>1, <1>2 DEF Asked

\* A step of a worker is a step of the promise, or none.
LEMMA ActsInAttempt ==
  ASSUME CodexInv, Ordered, [CodexNext]_systemVars, NEW w \in Workers, Acts(w)
  PROVE  [Promise!Next]_(Promise!attempt)
<1> DEFINE a == job[w]
           Still == UNCHANGED <<Promise!attempt>>
<1>0. CodexTypes /\ CodexTypeOK /\ TypeOK /\ InOrder(w) /\ KeepsDiff(w)
  BY DEF CodexInv, CodexTypes, CodexTypeOK, Ordered, Diff
<1>1. /\ {b \in Actions : lease[b] # "none"}' = {b \in Actions : lease[b] # "none"}
      /\ {b \in Actions : consumed[b]}' = {b \in Actions : consumed[b]}
      /\ ~SubmitEvidence(w) => {b \in Actions : evidence[b]}' = {b \in Actions : evidence[b]}
  BY <1>0, ActsLedger
<1>2. Pairs' = IF AtWork(w)' THEN Pairs ELSE Pairs \ {<<w, a>>}
  BY OnlyOneActs
<1>3. AtWork(w) => <<w, a>> \in Pairs /\ a \in Actions
  BY <1>0, ConstantsAssumption DEF Pairs, AtWork, Executing, CodexTypes, Employed
<1>4. ~AtWork(w) => Pairs' = Pairs
  <2>1. ~AtWork(w) => ~AtWork(w)' /\ <<w, a>> \notin Pairs
    BY <1>0, AtWorkBefore DEF Pairs
  <2> QED
    BY <1>2, <2>1
<1>5. CASE worktree' = worktree /\ ~SubmitEvidence(w) /\ ~SendResume(w)
  <2>1. resumed' = resumed
    <3>1. CASE SendClaim(w) \/ SendFail(w)
      BY <3>1 DEF SendClaim, SendFail
    <3>2. CASE Answers(w)
      BY <3>2, AnswersEdge DEF Answered
    <3>3. CASE Works(w)
      BY <3>3, WorksEdge DEF Local
    <3>4. CASE Loss(w)
      BY <3>4, LossEdge DEF Lost
    <3>5. CASE (\E b \in Actions : Inspect(w, b)) \/ ReadClosureRow(w)
               \/ AwaitedCutOff(w) \/ WorkerCrash(w)
      BY <3>5 DEF Inspect, ReadClosureRow, AwaitedCutOff, WorkerCrash
    <3> QED
      BY <1>5, <3>1, <3>2, <3>3, <3>4, <3>5 DEF Acts
  <2>2. Asked' = Asked
    BY <2>1, AsksNothing
  <2>3. CASE Pairs' = Pairs
    BY <1>1, <1>5, <2>2, <2>3 DEF Promise!attempt, Pairs, Asked
  <2>4. CASE Pairs' # Pairs
    <3>1. Promise!Leave(w, a)
      BY <1>1, <1>2, <1>3, <1>4, <1>5, <2>2, <2>4 DEF Promise!Leave, Pairs, Asked
    <3>2. a \in Actions
      BY <1>3, <1>4, <2>4
    <3> QED
      BY <3>1, <3>2 DEF Promise!Next, Promise!Leave
  <2> QED
    BY <2>3, <2>4
<1>6. CASE SubmitEvidence(w)
  <2>1. /\ RecordEvidence(a) /\ UNCHANGED <<job, resumed, worktree>>
        /\ stage[w] = "finalize" /\ stage'[w] \in {"resume", "check_row"}
    BY <1>0, <1>6 DEF SubmitEvidence, Move, CodexTypeOK
  <2>2. AtWork(w) /\ AtWork(w)' /\ worktree[a] = "diff"
    BY <1>0, <2>1 DEF AtWork, Executing, KeepsDiff, Keeping
  <2>3. Asked' = Asked /\ Pairs' = Pairs
    BY <1>2, <2>1, <2>2, AsksNothing
  <2>4. /\ {b \in Actions : evidence[b]}' = {b \in Actions : evidence[b]} \cup {a}
        /\ a \notin {b \in Actions : evidence[b]}
    BY <1>0, <1>3, <2>1, <2>2 DEF RecordEvidence, TypeOK
  <2>5. Promise!Record(w, a)
    BY <1>1, <1>3, <2>1, <2>2, <2>3, <2>4 DEF Promise!Record, Pairs, Asked
  <2> QED
    BY <1>3, <2>2, <2>5 DEF Promise!Next, Promise!Record
<1>7. CASE SendResume(w)
  <2>1. /\ stage[w] = "resume" /\ stage'[w] = "await_resume"
        /\ UNCHANGED <<job, worktree>> /\ resumed' = [resumed EXCEPT ![w] = TRUE]
    BY <1>0, <1>7 DEF SendResume, Send, Move, CodexTypeOK
  <2>2. AtWork(w) /\ AtWork(w)' /\ worktree[a] = "diff" /\ evidence[a] /\ ~resumed[w]
    BY <1>0, <2>1 DEF AtWork, Executing, KeepsDiff, Keeping, InOrder, Unsent
  <2>3. a \notin Asked
    <3> SUFFICES ASSUME NEW v \in Workers, resumed[v], job[v] = a
                 PROVE  FALSE
      BY DEF Asked
    <3>1. Granted(v) /\ Granted(w) /\ v # w
      BY <2>1, <2>2 DEF Granted, Granting, Executing
    <3> QED
      BY <3>1 DEF CodexInv, Alone
  <2>4. Asked' = Asked \cup {a}
    <3>1. resumed \in [Workers -> BOOLEAN] /\ job' = job
      BY <1>0, <2>1 DEF CodexTypeOK
    <3> QED
      BY <2>1, <3>1 DEF Asked
  <2>5. ~SubmitEvidence(w)
    BY <2>1 DEF SubmitEvidence, Move
  <2>6. Promise!Ask(w, a)
    BY <1>1, <1>2, <1>3, <2>1, <2>2, <2>3, <2>4, <2>5 DEF Promise!Ask, Pairs, Asked
  <2> QED
    BY <1>3, <2>2, <2>6 DEF Promise!Next, Promise!Ask
<1>8. CASE worktree' # worktree
  <2>1. \/ CreateWorktree(w) \/ CodexSucceeds(w)
        \/ RemoveWorktree(w, "rollback") \/ RemoveWorktree(w, "undo")
    <3>1. CASE SendClaim(w) \/ SendFail(w) \/ SendResume(w)
      BY <1>8, <3>1 DEF SendClaim, SendFail, SendResume, Send
    <3>2. CASE Answers(w)
      BY <1>8, <3>2, AnswersEdge DEF Answered
    <3>3. CASE Works(w)
      BY <1>8, <3>3
      DEF Works, CodexFails, EvidenceFails, ReadClosureLease, ClosureUnknown, ReadClosureRun
    <3>4. CASE Loss(w)
      BY <1>8, <3>4, LossEdge DEF Lost
    <3>5. CASE (\E b \in Actions : Inspect(w, b)) \/ SubmitEvidence(w) \/ ReadClosureRow(w)
               \/ AwaitedCutOff(w) \/ WorkerCrash(w)
      BY <1>8, <3>5 DEF Inspect, SubmitEvidence, ReadClosureRow, AwaitedCutOff, WorkerCrash
    <3> QED
      BY <3>1, <3>2, <3>3, <3>4, <3>5 DEF Acts
  <2>2. resumed' = resumed /\ job' = job /\ ~SubmitEvidence(w)
    BY <1>8, <2>1 DEF CreateWorktree, CodexSucceeds, RemoveWorktree, Local, SubmitEvidence
  <2>3. Asked' = Asked
    BY <2>2, AsksNothing
  <2>4. ASSUME NEW from, NEW to, AtWork(w), AtWork(w)', worktree[a] = from,
               worktree' = [worktree EXCEPT ![a] = to],
               <<from, to>> \in {<<"none", "open">>, <<"open", "diff">>}
        PROVE  Promise!Next
    <3>1. Promise!Work(w, a, from, to)
      BY <1>1, <1>2, <1>3, <2>2, <2>3, <2>4 DEF Promise!Work, Pairs, Asked
    <3> QED
      BY <1>3, <2>4, <3>1 DEF Promise!Next
  <2>5. CASE CreateWorktree(w)
    <3>1. /\ stage[w] = "execute" /\ stage'[w] = "run" /\ worktree[a] = "none"
          /\ worktree' = [worktree EXCEPT ![a] = "open"]
      BY <1>0, <1>8, <2>5 DEF CreateWorktree, Local, Move, CodexTypeOK
    <3>2. AtWork(w) /\ AtWork(w)'
      BY <3>1 DEF AtWork, Executing
    <3> QED
      BY <2>4, <3>1, <3>2
  <2>6. CASE CodexSucceeds(w)
    <3>1. /\ stage[w] = "run" /\ stage'[w] = "finalize" /\ worktree[a] = "open"
          /\ worktree' = [worktree EXCEPT ![a] = "diff"]
      BY <1>0, <2>6 DEF CodexSucceeds, Local, Move, CodexTypeOK, InOrder
    <3> QED
      BY <2>4, <3>1 DEF AtWork, Executing
  <2>7. CASE RemoveWorktree(w, "rollback") \/ RemoveWorktree(w, "undo")
    <3>1. /\ stage[w] \in {"rollback", "undo"} /\ stage'[w] = "report"
          /\ worktree' = [worktree EXCEPT ![a] = "none"]
      BY <1>0, <1>8, <2>7 DEF RemoveWorktree, Local, Move, CodexTypeOK
    <3>2. AtWork(w) /\ ~AtWork(w)'
      BY <3>1 DEF AtWork, Executing
    <3>3. Promise!RollBack(w, a)
      BY <1>1, <1>2, <1>3, <2>2, <2>3, <3>1, <3>2 DEF Promise!RollBack, Pairs, Asked
    <3> QED
      BY <1>3, <3>2, <3>3 DEF Promise!Next, Promise!RollBack
  <2> QED
    BY <2>1, <2>5, <2>6, <2>7
<1> QED
  BY <1>5, <1>6, <1>7, <1>8

\* No statement of a handler records evidence of a diff.
LEMMA StatementEvidence ==
  ASSUME NEW t \in Threads, Statement(t)
  PROVE  evidence' = evidence
BY DEF ledger, Statement, Decide, Claim, Close, Resume, FailLease,
       ExpireApproval, ExpireAction, DecideApproval, DecideAction, DecideTool, DecideRun, DecideTask,
       SetApproval, SetStatus, SetTool, SetRun, SetTask,
       ClaimRow, ClaimGate, ClaimInsert, ClaimConflict, ClaimExisting, ReadRow,
       CloseLease, CloseAction, CloseRun, CloseTask, CloseTool, MoveLease,
       ResumeRow, ResumeApproval, ResumeLease, ResumeVerify,
       ResumeConsume, ResumeSpent, ResumeComplete, ResumeTool, ResumeRun, ResumeTask

\* When no worker acts, an inserted lease may put one worker to work, and nothing
\* else changes who is.
LEMMA PairsGranted ==
  ASSUME CodexInv, [CodexNext]_systemVars, \A w \in Workers : Unmoved(w)
  PROVE  \/ Pairs' = Pairs
         \/ \E t \in Threads, w \in Workers :
              /\ ClaimInsert(t) /\ Target(t) = job[w]
              /\ Pairs' = Pairs \cup {<<w, job[w]>>}
<1>0. CodexTypes /\ CodexTypeOK /\ TypeOK /\ Connections /\ Course
  BY DEF CodexInv, CodexTypes, CodexTypeOK, WallInv
<1> DEFINE Gets(v) == /\ stage[v] = "await_claim" /\ conn[v] \in Threads
                      /\ ClaimInsert(conn[v]) /\ Target(conn[v]) = job[v]
<1>1. \A v \in Workers : (AtWork(v)' <=> AtWork(v) \/ Gets(v)) /\ job'[v] = job[v]
  BY <1>0, AtWorkUnmoved DEF Unmoved
<1>2. ASSUME NEW v \in Workers, NEW w \in Workers, Gets(v), Gets(w)
      PROVE  v = w
  <2> SUFFICES ASSUME v # w
               PROVE  FALSE
    OBVIOUS
  <2>1. conn[v] # conn[w]
    BY <1>0, <1>2, CodexAssumption DEF Connections, Apart
  <2>2. pc'[conn[w]] = "ok" /\ pc'[conn[w]] = "claim_insert"
    BY <1>0, <1>2, <2>1 DEF ClaimInsert, Goto, TypeOK
  <2> QED
    BY <2>2
<1>3. CASE \A v \in Workers : ~Gets(v)
  <2> HIDE DEF Gets
  <2> QED
    BY <1>1, <1>3 DEF Pairs
<1>4. CASE \E v \in Workers : Gets(v)
  <2>1. PICK w \in Workers : Gets(w)
    BY <1>4
  <2>2. ClaimInsert(conn[w]) /\ conn[w] \in Threads /\ Target(conn[w]) = job[w]
    BY <2>1
  <2>3. Pairs' = Pairs \cup {<<w, job[w]>>}
    <3> HIDE DEF Gets
    <3> QED
      BY <1>1, <1>2, <2>1 DEF Pairs
  <2> QED
    BY <2>2, <2>3
<1> QED
  BY <1>3, <1>4

\* A step of the server, of a human or of the clock is a step of the promise.
LEMMA ServerInAttempt ==
  ASSUME CodexInv, [CodexNext]_systemVars, \A w \in Workers : ~Acts(w)
  PROVE  [Promise!Next]_(Promise!attempt)
<1>0. CodexTypes /\ CodexTypeOK /\ TypeOK /\ IInv /\ Course /\ [Next]_vars
  BY StepOfTheWall DEF CodexInv, CodexTypes, CodexTypeOK, WallInv
<1>1. \A w \in Workers : Unmoved(w)
  BY <1>0, OneWorkerActs
<1>2. worktree' = worktree /\ Asked' = Asked
  <2>1. worktree' = worktree
    BY ActsKinds DEF CodexNext, ServerStep, HumanDecides, systemVars, codexVars
  <2> QED
    BY <1>1, <2>1 DEF Asked, Unmoved
<1>3. evidence' = evidence
  <2>1. CASE UNCHANGED systemVars
    BY <2>1 DEF systemVars, vars, ledger
  <2>2. ASSUME NEW a \in Actions, Prepare(a) \/ ActionLapses(a) \/ LeaseLapses(a)
        PROVE  evidence' = evidence
    BY <2>2 DEF Prepare, ActionLapses, LeaseLapses, ledger
  <2>3. ASSUME NEW t \in Threads, Statement(t) \/ Respond(t) \/ CutOff(t)
        PROVE  evidence' = evidence
    BY <2>3, StatementEvidence DEF Respond, CutOff, ledger
  <2>4. ASSUME NEW t \in Threads, NEW a \in Actions, HumanDecides(t, a)
        PROVE  evidence' = evidence
    BY <2>4 DEF HumanDecides, BeginApprove, BeginReject, Arrive, ledger
  <2> QED
    BY <2>1, <2>2, <2>3, <2>4, ActsKinds DEF CodexNext, ServerStep
<1>4. ASSUME NEW t \in Threads, ClaimInsert(t)
      PROVE  Promise!Next
  <2>1. Target(t) \in Actions
    BY <1>0, <1>4, EntitledHere DEF ClaimInsert, IInv, Entitled
  <2>2. /\ lease[Target(t)] = "none" /\ lease' = [lease EXCEPT ![Target(t)] = "executing"]
        /\ consumed' = consumed
    BY <1>4 DEF ClaimInsert, LeaseFree
  <2>3. /\ {b \in Actions : lease[b] # "none"}' = {b \in Actions : lease[b] # "none"} \cup {Target(t)}
        /\ Target(t) \notin {b \in Actions : lease[b] # "none"}
    BY <1>0, <2>1, <2>2 DEF TypeOK
  <2>4. \/ Pairs' = Pairs
        \/ \E w \in Workers : Pairs' = Pairs \cup {<<w, Target(t)>>}
    <3>1. ASSUME NEW u \in Threads, ClaimInsert(u)
          PROVE  u = t
      BY <1>0, <1>4, <3>1 DEF ClaimInsert, Goto, TypeOK
    <3> QED
      BY <1>1, <3>1, PairsGranted
  <2>5. Promise!Grant(Target(t))
    BY <1>2, <1>3, <2>2, <2>3, <2>4 DEF Promise!Grant, Pairs, Asked
  <2> QED
    BY <2>1, <2>5 DEF Promise!Next, Promise!Grant
<1>5. CASE ~\E t \in Threads : ClaimInsert(t)
  <2>1. Pairs' = Pairs
    BY <1>1, <1>5, PairsGranted
  <2>2. {b \in Actions : lease[b] # "none"}' = {b \in Actions : lease[b] # "none"}
    <3>1. CASE lease' = lease
      BY <3>1
    <3>2. ASSUME NEW t \in Threads, CloseLease(t) \/ ResumeComplete(t)
          PROVE  \A b \in Actions : lease'[b] = "none" <=> lease[b] = "none"
      BY <1>0, <3>2 DEF CloseLease, ResumeComplete, MoveLease, TypeOK
    <3>3. ASSUME NEW t \in Threads, ResumeConsume(t)
          PROVE  lease' = lease
      BY <3>3 DEF ResumeConsume
    <3> QED
      BY <1>0, <1>5, <3>1, <3>2, <3>3, Writers
  <2>3. CASE consumed' = consumed
    BY <1>2, <1>3, <2>1, <2>2, <2>3 DEF Promise!attempt, Pairs, Asked
  <2>4. CASE consumed' # consumed
    <3>1. PICK t \in Threads : ResumeConsume(t)
      BY <1>0, <1>5, <2>4, Writers DEF CloseLease, ResumeComplete, MoveLease
    <3>2. Target(t) \in Actions
      BY <1>0, <3>1, EntitledHere DEF ResumeConsume, IInv, Entitled
    <3>3. req[t].op = "resume"
      BY <1>0, <3>1
      DEF ResumeConsume, Course, OnCourse, TypeOK, Requests, Operations, Deciding, Claiming,
          Closing, Finished
    <3>4. Target(t) \in Asked
      BY <3>3 DEF CodexInv, Requested, SentFor, Asked
    <3>5. /\ {b \in Actions : consumed[b]}' = {b \in Actions : consumed[b]} \cup {Target(t)}
          /\ Target(t) \notin {b \in Actions : consumed[b]}
      BY <1>0, <3>1, <3>2 DEF ResumeConsume, Spendable, TypeOK
    <3>6. Promise!Spend(Target(t))
      BY <1>2, <1>3, <2>1, <2>2, <3>4, <3>5 DEF Promise!Spend, Pairs, Asked
    <3> QED
      BY <3>2, <3>6 DEF Promise!Next, Promise!Spend
  <2> QED
    BY <2>3, <2>4
<1> QED
  BY <1>4, <1>5

\* Workers, server and humans implement the promise OneAttempt: an action is
\* executed, evidenced and asked for by one attempt, and spent only on its word.
THEOREM WorkersImplementOneAttempt == CodexSpec => ImplementsOneAttempt
<1>1. CodexInit => Promise!Init /\ Ordered
  BY DEF CodexInit, Init, Promise!Init, Ordered, InOrder, Unsent, AtWork, Executing
<1>2. CodexInv /\ Ordered /\ [CodexNext]_systemVars => Ordered' /\ [Promise!Next]_(Promise!attempt)
  BY OrderedStep, ActsInAttempt, ServerInAttempt
<1> QED
  BY <1>1, <1>2, CodexInvariant, PTL DEF CodexSpec, ImplementsOneAttempt, Promise!Spec
=============================================================================
