---------------------------- MODULE ApprovalWall ----------------------------
(***************************************************************************)
(* The approval wall of src/server.py: prepared actions, the human         *)
(* decision on them, the exclusive execution lease of workspace-write      *)
(* actions, and the resume that consumes an action.                        *)
(*                                                                         *)
(* db() opens SQLite with isolation_level=None, so every statement of a    *)
(* handler commits by itself and ThreadingHTTPServer interleaves handlers  *)
(* between any two statements.  A Thread is one server request thread and  *)
(* an action of this module is one statement of a handler together with    *)
(* the tests on what the statement returned.  Only Prepare is one          *)
(* transaction (atomic_api_write).  A thread may be cut off between two    *)
(* statements: the process dies, or a statement raises after SQLite's busy *)
(* timeout; what it already wrote stays.                                   *)
(*                                                                         *)
(* Each action has a run, a task and a tool call of its own, as for the    *)
(* actions that record_tool_call prepares.  Arguments and their hash never *)
(* change after Prepare (no statement of the server writes them), so the   *)
(* hash tests of the handlers always succeed and are left out.             *)
(***************************************************************************)
EXTENDS Naturals

CONSTANTS
  Actions,         \* prepared_actions rows, by action_id
  WorkspaceWrite,  \* those with action_type agent_worker.codex.workspace_write
  Threads,         \* request threads of the server; each serves many requests
  NoAction         \* what an idle thread works on

ASSUME ConstantsAssumption ==
  /\ WorkspaceWrite \subseteq Actions
  /\ NoAction \notin Actions

VARIABLES
  approval,   \* approvals.decision, "none" before Prepare
  status,     \* prepared_actions.status, "none" before Prepare
  consumed,   \* prepared_actions.consumed_at IS NOT NULL
  lease,      \* prepared_action_execution_leases.status, "none" without a row
  evidence,   \* a plan evidence manifest of the run passes verification
  run, task, tool,  \* statuses of the rows the action belongs to
  lapsed,     \* the clock is past the action's expires_at
  leaseLapsed,\* the clock is past the lease's expires_at
  pc,         \* next statement of each thread
  req,        \* the request a thread serves, and what it has read so far
  authorised, \* history: a human approval was committed at some time
  grants,     \* history: execution leases granted
  spends,     \* history: successful consuming updates
  cut         \* history: a thread was cut off midway through closing the action

ledger == <<approval, status, consumed, lease, evidence, run, task, tool>>
clocks == <<lapsed, leaseLapsed>>
history == <<authorised, grants, spends, cut>>
vars == <<ledger, clocks, pc, req, history>>

Decisions == {"none", "pending", "approved", "rejected", "expired"}
Statuses == {"none", "prepared", "approved", "rejected", "consumed", "expired"}
LeaseStatuses == {"none", "executing", "completed", "failed"}
WorkStatuses == {"running", "waiting_approval", "blocked", "completed"}
Operations == {"none", "approve", "reject", "claim", "fail", "resume"}

Finished == {"ok", "refused"}
Labels == {"idle",
           "expire_approval", "expire_action",
           "decide_approval", "decide_action", "decide_tool", "decide_run", "decide_task",
           "claim_row", "claim_gate", "claim_insert", "claim_existing",
           "fail_lease",
           "resume_row", "resume_approval", "resume_lease", "resume_verify",
           "resume_consume", "resume_complete", "resume_tool", "resume_run", "resume_task",
           "close_lease", "close_action", "close_run", "close_task", "close_tool"}
          \cup Finished

NoRequest == [op |-> "none", action |-> NoAction, holder |-> FALSE,
              sawSpent |-> FALSE, sawApproved |-> FALSE]
Requests == [op : Operations, action : Actions \cup {NoAction}, holder : BOOLEAN,
             sawSpent : BOOLEAN, sawApproved : BOOLEAN]

Busy(t) == pc[t] \notin {"idle"} \cup Finished
Target(t) == req[t].action
Goto(t, label) == pc' = [pc EXCEPT ![t] = label]
Branch(t, condition, yes, no) == Goto(t, IF condition THEN yes ELSE no)

Init ==
  /\ approval = [a \in Actions |-> "none"]
  /\ status = [a \in Actions |-> "none"]
  /\ consumed = [a \in Actions |-> FALSE]
  /\ lease = [a \in Actions |-> "none"]
  /\ evidence = [a \in Actions |-> FALSE]
  /\ run = [a \in Actions |-> "running"]
  /\ task = [a \in Actions |-> "running"]
  /\ tool = [a \in Actions |-> "running"]
  /\ lapsed = [a \in Actions |-> FALSE]
  /\ leaseLapsed = [a \in Actions |-> FALSE]
  /\ pc = [t \in Threads |-> "idle"]
  /\ req = [t \in Threads |-> NoRequest]
  /\ authorised = [a \in Actions |-> FALSE]
  /\ grants = [a \in Actions |-> 0]
  /\ spends = [a \in Actions |-> 0]
  /\ cut = [a \in Actions |-> FALSE]

-----------------------------------------------------------------------------
(* Prepare, the clock, and the evidence other routes record.               *)

\* A second prepare with the same idempotency key changes nothing.
Prepare(a) ==
  /\ approval[a] = "none"
  /\ approval' = [approval EXCEPT ![a] = "pending"]
  /\ status' = [status EXCEPT ![a] = "prepared"]
  /\ run' = [run EXCEPT ![a] = "waiting_approval"]
  /\ task' = [task EXCEPT ![a] = "waiting_approval"]
  /\ tool' = [tool EXCEPT ![a] = "waiting_approval"]
  /\ UNCHANGED <<consumed, lease, evidence, clocks, pc, req, history>>

ActionLapses(a) ==
  /\ approval[a] # "none" /\ ~lapsed[a]
  /\ lapsed' = [lapsed EXCEPT ![a] = TRUE]
  /\ UNCHANGED <<ledger, leaseLapsed, pc, req, history>>

LeaseLapses(a) ==
  /\ lease[a] # "none" /\ ~leaseLapsed[a]
  /\ leaseLapsed' = [leaseLapsed EXCEPT ![a] = TRUE]
  /\ UNCHANGED <<ledger, lapsed, pc, req, history>>

\* Tool, evaluation, artifact, audit and manifest rows that bind the lease.
RecordEvidence(a) ==
  /\ a \in WorkspaceWrite /\ lease[a] # "none" /\ ~evidence[a]
  /\ evidence' = [evidence EXCEPT ![a] = TRUE]
  /\ UNCHANGED <<approval, status, consumed, lease, run, task, tool, clocks, pc, req, history>>

-----------------------------------------------------------------------------
(* A request arrives, and its response leaves.                             *)

Arrive(t, a, op, holder, first) ==
  /\ pc[t] = "idle" /\ approval[a] # "none"
  /\ Goto(t, first)
  /\ req' = [req EXCEPT ![t] = [NoRequest EXCEPT !.op = op, !.action = a, !.holder = holder]]
  /\ UNCHANGED <<ledger, clocks, history>>

\* decide_approval: no test that the decision is still pending.
BeginApprove(t, a) ==
  Arrive(t, a, "approve", FALSE, IF lapsed[a] THEN "expire_approval" ELSE "decide_approval")
BeginReject(t, a) == Arrive(t, a, "reject", FALSE, "decide_approval")
BeginClaim(t, a) == Arrive(t, a, "claim", FALSE, "claim_row")
\* The lease id is random: only who was granted the lease can present it.
BeginFail(t, a, holder) ==
  /\ holder => lease[a] # "none"
  /\ Arrive(t, a, "fail", holder, "fail_lease")
BeginResume(t, a, holder) ==
  /\ holder => lease[a] # "none"
  /\ Arrive(t, a, "resume", holder, "resume_row")

Respond(t) ==
  /\ pc[t] \in Finished
  /\ Goto(t, "idle")
  /\ req' = [req EXCEPT ![t] = NoRequest]
  /\ UNCHANGED <<ledger, clocks, history>>

\* Where a thread that is cut off leaves lease and rows that disagree.
Midway == {"resume_complete", "close_action", "close_run", "close_task"}

CutOff(t) ==
  /\ Busy(t)
  /\ Goto(t, "idle")
  /\ req' = [req EXCEPT ![t] = NoRequest]
  /\ cut' = [cut EXCEPT ![Target(t)] = @ \/ pc[t] \in Midway]
  /\ UNCHANGED <<ledger, clocks, authorised, grants, spends>>

-----------------------------------------------------------------------------
(* decide_approval, the branch of an approval with a prepared action.      *)

\* Mutant: the verb of the route is stored as the decision.
VerdictIsVerb(t) == req[t].op

Verdict(t) == IF req[t].op = "approve" THEN "approved" ELSE "rejected"

SetApproval(t, here, decision, next) ==
  /\ pc[t] = here
  /\ approval' = [approval EXCEPT ![Target(t)] = decision]
  /\ authorised' = [authorised EXCEPT ![Target(t)] = @ \/ decision = "approved"]
  /\ Goto(t, next)
  /\ UNCHANGED <<status, consumed, lease, evidence, run, task, tool, clocks, req,
                 grants, spends, cut>>

\* The update of prepared_actions has no guard on the current status.
SetStatus(t, here, value, next) ==
  /\ pc[t] = here
  /\ status' = [status EXCEPT ![Target(t)] = value]
  /\ Goto(t, next)
  /\ UNCHANGED <<approval, consumed, lease, evidence, run, task, tool, clocks, req, history>>

SetTool(t, here, value, next) ==
  /\ pc[t] = here
  /\ tool' = [tool EXCEPT ![Target(t)] = value]
  /\ Goto(t, next)
  /\ UNCHANGED <<approval, status, consumed, lease, evidence, run, task, clocks, req, history>>

SetRun(t, here, value, next) ==
  /\ pc[t] = here
  /\ run' = [run EXCEPT ![Target(t)] = value]
  /\ Goto(t, next)
  /\ UNCHANGED <<approval, status, consumed, lease, evidence, task, tool, clocks, req, history>>

SetTask(t, here, value, next) ==
  /\ pc[t] = here
  /\ task' = [task EXCEPT ![Target(t)] = value]
  /\ Goto(t, next)
  /\ UNCHANGED <<approval, status, consumed, lease, evidence, run, tool, clocks, req, history>>

ExpireApproval(t) == SetApproval(t, "expire_approval", "expired", "expire_action")
ExpireAction(t) == SetStatus(t, "expire_action", "expired", "refused")

DecideApproval(t) == SetApproval(t, "decide_approval", Verdict(t), "decide_action")
DecideAction(t) == SetStatus(t, "decide_action", Verdict(t), "decide_tool")
DecideTool(t) ==
  IF Verdict(t) = "approved" THEN SetTool(t, "decide_tool", "waiting_approval", "ok")
                             ELSE SetTool(t, "decide_tool", "blocked", "decide_run")
DecideRun(t) == SetRun(t, "decide_run", "blocked", "decide_task")
DecideTask(t) == SetTask(t, "decide_task", "blocked", "ok")

-----------------------------------------------------------------------------
(* The gate of claim and resume, and the read of the row before it.        *)

ReadRow(t, here, next) ==
  /\ pc[t] = here
  /\ req' = [req EXCEPT ![t].sawSpent = consumed[Target(t)] \/ status[Target(t)] = "consumed"]
  /\ Goto(t, next)
  /\ UNCHANGED <<ledger, clocks, history>>

\* Mutant: the gate without the clock.
GateIgnoresClock(t, sawApproved) == sawApproved /\ ~req[t].sawSpent

\* build_prepared_action_resume_blocked_response returns None.
GateOpen(t, sawApproved) ==
  sawApproved /\ ~lapsed[Target(t)] /\ ~req[t].sawSpent

(* agent_gateway_claim_prepared_action_execution *)

ClaimRow(t) == ReadRow(t, "claim_row", "claim_gate")

ClaimGate(t) ==
  /\ pc[t] = "claim_gate"
  /\ Branch(t, GateOpen(t, approval[Target(t)] = "approved") /\ Target(t) \in WorkspaceWrite,
            "claim_insert", "refused")
  /\ UNCHANGED <<ledger, clocks, req, history>>

\* Mutants: a failed lease is granted again, or a lapsed one is.
LeaseFreeOnceFailed(a) == lease[a] \in {"none", "failed"}
LeaseFreeOnceLapsed(a) == lease[a] = "none" \/ (lease[a] = "executing" /\ leaseLapsed[a])

\* The table has UNIQUE(action_id): the insert of a second lease raises.
LeaseFree(a) == lease[a] = "none"

ClaimInsert(t) ==
  /\ pc[t] = "claim_insert" /\ LeaseFree(Target(t))
  /\ lease' = [lease EXCEPT ![Target(t)] = "executing"]
  /\ grants' = [grants EXCEPT ![Target(t)] = @ + 1]
  /\ Goto(t, "ok")
  /\ UNCHANGED <<approval, status, consumed, evidence, run, task, tool, clocks, req,
                 authorised, spends, cut>>

ClaimConflict(t) ==
  /\ pc[t] = "claim_insert" /\ ~LeaseFree(Target(t))
  /\ Goto(t, "claim_existing")
  /\ UNCHANGED <<ledger, clocks, req, history>>

\* A lapsed lease is closed by whoever finds it; it is never granted again.
LeaseOverdue(a) == lease[a] = "executing" /\ leaseLapsed[a]

ClaimExisting(t) ==
  /\ pc[t] = "claim_existing"
  /\ Branch(t, LeaseOverdue(Target(t)), "close_lease", "refused")
  /\ UNCHANGED <<ledger, clocks, req, history>>

-----------------------------------------------------------------------------
(* The closing updates shared by a lapsed lease and fail-execution, and    *)
(* agent_gateway_fail_prepared_action_execution.                           *)

\* Mutant: the update without AND status='executing'.
MoveLeaseUnguarded(t, here, value, next) ==
  /\ pc[t] = here
  /\ lease' = [lease EXCEPT ![Target(t)] = value]
  /\ Goto(t, next)
  /\ UNCHANGED <<approval, status, consumed, evidence, run, task, tool, clocks, req, history>>

MoveLease(t, here, value, next) ==
  /\ pc[t] = here
  /\ lease' = [lease EXCEPT ![Target(t)] = IF @ = "executing" THEN value ELSE @]
  /\ Goto(t, next)
  /\ UNCHANGED <<approval, status, consumed, evidence, run, task, tool, clocks, req, history>>

CloseLease(t) == MoveLease(t, "close_lease", "failed", "close_action")
CloseAction(t) ==
  SetStatus(t, "close_action",
            IF status[Target(t)] = "approved" THEN "expired" ELSE status[Target(t)],
            "close_run")
CloseRun(t) == SetRun(t, "close_run", "blocked", "close_task")
\* Mutant: the task is left as it is.
CloseTaskLeftOpen(t) ==
  SetTask(t, "close_task", task[Target(t)], IF req[t].op = "fail" THEN "close_tool" ELSE "refused")

CloseTask(t) ==
  SetTask(t, "close_task", "blocked", IF req[t].op = "fail" THEN "close_tool" ELSE "refused")
CloseTool(t) == SetTool(t, "close_tool", "blocked", "ok")

\* Mutant: a report on a closed lease is answered as if it had closed it.
FailLeaseIdempotent(t) ==
  /\ pc[t] = "fail_lease"
  /\ Branch(t, req[t].holder /\ lease[Target(t)] = "executing", "close_lease", "ok")
  /\ UNCHANGED <<ledger, clocks, req, history>>

FailLease(t) ==
  /\ pc[t] = "fail_lease"
  /\ Branch(t, req[t].holder /\ lease[Target(t)] = "executing", "close_lease", "refused")
  /\ UNCHANGED <<ledger, clocks, req, history>>

-----------------------------------------------------------------------------
(* agent_gateway_resume_prepared_action                                    *)

ResumeRow(t) == ReadRow(t, "resume_row", "resume_approval")

ResumeApproval(t) ==
  LET sawApproved == approval[Target(t)] = "approved" IN
  /\ pc[t] = "resume_approval"
  /\ req' = [req EXCEPT ![t].sawApproved = sawApproved]
  /\ IF Target(t) \in WorkspaceWrite
       THEN Goto(t, "resume_lease")
       ELSE Branch(t, GateOpen(t, sawApproved), "resume_consume", "refused")
  /\ UNCHANGED <<ledger, clocks, history>>

\* Mutant: any lease of the caller will do, whatever its status.
ResumeAnyLease(t) ==
  /\ pc[t] = "resume_lease"
  /\ Branch(t, req[t].holder /\ GateOpen(t, req[t].sawApproved), "resume_verify", "refused")
  /\ UNCHANGED <<ledger, clocks, req, history>>

ResumeLease(t) ==
  /\ pc[t] = "resume_lease"
  /\ IF LeaseOverdue(Target(t))
       THEN Goto(t, "close_lease")
       ELSE Branch(t, /\ req[t].holder /\ lease[Target(t)] = "executing"
                      /\ GateOpen(t, req[t].sawApproved),
                   "resume_verify", "refused")
  /\ UNCHANGED <<ledger, clocks, req, history>>

\* Mutants: the lease completed instead of the action consumed, and the
\* manifest not looked at.
ResumeVerifyCompletes(t) ==
  /\ pc[t] = "resume_verify"
  /\ Branch(t, evidence[Target(t)], "resume_complete", "refused")
  /\ UNCHANGED <<ledger, clocks, req, history>>
ResumeVerifySkipped(t) ==
  /\ pc[t] = "resume_verify" /\ Goto(t, "resume_consume")
  /\ UNCHANGED <<ledger, clocks, req, history>>

\* verify_plan_evidence_manifest_row reads the lease again.
ResumeVerify(t) ==
  /\ pc[t] = "resume_verify"
  /\ Branch(t, evidence[Target(t)] /\ lease[Target(t)] \in {"executing", "completed"},
            "resume_consume", "refused")
  /\ UNCHANGED <<ledger, clocks, req, history>>

\* UPDATE ... WHERE action_id=? AND consumed_at IS NULL: the only guard.
Spendable(a) == ~consumed[a]

ResumeConsume(t) ==
  /\ pc[t] = "resume_consume" /\ Spendable(Target(t))
  /\ consumed' = [consumed EXCEPT ![Target(t)] = TRUE]
  /\ status' = [status EXCEPT ![Target(t)] = "consumed"]
  /\ spends' = [spends EXCEPT ![Target(t)] = @ + 1]
  /\ Goto(t, IF Target(t) \in WorkspaceWrite THEN "resume_complete" ELSE "resume_tool")
  /\ UNCHANGED <<approval, lease, evidence, run, task, tool, clocks, req,
                 authorised, grants, cut>>

ResumeSpent(t) ==
  /\ pc[t] = "resume_consume" /\ ~Spendable(Target(t))
  /\ Goto(t, "refused")
  /\ UNCHANGED <<ledger, clocks, req, history>>

\* A workspace-write resume completes the run; another lets it go on.
Resumed(t, work) ==
  IF Target(t) \in WorkspaceWrite THEN "completed"
  ELSE IF work = "waiting_approval" THEN "running" ELSE work

ResumeComplete(t) == MoveLease(t, "resume_complete", "completed", "resume_tool")
ResumeTool(t) == SetTool(t, "resume_tool", "completed", "resume_run")
ResumeRun(t) == SetRun(t, "resume_run", Resumed(t, run[Target(t)]), "resume_task")
ResumeTask(t) == SetTask(t, "resume_task", Resumed(t, task[Target(t)]), "ok")

-----------------------------------------------------------------------------
Decide(t) ==
  \/ ExpireApproval(t) \/ ExpireAction(t)
  \/ DecideApproval(t) \/ DecideAction(t) \/ DecideTool(t) \/ DecideRun(t) \/ DecideTask(t)
Claim(t) == ClaimRow(t) \/ ClaimGate(t) \/ ClaimInsert(t) \/ ClaimConflict(t) \/ ClaimExisting(t)
Close(t) == CloseLease(t) \/ CloseAction(t) \/ CloseRun(t) \/ CloseTask(t) \/ CloseTool(t)
Resume(t) ==
  \/ ResumeRow(t) \/ ResumeApproval(t) \/ ResumeLease(t) \/ ResumeVerify(t)
  \/ ResumeConsume(t) \/ ResumeSpent(t)
  \/ ResumeComplete(t) \/ ResumeTool(t) \/ ResumeRun(t) \/ ResumeTask(t)

\* The next statement of the handler a thread is running.
Statement(t) == Decide(t) \/ Claim(t) \/ Close(t) \/ FailLease(t) \/ Resume(t)

Begin(t, a) ==
  \/ BeginApprove(t, a) \/ BeginReject(t, a) \/ BeginClaim(t, a)
  \/ \E holder \in BOOLEAN : BeginFail(t, a, holder) \/ BeginResume(t, a, holder)

Next ==
  \/ \E a \in Actions : Prepare(a) \/ ActionLapses(a) \/ LeaseLapses(a) \/ RecordEvidence(a)
  \/ \E t \in Threads :
       \/ \E a \in Actions : Begin(t, a)
       \/ Statement(t) \/ Respond(t) \/ CutOff(t)

Spec == Init /\ [][Next]_vars

-----------------------------------------------------------------------------
(* What must hold.                                                         *)

\* Every row, clock and program counter has a value of its domain.
TypeOK ==
  /\ approval \in [Actions -> Decisions]
  /\ status \in [Actions -> Statuses]
  /\ consumed \in [Actions -> BOOLEAN]
  /\ lease \in [Actions -> LeaseStatuses]
  /\ evidence \in [Actions -> BOOLEAN]
  /\ run \in [Actions -> WorkStatuses]
  /\ task \in [Actions -> WorkStatuses]
  /\ tool \in [Actions -> WorkStatuses]
  /\ lapsed \in [Actions -> BOOLEAN]
  /\ leaseLapsed \in [Actions -> BOOLEAN]
  /\ pc \in [Threads -> Labels]
  /\ req \in [Threads -> Requests]
  /\ authorised \in [Actions -> BOOLEAN]
  /\ grants \in [Actions -> Nat]
  /\ spends \in [Actions -> Nat]
  /\ cut \in [Actions -> BOOLEAN]

\* However claims, failures, resumes, new decisions and cut-off requests
\* interleave, an action is leased to one executor in its whole life and one
\* resume alone consumes it: the "execute_once" of the claim and resume replies.
AtMostOnce == \A a \in Actions : grants[a] <= 1 /\ spends[a] <= 1

\* A consumed action was approved by a human at some time, and a consumed
\* workspace write had an execution lease and verified evidence: the tests that
\* resume makes on rows read earlier still protect the update at its end.
ConsumptionIsEarned ==
  \A a \in Actions : consumed[a] =>
    /\ authorised[a]
    /\ a \in WorkspaceWrite => lease[a] # "none" /\ evidence[a]

\* The lease is completed only after the action is consumed, also when a
\* failure report or the closing of a lapsed lease runs at the same time.
CompletedMeansConsumed == \A a \in Actions : lease[a] = "completed" => consumed[a]

\* No handler is working on the action.
Settled(a) == \A t \in Threads : Target(t) = a => ~Busy(t)

\* Once the wall's handlers have finished, and unless one was cut off midway, a failed
\* lease that was not consumed leaves the run and the task blocked: no decision,
\* claim or resume that runs beside the failure puts them back to work.
FailureBlocks ==
  \A a \in Actions :
    (lease[a] = "failed" /\ ~consumed[a] /\ Settled(a) /\ ~cut[a])
      => (run[a] = "blocked" /\ task[a] = "blocked")

\* No step changes the outcome of a lease or takes back a lease, a consumption
\* or the record of one.
OutcomeIsFinal ==
  [][\A a \in Actions :
       /\ lease[a] \in {"completed", "failed"} => lease'[a] = lease[a]
       /\ lease[a] = "executing" => lease'[a] # "none"
       /\ consumed[a] => consumed'[a]]_vars

\* The tests a request on the action has already passed.
PastGate(a) ==
  \E t \in Threads :
    Target(t) = a /\ pc[t] \in {"claim_insert", "resume_verify", "resume_consume"}
PastLeaseTest(a) ==
  \E t \in Threads : Target(t) = a /\ pc[t] \in {"resume_verify", "resume_consume"}

\* A failed workspace write that was not consumed stays so, whatever is approved
\* again and whoever retries: the old approval cannot be replayed.  Only a resume
\* already past the lease test when the lease failed can still get through.
Closed(a) == lease[a] = "failed" /\ ~consumed[a] /\ ~PastLeaseTest(a)
ClosedStaysClosed == [][\A a \in WorkspaceWrite : Closed(a) => Closed(a)']_vars

\* An action that lapses before it is leased or consumed, with no request past
\* the gate, never is: an approval that tested the clock earlier and is committed
\* later does not bring it back.
Dead(a) == lapsed[a] /\ grants[a] = 0 /\ spends[a] = 0 /\ ~PastGate(a)
DeadStaysDead == [][\A a \in Actions : Dead(a) => Dead(a)']_vars

\* The wall implements the contract.
Contract == INSTANCE ExecuteOnce WITH
  Exclusive <- WorkspaceWrite,
  authorised <- {a \in Actions : authorised[a]},
  taken <- {a \in Actions : lease[a] # "none"},
  evidenced <- {a \in Actions : evidence[a]},
  spent <- {a \in Actions : consumed[a]}

\* Every step of a handler is one step of the contract or none.
ImplementsContract == Contract!Spec
=============================================================================
