------------------------- MODULE CodexWorkspaceWrite -------------------------
(***************************************************************************)
(* Workers that execute approved Codex workspace-write actions             *)
(* (resume_codex_workspace_write of src/agentops_mis_cli/worker.py and     *)
(* execute_codex_workspace_write of codex_runtime.py), talking to the      *)
(* approval wall over HTTP.                                                *)
(*                                                                         *)
(* A worker serves one action.  Each POST runs on a thread of ApprovalWall *)
(* that the worker waits for; the worker may stop waiting at any time (the *)
(* 180 s timeout, a broken connection) and the thread then goes on alone.  *)
(* The managed worktree is a directory named after the action, so workers  *)
(* that serve one action share it.                                         *)
(***************************************************************************)
EXTENDS ApprovalWall

CONSTANTS
  Workers,       \* worker processes, one execution attempt each
  NoThread,      \* what a worker that awaits no answer waits for
  MaxDecisions   \* bound: human decisions on all actions together

ASSUME CodexAssumption == NoThread \notin Threads /\ MaxDecisions \in Nat

VARIABLES
  stage,      \* where each worker is
  job,        \* the action it serves
  conn,       \* the thread whose answer it awaits
  sawSpent,   \* the action was consumed when the worker last read its row
  resumed,    \* history: the worker has sent its resume
  worktree,   \* the managed worktree of each action
  decisions   \* human decisions made so far

workerVars == <<stage, job, conn, sawSpent, resumed>>
codexVars == <<workerVars, worktree, decisions>>
systemVars == <<vars, codexVars>>

Outcomes == {"succeeded", "reconciled", "manual", "unknown", "failed", "stopped"}
Awaiting == {"await_claim", "await_resume", "await_fail"}
Executing == {"execute", "run", "rollback", "finalize", "resume", "await_resume",
              "check_row", "check_lease", "check_run", "undo"}
WorkerStages == {"idle", "claim", "report"} \cup Awaiting \cup Executing \cup Outcomes
Worktrees == {"none", "open", "diff"}

CodexInit ==
  /\ Init
  /\ stage = [w \in Workers |-> "idle"]
  /\ job = [w \in Workers |-> NoAction]
  /\ conn = [w \in Workers |-> NoThread]
  /\ sawSpent = [w \in Workers |-> FALSE]
  /\ resumed = [w \in Workers |-> FALSE]
  /\ worktree = [a \in Actions |-> "none"]
  /\ decisions = 0

Move(w, from, to) ==
  /\ stage[w] = from
  /\ stage' = [stage EXCEPT ![w] = to]

-----------------------------------------------------------------------------
(* One POST: it is sent and reaches a thread, is answered, or is lost      *)
(* before or after it reached the server.                                  *)

Send(w, t, from, to) ==
  /\ Move(w, from, to)
  /\ conn' = [conn EXCEPT ![w] = t]
  /\ UNCHANGED <<job, sawSpent, worktree, decisions>>

Answered(w, from, reply, to) ==
  /\ Move(w, from, to)
  /\ pc[conn[w]] = reply /\ Respond(conn[w])
  /\ conn' = [conn EXCEPT ![w] = NoThread]
  /\ UNCHANGED <<job, sawSpent, resumed, worktree, decisions>>

\* Mutant: the connection is not dropped.
LostStillOpen(w, from, to) ==
  /\ Move(w, from, to)
  /\ UNCHANGED <<vars, job, conn, sawSpent, resumed, worktree, decisions>>

Lost(w, from, to) ==
  /\ Move(w, from, to)
  /\ conn' = [conn EXCEPT ![w] = NoThread]
  /\ UNCHANGED <<vars, job, sawSpent, resumed, worktree, decisions>>

Local(w, from, to) ==
  /\ Move(w, from, to)
  /\ UNCHANGED <<vars, job, conn, sawSpent, resumed, decisions>>

-----------------------------------------------------------------------------
(* Authorisation checks and the claim.                                     *)

Inspect(w, a) ==
  /\ Move(w, "idle", "claim")
  /\ a \in WorkspaceWrite /\ approval[a] = "approved" /\ status[a] = "approved"
  /\ job' = [job EXCEPT ![w] = a]
  /\ UNCHANGED <<vars, conn, sawSpent, resumed, worktree, decisions>>

SendClaim(w) == \E t \in Threads :
  /\ Send(w, t, "claim", "await_claim") /\ BeginClaim(t, job[w])
  /\ UNCHANGED resumed
ClaimGranted(w) == Answered(w, "await_claim", "ok", "execute")
ClaimRefused(w) == Answered(w, "await_claim", "refused", "stopped")
ClaimLost(w) == Lost(w, "claim", "stopped") \/ Lost(w, "await_claim", "stopped")

-----------------------------------------------------------------------------
(* Execution in the managed worktree.                                      *)

\* create_managed_codex_worktree refuses a directory that is already there;
\* before it, the binary and the source repository are checked again.
CreateWorktree(w) ==
  \/ /\ Local(w, "execute", "run")
     /\ worktree[job[w]] = "none"
     /\ worktree' = [worktree EXCEPT ![job[w]] = "open"]
  \/ Local(w, "execute", "report") /\ UNCHANGED worktree

CodexSucceeds(w) ==
  /\ Local(w, "run", "finalize")
  /\ worktree' = [worktree EXCEPT ![job[w]] = "diff"]

\* Timeout, non-zero exit, prohibited event, or diff outside the scope.
CodexFails(w) == Local(w, "run", "rollback") /\ UNCHANGED worktree

\* Mutant: the rollback is not followed by a report.
RemoveUnreported(w, from) ==
  /\ Local(w, from, "failed")
  /\ worktree' = [worktree EXCEPT ![job[w]] = "none"]

\* remove_managed_codex_worktree may fail and leave the directory.
RemoveWorktree(w, from) ==
  /\ Local(w, from, "report")
  /\ worktree' \in {worktree, [worktree EXCEPT ![job[w]] = "none"]}

-----------------------------------------------------------------------------
(* finalize_codex_workspace_write: evidence, manifest, resume.             *)

SubmitEvidence(w) ==
  /\ Move(w, "finalize", "resume") \/ Move(w, "finalize", "check_row")
  /\ RecordEvidence(job[w])
  /\ UNCHANGED <<job, conn, sawSpent, resumed, worktree, decisions>>

EvidenceFails(w) == Local(w, "finalize", "check_row") /\ UNCHANGED worktree

SendResume(w) == \E t \in Threads :
  /\ Send(w, t, "resume", "await_resume") /\ BeginResume(t, job[w], TRUE)
  /\ resumed' = [resumed EXCEPT ![w] = TRUE]
\* The reply holds the row as read again after the update: a decision made in
\* between shows in it, and the worker then takes the reply for a failure.
ResumeGranted(w) ==
  \/ Answered(w, "await_resume", "ok", "succeeded")
  \/ Answered(w, "await_resume", "ok", "check_row") /\ status[job[w]] # "consumed"
\* Mutant: the status of the reply is not looked at.
ResumeRefusedUnseen(w) == Answered(w, "await_resume", "refused", "succeeded")
ResumeRefused(w) == Answered(w, "await_resume", "refused", "check_row")
ResumeLost(w) == Lost(w, "resume", "check_row") \/ Lost(w, "await_resume", "check_row")

-----------------------------------------------------------------------------
(* The closure state after an exception: the GET reads the row, then the   *)
(* lease; the run is read by a second GET.                                 *)

ReadClosureRow(w) ==
  /\ Move(w, "check_row", "check_lease")
  /\ sawSpent' = [sawSpent EXCEPT ![w] = status[job[w]] = "consumed"]
  /\ UNCHANGED <<vars, job, conn, resumed, worktree, decisions>>

ReadClosureLease(w) ==
  LET completed == lease[job[w]] = "completed" IN
  /\ stage[w] = "check_lease"
  /\ Local(w, "check_lease",
           IF sawSpent[w] /\ completed THEN "check_run"
           ELSE IF sawSpent[w] \/ completed THEN "manual" ELSE "undo")
  /\ UNCHANGED worktree

ClosureUnknown(w) ==
  /\ Local(w, "check_row", "unknown") \/ Local(w, "check_lease", "unknown")
  /\ UNCHANGED worktree

ReadClosureRun(w) ==
  /\ \/ Local(w, "check_run", "reconciled") /\ run[job[w]] = "completed"
     \/ Local(w, "check_run", "manual")
  /\ UNCHANGED worktree

\* record_codex_workspace_write_failure; a refused or lost report raises.
SendFail(w) == \E t \in Threads :
  /\ Send(w, t, "report", "await_fail") /\ BeginFail(t, job[w], TRUE)
  /\ UNCHANGED resumed
FailAccepted(w) ==
  Answered(w, "await_fail", "ok", "failed") \/ Answered(w, "await_fail", "ok", "stopped")
\* Mutant: a refused report is sent again.
FailRefusedRetried(w) == Answered(w, "await_fail", "refused", "report")
FailRefused(w) == Answered(w, "await_fail", "refused", "stopped")
FailLost(w) == Lost(w, "report", "stopped") \/ Lost(w, "await_fail", "stopped")

WorkerCrash(w) ==
  /\ stage[w] \notin {"idle"} \cup Outcomes
  /\ stage' = [stage EXCEPT ![w] = "stopped"]
  /\ conn' = [conn EXCEPT ![w] = NoThread]
  /\ UNCHANGED <<vars, job, sawSpent, resumed, worktree, decisions>>

-----------------------------------------------------------------------------
WorkerStep(w) ==
  \/ SendClaim(w) \/ ClaimGranted(w) \/ ClaimRefused(w)
  \/ CreateWorktree(w) \/ CodexSucceeds(w) \/ CodexFails(w) \/ RemoveWorktree(w, "rollback")
  \/ SubmitEvidence(w) \/ EvidenceFails(w)
  \/ SendResume(w) \/ ResumeGranted(w) \/ ResumeRefused(w)
  \/ ReadClosureRow(w) \/ ReadClosureLease(w) \/ ClosureUnknown(w) \/ ReadClosureRun(w)
  \/ RemoveWorktree(w, "undo")
  \/ SendFail(w) \/ FailAccepted(w) \/ FailRefused(w)

\* A request cut off by the server is lost to the worker that awaits it.
Loss(w) == ClaimLost(w) \/ ResumeLost(w) \/ FailLost(w)

Awaited(t) == \E w \in Workers : conn[w] = t

HumanDecides(t, a) ==
  /\ decisions < MaxDecisions
  /\ BeginApprove(t, a) \/ BeginReject(t, a)
  /\ decisions' = decisions + 1
  /\ UNCHANGED <<workerVars, worktree>>

\* A thread is not reused while a worker still reads its connection.
ServerStep(t) ==
  /\ Statement(t) \/ (~Awaited(t) /\ (Respond(t) \/ CutOff(t)))
  /\ UNCHANGED codexVars

\* The connection breaks when the server cuts off an awaited request.
AwaitedCutOff(w) ==
  /\ conn[w] # NoThread /\ CutOff(conn[w])
  /\ \/ Move(w, "await_claim", "stopped") \/ Move(w, "await_fail", "stopped")
     \/ Move(w, "await_resume", "check_row")
  /\ conn' = [conn EXCEPT ![w] = NoThread]
  /\ UNCHANGED <<job, sawSpent, resumed, worktree, decisions>>

CodexNext ==
  \/ \E a \in Actions :
       /\ Prepare(a) \/ ActionLapses(a) \/ LeaseLapses(a)
       /\ UNCHANGED codexVars
  \/ \E t \in Threads : ServerStep(t) \/ \E a \in Actions : HumanDecides(t, a)
  \/ \E w \in Workers :
       \/ \E a \in Actions : Inspect(w, a)
       \/ WorkerStep(w) \/ Loss(w) \/ AwaitedCutOff(w) \/ WorkerCrash(w)

CodexSpec == CodexInit /\ [][CodexNext]_systemVars

\* Handlers run to their end and answer; a worker that has begun goes on.
CodexFairness ==
  /\ \A t \in Threads : WF_systemVars(ServerStep(t))
  /\ \A w \in Workers : SF_systemVars(WorkerStep(w))
FairCodexSpec == CodexSpec /\ CodexFairness

-----------------------------------------------------------------------------
\* Workers, connections and worktrees keep their domains, and an answer is
\* awaited exactly by the workers that are waiting.
CodexTypeOK ==
  /\ TypeOK
  /\ stage \in [Workers -> WorkerStages]
  /\ job \in [Workers -> Actions \cup {NoAction}]
  /\ conn \in [Workers -> Threads \cup {NoThread}]
  /\ sawSpent \in [Workers -> BOOLEAN]
  /\ resumed \in [Workers -> BOOLEAN]
  /\ worktree \in [Actions -> Worktrees]
  /\ decisions \in 0 .. MaxDecisions
  /\ \A w \in Workers : conn[w] # NoThread <=> stage[w] \in Awaiting

\* Two workers never execute, finalize or roll back the same action: the
\* worktree they would share has one writer, also after the lease lapsed and
\* another worker tried to claim it.
OneWriter ==
  \A v, w \in Workers :
    (v # w /\ job[v] = job[w] /\ stage[v] \in Executing) => stage[w] \notin Executing

\* The lease was granted to the worker, also while the answer is on its way, and
\* the worker has not gone.
AtWork(w) == stage[w] \in Executing \/ (stage[w] = "await_claim" /\ pc[conn[w]] = "ok")

Promise == INSTANCE OneAttempt WITH
  leased    <- {a \in Actions : lease[a] # "none"},
  atWork    <- {<<w, job[w]>> : w \in {v \in Workers : AtWork(v)}},
  evidenced <- {a \in Actions : evidence[a]},
  asked     <- {job[w] : w \in {v \in Workers : resumed[v]}},
  spent     <- {a \in Actions : consumed[a]}

\* However claims cross, leases lapse, answers are lost and workers crash, an
\* action is executed by one attempt: one worker writes the worktree and records
\* evidence of the diff it left there, nobody takes over from it, it asks for the
\* resume once and after its evidence, and without its resume nothing is consumed.
ImplementsOneAttempt == Promise!Spec

\* A worker that reports success, at once or after reconciling a lost answer,
\* tells the truth: the action is consumed on evidence and the diff is kept.
SuccessIsTrue ==
  \A w \in Workers : stage[w] \in {"succeeded", "reconciled"} =>
    /\ consumed[job[w]] /\ evidence[job[w]]
    /\ worktree[job[w]] = "diff"

\* A failure reported before any resume was sent is final: the lease failed, the
\* action was not and will not be consumed, and the run and task are blocked.
FailureIsFinal ==
  \A w \in Workers : (stage[w] = "failed" /\ ~resumed[w]) =>
    /\ Closed(job[w])
    /\ run[job[w]] = "blocked" /\ task[job[w]] = "blocked"

\* Every attempt ends: in an outcome the worker reports, or because it stopped.
AttemptsEnd == \A w \in Workers : stage[w] # "idle" ~> stage[w] \in Outcomes

\* A lease does not stay open for ever unless a worker stopped or lost sight of
\* the ledger, or a request was cut off midway: only later requests close those.
LeaseIsSettled ==
  \A a \in WorkspaceWrite :
    lease[a] = "executing" ~>
      \/ lease[a] # "executing" \/ cut[a]
      \/ \E w \in Workers : job[w] = a /\ stage[w] \in {"stopped", "unknown"}

\* docs/CODEX_WORKSPACE_WRITE_ACCEPTANCE.md:7 "retains a successful diff for
\* human review": a consumed action has its diff in the managed worktree.
DiffIsRetained == \A a \in WorkspaceWrite : consumed[a] => worktree[a] = "diff"
=============================================================================
