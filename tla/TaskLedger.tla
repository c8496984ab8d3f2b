----------------------------- MODULE TaskLedger -----------------------------
(***************************************************************************)
(* One task of the shared pool and its runs: the Agent Gateway handlers    *)
(* claim, start and heartbeat, the operator's release of a stuck task and  *)
(* the two PATCH routes of the task (src/server.py).                       *)
(*                                                                         *)
(* The database connection is in autocommit mode, so every statement of a  *)
(* handler commits by itself: a handler is a sequence of actions here, any *)
(* other handler may run between two of them, and the server may stop      *)
(* there and leave the rest undone.                                        *)
(***************************************************************************)
EXTENDS Naturals, FiniteSets

CONSTANTS Agents,         \* agents with a token for the workspace
          Collaborators,  \* collaborator_agent_ids of the task
          Nobody,         \* no owner, no run
          Runs,           \* run ids, chosen by the clients
          Person,         \* whoever uses the PATCH routes
          MaxRequests     \* bound: requests served

ASSUME LedgerAssumption ==
  /\ Collaborators \subseteq Agents
  /\ Nobody \notin Agents \cup Runs /\ Person \notin Runs
  /\ MaxRequests \in Nat

VARIABLES task,       \* the row: status and owner_agent_id
          runs,       \* the rows: status and agent_id, NoRun where there is none
          request,    \* the request of each agent in progress, with what it has read
          release,    \* the operator's release in progress
          claimants,  \* agents answered that the task is theirs since it was last free (history)
          completers, \* runs, or the person, that ever recorded completion (history)
          served

vars == <<task, runs, request, release, claimants, completers, served>>

-----------------------------------------------------------------------------
Claimable    == {"planned", "backlog"}
TaskStatuses == Claimable \cup {"running", "waiting_approval", "blocked", "failed", "completed"}
RunStatuses  == {"running", "completed", "failed", "blocked", "waiting_approval"}

NoRun     == [status |-> "none", agent |-> Nobody]
NoRequest == [pc |-> "idle", run |-> Nobody, status |-> "none"]
NoRelease == [pc |-> "idle", list |-> {}]

\* coerce_choice(body status, allowed, default).
Coerce(s, default) == IF s \in RunStatuses THEN s ELSE default

\* run_heartbeat_terminal_task_status: the task status a run's end brings.
TerminalTaskStatus(s) ==
  IF s \in {"completed", "blocked", "failed"} THEN s ELSE "none"

Ends(s) == TerminalTaskStatus(s) # "none"

\* agent_can_access_task.
MayWork(a) == task.owner \in {Nobody, a} \/ a \in Collaborators

Serve == served < MaxRequests /\ served' = served + 1

LedgerInit ==
  /\ task \in [status : Claimable, owner : Agents \cup {Nobody}]
  /\ runs = [r \in Runs |-> NoRun]
  /\ request = [a \in Agents |-> NoRequest]
  /\ release = NoRelease
  /\ claimants = {} /\ completers = {} /\ served = 0

-----------------------------------------------------------------------------
(* agent_gateway_claim_task *)

\* The task read: a claim of what the agent already runs is answered at once.
ClaimRead(a) ==
  /\ request[a].pc = "idle" /\ MayWork(a) /\ Serve
  /\ \/ /\ task.status = "running" /\ task.owner = a
        /\ claimants' = claimants \cup {a}
        /\ UNCHANGED request
     \/ /\ task.status \in Claimable
        /\ request' = [request EXCEPT ![a].pc = "claim"]
        /\ UNCHANGED claimants
  /\ UNCHANGED <<task, runs, release, completers>>

\* Mutant: the UPDATE trusts the status read before.
ClaimUnguarded(a) ==
  /\ request[a].pc = "claim"
  /\ task' = [status |-> "running", owner |-> a] /\ claimants' = claimants \cup {a}
  /\ request' = [request EXCEPT ![a] = NoRequest]
  /\ UNCHANGED <<runs, release, completers, served>>

\* The UPDATE with the status in its WHERE: one row changed, or a conflict.
Claim(a) ==
  /\ request[a].pc = "claim"
  /\ IF task.status \in Claimable
     THEN task' = [status |-> "running", owner |-> a] /\ claimants' = claimants \cup {a}
     ELSE UNCHANGED <<task, claimants>>
  /\ request' = [request EXCEPT ![a] = NoRequest]
  /\ UNCHANGED <<runs, release, completers, served>>

-----------------------------------------------------------------------------
(* agent_gateway_start_run *)

\* The checks on the task, the plan and the gates (a refusal changes nothing).
StartRead(a, r, s) ==
  /\ request[a].pc = "idle" /\ MayWork(a) /\ Serve
  /\ task.status \in Claimable \/ (task.status = "running" /\ task.owner = a)
  /\ request' = [request EXCEPT ![a] = [pc |-> "start", run |-> r, status |-> Coerce(s, "running")]]
  /\ UNCHANGED <<task, runs, release, claimants, completers>>

\* compare_run_start_binding: a run id of another agent is refused.
StartBinding(a) ==
  /\ request[a].pc = "start"
  /\ request' = [request EXCEPT ![a] =
       IF runs[request[a].run].agent \in {Nobody, a} THEN [@ EXCEPT !.pc = "upsert"] ELSE NoRequest]
  /\ UNCHANGED <<task, runs, release, claimants, completers, served>>

\* upsert_run.
StartUpsert(a) ==
  LET q == request[a] IN
  /\ q.pc = "upsert"
  /\ runs' = [runs EXCEPT ![q.run] = [status |-> q.status, agent |-> a]]
  /\ completers' = IF q.status = "completed" THEN completers \cup {q.run} ELSE completers
  /\ request' = [request EXCEPT ![a].pc = "start_task"]
  /\ UNCHANGED <<task, release, claimants, served>>

\* Mutant: the owner is overwritten.
StartTaskTakesOver(a) ==
  /\ request[a].pc = "start_task"
  /\ task' = [status |-> "running", owner |-> a]
  /\ request' = [request EXCEPT ![a] = NoRequest]
  /\ UNCHANGED <<runs, release, claimants, completers, served>>

\* The UPDATE without a status in its WHERE; an owner there already stays.
StartTask(a) ==
  /\ request[a].pc = "start_task"
  /\ task' = [status |-> "running", owner |-> IF task.owner = Nobody THEN a ELSE task.owner]
  /\ request' = [request EXCEPT ![a] = NoRequest]
  /\ UNCHANGED <<runs, release, claimants, completers, served>>

-----------------------------------------------------------------------------
(* agent_gateway_run_heartbeat *)

\* ensure_run_access, and the status to write: without one in the body, the one just read.
BeatRead(a, r, s) ==
  /\ request[a].pc = "idle" /\ runs[r].agent = a /\ Serve
  /\ request' = [request EXCEPT ![a] =
                   [pc |-> "beat", run |-> r, status |-> Coerce(s, runs[r].status)]]
  /\ UNCHANGED <<task, runs, release, claimants, completers>>

BeatRun(a) ==
  LET q == request[a] IN
  /\ q.pc = "beat"
  /\ runs' = [runs EXCEPT ![q.run].status = q.status]
  /\ completers' = IF q.status = "completed" THEN completers \cup {q.run} ELSE completers
  /\ request' = [request EXCEPT ![a] = IF Ends(q.status) THEN [@ EXCEPT !.pc = "beat_task"]
                                                          ELSE NoRequest]
  /\ UNCHANGED <<task, release, claimants, served>>

\* Mutant: every end of a run completes its task.
BeatTaskCompletes(a) ==
  /\ request[a].pc = "beat_task"
  /\ task' = [task EXCEPT !.status = "completed"]
  /\ request' = [request EXCEPT ![a] = NoRequest]
  /\ UNCHANGED <<runs, release, claimants, completers, served>>

BeatTask(a) ==
  /\ request[a].pc = "beat_task"
  /\ task' = [task EXCEPT !.status = TerminalTaskStatus(request[a].status)]
  /\ request' = [request EXCEPT ![a] = NoRequest]
  /\ UNCHANGED <<runs, release, claimants, completers, served>>

-----------------------------------------------------------------------------
(* release_worker_task and the PATCH routes *)

ReleaseRead(force) ==
  /\ release.pc = "idle" /\ Serve
  /\ force \/ task.status = "running"
  /\ release' = [release EXCEPT !.pc = "list"]
  /\ UNCHANGED <<task, runs, request, claimants, completers>>

ReleaseList ==
  /\ release.pc = "list"
  /\ release' = [pc |-> "runs", list |-> {r \in Runs : runs[r].status = "running"}]
  /\ UNCHANGED <<task, runs, request, claimants, completers, served>>

\* One guarded UPDATE per run of the list.
ReleaseRun(r) ==
  /\ release.pc = "runs" /\ r \in release.list
  /\ runs' = IF runs[r].status = "running" THEN [runs EXCEPT ![r].status = "blocked"] ELSE runs
  /\ release' = [release EXCEPT !.list = @ \ {r}]
  /\ UNCHANGED <<task, request, claimants, completers, served>>

\* The UPDATE that gives the task back, whatever has become of it meanwhile.
ReleaseTask ==
  /\ release.pc = "runs" /\ release.list = {}
  /\ task' = [status |-> "planned", owner |-> Nobody]
  /\ claimants' = {}
  /\ release' = NoRelease
  /\ UNCHANGED <<runs, request, completers, served>>

\* PATCH /api/tasks/<id>/status: any status.
PatchStatus(s) ==
  /\ Serve
  /\ task' = [task EXCEPT !.status = s]
  /\ claimants' = IF s \in Claimable THEN {} ELSE claimants
  /\ completers' = IF s = "completed" THEN completers \cup {Person} ELSE completers
  /\ UNCHANGED <<runs, request, release>>

\* PATCH /api/tasks/<id>/assign: any owner; the task is no longer the claimant's.
PatchAssign(o) ==
  /\ Serve
  /\ task' = [task EXCEPT !.owner = o]
  /\ claimants' = {}
  /\ UNCHANGED <<runs, request, release, completers>>

\* The server stops: the statements done stay done.
Stop ==
  /\ \/ \E a \in Agents : request[a] # NoRequest
     \/ release # NoRelease
  /\ request' = [a \in Agents |-> NoRequest] /\ release' = NoRelease
  /\ UNCHANGED <<task, runs, claimants, completers, served>>

Next ==
  \/ \E a \in Agents :
       \/ ClaimRead(a) \/ Claim(a)
       \/ \E r \in Runs, s \in RunStatuses : StartRead(a, r, s)
       \/ StartBinding(a) \/ StartUpsert(a) \/ StartTask(a)
       \/ \E r \in Runs, s \in RunStatuses \cup {"absent"} : BeatRead(a, r, s)
       \/ BeatRun(a) \/ BeatTask(a)
  \/ (\E force \in BOOLEAN : ReleaseRead(force)) \/ ReleaseList
  \/ (\E r \in Runs : ReleaseRun(r)) \/ ReleaseTask
  \/ (\E s \in TaskStatuses : PatchStatus(s))
  \/ (\E o \in Agents \cup {Nobody} : PatchAssign(o))
  \/ Stop

LedgerSpec == LedgerInit /\ [][Next]_vars

-----------------------------------------------------------------------------
\* The variables keep their types; in particular only known statuses reach the
\* rows, and a run has an agent from its first row on.
LedgerTypeOK ==
  /\ task \in [status : TaskStatuses, owner : Agents \cup {Nobody}]
  /\ runs \in [Runs -> [status : RunStatuses, agent : Agents] \cup {NoRun}]
  /\ request \in [Agents -> [pc : {"idle", "claim", "start", "upsert", "start_task", "beat", "beat_task"},
                            run : Runs \cup {Nobody}, status : RunStatuses \cup {"none"}]]
  /\ \A a \in Agents : request[a].pc \notin {"idle", "claim"} =>
       request[a].run \in Runs /\ request[a].status \in RunStatuses
  /\ release \in [pc : {"idle", "list", "runs"}, list : SUBSET Runs]
  /\ claimants \subseteq Agents /\ completers \subseteq Runs \cup {Person}
  /\ served \in 0..MaxRequests

\* The pool hands the task to one agent at a time: from the moment it is free
\* until an operator frees or reassigns it, at most one agent has been told
\* that its claim succeeded, however claims, starts, heartbeats and retries of
\* all agents interleave.
AtMostOneClaimant == \A a, b \in claimants : a = b

\* The row says who won: no start that read the task before the claim, no late
\* heartbeat and no stop of the server takes the task from its claimant or
\* puts it back in the pool behind its back.
ClaimantOwnsTheTask ==
  claimants # {} => task.owner \in claimants /\ task.status \notin Claimable

\* A task is completed only after a run of it was, or because a person said so:
\* a handler that stops between its two statements never leaves a completed
\* task none of whose runs ever completed.
CompletedByARun == task.status = "completed" => completers # {}

\* The task as the pool hands it out.
Promise == INSTANCE HandOut WITH
  pooled <- task.status \in Claimable,
  owner  <- task.owner,
  told   <- claimants

\* Handlers that test the task in one statement and write it in another, a guarded
\* claim and unguarded starts, heartbeats and PATCHes, and stops of the server
\* between any two of them hand the task out as HandOut says: one agent is told
\* that it is its own, and keeps it until an operator takes it back.
ImplementsHandOut == Promise!Spec
=============================================================================
