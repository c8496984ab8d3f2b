---------------------------- MODULE WorkflowJobs ----------------------------
(***************************************************************************)
(* A workflow job submitted under one idempotency key, and its background  *)
(* thread: the reservation of the row, the replays of the request, the     *)
(* launch with its lease and its registry, the thread itself, and the      *)
(* operator who marks the job failed (src/server.py).                      *)
(*                                                                         *)
(* Every statement commits by itself.  The launch tests the registry and   *)
(* takes the lease under a process-wide lock that guards every access to   *)
(* the registry, so that part is one action.                               *)
(***************************************************************************)
EXTENDS Naturals

CONSTANTS Connections,  \* requests served at the same time
          Contents,     \* request hashes that may come under the key
          Nothing,      \* no content, no lease
          MaxFaults,    \* bound: failed thread starts and failed statements
          MaxCrashes    \* bound: stops of the server

ASSUME JobAssumption ==
  /\ Nothing \notin Contents /\ Nothing \notin Connections
  /\ MaxFaults \in Nat /\ MaxCrashes \in Nat

VARIABLES job,      \* the row: status, request_hash, and started_at as a lease
          active,   \* the job is in WORKFLOW_JOB_ACTIVE_THREADS
          conn,     \* the submit request each connection serves
          thread,   \* the background thread each connection has started
          operator, \* mark-failed in progress
          runs,     \* background executions begun (history)
          faults, crashes

vars == <<job, active, conn, thread, operator, runs, faults, crashes>>

-----------------------------------------------------------------------------
NoJob     == [status |-> "none", content |-> Nothing, lease |-> Nothing, expired |-> FALSE]
NoRequest == [pc |-> "idle", content |-> Nothing]
NoThread  == [pc |-> "none", content |-> Nothing]

Rows     == [status : {"queued", "running", "completed", "failed"}, content : Contents,
             lease : Connections \cup {Nothing}, expired : BOOLEAN]
Requests == [pc : {"reserve", "existing", "check", "refuse", "launch", "start", "release", "discard"},
             content : Contents]
BackgroundThreads == [pc : {"begin", "run", "fail", "end"}, content : Contents]

Goto(q, next)     == conn' = [conn EXCEPT ![q].pc = next]
Answer(q)         == conn' = [conn EXCEPT ![q] = NoRequest]
ThreadGoto(q, next) == thread' = [thread EXCEPT ![q].pc = next]
Fault             == faults < MaxFaults /\ faults' = faults + 1

JobInit ==
  /\ job = NoJob /\ active = FALSE
  /\ conn = [q \in Connections |-> NoRequest]
  /\ thread = [q \in Connections |-> NoThread]
  /\ operator = "idle"
  /\ runs = 0 /\ faults = 0 /\ crashes = 0

-----------------------------------------------------------------------------
(* submit_customer_worker_task_job *)

Arrive(q, c) ==
  /\ conn[q].pc = "idle" /\ thread[q] = NoThread
  /\ conn' = [conn EXCEPT ![q] = [pc |-> "reserve", content |-> c]]
  /\ UNCHANGED <<job, active, thread, operator, runs, faults, crashes>>

\* Mutant: the reservation does not record the hash.
ReserveUnhashed(q) ==
  /\ conn[q].pc = "reserve"
  /\ IF job = NoJob
     THEN job' = [NoJob EXCEPT !.status = "queued"] /\ Goto(q, "check")
     ELSE Goto(q, "existing") /\ UNCHANGED job
  /\ UNCHANGED <<active, thread, operator, runs, faults, crashes>>

\* INSERT OR IGNORE under the job id derived from the key.
Reserve(q) ==
  /\ conn[q].pc = "reserve"
  /\ IF job = NoJob
     THEN /\ job' = [NoJob EXCEPT !.status = "queued", !.content = conn[q].content]
          /\ Goto(q, "check")
     ELSE Goto(q, "existing") /\ UNCHANGED job
  /\ UNCHANGED <<active, thread, operator, runs, faults, crashes>>

\* Mutant: the hash of the replay is not compared.
ReplayAny(q) ==
  /\ conn[q].pc = "existing"
  /\ IF job.status = "queued" THEN Goto(q, "launch") ELSE Answer(q)
  /\ UNCHANGED <<job, active, thread, operator, runs, faults, crashes>>

\* The existing row: another hash is a conflict, a queued job is launched again.
Replay(q) ==
  /\ conn[q].pc = "existing"
  /\ IF conn[q].content = job.content /\ job.status = "queued"
     THEN Goto(q, "launch")
     ELSE Answer(q)
  /\ UNCHANGED <<job, active, thread, operator, runs, faults, crashes>>

\* The connector's trust and the adapter's readiness, as they are now.
Check(q) ==
  /\ conn[q].pc = "check"
  /\ Goto(q, "launch") \/ Goto(q, "refuse")
  /\ UNCHANGED <<job, active, thread, operator, runs, faults, crashes>>

\* The early rejection, recorded whatever a replay has launched meanwhile.
Refuse(q) ==
  /\ conn[q].pc = "refuse"
  /\ job' = [job EXCEPT !.status = "failed"]
  /\ Answer(q)
  /\ UNCHANGED <<active, thread, operator, runs, faults, crashes>>

\* A statement of the request raises; what it has committed stays.
RequestFails(q) ==
  /\ conn[q].pc \in {"reserve", "existing", "check", "refuse"} /\ Fault
  /\ Answer(q)
  /\ UNCHANGED <<job, active, thread, operator, runs, crashes>>

-----------------------------------------------------------------------------
(* launch_workflow_job_background *)

\* Mutant: an abandoned lease is never taken over.
NeverReclaimed == job.status = "queued" /\ job.lease = Nothing

\* Mutant: a job that is running is launched again once its lease is old.
LeasableRunning ==
  job.status \in {"queued", "running"} /\ (job.lease = Nothing \/ job.expired)

\* The WHERE of the lease.
Leasable == job.status = "queued" /\ (job.lease = Nothing \/ job.expired)

\* Mutant: the lease alone decides, the registry is not looked at.
LaunchUnregistered(q) ==
  /\ conn[q].pc = "launch"
  /\ IF Leasable
     THEN /\ job' = [job EXCEPT !.lease = q, !.expired = FALSE]
          /\ active' = TRUE
          /\ Goto(q, "start")
     ELSE Answer(q) /\ UNCHANGED <<job, active>>
  /\ UNCHANGED <<thread, operator, runs, faults, crashes>>

\* Under the lock: the registry, then the guarded UPDATE of the lease.
Launch(q) ==
  /\ conn[q].pc = "launch"
  /\ IF ~active /\ Leasable
     THEN /\ job' = [job EXCEPT !.lease = q, !.expired = FALSE]
          /\ active' = TRUE
          /\ Goto(q, "start")
     ELSE Answer(q) /\ UNCHANGED <<job, active>>
  /\ UNCHANGED <<thread, operator, runs, faults, crashes>>

\* The UPDATE raises: the registry is as before, the request fails.
LaunchFails(q) ==
  /\ conn[q].pc = "launch" /\ ~active /\ Fault
  /\ Answer(q)
  /\ UNCHANGED <<job, active, thread, operator, runs, crashes>>

StartThread(q) ==
  /\ conn[q].pc = "start"
  /\ thread' = [thread EXCEPT ![q] = [pc |-> "begin", content |-> conn[q].content]]
  /\ Answer(q)
  /\ UNCHANGED <<job, active, operator, runs, faults, crashes>>

StartFails(q) ==
  /\ conn[q].pc = "start" /\ Fault
  /\ Goto(q, "release")
  /\ UNCHANGED <<job, active, thread, operator, runs, crashes>>

\* The guarded UPDATE that gives back its own lease.
ReleaseLease(q) ==
  /\ conn[q].pc = "release"
  /\ job' = IF job.status = "queued" /\ job.lease = q
            THEN [job EXCEPT !.lease = Nothing, !.expired = FALSE] ELSE job
  /\ Goto(q, "discard")
  /\ UNCHANGED <<active, thread, operator, runs, faults, crashes>>

\* That UPDATE raises too: the job stays in the registry.
ReleaseFails(q) ==
  /\ conn[q].pc = "release" /\ Fault
  /\ Answer(q)
  /\ UNCHANGED <<job, active, thread, operator, runs, crashes>>

Discard(q) ==
  /\ conn[q].pc = "discard"
  /\ active' = FALSE
  /\ Answer(q)
  /\ UNCHANGED <<job, thread, operator, runs, faults, crashes>>

-----------------------------------------------------------------------------
(* workflow_job_thread_entry and run_workflow_job_background *)

\* The unguarded UPDATE to running; the workflow runs from here on.
Begin(q) ==
  /\ thread[q].pc = "begin"
  /\ job' = [job EXCEPT !.status = "running"]
  /\ runs' = runs + 1
  /\ ThreadGoto(q, "run")
  /\ UNCHANGED <<active, conn, operator, faults, crashes>>

BeginFails(q) ==
  /\ thread[q].pc = "begin" /\ Fault
  /\ ThreadGoto(q, "fail")
  /\ UNCHANGED <<job, active, conn, operator, runs, crashes>>

\* The workflow's result, recorded without a guard on the status; when the
\* audit after it raises, the except branch still follows.
Finish(q, status) ==
  /\ thread[q].pc = "run"
  /\ job' = [job EXCEPT !.status = status]
  /\ \/ ThreadGoto(q, "end") /\ UNCHANGED faults
     \/ ThreadGoto(q, "fail") /\ Fault
  /\ UNCHANGED <<active, conn, operator, runs, crashes>>

\* The workflow or its terminal UPDATE raises.
Raise(q) ==
  /\ thread[q].pc = "run"
  /\ ThreadGoto(q, "fail")
  /\ UNCHANGED <<job, active, conn, operator, runs, faults, crashes>>

\* The except branch; when it raises as well nothing is recorded.
RecordFailure(q) ==
  /\ thread[q].pc = "fail"
  /\ \/ job' = [job EXCEPT !.status = "failed"] /\ UNCHANGED faults
     \/ Fault /\ UNCHANGED job
  /\ ThreadGoto(q, "end")
  /\ UNCHANGED <<active, conn, operator, runs, crashes>>

\* The finally of the thread's entry.
End(q) ==
  /\ thread[q].pc = "end"
  /\ active' = FALSE
  /\ thread' = [thread EXCEPT ![q] = NoThread]
  /\ UNCHANGED <<job, conn, operator, runs, faults, crashes>>

-----------------------------------------------------------------------------
(* mark_workflow_job_failed, time, and the end of the process *)

MarkRead ==
  /\ operator = "idle" /\ job.status \in {"queued", "running"}
  /\ operator' = "mark"
  /\ UNCHANGED <<job, active, conn, thread, runs, faults, crashes>>

Mark ==
  /\ operator = "mark"
  /\ job' = [job EXCEPT !.status = "failed"]
  /\ operator' = "idle"
  /\ UNCHANGED <<active, conn, thread, runs, faults, crashes>>

\* WORKFLOW_JOB_LAUNCH_LEASE_SECONDS have passed.
Expire ==
  /\ job.lease # Nothing /\ ~job.expired
  /\ job' = [job EXCEPT !.expired = TRUE]
  /\ UNCHANGED <<active, conn, thread, operator, runs, faults, crashes>>

\* The server stops and comes back: the row is all that is left.
Crash ==
  /\ crashes < MaxCrashes /\ crashes' = crashes + 1
  /\ active' = FALSE /\ operator' = "idle"
  /\ conn' = [q \in Connections |-> NoRequest]
  /\ thread' = [q \in Connections |-> NoThread]
  /\ UNCHANGED <<job, runs, faults>>

RequestStep(q) ==
  \/ Reserve(q) \/ Replay(q) \/ Check(q) \/ Refuse(q) \/ RequestFails(q)
  \/ Launch(q) \/ LaunchFails(q) \/ StartThread(q) \/ StartFails(q)
  \/ ReleaseLease(q) \/ ReleaseFails(q) \/ Discard(q)

ThreadStep(q) ==
  \/ Begin(q) \/ BeginFails(q)
  \/ Finish(q, "completed") \/ Finish(q, "failed")
  \/ Raise(q) \/ RecordFailure(q) \/ End(q)

Next ==
  \/ \E q \in Connections :
       (\E c \in Contents : Arrive(q, c)) \/ RequestStep(q) \/ ThreadStep(q)
  \/ MarkRead \/ Mark \/ Expire \/ Crash

JobSpec == JobInit /\ [][Next]_vars

\* The submitter of the job retries with the same request while it does not
\* know the outcome.
Retry == \E q \in Connections : Arrive(q, job.content)

\* Requests and threads go on, the clock too, and the submitter keeps retrying.
FairJobSpec ==
  /\ JobSpec
  /\ \A q \in Connections : WF_vars(RequestStep(q)) /\ WF_vars(ThreadStep(q))
  /\ WF_vars(Expire)
  /\ SF_vars(Retry)

-----------------------------------------------------------------------------
\* The variables keep their types; a row always has the hash of the request
\* that reserved it, and no thread or launch exists without a row.
JobTypeOK ==
  /\ job \in Rows \cup {NoJob}
  /\ active \in BOOLEAN
  /\ conn \in [Connections -> Requests \cup {NoRequest}]
  /\ thread \in [Connections -> BackgroundThreads \cup {NoThread}]
  /\ operator \in {"idle", "mark"}
  /\ runs \in Nat /\ faults \in 0..MaxFaults /\ crashes \in 0..MaxCrashes
  /\ job = NoJob =>
       /\ operator = "idle"
       /\ \A q \in Connections : conn[q].pc \in {"idle", "reserve"} /\ thread[q] = NoThread

\* Whoever is about to start the thread, and the thread: q has the launch.
Launching(q) ==
  conn[q].pc \in {"start", "release", "discard"} \/ thread[q] # NoThread

\* However requests and replays interleave, whatever thread starts fail and
\* however old the lease is, one launch of the job is under way at a time, and
\* the registry knows it.
OneThread ==
  /\ \A p, q \in Connections : Launching(p) /\ Launching(q) => p = q
  /\ \A q \in Connections : Launching(q) => active

\* The submission as its client sees it: the row, and how often its job was run.
Promise == INSTANCE RunOnce WITH recorded <- job.content, status <- job.status

\* Over all replays, failed starts, expired leases, operator's marks and restarts
\* of the server the job keeps the content of its first request, is begun at most
\* once, never goes back to the queue, and is completed only by its one run: a job
\* that was running when the server stopped is not silently run again, and a
\* completed one does not start to run.
ImplementsRunOnce == Promise!Spec

\* What runs is what the row recorded: a request with another hash under the
\* same key neither changes the row nor is executed in its place.
RunsWhatWasRecorded ==
  \A q \in Connections : thread[q] # NoThread => thread[q].content = job.content

\* The registry holds the job although nothing will ever take it out: left by a
\* start whose failure could not be recorded, until the server restarts.
Wedged == active /\ \A q \in Connections : ~Launching(q)

\* A reservation that was persisted before its thread started is not lost: as
\* long as its submitter retries, a queued job is run, refused or marked failed,
\* in spite of failed starts and stops of the server, unless the registry is wedged.
QueuedIsLaunched == job.status = "queued" ~> job.status # "queued" \/ Wedged
=============================================================================
