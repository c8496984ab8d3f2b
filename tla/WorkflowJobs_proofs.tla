------------------------- MODULE WorkflowJobs_proofs -------------------------
(***************************************************************************)
(* Proofs about WorkflowJobs, for every set of connections and of request  *)
(* hashes, and for every number of faults and stops of the server.         *)
(***************************************************************************)
EXTENDS WorkflowJobs, TLAPS

\* A connection whose thread runs has been answered.
AnsweredAtStart == \A q \in Connections : thread[q] # NoThread => conn[q] = NoRequest

\* Only requests with the hash of the row get past the reservation.
SameContent ==
  \A q \in Connections :
    /\ conn[q].pc \notin {"idle", "reserve", "existing"} => conn[q].content = job.content
    /\ thread[q] # NoThread => thread[q].content = job.content

\* Nothing has run while the job is queued, nor while a launch has not begun it.
NotBegun ==
  /\ runs \in {0, 1}
  /\ job.status \in {"none", "queued"} => runs = 0
  /\ \A q \in Connections :
       conn[q].pc \in {"start", "release"} \/ thread[q].pc = "begin" => runs = 0

\* The row and the run: running and completed are told of a begun job only, and
\* while its thread runs nothing but a failure has been recorded.
Lifecycle ==
  /\ job.status \in {"running", "completed"} => runs = 1
  /\ \A q \in Connections :
       thread[q].pc = "run" => runs = 1 /\ job.status \in {"running", "failed"}

IInv == JobTypeOK /\ OneThread /\ AnsweredAtStart /\ SameContent /\ NotBegun /\ Lifecycle

-----------------------------------------------------------------------------
(* Type correctness.                                                        *)

\* Requests keep the types.
LEMMA RequestType ==
  ASSUME JobTypeOK, NEW q \in Connections,
         (\E c \in Contents : Arrive(q, c)) \/ RequestStep(q)
  PROVE  JobTypeOK'
<1> USE DEF JobTypeOK, Rows, Requests, NoRequest, NoJob, Goto, Answer, Fault
<1>1. ASSUME NEW c \in Contents, Arrive(q, c)
      PROVE  JobTypeOK'
  BY <1>1 DEF Arrive
<1>2. CASE Reserve(q)
  <2>1. CASE job = NoJob
    <3>1. conn[q].content \in Contents
      BY <1>2 DEF Reserve
    <3>2. job' = [status |-> "queued", content |-> conn[q].content,
                  lease |-> Nothing, expired |-> FALSE]
      BY <1>2, <2>1 DEF Reserve
    <3>3. job' \in Rows /\ job' # NoJob
      BY <3>1, <3>2
    <3>4. conn' \in [Connections -> Requests \cup {NoRequest}]
      BY <1>2, <2>1 DEF Reserve
    <3> QED
      BY <1>2, <3>3, <3>4 DEF Reserve
  <2>2. CASE job # NoJob
    BY <1>2, <2>2 DEF Reserve
  <2> QED
    BY <2>1, <2>2
<1>3. CASE Replay(q)
  BY <1>3 DEF Replay
<1>4. CASE Check(q)
  BY <1>4 DEF Check
<1>5. CASE Refuse(q)
  BY <1>5 DEF Refuse
<1>6. CASE RequestFails(q)
  BY <1>6, JobAssumption DEF RequestFails
<1>7. CASE Launch(q)
  <2>1. CASE ~active /\ Leasable
    <3>1. job \in Rows
      BY <2>1 DEF Leasable
    <3>2. job' = [job EXCEPT !.lease = q, !.expired = FALSE]
      BY <1>7, <2>1 DEF Launch
    <3>3. job' \in Rows /\ job' # NoJob
      BY <3>1, <3>2
    <3> QED
      BY <1>7, <2>1, <3>3 DEF Launch
  <2>2. CASE ~(~active /\ Leasable)
    BY <1>7, <2>2 DEF Launch
  <2> QED
    BY <2>1, <2>2
<1>8. CASE LaunchFails(q)
  BY <1>8, JobAssumption DEF LaunchFails
<1>9. CASE StartThread(q)
  BY <1>9 DEF StartThread, BackgroundThreads
<1>10. CASE StartFails(q)
  BY <1>10, JobAssumption DEF StartFails
<1>11. CASE ReleaseLease(q)
  <2>1. job \in Rows
    BY <1>11 DEF ReleaseLease
  <2>2. job' \in Rows /\ job' # NoJob
    BY <1>11, <2>1 DEF ReleaseLease
  <2> QED
    BY <1>11, <2>2 DEF ReleaseLease
<1>12. CASE ReleaseFails(q)
  BY <1>12, JobAssumption DEF ReleaseFails
<1>13. CASE Discard(q)
  BY <1>13 DEF Discard
<1> QED
  BY <1>1, <1>2, <1>3, <1>4, <1>5, <1>6, <1>7, <1>8, <1>9, <1>10, <1>11, <1>12, <1>13 DEF RequestStep

\* Background threads keep the types.
LEMMA ThreadType ==
  ASSUME JobTypeOK, NEW q \in Connections, ThreadStep(q)
  PROVE  JobTypeOK'
<1> USE DEF JobTypeOK, Rows, BackgroundThreads, NoThread, NoJob, ThreadGoto, Fault
<1>1. CASE Begin(q)
  BY <1>1 DEF Begin
<1>2. CASE BeginFails(q)
  BY <1>2, JobAssumption DEF BeginFails
<1>3. ASSUME NEW status \in {"completed", "failed"}, Finish(q, status)
      PROVE  JobTypeOK'
  BY <1>3, JobAssumption DEF Finish
<1>4. CASE Raise(q)
  BY <1>4 DEF Raise
<1>5. CASE RecordFailure(q)
  BY <1>5, JobAssumption DEF RecordFailure
<1>6. CASE End(q)
  BY <1>6 DEF End
<1> QED
  BY <1>1, <1>2, <1>3, <1>4, <1>5, <1>6 DEF ThreadStep

\* Every step keeps the types.
LEMMA StepType ==
  JobTypeOK /\ [Next]_vars => JobTypeOK'
<1> SUFFICES ASSUME JobTypeOK, [Next]_vars
             PROVE  JobTypeOK'
  OBVIOUS
<1> USE DEF JobTypeOK, Rows
<1>1. CASE MarkRead
  BY <1>1 DEF MarkRead, NoJob
<1>2. CASE Mark
  BY <1>2 DEF Mark, NoJob
<1>3. CASE Expire
  <2>1. job \in Rows
    BY <1>3 DEF Expire, NoJob
  <2>2. job' \in Rows /\ job' # NoJob
    BY <1>3, <2>1 DEF Expire, NoJob
  <2> QED
    BY <1>3, <2>2 DEF Expire
<1>4. CASE Crash
  <2>1. crashes' \in 0..MaxCrashes
    BY <1>4, JobAssumption DEF Crash
  <2>2. /\ conn' \in [Connections -> Requests \cup {NoRequest}]
        /\ thread' \in [Connections -> BackgroundThreads \cup {NoThread}]
        /\ \A q \in Connections : conn'[q].pc = "idle" /\ thread'[q] = NoThread
    BY <1>4 DEF Crash, NoRequest
  <2> QED
    BY <1>4, <2>1, <2>2 DEF Crash
<1>5. CASE UNCHANGED vars
  BY <1>5 DEF vars
<1> QED
  BY <1>1, <1>2, <1>3, <1>4, <1>5, RequestType, ThreadType DEF Next
-----------------------------------------------------------------------------
(* The launch and the background run.                                       *)

LaunchInv == OneThread /\ AnsweredAtStart /\ SameContent /\ NotBegun

\* Requests keep the invariant of the launch: only the guarded launch makes a
\* connection a launching one, and only while nothing has run.
LEMMA RequestKeeps ==
  ASSUME JobTypeOK, LaunchInv, NEW q \in Connections,
         (\E c \in Contents : Arrive(q, c)) \/ RequestStep(q)
  PROVE  LaunchInv'
<1> USE DEF JobTypeOK, LaunchInv, OneThread, Launching, AnsweredAtStart, SameContent, NotBegun,
            Rows, Requests, NoRequest, NoThread, NoJob, Goto, Answer, Fault
<1>1. ASSUME NEW c \in Contents, Arrive(q, c)
      PROVE  LaunchInv'
  BY <1>1 DEF Arrive
<1>2. CASE Reserve(q)
  <2>1. CASE job = NoJob
    <3>1. job'.status = "queued" /\ job'.content = conn[q].content
      BY <1>2, <2>1 DEF Reserve
    <3>2. \A p \in Connections : conn[p].pc \in {"idle", "reserve"} /\ thread[p] = NoThread
      BY <2>1
    <3>3. /\ conn'[q] = [conn[q] EXCEPT !.pc = "check"]
          /\ \A p \in Connections \ {q} : conn'[p] = conn[p]
      BY <1>2, <2>1 DEF Reserve
    <3>4. UNCHANGED <<active, thread, runs>> /\ runs = 0 /\ conn[q].pc = "reserve"
      BY <1>2, <2>1 DEF Reserve
    <3> QED
      BY <3>1, <3>2, <3>3, <3>4
  <2>2. CASE job # NoJob
    BY <1>2, <2>2 DEF Reserve
  <2> QED
    BY <2>1, <2>2
<1>3. CASE Replay(q)
  BY <1>3 DEF Replay
<1>4. CASE Check(q)
  BY <1>4 DEF Check
<1>5. CASE Refuse(q)
  BY <1>5 DEF Refuse
<1>6. CASE RequestFails(q)
  BY <1>6 DEF RequestFails
<1>7. CASE Launch(q)
  <2>1. CASE ~active /\ Leasable
    <3>1. \A p \in Connections : ~Launching(p)
      BY <2>1
    <3>2. /\ conn'[q] = [conn[q] EXCEPT !.pc = "start"]
          /\ \A p \in Connections \ {q} : conn'[p] = conn[p]
      BY <1>7, <2>1 DEF Launch
    <3>3. job'.content = job.content /\ job'.status = "queued" /\ active' = TRUE
      BY <1>7, <2>1 DEF Launch, Leasable
    <3>4. UNCHANGED <<thread, runs>> /\ runs = 0 /\ conn[q].pc = "launch"
      BY <1>7, <2>1 DEF Launch, Leasable
    <3> QED
      BY <3>1, <3>2, <3>3, <3>4
  <2>2. CASE ~(~active /\ Leasable)
    BY <1>7, <2>2 DEF Launch
  <2> QED
    BY <2>1, <2>2
<1>8. CASE LaunchFails(q)
  BY <1>8 DEF LaunchFails
<1>9. CASE StartThread(q)
  BY <1>9 DEF StartThread, BackgroundThreads
<1>10. CASE StartFails(q)
  BY <1>10 DEF StartFails
<1>11. CASE ReleaseLease(q)
  BY <1>11 DEF ReleaseLease
<1>12. CASE ReleaseFails(q)
  BY <1>12 DEF ReleaseFails
<1>13. CASE Discard(q)
  BY <1>13 DEF Discard
<1> QED
  BY <1>1, <1>2, <1>3, <1>4, <1>5, <1>6, <1>7, <1>8, <1>9, <1>10, <1>11, <1>12, <1>13 DEF RequestStep

\* Threads keep it: the one thread there is begins the job when nothing has run.
LEMMA ThreadKeeps ==
  ASSUME JobTypeOK, LaunchInv, NEW q \in Connections, ThreadStep(q)
  PROVE  LaunchInv'
<1> USE DEF JobTypeOK, LaunchInv, OneThread, Launching, AnsweredAtStart, SameContent, NotBegun,
            Rows, BackgroundThreads, NoRequest, NoThread, NoJob, ThreadGoto, Fault
<1>1. CASE Begin(q)
  BY <1>1 DEF Begin
<1>2. CASE BeginFails(q)
  BY <1>2 DEF BeginFails
<1>3. CASE Raise(q)
  BY <1>3 DEF Raise
<1>4. CASE RecordFailure(q)
  BY <1>4 DEF RecordFailure
<1>5. CASE End(q)
  BY <1>5 DEF End
<1>6. ASSUME NEW status \in {"completed", "failed"}, Finish(q, status)
      PROVE  LaunchInv'
  BY <1>6 DEF Finish
<1> QED
  BY <1>1, <1>2, <1>3, <1>4, <1>5, <1>6 DEF ThreadStep

\* Every step keeps the invariant of the launch.
LEMMA StepKeeps ==
  JobTypeOK /\ LaunchInv /\ [Next]_vars => LaunchInv'
<1> SUFFICES ASSUME JobTypeOK, LaunchInv, [Next]_vars
             PROVE  LaunchInv'
  OBVIOUS
<1> USE DEF LaunchInv, OneThread, Launching, AnsweredAtStart, SameContent, NotBegun
<1>1. CASE MarkRead
  BY <1>1 DEF MarkRead
<1>2. CASE Mark
  BY <1>2 DEF Mark, JobTypeOK, Rows, NoJob
<1>3. CASE Expire
  BY <1>3 DEF Expire, JobTypeOK, Rows, NoJob
<1>4. CASE Crash
  BY <1>4 DEF Crash, NoRequest, NoThread
<1>5. CASE UNCHANGED vars
  BY <1>5 DEF vars
<1> QED
  BY <1>1, <1>2, <1>3, <1>4, <1>5, RequestKeeps, ThreadKeeps DEF Next

\* Every step keeps what the row tells of the run: only the one thread there is
\* writes running or completed.
LEMMA LifecycleKeeps ==
  ASSUME JobTypeOK, LaunchInv, Lifecycle, [Next]_vars
  PROVE  Lifecycle'
<1> USE DEF JobTypeOK, Rows, Lifecycle, NoJob, NoThread
<1>1. ASSUME NEW q \in Connections, RequestStep(q) \/ \E c \in Contents : Arrive(q, c)
      PROVE  Lifecycle'
  <2>1. runs' = runs /\ \A p \in Connections : thread'[p].pc = "run" => thread[p].pc = "run"
    BY <1>1 DEF RequestStep, Arrive, Reserve, Replay, Check, Refuse, RequestFails, Launch,
                LaunchFails, StartThread, StartFails, ReleaseLease, ReleaseFails, Discard
  <2>2. job'.status = job.status \/ job'.status = "failed"
        \/ (job = NoJob /\ job'.status = "queued")
    BY <1>1 DEF RequestStep, Arrive, Reserve, Replay, Check, Refuse, RequestFails, Launch,
                LaunchFails, StartThread, StartFails, ReleaseLease, ReleaseFails, Discard
  <2>3. job = NoJob => \A p \in Connections : thread[p].pc # "run"
    OBVIOUS
  <2> QED
    BY <2>1, <2>2, <2>3
<1>2. ASSUME NEW q \in Connections, ThreadStep(q)
      PROVE  Lifecycle'
  <2>1. \A p \in Connections \ {q} : thread'[p] = thread[p] /\ thread[p] = NoThread
    BY <1>2 DEF ThreadStep, Begin, BeginFails, Finish, Raise, RecordFailure, End, ThreadGoto,
                LaunchInv, OneThread, Launching
  <2>2. CASE Begin(q)
    <3>1. runs' = 1 /\ job'.status = "running"
      BY <2>2 DEF Begin, LaunchInv, NotBegun
    <3> QED
      BY <2>1, <3>1
  <2>3. CASE BeginFails(q) \/ Raise(q) \/ RecordFailure(q) \/ End(q)
    <3>1. runs' = runs /\ thread'[q].pc # "run"
      BY <2>3 DEF BeginFails, Raise, RecordFailure, End, ThreadGoto, BackgroundThreads
    <3>2. job'.status \in {job.status, "failed"}
      BY <2>3 DEF BeginFails, Raise, RecordFailure, End
    <3> QED
      BY <2>1, <3>1, <3>2
  <2>4. ASSUME NEW status \in {"completed", "failed"}, Finish(q, status)
        PROVE  Lifecycle'
    <3>1. runs' = runs /\ runs = 1 /\ thread'[q].pc # "run"
      BY <2>4 DEF Finish, ThreadGoto, BackgroundThreads
    <3> QED
      BY <2>1, <3>1
  <2> QED
    BY <1>2, <2>2, <2>3, <2>4 DEF ThreadStep
<1>3. CASE MarkRead
  BY <1>3 DEF MarkRead
<1>4. CASE Mark
  BY <1>4 DEF Mark
<1>5. CASE Expire
  BY <1>5 DEF Expire
<1>6. CASE Crash
  BY <1>6 DEF Crash
<1>7. CASE UNCHANGED vars
  BY <1>7 DEF vars
<1> QED
  BY <1>1, <1>2, <1>3, <1>4, <1>5, <1>6, <1>7 DEF Next

-----------------------------------------------------------------------------
(* The invariant and what follows from it.                                  *)

\* The inductive invariant holds in every reachable state.
THEOREM JobInvariant == JobSpec => []IInv
<1>1. JobInit => IInv
  <2> SUFFICES ASSUME JobInit
               PROVE  IInv
    OBVIOUS
  <2>1. JobTypeOK
    <3>1. 0 \in Nat /\ 0 \in 0..MaxFaults /\ 0 \in 0..MaxCrashes
      BY JobAssumption
    <3>2. /\ conn \in [Connections -> Requests \cup {NoRequest}]
          /\ thread \in [Connections -> BackgroundThreads \cup {NoThread}]
          /\ \A q \in Connections : conn[q].pc = "idle" /\ thread[q] = NoThread
      BY DEF JobInit, NoRequest
    <3> QED
      BY <3>1, <3>2 DEF JobInit, JobTypeOK
  <2>2. OneThread /\ AnsweredAtStart /\ SameContent /\ NotBegun /\ Lifecycle
    BY DEF JobInit, OneThread, Launching, AnsweredAtStart, SameContent, NotBegun, Lifecycle,
           NoRequest, NoThread, NoJob
  <2> QED
    BY <2>1, <2>2 DEF IInv
<1>2. IInv /\ [Next]_vars => IInv'
  BY StepType, StepKeeps, LifecycleKeeps DEF IInv, LaunchInv
<1> QED
  BY <1>1, <1>2, PTL DEF JobSpec

\* The variables keep their types.
THEOREM JobTypeCorrect == JobSpec => []JobTypeOK
<1>1. IInv => JobTypeOK
  BY DEF IInv
<1> QED
  BY <1>1, JobInvariant, PTL

\* One launch of the job at a time, known to the registry
\* (launch_workflow_job_background against its replays and its failures).
THEOREM LaunchIsExclusive == JobSpec => []OneThread
<1>1. IInv => OneThread
  BY DEF IInv
<1> QED
  BY <1>1, JobInvariant, PTL

\* A request or a thread takes one step of the promise or none.
LEMMA PromiseStep ==
  ASSUME IInv, [Next]_vars
  PROVE  [Promise!Next]_(Promise!promise)
<1> USE DEF IInv, JobTypeOK, Rows, NoJob
<1>1. ASSUME NEW q \in Connections, Reserve(q), job = NoJob
      PROVE  Promise!Record(conn[q].content) /\ conn[q].content \in Contents
  <2>1. conn[q] \in Requests
    BY <1>1 DEF Reserve, NoRequest
  <2>2. job' = [status |-> "queued", content |-> conn[q].content,
                lease |-> Nothing, expired |-> FALSE] /\ runs' = runs
    BY <1>1 DEF Reserve
  <2> QED
    BY <1>1, <2>1, <2>2 DEF Promise!Record, Requests
<1>2. ASSUME NEW q \in Connections, Refuse(q)
      PROVE  Promise!Fail
  BY <1>2 DEF Refuse, Promise!Fail
<1>3. ASSUME NEW q \in Connections, Launch(q)
      PROVE  UNCHANGED Promise!promise
  BY <1>3 DEF Launch, Leasable, Promise!promise
<1>4. ASSUME NEW q \in Connections, ReleaseLease(q)
      PROVE  UNCHANGED Promise!promise
  BY <1>4 DEF ReleaseLease, Promise!promise
<1>5. ASSUME NEW q \in Connections, Begin(q)
      PROVE  Promise!Begin
  <2>1. runs = 0 /\ job \in Rows
    BY <1>5 DEF Begin, NotBegun, NoThread
  <2>2. job.status \in {"queued", "failed"}
    BY <2>1 DEF Lifecycle
  <2> QED
    BY <1>5, <2>1, <2>2 DEF Begin, Promise!Begin
<1>6. ASSUME NEW q \in Connections, Finish(q, "completed")
      PROVE  Promise!Complete
  BY <1>6 DEF Finish, Lifecycle, Promise!Complete
<1>7. ASSUME NEW q \in Connections, Finish(q, "failed")
      PROVE  Promise!Fail
  BY <1>7 DEF Finish, Lifecycle, Promise!Fail
<1>8. ASSUME NEW q \in Connections, RecordFailure(q)
      PROVE  Promise!Fail \/ UNCHANGED Promise!promise
  BY <1>8 DEF RecordFailure, NoThread, Promise!Fail, Promise!promise
<1>9. ASSUME NEW q \in Connections, RequestStep(q) \/ (\E c \in Contents : Arrive(q, c))
      PROVE  [Promise!Next]_(Promise!promise)
  <2>1. ASSUME UNCHANGED <<job, runs>> PROVE UNCHANGED Promise!promise
    BY <2>1 DEF Promise!promise
  <2> QED
    BY <1>1, <1>2, <1>3, <1>4, <1>9, <2>1
    DEF RequestStep, Arrive, Reserve, Replay, Check, RequestFails, LaunchFails, StartThread,
        StartFails, ReleaseFails, Discard, Promise!Next
<1>10. ASSUME NEW q \in Connections, ThreadStep(q)
       PROVE  [Promise!Next]_(Promise!promise)
  <2>1. ASSUME UNCHANGED <<job, runs>> PROVE UNCHANGED Promise!promise
    BY <2>1 DEF Promise!promise
  <2> QED
    BY <1>5, <1>6, <1>7, <1>8, <1>10, <2>1
    DEF ThreadStep, BeginFails, Raise, End, Promise!Next
<1>11. CASE Mark
  BY <1>11 DEF Mark, Promise!Fail, Promise!Next
<1>12. CASE MarkRead \/ Expire \/ Crash \/ UNCHANGED vars
  BY <1>12 DEF MarkRead, Expire, Crash, vars, Promise!promise
<1> QED
  BY <1>9, <1>10, <1>11, <1>12 DEF Next

\* The job is recorded once, begun in the background at most once, over replays,
\* expired leases, failed starts, marks and restarts of the server, and completed
\* only by that run: requests, threads and the operator, whose writes of the row
\* have no guard, together keep what a submission promises.
THEOREM JobImplementsRunOnce == JobSpec => ImplementsRunOnce
<1>1. JobInit => Promise!Init
  BY DEF JobInit, NoJob, Promise!Init
<1>2. IInv /\ [Next]_vars => [Promise!Next]_(Promise!promise)
  BY PromiseStep
<1> QED
  BY <1>1, <1>2, JobInvariant, PTL DEF JobSpec, ImplementsRunOnce, Promise!Spec

\* What runs has the hash that the row recorded (the replay's comparison).
THEOREM RecordedIsRun == JobSpec => []RunsWhatWasRecorded
<1>1. IInv => RunsWhatWasRecorded
  BY DEF IInv, SameContent, RunsWhatWasRecorded
<1> QED
  BY <1>1, JobInvariant, PTL
=============================================================================
