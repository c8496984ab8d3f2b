# A TLA+ project for AgentOps MIS

AgentOps MIS is a control plane for software agents: `server.py` keeps a ledger of
tasks, runs, plans, approvals and evidence in SQLite and serves it over HTTP; workers
(`agentops_mis_cli/worker.py`) pull tasks from it and execute them with an adapter; a
browser shows read models of it; an optional relay publishes a private host. This
directory models the parts of it where the order of steps decides whether it is correct.

Paths below are relative to the repository; `PROJECT.json` maps every definition that
models code to its lines.

## 1. Inventory

| Component | State | Operations | Hard behaviour | Correct when |
|---|---|---|---|---|
| Approval wall (`server.py`, `agentops_mis_core/approval_wall.py`) | rows of `approvals`, `prepared_actions`, `prepared_action_execution_leases`; status of the run, task and tool call | prepare, approve/reject, claim-execution, fail-execution, resume | statements commit one by one and interleave; expiries; decisions repeated at any time; requests cut off half-way | an action is leased and consumed at most once, only after approval and evidence; failures are final |
| Confirmed provider calls (`server.py`, Notion export, OpenClaw/Dify/Hermes probes) | the prepared action, the provider | gate, call, resume | the call lies between test and consumption; answers get lost | no call without approval; no call after consumption or expiry |
| Codex workspace-write worker (`worker.py`, `codex_runtime.py`) | the worker's position, the managed worktree | claim, execute, verify diff, submit evidence, resume, report failure, reconcile | lost answers, worker crash, lapsed lease, shared directory | one writer per worktree; reports tell the truth; every attempt ends |
| Read-model cache (`agentops_mis_core/read_model_cache.py`) | entries with time stamps under a lock | cached, clear, prune | production outside the lock; commits and clears as separate steps | bounded, fresh within the TTL, reflects cleared writes |
| Task and run ledger (`server.py`) | `tasks.status`, `owner_agent_id`, `runs.status`, `agents.status` | claim_task, start_run, run_heartbeat, release, assign, set status | read-then-write without a guard, late heartbeats, handlers that stop half-way | a free task goes to one agent; the row names it; completed only after a run or by a person |
| Enrollment and sessions (`server.py`) | tokens, sessions | enroll, rotate, revoke, mint, authenticate | session and parent token are read one after the other; rotation is two steps; sessions outlive tokens | a credential admits only while it and its parent are open; revocation shuts the agent out |
| Workflow jobs (`server.py`, `workflow_jobs.py`) | job rows, launch lease, in-process set | submit, replay, launch, run, mark failed | background threads, failed starts, replays after an expired lease, restart of the server | one launch at a time, one background run, of the recorded content; a queued job is not lost |
| Agent plans and evidence manifests (`server.py`, `agent_plans.py`) | plans, approvals, manifests | submit, approve, verify, bind | content checks in atomic writes | a run is bound to an approved, unchanged plan |
| Audit chain (`server.py`) | hash-chained rows | append | one `INSERT ... SELECT` | no fork of the chain |
| Human authentication (`human_auth.py`) | accounts, sessions, invitations | bootstrap, login, invite, accept, revoke | attempt counters, single-use tokens, in `BEGIN IMMEDIATE` | a token is used once |
| Commander work packages, operator read models, worker fleet | rows of the ledger | plan, dispatch, synthesise; projections | dispatch goes through workflow jobs | as their parts |
| Relay activation and recovery (`relay_activation*.py`) | journal, installed files, services | plan, apply, recover, roll back | crash between journal records | recovery ends in the old or the new state |
| Relay control and restart (`relay_control.py`, `relay_restart.py`) | two config files, prepared transition, restart receipt with its sequence, outbox of outcomes | prepare, confirm, apply, flush, request, compensate | failed writes, crash between two file writes, retries | the receipt tells which files are on disk; a transition is done or undone |
| Host process (`host.py`) | the running stack, the lifecycle lock, the socket of the supervisor | start, recover, accept a restart, validate, go back, finalize | stops of the machine, failed launches, requests that come late | the live stack runs what is recorded; a restart is concluded |
| Outcome ingest (`server.py`) | `audit_logs`, the outbox directory | read receipt and events, commit, acknowledge | a receipt that changes between the two reads | one outcome per transaction, none lost |
| Relay tunnel and epochs (`relay_tunnel.py`, `relay_daemon.py`, `relay_epoch_store.py`) | persisted epoch, routes, streams | next_epoch, open, close | reconnects, fencing | an old epoch never serves a route |
| Relay administration, host logs | files, systemd units, rotation journal | install, rotate | operating-system effects, crash in rotation | no lost log line |
| Research lab, runtime connectors, CLI, web interface, scripts | - | - | little protocol state of their own | - |

How they interact: workers and the CLI call the server over HTTP; every handler opens its
own SQLite connection (`db()`), and handlers share nothing but the database, the
read-model cache and the set of running jobs. The wall writes the run and task rows that
the ledger's handlers also write. Every gateway request is authenticated before its handler
runs, with what the tokens and sessions said at that moment. A submitted workflow job runs in a
background thread that shares its row with replays of the request and with the operator. The Codex worker reaches the wall through claim, resume
and fail, and submits evidence through the gateway's evidence routes. A provider export
calls the wall's resume in its own thread. Writers clear the read-model cache after
their commit. For a relay transition the HTTP handler (or the command line) writes config
files and receipt under a file lock, asks the supervisor over a socket, and the supervisor,
another process, works on the same receipt; the server reads the outcome from a directory.

The fact that shapes the models: `db()` opens SQLite with `isolation_level=None`, so
outside `atomic_api_write` and `BEGIN IMMEDIATE` each statement is a transaction of its
own, and `ThreadingHTTPServer` may interleave handlers between any two statements.
`conn.commit()` at the end of a handler commits nothing that was not committed already.

## 2. Modules

| Module | Models | Builds on |
|---|---|---|
| `ExecuteOnce` | what the wall promises of an exact action (abstract) | - |
| `ApprovalWall` | the wall, one action per statement | `ExecuteOnce` by refinement |
| `ProviderExport` | an export that calls its provider between gate and resume | `ApprovalWall` |
| `OneAttempt` | what workspace writes promise of their execution: lease, worktree, evidence, resume (abstract) | - |
| `CodexWorkspaceWrite` | worker processes, their requests, the worktree | `ApprovalWall`; `OneAttempt` by refinement |
| `ReadModelCache` | the cache, its readers and writers | - |
| `HandOut` | what the pool promises of a task (abstract) | - |
| `TaskLedger` | one task, its runs, the handlers that write them | `HandOut` by refinement |
| `GatewayAccess` | tokens, sessions, authentication in front of the ledger | `TaskLedger` |
| `RunOnce` | what a keyed job promises (abstract) | - |
| `WorkflowJobs` | one keyed job, its replays, launch and thread | `RunOnce` by refinement |
| `SettleOnce` | what the relay transition promises, seen from the disk and the audit ledger (abstract) | - |
| `RelayRestart` | the relay transition over handler, supervisor and ingest | `SettleOnce` by refinement |
| `..._proofs` | theorems about the module of that name | the module, TLAPS; `ProviderExport_proofs` and `CodexWorkspaceWrite_proofs` on `ApprovalWall_proofs`, `GatewayAccess_proofs` on `TaskLedger_proofs` |
| `MC...` | the instances for TLC: symmetry sets and constant functions only | the module of that name |

### ApprovalWall

A thread is a server thread that serves one request after another. `pc[t]` names its next
statement, `req[t]` what it has read and still uses: whether the row was consumed
(`sawSpent`) and whether the approval was approved (`sawApproved`), and whether the caller
presents the id of the lease that was granted (`holder`; lease ids are random). Where a
handler first reads a row and tests it later, reading and testing are two actions and the
test uses the value read; where it reads and tests with nothing of interest in between
they are one. `Prepare` is one action because it runs in `atomic_api_write`. The clock is
read where the code reads it, in the action that tests the expiry (`GateOpen`,
`BeginApprove`, `LeaseOverdue`), not where the row was read.

Correspondence: `Decide` is `decide_approval` (the prepared-action branch, with the
expiry refusal `ExpireApproval`, `ExpireAction`), `Claim` is
`agent_gateway_claim_prepared_action_execution`, `FailLease` and `Close` are
`agent_gateway_fail_prepared_action_execution`, `Close` is also what claim and resume do
with a lapsed lease (they stop after the task; a failure report goes on to the tool call),
`Resume` is `agent_gateway_resume_prepared_action`. `CutOff` is a handler that stops
between two statements, because the process dies or a statement raises after the busy
timeout. `RecordEvidence` stands for the tool, evaluation, artifact, audit and manifest
rows that bind the lease; the verification is one flag and, as in
`verify_plan_evidence_manifest_row`, the lease is read again.

Left out: the idle status of agents, audit and runtime-event rows, texts and ids; the hash
of an action, which no statement of the server ever changes; the gates of customer
delivery, agent plans and Commander synthesis in `decide_approval`, which concern other
approvals. Each action has a run, task and tool call of its own. Run and task rows are
also written by the ledger's handlers, which this module does not contain: `FailureBlocks`
speaks of the wall's handlers only.

### ProviderExport

`export[t]` is the export a thread is running, `effects[a]` the pages the provider has
created. The stages are the reads of `notion_export_prepared_action_resume_gate` (row, then
approval), the post, and the resume, in which the thread becomes a wall thread at
`resume_row`. The post either creates a page and answers, creates one and loses the
answer, or fails; both failures record an event and leave the action as it was.

### CodexWorkspaceWrite

A worker is one process run of `resume_codex_workspace_write`. A POST occupies a server
thread (`conn[w]`); the worker may give up waiting at any moment, after which the thread
goes on by itself, and it may be lost before it arrives. The worktree of an action is
absent, open, or holds the verified diff. The closure after an exception reads the row,
then the lease (one GET, two statements), then the run (another GET), each possibly failing.
The authorisation checks before the claim are one action: of what they read only the
decision and the status of the action matter to the properties. To `OneAttempt` a worker is
at work from the moment its lease is inserted, when it does not know it yet, until it reports,
rolls back or stops.

### ReadModelCache

A payload is the version of the ledger it was produced from. `cached` is four steps:
the time is read when the request begins, look-up (lock), production (no lock), pruning and storing
(lock). The many SELECTs of a producer are one read; a mixed payload is as old as its
oldest part. `Commit` and `Clear` are the two steps of a writer. Of the key only
identity matters. Pruning picks any of the oldest entries among equals, where the code
takes the first in dictionary order. Two history fields travel with a payload: `floor`, what had
been cleared when its request came, and `missed`, the latest clear that overtook it between its
production and its storing; an entry keeps the `missed` of the payload it holds, so a hit hands it on.

### TaskLedger

`request[a]` is the gateway request of agent `a` in progress, with the run and status it will
write; an agent serves itself one request at a time, other agents and the operator run in
between. Each action is one statement: `Claim` is the UPDATE with the status in its WHERE,
`StartRead`, `StartBinding`, `StartUpsert`, `StartTask` are `agent_gateway_start_run` (the
gates on plan and evidence are part of `StartRead`, which only says what passes them),
`BeatRead`, `BeatRun`, `BeatTask` are `agent_gateway_run_heartbeat`, `Release...` is
`release_worker_task` run by run, `PatchStatus` and `PatchAssign` are the two PATCH routes.
`Stop` cuts every handler off between two statements. `claimants` and `completers` are
history: who was told that the task is its own since it was last free, and which runs (or
the person) ever recorded completion. `HandOut` sees whether the task can be claimed, whose it
is and who was told; its `Withdraw` and `Adopt` are what the unguarded writes of a start and a
heartbeat may do to a task that nobody was told of.

### GatewayAccess

`door[a]` is the authentication of the agent's request: after the session is read it waits at
`parent`, and at `in` the handler begins. `open` records whether the credential was open,
parent token included, in the one moment the request came; it is history and no guard reads
it. A refusal writes `expired` or `revoked` without a test, one statement later, and an
operator's order may run in between; `Refused` is a refusal that writes nothing. `order[p]` is
a request of the operator: revocation lists the rows, updates them by a second selection and
then cascades token by token; rotation tests, revokes and creates in three statements.
`Enter` is a handler of `TaskLedger` that starts, always as the agent of the credential. Expiry
(`Lapse`) may fall between any two steps. Ids are random, so the agent of a token and the
parent of a session are constants of the id.

### WorkflowJobs

`conn[q]` is the submit request of a connection, `thread[q]` the background thread it
started. Look-up and reservation are two statements (`INSERT OR IGNORE` decides between two first
requests); the launch, which tests the registry and takes the lease under the process-wide
lock, is one action. `Expire` is the age of the lease that lets a replay launch again, `StartFails` and
the failing statements spend `MaxFaults`, `Crash` empties the registry and all threads. The
content of a request stands for its hash. `RunOnce` sees the recorded content, the status of the
row and how often the job was begun; its `Fail` has no guard because the code's has none.

### RelayRestart

`at[p]` is the next step of an owner's handler or of the Host process, `ctx[p]` the receipt it
believes in. `Advance` is one durable write of the receipt, guarded by sequence and revision, and
`WritePair` the two atomic file replacements with the undo when the second fails; any such
write may fail with or without its effect (`MaxFaults`). The labels in `Locked` are those
at which a process holds the lifecycle lock; waiting for it is waiting for a step to such a label.
`Crash` stops every process and frees the lock; what is on disk stays. The ingest reads the
receipt and then the directory, commits the events that are final, and only then
deletes them. To `SettleOnce` a transaction is open while its receipt is neither final nor
absent, its verdict is the state of a final receipt, and the two files are shown only while
the receipt promises something of them.

## 3. Runs

| Run | Question | Bounds |
|---|---|---|
| `wall` | do two concurrent requests of any kind keep the wall's eight properties, the refinement of `ExecuteOnce` among them? | 1 workspace-write action, 2 threads, any number of requests in sequence |
| `provider_export` | is a provider called only when approved, and never again when drained? | 1 action, 2 threads, 2 effects (`MaxEffects`) |
| `provider_export_once` | (violated) is it called at most once? | same |
| `codex` | one attempt per action (`OneAttempt`), truthful reports | 1 action, 2 workers, 2 threads, 2 decisions (`MaxDecisions`) |
| `codex_live` | types, and is an answer awaited by exactly the worker that waits? do attempts end, are leases settled? | 1 worker, 2 threads, 1 decision |
| `codex_retained` | (violated) is the diff of a consumed action kept? | same |
| `read_cache` | size, freshness, visibility of writes | 3 keys, 2 readers, TTL 2, 1 item, clock to 3 (`MaxTime`), 2 commits (`MaxVersion`) |
| `read_cache_immediate` | (violated) does a read after a clear see the write? | 1 key |
| `task_ledger` | one claimant; the task handed out as `HandOut` says; completion by a run or a person; admission only on an open credential; revocation shuts out | `GatewayAccess`: 2 agents who may both work on the task, 1 run id, 3 tokens (two of one agent), 1 session, 1 operator connection, 3 requests, orders and expiries in all (`MaxRequests`) |
| `workflow_jobs` | one launch, one background run (`RunOnce`), of the recorded content; a queued job is launched | 3 connections, 2 contents, 2 faults, 1 restart |
| `relay_restart` | receipt and files agree, live stack and record agree, outcomes are neither lost nor doubled, events not dropped; each transaction settled once (`SettleOnce`) | 1 owner, 2 transactions, outbox of 1, 2 faults, 1 stop |
| `relay_restart_live` | is a restart concluded? | 2 owners, 1 transaction, 1 fault, 1 stop |

Why these bounds suffice. Handlers of different actions touch different rows, so one
action carries every interaction. Two threads give every pair of handlers in every
interleaving, and because requests are unlimited, every history that leads up to such a
pair; a third concurrent request could only matter to a property that needs three handlers
half-way at once, and the theorems of section 5 cover any number. Two workers are the
smallest number that can collide; one re-decision more than the first approval is enough to
have an action approved, failed and approved again. In `provider_export` a second effect
is the repetition the properties are about. In `read_cache` one item and three keys force
pruning with an insertion over the limit, and a clock to 3 with TTL 2 lets entries live and expire;
two commits are the fewest whose clears can come out of order.
In `task_ledger` three events are a claim
between a session's minting and its token's revocation, a start and an end of a run against an
operator's release, or two claims with a revocation; its six properties are theorems
(section 5) for any number of agents, runs, credentials and requests, so the run is there to find
mistakes in the model and to show that its mutants fail. In `workflow_jobs` the third
connection is a replay that comes while one request holds the lease and another waits. In
`relay_restart` the second transaction meets the receipt, the event and a late request of
the first, and two faults let the way back fail as well; the second owner, who competes for
the lock, is in `relay_restart_live`, and the theorems cover any number of both. An outbox of one
entry (`MaxOutbox`) is full as soon as the first outcome is not yet ingested, so both runs meet the
limit; a pass of the ingest over two events at once is then out of their reach, and is covered
by the theorems, which hold for every `MaxOutbox`.

The refinements imply invariants that are therefore not checked beside them:
`ImplementsContract` implies `ConsumptionIsEarned`, `ImplementsOneAttempt` implies `OneWriter`,
`ImplementsHandOut` implies `ClaimantOwnsTheTask`, and `AccessTypeOK` contains `LedgerTypeOK`. They
stay in the modules, where the proofs are made of them, and are theorems.

`codex*` and `task_ledger` switch the deadlock check off: there decisions and workers, or
requests and orders, are finite and the system may really stop. Elsewhere it is on.

What the violated runs show:

- `provider_export_once`: two confirmations of one approved export both pass the gate before
  either consumes the action, and two pages are created; the second resume is then
  refused. `docs/HARNESS_ENGINEERING_EXECUTION_CONSTRAINTS.md:181` says "execute once".
  `DrainedStaysDrained` is what does hold.
- `codex_retained`: the worker loses the answer of its resume, finds the row not yet
  consumed and the lease executing, and rolls the worktree back, while the server thread
  goes on and consumes the action. `docs/CODEX_WORKSPACE_WRITE_ACCEPTANCE.md:7-8` says a
  successful diff is retained. `SuccessIsTrue` is what does hold: that worker does not
  report success.
- `read_cache_immediate`: a payload produced before a write is stored after its clear and
  served for up to a TTL. `docs/project/BACKLOG.md:37` says "immediately". `ClearIsSeen`
  says that this race, of the very payload that is served, is the only way, and `FreshWithinTtl`
  bounds its effect.

## 4. Fairness

Safety is checked without fairness wherever a run has no liveness property. Three
specifications assume some.

`codex_live`: `WF(ServerStep(t))` for every server thread: a handler
is straight-line code over SQLite statements with a busy timeout, and ends.
`SF(WorkerStep(w))` for every worker: a worker is a sequential process that runs on, its
HTTP requests and Codex run have timeouts, and a request waits only until a server
thread takes it; weak fairness would not do because the thread it waits for may be taken by
others again and again.

`workflow_jobs`: weak fairness of every request and background thread, as above, and of the
clock that ages a lease (`Expire`). `SF(Retry)`: the client repeats the request under the same
key when it has no answer, which `docs/API_SPEC.md` asks of it ("must retry with the same
key"); it is strong because retries compete for connections. `QueuedIsLaunched` excuses the
wedged registry (section 7).

`relay_restart_live`: weak fairness of the Host process and of an owner who holds the lock,
straight-line code over files whose waits have timeouts; and `SF(managed /\ Start)`: launchd
starts a managed Host again after every stop, because the installed agent has `KeepAlive`
(`src/agentops_mis_cli/host.py:3342`). Nothing is assumed of an owner outside the lock, of the
machine, or of an unmanaged Host.

Nothing is assumed of humans, clocks, crashes and lost
messages. `LeaseIsSettled` therefore excuses leases whose worker stopped or lost sight of the ledger,
or whose request was cut off midway (`Midway`: between the update of the lease or of the action
and the updates that go with it): the code has no sweeper, and only a later claim or resume
closes them.

## 5. Proofs

Every property that a run of section 3 checks is a theorem for every value of the constants,
except the four liveness properties. The five abstract specifications are where the theorems
end: each says in a page what its component promises, and the refinement says that every
statement of every handler, every crash and every lost answer is one of its steps or none.

| Theorem | Says |
|---|---|
| `WallImplementsContract` | the wall implements `ExecuteOnce` |
| `WorkersKeepTheContract`, `ExportsKeepTheContract` | it still does with workers, or with exports, beside it |
| `WorkersImplementOneAttempt` | workers, server and humans implement `OneAttempt` |
| `PoolImplementsHandOut`, `AccessHandsOut` | the ledger implements `HandOut`, alone and behind the doors |
| `JobImplementsRunOnce` | row, launches and thread of a keyed job implement `RunOnce` |
| `RelayImplementsSettleOnce` | receipt, files, outbox and ledger implement `SettleOnce` |

`ApprovalWall_proofs` proves, for any sets of actions and threads and from
`ConstantsAssumption` alone, everything the run `wall` checks, among it the refinement of
`ExecuteOnce`.

The argument. A handler tests several rows in turn and acts at the end, when other
handlers may have changed them. What saves it is that nothing it has tested is ever taken
back (`Kept`): a lease row never disappears, evidence stays, a recorded approval stays in
the history although the decision may change. So `IInv` holds three parts: the types;
`ThreadsEntitled`, what each thread may rely on at the statement it is about to run
(`Entitled`); and `Rows`, that histories and rows agree (a grant for a lease, a spend for
a consumption), with the two safety invariants. `AtMostOnce` alone is not inductive: it
needs that a lease never returns to `"none"` and that the counts equal the rows.
`FailureBlocks` needs a further invariant, `FailurePropagates`: for every failed lease
the run is blocked or a closing handler is still on its way to block it. The action
properties use lemmas on which statements write which row (`Writers`) and on the moves of
one thread (`OneThreadMoves`).

`ProviderExport_proofs`. A step of an export is a step of the wall or leaves it alone
(`ExportObeysWall`: `ProviderSpec => Spec`), so the wall's invariant is a fact here and is
not proved again. `PastExportGate` says what an export relies on between gate and post; with it
`EffectsAreAuthorised` and `DrainedStaysDrained` follow.

`CodexWorkspaceWrite_proofs`. `CodexSpec => Spec` in the same way, with the wall's types and `Kept`
lemmas. `CodexInv` says what an answer is worth (an answer of the server is true of
rows that never go back), which request belongs to which worker, that the holder of the lease is
alone in the worktree, which worker sent for a resume, and what a diff, a success and a failure
rest on. `OneWriter`, `SuccessIsTrue` and `FailureIsFinal` are consequences. The refinement of
`OneAttempt` needs one part more, `Ordered`: a worker runs in the worktree it has just opened and
sends its resume once, after its evidence. Then a step belongs to one worker, and the others are at
work as before because nothing but the insert of a lease puts anybody to work (`OthersAtWork`); or
it belongs to no worker, and then the one insert there may be puts at most one to work, since no
two wait for the same thread (`PairsGranted`). That an action is asked for once is `Alone` again: a
worker that has asked was granted, and no second worker ever is.

`ReadModelCache_proofs`. What is said of answers is first said of payloads on their way: of the
readers who are about to store and of the entries. `IInv` is the types, the size, the age of
every payload against the time of its reader, and that a payload on its way is no older than what is
cleared or carries the clear that overtook it (`Current`). A clear empties the cache and notes itself
on every reader it overtakes (`ClearNotes`), a production is up to date, and a store and a hit hand
payload and note on together; so an answer that misses a cleared write has missed just its clear.

`TaskLedger_proofs`. `IInv` adds to the four invariants that a heartbeat writes to a run that
exists (`BeatingRow`), that only the end of a run goes on to the task and a completion among
them is in the history (`EndingRun`), and that every claimant is the owner (`Claimed`), which is
stronger than one claimant at a time and is what every statement keeps.

`HandOut` is proved in three lemmas, one for each kind of writer. A claim is guarded, so it takes,
tells again or is not seen. The unguarded writes of runs need `Claimed`, and `EndingRun` for what a
heartbeat may write: neither they nor a start ever make a task claimable, and a start sets the
owner only where there is none, which a claimed task has. All else is the operator's.

`GatewayAccess_proofs`. `AccessSpec => LedgerSpec`, so the theorems of `TaskLedger_proofs` hold
behind the door. Admission is not inductive as it stands: it needs `ClosedStaysClosed` (only an
INSERT makes a token active, so a token once closed never opens), `Minted` (a session has a
parent that was issued) and `Tested` (whoever waits for the second read with a credential that
was not open waits for a parent that is not open). `ShutStaysShut` follows with one lemma
each for tokens, orders, doors and requests. `AccessHandsOut` is the refinement of the ledger
composed with that of `HandOut`.

`WorkflowJobs_proofs`. `IInv` is the types, `OneThread`, that a granted launch was answered to
the request that holds the lease (`AnsweredAtStart`), that whoever may launch carries the
recorded content (`SameContent`), and that nothing has begun under a queued row (`NotBegun`). The
refinement of `RunOnce` needs to know in addition what a row tells of the run although three
writers overwrite it without a guard (`Lifecycle`): only the one thread writes `running` and
`completed`, so a row that says either has been begun, and while the thread runs the others can
only have made it `failed`.

`RelayRestart_proofs` proves the seven safety properties of `relay_restart` for any number of
owners, transactions, outbox entries, failed writes and stops, in four layers. `TInv`: the
types, and that the lifecycle lock belongs to the one process at a locked label; every later
layer uses it to say that the others stand still outside. `FInv`: `ReceiptTellsTheFiles` needs
to know where each owner and the Host stand and which receipt they hold (`OwnerAt`, `HostAt`),
that a half-written pair belongs to the lock holder under a receipt that promises nothing
(`Writing`), and that a sequence number has one owner, so that identity and revision of a
receipt say who may move it (`Numbered`, `Queue`). `SInv`: while the Host is outside the lock
the stack runs the files the receipt stands for, the originals until the supervisor has
replaced it (`Serving`). `KInv`: what lies in the outbox is the receipt's outcome, an older
healthy one of the same transaction, or that of a concluded one (`Outcomes`); and since the
ingest takes no lock, what its pass has read may be behind the receipt in three ways only,
the receipt as it was, a concluded one, or a healthy one that the Host is going back on and
cannot conclude before the stack, and the pass with it, is terminated (`Passing`).
`OutcomeNotLost` and `OneOutcome` are consequences.

The refinement of `SettleOnce` does not go through the steps one by one. `DiskStep` says what any
of them can do to the disk and to the ledger: leave receipt and files alone, or write the files
under a receipt that promises nothing (`Still`); move the receipt along the table of transitions
(`Moves`); open a transaction; conclude one; or tell of events. `EveryDiskStep` sorts the steps
of owners, Host and the rest into these five and takes from the four layers what each kind says
more: a new receipt comes on files that agree, under a number above every number told or concluded,
and the ledger learns only what is final or concluded. Then one lemma each shows that the kind is a
step of the promise (`StillUnseen`, `MovesSettle`, `OpensOne`, `ClosesOne`, `TellsFinal`). `NoEventDropped` rests on the fact that the outbox holds one event of a transaction at
most (`PutKeeps`): a write replaces only the event of an earlier revision, and an ingest removes
only what it has committed.

Every theorem rests on the ASSUME of its modules only, which TLC evaluates in the runs.
Model-checked only: the liveness properties `AttemptsEnd`, `LeaseIsSettled`, `QueuedIsLaunched`
and `RestartConcludes`; liveness under fairness and ENABLED are beyond the prover.

## 6. Plan

Written: the modules of section 2. What would come next, in this order:

1. `RelayEpoch`: epoch store with crashes, tunnels that reconnect, fencing of old epochs;
   abstract specification: at most one live epoch per route.
2. `RelayActivation`: journal, apply, crash, recover; abstract specification: old or new.
3. `HostLogRotation`: rotation journal with crashes.
4. `HumanAuth` and the plan-to-run binding.

## 7. Not modelled, and not guaranteed

Whole components: presentation, command-line formatting, scripts and tests, static capability
tables, the research lab have no protocol state whose order matters. The audit chain is one
statement. Human authentication works in transactions. Relay installation is mostly effects of
the operating system. Tunnels and epochs, relay activation and log rotation are in the plan.
`PROJECT.json` lists every component with its status.

Inside the modelled components:

- `TaskLedger`: task creation, rows of agents, the plan and evidence gates of a start, the
  importers that also upsert runs. The code does not prevent, and no property says, that two
  agents run the same task (a start that read the task before another's claim still inserts its
  run), that a late heartbeat overwrites a released, blocked or completed run, that a run started
  between a release's list and its last UPDATE keeps running on a task that is planned
  again, or that two starts race for one run id and the last upsert names the agent.
- `GatewayAccess`: the global API key and the modes without a token, scopes, workspace bindings,
  issuance of an approved request, use and heartbeat columns. An agent has one request at a
  time. Not guaranteed: two rotations of one token at once leave two active tokens; a rotation cut off
  after its first statement leaves none; a rotation does not close the sessions of the old
  token (the test of the parent at each use does); a request once admitted runs to its end
  although its credential is revoked meanwhile.
- `WorkflowJobs`: jobs without a key, template and Commander jobs, `recover_workflow_job`,
  which makes other jobs, and the contents of results. Not guaranteed: the terminal writes of
  thread, operator and refusal have no guard and overwrite each other (`RunOnce` says how far:
  a job may be declared failed at any time, and a job declared failed may still begin, complete,
  or complete again); a refused submission
  runs its workflow in the foreground to describe the refusal, and may then execute if readiness
  returned meanwhile; when a start fails and the statement that releases the lease fails too, the
  registry keeps the job until the server restarts (`Wedged`).
- `RelayRestart`: child processes that survive their supervisor or refuse to end, edits of the
  config files by hand, expiry and references of a prepared transition, quarantine of
  malformed events, repair of a failed rollback by the operator, the revision limit.
- `ApprovalWall` and its users: as said in section 2.

## 8. Running

    tlc -workers 2 -config ApprovalWall.cfg MCApprovalWall.tla
    tlapm ApprovalWall_proofs.tla

    tlc -workers 2 -config GatewayAccess.cfg MCGatewayAccess.tla

and likewise for the other configurations and proof modules.
