---------------------------- MODULE RelayRestart ----------------------------
(***************************************************************************)
(* The transaction that switches a private Host's Relay publication on or  *)
(* off: src/agentops_mis_cli/relay_control.py changes two config files     *)
(* under a durable restart receipt (relay_restart.py), the HTTP server or  *)
(* the command line (server.py, host.py) asks for a restart, the launchd   *)
(* supervisor (host.py) replaces the running stack or goes back to the     *)
(* original files, and the server's ingest loop projects each outcome from *)
(* the outbox directory into the audit ledger.                             *)
(*                                                                         *)
(* Every durable write may fail, with or without its effect on disk, and   *)
(* the machine may stop between any two of them.                           *)
(***************************************************************************)
EXTENDS Naturals, FiniteSets

CONSTANTS Owners,          \* HTTP handlers and command lines of the workspace owner
          Host,            \* the process that starts and supervises the stack
          Free,            \* nobody holds the lifecycle lock
          MaxTransitions,  \* MAX_TRANSACTION_SEQUENCE
          MaxOutbox,       \* MAX_AUDIT_OUTBOX_ENTRIES
          MaxFaults,       \* bound: writes and launches that fail
          MaxCrashes       \* bound: stops of the machine

ASSUME RelayAssumption ==
  /\ Host \notin Owners /\ Free \notin Owners \cup {Host}
  /\ MaxTransitions \in Nat \ {0} /\ MaxOutbox \in Nat \ {0}
  /\ MaxFaults \in Nat /\ MaxCrashes \in Nat

VARIABLES
  receipt, sequence, transition,  \* the restart receipt, its sequence file, the prepared transition
  active, hostConfig, pairAt,     \* the two config files, and how far the lock holder's pair write is
  outbox, ledger, concluded,      \* outcome events on disk, in audit_logs, and of removed receipts (history)
  running, managed,               \* the configs the live stack was started with; the service is a LaunchAgent
  requests, lock,                 \* restart requests queued at the supervisor's socket; the lifecycle lock
  at, ctx,                        \* where each process is, and the receipt it believes in
  ingest,                         \* the server's ingest pass
  faults, crashes

disk == <<receipt, sequence, transition, active, hostConfig, outbox, ledger, concluded>>
vars == <<disk, pairAt, running, managed, requests, lock, at, ctx, ingest, faults, crashes>>

-----------------------------------------------------------------------------
Procs  == Owners \cup {Host}
Modes  == {"off", "on"}
Flip(m) == IF m = "on" THEN "off" ELSE "on"
Pairs  == Modes \X Modes
Down   == <<"down", "down">>

\* _TRANSITIONS: the states a receipt may move to from each state.
Transitions ==
  [ none                    |-> {},
    config_applied          |-> {"response_flushed", "restoring_config"},
    response_flushed        |-> {"restart_requested", "restoring_config", "manual_restart_required"},
    restart_requested       |-> {"validating_new_host", "restoring_config", "manual_restart_required"},
    validating_new_host     |-> {"healthy", "restoring_config", "manual_restart_required"},
    restoring_config        |-> {"rolled_back", "rollback_failed"},
    healthy                 |-> {"restoring_config"},
    rolled_back             |-> {},
    rollback_failed         |-> {},
    manual_restart_required |-> {"validating_new_host", "restoring_config"} ]

States         == DOMAIN Transitions
Terminal       == {"healthy", "rolled_back", "rollback_failed"}
TargetRecovery == {"response_flushed", "restart_requested", "validating_new_host",
                   "manual_restart_required", "healthy"}

NoReceipt    == [seq |-> 0, rev |-> 0, state |-> "none", target |-> "off"]
NoTransition == [state |-> "none", target |-> "off"]
NoCtx        == [seq |-> 0, rev |-> 0, target |-> "off", mode |-> "none"]
NoIngest     == [pc |-> "idle", snap |-> NoReceipt, batch |-> {}]
EventOf(r)   == [seq |-> r.seq, rev |-> r.rev, state |-> r.state]

-----------------------------------------------------------------------------
(* Control: the labels at which a process holds the lifecycle lock. A step *)
(* to such a label from outside waits for the lock; a step out frees it.   *)

Locked == {"receipt", "allocate", "create", "apply", "consume", "undo", "undo_pair",
           "undo_done", "cli_flush", "cli_manual", "comp_pair", "comp_done", "comp_bad",
           "comp_event",
           "recover", "recover_pair", "recover_event", "gate", "launch", "start_failed",
           "start_restore", "broken", "finish", "finish_restore", "host_event", "finalize",
           "stop_old", "revalidate", "relaunch", "check", "unwind", "unwind_pair", "reload", "stop"}

Unlocked == {"idle", "respond", "sent", "request", "await", "manual", "compensate",
             "unsent", "down", "serving"}

\* Mutant: a way out that does not release the lock.
GoKeepsLock(p, l) ==
  /\ lock \in {p, Free} \/ l \notin Locked
  /\ at' = [at EXCEPT ![p] = l]
  /\ lock' = IF l \in Locked THEN p ELSE lock

Go(p, l) ==
  /\ lock \in {p, Free} \/ l \notin Locked
  /\ at' = [at EXCEPT ![p] = l]
  /\ lock' = IF l \in Locked THEN p ELSE IF lock = p THEN Free ELSE lock

NoFault == UNCHANGED faults
Fault   == faults < MaxFaults /\ faults' = faults + 1

\* The stack is terminated: its HTTP handlers, its ingest pass and the
\* connections they hold die with it, and their file locks are released.
KillStack(l) ==
  LET dead == {o \in Owners : ctx[o].mode = "http"}
      left == {o \in Owners \ dead : lock = o}
  IN /\ running' = Down
     /\ at' = [p \in Procs |-> IF p = Host THEN l ELSE IF p \in dead THEN "idle" ELSE at[p]]
     /\ lock' = IF l \in Locked THEN Host ELSE IF left # {} THEN lock ELSE Free
     /\ pairAt' = IF left # {} THEN pairAt ELSE "active"
     /\ requests' = {}
     /\ ingest' = NoIngest

-----------------------------------------------------------------------------
(* The operations of relay_restart.py, each under the receipt's own lock.  *)

Matches(p, rev) == receipt.seq = ctx[p].seq /\ receipt.rev = rev

\* transition_restart_receipt: identity, transition table, one revision more.
Advance(p, rev, s, ok, bad) ==
  LET new == IF receipt.state = s THEN receipt
             ELSE [receipt EXCEPT !.state = s, !.rev = @ + 1]
      legal == Matches(p, rev) /\ s \in Transitions[receipt.state] \cup {receipt.state}
  IN /\ \/ /\ legal /\ NoFault
           /\ receipt' = new
           /\ ctx' = [ctx EXCEPT ![p].rev = new.rev]
           /\ Go(p, ok)
        \/ /\ legal /\ Fault
           /\ receipt' \in {receipt, new}
           /\ UNCHANGED ctx
           /\ Go(p, bad)
        \/ /\ ~legal /\ NoFault
           /\ UNCHANGED <<receipt, ctx>>
           /\ Go(p, bad)
     /\ UNCHANGED <<sequence, transition, active, hostConfig, pairAt, outbox, ledger,
                    concluded, running, managed, requests, ingest, crashes>>

\* _write_config_pair: both files or, after a failed write, both back.
WritePair(p, dest, ok, bad) ==
  /\ \/ /\ pairAt = "active" /\ NoFault
        /\ IF active = dest /\ hostConfig = dest
           THEN Go(p, ok) /\ UNCHANGED <<active, pairAt>>
           ELSE Go(p, at[p]) /\ active' = dest /\ pairAt' = "host"
        /\ UNCHANGED hostConfig
     \/ /\ pairAt = "host" /\ NoFault
        /\ hostConfig' = dest /\ pairAt' = "active"
        /\ Go(p, ok) /\ UNCHANGED active
     \/ /\ pairAt = "undo_active" /\ NoFault
        /\ active' = Flip(dest) /\ pairAt' = "undo_host"
        /\ Go(p, at[p]) /\ UNCHANGED hostConfig
     \/ /\ pairAt = "undo_host" /\ NoFault
        /\ hostConfig' = Flip(dest) /\ pairAt' = "active"
        /\ Go(p, bad) /\ UNCHANGED active
     \/ /\ Fault
        /\ \/ /\ pairAt = "active" /\ (active # dest \/ hostConfig # dest)
              /\ active' \in {active, dest} /\ UNCHANGED hostConfig
           \/ /\ pairAt = "host"
              /\ hostConfig' \in {hostConfig, dest} /\ UNCHANGED active
        /\ pairAt' = "undo_active" /\ Go(p, at[p])
     \/ /\ Fault
        /\ \/ /\ pairAt = "undo_active"
              /\ active' \in {active, Flip(dest)} /\ UNCHANGED hostConfig
           \/ /\ pairAt = "undo_host"
              /\ hostConfig' \in {hostConfig, Flip(dest)} /\ UNCHANGED active
        /\ pairAt' = "active" /\ Go(p, bad)
  /\ UNCHANGED <<receipt, sequence, transition, outbox, ledger, concluded, running, managed,
                 requests, ctx, ingest, crashes>>

\* write_restart_audit_event: what may be written over the event of the same
\* transaction, and the outbox afterwards.
OfTransaction(e) == {x \in outbox : x.seq = e.seq}

Writable(e) ==
  \/ OfTransaction(e) = {} /\ Cardinality(outbox) < MaxOutbox
  \/ e \in outbox
  \/ \E x \in OfTransaction(e) :
       x.state = "healthy" /\ e.state \in {"rolled_back", "rollback_failed"} /\ e.rev > x.rev

WriteEvent(e) ==
  \/ Writable(e) /\ NoFault /\ outbox' = (outbox \ OfTransaction(e)) \cup {e}

EventFails(e) ==
  \/ ~Writable(e) /\ NoFault /\ UNCHANGED outbox
  \/ /\ Writable(e) /\ Fault
     /\ outbox' \in {outbox, (outbox \ OfTransaction(e)) \cup {e}}

\* A receipt that is removed or replaced leaves its outcome to the outbox.
Conclude == concluded' = concluded \cup
              (IF receipt.state = "none" THEN {} ELSE {EventOf(receipt)})

-----------------------------------------------------------------------------
RelayInit ==
  /\ receipt = NoReceipt /\ sequence = 0 /\ transition = NoTransition
  /\ active = "off" /\ hostConfig = "off" /\ pairAt = "active"
  /\ outbox = {} /\ ledger = {} /\ concluded = {}
  /\ running = Down /\ managed \in BOOLEAN
  /\ requests = {} /\ lock = Free
  /\ at = [p \in Procs |-> IF p = Host THEN "down" ELSE "idle"]
  /\ ctx = [p \in Procs |-> NoCtx]
  /\ ingest = NoIngest
  /\ faults = 0 /\ crashes = 0

(* The owner: relay_control.py, called under the lifecycle lock. *)

\* prepare_relay_transition: a new plan replaces the last one.
Prepare(o) ==
  /\ at[o] = "idle" /\ lock = Free
  /\ active = hostConfig
  /\ transition' = [state |-> "prepared", target |-> Flip(active)]
  /\ UNCHANGED <<receipt, sequence, active, hostConfig, outbox, ledger, concluded, pairAt,
                 running, managed, requests, lock, at, ctx, ingest, faults, crashes>>

\* confirm_relay_transition and the checks of execute_confirmed_relay_transition:
\* the material is what it was when the plan was prepared.
Confirm(o, how) ==
  /\ at[o] = "idle" /\ lock = Free
  /\ how = "http" => running # Down
  /\ transition.state = "prepared"
  /\ active = Flip(transition.target) /\ hostConfig = active
  /\ transition' = [transition EXCEPT !.state = "confirmed"]
  /\ ctx' = [ctx EXCEPT ![o] = [NoCtx EXCEPT !.target = transition.target, !.mode = how]]
  /\ Go(o, "receipt")
  /\ UNCHANGED <<receipt, sequence, active, hostConfig, outbox, ledger, concluded, pairAt,
                 running, managed, requests, ingest, faults, crashes>>

\* A receipt in the way: finished and its outcome in the outbox, or the
\* transition stops (rollback_pending).
CheckReceipt(o) ==
  /\ at[o] = "receipt"
  /\ \/ /\ receipt.state = "none" /\ NoFault
        /\ Go(o, "allocate") /\ UNCHANGED outbox
     \/ /\ receipt.state \in {"healthy", "rolled_back"}
        /\ WriteEvent(EventOf(receipt)) /\ Go(o, "allocate")
     \/ /\ receipt.state \in {"healthy", "rolled_back"}
        /\ EventFails(EventOf(receipt)) /\ Go(o, "idle")
     \/ /\ receipt.state \notin {"none", "healthy", "rolled_back"} /\ NoFault
        /\ Go(o, "idle") /\ UNCHANGED outbox
  /\ UNCHANGED <<receipt, sequence, transition, active, hostConfig, ledger, concluded, pairAt,
                 running, managed, requests, ctx, ingest, crashes>>

\* Mutant: the number follows the receipt in the way, not the sequence file.
AllocateAfterReceipt(o) ==
  /\ at[o] = "allocate" /\ receipt.seq < MaxTransitions /\ NoFault
  /\ sequence' = receipt.seq + 1 /\ Go(o, "create")
  /\ UNCHANGED <<receipt, transition, active, hostConfig, outbox, ledger, concluded, pairAt,
                 running, managed, requests, ctx, ingest, crashes>>

\* _allocate_transaction_sequence.
Allocate(o) ==
  /\ at[o] = "allocate"
  /\ \/ /\ sequence < MaxTransitions /\ NoFault
        /\ sequence' = sequence + 1 /\ Go(o, "create")
     \/ /\ sequence < MaxTransitions /\ Fault
        /\ sequence' \in {sequence, sequence + 1} /\ Go(o, "idle")
     \/ /\ sequence = MaxTransitions /\ NoFault
        /\ Go(o, "idle") /\ UNCHANGED sequence
  /\ UNCHANGED <<receipt, transition, active, hostConfig, outbox, ledger, concluded, pairAt,
                 running, managed, requests, ctx, ingest, crashes>>

\* create_restart_receipt: the new receipt, over a finished one if there is one.
Create(o) ==
  LET new == [seq |-> sequence, rev |-> 1, state |-> "config_applied", target |-> ctx[o].target]
  IN /\ at[o] = "create"
     /\ \/ /\ NoFault /\ receipt' = new /\ Conclude
           /\ ctx' = [ctx EXCEPT ![o].seq = sequence, ![o].rev = 1]
           /\ Go(o, "apply")
        \/ /\ Fault /\ Go(o, "idle")
           /\ \/ receipt' = new /\ Conclude
              \/ UNCHANGED <<receipt, concluded>>
           /\ UNCHANGED ctx
     /\ UNCHANGED <<sequence, transition, active, hostConfig, outbox, ledger, pairAt, running,
                    managed, requests, ingest, crashes>>

Apply(o) == at[o] = "apply" /\ WritePair(o, ctx[o].target, "consume", "undo")

\* The plan is used up; an HTTP transition leaves the lock and answers.
Consume(o) ==
  /\ at[o] = "consume"
  /\ \/ /\ NoFault /\ transition' = NoTransition
        /\ Go(o, IF ctx[o].mode = "http" THEN "respond" ELSE "cli_flush")
     \/ /\ Fault /\ transition' \in {transition, NoTransition} /\ Go(o, "undo")
  /\ UNCHANGED <<receipt, sequence, active, hostConfig, outbox, ledger, concluded, pairAt,
                 running, managed, requests, ctx, ingest, crashes>>

\* The rollback of _execute_with_restart_receipt.
Undo(o)     == at[o] = "undo" /\ Advance(o, ctx[o].rev, "restoring_config", "undo_pair", "idle")
UndoPair(o) == at[o] = "undo_pair" /\ WritePair(o, Flip(ctx[o].target), "undo_done", "idle")
UndoDone(o) == at[o] = "undo_done" /\ Advance(o, ctx[o].rev, "rolled_back", "idle", "idle")

\* cmd_relay_transition: a command line asks for a manual restart.
CliFlush(o)  == at[o] = "cli_flush" /\ Advance(o, ctx[o].rev, "response_flushed", "cli_manual", "idle")
CliManual(o) == at[o] = "cli_manual" /\ Advance(o, ctx[o].rev, "manual_restart_required", "idle", "idle")

-----------------------------------------------------------------------------
(* The HTTP answer and what hangs on it: send_json, after_send, send_error. *)

\* The answer is sent, or it is not; or the audit row before it fails and
\* neither callback ever runs.
Respond(o) ==
  /\ at[o] = "respond"
  /\ \/ NoFault /\ Go(o, "sent")
     \/ Fault /\ \E l \in {"unsent", "idle"} : Go(o, l)
  /\ UNCHANGED <<disk, pairAt, running, managed, requests, ctx, ingest, crashes>>

Sent(o) ==
  /\ at[o] = "sent" /\ lock = Free
  /\ Advance(o, ctx[o].rev, "response_flushed", IF managed THEN "request" ELSE "manual", "compensate")

\* request_managed_host_restart: connect, send, wait for one byte.
Request(o) ==
  /\ at[o] = "request"
  /\ \/ /\ NoFault /\ Go(o, "await")
        /\ requests' = requests \cup {[owner |-> o, seq |-> ctx[o].seq, rev |-> ctx[o].rev,
                                       target |-> ctx[o].target]}
     \/ Fault /\ Go(o, "manual") /\ UNCHANGED requests
  /\ UNCHANGED <<disk, pairAt, running, managed, ctx, ingest, crashes>>

\* No answer in time, although the request may still be queued.
GiveUp(o) ==
  /\ at[o] = "await" /\ Go(o, "manual")
  /\ UNCHANGED <<disk, pairAt, running, managed, requests, ctx, ingest, faults, crashes>>

Manual(o) ==
  /\ at[o] = "manual" /\ lock = Free
  /\ Advance(o, ctx[o].rev, "manual_restart_required", "idle", "compensate")

\* private_host_relay_compensate_after_send: back to the original files, unless
\* the restart has already been taken over.
Compensate(o) ==
  /\ at[o] = "compensate" /\ lock = Free
  /\ IF receipt.state \in {"config_applied", "response_flushed"}
     THEN Advance(o, receipt.rev, "restoring_config", "comp_pair", "idle")
     ELSE /\ Go(o, "idle") /\ NoFault
          /\ UNCHANGED <<disk, pairAt, running, managed, requests, ctx, ingest, crashes>>

\* private_host_relay_send_error: the same, when the answer could not be sent.
Unsent(o) ==
  /\ at[o] = "unsent" /\ lock = Free
  /\ Advance(o, ctx[o].rev, "restoring_config", "comp_pair", "idle")

\* Mutant: rolled_back is recorded although the originals could not be written.
CompPairTrusting(o) ==
  at[o] = "comp_pair" /\ WritePair(o, Flip(ctx[o].target), "comp_done", "comp_done")

CompPair(o) == at[o] = "comp_pair" /\ WritePair(o, Flip(ctx[o].target), "comp_done", "comp_bad")
CompDone(o) == at[o] = "comp_done" /\ Advance(o, ctx[o].rev, "rolled_back", "comp_event", "idle")
CompBad(o)  == at[o] = "comp_bad" /\ Advance(o, ctx[o].rev, "rollback_failed", "comp_event", "idle")

\* The event of private_host_relay_receipt_transition; a failure is left to the ingest.
CompEvent(o) ==
  /\ at[o] = "comp_event"
  /\ WriteEvent(EventOf(receipt)) \/ EventFails(EventOf(receipt))
  /\ Go(o, "idle")
  /\ UNCHANGED <<receipt, sequence, transition, active, hostConfig, ledger, concluded, pairAt,
                 running, managed, requests, ctx, ingest, crashes>>

-----------------------------------------------------------------------------
(* The Host process: start, recovery of a receipt left behind, supervision. *)

Mode(m) == [ctx EXCEPT ![Host].mode = m]

\* cmd_start, by launchd or by hand.
Start ==
  /\ at[Host] = "down" /\ running = Down
  /\ Go(Host, "recover")
  /\ UNCHANGED <<disk, pairAt, running, managed, requests, ctx, ingest, faults, crashes>>

\* _prepare_restart_receipt_recovery: which files the receipt's state calls for.
Recover ==
  LET know(m) == ctx' = [ctx EXCEPT ![Host] =
                   [seq |-> receipt.seq, rev |-> receipt.rev, target |-> receipt.target, mode |-> m]]
  IN /\ at[Host] = "recover"
     /\ \/ receipt.state = "none" /\ know("none") /\ Go(Host, "gate") /\ UNCHANGED receipt /\ NoFault
        \/ receipt.state = "rollback_failed" /\ know("none") /\ Go(Host, "host_event")
             /\ UNCHANGED receipt /\ NoFault
        \/ receipt.state = "config_applied" /\ NoFault
             /\ receipt' = [receipt EXCEPT !.state = "restoring_config", !.rev = @ + 1]
             /\ ctx' = [ctx EXCEPT ![Host] = [seq |-> receipt.seq, rev |-> receipt.rev + 1,
                                              target |-> receipt.target, mode |-> "original"]]
             /\ Go(Host, "recover_pair")
        \/ receipt.state = "config_applied" /\ Fault
             /\ receipt' \in {receipt, [receipt EXCEPT !.state = "restoring_config", !.rev = @ + 1]}
             /\ know("none") /\ Go(Host, "stop")
        \/ receipt.state \in {"restoring_config", "rolled_back"} /\ know("original")
             /\ Go(Host, "recover_pair") /\ UNCHANGED receipt /\ NoFault
        \/ receipt.state \in TargetRecovery /\ know("target")
             /\ Go(Host, "recover_pair") /\ UNCHANGED receipt /\ NoFault
     /\ UNCHANGED <<sequence, transition, active, hostConfig, outbox, ledger, concluded, pairAt,
                    running, managed, requests, ingest, crashes>>

\* ensure_restart_recovery_configs.
RecoverPair ==
  /\ at[Host] = "recover_pair"
  /\ WritePair(Host, IF ctx[Host].mode = "target" THEN receipt.target ELSE Flip(receipt.target),
               IF receipt.state = "rolled_back" THEN "recover_event" ELSE "gate", "stop")

\* A rolled back receipt has nothing to recover but its event.
RecoverEvent ==
  /\ at[Host] = "recover_event"
  /\ WriteEvent(EventOf(receipt)) \/ EventFails(EventOf(receipt))
  /\ ctx' = Mode("none") /\ Go(Host, "gate")
  /\ UNCHANGED <<receipt, sequence, transition, active, hostConfig, ledger, concluded, pairAt,
                 running, managed, requests, ingest, crashes>>

\* The checks of cmd_start between recovery and launch.
Gate ==
  /\ at[Host] = "gate"
  /\ \/ NoFault /\ Go(Host, "launch")
     \/ Fault /\ Go(Host, "stop")
  /\ UNCHANGED <<disk, pairAt, running, managed, requests, ctx, ingest, crashes>>

\* _launch_supervised_stack_locked reads the two files as they are now.
Launch ==
  /\ at[Host] = "launch"
  /\ \/ /\ NoFault /\ running' = <<active, hostConfig>>
        /\ Go(Host, IF ctx[Host].mode = "none" THEN "serving" ELSE "finish")
     \/ Fault /\ Go(Host, "start_failed") /\ UNCHANGED running
  /\ UNCHANGED <<disk, pairAt, managed, requests, ctx, ingest, crashes>>

\* _fail_restart_receipt_recovery_start.
StartFailed ==
  /\ at[Host] = "start_failed"
  /\ CASE ctx[Host].mode = "none"     -> /\ Go(Host, "stop") /\ NoFault
                                         /\ UNCHANGED <<disk, pairAt, running, managed, requests,
                                                        ctx, ingest, crashes>>
       [] ctx[Host].mode = "original" -> Advance(Host, ctx[Host].rev, "rollback_failed", "host_event", "stop")
       [] OTHER -> Advance(Host, ctx[Host].rev, "restoring_config", "start_restore", "broken")

StartRestore ==
  at[Host] = "start_restore" /\ WritePair(Host, Flip(receipt.target), "stop", "broken")

\* The original files cannot be put back.
Broken ==
  at[Host] = "broken" /\ Advance(Host, ctx[Host].rev, "rollback_failed", "host_event", "stop")

\* _managed_relay_runtime_healthy: the connector reports what the files say.
Healthy(m) == running = <<m, m>> /\ active = m

\* _finish_restart_receipt_recovery, with the stack already up.
Finish ==
  /\ at[Host] = "finish"
  /\ \E sound \in BOOLEAN :
       LET to(s, ok) == Advance(Host, ctx[Host].rev, s, ok, "stop") IN
       CASE ctx[Host].mode = "original" ->
              IF sound /\ Healthy(Flip(receipt.target))
              THEN to("rolled_back", "host_event") ELSE to("rollback_failed", "host_event")
         [] receipt.state = "response_flushed" -> sound /\ to("restart_requested", "finish")
         [] receipt.state \in {"restart_requested", "manual_restart_required"} ->
              sound /\ to("validating_new_host", "finish")
         [] OTHER -> IF sound /\ Healthy(receipt.target)
                     THEN to("healthy", "host_event") ELSE to("restoring_config", "finish_restore")

FinishRestore ==
  at[Host] = "finish_restore" /\ WritePair(Host, Flip(receipt.target), "stop", "broken")

\* Mutant: audit_event_pending is ignored.
HostEventUnchecked ==
  /\ at[Host] = "host_event"
  /\ WriteEvent(EventOf(receipt)) \/ EventFails(EventOf(receipt))
  /\ Go(Host, CASE receipt.state = "healthy"     -> "finalize"
                [] receipt.state = "rolled_back" -> "serving"
                [] OTHER                         -> "stop")
  /\ UNCHANGED <<receipt, sequence, transition, active, hostConfig, ledger, concluded, pairAt,
                 running, managed, requests, ctx, ingest, crashes>>

\* The event of _advance_managed_restart_receipt, and what follows the outcome.
HostEvent ==
  /\ at[Host] = "host_event"
  /\ \/ /\ WriteEvent(EventOf(receipt))
        /\ Go(Host, CASE receipt.state = "healthy"     -> "finalize"
                      [] receipt.state = "rolled_back" -> "serving"
                      [] OTHER                         -> "stop")
     \/ /\ EventFails(EventOf(receipt))
        /\ Go(Host, IF receipt.state = "rollback_failed" THEN "stop" ELSE "serving")
  /\ UNCHANGED <<receipt, sequence, transition, active, hostConfig, ledger, concluded, pairAt,
                 running, managed, requests, ctx, ingest, crashes>>

\* finalize_restart_receipt; a failed removal keeps the Host up.
Finalize ==
  /\ at[Host] = "finalize" /\ Go(Host, "serving")
  /\ \/ NoFault /\ receipt' = NoReceipt /\ Conclude
     \/ Fault /\ \/ receipt' = NoReceipt /\ Conclude
                 \/ UNCHANGED <<receipt, concluded>>
  /\ UNCHANGED <<sequence, transition, active, hostConfig, outbox, ledger, pairAt, running,
                 managed, requests, ctx, ingest, crashes>>

\* The supervisor takes a request for the receipt it names, and only for that one.
Accept(r) ==
  LET legal == /\ receipt.seq = r.seq /\ receipt.rev = r.rev
               /\ "restart_requested" \in Transitions[receipt.state]
      new   == [receipt EXCEPT !.state = "restart_requested", !.rev = @ + 1]
      answered(l) == [at EXCEPT ![r.owner] = IF @ = "await" THEN l ELSE @]
  IN /\ managed /\ at[Host] = "serving" /\ lock = Free /\ r \in requests
     /\ requests' = requests \ {r}
     /\ \/ /\ legal /\ NoFault
           /\ receipt' = new
           /\ ctx' = [ctx EXCEPT ![Host] = [seq |-> r.seq, rev |-> new.rev,
                                            target |-> r.target, mode |-> "target"]]
           /\ at' \in {[answered("idle") EXCEPT ![Host] = "stop_old"],
                       [at EXCEPT ![Host] = "stop_old"]}
           /\ lock' = Host
        \/ /\ \/ legal /\ Fault /\ receipt' \in {receipt, new}
              \/ ~legal /\ NoFault /\ UNCHANGED receipt
           /\ at' = answered("manual")
           /\ UNCHANGED <<ctx, lock>>
     /\ UNCHANGED <<sequence, transition, active, hostConfig, outbox, ledger, concluded, pairAt,
                    running, managed, ingest, crashes>>

\* _terminate_supervised_child, and the end of the Host process.
Stop ==
  /\ \/ at[Host] = "stop" /\ KillStack("down")
     \/ at[Host] = "stop_old" /\ KillStack("revalidate")
  /\ UNCHANGED <<disk, managed, ctx, faults, crashes>>

\* The stack exits by itself, or the Host is told to stop.
Exit ==
  /\ at[Host] = "serving" /\ KillStack("down")
  /\ UNCHANGED <<disk, managed, ctx, faults, crashes>>

Revalidate ==
  at[Host] = "revalidate" /\ Advance(Host, ctx[Host].rev, "validating_new_host", "relaunch", "stop")

\* Mutant: the supervisor starts the new stack with the config it was started with.
RelaunchOldConfig ==
  /\ at[Host] = "relaunch"
  /\ running' = <<active, Flip(hostConfig)>> /\ Go(Host, "check") /\ NoFault
  /\ UNCHANGED <<disk, pairAt, managed, requests, ctx, ingest, crashes>>

\* The new stack, on the target files.
Relaunch ==
  /\ at[Host] = "relaunch"
  /\ \/ NoFault /\ running' = <<active, hostConfig>> /\ Go(Host, "check")
     \/ Fault /\ Go(Host, "unwind") /\ UNCHANGED running
  /\ UNCHANGED <<disk, pairAt, managed, requests, ctx, ingest, crashes>>

\* Mutant: a new stack that fails its check is left to serve.
CheckServesAnyway ==
  /\ at[Host] = "check"
  /\ \/ Healthy(ctx[Host].target) /\ Advance(Host, ctx[Host].rev, "healthy", "host_event", "stop")
     \/ /\ Go(Host, "serving")
        /\ UNCHANGED <<disk, pairAt, running, managed, requests, ctx, ingest, faults, crashes>>

Check ==
  /\ at[Host] = "check"
  /\ \/ Healthy(ctx[Host].target) /\ Advance(Host, ctx[Host].rev, "healthy", "host_event", "stop")
     \/ KillStack("unwind") /\ UNCHANGED <<disk, managed, ctx, faults, crashes>>

Unwind ==
  at[Host] = "unwind" /\ Advance(Host, ctx[Host].rev, "restoring_config", "unwind_pair", "stop")

\* restore_original_configs, then a launch on the original files.
UnwindPair ==
  /\ at[Host] = "unwind_pair"
  /\ WritePair(Host, Flip(ctx[Host].target), "reload", "broken")

Reload ==
  /\ at[Host] = "reload" /\ Go(Host, "launch") /\ ctx' = Mode("original")
  /\ UNCHANGED <<disk, pairAt, running, managed, requests, ingest, faults, crashes>>

-----------------------------------------------------------------------------
(* consume_private_host_restart_audit_events, in the running server; it    *)
(* does not take the lifecycle lock.                                       *)

IngestUnchanged == UNCHANGED <<receipt, sequence, transition, active, hostConfig, concluded,
                               pairAt, running, managed, requests, lock, at, ctx, crashes>>

\* The receipt as it is now decides what this pass may take and remove.
IngestBegin ==
  /\ running # Down /\ ingest.pc = "idle"
  /\ ingest' = [NoIngest EXCEPT !.snap = receipt,
                                !.pc = IF receipt.state \in Terminal THEN "event" ELSE "read"]
  /\ IngestUnchanged /\ UNCHANGED <<outbox, ledger, faults>>

IngestEvent ==
  /\ ingest.pc = "event"
  /\ \/ WriteEvent(EventOf(ingest.snap)) /\ ingest' = [ingest EXCEPT !.pc = "read"]
     \/ EventFails(EventOf(ingest.snap)) /\ ingest' = NoIngest
  /\ IngestUnchanged /\ UNCHANGED ledger

\* Mutant: a healthy outcome is projected at once.
NeverDeferred(e) == FALSE

\* A healthy outcome whose receipt is still there may yet be rolled back.
Deferred(e) == e.seq = ingest.snap.seq /\ e.state = "healthy"

IngestRead ==
  LET batch == {e \in outbox : ~Deferred(e)}
  IN /\ ingest.pc = "read"
     /\ ingest' = IF batch = {} THEN NoIngest ELSE [ingest EXCEPT !.pc = "commit", !.batch = batch]
     /\ IngestUnchanged /\ UNCHANGED <<outbox, ledger, faults>>

\* Mutant: what one pass could not commit is acknowledged with the rest.
IngestCommitHopes ==
  /\ ingest.pc = "commit"
  /\ \/ \E e \in ingest.batch \ ledger :
          NoFault /\ ledger' = ledger \cup {e} /\ UNCHANGED ingest
     \/ /\ ingest.batch \subseteq ledger /\ NoFault /\ UNCHANGED ledger
        /\ ingest' = [ingest EXCEPT !.pc = "acknowledge",
                                    !.batch = {e \in @ : e.seq # ingest.snap.seq}]
     \/ Fault /\ ingest' = [ingest EXCEPT !.pc = "acknowledge"] /\ UNCHANGED ledger
  /\ IngestUnchanged /\ UNCHANGED outbox

\* One statement per event, committed by itself; an event already in audit_logs
\* is not written again.
IngestCommit ==
  /\ ingest.pc = "commit"
  /\ \/ \E e \in ingest.batch \ ledger :
          NoFault /\ ledger' = ledger \cup {e} /\ UNCHANGED ingest
     \/ /\ ingest.batch \subseteq ledger /\ NoFault /\ UNCHANGED ledger
        /\ ingest' = [ingest EXCEPT !.pc = "acknowledge",
                                    !.batch = {e \in @ : e.seq # ingest.snap.seq}]
     \/ Fault /\ ingest' = NoIngest /\ UNCHANGED ledger
  /\ IngestUnchanged /\ UNCHANGED outbox

\* acknowledge_restart_audit_event: remove exactly the event that was committed.
IngestAcknowledge ==
  /\ ingest.pc = "acknowledge"
  /\ \/ ingest.batch = {} /\ ingest' = NoIngest /\ NoFault /\ UNCHANGED outbox
     \/ \E e \in ingest.batch :
          \/ /\ e \in outbox \/ OfTransaction(e) = {}
             /\ NoFault /\ outbox' = outbox \ {e}
             /\ ingest' = [ingest EXCEPT !.batch = @ \ {e}]
          \/ /\ \/ e \in outbox /\ Fault /\ outbox' \in {outbox, outbox \ {e}}
                \/ e \notin outbox /\ OfTransaction(e) # {} /\ NoFault /\ UNCHANGED outbox
             /\ ingest' = NoIngest
  /\ IngestUnchanged /\ UNCHANGED ledger

\* The machine stops: the files stay, every process is gone.
Crash ==
  /\ crashes < MaxCrashes /\ crashes' = crashes + 1
  /\ running' = Down /\ requests' = {} /\ lock' = Free /\ pairAt' = "active"
  /\ at' = [p \in Procs |-> IF p = Host THEN "down" ELSE "idle"]
  /\ ctx' = [p \in Procs |-> NoCtx] /\ ingest' = NoIngest
  /\ UNCHANGED <<disk, managed, faults>>

-----------------------------------------------------------------------------
HostStep ==
  \/ Recover \/ RecoverPair \/ RecoverEvent \/ Gate \/ Launch \/ StartFailed \/ StartRestore
  \/ Broken \/ Finish \/ FinishRestore \/ HostEvent \/ Finalize \/ Stop \/ Revalidate
  \/ Relaunch \/ Check \/ Unwind \/ UnwindPair \/ Reload

LockedOwnerStep(o) ==
  \/ CheckReceipt(o) \/ Allocate(o) \/ Create(o) \/ Apply(o) \/ Consume(o) \/ Undo(o)
  \/ UndoPair(o) \/ UndoDone(o) \/ CliFlush(o) \/ CliManual(o) \/ CompPair(o)
  \/ CompDone(o) \/ CompBad(o) \/ CompEvent(o)

OwnerStep(o) ==
  \/ Prepare(o) \/ (\E how \in {"http", "cli"} : Confirm(o, how))
  \/ Respond(o) \/ Sent(o) \/ Request(o) \/ GiveUp(o) \/ Manual(o) \/ Compensate(o) \/ Unsent(o)

IngestStep == IngestBegin \/ IngestEvent \/ IngestRead \/ IngestCommit \/ IngestAcknowledge

Next ==
  \/ Start \/ HostStep \/ Exit \/ (\E r \in requests : Accept(r))
  \/ \E o \in Owners : OwnerStep(o) \/ LockedOwnerStep(o)
  \/ IngestStep \/ Crash

\* A process that runs goes on, one that holds the lifecycle lock included;
\* launchd (KeepAlive) starts the Host again whenever the lock lets it in.
Spec ==
  /\ RelayInit /\ [][Next]_vars
  /\ WF_vars(HostStep) /\ \A o \in Owners : WF_vars(LockedOwnerStep(o))
  /\ SF_vars(managed /\ Start)

-----------------------------------------------------------------------------
Receipts == {NoReceipt} \cup
  [seq : 1..MaxTransitions, rev : Nat \ {0}, state : States \ {"none"}, target : Modes]
Events   == [seq : 1..MaxTransitions, rev : Nat \ {0}, state : Terminal]

\* The variables keep their types: in particular every event in the outbox,
\* in the ledger or in a pass of the ingest is a final outcome of an allocated
\* transaction, and nobody but the process at a locked label holds the lock.
RelayTypeOK ==
  /\ receipt \in Receipts /\ sequence \in 0..MaxTransitions /\ receipt.seq <= sequence
  /\ transition \in [state : {"none", "prepared", "confirmed"}, target : Modes]
  /\ active \in Modes /\ hostConfig \in Modes
  /\ pairAt \in {"active", "host", "undo_active", "undo_host"}
  /\ outbox \subseteq Events /\ ledger \subseteq Events /\ concluded \subseteq Events
  /\ \A e \in outbox \cup ledger \cup concluded : e.seq <= sequence
  /\ running \in Pairs \cup {Down} /\ managed \in BOOLEAN
  /\ requests \subseteq [owner : Owners, seq : 1..MaxTransitions, rev : Nat, target : Modes]
  /\ lock \in Procs \cup {Free}
  /\ \A p \in Procs : at[p] \in Locked <=> lock = p
  /\ at \in [Procs -> Locked \cup Unlocked]
  /\ ctx \in [Procs -> [seq : 0..MaxTransitions, rev : Nat, target : Modes,
                        mode : {"none", "http", "cli", "original", "target"}]]
  /\ ingest \in [pc : {"idle", "event", "read", "commit", "acknowledge"},
                 snap : Receipts, batch : SUBSET Events]
  /\ faults \in 0..MaxFaults /\ crashes \in 0..MaxCrashes

\* At every moment, after any crash and any failed write, the state of the
\* receipt tells which files are on disk: from response_flushed to healthy both
\* files are the target, once rolled back both are the original, and without a
\* receipt the two files agree. Recovery chooses the files to start with from
\* that state alone.
ReceiptTellsTheFiles ==
  /\ receipt.state \in TargetRecovery => active = receipt.target /\ hostConfig = receipt.target
  /\ receipt.state = "rolled_back" =>
       active = Flip(receipt.target) /\ hostConfig = Flip(receipt.target)
  /\ receipt.state = "none" => active = hostConfig

\* A stack is never started on one old file and one new one, and when nobody
\* is inside a transition and the receipt is absent or final, the live stack
\* runs what the files say: no silent difference outlives a concluded restart.
RunsWhatIsRecorded ==
  running # Down =>
    /\ running[1] = running[2]
    /\ lock = Free /\ receipt.state \in {"none", "healthy", "rolled_back"} =>
         running = <<active, hostConfig>>

\* The final outcome of every transaction whose receipt is gone is in the
\* outbox or in the audit ledger, whatever failed or crashed in between.
OutcomeNotLost == concluded \subseteq outbox \cup ledger

\* The audit ledger never tells two outcomes of one transaction, and never one
\* its receipt, while it is there, contradicts or its removal did not confirm:
\* a healthy restart that is still open to a rollback is not projected.
OneOutcome ==
  \A e \in ledger :
    /\ \A f \in ledger \cup concluded : f.seq = e.seq => f = e
    /\ receipt.seq = e.seq => e = EventOf(receipt)

\* The ingest, the owners and the Host all write and remove events in one directory
\* and none of them holds a lock for the whole of it, yet an event leaves only when
\* the audit ledger has it, or because the healthy restart it tells was rolled back,
\* whose event is there in its place.
NoEventDropped ==
  [][\A e \in outbox \ outbox' :
       \/ e \in ledger
       \/ /\ e.state = "healthy"
          /\ \E f \in outbox' : f.seq = e.seq /\ f.rev > e.rev
                               /\ f.state \in {"rolled_back", "rollback_failed"}]_vars

\* The transition as the disk and the audit ledger show it. While the receipt is
\* open or asks for repair the two files are shown as unsettled.
Verdict == IF receipt.state \in Terminal \cup {"none"} THEN receipt.state ELSE "open"
Told(events) == {<<e.seq, e.state>> : e \in events}

Promise == INSTANCE SettleOnce WITH
  Opposite  <- Flip,
  Unsettled <- Down,
  number    <- receipt.seq,
  verdict   <- Verdict,
  origin    <- IF receipt.state = "none" THEN "none" ELSE Flip(receipt.target),
  files     <- IF Verdict \in {"open", "rollback_failed"} THEN Down ELSE <<active, hostConfig>>,
  closed    <- Told(concluded),
  told      <- Told(ledger)

\* Owners, Host and ingest, none of which sees what the others have read, settle
\* each transaction once: the files on disk are what its verdict says, a healthy
\* verdict is taken back only while the ledger does not tell it, nothing is opened
\* on files that disagree or after a failed rollback, and no number comes again.
ImplementsSettleOnce == Promise!Spec

\* On a Host kept alive by launchd a restart that reached the replacement of
\* the stack is concluded: the target is found healthy or both files go back,
\* or the receipt asks for repair; it does not stay open for ever.
RestartConcludes ==
  (managed /\ receipt.state = "validating_new_host")
    ~> receipt.state \in Terminal \cup {"none"}
=============================================================================
