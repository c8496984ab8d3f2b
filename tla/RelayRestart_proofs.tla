------------------------ MODULE RelayRestart_proofs ------------------------
(***************************************************************************)
(* Proofs about RelayRestart, for every set of owners, every length of the *)
(* transaction sequence and of the outbox, and every number of failed      *)
(* writes and of stops of the machine: the types and the lifecycle lock,   *)
(* then, each on top of the one before, that the receipt tells the files,  *)
(* that the live stack runs what is recorded, and that every transaction   *)
(* ends with one outcome that is never lost.                               *)
(***************************************************************************)
EXTENDS RelayRestart, TLAPS

-----------------------------------------------------------------------------
(* The types and the lifecycle lock.                                       *)

\* What the labels say of the receipt, as far as the types need it.
Stands(p) ==
  /\ at[p] = "request" => ctx[p].seq # 0
  /\ at[p] = "create" => sequence # 0
  /\ at[p] \in {"allocate", "create"} => receipt.state \in {"none", "healthy", "rolled_back"}
  /\ at[p] \in {"comp_event", "host_event", "recover_event"} => receipt.state \in Terminal
  /\ at[p] = "finalize" => receipt.state = "healthy"

\* What a pass of the ingest has read is of allocated transactions.
Reading ==
  /\ ingest.snap.seq <= sequence /\ \A e \in ingest.batch : e.seq <= sequence
  /\ ingest.pc = "event" => ingest.snap.state \in Terminal

Contexts == [seq : 0..MaxTransitions, rev : Nat, target : Modes,
             mode : {"none", "http", "cli", "original", "target"}]

\* The lifecycle lock is with the process at a locked label, and with no other.
LockOK ==
  /\ lock \in Procs \cup {Free}
  /\ at \in [Procs -> Locked \cup Unlocked]
  /\ \A p \in Procs : at[p] \in Locked <=> lock = p

\* The types but for the lock and the labels.
DataOK ==
  /\ receipt \in Receipts /\ sequence \in 0..MaxTransitions /\ receipt.seq <= sequence
  /\ transition \in [state : {"none", "prepared", "confirmed"}, target : Modes]
  /\ active \in Modes /\ hostConfig \in Modes
  /\ pairAt \in {"active", "host", "undo_active", "undo_host"}
  /\ outbox \subseteq Events /\ ledger \subseteq Events /\ concluded \subseteq Events
  /\ \A e \in outbox \cup ledger \cup concluded : e.seq <= sequence
  /\ running \in Pairs \cup {Down} /\ managed \in BOOLEAN
  /\ requests \subseteq [owner : Owners, seq : 1..MaxTransitions, rev : Nat, target : Modes]
  /\ ctx \in [Procs -> Contexts]
  /\ ingest \in [pc : {"idle", "event", "read", "commit", "acknowledge"},
                 snap : Receipts, batch : SUBSET Events]
  /\ faults \in 0..MaxFaults /\ crashes \in 0..MaxCrashes

TInv == LockOK /\ DataOK /\ Reading /\ \A p \in Procs : Stands(p)

\* A step of control keeps the lock with the one process at a locked label.
LEMMA GoLock ==
  ASSUME LockOK, NEW p \in Procs, NEW l \in Locked \cup Unlocked, Go(p, l)
  PROVE  LockOK'
  BY RelayAssumption DEF LockOK, Go, Procs

\* No label is both inside and outside the lock.
LEMMA LabelType == Locked \cap Unlocked = {}
  BY DEF Locked, Unlocked

\* What a move of the receipt to state s leaves.
Moved(s) ==
  /\ receipt # NoReceipt /\ s \in Transitions[receipt.state] \cup {receipt.state}
  /\ receipt' = [seq |-> receipt.seq, target |-> receipt.target, state |-> s,
                 rev |-> IF receipt.state = s THEN receipt.rev ELSE receipt.rev + 1]

\* The receipt moved to another state, as a record.
LEMMA Bump ==
  ASSUME receipt \in Receipts, receipt # NoReceipt, NEW s \in States \ {"none"},
         NEW r, r = [receipt EXCEPT !.state = s, !.rev = @ + 1]
  PROVE  /\ r = [seq |-> receipt.seq, rev |-> receipt.rev + 1, state |-> s,
                 target |-> receipt.target]
         /\ r \in Receipts /\ r.seq = receipt.seq /\ r.rev = receipt.rev + 1
         /\ r.state = s /\ r.target = receipt.target
<1>1. receipt \in [seq : 1..MaxTransitions, rev : Nat \ {0}, state : States \ {"none"},
                   target : Modes]
  BY DEF Receipts
<1>2. r = [seq |-> receipt.seq, rev |-> receipt.rev + 1, state |-> s, target |-> receipt.target]
  BY <1>1
<1>3. r.seq = receipt.seq /\ r.rev = receipt.rev + 1 /\ r \in Receipts
  BY <1>1, <1>2 DEF Receipts
<1> QED
  BY <1>2, <1>3

\* The same, of the next receipt.
LEMMA BumpTo ==
  ASSUME receipt \in Receipts, receipt # NoReceipt, NEW s \in States \ {"none"},
         receipt' = [receipt EXCEPT !.state = s, !.rev = @ + 1]
  PROVE  /\ receipt' \in Receipts /\ receipt'.seq = receipt.seq /\ receipt'.rev = receipt.rev + 1
         /\ receipt'.state = s /\ receipt'.target = receipt.target
  BY Bump

\* transition_restart_receipt either moves the receipt and tells its caller, or
\* its caller learns nothing; what is on disk may have moved all the same.
LEMMA AdvanceEffect ==
  ASSUME DataOK, NEW p \in Procs, NEW rev \in Nat, NEW s \in States \ {"none"}, NEW ok, NEW bad,
         Advance(p, rev, s, ok, bad)
  PROVE  /\ \/ /\ Matches(p, rev) /\ Moved(s) /\ Go(p, ok)
               /\ ctx' = [ctx EXCEPT ![p] = [@ EXCEPT !.rev = receipt'.rev]]
            \/ /\ Go(p, bad) /\ ctx' = ctx
               /\ receipt' = receipt \/ (Matches(p, rev) /\ Moved(s))
         /\ faults' \in 0..MaxFaults
<1> DEFINE new == IF receipt.state = s THEN receipt ELSE [receipt EXCEPT !.state = s, !.rev = @ + 1]
           legal == Matches(p, rev) /\ s \in Transitions[receipt.state] \cup {receipt.state}
<1>1. ASSUME s \in Transitions[receipt.state] \cup {receipt.state}
      PROVE  receipt # NoReceipt
  BY <1>1 DEF NoReceipt, Transitions, States
<1>2. ASSUME receipt' = new, s \in Transitions[receipt.state] \cup {receipt.state}
      PROVE  Moved(s)
  BY <1>1, <1>2 DEF Moved, DataOK, Receipts
<1>3. CASE legal /\ receipt' = new /\ Go(p, ok) /\ NoFault /\ ctx' = [ctx EXCEPT ![p].rev = new.rev]
  BY <1>2, <1>3 DEF NoFault, DataOK
<1>4. CASE legal /\ receipt' \in {receipt, new} /\ Go(p, bad) /\ Fault /\ UNCHANGED ctx
  BY <1>2, <1>4, RelayAssumption DEF Fault, DataOK
<1>5. CASE NoFault /\ UNCHANGED <<receipt, ctx>> /\ Go(p, bad)
  BY <1>5 DEF NoFault, DataOK
<1> QED
  BY <1>3, <1>4, <1>5 DEF Advance

\* A move of the receipt keeps the types of the data.
LEMMA AdvanceData ==
  ASSUME DataOK, NEW p \in Procs, NEW rev \in Nat, NEW s \in States \ {"none"}, NEW ok, NEW bad,
         Advance(p, rev, s, ok, bad)
  PROVE  DataOK'
<1>1. /\ receipt' = receipt \/ Moved(s)
      /\ ctx' = ctx \/ ctx' = [ctx EXCEPT ![p] = [@ EXCEPT !.rev = receipt'.rev]]
      /\ faults' \in 0..MaxFaults
  BY AdvanceEffect
<1>2. receipt' \in Receipts /\ receipt'.seq = receipt.seq /\ receipt'.rev \in Nat
  BY <1>1 DEF DataOK, Receipts, NoReceipt, Moved
<1>3. ctx' \in [Procs -> Contexts]
  BY <1>1, <1>2 DEF DataOK, Contexts
<1> QED
  BY <1>1, <1>2, <1>3 DEF Advance, DataOK

\* _write_config_pair keeps the types of the data.
LEMMA PairData ==
  ASSUME DataOK, NEW p \in Procs, NEW dest \in Modes, NEW ok, NEW bad,
         WritePair(p, dest, ok, bad)
  PROVE  DataOK'
  BY RelayAssumption DEF DataOK, WritePair, Flip, Modes, NoFault, Fault

\* A step of one process leaves what the labels of the others say.
LEMMA OthersStand ==
  ASSUME TInv, NEW p \in Procs, NEW q \in Procs \ {p}, NEW l, Go(p, l),
         ctx'[q] = ctx[q], l \in Locked \/ lock \in {p, Free}
             \/ (receipt' = receipt /\ sequence' = sequence)
  PROVE  Stands(q)'
  BY RelayAssumption DEF TInv, LockOK, Stands, Go, Locked, Procs

\* Writing an event to the outbox keeps its type, written or not.
LEMMA EventData ==
  ASSUME DataOK, NEW e \in Events, e.seq <= sequence, WriteEvent(e) \/ EventFails(e)
  PROVE  /\ outbox' \subseteq Events /\ \A x \in outbox' : x.seq <= sequence
         /\ faults' \in 0..MaxFaults
  BY RelayAssumption DEF DataOK, WriteEvent, EventFails, NoFault, Fault

\* The event of a finished receipt is an outcome of an allocated transaction.
LEMMA EventOfReceipt ==
  ASSUME DataOK, receipt.state \in Terminal
  PROVE  EventOf(receipt) \in Events /\ EventOf(receipt).seq <= sequence
  BY DEF DataOK, Receipts, Events, EventOf, NoReceipt, Terminal

\* A move of the receipt under the lock keeps the types.
LEMMA AdvanceStands ==
  ASSUME TInv, NEW p \in Procs, lock \in {p, Free}, NEW rev \in Nat, NEW s \in States \ {"none"},
         NEW ok \in Locked \cup Unlocked, NEW bad \in Locked \cup Unlocked,
         ok \notin {"create", "allocate", "finalize"},
         ok \in {"comp_event", "host_event", "recover_event"} => s \in Terminal,
         bad \notin {"create", "allocate", "finalize", "comp_event", "host_event", "recover_event",
                     "request"},
         Advance(p, rev, s, ok, bad)
  PROVE  TInv'
<1>1. DataOK'
  BY AdvanceData DEF TInv
<1>2. LockOK'
  BY GoLock DEF TInv, Advance
<1>3. Reading'
  BY DEF Advance, TInv, Reading
<1>4. ASSUME NEW q \in Procs
      PROVE  Stands(q)'
  <2>1. CASE q # p
    <3>1. ctx'[q] = ctx[q]
      BY <2>1 DEF Advance, TInv, DataOK
    <3>2. PICK l : Go(p, l)
      BY DEF Advance
    <3> QED
      BY <2>1, <3>1, <3>2, OthersStand
  <2>2. CASE q = p
    <3>1. CASE Go(p, bad) /\ ctx' = ctx
      BY <2>2, <3>1 DEF Stands, Go, TInv, LockOK
    <3>2. CASE /\ Go(p, ok) /\ Matches(p, rev) /\ Moved(s)
               /\ ctx' = [ctx EXCEPT ![p] = [@ EXCEPT !.rev = receipt'.rev]]
      <4>1. receipt.seq # 0 /\ receipt'.state = s
        BY <3>2 DEF TInv, DataOK, Receipts, Moved
      <4>2. ctx'[p].seq # 0
        BY <3>2, <4>1 DEF Matches, TInv, DataOK
      <4>3. at'[p] = ok
        BY <3>2 DEF Go, TInv, LockOK
      <4> QED
        BY <2>2, <4>1, <4>2, <4>3 DEF Stands
    <3> QED
      BY <3>1, <3>2, AdvanceEffect DEF TInv
  <2> QED
    BY <2>1, <2>2
<1> QED
  BY <1>1, <1>2, <1>3, <1>4 DEF TInv

\* A write of the two files under the lock keeps the types.
LEMMA PairStands ==
  ASSUME TInv, NEW p \in Procs, lock \in {p, Free}, NEW dest \in Modes,
         NEW ok \in Locked \cup Unlocked, NEW bad \in Locked \cup Unlocked,
         ok \notin {"create", "allocate", "finalize", "comp_event", "host_event", "request"},
         ok = "recover_event" => receipt.state \in Terminal,
         bad \notin {"create", "allocate", "finalize", "comp_event", "host_event", "recover_event",
                     "request"},
         WritePair(p, dest, ok, bad)
  PROVE  TInv'
<1>1. DataOK'
  BY PairData DEF TInv
<1>2. PICK l \in {ok, bad, at[p]} : Go(p, l)
  BY DEF WritePair
<1>3. LockOK'
  BY <1>2, GoLock DEF TInv, LockOK
<1>4. Reading'
  BY DEF WritePair, TInv, Reading
<1>5. ASSUME NEW q \in Procs
      PROVE  Stands(q)'
  <2>0. UNCHANGED <<receipt, sequence, ctx>>
    BY DEF WritePair
  <2>1. CASE q # p
    BY <1>2, <2>0, <2>1, OthersStand
  <2>2. CASE q = p
    BY <1>2, <2>0, <2>2 DEF Stands, Go, TInv, LockOK
  <2> QED
    BY <2>1, <2>2
<1> QED
  BY <1>1, <1>3, <1>4, <1>5 DEF TInv

\* The end of the stack keeps the types: its handlers are idle, the lock is free
\* unless a command line or the Host holds it.
LEMMA KillTypes ==
  ASSUME TInv, NEW l \in Locked \cup Unlocked, lock = Host \/ l \notin Locked, KillStack(l),
         l \notin {"create", "allocate", "finalize", "comp_event", "host_event", "recover_event",
                   "request"},
         UNCHANGED <<disk, managed, ctx, faults, crashes>>
  PROVE  TInv'
<1>1. DataOK'
  BY DEF TInv, DataOK, KillStack, disk, NoIngest, Receipts
<1>2. LockOK'
  <2> DEFINE dead == {o \in Owners : ctx[o].mode = "http"}
             left == {o \in Owners \ dead : lock = o}
  <2>1. \A p \in Procs : at'[p] = IF p = Host THEN l ELSE IF p \in dead THEN "idle" ELSE at[p]
    BY DEF KillStack
  <2>2. "idle" \in Unlocked /\ "idle" \notin Locked
    BY DEF Locked, Unlocked
  <2>3. at' \in [Procs -> Locked \cup Unlocked]
    BY <2>2 DEF KillStack, TInv, LockOK
  <2>4. lock' = IF l \in Locked THEN Host ELSE IF left # {} THEN lock ELSE Free
    BY DEF KillStack
  <2> HIDE DEF dead, left
  <2>5. left = {} \/ (left # {} /\ lock \in Owners \ dead)
    BY DEF left
  <2>6. lock \in Owners \ dead => left # {}
    BY DEF left
  <2> QED
    BY <2>1, <2>2, <2>3, <2>4, <2>5, <2>6, RelayAssumption DEF TInv, LockOK, Procs
<1>3. Reading'
  BY RelayAssumption DEF TInv, DataOK, Reading, KillStack, NoIngest, NoReceipt, disk
<1>4. ASSUME NEW q \in Procs
      PROVE  Stands(q)'
  BY DEF TInv, KillStack, Stands, disk
<1> QED
  BY <1>1, <1>2, <1>3, <1>4 DEF TInv

\* Every step of an owner keeps the types.
LEMMA OwnerTypes ==
  ASSUME TInv, NEW o \in Owners, OwnerStep(o) \/ LockedOwnerStep(o)
  PROVE  TInv'
<1> o \in Procs /\ Host \in Procs /\ lock \in Procs \cup {Free} /\ (at[o] \in Locked <=> lock = o)
  BY DEF Procs, TInv, LockOK
<1> ctx[o].target \in Modes /\ Flip(ctx[o].target) \in Modes /\ ctx[o].rev \in Nat
    /\ ctx[o].seq \in 0..MaxTransitions /\ receipt.rev \in Nat
  BY DEF TInv, Contexts, DataOK, Flip, Modes, Receipts, NoReceipt
<1>1. CASE Prepare(o)
  <2>1. DataOK'
    BY <1>1 DEF Prepare, TInv, DataOK, Flip, Modes
  <2>2. LockOK' /\ Reading' /\ \A q \in Procs : Stands(q)'
    BY <1>1 DEF Prepare, TInv, LockOK, Reading, Stands
  <2> QED
    BY <2>1, <2>2 DEF TInv
<1>2. ASSUME NEW how \in {"http", "cli"}, Confirm(o, how)
      PROVE  TInv'
  <2>1. DataOK'
    <3>1. transition.target \in Modes /\ NoCtx \in Contexts
      BY RelayAssumption DEF TInv, DataOK, NoCtx, Modes, Contexts
    <3>2. ctx' \in [Procs -> Contexts]
      <4>1. [NoCtx EXCEPT !.target = transition.target, !.mode = how] \in Contexts
        BY <3>1 DEF Contexts
      <4>2. ctx' = [ctx EXCEPT ![o] = [NoCtx EXCEPT !.target = transition.target, !.mode = how]]
        BY <1>2 DEF Confirm
      <4> QED
        BY <4>1, <4>2 DEF TInv, DataOK
    <3>3. transition' \in [state : {"none", "prepared", "confirmed"}, target : Modes]
      BY <1>2 DEF Confirm, TInv, DataOK
    <3> QED
      BY <1>2, <3>2, <3>3 DEF Confirm, TInv, DataOK
  <2>2. LockOK'
    BY <1>2, GoLock DEF Confirm, TInv, Locked
  <2>3. Reading'
    BY <1>2 DEF Confirm, TInv, Reading
  <2>4. ASSUME NEW q \in Procs PROVE Stands(q)'
    <3>1. CASE q = o
      BY <1>2, <3>1 DEF Confirm, TInv, LockOK, Go, Stands
    <3>2. CASE q # o
      BY <1>2, <3>2, OthersStand DEF Confirm, TInv, DataOK
    <3> QED
      BY <3>1, <3>2
  <2> QED
    BY <2>1, <2>2, <2>3, <2>4 DEF TInv
<1>3. CASE Respond(o) \/ Request(o) \/ GiveUp(o) \/ CheckReceipt(o) \/ Allocate(o) \/ Consume(o)
           \/ CompEvent(o)
  <2>1. PICK l \in Locked \cup Unlocked :
          /\ Go(o, l) /\ l \notin {"comp_event", "host_event", "recover_event", "finalize"}
          /\ UNCHANGED <<ctx, receipt>> /\ (at[o] \in Locked \/ UNCHANGED sequence)
    <3> {"idle", "sent", "unsent", "await", "manual", "respond"} \subseteq Unlocked
        /\ {"allocate", "create", "cli_flush", "undo"} \subseteq Locked
      BY DEF Locked, Unlocked
    <3>1. CASE Respond(o) \/ Request(o) \/ GiveUp(o)
      BY <3>1 DEF Respond, Request, GiveUp, disk
    <3>2. CASE CheckReceipt(o) \/ Allocate(o)
      BY <3>2 DEF CheckReceipt, Allocate, Locked
    <3>3. CASE Consume(o) \/ CompEvent(o)
      BY <3>3 DEF Consume, CompEvent
    <3> QED
      BY <1>3, <3>1, <3>2, <3>3
  <2>2. LockOK'
    BY <2>1, GoLock DEF TInv
  <2>3. DataOK'
    <3>1. CASE Respond(o) \/ GiveUp(o)
      BY <3>1, RelayAssumption DEF Respond, GiveUp, TInv, DataOK, disk, NoFault, Fault
    <3>2. CASE Request(o)
      BY <3>2, RelayAssumption DEF Request, TInv, DataOK, disk, NoFault, Fault, Stands
    <3>3. CASE Allocate(o)
      BY <3>3, RelayAssumption DEF Allocate, TInv, DataOK, NoFault, Fault, Events, Receipts,
           NoReceipt
    <3>4. CASE Consume(o)
      BY <3>4, RelayAssumption DEF Consume, TInv, DataOK, NoFault, Fault, NoTransition, Modes
    <3>5. CASE CompEvent(o)
      BY <3>5, EventData, EventOfReceipt DEF CompEvent, TInv, DataOK, Stands
    <3>6. CASE CheckReceipt(o)
      <4>1. CASE UNCHANGED <<outbox, faults>>
        BY <3>6, <4>1 DEF CheckReceipt, TInv, DataOK
      <4>2. CASE receipt.state \in Terminal
                 /\ (WriteEvent(EventOf(receipt)) \/ EventFails(EventOf(receipt)))
        BY <3>6, <4>2, EventData, EventOfReceipt DEF CheckReceipt, TInv, DataOK
      <4> QED
        BY <3>6, <4>1, <4>2 DEF CheckReceipt, Terminal, NoFault
    <3> QED
      BY <1>3, <3>1, <3>2, <3>3, <3>4, <3>5, <3>6
  <2>4. Reading'
    <3>1. ingest' = ingest /\ sequence <= sequence' /\ sequence' \in Nat
      BY <1>3, <2>3 DEF TInv, DataOK, Respond, Request, GiveUp, CheckReceipt, Allocate, Consume,
           CompEvent, disk
    <3> QED
      BY <3>1 DEF TInv, DataOK, Reading, Receipts, NoReceipt, Events
  <2>5. ASSUME NEW q \in Procs PROVE Stands(q)'
    <3>1. CASE q = o
      BY <1>3, <2>1, <3>1 DEF Respond, Request, GiveUp, CheckReceipt, Allocate, Consume, CompEvent,
           disk, TInv, LockOK, DataOK, Go, Stands
    <3>2. CASE q # o
      BY <2>1, <3>2, OthersStand DEF TInv, LockOK
    <3> QED
      BY <3>1, <3>2
  <2> QED
    BY <2>2, <2>3, <2>4, <2>5 DEF TInv
<1>4. CASE Sent(o) \/ Manual(o) \/ Unsent(o) \/ Undo(o) \/ UndoDone(o) \/ CliFlush(o)
           \/ CliManual(o) \/ CompDone(o) \/ CompBad(o)
  <2> DEFINE Goals == {"response_flushed", "manual_restart_required", "restoring_config",
                       "rolled_back", "rollback_failed"}
             Onwards == {"request", "manual", "idle", "comp_pair", "undo_pair", "cli_manual"}
  <2>1. /\ Goals \subseteq States \ {"none"} /\ {"rolled_back", "rollback_failed"} \subseteq Terminal
        /\ Onwards \cup {"comp_event", "compensate"} \subseteq Locked \cup Unlocked
    BY DEF States, Transitions, Terminal, Locked, Unlocked
  <2>2. ASSUME NEW s \in Goals, NEW ok, NEW bad \in {"idle", "compensate"}, lock \in {o, Free},
               ok \in Onwards \/ (ok = "comp_event" /\ s \in {"rolled_back", "rollback_failed"}),
               Advance(o, ctx[o].rev, s, ok, bad)
        PROVE  TInv'
    BY <2>1, <2>2, AdvanceStands
  <2>3. CASE Sent(o)
    <3>1. PICK ok \in {"request", "manual"} :
            Advance(o, ctx[o].rev, "response_flushed", ok, "compensate") /\ lock = Free
      BY <2>3 DEF Sent
    <3> QED
      BY <2>2, <3>1
  <2>4. CASE Manual(o) \/ Unsent(o)
    BY <2>2, <2>4 DEF Manual, Unsent
  <2>5. CASE Undo(o) \/ UndoDone(o) \/ CliFlush(o) \/ CliManual(o) \/ CompDone(o) \/ CompBad(o)
    <3>1. lock = o
      BY <2>5 DEF Undo, UndoDone, CliFlush, CliManual, CompDone, CompBad, Locked
    <3>2. CASE Undo(o) \/ UndoDone(o)
      BY <2>2, <3>1, <3>2 DEF Undo, UndoDone
    <3>3. CASE CliFlush(o) \/ CliManual(o)
      BY <2>2, <3>1, <3>3 DEF CliFlush, CliManual
    <3>4. CASE CompDone(o) \/ CompBad(o)
      BY <2>2, <3>1, <3>4 DEF CompDone, CompBad
    <3> QED
      BY <2>5, <3>2, <3>3, <3>4
  <2> QED
    BY <1>4, <2>3, <2>4, <2>5
<1>5. CASE Compensate(o)
  <2>1. CASE Advance(o, receipt.rev, "restoring_config", "comp_pair", "idle")
    BY <1>5, <2>1, AdvanceStands, SMTT(60) DEF Compensate, States, Transitions, Locked, Unlocked
  <2>2. CASE Go(o, "idle") /\ NoFault
             /\ UNCHANGED <<disk, pairAt, running, managed, requests, ctx, ingest, crashes>>
    <3>1. LockOK'
      BY <2>2, GoLock DEF TInv, Unlocked
    <3>2. \A q \in Procs : Stands(q)'
      BY <2>2 DEF TInv, LockOK, Stands, Go, disk
    <3> QED
      BY <2>2, <3>1, <3>2 DEF TInv, DataOK, Reading, NoFault, disk
  <2> QED
    BY <1>5, <2>1, <2>2 DEF Compensate
<1>6. CASE Create(o)
  <2> DEFINE new == [seq |-> sequence, rev |-> 1, state |-> "config_applied",
                     target |-> ctx[o].target]
  <2>1. at[o] = "create" /\ sequence \in 1..MaxTransitions
        /\ receipt.state \in {"none", "healthy", "rolled_back"}
    BY <1>6 DEF Create, TInv, Stands, DataOK
  <2>2. new \in Receipts
    BY <2>1 DEF Receipts, States, Transitions
  <2>3. concluded' \subseteq Events /\ \A e \in concluded' : e.seq <= sequence
    BY <1>6, <2>1, EventOfReceipt DEF Create, Conclude, TInv, DataOK, Terminal
  <2>4. ctx' \in [Procs -> Contexts]
    BY <1>6, <2>1 DEF Create, Contexts, TInv, DataOK
  <2>5. DataOK'
    BY <1>6, <2>1, <2>2, <2>3, <2>4, RelayAssumption DEF Create, TInv, DataOK, NoFault, Fault
  <2>6. PICK l \in {"apply", "idle"} : Go(o, l)
    BY <1>6 DEF Create
  <2>7. LockOK'
    BY <2>6, GoLock DEF TInv, Locked, Unlocked
  <2>8. ASSUME NEW q \in Procs PROVE Stands(q)'
    <3>1. CASE q = o
      BY <2>6, <3>1 DEF TInv, LockOK, Go, Stands
    <3>2. CASE q # o
      <4>1. ctx'[q] = ctx[q]
        BY <1>6, <3>2 DEF Create, TInv, DataOK
      <4>2. lock = o
        BY <2>1 DEF TInv, LockOK, Locked
      <4> QED
        BY <2>6, <3>2, <4>1, <4>2, OthersStand
    <3> QED
      BY <3>1, <3>2
  <2>9. Reading'
    BY <1>6 DEF Create, TInv, Reading
  <2> QED
    BY <2>5, <2>7, <2>8, <2>9 DEF TInv
<1>7. CASE Apply(o) \/ UndoPair(o) \/ CompPair(o)
  <2>1. PICK d \in Modes, ok \in Locked \cup Unlocked, bad \in Locked \cup Unlocked :
          /\ WritePair(o, d, ok, bad) /\ lock = o
          /\ {ok, bad} \cap {"create", "allocate", "finalize", "comp_event", "host_event",
                             "recover_event", "request"} = {}
    BY <1>7, SMTT(60) DEF Apply, UndoPair, CompPair, Locked, Unlocked
  <2> QED
    BY <2>1, PairStands
<1> QED
  BY <1>1, <1>2, <1>3, <1>4, <1>5, <1>6, <1>7 DEF OwnerStep, LockedOwnerStep

\* Every step of the Host keeps the types.
LEMMA HostTypes ==
  ASSUME TInv, HostStep \/ Start \/ Exit
  PROVE  TInv'
<1> Host \in Procs /\ (at[Host] \in Locked <=> lock = Host)
  BY DEF Procs, TInv, LockOK
<1> /\ ctx[Host].target \in Modes /\ Flip(ctx[Host].target) \in Modes /\ ctx[Host].rev \in Nat
    /\ receipt.target \in Modes /\ Flip(receipt.target) \in Modes
  BY DEF TInv, Contexts, DataOK, Flip, Modes, Receipts, NoReceipt
<1>1. CASE Start \/ Gate \/ Launch \/ Relaunch \/ Reload \/ RecoverEvent \/ HostEvent
  <2>1. PICK l \in Locked \cup Unlocked :
          /\ Go(Host, l) /\ l \notin {"create", "allocate", "comp_event", "host_event",
                                      "recover_event", "request"}
          /\ (l = "finalize" => receipt.state = "healthy")
    <3> /\ {"serving"} \subseteq Unlocked
        /\ {"recover", "launch", "stop", "finish", "start_failed", "check", "unwind", "gate",
            "finalize"} \subseteq Locked
      BY DEF Locked, Unlocked
    <3> QED
      BY <1>1 DEF Start, Gate, Launch, Relaunch, Reload, RecoverEvent, HostEvent
  <2>2. LockOK'
    BY <2>1, GoLock DEF TInv
  <2>3. UNCHANGED <<receipt, sequence, ingest>>
        /\ (ctx' = ctx \/ \E m \in {"none", "original"} : ctx' = Mode(m))
    BY <1>1 DEF Start, Gate, Launch, Relaunch, Reload, RecoverEvent, HostEvent, disk
  <2>4. ctx' \in [Procs -> Contexts] /\ \A q \in Procs \ {Host} : ctx'[q] = ctx[q]
    BY <2>3 DEF TInv, DataOK, Mode, Contexts
  <2>5. DataOK'
    <3>1. CASE RecoverEvent \/ HostEvent
      <4>1. receipt.state \in Terminal
        BY <3>1 DEF RecoverEvent, HostEvent, TInv, Stands
      <4>2. WriteEvent(EventOf(receipt)) \/ EventFails(EventOf(receipt))
        BY <3>1 DEF RecoverEvent, HostEvent
      <4> QED
        BY <2>4, <3>1, <4>1, <4>2, EventData, EventOfReceipt DEF RecoverEvent, HostEvent, TInv,
             DataOK
    <3>2. CASE Start \/ Gate \/ Launch \/ Relaunch \/ Reload
      BY <2>4, <3>2, RelayAssumption DEF Start, Gate, Launch, Relaunch, Reload, TInv, DataOK, disk,
           NoFault, Fault, Pairs
    <3> QED
      BY <1>1, <3>1, <3>2
  <2>6. Reading'
    BY <2>3 DEF TInv, Reading
  <2>7. ASSUME NEW q \in Procs PROVE Stands(q)'
    <3>1. CASE q = Host
      BY <2>1, <2>3, <3>1 DEF TInv, LockOK, Go, Stands
    <3>2. CASE q # Host
      BY <2>1, <2>3, <2>4, <3>2, OthersStand
    <3> QED
      BY <3>1, <3>2
  <2> QED
    BY <2>2, <2>5, <2>6, <2>7 DEF TInv
<1>2. CASE RecoverPair \/ StartRestore \/ FinishRestore \/ UnwindPair
  <2>1. PICK d \in Modes, ok \in Locked \cup Unlocked, bad \in Locked \cup Unlocked :
          /\ WritePair(Host, d, ok, bad) /\ lock = Host
          /\ ok = "recover_event" => receipt.state \in Terminal
          /\ {ok, bad} \cap {"create", "allocate", "finalize", "comp_event", "host_event",
                             "request"} = {}
          /\ bad # "recover_event"
    <3> {"recover_event", "gate", "stop", "broken", "reload"} \subseteq Locked
        /\ {"recover_pair", "start_restore", "finish_restore", "unwind_pair"} \subseteq Locked
      BY DEF Locked
    <3>1. CASE RecoverPair
      BY <3>1 DEF RecoverPair, Terminal
    <3>2. CASE StartRestore \/ FinishRestore \/ UnwindPair
      BY <3>2 DEF StartRestore, FinishRestore, UnwindPair
    <3> QED
      BY <1>2, <3>1, <3>2
  <2> QED
    BY <2>1, PairStands
<1>3. CASE Broken \/ Revalidate \/ Unwind \/ Finish \/ StartFailed \/ Check
  <2>1. CASE \E s \in States \ {"none"}, ok \in Locked \cup Unlocked, bad \in Locked \cup Unlocked :
          /\ Advance(Host, ctx[Host].rev, s, ok, bad) /\ lock = Host
          /\ ok \notin {"create", "allocate", "finalize", "comp_event", "recover_event"}
          /\ ok = "host_event" => s \in Terminal
          /\ bad \notin {"create", "allocate", "finalize", "comp_event", "host_event",
                         "recover_event", "request"}
    BY <2>1, AdvanceStands
  <2>2. CASE at[Host] = "start_failed" /\ Go(Host, "stop") /\ NoFault
             /\ UNCHANGED <<disk, pairAt, running, managed, requests, ctx, ingest, crashes>>
    <3>1. LockOK'
      BY <2>2, GoLock DEF TInv, Locked
    <3>2. \A q \in Procs : Stands(q)'
      BY <2>2 DEF TInv, LockOK, Stands, Go, disk
    <3> QED
      BY <2>2, <3>1, <3>2 DEF TInv, DataOK, Reading, NoFault, disk
  <2>3. CASE at[Host] = "check" /\ KillStack("unwind")
             /\ UNCHANGED <<disk, managed, ctx, faults, crashes>>
    BY <2>3, KillTypes DEF Locked
  <2> QED
    <3> {"broken", "revalidate", "unwind", "finish", "start_failed", "check", "host_event", "stop",
         "start_restore", "finish_restore", "relaunch", "unwind_pair"} \subseteq Locked
      BY DEF Locked
    <3> {"rollback_failed", "rolled_back", "healthy", "restoring_config", "validating_new_host",
         "restart_requested"} \subseteq States \ {"none"}
        /\ {"rollback_failed", "rolled_back", "healthy"} \subseteq Terminal
      BY DEF States, Transitions, Terminal
    <3>1. CASE Broken \/ Revalidate \/ Unwind
      BY <2>1, <3>1 DEF Broken, Revalidate, Unwind
    <3>2. CASE StartFailed
      BY <2>1, <2>2, <3>2 DEF StartFailed
    <3>3. CASE Check
      BY <2>1, <2>3, <3>3 DEF Check
    <3>4. CASE Finish
      BY <2>1, <3>4 DEF Finish
    <3> QED
      BY <1>3, <3>1, <3>2, <3>3, <3>4
<1>4. CASE Stop \/ Exit
  BY <1>4, KillTypes DEF Stop, Exit, Locked, Unlocked
<1>5. CASE Recover
  <2> DEFINE restoring == [receipt EXCEPT !.state = "restoring_config", !.rev = @ + 1]
  <2>1. PICK l \in {"gate", "host_event", "recover_pair", "stop"} : Go(Host, l)
             /\ (l = "host_event" => receipt' = receipt /\ receipt.state \in Terminal)
    BY <1>5 DEF Recover, Terminal
  <2>2. at[Host] = "recover" /\ lock = Host /\ UNCHANGED <<sequence, ingest>>
    BY <1>5 DEF Recover, Locked
  <2>3. receipt' = receipt \/ (receipt.state = "config_applied" /\ receipt' = restoring)
    BY <1>5 DEF Recover
  <2>4. receipt' \in Receipts /\ receipt'.seq = receipt.seq
    <3>1. receipt.state = "config_applied" => receipt # NoReceipt
      BY DEF NoReceipt
    <3>2. ASSUME receipt.state = "config_applied", receipt' = restoring
          PROVE  receipt' \in Receipts /\ receipt'.seq = receipt.seq
      <4>1. receipt \in Receipts /\ "restoring_config" \in States \ {"none"}
        BY DEF TInv, DataOK, States, Transitions
      <4> QED
        BY <3>1, <3>2, <4>1, BumpTo
    <3> QED
      BY <2>3, <3>2 DEF TInv, DataOK
  <2>5. PICK c \in Contexts : ctx' = [ctx EXCEPT ![Host] = c]
    <3>1. receipt.seq \in 0..MaxTransitions /\ receipt.rev \in Nat
      BY RelayAssumption DEF TInv, DataOK, Receipts, NoReceipt
    <3>2. \E m \in {"none", "original", "target"}, v \in {receipt.rev, receipt.rev + 1} :
            ctx' = [ctx EXCEPT ![Host] = [seq |-> receipt.seq, rev |-> v,
                                          target |-> receipt.target, mode |-> m]]
      BY <1>5 DEF Recover
    <3> QED
      <4>1. ASSUME NEW m \in {"none", "original", "target"},
                   NEW v \in {receipt.rev, receipt.rev + 1}
            PROVE  [seq |-> receipt.seq, rev |-> v, target |-> receipt.target,
                    mode |-> m] \in Contexts
        BY <3>1 DEF Contexts
      <4> QED
        BY <3>2, <4>1
  <2>6. DataOK'
    BY <1>5, <2>4, <2>5, RelayAssumption DEF Recover, TInv, DataOK, NoFault, Fault
  <2>7. LockOK'
    BY <2>1, GoLock DEF TInv, Locked
  <2>8. Reading'
    BY <2>2 DEF TInv, Reading
  <2>9. ASSUME NEW q \in Procs PROVE Stands(q)'
    <3>1. CASE q = Host
      BY <2>1, <3>1 DEF TInv, LockOK, Go, Stands
    <3>2. CASE q # Host
      BY <2>1, <2>2, <2>5, <3>2, OthersStand DEF TInv, DataOK
    <3> QED
      BY <3>1, <3>2
  <2> QED
    BY <2>6, <2>7, <2>8, <2>9 DEF TInv
<1>6. CASE Finalize
  <2>1. at[Host] = "finalize" /\ lock = Host /\ receipt.state = "healthy" /\ Go(Host, "serving")
        /\ UNCHANGED <<sequence, ingest, ctx>>
    BY <1>6 DEF Finalize, TInv, Stands, Locked
  <2>2. concluded' \subseteq Events /\ \A e \in concluded' : e.seq <= sequence
    BY <1>6, <2>1, EventOfReceipt DEF Finalize, Conclude, TInv, DataOK, Terminal
  <2>3. DataOK'
    BY <1>6, <2>2, RelayAssumption DEF Finalize, TInv, DataOK, NoFault, Fault, Receipts, NoReceipt
  <2>4. LockOK'
    BY <2>1, GoLock DEF TInv, Unlocked
  <2>5. Reading'
    BY <2>1 DEF TInv, Reading
  <2>6. ASSUME NEW q \in Procs PROVE Stands(q)'
    <3>1. CASE q = Host
      BY <2>1, <3>1 DEF TInv, LockOK, Go, Stands
    <3>2. CASE q # Host
      BY <2>1, <3>2, OthersStand
    <3> QED
      BY <3>1, <3>2
  <2> QED
    BY <2>3, <2>4, <2>5, <2>6 DEF TInv
<1> QED
  BY <1>1, <1>2, <1>3, <1>4, <1>5, <1>6 DEF HostStep

\* A request taken by the supervisor keeps the types.
LEMMA AcceptTypes ==
  ASSUME TInv, NEW r \in requests, Accept(r)
  PROVE  TInv'
<1> DEFINE new == [receipt EXCEPT !.state = "restart_requested", !.rev = @ + 1]
           legal == receipt.seq = r.seq /\ receipt.rev = r.rev
               /\ "restart_requested" \in Transitions[receipt.state]
           answered(l) == [at EXCEPT ![r.owner] = IF @ = "await" THEN l ELSE @]
<1>1. r.owner \in Owners /\ r.seq \in 1..MaxTransitions /\ r.rev \in Nat /\ r.target \in Modes
      /\ Host \in Procs
  BY DEF TInv, DataOK, Procs
<1>2. lock = Free /\ requests' = requests \ {r}
      /\ UNCHANGED <<sequence, transition, active, hostConfig, outbox, ledger, concluded, pairAt,
                    running, managed, ingest, crashes>>
  BY DEF Accept
<1>3. receipt' = receipt \/ (receipt' = new /\ legal)
  BY DEF Accept
<1>4. receipt' \in Receipts /\ receipt'.seq = receipt.seq /\ receipt'.rev \in Nat
  <2>1. legal => receipt # NoReceipt
    BY <1>1 DEF NoReceipt
  <2>2. ASSUME legal, receipt' = new
        PROVE  receipt' \in Receipts /\ receipt'.seq = receipt.seq
    <3>1. receipt \in Receipts /\ "restart_requested" \in States \ {"none"}
      BY DEF TInv, DataOK, States, Transitions
    <3> QED
      BY <2>1, <2>2, <3>1, BumpTo
  <2>3. receipt' \in Receipts /\ receipt'.seq = receipt.seq
    BY <1>3, <2>2 DEF TInv, DataOK
  <2> QED
    BY <2>3 DEF Receipts, NoReceipt
<1>5. /\ faults' \in 0..MaxFaults
      /\ \/ /\ ctx' = [ctx EXCEPT ![Host] = [seq |-> r.seq, rev |-> receipt'.rev,
                                             target |-> r.target, mode |-> "target"]]
            /\ at' \in {[answered("idle") EXCEPT ![Host] = "stop_old"],
                        [at EXCEPT ![Host] = "stop_old"]}
            /\ lock' = Host
         \/ at' = answered("manual") /\ UNCHANGED <<ctx, lock>>
  <2>1. faults' \in 0..MaxFaults
    BY RelayAssumption DEF Accept, NoFault, Fault, TInv, DataOK
  <2>2. CASE receipt' = new /\ ctx' = [ctx EXCEPT ![Host] = [seq |-> r.seq, rev |-> new.rev,
             target |-> r.target, mode |-> "target"]]
            /\ at' \in {[answered("idle") EXCEPT ![Host] = "stop_old"],
                        [at EXCEPT ![Host] = "stop_old"]}
            /\ lock' = Host
    BY <2>1, <2>2
  <2>3. CASE at' = answered("manual") /\ UNCHANGED <<ctx, lock>>
    BY <2>1, <2>3
  <2> QED
    BY <2>2, <2>3 DEF Accept
<1>6. ctx' \in [Procs -> Contexts]
  BY <1>1, <1>4, <1>5 DEF TInv, DataOK, Contexts
<1>7. DataOK'
  BY <1>2, <1>4, <1>5, <1>6 DEF TInv, DataOK
<1>8. LockOK' /\ \A q \in Procs : Stands(q)'
  <2>1. "await" \notin Locked /\ {"idle", "manual"} \cap Locked = {}
        /\ {"idle", "manual"} \subseteq Unlocked /\ "stop_old" \in Locked
    BY DEF Locked, Unlocked
  <2>2. r.owner # Host /\ r.owner \in Procs
    BY <1>1, RelayAssumption DEF Procs
  <2>3. \A q \in Procs : at[q] \notin Locked
    BY <1>2, RelayAssumption DEF TInv, LockOK, Procs
  <2>4. LockOK'
    BY <1>2, <1>5, <2>1, <2>2, <2>3, RelayAssumption DEF TInv, LockOK, Procs
  <2>5. ASSUME NEW q \in Procs PROVE Stands(q)'
    <3>1. at'[q] \in {at[q], "idle", "manual", "stop_old"} /\ (q # Host => ctx'[q] = ctx[q])
          /\ (q = Host /\ ctx'[Host] # ctx[Host] => at'[q] = "stop_old")
      BY <1>1, <1>5, <2>2 DEF TInv, LockOK, DataOK
    <3>2. {"request"} \cap Locked = {}
          /\ {"create", "allocate", "comp_event", "host_event", "recover_event",
              "finalize"} \subseteq Locked
      BY DEF Locked
    <3>3. at[q] \notin {"create", "allocate", "comp_event", "host_event", "recover_event",
                        "finalize"}
      BY <2>3, <3>2
    <3> QED
      BY <3>1, <3>3 DEF TInv, Stands
  <2> QED
    BY <2>4, <2>5
<1>9. Reading'
  BY <1>2 DEF TInv, Reading
<1> QED
  BY <1>7, <1>8, <1>9 DEF TInv

\* A pass of the ingest keeps the types.
LEMMA IngestTypes ==
  ASSUME TInv, IngestStep
  PROVE  TInv'
<1>1. LockOK' /\ \A q \in Procs : Stands(q)'
  BY DEF IngestStep, IngestBegin, IngestEvent, IngestRead, IngestCommit, IngestAcknowledge,
       IngestUnchanged, TInv, LockOK, Stands
<1>2. \/ EventOf(ingest.snap) \in Events /\ EventOf(ingest.snap).seq <= sequence
      \/ ingest.snap.state \notin Terminal
  BY DEF TInv, DataOK, Reading, Receipts, EventOf, Events, Terminal, NoReceipt
<1> DEFINE Passes == [pc : {"idle", "event", "read", "commit", "acknowledge"}, snap : Receipts,
                      batch : SUBSET Events]
<1>a. NoIngest \in Passes /\ NoIngest.snap = NoReceipt /\ NoIngest.batch = {}
      /\ NoIngest.pc = "idle" /\ ingest \in Passes
  BY DEF NoIngest, Receipts, TInv, DataOK
<1>3. CASE IngestBegin \/ IngestRead
  <2>1. CASE IngestBegin
    <3>1. PICK pc \in {"event", "read"} : ingest' = [NoIngest EXCEPT !.snap = receipt, !.pc = pc]
               /\ (pc = "event" => receipt.state \in Terminal)
      BY <2>1 DEF IngestBegin
    <3>2. ingest' \in Passes /\ ingest'.snap = receipt /\ ingest'.pc = pc /\ ingest'.batch = {}
      BY <1>a, <3>1 DEF TInv, DataOK
    <3> QED
      BY <1>1, <2>1, <3>1, <3>2 DEF IngestBegin, IngestUnchanged, TInv, DataOK, Reading
  <2>2. CASE IngestRead
    <3>1. PICK batch \in SUBSET outbox : ingest' \in {NoIngest,
                                                      [ingest EXCEPT !.pc = "commit",
                                                       !.batch = batch]}
      BY <2>2 DEF IngestRead, TInv, DataOK
    <3>2. ingest' \in Passes /\ (ingest'.snap = ingest.snap \/ ingest'.snap = NoReceipt)
          /\ ingest'.pc # "event" /\ ingest'.batch \subseteq outbox
      BY <1>a, <3>1 DEF TInv, DataOK
    <3>3. ingest'.snap.seq <= sequence /\ \A e \in ingest'.batch : e.seq <= sequence
      BY <3>2 DEF TInv, DataOK, Reading, NoReceipt
    <3> QED
      BY <1>1, <2>2, <3>2, <3>3, ZenonT(60) DEF IngestRead, IngestUnchanged, TInv, DataOK, Reading
  <2> QED
    BY <1>3, <2>1, <2>2
<1>4. CASE IngestEvent
  <2>1. ingest.snap.state \in Terminal
    BY <1>4 DEF IngestEvent, TInv, Reading
  <2>2. ingest' \in {NoIngest, [ingest EXCEPT !.pc = "read"]}
        /\ (WriteEvent(EventOf(ingest.snap)) \/ EventFails(EventOf(ingest.snap)))
    BY <1>4 DEF IngestEvent
  <2>3. ingest' \in Passes /\ (ingest'.snap = ingest.snap \/ ingest'.snap = NoReceipt)
        /\ ingest'.pc # "event" /\ ingest'.batch \subseteq ingest.batch
    BY <1>a, <2>2
  <2>4. DataOK'
    BY <1>2, <1>4, <2>1, <2>2, <2>3, EventData DEF IngestEvent, IngestUnchanged, TInv, DataOK
  <2>5. Reading'
    <3>1. ingest'.snap.seq <= sequence /\ \A e \in ingest'.batch : e.seq <= sequence
      BY <2>3 DEF TInv, DataOK, Reading, NoReceipt
    <3> QED
      BY <1>4, <2>3, <3>1 DEF IngestEvent, Reading, IngestUnchanged
  <2> QED
    BY <1>1, <2>4, <2>5 DEF TInv
<1>5. CASE IngestCommit \/ IngestAcknowledge
  <2>1. ingest' \in Passes /\ (ingest'.snap = ingest.snap \/ ingest'.snap = NoReceipt)
        /\ ingest'.pc # "event" /\ ingest'.batch \subseteq ingest.batch
    <3>1. CASE IngestCommit
      <4>1. ingest' \in {ingest, NoIngest}
            \/ \E b \in SUBSET ingest.batch : ingest' = [ingest EXCEPT !.pc = "acknowledge",
                                                         !.batch = b]
        <5>1. {e \in ingest.batch : e.seq # ingest.snap.seq} \in SUBSET ingest.batch
          BY <1>a
        <5> QED
          BY <3>1, <5>1 DEF IngestCommit
      <4>2. ingest.pc = "commit"
        BY <3>1 DEF IngestCommit
      <4> QED
        BY <1>a, <4>1, <4>2
    <3>2. CASE IngestAcknowledge
      <4>1. ingest' = NoIngest \/ \E b \in SUBSET ingest.batch : ingest' = [ingest EXCEPT !.batch = b]
        BY <1>a, <3>2 DEF IngestAcknowledge
      <4>2. ingest.pc = "acknowledge"
        BY <3>2 DEF IngestAcknowledge
      <4> QED
        BY <1>a, <4>1, <4>2
    <3> QED
      BY <1>5, <3>1, <3>2
  <2>2. outbox' \subseteq outbox /\ ledger' \subseteq ledger \cup ingest.batch
        /\ faults' \in 0..MaxFaults
    BY <1>5, RelayAssumption DEF IngestCommit, IngestAcknowledge, NoFault, Fault, TInv, DataOK
  <2>3. IngestUnchanged
    BY <1>5 DEF IngestCommit, IngestAcknowledge
  <2> QED
    <3>1. ingest'.snap.seq <= sequence /\ \A e \in ingest'.batch : e.seq <= sequence
      BY <2>1 DEF TInv, DataOK, Reading, NoReceipt
    <3>2. outbox' \subseteq Events /\ ledger' \subseteq Events
      BY <1>a, <2>2 DEF TInv, DataOK
    <3>3. \A e \in outbox' \cup ledger' : e.seq <= sequence
      BY <2>2 DEF TInv, DataOK, Reading
    <3> QED
      BY <1>1, <1>a, <2>1, <2>2, <2>3, <3>1 DEF IngestUnchanged, TInv, DataOK, Reading
<1> QED
  BY <1>3, <1>4, <1>5 DEF IngestStep

\* A stop of the machine keeps the types.
LEMMA CrashTypes ==
  ASSUME TInv, Crash
  PROVE  TInv'
<1>1. DataOK'
  BY RelayAssumption DEF Crash, disk, TInv, DataOK, NoCtx, NoIngest, Contexts, Modes, Receipts
<1>2. LockOK'
  BY RelayAssumption DEF Crash, LockOK, Procs, Locked, Unlocked
<1>3. Reading' /\ \A q \in Procs : Stands(q)'
  BY DEF Crash, disk, TInv, DataOK, Reading, Stands, NoIngest, NoReceipt
<1> QED
  BY <1>1, <1>2, <1>3 DEF TInv

\* The types hold at first.
LEMMA InitTypes == RelayInit => TInv
<1> SUFFICES ASSUME RelayInit PROVE TInv
  OBVIOUS
<1>1. DataOK
  BY RelayAssumption DEF RelayInit, DataOK, NoCtx, NoIngest, Contexts, Modes, Receipts, NoReceipt,
       NoTransition
<1>2. LockOK
  BY RelayAssumption DEF RelayInit, LockOK, Procs, Locked, Unlocked
<1>3. Reading /\ \A q \in Procs : Stands(q)
  BY DEF RelayInit, Reading, Stands, NoIngest, NoReceipt
<1> QED
  BY <1>1, <1>2, <1>3 DEF TInv

\* Every step keeps the types.
LEMMA NextTypes == TInv /\ [Next]_vars => TInv'
<1> SUFFICES ASSUME TInv, [Next]_vars PROVE TInv'
  OBVIOUS
<1>1. CASE UNCHANGED vars
  BY <1>1 DEF vars, disk, TInv, LockOK, DataOK, Reading, Stands
<1> QED
  BY <1>1, OwnerTypes, HostTypes, AcceptTypes, IngestTypes, CrashTypes DEF Next

\* Every variable keeps its type, and the lifecycle lock is held by exactly the
\* process that stands at a locked label, through every failed write, kill of
\* the stack and stop of the machine.
THEOREM RelayTypeCorrect == Spec => []RelayTypeOK
<1>1. TInv => RelayTypeOK
  BY DEF TInv, LockOK, DataOK, RelayTypeOK, Contexts
<1> QED
  BY <1>1, InitTypes, NextTypes, PTL DEF Spec
-----------------------------------------------------------------------------
(* The receipt and the files.                                              *)

Both(m)  == active = m /\ hostConfig = m
Original == Flip(receipt.target)

\* The process has the receipt as it is.
Knows(p) ==
  receipt.seq = ctx[p].seq /\ receipt.rev = ctx[p].rev /\ receipt.target = ctx[p].target

\* Where an owner stands, and what holds there.
OwnerAt(o) ==
  /\ at[o] \in {"receipt", "allocate", "create"} => Both(Flip(ctx[o].target))
  /\ at[o] = "create" =>
       /\ receipt.seq < sequence
       /\ \A q \in Owners : ctx[q].seq < sequence
       /\ \A r \in requests : r.seq < sequence
  /\ at[o] \in {"apply", "consume", "undo", "cli_flush"} =>
       Knows(o) /\ receipt.state = "config_applied"
  /\ at[o] \in {"undo_pair", "undo_done", "comp_pair", "comp_done", "comp_bad"} =>
       Knows(o) /\ receipt.state = "restoring_config"
  /\ at[o] \in {"consume", "cli_flush"} => Both(receipt.target)
  /\ at[o] \in {"undo_done", "comp_done"} => Both(Original)
  /\ at[o] \in {"respond", "sent", "unsent"} /\ Knows(o) /\ receipt.seq # 0 =>
       receipt.state = "config_applied" /\ Both(receipt.target)

\* Where the Host stands, and what holds there.
HostAt ==
  LET l == at[Host]
      m == ctx[Host].mode
  IN
  /\ m \in {"none", "original", "target"}
  /\ l \in {"recover_pair", "finish"} => m # "none"
  /\ l \in {"recover_pair", "gate", "launch", "start_failed", "finish"} =>
       /\ m # "none" => Knows(Host)
       /\ m = "target" => receipt.state \in TargetRecovery
  /\ l = "recover_pair" /\ m = "original" => receipt.state \in {"restoring_config", "rolled_back"}
  /\ l \in {"gate", "launch", "start_failed", "finish"} =>
       /\ m = "none" => receipt.state \in {"none", "rolled_back"}
       /\ m = "original" => receipt.state = "restoring_config" /\ Both(Original)
  /\ l = "recover_event" => receipt.state = "rolled_back"
  /\ l \in {"start_restore", "finish_restore", "unwind_pair", "reload"} =>
       Knows(Host) /\ receipt.state = "restoring_config"
  /\ l = "reload" => Both(Original)
  /\ l \in {"stop_old", "revalidate"} => Knows(Host) /\ receipt.state = "restart_requested"
  /\ l \in {"relaunch", "check", "unwind"} => Knows(Host) /\ receipt.state = "validating_new_host"

\* The pair write in progress is the lock holder's, and the receipt says
\* nothing of the files meanwhile.
Writes == {"apply", "undo_pair", "comp_pair", "recover_pair", "start_restore", "finish_restore",
           "unwind_pair"}
Dest(p) ==
  IF at[p] = "apply" \/ (at[p] = "recover_pair" /\ ctx[p].mode = "target")
  THEN receipt.target ELSE Original

Writing ==
  /\ pairAt # "active" =>
       /\ lock # Free /\ at[lock] \in Writes
       /\ receipt.state \in {"config_applied", "restoring_config"}
  /\ pairAt = "host" => active = Dest(lock)

\* An allocated sequence number has one owner, and who has it has the receipt
\* as it is or as it was.
Numbered(o) ==
  /\ ctx[o].seq <= sequence
  /\ \A q \in Owners \ {o} : ctx[o].seq # 0 => ctx[q].seq # ctx[o].seq
  /\ ctx[o].seq # 0 /\ ctx[o].seq = receipt.seq =>
       receipt.target = ctx[o].target /\ ctx[o].rev <= receipt.rev

Queue == \A r \in requests :
  r.seq <= sequence /\ (r.seq = receipt.seq => r.target = receipt.target)

Apart == /\ \A o \in Owners : OwnerAt(o)
         /\ \A o \in Owners : Numbered(o)
         /\ Queue

\* The second layer: the receipt tells the files.
FInv == TInv /\ ReceiptTellsTheFiles /\ HostAt /\ Writing /\ Apart

\* What the types say, in the form the other lemmas need it.
LEMMA Basics ==
  ASSUME TInv
  PROVE  /\ receipt.seq \in Nat /\ receipt.rev \in Nat /\ receipt.target \in Modes
         /\ receipt.state \in States
         /\ (receipt.seq = 0 <=> receipt = NoReceipt)
         /\ (receipt.state = "none" <=> receipt = NoReceipt)
         /\ sequence \in Nat /\ active \in Modes /\ hostConfig \in Modes /\ Original \in Modes
         /\ \A p \in Procs : ctx[p].seq \in Nat /\ ctx[p].rev \in Nat /\ ctx[p].target \in Modes
         /\ Owners \subseteq Procs /\ Host \in Procs /\ Free \notin Procs /\ Host \notin Owners
         /\ \A p \in Procs : at[p] \in Locked <=> lock = p
  BY RelayAssumption DEF TInv, LockOK, DataOK, Contexts, Receipts, NoReceipt, Procs, Original,
       Flip, Modes, States, Transitions

\* An owner outside the lock keeps what it knows.
LEMMA OutsideOwner ==
  ASSUME FInv, NEW q \in Owners, lock # q, at'[q] = at[q], ctx'[q] = ctx[q],
         \/ UNCHANGED <<receipt, active, hostConfig>> \/ ~Knows(q)' \/ receipt'.seq = 0
         \/ at[q] \notin {"respond", "sent", "unsent"}
  PROVE  OwnerAt(q)'
<1>1. at[q] \notin {"receipt", "allocate", "create", "apply", "consume", "undo", "cli_flush",
                    "undo_pair", "undo_done", "comp_pair", "comp_done", "comp_bad"}
  BY Basics DEF FInv, Locked
<1> QED
  BY <1>1 DEF FInv, Apart, OwnerAt, Knows, Both

\* The Host keeps what it knows, outside the lock.
LEMMA OutsideHost ==
  ASSUME FInv, lock # Host, at'[Host] = at[Host], ctx'[Host] = ctx[Host]
  PROVE  HostAt'
<1>1. at[Host] \notin {"recover_pair", "finish", "gate", "launch", "start_failed", "recover_event",
                       "start_restore", "finish_restore", "unwind_pair",
                "reload", "stop_old", "revalidate", "relaunch", "check", "unwind"}
  BY Basics DEF FInv, Locked
<1> QED
  BY <1>1 DEF FInv, HostAt

\* Outside the writing labels no write of the pair is under way.
LEMMA IdleWrite ==
  ASSUME FInv, NEW p \in Procs, lock \in {p, Free}, at[p] \notin Writes
  PROVE  pairAt = "active"
  BY DEF FInv, Writing

\* A move of the receipt that the files allow keeps what is said of the receipt,
\* the files and the other processes.
LEMMA AdvanceKeeps ==
  ASSUME FInv, TInv', NEW p \in Procs, lock \in {p, Free}, at[p] \notin Writes,
         NEW rev \in Nat, NEW s \in States \ {"none"}, NEW ok, NEW bad, Advance(p, rev, s, ok, bad),
         Matches(p, rev) /\ Moved(s) =>
           \/ s \in {"restoring_config", "rollback_failed"}
           \/ s = "rolled_back" /\ Both(Original)
           \/ s \in TargetRecovery /\ (receipt.state \in TargetRecovery \/ Both(receipt.target))
  PROVE  /\ ReceiptTellsTheFiles' /\ Writing' /\ Queue'
         /\ \A o \in Owners : Numbered(o)'
         /\ \A q \in Owners \ {p} : OwnerAt(q)'
         /\ p # Host => HostAt'
         /\ \/ at'[p] = bad /\ (p = Host => ctx'[Host].mode = ctx[Host].mode)
            \/ /\ at'[p] = ok /\ receipt'.state = s /\ Moved(s)
               /\ ctx'[p].mode = ctx[p].mode
               /\ receipt'.seq = ctx'[p].seq /\ receipt'.rev = ctx'[p].rev
               /\ ctx'[p].target = ctx[p].target
         /\ UNCHANGED <<active, hostConfig>> /\ receipt'.target = receipt.target
<1> USE Basics DEF FInv
<1>1. /\ \/ /\ Matches(p, rev) /\ Moved(s) /\ Go(p, ok)
            /\ ctx' = [ctx EXCEPT ![p] = [@ EXCEPT !.rev = receipt'.rev]]
         \/ /\ Go(p, bad) /\ ctx' = ctx
            /\ receipt' = receipt \/ (Matches(p, rev) /\ Moved(s))
  BY AdvanceEffect DEF TInv
<1>2. UNCHANGED <<sequence, active, hostConfig, pairAt, requests>> /\ pairAt = "active"
  BY IdleWrite DEF Advance
<1>3. receipt'.seq = receipt.seq /\ receipt'.target = receipt.target /\ receipt.rev <= receipt'.rev
  BY <1>1 DEF Moved
<1>4. \A q \in Procs : /\ ctx'[q].seq = ctx[q].seq /\ ctx'[q].target = ctx[q].target
                       /\ ctx'[q].mode = ctx[q].mode
                       /\ q # p => ctx'[q] = ctx[q] /\ at'[q] = at[q]
                       /\ ctx'[q].rev = ctx[q].rev \/ ctx'[q].rev = receipt'.rev
  BY <1>1 DEF TInv, DataOK, LockOK, Contexts, Go
<1>5. ReceiptTellsTheFiles'
  <2>1. CASE receipt' = receipt
    BY <1>2, <2>1 DEF ReceiptTellsTheFiles
  <2>2. CASE Matches(p, rev) /\ Moved(s)
    BY <1>2, <2>2 DEF ReceiptTellsTheFiles, TargetRecovery, Moved, Both, Original
  <2> QED
    BY <1>1, <2>1, <2>2
<1>6. Writing'
  BY <1>2 DEF Writing
<1>7. Queue'
  BY <1>2, <1>3 DEF Apart, Queue
<1>8. ASSUME NEW o \in Owners PROVE Numbered(o)'
  <2>1. Numbered(o) /\ o \in Procs
    BY DEF Apart
  <2>2. /\ ctx'[o].seq = ctx[o].seq /\ ctx'[o].target = ctx[o].target
        /\ ctx'[o].rev = ctx[o].rev \/ ctx'[o].rev = receipt'.rev
    BY <1>4, <2>1
  <2>3. \A q \in Owners : ctx'[q].seq = ctx[q].seq
    BY <1>4
  <2>4. receipt'.rev \in Nat
    BY DEF TInv, DataOK, Receipts, NoReceipt
  <2> QED
    BY <1>2, <1>3, <2>1, <2>2, <2>3, <2>4 DEF Numbered
<1>9. ASSUME NEW q \in Owners \ {p} PROVE OwnerAt(q)'
  <2>1. CASE receipt' = receipt
    BY <1>2, <1>4, <2>1, OutsideOwner
  <2>2. CASE Moved(s) /\ receipt' # receipt
    <3>1. receipt'.rev = receipt.rev + 1
      BY <2>2 DEF Moved, TInv, DataOK, Receipts
    <3>2. ~Knows(q)' \/ receipt'.seq = 0
      BY <1>3, <1>4, <3>1 DEF Apart, Numbered, Knows
    <3> QED
      BY <1>4, <3>2, OutsideOwner
  <2> QED
    BY <1>1, <2>1, <2>2
<1>10. p # Host => HostAt'
  BY <1>4, OutsideHost
<1>11. \/ at'[p] = bad
       \/ at'[p] = ok /\ receipt'.state = s /\ Moved(s) /\ receipt'.seq = ctx'[p].seq
          /\ receipt'.rev = ctx'[p].rev
  BY <1>1, <1>3, <1>4 DEF Go, TInv, LockOK, DataOK, Contexts, Moved, Matches
<1> QED
  BY <1>2, <1>3, <1>4, <1>5, <1>6, <1>7, <1>8, <1>9, <1>10, <1>11

\* A step that only moves its process.
LEMMA WalkKeeps ==
  ASSUME FInv, NEW p \in Procs, lock \in {p, Free}
           \/ at[p] \notin Locked, at[p] \notin Writes, NEW l, Go(p, l),
         UNCHANGED <<receipt, active, hostConfig, pairAt, sequence, requests>>,
         \A q \in Procs \ {p} : ctx'[q] = ctx[q], p # Host => ctx' = ctx
  PROVE  /\ ReceiptTellsTheFiles' /\ Writing' /\ Queue'
         /\ \A o \in Owners : Numbered(o)'
         /\ \A q \in Owners \ {p} : OwnerAt(q)'
         /\ p # Host => HostAt'
<1> USE Basics DEF FInv
<1>1. at'[p] = l /\ \A q \in Procs \ {p} : at'[q] = at[q]
  BY DEF Go, TInv, LockOK
<1>2. ReceiptTellsTheFiles'
  BY DEF ReceiptTellsTheFiles
<1>3. Writing'
  <2>1. CASE pairAt = "active"
    BY <2>1 DEF Writing
  <2>2. CASE pairAt # "active"
    <3>1. lock \in Procs /\ lock # p /\ at[lock] \in Writes
      BY <2>2 DEF Writing, TInv, LockOK
    <3>2. lock' = lock /\ at'[lock] = at[lock]
      BY <1>1, <3>1 DEF Go, Writes, Locked
    <3>3. ctx'[lock] = ctx[lock]
      BY <3>1
    <3> QED
      BY <1>1, <2>2, <3>1, <3>2, <3>3 DEF Writing, Dest, Original
  <2> QED
    BY <2>1, <2>2
<1>4. Queue' /\ \A o \in Owners : Numbered(o)'
  BY DEF Apart, Queue, Numbered
<1>5. ASSUME NEW q \in Owners \ {p} PROVE OwnerAt(q)'
  BY <1>1, <1>5 DEF Apart, OwnerAt, Knows, Both, Original
<1>6. p # Host => HostAt'
  BY <1>1 DEF HostAt, Knows, Both, Original
<1> QED
  BY <1>2, <1>3, <1>4, <1>5, <1>6

\* What one step of _write_config_pair does to the two files.
LEMMA PairEffect ==
  ASSUME TInv, NEW p \in Procs, NEW dest \in Modes, NEW ok, NEW bad, WritePair(p, dest, ok, bad),
         pairAt = "host" => active = dest
  PROVE  /\ UNCHANGED <<receipt, sequence, requests, ctx>>
         /\ \/ /\ Go(p, at[p]) /\ pairAt' # "active" /\ (pairAt' = "host" => active' = dest)
               /\ pairAt # "active" \/ active # dest \/ hostConfig # dest
            \/ /\ Go(p, ok) /\ pairAt' = "active" /\ active' = dest /\ hostConfig' = dest
            \/ /\ Go(p, bad) /\ pairAt' = "active"
               /\ pairAt # "active"
  BY DEF WritePair, TInv, DataOK, NoFault, Fault

\* Writing the pair, by a process that has the receipt.
LEMMA PairKeeps ==
  ASSUME FInv, TInv', NEW p \in Procs, lock = p, at[p] \in Writes, NEW dest \in Modes,
           dest = Dest(p),
         NEW ok, NEW bad, WritePair(p, dest, ok, bad), Knows(p), p \in Owners => ctx[p].seq # 0,
         p = Host => receipt.state # "config_applied",
         \/ receipt.state \in {"config_applied", "restoring_config"}
         \/ p = Host /\ active = dest /\ hostConfig = dest
  PROVE  /\ ReceiptTellsTheFiles' /\ Writing' /\ Queue'
         /\ \A o \in Owners : Numbered(o)'
         /\ \A q \in Owners \ {p} : OwnerAt(q)'
         /\ p # Host => HostAt'
         /\ UNCHANGED <<receipt, ctx>>
         /\ \/ at'[p] = at[p] /\ pairAt' # "active"
               /\ receipt.state \in {"config_applied", "restoring_config"}
            \/ at'[p] = ok /\ active' = dest /\ hostConfig' = dest
            \/ at'[p] = bad /\ receipt.state \in {"config_applied", "restoring_config"}
<1> USE Basics DEF FInv
<1>1. pairAt = "host" => active = dest
  BY DEF Writing
<1>2. /\ UNCHANGED <<receipt, sequence, requests, ctx>>
      /\ \/ /\ Go(p, at[p]) /\ pairAt' # "active" /\ (pairAt' = "host" => active' = dest)
            /\ pairAt # "active" \/ active # dest \/ hostConfig # dest
         \/ /\ Go(p, ok) /\ pairAt' = "active" /\ active' = dest /\ hostConfig' = dest
         \/ /\ Go(p, bad) /\ pairAt' = "active"
            /\ pairAt # "active"
  BY <1>1, PairEffect
<1>3. \A q \in Procs \ {p} : at'[q] = at[q]
  BY <1>2 DEF Go, TInv, LockOK
<1>4. \/ at'[p] = at[p] /\ pairAt' # "active" /\ lock' = p /\ (pairAt' = "host" => active' = dest)
         /\ receipt.state \in {"config_applied", "restoring_config"}
      \/ at'[p] = ok /\ pairAt' = "active" /\ active' = dest /\ hostConfig' = dest
      \/ at'[p] = bad /\ pairAt' = "active"
         /\ receipt.state \in {"config_applied", "restoring_config"}
  <2>1. at[p] \in Locked
    BY DEF Writes, Locked
  <2> QED
    BY <1>2, <2>1 DEF Go, TInv, LockOK, Writing
<1>5. receipt.state \in {"config_applied", "restoring_config"} \/ UNCHANGED <<active, hostConfig>>
  BY <1>4
<1>6. ReceiptTellsTheFiles'
  BY <1>2, <1>5 DEF ReceiptTellsTheFiles, TargetRecovery
<1>7. Writing'
  BY <1>2, <1>4 DEF Writing, Dest, Original
<1>8. Queue' /\ \A o \in Owners : Numbered(o)'
  BY <1>2 DEF Apart, Queue, Numbered
<1>9. ASSUME NEW q \in Owners \ {p} PROVE OwnerAt(q)'
  <2>1. CASE receipt.state = "config_applied" /\ Knows(q) /\ receipt.seq # 0
    <3>1. CASE p \in Owners
      BY <2>1, <3>1 DEF Apart, Numbered, Knows
    <3>2. CASE p = Host
      <4>1. UNCHANGED <<active, hostConfig>>
        BY <2>1, <3>2
      <4> QED
        BY <1>2, <1>3, <4>1, OutsideOwner
    <3> QED
      BY <3>1, <3>2 DEF Procs
  <2>2. CASE receipt.state # "config_applied" \/ ~Knows(q) \/ receipt.seq = 0
    <3>1. ~Knows(q)' \/ receipt'.seq = 0 \/ at[q] \notin {"respond", "sent", "unsent"}
      BY <1>2, <2>2 DEF Apart, OwnerAt, Knows
    <3> QED
      BY <1>2, <1>3, <3>1, OutsideOwner
  <2> QED
    BY <2>1, <2>2
<1>10. p # Host => HostAt'
  BY <1>2, <1>3, OutsideHost
<1> QED
  BY <1>2, <1>4, <1>6, <1>7, <1>8, <1>9, <1>10

\* The owner that steps: what is left to show when the others are kept.
LEMMA OwnerDone ==
  ASSUME FInv, TInv', NEW o \in Owners, OwnerAt(o)',
         ReceiptTellsTheFiles', Writing', Queue', \A q \in Owners : Numbered(q)',
         \A q \in Owners \ {o} : OwnerAt(q)', HostAt'
  PROVE  FInv'
  BY DEF FInv, Apart

\* Every step of an owner keeps the receipt true of the files.
LEMMA OwnerFiles ==
  ASSUME FInv, NEW o \in Owners, OwnerStep(o) \/ LockedOwnerStep(o)
  PROVE  FInv'
<1>0. TInv'
  BY OwnerTypes DEF FInv
<1> USE Basics, <1>0 DEF FInv
<1>a. o \in Procs /\ o # Host /\ Numbered(o) /\ OwnerAt(o) /\ (at[o] \in Locked => lock = o)
      /\ ctx[o].rev \in Nat /\ ctx[o].target \in Modes /\ Flip(ctx[o].target) \in Modes
  BY DEF Apart, Flip, Modes
<1> USE <1>a
<1>1. CASE Prepare(o)
  <2> UNCHANGED <<receipt, active, hostConfig, pairAt, sequence, requests, at, ctx, lock>>
    BY <1>1 DEF Prepare
  <2>1. \A q \in Owners : OwnerAt(q)' /\ Numbered(q)'
    BY DEF Apart, OwnerAt, Numbered, Knows, Both, Original
  <2>2. HostAt' /\ Writing' /\ ReceiptTellsTheFiles' /\ Queue'
    BY DEF Apart, HostAt, Writing, Dest, ReceiptTellsTheFiles, Queue, Knows, Both, Original
  <2> QED
    BY <2>1, <2>2 DEF Apart
<1>2. ASSUME NEW how \in {"http", "cli"}, Confirm(o, how)
      PROVE  FInv'
  <2>1. /\ UNCHANGED <<receipt, active, hostConfig, pairAt, sequence, requests>>
        /\ \A q \in Procs \ {o} : ctx'[q] = ctx[q] /\ at'[q] = at[q]
        /\ ctx'[o].seq = 0 /\ at'[o] = "receipt" /\ ctx'[o].target = transition.target
        /\ lock = Free /\ active = Flip(transition.target) /\ hostConfig = active
    BY <1>2 DEF Confirm, Go, NoCtx, TInv, LockOK, DataOK
  <2>2. ReceiptTellsTheFiles' /\ Queue'
    BY <2>1 DEF ReceiptTellsTheFiles, Apart, Queue
  <2>3. Writing'
    BY <2>1, RelayAssumption DEF Writing
  <2>4. ASSUME NEW q \in Owners PROVE Numbered(q)'
    BY <2>1 DEF Apart, Numbered
  <2>5. ASSUME NEW q \in Owners \ {o} PROVE OwnerAt(q)'
    BY <2>1, OutsideOwner, RelayAssumption
  <2>6. HostAt'
    BY <2>1, OutsideHost, RelayAssumption
  <2>7. OwnerAt(o)'
    BY <2>1 DEF OwnerAt, Both
  <2> QED
    BY <2>2, <2>3, <2>4, <2>5, <2>6, <2>7, OwnerDone
<1>3. CASE Respond(o) \/ GiveUp(o) \/ CheckReceipt(o) \/ Consume(o) \/ CompEvent(o)
  <2>1. /\ UNCHANGED <<receipt, active, hostConfig, pairAt, sequence, requests, ctx>>
        /\ at[o] \notin Writes /\ (lock \in {o, Free} \/ at[o] \notin Locked)
    BY <1>3 DEF Respond, GiveUp, CheckReceipt, Consume, CompEvent, disk, Writes
  <2>2. PICK l : /\ Go(o, l)
                 /\ \/ l = "idle"
                    \/ at[o] = "respond" /\ l \in {"sent", "unsent"}
                    \/ at[o] = "await" /\ l = "manual"
                    \/ at[o] = "receipt" /\ l = "allocate"
                    \/ at[o] = "consume" /\ l \in {"respond", "cli_flush", "undo"}
    BY <1>3 DEF Respond, GiveUp, CheckReceipt, Consume, CompEvent
  <2>3. /\ ReceiptTellsTheFiles' /\ Writing' /\ Queue'
        /\ \A q \in Owners : Numbered(q)'
        /\ \A q \in Owners \ {o} : OwnerAt(q)'
        /\ HostAt'
    BY <2>1, <2>2, WalkKeeps
  <2>4. OwnerAt(o)'
    <3>1. at'[o] = l
      BY <2>2 DEF Go, TInv, LockOK
    <3> QED
      BY <2>1, <2>2, <3>1 DEF OwnerAt, Knows, Both, Original
  <2> QED
    BY <2>3, <2>4, OwnerDone
<1>4. CASE Request(o)
  <2>1. /\ UNCHANGED <<receipt, active, hostConfig, pairAt, sequence, ctx>>
        /\ at[o] = "request" /\ ctx[o].seq # 0
        /\ requests' \subseteq requests \cup {[owner |-> o, seq |-> ctx[o].seq, rev |-> ctx[o].rev,
                                               target |-> ctx[o].target]}
    BY <1>4 DEF Request, TInv, Stands, disk
  <2>2. PICK l \in {"await", "manual"} : Go(o, l)
    BY <1>4 DEF Request
  <2>3. /\ at'[o] = l /\ \A q \in Procs \ {o} : at'[q] = at[q]
        /\ lock \in Procs => lock' = lock \/ lock = o
        /\ lock = Free => lock' = Free
    BY <2>2 DEF Go, TInv, LockOK, Locked
  <2>4. lock # o /\ lock' = lock
    BY <2>1, <2>2 DEF Go, TInv, LockOK, Locked
  <2>5. ReceiptTellsTheFiles' /\ \A q \in Owners : Numbered(q)'
    BY <2>1 DEF ReceiptTellsTheFiles, Apart, Numbered
  <2>6. Queue'
    BY <2>1 DEF Apart, Queue, Numbered
  <2>7. Writing'
    BY <2>1, <2>3, <2>4 DEF Writing, Dest, Original, TInv, LockOK
  <2>8. ASSUME NEW q \in Owners \ {o} PROVE OwnerAt(q)'
    <3>1. OwnerAt(q) /\ at'[q] = at[q] /\ ctx' = ctx
      BY <2>1, <2>3 DEF Apart
    <3> QED
      BY <2>1, <3>1 DEF OwnerAt, Knows, Both, Original
  <2>9. HostAt'
    BY <2>1, <2>3 DEF HostAt, Knows, Both, Original
  <2>10. OwnerAt(o)'
    BY <2>3 DEF OwnerAt
  <2> QED
    BY <2>5, <2>6, <2>7, <2>8, <2>9, <2>10, OwnerDone
<1>5. CASE Allocate(o)
  <2>1. /\ UNCHANGED <<receipt, active, hostConfig, pairAt, requests, ctx>>
        /\ lock = o /\ at[o] = "allocate"
        /\ sequence' = sequence \/ sequence' = sequence + 1
    BY <1>5 DEF Allocate, Locked
  <2>2. /\ \A q \in Procs \ {o} : at'[q] = at[q]
        /\ at'[o] = "idle" \/ (at'[o] = "create" /\ sequence' = sequence + 1)
    BY <1>5 DEF Allocate, Go, TInv, LockOK
  <2>3. pairAt = "active"
    BY <2>1 DEF Writing, Writes
  <2>4. ReceiptTellsTheFiles' /\ Writing'
    BY <2>1, <2>3 DEF ReceiptTellsTheFiles, Writing
  <2>5. Queue' /\ \A q \in Owners : Numbered(q)'
    BY <2>1 DEF Apart, Queue, Numbered, TInv, DataOK
  <2>6. ASSUME NEW q \in Owners \ {o} PROVE OwnerAt(q)'
    BY <2>1, <2>2, OutsideOwner
  <2>7. HostAt'
    BY <2>1, <2>2, OutsideHost
  <2>8. OwnerAt(o)'
    <3>1. receipt.seq <= sequence /\ (\A q \in Owners : ctx[q].seq <= sequence)
          /\ (\A r \in requests : r.seq <= sequence /\ r.seq \in Nat)
      BY DEF Apart, Queue, Numbered, TInv, DataOK
    <3>2. Both(Flip(ctx[o].target))
      BY <2>1 DEF OwnerAt
    <3> QED
      BY <2>1, <2>2, <3>1, <3>2 DEF OwnerAt, Both
  <2> QED
    BY <2>4, <2>5, <2>6, <2>7, <2>8, OwnerDone
<1>6. CASE Create(o)
  <2> DEFINE new == [seq |-> sequence, rev |-> 1, state |-> "config_applied",
                     target |-> ctx[o].target]
  <2>1. /\ UNCHANGED <<active, hostConfig, pairAt, requests, sequence>>
        /\ lock = o /\ at[o] = "create" /\ pairAt = "active" /\ sequence # 0
        /\ Both(Flip(ctx[o].target)) /\ receipt.seq < sequence
        /\ \A q \in Owners : ctx[q].seq < sequence
        /\ \A r \in requests : r.seq < sequence
    BY <1>6 DEF Create, Locked, OwnerAt, Writing, Writes, TInv, Stands
  <2>2. /\ receipt' = new \/ (receipt' = receipt /\ ctx' = ctx)
        /\ \A q \in Procs \ {o} : at'[q] = at[q] /\ ctx'[q] = ctx[q]
        /\ \/ at'[o] = "idle" /\ ctx' = ctx
           \/ at'[o] = "apply" /\ receipt' = new
              /\ ctx'[o].seq = sequence /\ ctx'[o].rev = 1 /\ ctx'[o].target = ctx[o].target
    BY <1>6 DEF Create, Go, TInv, LockOK, DataOK, Contexts
  <2>3. ReceiptTellsTheFiles'
    BY <2>1, <2>2 DEF ReceiptTellsTheFiles, TargetRecovery
  <2>4. Writing'
    BY <2>1 DEF Writing
  <2>5. Queue'
    BY <2>1, <2>2 DEF Apart, Queue
  <2>6. ASSUME NEW q \in Owners PROVE Numbered(q)'
    <3>1. Numbered(q)
      BY DEF Apart
    <3>2. CASE ctx' = ctx
      BY <2>1, <2>2, <3>1, <3>2 DEF Numbered
    <3>3. CASE receipt' = new /\ ctx'[o].seq = sequence /\ ctx'[o].rev = 1
               /\ ctx'[o].target = ctx[o].target
      BY <2>1, <2>2, <3>1, <3>3 DEF Numbered
    <3> QED
      BY <2>2, <3>2, <3>3
  <2>7. ASSUME NEW q \in Owners \ {o} PROVE OwnerAt(q)'
    <3>1. UNCHANGED receipt \/ ~Knows(q)'
      BY <2>1, <2>2 DEF Knows
    <3> QED
      BY <2>1, <2>2, <3>1, OutsideOwner
  <2>8. HostAt'
    BY <2>1, <2>2, OutsideHost
  <2>9. OwnerAt(o)'
    BY <2>2 DEF OwnerAt, Knows
  <2> QED
    BY <2>3, <2>4, <2>5, <2>6, <2>7, <2>8, <2>9, OwnerDone
<1>7. CASE Apply(o) \/ UndoPair(o) \/ CompPair(o)
  <2>1. PICK dest, ok, bad :
          /\ dest \in Modes
          /\ WritePair(o, dest, ok, bad) /\ dest = Dest(o) /\ at[o] \in Writes /\ lock = o
          /\ Knows(o)
          /\ receipt.state \in {"config_applied", "restoring_config"}
          /\ \/ at[o] = "apply" /\ ok = "consume" /\ bad = "undo" /\ dest = receipt.target
                /\ receipt.state = "config_applied"
             \/ at[o] = "undo_pair" /\ ok = "undo_done" /\ bad = "idle" /\ dest = Original
                /\ receipt.state = "restoring_config"
             \/ at[o] = "comp_pair" /\ ok = "comp_done" /\ bad = "comp_bad" /\ dest = Original
                /\ receipt.state = "restoring_config"
    <3>1. CASE Apply(o)
      BY <3>1 DEF Apply, OwnerAt, Knows, Dest, Writes, Locked
    <3>2. CASE UndoPair(o)
      BY <3>2 DEF UndoPair, OwnerAt, Knows, Dest, Writes, Locked, Original
    <3>3. CASE CompPair(o)
      BY <3>3 DEF CompPair, OwnerAt, Knows, Dest, Writes, Locked, Original
    <3> QED
      BY <1>7, <3>1, <3>2, <3>3
  <2>2. ctx[o].seq # 0
    BY <2>1 DEF Knows, NoReceipt
  <2>3. /\ ReceiptTellsTheFiles' /\ Writing' /\ Queue'
        /\ \A q \in Owners : Numbered(q)'
        /\ \A q \in Owners \ {o} : OwnerAt(q)'
        /\ HostAt'
        /\ UNCHANGED <<receipt, ctx>>
        /\ \/ at'[o] = at[o]
           \/ at'[o] = ok /\ active' = dest /\ hostConfig' = dest
           \/ at'[o] = bad
    BY <2>1, <2>2, PairKeeps
  <2>4. OwnerAt(o)'
    BY <2>1, <2>3 DEF OwnerAt, Knows, Both, Original
  <2> QED
    BY <2>3, <2>4, OwnerDone
<1>8. CASE Sent(o) \/ Manual(o) \/ Unsent(o) \/ Undo(o) \/ UndoDone(o) \/ CliFlush(o)
           \/ CliManual(o) \/ CompDone(o) \/ CompBad(o)
           \/ Compensate(o)
  <2>1. ASSUME NEW s \in States \ {"none"}, NEW ok, NEW bad, NEW rev \in Nat,
               Advance(o, rev, s, ok, bad), lock \in {o, Free}, at[o] \notin Writes,
               Matches(o, rev) /\ Moved(s) =>
                 \/ s \in {"restoring_config", "rollback_failed"}
                 \/ s = "rolled_back" /\ Both(Original)
                 \/ s \in TargetRecovery /\ (receipt.state \in TargetRecovery
                                             \/ Both(receipt.target)),
               bad \in {"idle", "compensate"},
               \/ ok \in {"request", "manual", "cli_manual", "idle", "comp_event"}
               \/ ok \in {"undo_pair", "comp_pair"} /\ s = "restoring_config"
        PROVE  FInv'
    <3>2. /\ ReceiptTellsTheFiles' /\ Writing' /\ Queue'
          /\ \A q \in Owners : Numbered(q)'
          /\ \A q \in Owners \ {o} : OwnerAt(q)'
          /\ HostAt'
          /\ \/ at'[o] = bad
             \/ /\ at'[o] = ok /\ receipt'.state = s /\ Moved(s)
                /\ receipt'.seq = ctx'[o].seq /\ receipt'.rev = ctx'[o].rev
                /\ ctx'[o].target = ctx[o].target
      BY <2>1, AdvanceKeeps
    <3>3. receipt'.state = s /\ Moved(s) /\ receipt'.seq = ctx'[o].seq => Knows(o)'
          \/ receipt'.rev # ctx'[o].rev
      <4>1. Moved(s) => receipt'.seq # 0
        BY DEF Moved
      <4> QED
        BY <3>2, <4>1 DEF Numbered, Knows
    <3>4. OwnerAt(o)'
      BY <2>1, <3>2, <3>3 DEF OwnerAt
    <3> QED
      BY <3>2, <3>4, OwnerDone
  <2>2. CASE Compensate(o) /\ Go(o, "idle") /\ NoFault
             /\ UNCHANGED <<disk, pairAt, running, managed, requests, ctx, ingest, crashes>>
    <3>1. lock = Free /\ at[o] \notin Writes
      BY <2>2 DEF Compensate, Writes
    <3>2. /\ ReceiptTellsTheFiles' /\ Writing' /\ Queue'
          /\ \A q \in Owners : Numbered(q)'
          /\ \A q \in Owners \ {o} : OwnerAt(q)'
          /\ HostAt'
      BY <2>2, <3>1, WalkKeeps DEF disk
    <3>3. at'[o] = "idle"
      BY <2>2 DEF Go, TInv, LockOK
    <3>4. OwnerAt(o)'
      BY <3>3 DEF OwnerAt
    <3> QED
      BY <3>2, <3>4, OwnerDone
  <2>3. {"restoring_config", "rolled_back", "rollback_failed", "response_flushed",
         "manual_restart_required"} \subseteq States \ {"none"}
    BY DEF States, Transitions
  <2>4. /\ at[o] \in {"undo", "undo_done", "cli_flush", "cli_manual", "comp_done", "comp_bad"}
           => lock = o
        /\ at[o] \in {"undo", "undo_done", "cli_flush", "cli_manual", "comp_done", "comp_bad",
                      "sent", "manual", "unsent", "compensate"} =>
             at[o] \notin Writes
    BY DEF Writes, Locked
  <2>5. CASE Undo(o)
    BY <2>1, <2>3, <2>4, <2>5 DEF Undo
  <2>6. CASE Unsent(o)
    BY <2>1, <2>3, <2>4, <2>6 DEF Unsent
  <2>7. CASE CompBad(o)
    BY <2>1, <2>3, <2>4, <2>7 DEF CompBad
  <2>9. CASE UndoDone(o) \/ CompDone(o)
    <3>1. Both(Original)
      BY <2>9 DEF UndoDone, CompDone, OwnerAt
    <3>2. CASE UndoDone(o)
      BY <2>1, <2>3, <2>4, <3>1, <3>2 DEF UndoDone
    <3>3. CASE CompDone(o)
      BY <2>1, <2>3, <2>4, <3>1, <3>3 DEF CompDone
    <3> QED
      BY <2>9, <3>2, <3>3
  <2>10. CASE Sent(o) \/ CliFlush(o)
    <3>1. Matches(o, ctx[o].rev) /\ Moved("response_flushed") =>
            "response_flushed" \in TargetRecovery
                /\ (receipt.state \in TargetRecovery \/ Both(receipt.target))
      <4>1. Matches(o, ctx[o].rev) /\ Moved("response_flushed") => Knows(o) /\ receipt.seq # 0
        BY DEF Matches, Moved, Knows, Numbered
      <4> QED
        BY <2>10, <4>1 DEF Sent, CliFlush, OwnerAt, TargetRecovery
    <3>2. CASE Sent(o)
      <4>1. PICK ok \in {"request", "manual"} :
             Advance(o, ctx[o].rev, "response_flushed", ok, "compensate")
        BY <3>2 DEF Sent
      <4> QED
        BY <2>1, <2>3, <2>4, <3>1, <3>2, <4>1 DEF Sent
    <3>3. CASE CliFlush(o)
      BY <2>1, <2>3, <2>4, <3>1, <3>3 DEF CliFlush
    <3> QED
      BY <2>10, <3>2, <3>3
  <2>11. CASE CliManual(o) \/ Manual(o)
    <3>1. Moved("manual_restart_required") =>
            "manual_restart_required" \in TargetRecovery /\ receipt.state \in TargetRecovery
      BY DEF Moved, TargetRecovery, Transitions, States
    <3>2. CASE CliManual(o)
      BY <2>1, <2>3, <2>4, <3>1, <3>2 DEF CliManual
    <3>3. CASE Manual(o)
      BY <2>1, <2>3, <2>4, <3>1, <3>3 DEF Manual
    <3> QED
      BY <2>11, <3>2, <3>3
  <2>8. CASE Compensate(o)
    <3>1. CASE Advance(o, receipt.rev, "restoring_config", "comp_pair", "idle")
      BY <2>1, <2>3, <2>4, <2>8, <3>1 DEF Compensate
    <3> QED
      BY <2>2, <2>8, <3>1 DEF Compensate
  <2> QED
    BY <1>8, <2>5, <2>6, <2>7, <2>8, <2>9, <2>10, <2>11
<1> QED
  BY <1>1, <1>2, <1>3, <1>4, <1>5, <1>6, <1>7, <1>8 DEF OwnerStep, LockedOwnerStep
\* A process is killed, or the machine stops: what is left on disk.
LEMMA KillFiles ==
  ASSUME FInv, TInv', NEW l, l \in {"down", "revalidate", "unwind"}, KillStack(l),
         lock = Host \/ l = "down", at[Host] \notin Writes,
         UNCHANGED <<disk, managed, ctx, faults, crashes>>, HostAt'
  PROVE  FInv'
<1> USE Basics DEF FInv
<1>1. UNCHANGED <<receipt, sequence, active, hostConfig, ctx>> /\ requests' = {}
  BY DEF disk, KillStack
<1>2. \A p \in Owners : at'[p] = at[p] \/ at'[p] = "idle"
  BY DEF KillStack
<1>3. ReceiptTellsTheFiles' /\ Queue' /\ \A o \in Owners : Numbered(o)'
  BY <1>1 DEF ReceiptTellsTheFiles, Apart, Queue, Numbered
<1>4. ASSUME NEW o \in Owners PROVE OwnerAt(o)'
  BY <1>1, <1>2 DEF Apart, OwnerAt, Knows, Both, Original
<1>5. Writing'
  <2> DEFINE dead == {o \in Owners : ctx[o].mode = "http"}
             left == {o \in Owners \ dead : lock = o}
  <2>1. /\ pairAt' = IF left # {} THEN pairAt ELSE "active"
        /\ lock' = IF l \in Locked THEN Host ELSE IF left # {} THEN lock ELSE Free
        /\ \A p \in Procs : at'[p] = IF p = Host THEN l ELSE IF p \in dead THEN "idle" ELSE at[p]
    BY DEF KillStack
  <2>2. CASE left = {}
    BY <2>1, <2>2 DEF Writing
  <2>3. CASE left # {}
    <3>1. lock \in Owners /\ lock \notin dead
      BY <2>3
    <3>2. l \notin Locked
      BY <3>1 DEF Locked
    <3>3. lock' = lock /\ at'[lock] = at[lock] /\ pairAt' = pairAt
      BY <2>1, <2>3, <3>1, <3>2
    <3> QED
      BY <1>1, <3>1, <3>3, RelayAssumption DEF Writing, Dest, Original
  <2> QED
    BY <2>2, <2>3
<1> QED
  BY <1>3, <1>4, <1>5 DEF Apart

\* Every step of the Host keeps the receipt true of the files.
LEMMA HostFiles ==
  ASSUME FInv, HostStep \/ Start \/ Exit
  PROVE  FInv'
<1>0. TInv'
  BY HostTypes DEF FInv
<1> USE Basics, <1>0 DEF FInv
<1>a. (at[Host] \in Locked <=> lock = Host) /\ Owners \ {Host} = Owners
      /\ ctx[Host].rev \in Nat /\ ctx[Host].target \in Modes /\ HostAt
      /\ Flip(receipt.target) \in Modes
  BY DEF Flip, Modes
<1> USE <1>a
<1>b. ASSUME ReceiptTellsTheFiles', Writing', Queue', \A q \in Owners : Numbered(q)',
             \A q \in Owners : OwnerAt(q)', HostAt'
      PROVE  FInv'
  BY <1>b DEF Apart
<1>c. {"restoring_config", "rolled_back", "rollback_failed", "healthy", "validating_new_host",
       "restart_requested"} \subseteq States \ {"none"}
  BY DEF States, Transitions
<1>1. CASE Start \/ Gate \/ Launch \/ Relaunch \/ Reload \/ RecoverEvent \/ HostEvent
  <2>1. /\ UNCHANGED <<receipt, active, hostConfig, pairAt, sequence, requests>>
        /\ at[Host] \notin Writes /\ (lock \in {Host, Free} \/ at[Host] \notin Locked)
    BY <1>1 DEF Start, Gate, Launch, Relaunch, Reload, RecoverEvent, HostEvent, disk, Writes
  <2>2. PICK l : /\ Go(Host, l)
                 /\ \/ l \in {"recover", "serving", "stop", "finalize"} /\ ctx' = ctx
                    \/ at[Host] = "gate" /\ l = "launch" /\ ctx' = ctx
                    \/ at[Host] = "launch" /\ l \in {"start_failed"} /\ ctx' = ctx
                    \/ at[Host] = "launch" /\ l = "finish" /\ ctx' = ctx /\ ctx[Host].mode # "none"
                    \/ at[Host] = "relaunch" /\ l \in {"check", "unwind"} /\ ctx' = ctx
                    \/ at[Host] = "reload" /\ l = "launch" /\ ctx' = Mode("original")
                    \/ at[Host] = "recover_event" /\ l = "gate" /\ ctx' = Mode("none")
    BY <1>1 DEF Start, Gate, Launch, Relaunch, Reload, RecoverEvent, HostEvent, disk
  <2>3. \A q \in Procs \ {Host} : ctx'[q] = ctx[q]
    BY <2>2 DEF Mode, TInv, DataOK
  <2>4. /\ ReceiptTellsTheFiles' /\ Writing' /\ Queue'
        /\ \A q \in Owners : Numbered(q)'
        /\ \A q \in Owners : OwnerAt(q)'
    BY <2>1, <2>2, <2>3, WalkKeeps
  <2>5. at'[Host] = l
    BY <2>2 DEF Go, TInv, LockOK
  <2>6. HostAt'
    <3>2. CASE at[Host] = "reload" /\ l = "launch" /\ ctx' = Mode("original")
      <4>1. ctx'[Host].mode = "original" /\ ctx'[Host].seq = ctx[Host].seq
            /\ ctx'[Host].rev = ctx[Host].rev /\ ctx'[Host].target = ctx[Host].target
        BY <3>2 DEF Mode, TInv, DataOK, Contexts
      <4> QED
        BY <2>1, <2>5, <3>2, <4>1 DEF HostAt, Knows, Both, Original
    <3>3. CASE at[Host] = "recover_event" /\ l = "gate" /\ ctx' = Mode("none")
      <4>1. ctx'[Host].mode = "none"
        BY <3>3 DEF Mode, TInv, DataOK, Contexts
      <4> QED
        BY <2>1, <2>5, <3>3, <4>1 DEF HostAt
    <3>1. CASE ctx' = ctx
      <4>2. UNCHANGED <<receipt, active, hostConfig, ctx>>
        BY <2>1, <3>1
      <4>3. CASE l \in {"recover", "serving", "stop", "finalize"}
        BY <2>5, <4>2, <4>3 DEF HostAt
      <4>4. CASE at[Host] \in {"gate", "launch"} /\ l \in {"launch", "start_failed", "finish"}
                 /\ (l = "finish" => ctx[Host].mode # "none")
        BY <2>5, <4>2, <4>4 DEF HostAt, Knows, Both, Original
      <4>5. CASE at[Host] = "relaunch" /\ l \in {"check", "unwind"}
        BY <2>5, <4>2, <4>5 DEF HostAt, Knows
      <4> QED
        BY <2>2, <4>3, <4>4, <4>5, <3>2, <3>3
    <3> QED
      BY <2>2, <3>1, <3>2, <3>3
  <2> QED
    BY <1>b, <2>4, <2>6
<1>2. CASE RecoverPair \/ StartRestore \/ FinishRestore \/ UnwindPair
  <2>1. PICK dest, ok, bad :
          /\ dest \in Modes
          /\ WritePair(Host, dest, ok, bad) /\ dest = Dest(Host) /\ at[Host] \in Writes
          /\ lock = Host /\ Knows(Host)
          /\ receipt.state # "config_applied"
          /\ receipt.state = "restoring_config" \/ (active = dest /\ hostConfig = dest)
          /\ \/ /\ at[Host] = "recover_pair" /\ bad = "stop"
                /\ ok = IF receipt.state = "rolled_back" THEN "recover_event" ELSE "gate"
                /\ dest = IF ctx[Host].mode = "target" THEN receipt.target ELSE Original
             \/ at[Host] \in {"start_restore", "finish_restore"} /\ ok = "stop" /\ bad = "broken"
             \/ at[Host] = "unwind_pair" /\ ok = "reload" /\ bad = "broken" /\ dest = Original
    <3>1. CASE RecoverPair
      <4>1. PICK dest \in Modes :
              /\ WritePair(Host, dest,
                           IF receipt.state = "rolled_back" THEN "recover_event" ELSE "gate", "stop")
              /\ dest = IF ctx[Host].mode = "target" THEN receipt.target ELSE Original
        BY <3>1 DEF RecoverPair, Original
      <4>2. at[Host] = "recover_pair" /\ lock = Host /\ Knows(Host) /\ at[Host] \in Writes
            /\ dest = Dest(Host)
        BY <3>1, <4>1 DEF RecoverPair, Locked, HostAt, Writes, Dest
      <4>3. receipt.state # "config_applied"
            /\ (receipt.state = "restoring_config" \/ (active = dest /\ hostConfig = dest))
        BY <4>1, <4>2 DEF HostAt, ReceiptTellsTheFiles, TargetRecovery, Original
      <4> QED
        BY <4>1, <4>2, <4>3
    <3>2. CASE StartRestore \/ FinishRestore
      <4>1. WritePair(Host, Original, "stop", "broken")
            /\ at[Host] \in {"start_restore", "finish_restore"}
        BY <3>2 DEF StartRestore, FinishRestore, Original
      <4> QED
        BY <4>1 DEF HostAt, Locked, Writes, Dest
    <3>3. CASE UnwindPair
      <4>1. at[Host] = "unwind_pair" /\ Knows(Host)
        BY <3>3 DEF UnwindPair, HostAt
      <4>2. WritePair(Host, Original, "reload", "broken")
        BY <3>3, <4>1 DEF UnwindPair, Original, Knows
      <4> QED
        BY <4>1, <4>2 DEF HostAt, Locked, Writes, Dest
    <3> QED
      BY <1>2, <3>1, <3>2, <3>3
  <2>2. /\ ReceiptTellsTheFiles' /\ Writing' /\ Queue'
        /\ \A q \in Owners : Numbered(q)'
        /\ \A q \in Owners : OwnerAt(q)'
        /\ UNCHANGED <<receipt, ctx>>
        /\ \/ at'[Host] = at[Host] /\ receipt.state \in {"config_applied", "restoring_config"}
           \/ at'[Host] = ok /\ active' = dest /\ hostConfig' = dest
           \/ at'[Host] = bad
    BY <2>1, PairKeeps
  <2>3. HostAt'
    <3>1. CASE at'[Host] = at[Host]
      BY <2>1, <2>2, <3>1 DEF HostAt, Knows, Both, Original, Writes
    <3>2. CASE at'[Host] = bad
      BY <2>1, <2>2, <3>2 DEF HostAt
    <3>3. CASE at'[Host] = ok /\ active' = dest /\ hostConfig' = dest
      <4>1. CASE at[Host] = "recover_pair"
        BY <2>1, <2>2, <3>3, <4>1 DEF HostAt, Knows, Both, Original
      <4>2. CASE at[Host] \in {"start_restore", "finish_restore"}
        BY <2>1, <2>2, <3>3, <4>2 DEF HostAt
      <4>3. CASE at[Host] = "unwind_pair"
        BY <2>1, <2>2, <3>3, <4>3 DEF HostAt, Knows, Both, Original
      <4> QED
        BY <2>1, <4>1, <4>2, <4>3
    <3> QED
      BY <2>2, <3>1, <3>2, <3>3
  <2> QED
    BY <1>b, <2>2, <2>3
<1>3. CASE Broken \/ Revalidate \/ Unwind \/ Finish \/ StartFailed \/ Check
  <2>1. ASSUME NEW s \in States \ {"none"}, NEW ok, NEW bad,
               Advance(Host, ctx[Host].rev, s, ok, bad), lock = Host, at[Host] \notin Writes,
               Matches(Host, ctx[Host].rev) /\ Moved(s) =>
                 \/ s \in {"restoring_config", "rollback_failed"}
                 \/ s = "rolled_back" /\ Both(Original)
                 \/ s \in TargetRecovery /\ receipt.state \in TargetRecovery,
               bad \in {"stop", "broken"},
               \/ ok = "host_event"
               \/ /\ Knows(Host)
                  /\ \/ ok \in {"start_restore", "finish_restore", "unwind_pair"}
                        /\ s = "restoring_config"
                     \/ ok = "relaunch" /\ s = "validating_new_host"
                     \/ ok = "finish" /\ at[Host] = "finish"
                        /\ s \in {"restart_requested", "validating_new_host"}
                        /\ ctx[Host].mode = "target"
        PROVE  FInv'
    <3>1. /\ ReceiptTellsTheFiles' /\ Writing' /\ Queue'
          /\ \A q \in Owners : Numbered(q)'
          /\ \A q \in Owners : OwnerAt(q)'
          /\ \/ at'[Host] = bad /\ ctx'[Host].mode = ctx[Host].mode
             \/ /\ at'[Host] = ok /\ receipt'.state = s
                /\ ctx'[Host].mode = ctx[Host].mode
                /\ receipt'.seq = ctx'[Host].seq /\ receipt'.rev = ctx'[Host].rev
                /\ ctx'[Host].target = ctx[Host].target
          /\ receipt'.target = receipt.target
      BY <2>1, AdvanceKeeps
    <3>2. HostAt'
      <4>1. CASE at'[Host] = bad
        BY <2>1, <3>1, <4>1 DEF HostAt
      <4>2. CASE at'[Host] = ok /\ receipt'.state = s
        BY <2>1, <3>1, <4>2 DEF HostAt, Knows, TargetRecovery
      <4> QED
        BY <3>1, <4>1, <4>2
    <3> QED
      BY <1>b, <3>1, <3>2
  <2>2. /\ at[Host] \in {"broken", "revalidate", "unwind", "finish", "start_failed", "check"}
           => lock = Host /\ at[Host] \notin Writes
    BY DEF Locked, Writes
  <2>3. /\ "validating_new_host" \in TargetRecovery /\ "restart_requested" \in TargetRecovery
        /\ "healthy" \in TargetRecovery
    BY DEF TargetRecovery
  <2>4. CASE Broken
    BY <1>c, <2>1, <2>2, <2>4 DEF Broken
  <2>5. CASE Revalidate
    <3>1. Knows(Host) /\ receipt.state = "restart_requested"
      BY <2>5 DEF Revalidate, HostAt
    <3> QED
      BY <1>c, <2>1, <2>2, <2>3, <2>5, <3>1 DEF Revalidate
  <2>6. CASE Unwind
    <3>1. Knows(Host)
      BY <2>6 DEF Unwind, HostAt
    <3> QED
      BY <1>c, <2>1, <2>2, <2>6, <3>1 DEF Unwind
  <2>7. CASE Check
    <3>1. CASE Advance(Host, ctx[Host].rev, "healthy", "host_event", "stop")
      <4>1. receipt.state \in TargetRecovery
        BY <2>3, <2>7 DEF Check, HostAt
      <4> QED
        BY <1>c, <2>1, <2>2, <2>3, <2>7, <3>1, <4>1 DEF Check
    <3>2. CASE KillStack("unwind") /\ UNCHANGED <<disk, managed, ctx, faults, crashes>>
      <4>1. at'[Host] = "unwind" /\ UNCHANGED <<receipt, ctx>> /\ at[Host] = "check"
        BY <2>7, <3>2 DEF KillStack, Check, disk
      <4>2. HostAt'
        BY <4>1 DEF HostAt, Knows
      <4> QED
        BY <2>2, <3>2, <4>1, <4>2, KillFiles
    <3> QED
      BY <2>7, <3>1, <3>2 DEF Check
  <2>8. CASE StartFailed
    <3>1. CASE ctx[Host].mode = "none"
      <4>1. /\ Go(Host, "stop") /\ UNCHANGED <<receipt, active, hostConfig, pairAt, sequence,
               requests, ctx>>
            /\ at[Host] = "start_failed"
        BY <2>8, <3>1 DEF StartFailed, disk
      <4>2. /\ ReceiptTellsTheFiles' /\ Writing' /\ Queue'
            /\ \A q \in Owners : Numbered(q)'
            /\ \A q \in Owners : OwnerAt(q)'
        BY <2>2, <4>1, WalkKeeps
      <4>3. at'[Host] = "stop"
        BY <4>1 DEF Go, TInv, LockOK
      <4>4. HostAt'
        BY <4>1, <4>3 DEF HostAt
      <4> QED
        BY <1>b, <4>2, <4>4
    <3>2. CASE ctx[Host].mode = "original"
      BY <1>c, <2>1, <2>2, <2>8, <3>2 DEF StartFailed
    <3>3. CASE ctx[Host].mode \notin {"none", "original"}
      <4>1. Knows(Host)
        BY <2>8, <3>3 DEF StartFailed, HostAt
      <4> QED
        BY <1>c, <2>1, <2>2, <2>8, <3>3, <4>1 DEF StartFailed
    <3> QED
      BY <3>1, <3>2, <3>3
  <2>9. CASE Finish
    <3>1. /\ at[Host] = "finish" /\ Knows(Host) /\ ctx[Host].mode \in {"original", "target"}
          /\ ctx[Host].mode = "original" => Both(Original) /\ receipt.state = "restoring_config"
          /\ ctx[Host].mode = "target" => receipt.state \in TargetRecovery
      BY <2>9 DEF Finish, HostAt
    <3>2. CASE Advance(Host, ctx[Host].rev, "rolled_back", "host_event", "stop")
               /\ ctx[Host].mode = "original"
      BY <1>c, <2>1, <2>2, <3>1, <3>2
    <3>3. CASE Advance(Host, ctx[Host].rev, "rollback_failed", "host_event", "stop")
      BY <1>c, <2>1, <2>2, <3>1, <3>3
    <3>4. CASE Advance(Host, ctx[Host].rev, "restart_requested", "finish", "stop")
               /\ ctx[Host].mode = "target"
      BY <1>c, <2>1, <2>2, <2>3, <3>1, <3>4
    <3>5. CASE Advance(Host, ctx[Host].rev, "validating_new_host", "finish", "stop")
               /\ ctx[Host].mode = "target"
      BY <1>c, <2>1, <2>2, <2>3, <3>1, <3>5
    <3>6. CASE Advance(Host, ctx[Host].rev, "healthy", "host_event", "stop")
               /\ ctx[Host].mode = "target"
      BY <1>c, <2>1, <2>2, <2>3, <3>1, <3>6
    <3>7. CASE Advance(Host, ctx[Host].rev, "restoring_config", "finish_restore", "stop")
      BY <1>c, <2>1, <2>2, <3>1, <3>7
    <3>8. CASE ctx[Host].mode = "original"
      <4>1. \/ Advance(Host, ctx[Host].rev, "rolled_back", "host_event", "stop")
            \/ Advance(Host, ctx[Host].rev, "rollback_failed", "host_event", "stop")
        BY <2>9, <3>1, <3>8 DEF Finish
      <4> QED
        BY <3>2, <3>3, <3>8, <4>1
    <3>9. CASE ctx[Host].mode = "target"
      <4>1. CASE receipt.state = "response_flushed"
        BY <2>9, <3>4, <3>9, <4>1 DEF Finish
      <4>2. CASE receipt.state \in {"restart_requested", "manual_restart_required"}
        BY <2>9, <3>5, <3>9, <4>2 DEF Finish
      <4>3. CASE receipt.state \notin {"response_flushed", "restart_requested",
                                       "manual_restart_required"}
        BY <2>9, <3>6, <3>7, <3>9, <4>3 DEF Finish
      <4> QED
        BY <4>1, <4>2, <4>3
    <3> QED
      BY <3>1, <3>8, <3>9
  <2> QED
    BY <1>3, <2>4, <2>5, <2>6, <2>7, <2>8, <2>9
<1>4. CASE Stop \/ Exit
  <2>1. PICK l \in {"down", "revalidate"} : KillStack(l)
             /\ (l = "revalidate" => at[Host] = "stop_old")
                                          /\ (lock = Host \/ l = "down") /\ at[Host] \notin Writes
    BY <1>4 DEF Stop, Exit, Locked, Writes
  <2>2. UNCHANGED <<disk, managed, ctx, faults, crashes>>
    BY <1>4 DEF Stop, Exit
  <2>3. HostAt'
    <3>1. at'[Host] = l /\ UNCHANGED <<receipt, ctx>>
      BY <2>1, <2>2 DEF KillStack, disk
    <3> QED
      BY <2>1, <3>1 DEF HostAt, Knows
  <2> QED
    BY <2>1, <2>2, <2>3, KillFiles
<1>5. CASE Recover
  <2>1. /\ at[Host] = "recover" /\ lock = Host /\ pairAt = "active"
        /\ UNCHANGED <<active, hostConfig, pairAt, sequence, requests>>
    BY <1>5 DEF Recover, Locked, Writing, Writes
  <2>2. /\ \A q \in Owners : at'[q] = at[q] /\ ctx'[q] = ctx[q]
    BY <1>5 DEF Recover, Go, TInv, LockOK, DataOK
  <2>3. \/ receipt' = receipt
        \/ /\ receipt.state = "config_applied" /\ receipt'.state = "restoring_config"
           /\ receipt'.rev = receipt.rev + 1
           /\ receipt'.seq = receipt.seq /\ receipt'.target = receipt.target
    <3>1. receipt.state = "config_applied" => receipt # NoReceipt
      BY DEF NoReceipt
    <3>2. receipt' = receipt \/ (receipt.state = "config_applied"
                                 /\ receipt' = [receipt EXCEPT !.state = "restoring_config",
                                                !.rev = @ + 1])
      BY <1>5 DEF Recover
    <3>3. "restoring_config" \in States \ {"none"} /\ receipt \in Receipts
      BY <1>c DEF TInv, DataOK
    <3>4. ASSUME receipt.state = "config_applied",
                 receipt' = [receipt EXCEPT !.state = "restoring_config", !.rev = @ + 1]
          PROVE  /\ receipt'.state = "restoring_config" /\ receipt'.rev = receipt.rev + 1
                 /\ receipt'.seq = receipt.seq /\ receipt'.target = receipt.target
      BY <3>1, <3>3, <3>4, BumpTo
    <3> QED
      BY <3>2, <3>4
  <2>4. ReceiptTellsTheFiles'
    BY <2>1, <2>3 DEF ReceiptTellsTheFiles, TargetRecovery
  <2>5. Writing' /\ Queue'
    BY <2>1, <2>3 DEF Writing, Apart, Queue
  <2>6. ASSUME NEW q \in Owners PROVE Numbered(q)'
    <3>1. Numbered(q) /\ receipt'.seq = receipt.seq /\ receipt'.target = receipt.target
          /\ receipt'.rev \in Nat /\ receipt.rev <= receipt'.rev
      BY <2>3 DEF Apart
    <3> QED
      BY <2>1, <2>2, <3>1 DEF Numbered
  <2>7. ASSUME NEW q \in Owners PROVE OwnerAt(q)'
    <3>1. receipt' # receipt => ~Knows(q)' \/ receipt'.seq = 0
      BY <2>2, <2>3 DEF Apart, Numbered, Knows
    <3> QED
      BY <2>1, <2>2, <3>1, OutsideOwner
  <2>8. HostAt'
    <3> DEFINE c(v, m) == [seq |-> receipt.seq, rev |-> v, target |-> receipt.target, mode |-> m]
    <3>1. \/ ctx'[Host] = c(receipt.rev, "none") /\ at'[Host] = "gate" /\ receipt' = receipt
             /\ receipt.state = "none"
          \/ ctx'[Host] = c(receipt.rev, "none") /\ at'[Host] \in {"host_event", "stop"}
          \/ ctx'[Host] = c(receipt.rev + 1, "original") /\ at'[Host] = "recover_pair"
             /\ receipt.state = "config_applied"
             /\ receipt' = [receipt EXCEPT !.state = "restoring_config", !.rev = @ + 1]
          \/ ctx'[Host] = c(receipt.rev, "original") /\ at'[Host] = "recover_pair"
             /\ receipt' = receipt /\ receipt.state \in {"restoring_config", "rolled_back"}
          \/ ctx'[Host] = c(receipt.rev, "target") /\ at'[Host] = "recover_pair"
             /\ receipt' = receipt /\ receipt.state \in TargetRecovery
      BY <1>5 DEF Recover, Go, TInv, LockOK, DataOK
    <3>2. receipt.state = "config_applied" /\ receipt' # receipt =>
            /\ receipt'.state = "restoring_config" /\ receipt'.rev = receipt.rev + 1
            /\ receipt'.seq = receipt.seq /\ receipt'.target = receipt.target
      BY <2>3
    <3>3. receipt' = [receipt EXCEPT !.state = "restoring_config", !.rev = @ + 1]
          /\ receipt.state = "config_applied" => receipt' # receipt
      <4>1. ASSUME receipt.state = "config_applied",
                   receipt' = [receipt EXCEPT !.state = "restoring_config", !.rev = @ + 1]
            PROVE  receipt' # receipt
        <5>1. receipt # NoReceipt /\ receipt \in Receipts
              /\ "restoring_config" \in States \ {"none"}
          BY <1>c, <4>1 DEF TInv, DataOK, NoReceipt
        <5>2. receipt'.rev = receipt.rev + 1
          BY <4>1, <5>1, BumpTo
        <5> QED
          BY <5>2
      <4> QED
        BY <4>1
    <3> QED
      BY <3>1, <3>2, <3>3 DEF HostAt, Knows
  <2> QED
    BY <1>b, <2>4, <2>5, <2>6, <2>7, <2>8
<1>6. CASE Finalize
  <2>1. /\ at[Host] = "finalize" /\ lock = Host /\ receipt.state = "healthy" /\ pairAt = "active"
        /\ UNCHANGED <<active, hostConfig, pairAt, sequence, requests, ctx>>
        /\ receipt' = receipt \/ receipt' = NoReceipt
        /\ at'[Host] = "serving" /\ \A q \in Owners : at'[q] = at[q]
    BY <1>6 DEF Finalize, Locked, Writing, Writes, TInv, Stands, Go, LockOK
  <2>2. ReceiptTellsTheFiles'
    BY <2>1 DEF ReceiptTellsTheFiles, TargetRecovery, NoReceipt
  <2>3. Writing'
    BY <2>1 DEF Writing
  <2>4. Queue'
    BY <2>1 DEF Apart, Queue, NoReceipt, TInv, DataOK
  <2>5. ASSUME NEW q \in Owners PROVE Numbered(q)'
    BY <2>1 DEF Apart, Numbered, NoReceipt
  <2>6. ASSUME NEW q \in Owners PROVE OwnerAt(q)'
    BY <2>1, OutsideOwner DEF NoReceipt
  <2>7. HostAt'
    BY <2>1 DEF HostAt
  <2> QED
    BY <1>b, <2>2, <2>3, <2>4, <2>5, <2>6, <2>7
<1> QED
  BY <1>1, <1>2, <1>3, <1>4, <1>5, <1>6 DEF HostStep

\* A request taken by the supervisor keeps FInv: the receipt is still the one the
\* request names.
LEMMA AcceptFiles ==
  ASSUME FInv, NEW r \in requests, Accept(r)
  PROVE  FInv'
<1>0. TInv'
  BY AcceptTypes DEF FInv
<1> USE Basics, <1>0 DEF FInv
<1>1. r.owner \in Owners /\ r.seq \in 1..MaxTransitions /\ r.rev \in Nat /\ r.target \in Modes
      /\ r.owner \in Procs /\ r.owner # Host
  BY DEF TInv, DataOK
<1>2. lock = Free /\ requests' = requests \ {r}
      /\ UNCHANGED <<sequence, active, hostConfig, pairAt>> /\ pairAt = "active"
  BY RelayAssumption DEF Accept, Writing
<1>3. \/ receipt' = receipt /\ ctx' = ctx
      \/ /\ receipt.state \in TargetRecovery /\ receipt'.state = "restart_requested"
         /\ receipt'.rev = receipt.rev + 1
         /\ receipt'.seq = receipt.seq /\ receipt'.target = receipt.target
         /\ \/ ctx' = ctx
            \/ ctx' = [ctx EXCEPT ![Host] = [seq |-> r.seq, rev |-> receipt'.rev,
                                             target |-> r.target, mode |-> "target"]]
               /\ receipt.seq = r.seq
  <2> DEFINE new == [receipt EXCEPT !.state = "restart_requested", !.rev = @ + 1]
             legal == receipt.seq = r.seq /\ receipt.rev = r.rev
                 /\ "restart_requested" \in Transitions[receipt.state]
  <2>1. legal => receipt # NoReceipt /\ receipt.state \in TargetRecovery
    BY <1>1 DEF Transitions, States, TargetRecovery
  <2>2. "restart_requested" \in States \ {"none"}
    BY DEF States, Transitions
  <2>3. ASSUME legal, receipt' = new
        PROVE  /\ receipt.state \in TargetRecovery /\ receipt'.state = "restart_requested"
               /\ receipt'.rev = receipt.rev + 1
               /\ receipt'.seq = receipt.seq /\ receipt'.target = receipt.target
    <3>1. receipt \in Receipts
      BY DEF TInv, DataOK
    <3> QED
      BY <2>1, <2>2, <2>3, <3>1, Bump, ZenonT(60)
  <2>4. CASE legal /\ receipt' = new
             /\ ctx' = [ctx EXCEPT ![Host] = [seq |-> r.seq, rev |-> new.rev, target |-> r.target,
                                              mode |-> "target"]]
    BY <2>3, <2>4
  <2>5. CASE legal /\ receipt' \in {receipt, new} /\ ctx' = ctx
    BY <2>3, <2>5
  <2>6. CASE receipt' = receipt /\ ctx' = ctx
    BY <2>6
  <2> QED
    BY <2>4, <2>5, <2>6 DEF Accept
<1>4. /\ \A q \in Owners : (at'[q] = at[q] \/ at'[q] \in {"idle", "manual"}) /\ ctx'[q] = ctx[q]
      /\ \/ at'[Host] = at[Host] /\ ctx' = ctx
         \/ at'[Host] = "stop_old" /\ receipt' # receipt
            /\ ctx'[Host] = [seq |-> r.seq, rev |-> receipt'.rev, target |-> r.target,
                             mode |-> "target"]
            /\ receipt'.state = "restart_requested" /\ receipt'.seq = r.seq
  <2> DEFINE new == [receipt EXCEPT !.state = "restart_requested", !.rev = @ + 1]
             answered(l) == [at EXCEPT ![r.owner] = IF @ = "await" THEN l ELSE @]
  <2>1. CASE receipt' = new /\ receipt.seq = r.seq
             /\ ctx' = [ctx EXCEPT ![Host] = [seq |-> r.seq, rev |-> new.rev, target |-> r.target,
                                              mode |-> "target"]]
             /\ receipt.rev = r.rev /\ "restart_requested" \in Transitions[receipt.state]
            /\ at' \in {[answered("idle") EXCEPT ![Host] = "stop_old"],
                        [at EXCEPT ![Host] = "stop_old"]}
    <3>1. receipt # NoReceipt /\ "restart_requested" \in States \ {"none"}
      BY <1>1, <2>1 DEF Transitions, States
    <3>2. receipt'.state = "restart_requested" /\ receipt'.seq = r.seq
          /\ receipt'.rev = receipt.rev + 1
      <4>1. receipt \in Receipts
        BY DEF TInv, DataOK
      <4> QED
        BY <2>1, <3>1, <4>1, Bump, ZenonT(60)
    <3>3. at'[Host] = "stop_old" /\ \A q \in Owners : at'[q] = at[q]
          \/ at'[q] \in {"idle", "manual"}
      BY <1>1, <2>1 DEF TInv, LockOK
    <3>4. ctx'[Host] = [seq |-> r.seq, rev |-> receipt'.rev, target |-> r.target,
                        mode |-> "target"] /\ \A q \in Owners : ctx'[q] = ctx[q]
      BY <2>1 DEF TInv, DataOK
    <3> QED
      BY <3>2, <3>3, <3>4
  <2>2. CASE at' = answered("manual") /\ ctx' = ctx
    BY <1>1, <2>2 DEF TInv, LockOK
  <2> QED
    BY <2>1, <2>2 DEF Accept
<1>5. ReceiptTellsTheFiles'
  BY <1>2, <1>3 DEF ReceiptTellsTheFiles, TargetRecovery
<1>6. Writing'
  BY <1>2 DEF Writing
<1>7. Queue'
  BY <1>2, <1>3 DEF Apart, Queue
<1>8. ASSUME NEW q \in Owners PROVE Numbered(q)'
  <2>1. Numbered(q) /\ receipt'.seq = receipt.seq /\ receipt'.target = receipt.target
        /\ receipt'.rev \in Nat /\ receipt.rev <= receipt'.rev
    BY <1>3 DEF Apart
  <2> QED
    BY <1>2, <1>4, <2>1 DEF Numbered
<1>9. ASSUME NEW q \in Owners PROVE OwnerAt(q)'
  <2>1. CASE at'[q] = at[q]
    <3>1. UNCHANGED receipt \/ ~Knows(q)' \/ receipt'.seq = 0
      BY <1>3, <1>4 DEF Apart, Numbered, Knows
    <3> QED
      BY <1>2, <1>4, <2>1, <3>1, OutsideOwner, RelayAssumption
  <2>2. CASE at'[q] \in {"idle", "manual"}
    BY <2>2 DEF OwnerAt
  <2> QED
    BY <1>4, <2>1, <2>2
<1>10. HostAt'
  <2>1. CASE at'[Host] = at[Host] /\ ctx' = ctx
    BY <1>2, <2>1, OutsideHost, RelayAssumption
  <2>2. CASE at'[Host] = "stop_old"
             /\ ctx'[Host] = [seq |-> r.seq, rev |-> receipt'.rev, target |-> r.target,
                              mode |-> "target"]
             /\ receipt'.state = "restart_requested" /\ receipt'.seq = r.seq
    <3>1. receipt'.target = r.target
      BY <1>3, <2>2 DEF Apart, Queue
    <3> QED
      BY <2>2, <3>1 DEF HostAt, Knows
  <2> QED
    BY <1>4, <2>1, <2>2
<1> QED
  BY <1>5, <1>6, <1>7, <1>8, <1>9, <1>10 DEF Apart

\* The ingest, a stop of the machine and a stutter keep FInv.
LEMMA RestFiles ==
  ASSUME FInv, IngestStep \/ Crash \/ UNCHANGED vars
  PROVE  FInv'
<1>0. TInv'
  <2>1. CASE UNCHANGED vars
    BY <2>1, NextTypes DEF FInv
  <2> QED
    BY <2>1, IngestTypes, CrashTypes DEF FInv
<1>1. CASE IngestStep \/ UNCHANGED vars
  <2>1. UNCHANGED <<receipt, active, hostConfig, pairAt, sequence, requests, at, ctx, lock>>
    BY <1>1 DEF IngestStep, IngestBegin, IngestEvent, IngestRead, IngestCommit, IngestAcknowledge,
         IngestUnchanged, vars, disk
  <2>2. \A q \in Owners : OwnerAt(q)' /\ Numbered(q)'
    BY <2>1 DEF FInv, Apart, OwnerAt, Numbered, Knows, Both, Original
  <2>3. HostAt' /\ Writing' /\ ReceiptTellsTheFiles' /\ Queue'
    BY <2>1 DEF FInv, Apart, HostAt, Writing, Dest, ReceiptTellsTheFiles, Queue, Knows, Both,
         Original
  <2> QED
    BY <1>0, <2>2, <2>3 DEF FInv, Apart
<1>2. CASE Crash
  <2>1. /\ UNCHANGED <<receipt, active, hostConfig, sequence>> /\ requests' = {}
        /\ pairAt' = "active"
        /\ \A p \in Procs : at'[p] \in {"down", "idle"} /\ ctx'[p].seq = 0 /\ ctx'[p].mode = "none"
    BY <1>2 DEF Crash, disk, NoCtx
  <2>2. ReceiptTellsTheFiles' /\ Writing' /\ Queue'
    BY <2>1 DEF FInv, ReceiptTellsTheFiles, Writing, Queue
  <2>3. \A q \in Owners : OwnerAt(q)' /\ Numbered(q)'
    BY <2>1, Basics DEF FInv, OwnerAt, Numbered
  <2>4. HostAt'
    BY <2>1, Basics DEF FInv, HostAt
  <2> QED
    BY <1>0, <2>2, <2>3, <2>4 DEF FInv, Apart
<1> QED
  BY <1>1, <1>2

\* FInv holds at first.
LEMMA InitFiles == RelayInit => FInv
<1> SUFFICES ASSUME RelayInit PROVE FInv
  OBVIOUS
<1>1. TInv
  BY InitTypes
<1>2. ReceiptTellsTheFiles /\ Writing /\ Queue
  BY DEF RelayInit, ReceiptTellsTheFiles, Writing, Queue, NoReceipt, TargetRecovery
<1>3. \A q \in Owners : OwnerAt(q) /\ Numbered(q)
  BY RelayAssumption DEF RelayInit, OwnerAt, Numbered, NoCtx, Procs
<1>4. HostAt
  BY DEF RelayInit, HostAt, NoCtx, Procs
<1> QED
  BY <1>1, <1>2, <1>3, <1>4 DEF FInv, Apart

\* Every step keeps FInv.
LEMMA NextFiles == FInv /\ [Next]_vars => FInv'
<1> SUFFICES ASSUME FInv, [Next]_vars PROVE FInv'
  OBVIOUS
<1> QED
  BY OwnerFiles, HostFiles, AcceptFiles, RestFiles DEF Next

\* At every moment, after any crash and any failed write, the state of the
\* receipt tells which files are on disk, so that the recovery of the next start
\* may choose by that state alone.
THEOREM ReceiptAlwaysTells == Spec => []ReceiptTellsTheFiles
<1>1. FInv => ReceiptTellsTheFiles
  BY DEF FInv
<1> QED
  BY <1>1, InitFiles, NextFiles, PTL DEF Spec
-----------------------------------------------------------------------------
(* What the stack runs.                                                    *)

Files == <<active, hostConfig>>

\* What the stack runs while the Host is outside the lock.
Serving ==
  running # Down =>
    /\ running[1] = running[2]
    /\ lock # Host =>
         /\ receipt.state \in {"none", "healthy", "rolled_back"} => running = Files
         /\ receipt.state \in {"config_applied", "response_flushed", "restart_requested",
                               "manual_restart_required", "restoring_config"} =>
              running = <<Original, Original>>
         /\ receipt.state # "validating_new_host"

HostDown == {"down", "recover", "recover_pair", "recover_event", "gate", "launch", "start_failed",
             "start_restore", "revalidate", "relaunch", "unwind", "unwind_pair", "reload"}

\* What the stack runs at the labels of the Host.
HostRuns ==
  /\ at[Host] \in HostDown => running = Down
  /\ at[Host] \in {"finish", "check", "finalize"} => running = Files
  /\ at[Host] = "host_event" /\ receipt.state # "rollback_failed" => running = Files

\* The third layer: the live stack runs what is recorded.
SInv == FInv /\ Serving /\ HostRuns

\* The files agree where the Host starts a stack on them.
LEMMA FilesAgree ==
  ASSUME FInv, at[Host] \in {"launch", "finish", "relaunch", "check"}
  PROVE  active = hostConfig
  BY DEF FInv, HostAt, ReceiptTellsTheFiles, Both, TargetRecovery

\* Every step of an owner keeps what the live stack runs: an owner changes the
\* files only under a receipt that says so.
LEMMA OwnerServing ==
  ASSUME SInv, NEW o \in Owners, OwnerStep(o) \/ LockedOwnerStep(o)
  PROVE  SInv'
<1>0. FInv'
  BY OwnerFiles DEF SInv
<1> USE Basics DEF SInv, FInv
<1>a. o \in Procs /\ o # Host /\ OwnerAt(o) /\ Numbered(o) /\ (at[o] \in Locked => lock = o)
  BY DEF Apart
<1> USE <1>a
<1>c. UNCHANGED running /\ (lock = Host <=> lock' = Host) /\ at'[Host] = at[Host]
      /\ (lock = Host => UNCHANGED <<receipt, active, hostConfig>>)
  <2>1. CASE OwnerStep(o)
    <3>1. CASE Prepare(o)
      BY <3>1 DEF Prepare
    <3>2. ASSUME NEW how \in {"http", "cli"}, Confirm(o, how)
          PROVE UNCHANGED running /\ (lock = Host <=> lock' = Host) /\ at'[Host] = at[Host]
                   /\ (lock = Host => UNCHANGED <<receipt, active, hostConfig>>)
      BY <3>2, RelayAssumption DEF Confirm, Go, TInv, LockOK
    <3>3. CASE Respond(o) \/ Request(o) \/ GiveUp(o)
      <4>1. PICK l \in Unlocked : Go(o, l) /\ UNCHANGED <<running, receipt, active, hostConfig>>
        BY <3>3 DEF Respond, Request, GiveUp, disk, Unlocked
      <4> QED
        BY <4>1, LabelType, RelayAssumption DEF Go, TInv, LockOK
    <3>4. CASE Sent(o) \/ Manual(o) \/ Unsent(o) \/ Compensate(o)
      <4>1. PICK l : Go(o, l) /\ UNCHANGED running /\ lock = Free
        BY <3>4 DEF Sent, Manual, Unsent, Compensate, Advance
      <4> QED
        BY <4>1, RelayAssumption DEF Go, TInv, LockOK
    <3> QED
      BY <2>1, <3>1, <3>2, <3>3, <3>4 DEF OwnerStep
  <2>2. CASE LockedOwnerStep(o)
    <3>1. at[o] \in Locked
      BY <2>2, SMTT(60)
      DEF LockedOwnerStep, CheckReceipt, Allocate, Create, Apply, Consume, Undo, UndoPair, UndoDone,
           CliFlush, CliManual, CompPair, CompDone, CompBad, CompEvent, Locked
    <3>2. PICK l : Go(o, l) /\ UNCHANGED running
      BY <2>2 DEF LockedOwnerStep, CheckReceipt, Allocate, Create, Apply, Consume, Undo, UndoPair,
           UndoDone, CliFlush, CliManual, CompPair, CompDone, CompBad, CompEvent, Advance, WritePair
    <3> QED
      BY <3>1, <3>2, RelayAssumption DEF Go, TInv, LockOK
  <2> QED
    BY <2>1, <2>2
<1>d. HostRuns'
  <2>1. at[Host] \in {"finish", "check", "finalize", "host_event"} => lock = Host
    BY DEF Locked
  <2> QED
    BY <1>c, <2>1 DEF HostRuns, Files
<1>e. ASSUME UNCHANGED <<receipt, active, hostConfig>> PROVE Serving'
  BY <1>c, <1>e DEF Serving, Files, Original
<1>f. ASSUME NEW s, NEW rev, NEW ok, NEW bad, Advance(o, rev, s, ok, bad), rev \in Nat,
             s \in States \ {"none"},
             lock # Host,
             Matches(o, rev) /\ Moved(s) /\ receipt.state # s =>
               \/ s \in {"response_flushed", "restoring_config"}
                  /\ receipt.state \in {"config_applied", "response_flushed"}
               \/ s = "manual_restart_required"
                  /\ receipt.state \in {"response_flushed", "restart_requested",
                                        "validating_new_host"}
               \/ s = "rolled_back" /\ Both(Original) /\ receipt.state = "restoring_config"
               \/ s = "rollback_failed"
      PROVE  Serving'
  <2>1. (receipt' = receipt \/ (Matches(o, rev) /\ Moved(s))) /\ UNCHANGED <<active, hostConfig>>
    BY <1>f, AdvanceEffect DEF TInv, Advance
  <2>2. CASE receipt' = receipt
    BY <1>e, <2>1, <2>2
  <2>3. CASE Matches(o, rev) /\ Moved(s) /\ receipt.state # s
    <3>1. receipt'.state = s /\ receipt'.target = receipt.target
      BY <2>3 DEF Moved
    <3> QED
      BY <1>c, <1>f, <2>1, <2>3, <3>1 DEF Serving, Files, Original, Both
  <2>4. CASE Moved(s) /\ receipt.state = s
    BY <1>e, <2>1, <2>4 DEF Moved, TInv, DataOK, Receipts
  <2> QED
    BY <2>1, <2>2, <2>3, <2>4, SMTT(60)
<1>1. CASE Prepare(o) \/ (\E how \in {"http", "cli"} : Confirm(o, how)) \/ Respond(o)
           \/ Request(o) \/ GiveUp(o)
           \/ CheckReceipt(o) \/ Allocate(o) \/ Consume(o) \/ CompEvent(o)
  BY <1>0, <1>1, <1>d, <1>e DEF Prepare, Confirm, Respond, Request, GiveUp, CheckReceipt, Allocate,
       Consume, CompEvent, disk
<1>2. CASE Create(o)
  <2>1. at[o] = "create" /\ lock = o /\ Both(Flip(ctx[o].target))
        /\ UNCHANGED <<active, hostConfig>>
        /\ receipt.state \in {"none", "healthy", "rolled_back"}
    BY <1>2 DEF Create, Locked, OwnerAt, TInv, Stands
  <2>2. receipt' = receipt \/ (receipt'.state = "config_applied" /\ receipt'.target = ctx[o].target)
    BY <1>2 DEF Create
  <2>3. Serving'
    BY <1>c, <2>1, <2>2 DEF Serving, Files, Original, Both
  <2> QED
    BY <1>0, <1>d, <2>3
<1>3. CASE Apply(o) \/ UndoPair(o) \/ CompPair(o)
  <2>1. lock = o /\ receipt.state \in {"config_applied", "restoring_config"} /\ UNCHANGED receipt
    BY <1>3 DEF Apply, UndoPair, CompPair, Locked, OwnerAt, WritePair
  <2>2. Serving'
    BY <1>c, <2>1 DEF Serving, Original
  <2> QED
    BY <1>0, <1>d, <2>2
<1>g. {"restoring_config", "rolled_back", "rollback_failed", "response_flushed",
       "manual_restart_required"} \subseteq States \ {"none"}
  BY DEF States, Transitions
<1>h. at[o] \in {"undo", "undo_done", "cli_flush", "cli_manual", "comp_done", "comp_bad"}
      => lock # Host
  BY DEF Locked
<1>i. \A s : Moved(s) /\ receipt.state # s => s \in Transitions[receipt.state]
  BY DEF Moved
<1>j. ctx[o].rev \in Nat /\ (Matches(o, ctx[o].rev) => receipt.seq = 0 \/ Knows(o))
      /\ (\A s : Moved(s) => receipt.seq # 0)
  BY DEF Matches, Numbered, Knows, Moved
<1>4. CASE Sent(o)
  <2>1. Matches(o, ctx[o].rev) /\ Moved("response_flushed") => receipt.state = "config_applied"
    BY <1>4, <1>j DEF Sent, OwnerAt
  <2>2. PICK ok : Advance(o, ctx[o].rev, "response_flushed", ok, "compensate") /\ lock = Free
    BY <1>4 DEF Sent
  <2> QED
    BY <1>0, <1>d, <1>f, <1>g, <1>j, <2>1, <2>2, RelayAssumption
<1>5. CASE Manual(o) \/ CliManual(o)
  <2>1. Moved("manual_restart_required") /\ receipt.state # "manual_restart_required" =>
          receipt.state \in {"response_flushed", "restart_requested", "validating_new_host"}
    BY DEF Moved, Transitions, States
  <2>2. PICK bad : Advance(o, ctx[o].rev, "manual_restart_required", "idle", bad) /\ lock # Host
    BY <1>5, <1>h, RelayAssumption DEF Manual, CliManual
  <2> QED
    BY <1>0, <1>d, <1>f, <1>g, <1>j, <2>1, <2>2
<1>6. CASE Unsent(o)
  <2>1. Matches(o, ctx[o].rev) /\ Moved("restoring_config") => receipt.state = "config_applied"
    BY <1>6, <1>j DEF Unsent, OwnerAt
  <2>2. Advance(o, ctx[o].rev, "restoring_config", "comp_pair", "idle") /\ lock = Free
    BY <1>6 DEF Unsent
  <2> QED
    BY <1>0, <1>d, <1>f, <1>g, <1>j, <2>1, <2>2, RelayAssumption
<1>7. CASE Undo(o)
  <2>1. Advance(o, ctx[o].rev, "restoring_config", "undo_pair", "idle") /\ lock # Host
        /\ receipt.state = "config_applied"
    BY <1>7, <1>h DEF Undo, OwnerAt
  <2> QED
    BY <1>0, <1>d, <1>f, <1>g, <1>j, <2>1
<1>8. CASE CliFlush(o)
  <2>1. Advance(o, ctx[o].rev, "response_flushed", "cli_manual", "idle") /\ lock # Host
        /\ receipt.state = "config_applied"
    BY <1>8, <1>h DEF CliFlush, OwnerAt
  <2> QED
    BY <1>0, <1>d, <1>f, <1>g, <1>j, <2>1
<1>9. CASE UndoDone(o) \/ CompDone(o)
  <2>1. PICK ok : Advance(o, ctx[o].rev, "rolled_back", ok, "idle") /\ lock # Host
    BY <1>9, <1>h DEF UndoDone, CompDone
  <2>2. Both(Original) /\ receipt.state = "restoring_config"
    BY <1>9 DEF UndoDone, CompDone, OwnerAt
  <2> QED
    BY <1>0, <1>d, <1>f, <1>g, <1>j, <2>1, <2>2
<1>10. CASE CompBad(o)
  <2>1. Advance(o, ctx[o].rev, "rollback_failed", "comp_event", "idle") /\ lock # Host
    BY <1>10, <1>h DEF CompBad
  <2> QED
    BY <1>0, <1>d, <1>f, <1>g, <1>j, <2>1
<1>11. CASE Compensate(o)
  <2>1. CASE UNCHANGED disk
    BY <1>0, <1>d, <1>e, <2>1 DEF disk
  <2>2. CASE Advance(o, receipt.rev, "restoring_config", "comp_pair", "idle")
             /\ receipt.state \in {"config_applied", "response_flushed"}
    <3>1. lock # Host
      BY <1>11, RelayAssumption DEF Compensate
    <3> QED
      BY <1>0, <1>d, <1>f, <1>g, <2>2, <3>1
  <2> QED
    BY <1>11, <2>1, <2>2 DEF Compensate
<1> QED
  BY <1>1, <1>2, <1>3, <1>4, <1>5, <1>6, <1>7, <1>8, <1>9, <1>10, <1>11 DEF OwnerStep,
       LockedOwnerStep

\* Every step of the Host keeps what the stack runs: it launches on the files as they are, and
\* terminates the stack before it writes other ones.
LEMMA HostServing ==
  ASSUME SInv, HostStep \/ Start \/ Exit
  PROVE  SInv'
<1>0. FInv'
  BY HostFiles DEF SInv
<1> USE Basics DEF SInv, FInv
<1>a. /\ (at[Host] \in Locked <=> lock = Host) /\ running \in Pairs \cup {Down} /\ TInv'
  BY <1>0 DEF TInv, DataOK
<1>s. ASSUME running' = Down, at'[Host] \notin {"finish", "check", "finalize", "host_event"}
      PROVE  Serving' /\ HostRuns'
  BY <1>s DEF Serving, HostRuns
<1>l. (at[Host] \in Locked)' <=> lock' = Host
  BY <1>a DEF TInv, LockOK
<1>1. CASE Start \/ Gate \/ RecoverEvent \/ Reload
  <2>1. UNCHANGED <<running, receipt>> /\ running = Down
    BY <1>1 DEF Start, Gate, RecoverEvent, Reload, HostRuns, HostDown, disk
  <2>2. at'[Host] \in {"recover", "launch", "stop", "gate"}
    BY <1>1 DEF Start, Gate, RecoverEvent, Reload, Go, TInv, LockOK
  <2> QED
    BY <1>0, <1>s, <2>1, <2>2
<1>2. CASE Launch \/ Relaunch
  <2>1. active = hostConfig /\ UNCHANGED <<active, hostConfig, receipt, ctx>>
    BY <1>2, FilesAgree DEF Launch, Relaunch, disk
  <2>2. CASE running' = Files
    <3>1. \/ at'[Host] = "serving" /\ receipt.state \in {"none", "rolled_back"}
          \/ at'[Host] \in {"finish", "check"}
          \/ at'[Host] \in {"start_failed", "unwind"} /\ running' = Down
      BY <1>2, <2>1 DEF Launch, Relaunch, HostAt, Go, TInv, LockOK, HostRuns, HostDown
    <3>2. at'[Host] \in {"finish", "check"} => lock' = Host
      BY <1>l DEF Locked
    <3> QED
      BY <1>0, <1>s, <2>1, <2>2, <3>1, <3>2 DEF Serving, HostRuns, Files, HostDown
  <2>3. CASE UNCHANGED running /\ at'[Host] \in {"start_failed", "unwind"}
    <3>1. running = Down
      BY <1>2 DEF Launch, Relaunch, HostRuns, HostDown
    <3> QED
      BY <1>0, <1>s, <2>3, <3>1
  <2> QED
    BY <1>2, <2>2, <2>3 DEF Launch, Relaunch, Go, TInv, LockOK, Files
<1>3. CASE RecoverPair \/ StartRestore \/ UnwindPair
  <2>1. UNCHANGED running /\ running = Down
        /\ at'[Host] \in {at[Host], "gate", "recover_event", "stop", "broken", "reload"}
        /\ at[Host] \in {"recover_pair", "start_restore", "unwind_pair"}
    BY <1>3 DEF RecoverPair, StartRestore, UnwindPair, WritePair, HostRuns, HostDown, Go, TInv,
         LockOK
  <2> QED
    BY <1>0, <1>s, <2>1
<1>4. CASE FinishRestore
  <2>1. UNCHANGED running /\ at'[Host] \in {"finish_restore", "stop", "broken"}
    BY <1>4 DEF FinishRestore, WritePair, Go, TInv, LockOK
  <2>2. lock' = Host
    BY <1>l, <2>1 DEF Locked
  <2> QED
    BY <1>0, <2>1, <2>2 DEF Serving, HostRuns, HostDown
<1>5. CASE Stop \/ Exit
  <2>1. running' = Down /\ at'[Host] \in {"down", "revalidate"}
    BY <1>5 DEF Stop, Exit, KillStack
  <2> QED
    BY <1>0, <1>s, <2>1
<1>6. CASE Recover
  <2>1. UNCHANGED running /\ running = Down
    BY <1>6 DEF Recover, HostRuns, HostDown
  <2>2. /\ at'[Host] \in {"gate", "host_event", "recover_pair", "stop"}
        /\ at'[Host] = "host_event" => receipt'.state = "rollback_failed"
    BY <1>6 DEF Recover, Go, TInv, LockOK
  <2> QED
    BY <1>0, <2>1, <2>2 DEF Serving, HostRuns
<1>7. CASE HostEvent
  <2>1. UNCHANGED <<running, receipt, active, hostConfig>> /\ at[Host] = "host_event"
    BY <1>7 DEF HostEvent
  <2>2. \/ at'[Host] = "stop"
        \/ at'[Host] \in {"finalize", "serving"} /\ receipt.state \in {"healthy", "rolled_back"}
    BY <1>7 DEF HostEvent, Go, TInv, LockOK, Stands, Terminal
  <2>3. at'[Host] = "stop" => lock' = Host
    BY <1>l DEF Locked
  <2> QED
    BY <1>0, <2>1, <2>2, <2>3 DEF Serving, HostRuns, HostDown, Files
<1>8. CASE Finalize
  <2>1. /\ UNCHANGED <<running, active, hostConfig>> /\ at[Host] = "finalize"
        /\ at'[Host] = "serving"
        /\ receipt' = receipt \/ receipt' = NoReceipt
        /\ receipt.state = "healthy" /\ running = Files
    BY <1>8 DEF Finalize, Go, TInv, LockOK, Stands, HostRuns
  <2>2. running # Down => running[1] = running[2]
    BY DEF Serving
  <2> QED
    BY <1>0, <2>1, <2>2 DEF Serving, HostRuns, HostDown, Files, NoReceipt
<1>9. CASE Broken \/ Revalidate \/ Unwind \/ StartFailed \/ Check \/ Finish
  <2>1. ASSUME NEW s, NEW ok, NEW bad, Advance(Host, ctx[Host].rev, s, ok, bad),
               s \in States \ {"none"}, bad \in {"stop", "broken"},
               \/ ok = "host_event" /\ (s = "rollback_failed" \/ running = Files)
               \/ ok = "finish" /\ running = Files
               \/ ok \in {"relaunch", "start_restore", "unwind_pair"} /\ running = Down
               \/ ok = "finish_restore"
        PROVE SInv'
    <3>1. /\ UNCHANGED <<running, active, hostConfig>>
          /\ \/ at'[Host] = bad
             \/ at'[Host] = ok /\ receipt'.state = s
      <4>1. Go(Host, bad) \/ (Go(Host, ok) /\ receipt'.state = s)
        BY <2>1, AdvanceEffect DEF TInv, Moved
      <4> QED
        BY <2>1, <4>1 DEF Advance, Go, TInv, LockOK
    <3>2. lock' = Host
      <4>1. at'[Host] \in Locked
        BY <2>1, <3>1 DEF Locked
      <4> QED
        BY <1>l, <4>1
    <3> QED
      BY <1>0, <2>1, <3>1, <3>2 DEF Serving, HostRuns, HostDown, Files
  <2>2. {"restoring_config", "rolled_back", "rollback_failed", "healthy", "validating_new_host",
         "restart_requested"} \subseteq States \ {"none"}
    BY DEF States, Transitions
  <2>3. CASE Broken
    BY <2>1, <2>2, <2>3 DEF Broken
  <2>4. CASE Revalidate
    BY <2>1, <2>2, <2>4 DEF Revalidate, HostRuns, HostDown
  <2>5. CASE Unwind
    BY <2>1, <2>2, <2>5 DEF Unwind, HostRuns, HostDown
  <2>6. CASE StartFailed
    <3>1. running = Down
      BY <2>6 DEF StartFailed, HostRuns, HostDown
    <3>2. CASE ctx[Host].mode = "none"
      BY <1>0, <1>s, <2>6, <3>1, <3>2 DEF StartFailed, Go, TInv, LockOK
    <3>3. CASE ctx[Host].mode = "original"
      BY <2>1, <2>2, <2>6, <3>3 DEF StartFailed
    <3>4. CASE ctx[Host].mode \notin {"none", "original"}
      BY <2>1, <2>2, <2>6, <3>1, <3>4 DEF StartFailed
    <3> QED
      BY <3>2, <3>3, <3>4
  <2>7. CASE Check
    <3>1. running = Files
      BY <2>7 DEF Check, HostRuns
    <3>2. CASE Advance(Host, ctx[Host].rev, "healthy", "host_event", "stop")
      BY <2>1, <2>2, <3>1, <3>2
    <3>3. CASE KillStack("unwind")
      BY <1>0, <1>s, <3>3 DEF KillStack
    <3> QED
      BY <2>7, <3>2, <3>3 DEF Check
  <2>8. CASE Finish
    <3>1. /\ running = Files /\ at[Host] = "finish" /\ ctx[Host].mode \in {"original", "target"}
          /\ ctx[Host].mode = "original" => receipt.state = "restoring_config"
      BY <2>8 DEF Finish, HostRuns, HostAt
    <3>2. PICK s, ok : /\ Advance(Host, ctx[Host].rev, s, ok, "stop")
                       /\ \/ s \in {"rolled_back", "rollback_failed", "healthy"}
                             /\ ok = "host_event"
                          \/ s \in {"restart_requested", "validating_new_host"} /\ ok = "finish"
                          \/ s = "restoring_config" /\ ok = "finish_restore"
      <4>1. CASE ctx[Host].mode = "original"
        <5>1. \/ Advance(Host, ctx[Host].rev, "rolled_back", "host_event", "stop")
              \/ Advance(Host, ctx[Host].rev, "rollback_failed", "host_event", "stop")
          BY <2>8, <3>1, <4>1 DEF Finish
        <5> QED
          BY <5>1
      <4>2. CASE ctx[Host].mode = "target"
        <5>1. \/ Advance(Host, ctx[Host].rev, "restart_requested", "finish", "stop")
              \/ Advance(Host, ctx[Host].rev, "validating_new_host", "finish", "stop")
              \/ Advance(Host, ctx[Host].rev, "healthy", "host_event", "stop")
              \/ Advance(Host, ctx[Host].rev, "restoring_config", "finish_restore", "stop")
          <6>1. CASE receipt.state = "response_flushed"
            BY <2>8, <4>2, <6>1 DEF Finish
          <6>2. CASE receipt.state \in {"restart_requested", "manual_restart_required"}
            BY <2>8, <4>2, <6>2 DEF Finish
          <6>3. CASE receipt.state \notin {"response_flushed", "restart_requested",
                                           "manual_restart_required"}
            BY <2>8, <4>2, <6>3 DEF Finish
          <6> QED
            BY <6>1, <6>2, <6>3
        <5> QED
          BY <5>1
      <4> QED
        BY <3>1, <4>1, <4>2
    <3> QED
      BY <2>1, <2>2, <3>1, <3>2
  <2> QED
    BY <1>9, <2>3, <2>4, <2>5, <2>6, <2>7, <2>8
<1> QED
  BY <1>1, <1>2, <1>3, <1>4, <1>5, <1>6, <1>7, <1>8, <1>9 DEF HostStep

\* A request, the ingest, a stop of the machine and a stutter keep SInv.
LEMMA RestServing ==
  ASSUME SInv, (\E r \in requests : Accept(r)) \/ IngestStep \/ Crash \/ UNCHANGED vars
  PROVE  SInv'
<1>0. FInv'
  BY AcceptFiles, RestFiles DEF SInv
<1> USE Basics DEF SInv, FInv
<1>1. ASSUME NEW r \in requests, Accept(r)
      PROVE  SInv'
  <2>1. lock = Free /\ UNCHANGED <<running, active, hostConfig>> /\ at[Host] = "serving"
    BY <1>1 DEF Accept
  <2>2. /\ at'[Host] \in {"serving", "stop_old"}
        /\ receipt' = receipt \/ (receipt.state = "response_flushed"
                                  /\ receipt'.state = "restart_requested"
                                  /\ receipt'.target = receipt.target)
    <3> DEFINE new == [receipt EXCEPT !.state = "restart_requested", !.rev = @ + 1]
    <3>1. r.owner \in Owners
      BY DEF TInv, DataOK
    <3>2. at'[Host] \in {"serving", "stop_old"}
      BY <1>1, <2>1, <3>1 DEF Accept, TInv, LockOK
    <3>3. receipt' = receipt \/ (receipt' = new
                                 /\ "restart_requested" \in Transitions[receipt.state])
      BY <1>1 DEF Accept
    <3>4. "restart_requested" \in Transitions[receipt.state] => receipt.state = "response_flushed"
      BY DEF Transitions, States
    <3>5. ASSUME receipt' = new, receipt.state = "response_flushed"
          PROVE  receipt'.state = "restart_requested" /\ receipt'.target = receipt.target
      <4>1. receipt \in Receipts /\ receipt # NoReceipt /\ "restart_requested" \in States \ {"none"}
        BY <3>5 DEF TInv, DataOK, States, Transitions, NoReceipt
      <4> QED
        BY <3>5, <4>1, BumpTo
    <3> QED
      BY <3>2, <3>3, <3>4, <3>5
  <2> QED
    BY <1>0, <2>1, <2>2, RelayAssumption DEF Serving, HostRuns, HostDown, Files, Original
<1>2. CASE IngestStep \/ UNCHANGED vars
  <2>1. UNCHANGED <<receipt, active, hostConfig, running, at, lock>>
    BY <1>2 DEF IngestStep, IngestBegin, IngestEvent, IngestRead, IngestCommit, IngestAcknowledge,
         IngestUnchanged, vars, disk
  <2> QED
    BY <1>0, <2>1 DEF Serving, HostRuns, Files, Original
<1>3. CASE Crash
  BY <1>0, <1>3 DEF Crash, Serving, HostRuns
<1> QED
  BY <1>1, <1>2, <1>3

\* The stack that serves, and the Host that supervises it, at every moment.
LEMMA ServingInvariant == Spec => []SInv
<1>1. RelayInit => SInv
  <2> SUFFICES ASSUME RelayInit PROVE SInv
    OBVIOUS
  <2>1. FInv
    BY InitFiles
  <2>2. Serving /\ HostRuns
    BY DEF RelayInit, Serving, HostRuns, Procs
  <2> QED
    BY <2>1, <2>2 DEF SInv
<1>2. SInv /\ [Next]_vars => SInv'
  BY OwnerServing, HostServing, RestServing DEF Next
<1> QED
  BY <1>1, <1>2, PTL DEF Spec

\* A stack never runs one old file and one new one, and when nobody is inside a
\* transition and the receipt is absent or final, it runs what the files say.
THEOREM RunsAlwaysRecorded == Spec => []RunsWhatIsRecorded
<1>1. SInv => RunsWhatIsRecorded
  BY RelayAssumption DEF SInv, Serving, RunsWhatIsRecorded, Files
<1> QED
  BY <1>1, ServingInvariant, PTL
-----------------------------------------------------------------------------
(* The outcomes.                                                           *)

\* The outcome of the receipt is out, and no other outcome of its transaction.
Reported ==
  receipt.state # "none" =>
    /\ EventOf(receipt) \in outbox \cup ledger
    /\ \A x \in outbox : x.seq = receipt.seq => x = EventOf(receipt)

Reporting(p) ==
  /\ at[p] \in {"allocate", "create", "finalize"} => Reported
  /\ at[p] = "create" => \A e \in outbox \cup ledger \cup concluded : e.seq < sequence

\* The outcomes, of the receipt and of those before it.
Older(x) ==
  /\ x.state = "healthy" /\ x.rev < receipt.rev
  /\ receipt.state \in {"restoring_config", "rolled_back", "rollback_failed"}

Final(x) == x = EventOf(receipt) /\ receipt.state \in {"rolled_back", "rollback_failed"}

Outcomes ==
  /\ \A x \in outbox : IF x.seq = receipt.seq THEN x = EventOf(receipt)
     \/ Older(x) ELSE x \in concluded
  /\ \A x, y \in outbox : x.seq = y.seq => x = y
  /\ \A c \in concluded : c.seq # receipt.seq
  /\ \A c, d \in concluded : c.seq = d.seq => c = d
  /\ \A x \in ledger : x \in concluded \/ Final(x)
  /\ concluded \subseteq outbox \cup ledger

\* What a pass of the ingest has read, against what is there now.
Unwinding == {"finish_restore", "stop", "broken", "host_event"}

Behind ==
  /\ ingest.snap.state = "healthy" /\ ingest.snap.seq = receipt.seq /\ ingest.snap.rev < receipt.rev
  /\ receipt.state \in {"restoring_config", "rollback_failed"} /\ at[Host] \in Unwinding

Elsewhere ==
  /\ receipt.state # "healthy" /\ at[Host] \notin {"finish", "check"}
  /\ \A x \in outbox : x.seq = receipt.seq => x.state # "healthy"

Passing ==
  /\ running = Down => ingest = NoIngest
  /\ ingest.pc = "event" =>
       receipt = ingest.snap \/ EventOf(ingest.snap) \in concluded \/ Behind
  /\ ingest.pc # "idle" => ingest.snap.seq = receipt.seq \/ Elsewhere
  /\ ingest.pc = "commit" => \A e \in ingest.batch : e \in concluded \/ Final(e)
  /\ ingest.pc = "acknowledge" => ingest.batch \subseteq ledger

\* The fourth layer: one outcome each, and none lost.
KInv == SInv /\ Outcomes /\ Passing /\ \A p \in Procs : Reporting(p)

\* What the types say of the outcomes.
LEMMA EventBasics ==
  ASSUME TInv
  PROVE  /\ \A e \in outbox \cup ledger \cup concluded : e.seq \in Nat /\ e.seq # 0
            /\ e.seq <= sequence /\ e.rev \in Nat /\ e.state \in Terminal
         /\ EventOf(receipt).seq = receipt.seq /\ EventOf(receipt).rev = receipt.rev
         /\ EventOf(receipt).state = receipt.state
         /\ ingest.snap.seq \in Nat /\ ingest.snap.rev \in Nat
         /\ EventOf(ingest.snap).seq = ingest.snap.seq /\ EventOf(ingest.snap).rev = ingest.snap.rev
         /\ EventOf(ingest.snap).state = ingest.snap.state
         /\ ingest.pc = "event" => ingest.snap.state \in Terminal
         /\ NoIngest.pc = "idle" /\ NoReceipt.state = "none" /\ NoReceipt.seq = 0
  BY DEF TInv, DataOK, Events, Receipts, EventOf, NoReceipt, NoIngest, Reading

\* Only the holder of the lock is at a label that says something of the outcomes.
LEMMA OthersReport ==
  ASSUME KInv, NEW p \in Procs, lock \in {p, Free}, NEW q \in Procs \ {p}, at'[q] = at[q]
  PROVE  Reporting(q)'
<1>1. at[q] \notin {"allocate", "create", "finalize"}
  BY Basics DEF KInv, SInv, FInv, Locked
<1> QED
  BY <1>1 DEF Reporting

\* A step that leaves the receipt, the outcomes and the ingest alone.
LEMMA QuietKeeps ==
  ASSUME KInv, NEW p \in Procs, NEW l, Go(p, l), lock \in {p, Free} \/ UNCHANGED sequence,
         UNCHANGED <<receipt, outbox, ledger, concluded, ingest>>,
         p = Host => \/ ingest = NoIngest
                     \/ l \notin {"finish", "check"} /\ at[Host] \notin Unwinding
                     \/ l \in Unwinding
                     \/ l = at[Host],
         UNCHANGED running \/ (running = Down /\ running' # Down)
  PROVE  /\ Outcomes' /\ Passing'
         /\ \A q \in Procs \ {p} : Reporting(q)'
         /\ at'[p] = l
<1> USE Basics, EventBasics DEF KInv, SInv, FInv
<1>1. at'[p] = l /\ \A q \in Procs \ {p} : at'[q] = at[q]
  BY DEF Go, TInv, LockOK
<1>2. Outcomes'
  BY DEF Outcomes, Older, Final
<1>3. Passing'
  BY <1>1 DEF Passing, Behind, Elsewhere, Final, Unwinding
<1>4. ASSUME NEW q \in Procs \ {p} PROVE Reporting(q)'
  <2>1. CASE lock \in {p, Free}
    BY <1>1, <2>1, OthersReport
  <2>2. CASE UNCHANGED sequence
    BY <1>1, <2>2 DEF Reporting, Reported
  <2> QED
    BY <2>1, <2>2
<1> QED
  BY <1>1, <1>2, <1>3, <1>4

\* A move of the receipt keeps the outcomes: only the Host goes back on a healthy
\* one, and while it does it stays at the unwinding labels.
LEMMA MoveKeeps ==
  ASSUME KInv, NEW s \in States \ {"none"}, receipt' = receipt \/ Moved(s),
         UNCHANGED <<outbox, ledger, concluded, ingest, running>>,
         receipt' # receipt /\ receipt.state = "healthy" =>
           ingest = NoIngest \/ at'[Host] \in Unwinding,
         receipt' # receipt /\ s = "healthy" => at[Host] \in {"finish", "check"},
         receipt' # receipt /\ at[Host] \in Unwinding => s = "rollback_failed"
             /\ at'[Host] \in Unwinding,
         \/ at'[Host] = at[Host]
         \/ at'[Host] \notin {"finish", "check"} /\ at[Host] \notin Unwinding
         \/ at'[Host] \in Unwinding
         \/ at[Host] \in {"finish", "check"}
         \/ ingest = NoIngest
  PROVE  Outcomes' /\ Passing'
<1> USE Basics, EventBasics DEF KInv, SInv, FInv
<1>1. CASE receipt' = receipt
  <2>1. Outcomes'
    BY <1>1 DEF Outcomes, Older, Final
  <2>2. Passing'
    BY <1>1 DEF Passing, Behind, Elsewhere, Final, Unwinding
  <2> QED
    BY <2>1, <2>2
<1>2. CASE receipt' # receipt
  <2>1. /\ Moved(s) /\ receipt.state # s /\ s \in Transitions[receipt.state]
        /\ receipt'.seq = receipt.seq /\ receipt'.rev = receipt.rev + 1 /\ receipt'.state = s
        /\ receipt.state # "none"
    BY <1>2 DEF Moved, TInv, DataOK, Receipts
  <2>2. /\ receipt.state \notin {"rolled_back", "rollback_failed"}
        /\ receipt.state = "healthy" => s = "restoring_config"
        /\ receipt.state = "restoring_config" => s \in {"rolled_back", "rollback_failed"}
    BY <2>1 DEF Transitions, States
  <2>3. Outcomes'
    <3>1. \A x \in outbox : x = EventOf(receipt) => receipt.state = "healthy"
      BY <2>2 DEF Terminal
    <3>2. \A x \in outbox : x.seq = receipt.seq => Older(x)'
      BY <2>1, <2>2, <3>1 DEF Outcomes, Older
    <3>3. \A x \in ledger : x \in concluded
      BY <2>2 DEF Outcomes, Final
    <3> QED
      BY <2>1, <3>2, <3>3 DEF Outcomes
  <2>4. Passing'
    <3>1. ingest.pc = "event" => EventOf(ingest.snap) \in concluded \/ Behind'
      <4>1. CASE receipt = ingest.snap /\ ingest.pc = "event"
        <5>1. receipt.state = "healthy" /\ s = "restoring_config"
          BY <2>2, <4>1 DEF Terminal
        <5>2. at'[Host] \in Unwinding
          BY <1>2, <4>1, <5>1
        <5> QED
          BY <2>1, <4>1, <5>1, <5>2 DEF Behind
      <4>2. CASE Behind
        BY <1>2, <2>1, <4>2 DEF Behind
      <4> QED
        BY <4>1, <4>2 DEF Passing
    <3>2. ingest.pc # "idle" => ingest.snap.seq = receipt'.seq \/ Elsewhere'
      BY <1>2, <2>1, <2>2 DEF Passing, Elsewhere, Unwinding
    <3>3. ingest.pc = "commit" => \A e \in ingest.batch : e \in concluded
      BY <2>2 DEF Passing, Final
    <3> QED
      BY <3>1, <3>2, <3>3 DEF Passing
  <2> QED
    BY <2>3, <2>4
<1> QED
  BY <1>1, <1>2

\* An outcome is written over an earlier one of its transaction.
Put(e) == \/ outbox' = outbox
          \/ outbox' = (outbox \ OfTransaction(e)) \cup {e} /\ Writable(e)

\* write_restart_audit_event, successful or not, is a Put.
LEMMA PutOutcome ==
  ASSUME NEW e, WriteEvent(e) \/ EventFails(e)
  PROVE  Put(e) /\ (WriteEvent(e) => outbox' = (outbox \ OfTransaction(e)) \cup {e})
  BY DEF WriteEvent, EventFails, Put

\* The event of the receipt, put over an earlier outcome of its transaction.
LEMMA PutReceipt ==
  ASSUME KInv, receipt.state \in Terminal, Put(EventOf(receipt)),
           UNCHANGED <<receipt, ledger, concluded>>
  PROVE  /\ Outcomes'
         /\ (outbox' = (outbox \ OfTransaction(EventOf(receipt))) \cup {EventOf(receipt)})
            => Reported'
<1> USE Basics, EventBasics DEF KInv, SInv, FInv
<1>1. \A x \in outbox' : (x \in outbox
                          /\ (x = EventOf(receipt) \/ x.seq # receipt.seq \/ outbox' = outbox))
                             \/ x = EventOf(receipt)
  BY DEF Put, OfTransaction
<1>2. \A x \in outbox : x.seq # receipt.seq => x \in outbox'
  BY DEF Put, OfTransaction
<1>3. Outcomes'
  <2>1. \A x \in outbox' : IF x.seq = receipt.seq THEN x = EventOf(receipt)
        \/ Older(x) ELSE x \in concluded
    BY <1>1 DEF Outcomes
  <2>2. \A x, y \in outbox' : x.seq = y.seq => x = y
    BY <1>1 DEF Outcomes, Put, OfTransaction
  <2>3. concluded \subseteq outbox' \cup ledger
    BY <1>2 DEF Outcomes
  <2> QED
    BY <2>1, <2>2, <2>3 DEF Outcomes, Older, Final
<1>4. outbox' = (outbox \ OfTransaction(EventOf(receipt))) \cup {EventOf(receipt)} => Reported'
  BY DEF Reported, OfTransaction
<1> QED
  BY <1>3, <1>4

\* Putting the event of the receipt keeps what a pass of the ingest has read.
LEMMA PutPassing ==
  ASSUME KInv, receipt.state \in Terminal, Put(EventOf(receipt)),
           UNCHANGED <<receipt, ledger, concluded, ingest, running>>,
         \/ at'[Host] = at[Host]
         \/ ingest = NoIngest
         \/ at'[Host] \notin {"finish", "check"} /\ at[Host] \notin Unwinding
         \/ at'[Host] \in Unwinding
         \/ at'[Host] \notin {"finish", "check"} /\ receipt.state \in {"healthy", "rolled_back"}
  PROVE  Passing'
<1> USE Basics, EventBasics DEF KInv, SInv, FInv
<1>1. \A x \in outbox' : x \in outbox \/ x = EventOf(receipt)
  BY DEF Put, OfTransaction
<1>2. ingest.pc = "event" => receipt = ingest.snap \/ EventOf(ingest.snap) \in concluded \/ Behind'
  BY DEF Passing, Behind, Unwinding
<1>3. Elsewhere => Elsewhere' \/ ingest = NoIngest \/ at'[Host] \in {"finish", "check"}
  BY <1>1 DEF Elsewhere
<1>4. at'[Host] \in {"finish", "check"} => ingest = NoIngest \/ at[Host] \in {"finish", "check"}
  BY DEF Unwinding
<1>5. ingest.pc # "idle" => ingest.snap.seq = receipt.seq \/ Elsewhere'
  BY <1>3, <1>4 DEF Passing, Elsewhere
<1> QED
  BY <1>2, <1>5 DEF Passing, Final

\* The receipt goes, and its outcome is out.
LEMMA ConcludeKeeps ==
  ASSUME KInv, SInv', Reported, Conclude, UNCHANGED <<outbox, ledger, ingest, running>>,
         at[Host] \notin Unwinding, at'[Host] \notin {"finish", "check"},
         receipt'.state \in {"none", "config_applied"},
         receipt'.seq # receipt.seq \/ receipt.seq = 0,
         \A e \in outbox \cup ledger \cup concluded : e.seq # receipt'.seq,
         receipt.state \in {"none", "healthy", "rolled_back"}
  PROVE  Outcomes' /\ Passing'
<1> USE Basics, EventBasics DEF KInv, SInv, FInv
<1>1. concluded' = concluded \cup (IF receipt.state = "none" THEN {} ELSE {EventOf(receipt)})
  BY DEF Conclude
<1>2. \A x \in outbox : x \in concluded'
  BY <1>1 DEF Outcomes, Reported
<1>3. \A x \in ledger : x \in concluded'
  BY <1>1 DEF Outcomes, Final
<1>4. \A c \in concluded' : c.seq # receipt'.seq
  BY <1>1
<1>5. \A c, d \in concluded' : c.seq = d.seq => c = d
  BY <1>1 DEF Outcomes
<1>6. concluded' \subseteq outbox \cup ledger
  BY <1>1 DEF Outcomes, Reported
<1>7. Outcomes'
  BY <1>2, <1>3, <1>4, <1>5, <1>6 DEF Outcomes
<1>8. ingest.pc = "event" => EventOf(ingest.snap) \in concluded'
  BY <1>1 DEF Passing, Behind, Terminal
<1>9. ingest.pc = "commit" => \A e \in ingest.batch : e \in concluded'
  BY <1>1 DEF Passing, Final
<1>10. Elsewhere'
  BY DEF Elsewhere
<1> QED
  BY <1>7, <1>8, <1>9, <1>10 DEF Passing

\* A move of the receipt by the process p.
LEMMA AdvanceOutcomes ==
  ASSUME KInv, NEW p \in Procs, lock \in {p, Free}, NEW rev \in Nat, NEW s \in States \ {"none"},
         NEW ok, NEW bad, Advance(p, rev, s, ok, bad), ok \notin {"allocate", "create", "finalize"},
         bad \notin {"allocate", "create", "finalize"},
         Matches(p, rev) /\ Moved(s) /\ receipt.state # s =>
           /\ receipt.state = "healthy" => ingest = NoIngest
              \/ (p = Host /\ {ok, bad} \subseteq Unwinding)
           /\ s = "healthy" => at[Host] \in {"finish", "check"}
           /\ at[Host] \in Unwinding => s = "rollback_failed" /\ p = Host
              /\ {ok, bad} \subseteq Unwinding,
         p = Host => \/ ingest = NoIngest
                     \/ {ok, bad} \subseteq Unwinding
                     \/ at[Host] \in {"finish", "check"}
  PROVE  Outcomes' /\ Passing' /\ \A q \in Procs : Reporting(q)'
<1> USE Basics DEF KInv, SInv, FInv
<1>1. /\ Go(p, ok) \/ Go(p, bad)
      /\ receipt' = receipt \/ (Matches(p, rev) /\ Moved(s))
  BY AdvanceEffect DEF TInv
<1>2. at'[p] \in {ok, bad} /\ \A q \in Procs \ {p} : at'[q] = at[q]
  BY <1>1 DEF Go, TInv, LockOK
<1>3. receipt' # receipt => Matches(p, rev) /\ Moved(s) /\ receipt.state # s
  BY <1>1 DEF Moved, TInv, DataOK, Receipts
<1>4. UNCHANGED <<outbox, ledger, concluded, ingest, running>>
  BY DEF Advance
<1>5. Outcomes' /\ Passing'
  <2>1. receipt' # receipt /\ receipt.state = "healthy" => ingest = NoIngest
        \/ at'[Host] \in Unwinding
    BY <1>2, <1>3
  <2>2. receipt' # receipt /\ s = "healthy" => at[Host] \in {"finish", "check"}
    BY <1>3
  <2>3. receipt' # receipt /\ at[Host] \in Unwinding => s = "rollback_failed"
        /\ at'[Host] \in Unwinding
    BY <1>2, <1>3
  <2>4. \/ at'[Host] = at[Host]
        \/ at'[Host] \in Unwinding
        \/ at[Host] \in {"finish", "check"}
        \/ ingest = NoIngest
    BY <1>2
  <2> QED
    BY <1>1, <1>4, <2>1, <2>2, <2>3, <2>4, MoveKeeps
<1>6. ASSUME NEW q \in Procs PROVE Reporting(q)'
  <2>1. CASE q = p
    BY <1>2, <2>1 DEF Reporting
  <2>2. CASE q # p
    BY <1>2, <2>2, OthersReport
  <2> QED
    BY <2>1, <2>2
<1> QED
  BY <1>5, <1>6

\* Every step of an owner keeps the outcomes: a receipt is only replaced after
\* its outcome is in the outbox.
LEMMA OwnerOutcomes ==
  ASSUME KInv, NEW o \in Owners, OwnerStep(o) \/ LockedOwnerStep(o)
  PROVE  KInv'
<1>0. SInv'
  BY OwnerServing DEF KInv
<1> USE Basics DEF KInv, SInv, FInv
<1>a. o \in Procs /\ o # Host /\ OwnerAt(o) /\ Stands(o) /\ Reporting(o)
      /\ (at[o] \in Locked => lock = o)
  BY DEF Apart, TInv
<1> USE <1>a
<1>b. lock \in {o, Free} => at[Host] \notin Unwinding /\ at[Host] \notin {"finish", "check"}
  BY RelayAssumption DEF Unwinding, Locked
<1>1. ASSUME NEW l, Go(o, l), l \notin {"allocate", "create", "finalize"},
             UNCHANGED <<receipt, outbox, ledger, concluded, ingest, running>>,
             lock \in {o, Free} \/ UNCHANGED sequence
      PROVE  KInv'
  <2>1. Outcomes' /\ Passing' /\ (\A q \in Procs \ {o} : Reporting(q)') /\ at'[o] = l
    BY <1>1, QuietKeeps
  <2> QED
    BY <1>0, <1>1, <2>1 DEF Reporting
<1>2. CASE Prepare(o)
  <2>1. UNCHANGED <<receipt, outbox, ledger, concluded, ingest, running, sequence, at>>
    BY <1>2 DEF Prepare
  <2> QED
    BY <1>0, <2>1 DEF Outcomes, Older, Final, Passing, Behind, Elsewhere, Unwinding, Reporting,
         Reported
<1>3. CASE (\E how \in {"http", "cli"} : Confirm(o, how)) \/ Respond(o) \/ Request(o)
           \/ GiveUp(o) \/ Consume(o)
  <2>1. CASE (\E how \in {"http", "cli"} : Confirm(o, how))
    BY <1>1, <2>1 DEF Confirm
  <2>2. CASE Respond(o) \/ Request(o) \/ GiveUp(o)
    BY <1>1, <2>2 DEF Respond, Request, GiveUp, disk
  <2>3. CASE Consume(o)
    BY <1>1, <2>3 DEF Consume
  <2> QED
    BY <1>3, <2>1, <2>2, <2>3
<1>4. CASE Apply(o) \/ UndoPair(o) \/ CompPair(o)
  <2>1. PICK l \in {at[o], "consume", "undo", "undo_done", "idle", "comp_done", "comp_bad"} :
          Go(o, l)
    BY <1>4 DEF Apply, UndoPair, CompPair, WritePair
  <2>2. l \notin {"allocate", "create", "finalize"}
    BY <1>4 DEF Apply, UndoPair, CompPair
  <2>3. UNCHANGED <<receipt, outbox, ledger, concluded, ingest, running, sequence>>
    BY <1>4 DEF Apply, UndoPair, CompPair, WritePair
  <2> QED
    BY <1>1, <2>1, <2>2, <2>3
<1>c. {"restoring_config", "rolled_back", "rollback_failed", "response_flushed",
       "manual_restart_required"} \subseteq States \ {"none"}
  BY DEF States, Transitions
<1>d. /\ ctx[o].rev \in Nat /\ receipt.rev \in Nat
      /\ \A s : Moved(s) /\ receipt.state # s => s \in Transitions[receipt.state] /\ receipt.seq # 0
  BY DEF Moved
<1>e. \A s \in {"response_flushed", "manual_restart_required", "rolled_back", "rollback_failed"} :
        Moved(s) /\ receipt.state # s => receipt.state # "healthy"
  BY DEF Moved, Transitions
<1>5. ASSUME NEW s, NEW ok, NEW bad, NEW rev \in Nat, Advance(o, rev, s, ok, bad),
             lock \in {o, Free},
             s \in {"response_flushed", "manual_restart_required", "rolled_back",
                    "rollback_failed", "restoring_config"},
             s = "restoring_config" /\ Matches(o, rev) => receipt.state # "healthy",
             ok \notin {"allocate", "create", "finalize"},
                 bad \notin {"allocate", "create", "finalize"}
      PROVE  KInv'
  BY <1>0, <1>5, <1>b, <1>c, <1>e, AdvanceOutcomes
<1>6. CASE Sent(o)
  <2>1. PICK ok \in {"request", "manual"} :
         Advance(o, ctx[o].rev, "response_flushed", ok, "compensate") /\ lock = Free
    BY <1>6 DEF Sent
  <2> QED
    BY <1>5, <1>d, <2>1
<1>7. CASE Manual(o)
  BY <1>5, <1>d, <1>7 DEF Manual
<1>8. CASE Unsent(o)
  <2>1. Matches(o, ctx[o].rev) => receipt.state # "healthy"
    <3>1. SUFFICES ASSUME Matches(o, ctx[o].rev), receipt.state = "healthy" PROVE FALSE
      OBVIOUS
    <3>2. Knows(o) /\ receipt.seq # 0
      BY <3>1 DEF Matches, Knows, Apart, Numbered, NoReceipt
    <3> QED
      BY <1>8, <3>1, <3>2 DEF Unsent, OwnerAt
  <2> QED
    BY <1>5, <1>d, <1>8, <2>1 DEF Unsent
<1>9. CASE Undo(o) \/ UndoDone(o) \/ CliFlush(o) \/ CliManual(o) \/ CompDone(o) \/ CompBad(o)
  <2>1. lock = o
    BY <1>9 DEF Undo, UndoDone, CliFlush, CliManual, CompDone, CompBad, Locked
  <2>2. CASE Undo(o)
    BY <1>5, <1>d, <2>1, <2>2 DEF Undo, OwnerAt
  <2>3. CASE UndoDone(o) \/ CliFlush(o) \/ CliManual(o)
    BY <1>5, <1>d, <2>1, <2>3 DEF UndoDone, CliFlush, CliManual
  <2>4. CASE CompDone(o) \/ CompBad(o)
    BY <1>5, <1>d, <2>1, <2>4 DEF CompDone, CompBad
  <2> QED
    BY <1>9, <2>2, <2>3, <2>4
<1>10. CASE Compensate(o)
  <2>1. CASE receipt.state \in {"config_applied", "response_flushed"}
    <3>1. Advance(o, receipt.rev, "restoring_config", "comp_pair", "idle") /\ lock = Free
      BY <1>10, <2>1 DEF Compensate
    <3> QED
      BY <1>5, <1>d, <2>1, <3>1
  <2>2. CASE receipt.state \notin {"config_applied", "response_flushed"}
    BY <1>1, <1>10, <2>2 DEF Compensate, disk
  <2> QED
    BY <2>1, <2>2
<1>11. ASSUME receipt.state \in Terminal, NEW l, Go(o, l), lock = o,
              WriteEvent(EventOf(receipt)) \/ EventFails(EventOf(receipt)),
              UNCHANGED <<receipt, ledger, concluded, ingest, running>>,
              l = "allocate" => WriteEvent(EventOf(receipt)), l \notin {"create", "finalize"}
       PROVE  KInv'
  <2>1. at'[o] = l /\ \A q \in Procs \ {o} : at'[q] = at[q]
    BY <1>11 DEF Go, TInv, LockOK
  <2>2. Put(EventOf(receipt)) /\ (l = "allocate"
                                  => outbox' = (outbox \ OfTransaction(EventOf(receipt))) \cup {EventOf(receipt)})
    BY <1>11, PutOutcome
  <2>3. Outcomes' /\ (l = "allocate" => Reported')
    BY <1>11, <2>2, PutReceipt
  <2>4. Passing'
    BY <1>11, <2>1, <2>2, PutPassing
  <2>5. ASSUME NEW q \in Procs PROVE Reporting(q)'
    <3>1. CASE q = o
      BY <1>11, <2>1, <2>3, <3>1 DEF Reporting
    <3>2. CASE q # o
      BY <1>11, <2>1, <3>2, OthersReport
    <3> QED
      BY <3>1, <3>2
  <2> QED
    BY <1>0, <2>3, <2>4, <2>5
<1>12. CASE CheckReceipt(o)
  <2>0. lock = o
    BY <1>12 DEF CheckReceipt, Locked
  <2>1. CASE receipt.state = "none" /\ Go(o, "allocate") /\ UNCHANGED outbox
    <3>1. Outcomes' /\ Passing' /\ (\A q \in Procs \ {o} : Reporting(q)') /\ at'[o] = "allocate"
      BY <1>12, <2>0, <2>1, QuietKeeps DEF CheckReceipt
    <3> QED
      BY <1>0, <1>12, <2>1, <3>1 DEF CheckReceipt, Reporting, Reported
  <2>2. CASE receipt.state \in {"healthy", "rolled_back"}
    <3>1. receipt.state \in Terminal
      BY <2>2 DEF Terminal
    <3>2. CASE WriteEvent(EventOf(receipt)) /\ Go(o, "allocate")
      BY <1>11, <1>12, <2>0, <3>1, <3>2 DEF CheckReceipt
    <3>3. CASE EventFails(EventOf(receipt)) /\ Go(o, "idle")
      BY <1>11, <1>12, <2>0, <3>1, <3>3 DEF CheckReceipt
    <3> QED
      BY <1>12, <2>2, <3>2, <3>3 DEF CheckReceipt
  <2>3. CASE Go(o, "idle") /\ UNCHANGED outbox
    BY <1>1, <1>12, <2>3 DEF CheckReceipt
  <2> QED
    BY <1>12, <2>1, <2>2, <2>3 DEF CheckReceipt
<1>13. CASE CompEvent(o)
  <2>1. lock = o /\ receipt.state \in Terminal
    BY <1>13 DEF CompEvent, Locked, Stands
  <2> QED
    BY <1>11, <1>13, <2>1 DEF CompEvent
<1>14. CASE Allocate(o)
  <2>0. lock = o /\ Reported
    BY <1>14 DEF Allocate, Locked, Reporting
  <2>1. PICK l \in {"create", "idle"} : Go(o, l) /\ (l = "create" => sequence' = sequence + 1)
    BY <1>14 DEF Allocate
  <2>2. Outcomes' /\ Passing' /\ (\A q \in Procs \ {o} : Reporting(q)') /\ at'[o] = l
    BY <1>14, <2>0, <2>1, QuietKeeps DEF Allocate
  <2>3. l = "create" => \A e \in outbox \cup ledger \cup concluded : e.seq < sequence'
    BY <2>1, EventBasics
  <2> QED
    BY <1>0, <1>14, <2>0, <2>1, <2>2, <2>3 DEF Allocate, Reporting, Reported
<1>15. CASE Create(o)
  <2>1. lock = o /\ Reported /\ receipt.seq < sequence
        /\ receipt.state \in {"none", "healthy", "rolled_back"}
        /\ \A e \in outbox \cup ledger \cup concluded : e.seq < sequence
    BY <1>15 DEF Create, Locked, Reporting, OwnerAt, Stands
  <2>2. PICK l \in {"apply", "idle"} : Go(o, l)
    BY <1>15 DEF Create
  <2>3. at'[o] = l /\ \A q \in Procs \ {o} : at'[q] = at[q]
    BY <2>2 DEF Go, TInv, LockOK
  <2>4. CASE UNCHANGED <<receipt, concluded>>
    BY <1>1, <1>15, <2>2, <2>4 DEF Create
  <2>5. CASE receipt'.seq = sequence /\ receipt'.state = "config_applied" /\ Conclude
    <3>1. /\ at[Host] \notin Unwinding /\ at'[Host] \notin {"finish", "check"}
          /\ \A e \in outbox \cup ledger \cup concluded : e.seq # receipt'.seq
      BY <1>b, <2>1, <2>3, <2>5, EventBasics
    <3>2. Outcomes' /\ Passing'
      BY <1>0, <1>15, <2>1, <2>5, <3>1, ConcludeKeeps DEF Create
    <3>3. ASSUME NEW q \in Procs PROVE Reporting(q)'
      <4>1. CASE q = o
        BY <2>3, <4>1 DEF Reporting
      <4>2. CASE q # o
        BY <2>1, <2>3, <4>2, OthersReport
      <4> QED
        BY <4>1, <4>2
    <3> QED
      BY <1>0, <3>2, <3>3
  <2> QED
    BY <1>15, <2>4, <2>5 DEF Create
<1> QED
  BY <1>2, <1>3, <1>4, <1>6, <1>7, <1>8, <1>9, <1>10, <1>12, <1>13, <1>14, <1>15 DEF OwnerStep,
       LockedOwnerStep

\* The stack dies, and the pass of the ingest with it.
LEMMA KillOutcomes ==
  ASSUME KInv, NEW l, KillStack(l), l \notin {"allocate", "create", "finalize"},
         UNCHANGED <<disk, managed, ctx, faults, crashes>>
  PROVE  Outcomes' /\ Passing' /\ \A q \in Procs : Reporting(q)'
<1> USE EventBasics DEF KInv, SInv, FInv
<1>1. ingest' = NoIngest
  BY DEF KillStack
<1>2. Passing'
  BY <1>1 DEF Passing
<1>3. Outcomes'
  BY DEF disk, Outcomes, Older, Final
<1>4. ASSUME NEW q \in Procs PROVE Reporting(q)'
  <2>1. at'[q] \in {l, "idle", at[q]}
    BY DEF KillStack
  <2> QED
    BY <2>1 DEF Reporting, Reported, disk
<1> QED
  BY <1>2, <1>3, <1>4

\* Every step of the Host keeps the outcomes: a healthy receipt is removed after
\* its event is written, and a restart it goes back on was never projected.
LEMMA HostOutcomes ==
  ASSUME KInv, HostStep \/ Start \/ Exit
  PROVE  KInv'
<1>0. SInv'
  BY HostServing DEF KInv
<1> USE Basics DEF KInv, SInv, FInv
<1>a. /\ Stands(Host) /\ Reporting(Host) /\ (at[Host] \in Locked => lock = Host)
      /\ at[Host] \in HostDown => ingest = NoIngest
  BY DEF TInv, Passing, HostRuns
<1> USE <1>a
<1>1. ASSUME NEW l, Go(Host, l), l \notin {"allocate", "create", "finalize"},
             UNCHANGED <<receipt, outbox, ledger, concluded, ingest, sequence>>,
             ingest = NoIngest \/ l \in Unwinding,
             UNCHANGED running \/ (running = Down /\ running' # Down)
      PROVE  KInv'
  <2>1. Outcomes' /\ Passing' /\ (\A q \in Procs \ {Host} : Reporting(q)') /\ at'[Host] = l
    BY <1>1, QuietKeeps
  <2> QED
    BY <1>0, <1>1, <2>1 DEF Reporting
<1>2. CASE Start \/ Gate \/ Reload
  <2>1. ingest = NoIngest
    BY <1>2 DEF Start, Gate, Reload, HostDown
  <2>2. CASE Start \/ Gate
    BY <1>1, <2>1, <2>2 DEF Start, Gate, disk
  <2>3. CASE Reload
    BY <1>1, <2>1, <2>3 DEF Reload, disk
  <2> QED
    BY <1>2, <2>2, <2>3
<1>3. CASE Launch \/ Relaunch
  <2>1. ingest = NoIngest /\ running = Down
    BY <1>3 DEF Launch, Relaunch, HostDown, HostRuns
  <2>2. UNCHANGED <<receipt, outbox, ledger, concluded, ingest, sequence>>
    BY <1>3 DEF Launch, Relaunch, disk
  <2>3. running' = running \/ running' # Down
    BY <1>3 DEF Launch, Relaunch, Modes, Down
  <2>4. PICK l \in {"serving", "finish", "start_failed", "check", "unwind"} : Go(Host, l)
    BY <1>3 DEF Launch, Relaunch
  <2> QED
    BY <1>1, <2>1, <2>2, <2>3, <2>4
<1>4. CASE RecoverPair \/ StartRestore \/ FinishRestore \/ UnwindPair
  <2>1. UNCHANGED <<receipt, outbox, ledger, concluded, ingest, sequence, running>>
    BY <1>4 DEF RecoverPair, StartRestore, FinishRestore, UnwindPair, WritePair
  <2>2. PICK l \in {at[Host], "recover_event", "gate", "stop", "broken", "reload"} : Go(Host, l)
    BY <1>4 DEF RecoverPair, StartRestore, FinishRestore, UnwindPair, WritePair
  <2>3. at[Host] \in {"recover_pair", "start_restore", "unwind_pair", "finish_restore"}
    BY <1>4 DEF RecoverPair, StartRestore, FinishRestore, UnwindPair
  <2>4. at[Host] = "finish_restore" => l \in {at[Host], "stop", "broken"}
    <3>1. CASE FinishRestore
      <4>1. \E k \in {at[Host], "stop", "broken"} : Go(Host, k)
        BY <3>1 DEF FinishRestore, WritePair
      <4> QED
        BY <2>2, <4>1 DEF Go, TInv, LockOK
    <3> QED
      BY <1>4, <3>1 DEF RecoverPair, StartRestore, UnwindPair
  <2>5. ingest = NoIngest \/ l \in Unwinding
    BY <2>3, <2>4 DEF HostDown, Unwinding
  <2> QED
    BY <1>1, <2>1, <2>2, <2>3, <2>5
<1>b. {"restoring_config", "rolled_back", "rollback_failed", "healthy", "restart_requested",
       "validating_new_host"} \subseteq States \ {"none"}
  BY DEF States, Transitions
<1>5. ASSUME NEW s \in States \ {"none"}, NEW ok, NEW bad,
             Advance(Host, ctx[Host].rev, s, ok, bad), lock = Host,
             {ok, bad} \cap {"allocate", "create", "finalize"} = {},
             s = "healthy" => at[Host] \in {"finish", "check"},
             s = "restoring_config" => ingest = NoIngest \/ {ok, bad} \subseteq Unwinding,
             \/ ingest = NoIngest /\ at[Host] \notin Unwinding
             \/ {ok, bad} \subseteq Unwinding /\ s = "rollback_failed"
             \/ at[Host] \in {"finish", "check"}
      PROVE  KInv'
  <2>1. Moved(s) /\ receipt.state # s /\ receipt.state = "healthy" => s = "restoring_config"
    BY DEF Moved, Transitions
  <2>2. Outcomes' /\ Passing' /\ \A q \in Procs : Reporting(q)'
    BY <1>5, <2>1, AdvanceOutcomes DEF Unwinding
  <2> QED
    BY <1>0, <2>2
<1>6. CASE Broken
  BY <1>5, <1>6, <1>b DEF Broken, Unwinding, Locked
<1>7. CASE Revalidate \/ Unwind
  <2>1. ingest = NoIngest /\ at[Host] \notin Unwinding /\ lock = Host
    BY <1>7 DEF Revalidate, Unwind, HostDown, Unwinding, Locked
  <2>2. CASE Revalidate
    BY <1>5, <1>b, <2>1, <2>2 DEF Revalidate
  <2>3. CASE Unwind
    BY <1>5, <1>b, <2>1, <2>3 DEF Unwind
  <2> QED
    BY <1>7, <2>2, <2>3
<1>8. CASE StartFailed
  <2>1. ingest = NoIngest /\ at[Host] \notin Unwinding /\ lock = Host
    BY <1>8 DEF StartFailed, HostDown, Unwinding, Locked
  <2>2. CASE ctx[Host].mode = "none"
    BY <1>1, <1>8, <2>1, <2>2 DEF StartFailed, disk
  <2>3. CASE ctx[Host].mode = "original"
    BY <1>5, <1>8, <1>b, <2>1, <2>3 DEF StartFailed
  <2>4. CASE ctx[Host].mode \notin {"none", "original"}
    BY <1>5, <1>8, <1>b, <2>1, <2>4 DEF StartFailed
  <2> QED
    BY <2>2, <2>3, <2>4
<1>9. CASE Check
  <2>1. lock = Host /\ at[Host] = "check"
    BY <1>9 DEF Check, Locked
  <2>2. CASE Advance(Host, ctx[Host].rev, "healthy", "host_event", "stop")
    BY <1>5, <1>b, <2>1, <2>2
  <2>3. CASE KillStack("unwind") /\ UNCHANGED <<disk, managed, ctx, faults, crashes>>
    BY <1>0, <2>3, KillOutcomes
  <2> QED
    BY <1>9, <2>2, <2>3 DEF Check
<1>10. CASE Finish
  <2>1. lock = Host /\ at[Host] = "finish" /\ ctx[Host].mode \in {"original", "target"}
        /\ (ctx[Host].mode = "original" => receipt.state = "restoring_config")
    BY <1>10 DEF Finish, HostAt, Locked
  <2>2. PICK s, ok : /\ Advance(Host, ctx[Host].rev, s, ok, "stop")
                     /\ \/ s \in {"rolled_back", "rollback_failed", "healthy"} /\ ok = "host_event"
                        \/ s \in {"restart_requested", "validating_new_host"} /\ ok = "finish"
                        \/ s = "restoring_config" /\ ok = "finish_restore"
    <4>1. CASE ctx[Host].mode = "original"
      <5>1. \/ Advance(Host, ctx[Host].rev, "rolled_back", "host_event", "stop")
            \/ Advance(Host, ctx[Host].rev, "rollback_failed", "host_event", "stop")
        BY <1>10, <2>1, <4>1 DEF Finish
      <5> QED
        BY <5>1
    <4>2. CASE ctx[Host].mode = "target"
      <5>1. \/ Advance(Host, ctx[Host].rev, "restart_requested", "finish", "stop")
            \/ Advance(Host, ctx[Host].rev, "validating_new_host", "finish", "stop")
            \/ Advance(Host, ctx[Host].rev, "healthy", "host_event", "stop")
            \/ Advance(Host, ctx[Host].rev, "restoring_config", "finish_restore", "stop")
        <6>1. CASE receipt.state = "response_flushed"
          BY <1>10, <4>2, <6>1 DEF Finish
        <6>2. CASE receipt.state \in {"restart_requested", "manual_restart_required"}
          BY <1>10, <4>2, <6>2 DEF Finish
        <6>3. CASE receipt.state \notin {"response_flushed", "restart_requested",
                                         "manual_restart_required"}
          BY <1>10, <4>2, <6>3 DEF Finish
        <6> QED
          BY <6>1, <6>2, <6>3
      <5> QED
        BY <5>1
    <4> QED
      BY <2>1, <4>1, <4>2
  <2>3. s = "restoring_config" => {ok, "stop"} \subseteq Unwinding
    BY <2>2 DEF Unwinding
  <2>4. s \in States \ {"none"}
    BY <1>b, <2>2
  <2> QED
    BY <1>5, <2>1, <2>2, <2>3, <2>4
<1>11. ASSUME receipt.state \in Terminal, NEW l, Go(Host, l), lock = Host,
              WriteEvent(EventOf(receipt)) \/ EventFails(EventOf(receipt)),
              UNCHANGED <<receipt, ledger, concluded, ingest, running>>,
              l = "finalize" => WriteEvent(EventOf(receipt)), l \notin {"create", "allocate"},
              \/ ingest = NoIngest
              \/ l \in Unwinding
              \/ l \notin {"finish", "check"} /\ receipt.state \in {"healthy", "rolled_back"}
       PROVE  KInv'
  <2>1. at'[Host] = l /\ \A q \in Procs \ {Host} : at'[q] = at[q]
    BY <1>11 DEF Go, TInv, LockOK
  <2>2. Put(EventOf(receipt)) /\ (l = "finalize"
                                  => outbox' = (outbox \ OfTransaction(EventOf(receipt))) \cup {EventOf(receipt)})
    BY <1>11, PutOutcome
  <2>3. Outcomes' /\ (l = "finalize" => Reported')
    BY <1>11, <2>2, PutReceipt
  <2>4. Passing'
    BY <1>11, <2>1, <2>2, PutPassing
  <2>5. ASSUME NEW q \in Procs PROVE Reporting(q)'
    <3>1. CASE q = Host
      BY <1>11, <2>1, <2>3, <3>1 DEF Reporting
    <3>2. CASE q # Host
      BY <1>11, <2>1, <3>2, OthersReport
    <3> QED
      BY <3>1, <3>2
  <2> QED
    BY <1>0, <2>3, <2>4, <2>5
<1>12. CASE RecoverEvent
  <2>1. ingest = NoIngest /\ lock = Host /\ receipt.state \in Terminal
    BY <1>12 DEF RecoverEvent, HostDown, Locked, Stands
  <2> QED
    BY <1>11, <1>12, <2>1 DEF RecoverEvent
<1>13. CASE HostEvent
  <2>1. lock = Host /\ receipt.state \in Terminal
    BY <1>13 DEF HostEvent, Locked, Stands
  <2>2. PICK l : /\ Go(Host, l)
                 /\ \/ l = "finalize" /\ receipt.state = "healthy" /\ WriteEvent(EventOf(receipt))
                    \/ l = "serving" /\ receipt.state \in {"healthy", "rolled_back"}
                    \/ l = "stop"
    BY <1>13, <2>1 DEF HostEvent, Terminal
  <2>3. WriteEvent(EventOf(receipt)) \/ EventFails(EventOf(receipt))
    BY <1>13 DEF HostEvent
  <2>4. UNCHANGED <<receipt, ledger, concluded, ingest, running>>
    BY <1>13 DEF HostEvent
  <2> QED
    BY <1>11, <2>1, <2>2, <2>3, <2>4 DEF Unwinding
<1>14. CASE Finalize
  <2>1. lock = Host /\ at[Host] = "finalize" /\ Reported /\ receipt.state = "healthy"
        /\ Go(Host, "serving")
        /\ UNCHANGED <<outbox, ledger, ingest, running, sequence>>
    BY <1>14 DEF Finalize, Locked, Reporting, Stands
  <2>2. at'[Host] = "serving" /\ \A q \in Procs \ {Host} : at'[q] = at[q]
    BY <2>1 DEF Go, TInv, LockOK
  <2>3. Outcomes' /\ Passing'
    <3>1. CASE receipt' = NoReceipt /\ Conclude
      BY <1>0, <2>1, <2>2, <3>1, EventBasics, ConcludeKeeps DEF Unwinding
    <3>2. CASE UNCHANGED <<receipt, concluded>>
      BY <2>1, <2>2, <3>2, QuietKeeps DEF Unwinding
    <3> QED
      BY <1>14, <3>1, <3>2 DEF Finalize
  <2>4. ASSUME NEW q \in Procs PROVE Reporting(q)'
    <3>1. CASE q = Host
      BY <2>2, <3>1 DEF Reporting
    <3>2. CASE q # Host
      BY <2>1, <2>2, <3>2, OthersReport
    <3> QED
      BY <3>1, <3>2
  <2> QED
    BY <1>0, <2>3, <2>4
<1>15. CASE Stop \/ Exit
  <2>1. PICK l \in {"down", "revalidate"} : KillStack(l)
             /\ UNCHANGED <<disk, managed, ctx, faults, crashes>>
    BY <1>15 DEF Stop, Exit
  <2> QED
    BY <1>0, <2>1, KillOutcomes
<1>16. CASE Recover
  <2>1. ingest = NoIngest /\ lock = Host /\ at[Host] = "recover"
    BY <1>16 DEF Recover, HostDown, Locked
  <2>2. UNCHANGED <<outbox, ledger, concluded, ingest, running, sequence>>
    BY <1>16 DEF Recover
  <2>3. PICK l \in {"gate", "host_event", "recover_pair", "stop"} : Go(Host, l)
    BY <1>16 DEF Recover
  <2>4. \/ receipt' = receipt
        \/ receipt.state = "config_applied"
           /\ receipt' = [receipt EXCEPT !.state = "restoring_config", !.rev = @ + 1]
    BY <1>16 DEF Recover
  <2>5. CASE receipt' = receipt
    BY <1>1, <2>1, <2>2, <2>3, <2>5
  <2>6. CASE receipt.state = "config_applied"
             /\ receipt' = [receipt EXCEPT !.state = "restoring_config", !.rev = @ + 1]
    <3>1. receipt \in Receipts /\ receipt # NoReceipt
          /\ "restoring_config" \in Transitions[receipt.state]
      BY <2>6 DEF TInv, DataOK, NoReceipt, Transitions
    <3>2. receipt' = [seq |-> receipt.seq, rev |-> receipt.rev + 1, state |-> "restoring_config",
                      target |-> receipt.target]
      BY <1>b, <2>6, <3>1, Bump
    <3>3. Moved("restoring_config")
      BY <2>6, <3>1, <3>2 DEF Moved
    <3>4. Outcomes' /\ Passing'
      BY <1>b, <2>1, <2>2, <2>6, <3>3, MoveKeeps DEF Unwinding
    <3>5. at'[Host] = l /\ \A q \in Procs \ {Host} : at'[q] = at[q]
      BY <2>3 DEF Go, TInv, LockOK
    <3>6. ASSUME NEW q \in Procs PROVE Reporting(q)'
      <4>1. CASE q = Host
        BY <2>3, <3>5, <4>1 DEF Reporting
      <4>2. CASE q # Host
        BY <2>1, <3>5, <4>2, OthersReport
      <4> QED
        BY <4>1, <4>2
    <3> QED
      BY <1>0, <3>4, <3>6
  <2> QED
    BY <2>4, <2>5, <2>6
<1> QED
  BY <1>2, <1>3, <1>4, <1>6, <1>7, <1>8, <1>9, <1>10, <1>12, <1>13, <1>14, <1>15, <1>16 DEF HostStep

\* A request taken by the supervisor keeps the outcomes.
LEMMA AcceptOutcomes ==
  ASSUME KInv, NEW r \in requests, Accept(r)
  PROVE  KInv'
<1>0. SInv'
  BY RestServing DEF KInv
<1> USE Basics DEF KInv, SInv, FInv
<1>1. lock = Free /\ at[Host] = "serving" /\ r.owner \in Owners
      /\ UNCHANGED <<outbox, ledger, concluded, ingest, running, sequence>>
  BY <1>0 DEF Accept, TInv, DataOK
<1>2. \A q \in Procs : at'[q] \in {"idle", "manual", "stop_old", at[q]}
  BY <1>1 DEF Accept, TInv, LockOK
<1>3. at'[Host] \in {"serving", "stop_old"}
  BY <1>1 DEF Accept, TInv, LockOK
<1>4. \A q \in Procs : at[q] \notin {"allocate", "create", "finalize"}
  BY <1>1 DEF Locked
<1>5. receipt' = receipt \/ (receipt.state = "response_flushed" /\ Moved("restart_requested"))
  <2>1. \/ receipt' = receipt
        \/ /\ receipt' = [receipt EXCEPT !.state = "restart_requested", !.rev = @ + 1]
           /\ "restart_requested" \in Transitions[receipt.state]
    BY DEF Accept
  <2>2. "restart_requested" \in Transitions[receipt.state] => receipt.state = "response_flushed"
    BY DEF Transitions, States
  <2>3. ASSUME receipt' = [receipt EXCEPT !.state = "restart_requested", !.rev = @ + 1],
               receipt.state = "response_flushed"
        PROVE  Moved("restart_requested")
    <3>1. receipt \in Receipts /\ receipt # NoReceipt /\ "restart_requested" \in States \ {"none"}
          /\ "restart_requested" \in Transitions[receipt.state]
      BY <2>3 DEF TInv, DataOK, NoReceipt, Transitions, States
    <3>2. receipt' = [seq |-> receipt.seq, rev |-> receipt.rev + 1, state |-> "restart_requested",
                      target |-> receipt.target]
      BY <2>3, <3>1, Bump
    <3> QED
      BY <2>3, <3>1, <3>2 DEF Moved
  <2> QED
    BY <2>1, <2>2, <2>3
<1>6. Outcomes' /\ Passing'
  <2>1. "restart_requested" \in States \ {"none"}
    BY DEF States, Transitions
  <2> QED
    BY <1>1, <1>3, <1>5, <2>1, MoveKeeps DEF Unwinding
<1>7. \A q \in Procs : Reporting(q)'
  BY <1>2, <1>4 DEF Reporting
<1> QED
  BY <1>0, <1>6, <1>7

\* A pass of the ingest writes the event of the receipt it has read, which may
\* have moved on or be gone by then.
LEMMA EventKeeps ==
  ASSUME KInv, SInv', IngestEvent
  PROVE  KInv'
<1> USE Basics, EventBasics DEF KInv, SInv, FInv
<1> DEFINE e == EventOf(ingest.snap)
<1>1. /\ UNCHANGED <<receipt, sequence, concluded, running, lock, at, ledger>>
      /\ ingest.pc = "event"
      /\ Put(e) /\ e.seq = ingest.snap.seq /\ e.state = ingest.snap.state /\ e.rev = ingest.snap.rev
      /\ ingest' = NoIngest \/ ingest' = [ingest EXCEPT !.pc = "read"]
  BY PutOutcome DEF IngestEvent, IngestUnchanged
<1>p. ingest'.pc \in {"idle", "read"} /\ ingest'.snap \in {ingest.snap, NoReceipt}
      /\ (ingest'.pc = "idle" => ingest' = NoIngest)
      /\ (ingest'.pc # "idle" => ingest'.snap = ingest.snap)
  BY <1>1 DEF TInv, DataOK, NoIngest
<1>k. running # Down
  BY <1>1 DEF Passing
<1>q. ASSUME ingest.snap.seq = receipt.seq, Outcomes', \A q \in Procs : Reporting(q)'
      PROVE  KInv'
  BY <1>1, <1>p, <1>k, <1>q DEF Passing
<1> HIDE DEF e
<1>2. CASE receipt = ingest.snap
  <2>1. e = EventOf(receipt) /\ receipt.state \in Terminal
    BY <1>1, <1>2 DEF e
  <2>2. Outcomes'
    BY <1>1, <2>1, PutReceipt
  <2>3. ASSUME NEW q \in Procs PROVE Reporting(q)'
    <3>1. Reported => Reported'
      BY <1>1, <2>1 DEF Reported, Put, OfTransaction
    <3>2. at[q] = "create" => \A x \in outbox' \cup ledger \cup concluded : x.seq < sequence
      <4>1. \A x \in outbox' : x \in outbox \/ x = EventOf(receipt)
        BY <1>1, <2>1 DEF Put, OfTransaction
      <4>2. at[q] = "create" => EventOf(receipt) \in outbox \cup ledger
        BY <2>1 DEF Reporting, Reported, Terminal
      <4> QED
        BY <4>1, <4>2 DEF Reporting
    <3> QED
      BY <1>1, <3>1, <3>2 DEF Reporting
  <2> QED
    BY <1>2, <1>q, <2>2, <2>3
<1>3. CASE e \in concluded
  <2>1. \A x \in outbox : x.seq = e.seq => x = e
    BY <1>3 DEF Outcomes
  <2>2. outbox' = outbox \/ outbox' = outbox \cup {e}
    BY <1>1, <2>1 DEF Put, OfTransaction
  <2>3. e.seq # receipt.seq
    BY <1>3 DEF Outcomes
  <2>4. Outcomes'
    <3>1. \A x, y \in outbox' : x.seq = y.seq => x = y
      BY <2>1, <2>2 DEF Outcomes
    <3>2. \A x \in outbox' : IF x.seq = receipt.seq THEN x = EventOf(receipt)
          \/ Older(x) ELSE x \in concluded
      BY <1>3, <2>2, <2>3 DEF Outcomes
    <3>3. concluded \subseteq outbox' \cup ledger
      BY <2>2 DEF Outcomes
    <3> QED
      BY <1>1, <3>1, <3>2, <3>3 DEF Outcomes, Older, Final
  <2>5. ASSUME NEW q \in Procs PROVE Reporting(q)'
    BY <1>1, <1>3, <2>2, <2>3 DEF Reporting, Reported
  <2>6. Passing'
    BY <1>1, <1>p, <1>k, <2>2, <2>3 DEF Passing, Elsewhere
  <2> QED
    BY <2>4, <2>5, <2>6
<1>4. CASE Behind
  <2>1. e.state = "healthy" /\ e.seq = receipt.seq /\ e.rev < receipt.rev
    BY <1>1, <1>4 DEF Behind
  <2>2. (e \in outbox \/ OfTransaction(e) = {}) \/ outbox' = outbox
    BY <1>1, <2>1 DEF Put, Writable
  <2>3. outbox' = outbox \/ outbox' = outbox \cup {e}
    BY <1>1, <2>2 DEF Put, OfTransaction, Outcomes
  <2>4. outbox' = outbox \/ \A x \in outbox : x.seq = e.seq => x = e
    BY <2>2 DEF OfTransaction, Outcomes
  <2>5. Older(e)
    BY <1>4, <2>1 DEF Behind, Older
  <2>6. Outcomes'
    <3>1. \A x, y \in outbox' : x.seq = y.seq => x = y
      BY <2>3, <2>4 DEF Outcomes
    <3>2. \A x \in outbox' : IF x.seq = receipt.seq THEN x = EventOf(receipt)
          \/ Older(x) ELSE x \in concluded
      BY <2>1, <2>3, <2>5 DEF Outcomes
    <3>3. concluded \subseteq outbox' \cup ledger
      BY <2>3 DEF Outcomes
    <3> QED
      BY <1>1, <3>1, <3>2, <3>3 DEF Outcomes, Older, Final
  <2>7. ASSUME NEW q \in Procs PROVE Reporting(q)'
    <3>1. at[Host] \in Locked /\ at[Host] \notin {"allocate", "create", "finalize"}
      BY <1>4 DEF Behind, Unwinding, Locked
    <3>2. lock = Host
      BY <3>1
    <3>3. at[q] \notin {"allocate", "create", "finalize"}
      BY <3>1, <3>2 DEF Locked
    <3> QED
      BY <1>1, <3>3 DEF Reporting
  <2> QED
    BY <1>1, <1>q, <2>1, <2>6, <2>7
<1> QED
  BY <1>1, <1>2, <1>3, <1>4 DEF Passing, e

\* A pass of the ingest keeps the outcomes: what it takes is final or concluded,
\* and what it removes is in the ledger.
LEMMA IngestOutcomes ==
  ASSUME KInv, IngestStep
  PROVE  KInv'
<1>0. SInv'
  BY RestServing DEF KInv
<1> USE Basics, EventBasics DEF KInv, SInv, FInv
<1>a. UNCHANGED <<receipt, sequence, concluded, running, lock, at>>
  BY DEF IngestStep, IngestBegin, IngestEvent, IngestRead, IngestCommit, IngestAcknowledge,
       IngestUnchanged
<1>b. ASSUME UNCHANGED <<outbox, ledger>> PROVE Outcomes' /\ \A q \in Procs : Reporting(q)'
  BY <1>a, <1>b DEF Outcomes, Older, Final, Reporting, Reported
<1>c. UNCHANGED outbox => (Elsewhere' <=> Elsewhere)
  BY <1>a DEF Elsewhere
<1>d. ingest.pc # "idle" => running # Down
  BY DEF Passing
<1>1. CASE IngestBegin
  <2>1. /\ UNCHANGED <<outbox, ledger>> /\ ingest'.snap = receipt
        /\ ingest'.pc \in {"event", "read"} /\ running # Down
    BY <1>1 DEF IngestBegin, NoIngest
  <2>2. Passing'
    BY <1>a, <2>1 DEF Passing
  <2> QED
    BY <1>0, <1>b, <2>1, <2>2
<1>2. CASE IngestEvent
  BY <1>0, <1>2, EventKeeps
<1>3. CASE IngestRead
  <2> DEFINE batch == {e \in outbox : ~Deferred(e)}
  <2>1. /\ UNCHANGED <<outbox, ledger>> /\ ingest.pc = "read"
        /\ \/ ingest' = NoIngest
           \/ ingest'.pc = "commit" /\ ingest'.batch = batch /\ ingest'.snap = ingest.snap
    BY <1>3 DEF IngestRead, TInv, DataOK
  <2>2. ASSUME NEW e \in batch PROVE e \in concluded \/ Final(e)
    <3>1. CASE e.seq # receipt.seq
      BY <3>1 DEF Outcomes
    <3>2. CASE e.seq = receipt.seq /\ e.state # "healthy"
      BY <3>2 DEF Outcomes, Older, Final, Terminal
    <3>3. CASE e.seq = receipt.seq /\ e.state = "healthy"
      BY <2>1, <3>3 DEF Passing, Elsewhere, Deferred
    <3> QED
      BY <3>1, <3>2, <3>3
  <2>3. Passing'
    <3>1. CASE ingest' = NoIngest
      BY <3>1, <1>a DEF Passing
    <3>2. CASE ingest'.pc = "commit" /\ ingest'.batch = batch /\ ingest'.snap = ingest.snap
      BY <1>a, <1>c, <1>d, <2>1, <2>2, <3>2 DEF Passing, Final
    <3> QED
      BY <2>1, <3>1, <3>2
  <2> QED
    BY <1>0, <1>b, <2>1, <2>3
<1>4. CASE IngestCommit
  <2>0. ingest.pc = "commit" /\ UNCHANGED outbox
    BY <1>4 DEF IngestCommit
  <2>1. ASSUME NEW e \in ingest.batch, ledger' = ledger \cup {e}, ingest' = ingest
        PROVE  KInv'
    <3>1. e \in concluded \/ Final(e)
      BY <2>0 DEF Passing
    <3>2. Outcomes'
      BY <1>a, <2>0, <2>1, <3>1 DEF Outcomes, Older, Final
    <3>3. Passing'
      BY <1>a, <1>c, <2>0, <2>1 DEF Passing, Behind, Final
    <3>4. ASSUME NEW q \in Procs PROVE Reporting(q)'
      <4>1. Reported => Reported'
        BY <1>a, <2>0, <2>1 DEF Reported
      <4>2. at[q] = "create" => e.seq < sequence
        BY <3>1 DEF Reporting, Reported, Final
      <4> QED
        BY <1>a, <2>0, <2>1, <4>1, <4>2 DEF Reporting
    <3> QED
      BY <1>0, <3>2, <3>3, <3>4
  <2>2. CASE ingest' = NoIngest /\ UNCHANGED ledger
    <3>1. Passing'
      BY <1>a, <2>2 DEF Passing
    <3> QED
      BY <1>0, <1>b, <2>0, <2>2, <3>1
  <2>3. CASE /\ ingest.batch \subseteq ledger /\ UNCHANGED ledger
             /\ ingest' = [ingest EXCEPT !.pc = "acknowledge",
                           !.batch = {e \in @ : e.seq # ingest.snap.seq}]
    <3>1. ingest'.pc = "acknowledge" /\ ingest'.snap = ingest.snap
          /\ ingest'.batch \subseteq ingest.batch
      BY <2>3 DEF TInv, DataOK
    <3>2. Passing'
      BY <1>a, <1>c, <1>d, <2>0, <2>3, <3>1 DEF Passing
    <3> QED
      BY <1>0, <1>b, <2>0, <2>3, <3>2
  <2> QED
    BY <1>4, <2>1, <2>2, <2>3 DEF IngestCommit
<1>5. CASE IngestAcknowledge
  <2>0. ingest.pc = "acknowledge" /\ UNCHANGED ledger
    BY <1>5 DEF IngestAcknowledge
  <2>1. \/ outbox' = outbox
        \/ \E e \in ingest.batch : outbox' = outbox \ {e}
    BY <1>5 DEF IngestAcknowledge
  <2>2. /\ outbox' \subseteq outbox
        /\ \A x \in outbox : x \in outbox' \/ x \in ledger
    BY <2>0, <2>1 DEF Passing
  <2>3. /\ ingest'.pc \in {"idle", "acknowledge"} /\ (ingest'.pc = "idle" => ingest' = NoIngest)
        /\ (ingest'.pc = "acknowledge" => ingest'.snap = ingest.snap
            /\ ingest'.batch \subseteq ingest.batch)
    <3>1. \/ ingest' = NoIngest
          \/ \E e \in ingest.batch : ingest' = [ingest EXCEPT !.batch = @ \ {e}]
      BY <1>5 DEF IngestAcknowledge
    <3> QED
      BY <2>0, <3>1 DEF TInv, DataOK
  <2>4. Outcomes'
    BY <1>a, <2>0, <2>2 DEF Outcomes, Older, Final
  <2>5. \A q \in Procs : Reporting(q)'
    BY <1>a, <2>0, <2>2 DEF Reporting, Reported
  <2>6. Passing'
    <3>1. Elsewhere => Elsewhere'
      BY <1>a, <2>2 DEF Elsewhere
    <3> QED
      BY <1>a, <1>d, <2>0, <2>3, <3>1 DEF Passing
  <2> QED
    BY <1>0, <2>4, <2>5, <2>6
<1> QED
  BY <1>1, <1>2, <1>3, <1>4, <1>5 DEF IngestStep

\* A stop of the machine and a stutter keep the outcomes.
LEMMA RestOutcomes ==
  ASSUME KInv, Crash \/ UNCHANGED vars
  PROVE  KInv'
<1>0. SInv'
  BY RestServing DEF KInv
<1> USE Basics, EventBasics DEF KInv, SInv, FInv
<1>1. Outcomes'
  BY DEF Crash, vars, disk, Outcomes, Older, Final
<1>2. Passing'
  BY DEF Crash, vars, disk, Passing, Behind, Elsewhere, Final
<1>3. \A q \in Procs : Reporting(q)'
  BY DEF Crash, vars, disk, Reporting, Reported
<1> QED
  BY <1>0, <1>1, <1>2, <1>3

\* The outcomes, of the receipt and of those before it, at every moment.
LEMMA OutcomeInvariant == Spec => []KInv
<1>1. RelayInit => KInv
  <2> SUFFICES ASSUME RelayInit PROVE KInv
    OBVIOUS
  <2>1. FInv
    BY InitFiles
  <2>2. Serving /\ HostRuns
    BY DEF RelayInit, Serving, HostRuns, Procs
  <2>3. Outcomes /\ Passing /\ \A p \in Procs : Reporting(p)
    BY DEF RelayInit, Outcomes, Passing, Reporting, NoIngest
  <2> QED
    BY <2>1, <2>2, <2>3 DEF SInv, KInv
<1>2. KInv /\ [Next]_vars => KInv'
  BY OwnerOutcomes, HostOutcomes, AcceptOutcomes, IngestOutcomes, RestOutcomes DEF Next
<1> QED
  BY <1>1, <1>2, PTL DEF Spec

\* The final outcome of every transaction whose receipt is gone is in the outbox
\* or in the audit ledger, whatever write failed and whenever the machine
\* stopped.
THEOREM OutcomeNeverLost == Spec => []OutcomeNotLost
<1>1. KInv => OutcomeNotLost
  BY DEF KInv, Outcomes, OutcomeNotLost
<1> QED
  BY <1>1, OutcomeInvariant, PTL

\* The audit ledger never tells two outcomes of one transaction, nor one that its
\* receipt contradicts: a healthy restart that may still be rolled back is not
\* projected by a pass that read an older receipt.
THEOREM AlwaysOneOutcome == Spec => []OneOutcome
<1>1. ASSUME KInv PROVE OneOutcome
  <2>1. /\ Outcomes /\ EventOf(receipt).seq = receipt.seq
    BY <1>1, EventBasics DEF KInv, SInv, FInv
  <2>2. \A e, f \in ledger \cup concluded : f.seq = e.seq => f = e
    BY <2>1 DEF Outcomes, Final
  <2>3. \A e \in ledger : receipt.seq = e.seq => e = EventOf(receipt)
    BY <2>1 DEF Outcomes, Final
  <2> QED
    BY <2>2, <2>3 DEF OneOutcome
<1> QED
  BY <1>1, OutcomeInvariant, PTL
-----------------------------------------------------------------------------
(* The promise of SettleOnce: what one step does to the receipt, the two   *)
(* files, the concluded transactions and the ledger.                       *)

\* Nothing of it changes, but the files under a receipt that promises nothing.
Still ==
  /\ UNCHANGED <<receipt, concluded, ledger>>
  /\ \/ UNCHANGED <<active, hostConfig>>
     \/ receipt.state \in {"config_applied", "restoring_config"}

\* The receipt moves along the table.
Moves ==
  /\ UNCHANGED <<active, hostConfig, concluded, ledger>>
  /\ receipt' = receipt \/ \E s \in States \ {"none"} : Moved(s)

\* A new receipt, on files that agree.
Opens ==
  /\ UNCHANGED <<active, hostConfig, ledger>> /\ active = hostConfig /\ Conclude
  /\ receipt.state \in {"none", "healthy", "rolled_back"}
  /\ receipt'.seq = sequence /\ receipt'.state = "config_applied"
  /\ receipt'.target = Flip(active)
  /\ receipt.seq < sequence /\ \A e \in ledger \cup concluded : e.seq < sequence

\* The receipt is removed.
Closes ==
  /\ UNCHANGED <<active, hostConfig, ledger>> /\ Conclude
  /\ receipt.state = "healthy" /\ receipt' = NoReceipt

\* The ledger learns an outcome that is final.
Tells ==
  /\ UNCHANGED <<receipt, active, hostConfig, concluded>>
  /\ \E e \in Events : (e \in concluded \/ Final(e)) /\ ledger' = ledger \cup {e}

DiskStep == Still \/ Moves \/ Opens \/ Closes \/ Tells

\* _write_config_pair touches the files only while the receipt promises nothing.
LEMMA PairStill ==
  ASSUME FInv, FInv', NEW p, NEW dest, NEW ok, NEW bad, WritePair(p, dest, ok, bad)
  PROVE  Still
<1>1. UNCHANGED <<receipt, concluded, ledger>>
  BY DEF WritePair
<1>2. UNCHANGED <<active, hostConfig>> \/ pairAt # "active" \/ pairAt' # "active"
  BY DEF WritePair
<1> QED
  BY <1>1, <1>2 DEF FInv, Writing, Still

\* transition_restart_receipt moves the receipt along the table, or not at all.
LEMMA AdvanceMoves ==
  ASSUME FInv, NEW p \in Procs, NEW rev \in Nat, NEW s \in States \ {"none"}, NEW ok, NEW bad,
         Advance(p, rev, s, ok, bad)
  PROVE  Moves
<1>1. receipt' = receipt \/ Moved(s)
  BY AdvanceEffect DEF FInv, TInv
<1> QED
  BY <1>1 DEF Advance, Moves

\* The states that a receipt is moved to.
LEMMA MovedTo ==
  {"response_flushed", "restart_requested", "validating_new_host", "restoring_config", "healthy",
   "rolled_back", "rollback_failed", "manual_restart_required"} \subseteq States \ {"none"}
  BY DEF States, Transitions

\* The steps of an owner.
LEMMA OwnerDisk ==
  ASSUME KInv, KInv', NEW o \in Owners, OwnerStep(o) \/ LockedOwnerStep(o)
  PROVE  DiskStep
<1> USE Basics DEF KInv, SInv, FInv
<1>a. o \in Procs /\ OwnerAt(o) /\ Stands(o) /\ Reporting(o) /\ FInv /\ FInv'
      /\ ctx[o].rev \in Nat /\ receipt.rev \in Nat
  BY DEF Apart, TInv
<1>1. CASE \/ Prepare(o) \/ (\E how \in {"http", "cli"} : Confirm(o, how)) \/ Respond(o)
           \/ Request(o) \/ GiveUp(o) \/ CheckReceipt(o) \/ Allocate(o) \/ Consume(o)
           \/ CompEvent(o)
  BY <1>1 DEF Prepare, Confirm, Respond, Request, GiveUp, CheckReceipt, Allocate, Consume,
              CompEvent, disk, Still, DiskStep
<1>2. CASE Apply(o) \/ UndoPair(o) \/ CompPair(o)
  BY <1>a, <1>2, PairStill DEF Apply, UndoPair, CompPair, DiskStep
<1>3. CASE Sent(o) \/ Manual(o) \/ Unsent(o)
  BY <1>a, <1>3, AdvanceMoves, MovedTo DEF Sent, Manual, Unsent, DiskStep
<1>4. CASE Undo(o) \/ UndoDone(o) \/ CliFlush(o) \/ CliManual(o) \/ CompDone(o) \/ CompBad(o)
  BY <1>a, <1>4, AdvanceMoves, MovedTo
  DEF Undo, UndoDone, CliFlush, CliManual, CompDone, CompBad, DiskStep
<1>5. CASE Compensate(o)
  <2>1. CASE receipt.state \in {"config_applied", "response_flushed"}
    <3>1. Advance(o, receipt.rev, "restoring_config", "comp_pair", "idle")
      BY <1>5, <2>1 DEF Compensate
    <3> QED
      BY <1>a, <3>1, AdvanceMoves, MovedTo DEF DiskStep
  <2>2. CASE receipt.state \notin {"config_applied", "response_flushed"}
    BY <1>5, <2>2 DEF Compensate, disk, Still, DiskStep
  <2> QED
    BY <2>1, <2>2
<1>6. CASE Create(o)
  <2>1. /\ receipt.state \in {"none", "healthy", "rolled_back"} /\ receipt.seq < sequence
        /\ \A e \in ledger \cup concluded : e.seq < sequence
        /\ Both(Flip(ctx[o].target)) /\ UNCHANGED <<active, hostConfig, ledger>>
    BY <1>a, <1>6 DEF Create, Reporting, OwnerAt, Stands
  <2>2. Flip(active) = ctx[o].target
    BY <1>a, <2>1 DEF Both, Flip, Modes
  <2>3. CASE UNCHANGED <<receipt, concluded>>
    BY <2>1, <2>3 DEF Still, DiskStep
  <2>4. CASE ~UNCHANGED <<receipt, concluded>>
    <3>1. Conclude /\ receipt' = [seq |-> sequence, rev |-> 1, state |-> "config_applied",
                                  target |-> ctx[o].target]
      BY <1>6, <2>4 DEF Create
    <3> QED
      BY <2>1, <2>2, <3>1 DEF Opens, DiskStep, Both
  <2> QED
    BY <2>3, <2>4
<1> QED
  BY <1>1, <1>2, <1>3, <1>4, <1>5, <1>6 DEF OwnerStep, LockedOwnerStep

\* The steps of the Host process.
LEMMA HostDisk ==
  ASSUME KInv, KInv', HostStep
  PROVE  DiskStep
<1> USE Basics DEF KInv, SInv, FInv
<1>a. Host \in Procs /\ Stands(Host) /\ FInv /\ FInv' /\ ctx[Host].rev \in Nat
  BY DEF TInv
<1>1. CASE RecoverEvent \/ Gate \/ Launch \/ HostEvent \/ Stop \/ Relaunch \/ Reload
  BY <1>1 DEF RecoverEvent, Gate, Launch, HostEvent, Stop, Relaunch, Reload, disk, Still, DiskStep
<1>2. CASE RecoverPair \/ StartRestore \/ FinishRestore \/ UnwindPair
  BY <1>a, <1>2, PairStill DEF RecoverPair, StartRestore, FinishRestore, UnwindPair, DiskStep
<1>3. CASE Broken \/ Revalidate \/ Unwind
  BY <1>a, <1>3, AdvanceMoves, MovedTo DEF Broken, Revalidate, Unwind, DiskStep
<1>4. CASE StartFailed
  <2>1. CASE ctx[Host].mode = "none"
    BY <1>4, <2>1 DEF StartFailed, disk, Still, DiskStep
  <2>2. CASE ctx[Host].mode = "original"
    <3>1. Advance(Host, ctx[Host].rev, "rollback_failed", "host_event", "stop")
      BY <1>4, <2>2 DEF StartFailed
    <3> QED
      BY <1>a, <3>1, AdvanceMoves, MovedTo DEF DiskStep
  <2>3. CASE ctx[Host].mode \notin {"none", "original"}
    <3>1. Advance(Host, ctx[Host].rev, "restoring_config", "start_restore", "broken")
      BY <1>4, <2>3 DEF StartFailed
    <3> QED
      BY <1>a, <3>1, AdvanceMoves, MovedTo DEF DiskStep
  <2> QED
    BY <2>1, <2>2, <2>3
<1>5. CASE Finish
  <2>1. PICK s \in {"rolled_back", "rollback_failed", "restart_requested", "validating_new_host",
                    "healthy", "restoring_config"},
             ok \in {"host_event", "finish", "finish_restore"} :
          Advance(Host, ctx[Host].rev, s, ok, "stop")
    BY <1>5 DEF Finish
  <2> QED
    BY <1>a, <2>1, AdvanceMoves, MovedTo DEF DiskStep
<1>6. CASE Check
  <2>1. CASE Advance(Host, ctx[Host].rev, "healthy", "host_event", "stop")
    BY <1>a, <2>1, AdvanceMoves, MovedTo DEF DiskStep
  <2>2. CASE UNCHANGED disk
    BY <2>2 DEF disk, Still, DiskStep
  <2> QED
    BY <1>6, <2>1, <2>2 DEF Check
<1>7. CASE Finalize
  <2>1. receipt.state = "healthy" /\ UNCHANGED <<active, hostConfig, ledger>>
    BY <1>a, <1>7 DEF Finalize, Stands
  <2>2. (receipt' = NoReceipt /\ Conclude) \/ UNCHANGED <<receipt, concluded>>
    BY <1>7 DEF Finalize
  <2> QED
    BY <2>1, <2>2 DEF Closes, Still, DiskStep
<1>8. CASE Recover
  <2>1. UNCHANGED <<active, hostConfig, concluded, ledger>>
    BY <1>8 DEF Recover
  <2>2. CASE receipt.state = "config_applied"
    <3>1. receipt' \in {receipt, [receipt EXCEPT !.state = "restoring_config", !.rev = @ + 1]}
      BY <1>8, <2>2 DEF Recover, TargetRecovery
    <3>2. receipt # NoReceipt /\ receipt \in [seq : 1..MaxTransitions, rev : Nat \ {0},
                                             state : States \ {"none"}, target : Modes]
      BY <2>2 DEF TInv, DataOK, NoReceipt, Receipts
    <3>3. receipt' = receipt \/ receipt' = [seq |-> receipt.seq, rev |-> receipt.rev + 1,
                                 state |-> "restoring_config", target |-> receipt.target]
      BY <3>1, <3>2
    <3>4. "restoring_config" \in Transitions[receipt.state]
      BY <2>2 DEF Transitions
    <3>5. receipt' = receipt \/ Moved("restoring_config")
      BY <2>2, <3>2, <3>3, <3>4 DEF Moved
    <3> QED
      BY <2>1, <3>5, MovedTo DEF Moves, DiskStep
  <2>3. CASE receipt.state # "config_applied"
    BY <1>8, <2>1, <2>3 DEF Recover, Still, DiskStep
  <2> QED
    BY <2>2, <2>3
<1> QED
  BY <1>1, <1>2, <1>3, <1>4, <1>5, <1>6, <1>7, <1>8 DEF HostStep

\* The steps of all others: the request that the supervisor takes, the ingest, and
\* whatever ends processes.
LEMMA RestDisk ==
  ASSUME KInv, KInv',
         Start \/ Exit \/ (\E r \in requests : Accept(r)) \/ IngestStep \/ Crash \/ UNCHANGED vars
  PROVE  DiskStep
<1> USE Basics DEF KInv, SInv, FInv
<1>1. CASE Start \/ Exit \/ Crash \/ UNCHANGED vars
  BY <1>1 DEF Start, Exit, Crash, vars, disk, Still, DiskStep
<1>2. CASE \E r \in requests : Accept(r)
  <2>1. PICK r \in requests : Accept(r)
    BY <1>2
  <2>2. UNCHANGED <<active, hostConfig, concluded, ledger>>
    BY <2>1 DEF Accept
  <2>3. CASE receipt' = receipt
    BY <2>2, <2>3 DEF Still, DiskStep
  <2>4. CASE receipt' # receipt
    <3>1. /\ receipt' = [receipt EXCEPT !.state = "restart_requested", !.rev = @ + 1]
          /\ "restart_requested" \in Transitions[receipt.state]
      BY <2>1, <2>4 DEF Accept
    <3>2. receipt # NoReceipt /\ receipt \in [seq : 1..MaxTransitions, rev : Nat \ {0},
                                             state : States \ {"none"}, target : Modes]
      BY <3>1 DEF TInv, DataOK, NoReceipt, Receipts, Transitions
    <3>3. receipt' = [seq |-> receipt.seq, rev |-> receipt.rev + 1,
                      state |-> "restart_requested", target |-> receipt.target]
      BY <3>1, <3>2
    <3>4. receipt.state # "restart_requested"
      BY <3>1 DEF Transitions
    <3>5. Moved("restart_requested")
      BY <3>1, <3>2, <3>3, <3>4 DEF Moved
    <3> QED
      BY <2>2, <3>5, MovedTo DEF Moves, DiskStep
  <2> QED
    BY <2>3, <2>4
<1>3. CASE IngestBegin \/ IngestEvent \/ IngestRead \/ IngestAcknowledge
  BY <1>3 DEF IngestBegin, IngestEvent, IngestRead, IngestAcknowledge, IngestUnchanged, Still,
              DiskStep
<1>4. CASE IngestCommit
  <2>1. UNCHANGED <<receipt, active, hostConfig, concluded>>
    BY <1>4 DEF IngestCommit, IngestUnchanged
  <2>2. CASE UNCHANGED ledger
    BY <2>1, <2>2 DEF Still, DiskStep
  <2>3. CASE \E e \in ingest.batch : ledger' = ledger \cup {e}
    <3>1. ingest.batch \subseteq Events
          /\ \A e \in ingest.batch : e \in concluded \/ Final(e)
      BY <1>4 DEF IngestCommit, Passing, TInv, DataOK
    <3> QED
      BY <2>1, <2>3, <3>1 DEF Tells, DiskStep
  <2> QED
    BY <1>4, <2>2, <2>3 DEF IngestCommit
<1> QED
  BY <1>1, <1>2, <1>3, <1>4 DEF IngestStep

\* Every step of the system is of one of these kinds.
LEMMA EveryDiskStep ==
  ASSUME KInv, KInv', [Next]_vars
  PROVE  DiskStep
  BY OwnerDisk, HostDisk, RestDisk DEF Next

\* What is told of one more event.
LEMMA ToldOneMore ==
  ASSUME NEW S, NEW e
  PROVE  Told(S \cup {e}) = Told(S) \cup {<<e.seq, e.state>>}
  BY DEF Told

\* A step that keeps the receipt, or moves it between states that promise nothing,
\* is not seen.
LEMMA StillUnseen ==
  ASSUME KInv, Still
  PROVE  UNCHANGED Promise!promise
<1>1. UNCHANGED <<receipt, concluded, ledger>> /\ UNCHANGED Verdict
  BY DEF Still, Verdict
<1>2. UNCHANGED <<active, hostConfig>> \/ (Verdict = "open" /\ Verdict' = "open")
  BY <1>1 DEF Still, Verdict, Terminal
<1> QED
  BY <1>1, <1>2 DEF Promise!promise, Told

\* A receipt that moves settles its transaction, takes a healthy verdict back that
\* the ledger does not tell, or stays open.
LEMMA MovesSettle ==
  ASSUME KInv, KInv', Moves
  PROVE  [Promise!Next]_(Promise!promise)
<1> USE Basics DEF KInv, SInv, FInv
<1>1. UNCHANGED <<active, hostConfig, concluded, ledger>>
  BY DEF Moves
<1>2. CASE receipt' = receipt
  BY <1>1, <1>2 DEF Promise!promise, Told, Verdict
<1>3. CASE receipt' # receipt
  <2>1. PICK s \in States \ {"none"} : Moved(s)
    BY <1>3 DEF Moves
  <2>2. /\ receipt.state # "none" /\ receipt'.seq = receipt.seq /\ receipt'.state = s
        /\ receipt'.target = receipt.target /\ receipt.target \in Modes
    BY <2>1 DEF Moved
  <2>3. s \in Transitions[receipt.state]
    <3>1. receipt \in [seq : 1..MaxTransitions, rev : Nat \ {0}, state : States \ {"none"},
                       target : Modes]
      BY <2>1 DEF Moved, TInv, DataOK, Receipts
    <3> QED
      BY <1>3, <2>1, <3>1 DEF Moved
  <2>4. Flip(Flip(receipt.target)) = receipt.target
    BY <2>2 DEF Flip, Modes
  <2>5. CASE receipt.state = "healthy"
    <3>1. s = "restoring_config"
      BY <2>3, <2>5 DEF Transitions
    <3>2. Verdict = "healthy" /\ Verdict' = "open"
      BY <2>2, <2>5, <3>1 DEF Verdict, Terminal
    <3>3. <<receipt.seq, "healthy">> \notin Told(ledger)
      BY <2>5 DEF Told, Outcomes, Final
    <3>4. Promise!Revoke
      BY <1>1, <2>2, <3>1, <3>2, <3>3 DEF Promise!Revoke, Promise!This, Told
    <3> QED
      BY <3>4 DEF Promise!Next
  <2>6. CASE receipt.state # "healthy"
    <3>1. receipt.state \notin Terminal /\ Verdict = "open"
      BY <2>2, <2>3, <2>6 DEF Transitions, Terminal, Verdict
    <3>2. CASE s \notin Terminal
      <4>1. Verdict' = "open"
        BY <2>1, <2>2, <3>2 DEF Verdict
      <4> QED
        BY <1>1, <2>1, <2>2, <3>1, <4>1 DEF Promise!promise, Told
    <3>3. CASE s \in Terminal
      <4>1. Verdict' = s
        BY <2>2, <3>3 DEF Verdict
      <4>2. /\ s = "healthy" => active' = receipt.target /\ hostConfig' = receipt.target
            /\ s = "rolled_back" =>
                 active' = Flip(receipt.target) /\ hostConfig' = Flip(receipt.target)
        BY <2>2 DEF ReceiptTellsTheFiles, TargetRecovery
      <4>3. s \in {"healthy", "rolled_back", "rollback_failed"}
        BY <3>3 DEF Terminal
      <4>4. Promise!Settle(s)
        BY <1>1, <2>1, <2>2, <2>4, <3>1, <4>1, <4>2, <4>3
        DEF Promise!Settle, Promise!Both, Told
      <4> QED
        BY <4>3, <4>4 DEF Promise!Next
    <3> QED
      BY <3>2, <3>3
  <2> QED
    BY <2>5, <2>6
<1> QED
  BY <1>2, <1>3

\* A new receipt opens a transaction under a number that was never used, on files
\* that agree.
LEMMA OpensOne ==
  ASSUME KInv, KInv', Opens
  PROVE  Promise!Open
<1> USE Basics, EventBasics DEF KInv, SInv, FInv
<1>1. /\ Verdict = receipt.state /\ Verdict' = "open"
      /\ Verdict \in {"none", "healthy", "rolled_back"}
  BY DEF Opens, Verdict, Terminal
<1>2. Promise!Unused(receipt'.seq)
  <2>1. \A c \in Told(concluded) \cup Told(ledger) : sequence > c[1]
    BY DEF Opens, Told
  <2> QED
    BY <2>1 DEF Opens, Promise!Unused
<1>3. /\ active \in Modes /\ hostConfig = active /\ Flip(receipt'.target) = active
      /\ receipt'.state # "none" /\ Promise!Both(active) = <<active, hostConfig>>
  BY DEF Opens, Flip, Modes, Promise!Both
<1>4. Told(concluded)' = IF Verdict = "none" THEN Told(concluded)
                         ELSE Told(concluded) \cup {<<receipt.seq, Verdict>>}
  <2>1. CASE Verdict = "none"
    <3>1. concluded' = concluded
      BY <1>1, <2>1 DEF Opens, Conclude
    <3> QED
      BY <2>1, <3>1 DEF Told
  <2>2. CASE Verdict # "none"
    <3>1. concluded' = concluded \cup {EventOf(receipt)}
      BY <1>1, <2>2 DEF Opens, Conclude
    <3>2. Told(concluded') = Told(concluded) \cup {<<receipt.seq, Verdict>>}
      BY <1>1, <3>1, ToldOneMore
    <3> QED
      BY <2>2, <3>2 DEF Told
  <2> QED
    BY <2>1, <2>2
<1>5. UNCHANGED Told(ledger)
  BY DEF Opens, Told
<1> QED
  BY <1>1, <1>2, <1>3, <1>4, <1>5 DEF Promise!Open, Promise!This

\* A receipt that is removed closes its transaction as healthy.
LEMMA ClosesOne ==
  ASSUME KInv, KInv', Closes
  PROVE  Promise!Close
<1> USE Basics, EventBasics DEF KInv, SInv, FInv
<1>1. Verdict = "healthy" /\ Verdict' = "none" /\ receipt'.seq = 0 /\ receipt'.state = "none"
  BY DEF Closes, Verdict, Terminal, NoReceipt
<1>2. Told(concluded)' = Told(concluded) \cup {<<receipt.seq, "healthy">>}
  <2>1. concluded' = concluded \cup {EventOf(receipt)}
    BY DEF Closes, Conclude
  <2>2. Told(concluded') = Told(concluded) \cup {<<receipt.seq, "healthy">>}
    BY <2>1, ToldOneMore DEF Closes
  <2> QED
    BY <2>2 DEF Told
<1>3. UNCHANGED <<active, hostConfig, Told(ledger)>>
  BY DEF Closes, Told
<1> QED
  BY <1>1, <1>2, <1>3 DEF Promise!Close, Promise!This

\* What the ledger learns cannot be taken back.
LEMMA TellsFinal ==
  ASSUME KInv, KInv', Tells
  PROVE  Promise!Next
<1> USE Basics, EventBasics DEF KInv, SInv, FInv
<1>1. PICK e \in Events : (e \in concluded \/ Final(e)) /\ ledger' = ledger \cup {e}
  BY DEF Tells
<1>2. <<e.seq, e.state>> \in Promise!Irrevocable
  <2>1. CASE e \in concluded
    BY <2>1 DEF Promise!Irrevocable, Told
  <2>2. CASE Final(e)
    BY <2>2 DEF Final, Promise!Irrevocable, Promise!This, Verdict, Terminal
  <2> QED
    BY <1>1, <2>1, <2>2
<1>3. UNCHANGED <<receipt, active, hostConfig, Verdict, Told(concluded)>>
  BY DEF Tells, Verdict, Told
<1>4. Told(ledger)' = Told(ledger) \cup {<<e.seq, e.state>>}
  BY <1>1, ToldOneMore DEF Told
<1>5. Promise!Tell(<<e.seq, e.state>>)
  BY <1>2, <1>3, <1>4 DEF Promise!Tell
<1> QED
  BY <1>2, <1>5 DEF Promise!Next

\* The whole transition keeps the promise of SettleOnce: every step of an owner, of
\* the Host, of the ingest or of a stop of the machine opens, settles, takes back,
\* closes or tells a transaction as SettleOnce allows, or is not seen by it.
THEOREM RelayImplementsSettleOnce == Spec => ImplementsSettleOnce
<1>1. RelayInit => Promise!Init
  BY DEF RelayInit, Promise!Init, Promise!Both, Verdict, Told, NoReceipt, Terminal, Modes
<1>2. KInv /\ KInv' /\ [Next]_vars => [Promise!Next]_(Promise!promise)
  BY EveryDiskStep, StillUnseen, MovesSettle, OpensOne, ClosesOne, TellsFinal
  DEF DiskStep, Promise!Next
<1> QED
  BY <1>1, <1>2, OutcomeInvariant, PTL DEF Spec, ImplementsSettleOnce, Promise!Spec
-----------------------------------------------------------------------------
(* Events leave the outbox for the ledger.                                 *)

\* No event is dropped by this step.
Kept ==
  \A e \in outbox \ outbox' :
    \/ e \in ledger
    \/ /\ e.state = "healthy"
       /\ \E f \in outbox' : f.seq = e.seq /\ f.rev > e.rev
                            /\ f.state \in {"rolled_back", "rollback_failed"}

\* An outcome that is written takes the place of an earlier one only: the outbox
\* has one event of a transaction at most.
LEMMA PutKeeps ==
  ASSUME KInv, NEW f, Put(f)
  PROVE  Kept
<1> SUFFICES ASSUME NEW e \in outbox \ outbox'
             PROVE  /\ e.state = "healthy" /\ f \in outbox' /\ f.seq = e.seq /\ f.rev > e.rev
                    /\ f.state \in {"rolled_back", "rollback_failed"}
  BY DEF Kept
<1>1. /\ outbox' = (outbox \ OfTransaction(f)) \cup {f} /\ Writable(f)
      /\ e \in OfTransaction(f) /\ e # f /\ e.seq = f.seq
  BY DEF Put, OfTransaction
<1>2. \A x \in outbox : x.seq = f.seq => x = e
  BY <1>1 DEF KInv, Outcomes
<1>3. PICK x \in OfTransaction(f) :
        x.state = "healthy" /\ f.state \in {"rolled_back", "rollback_failed"} /\ f.rev > x.rev
  BY <1>1, <1>2 DEF Writable
<1>4. x = e
  BY <1>2, <1>3 DEF OfTransaction
<1> QED
  BY <1>1, <1>3, <1>4

\* Every step keeps the events, or hands them to the ledger first.
LEMMA StepKeeps ==
  ASSUME KInv, [Next]_vars
  PROVE  Kept
<1>1. CASE UNCHANGED outbox
  BY <1>1 DEF Kept
<1>2. ASSUME NEW o \in Owners, OwnerStep(o)
      PROVE  UNCHANGED outbox
  BY <1>2 DEF OwnerStep, Prepare, Confirm, Respond, Sent, Request, GiveUp, Manual, Compensate,
              Unsent, Advance, disk
<1>3. ASSUME NEW o \in Owners, LockedOwnerStep(o)
      PROVE  UNCHANGED outbox \/ Put(EventOf(receipt))
  <2>1. CASE CheckReceipt(o) \/ CompEvent(o)
    BY <2>1, PutOutcome DEF CheckReceipt, CompEvent
  <2>2. CASE ~(CheckReceipt(o) \/ CompEvent(o))
    BY <1>3, <2>2
    DEF LockedOwnerStep, Allocate, Create, Apply, Consume, Undo, UndoPair, UndoDone, CliFlush,
        CliManual, CompPair, CompDone, CompBad, Advance, WritePair
  <2> QED
    BY <2>1, <2>2
<1>4. ASSUME HostStep
      PROVE  UNCHANGED outbox \/ Put(EventOf(receipt))
  <2>1. CASE RecoverEvent \/ HostEvent
    BY <2>1, PutOutcome DEF RecoverEvent, HostEvent
  <2>2. CASE \/ Recover \/ RecoverPair \/ Gate \/ Launch \/ StartRestore \/ Broken \/ FinishRestore
             \/ Finalize \/ Stop \/ Revalidate \/ Relaunch \/ Check \/ Unwind \/ UnwindPair \/ Reload
    BY <2>2
    DEF Recover, RecoverPair, Gate, Launch, StartRestore, Broken, FinishRestore, Finalize, Stop,
        Revalidate, Relaunch, Check, Unwind, UnwindPair, Reload, Advance, WritePair, disk
  <2>3. CASE StartFailed
    BY <2>3 DEF StartFailed, Advance, disk
  <2>4. CASE Finish
    BY <2>4 DEF Finish, Advance
  <2> QED
    BY <1>4, <2>1, <2>2, <2>3, <2>4 DEF HostStep
<1>5. CASE IngestStep
  <2>1. CASE IngestEvent
    BY <2>1, PutOutcome, PutKeeps DEF IngestEvent
  <2>2. CASE IngestAcknowledge
    <3>1. outbox' = outbox \/ \E e \in ingest.batch : outbox' = outbox \ {e}
      BY <2>2 DEF IngestAcknowledge
    <3>2. ingest.batch \subseteq ledger
      BY <2>2 DEF IngestAcknowledge, KInv, Passing
    <3> QED
      BY <3>1, <3>2 DEF Kept
  <2>3. CASE IngestBegin \/ IngestRead \/ IngestCommit
    BY <1>1, <2>3 DEF IngestBegin, IngestRead, IngestCommit, IngestUnchanged
  <2> QED
    BY <1>5, <2>1, <2>2, <2>3 DEF IngestStep
<1>6. ASSUME \/ Start \/ Exit \/ Crash \/ UNCHANGED vars
             \/ \E r \in requests : Accept(r)
      PROVE  UNCHANGED outbox
  BY <1>6 DEF Start, Exit, Crash, Accept, vars, disk
<1> QED
  BY <1>1, <1>2, <1>3, <1>4, <1>5, <1>6, PutKeeps DEF Next

\* No event is dropped: it leaves the outbox when the audit ledger has it, or when
\* the event of a later rollback takes the place of a healthy one.
THEOREM EventsNeverDropped == Spec => NoEventDropped
<1>1. KInv /\ [Next]_vars => Kept
  BY StepKeeps
<1> QED
  BY <1>1, OutcomeInvariant, PTL DEF Spec, NoEventDropped, Kept

=============================================================================
