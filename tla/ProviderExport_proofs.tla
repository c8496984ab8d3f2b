------------------------ MODULE ProviderExport_proofs ------------------------
(***************************************************************************)
(* Proofs about ProviderExport, for every set of actions and of threads.   *)
(*                                                                         *)
(* Every step of an export is a step of the wall or leaves the wall alone, *)
(* so what is proved of the wall holds with exports running beside it; its *)
(* inductive invariant is used here as a fact.                             *)
(***************************************************************************)
EXTENDS ProviderExport, ApprovalWall_proofs

\* A thread that exports has an action and runs no handler of the wall.
ExportTypes ==
  /\ export \in [Threads -> Exports]
  /\ effects \in [Actions -> 0 .. MaxEffects]
  /\ \A t \in Threads : Exporting(t) => pc[t] = "idle" /\ export[t].action \in Actions

\* An export is past its gate, and an effect made, only for an authorised action.
PastExportGate == \A t \in Threads : export[t].stage = "post" => authorised[export[t].action]
Authorised == PastExportGate /\ EffectsAreAuthorised

-----------------------------------------------------------------------------
(* Exports and the wall.                                                   *)

\* A thread that runs a statement is not idle.
LEMMA StatementIsBusy ==
  ASSUME NEW t \in Threads, Statement(t)
  PROVE  pc[t] # "idle"
<1>1. CASE Decide(t)
  BY <1>1 DEF Decide, ExpireApproval, ExpireAction, DecideApproval, DecideAction,
              DecideTool, DecideRun, DecideTask, SetApproval, SetStatus, SetTool, SetRun, SetTask
<1>2. CASE Claim(t)
  BY <1>2 DEF Claim, ClaimRow, ClaimGate, ClaimInsert, ClaimConflict, ClaimExisting, ReadRow
<1>3. CASE Close(t) \/ FailLease(t)
  BY <1>3 DEF Close, CloseLease, CloseAction, CloseRun, CloseTask, CloseTool,
              FailLease, MoveLease, SetStatus, SetTool, SetRun, SetTask
<1>4. CASE Resume(t)
  BY <1>4 DEF Resume, ResumeRow, ResumeApproval, ResumeLease, ResumeVerify,
              ResumeConsume, ResumeSpent, ResumeComplete, ResumeTool, ResumeRun, ResumeTask,
              ReadRow, MoveLease, SetTool, SetRun, SetTask
<1> QED
  BY <1>1, <1>2, <1>3, <1>4 DEF Statement

\* A step of the wall leaves a thread that exports where it is.
LEMMA WallLeavesExports ==
  ASSUME TypeOK, WallStep, NEW u \in Threads, Exporting(u), pc[u] = "idle"
  PROVE  pc'[u] = "idle"
<1>1. ASSUME NEW a \in Actions, Prepare(a) \/ ActionLapses(a)
      PROVE  pc'[u] = "idle"
  BY <1>1 DEF Prepare, ActionLapses
<1>2. ASSUME NEW t \in Threads, ~Exporting(t), NEW a \in Actions, Begin(t, a)
      PROVE  pc'[u] = "idle"
  BY <1>2 DEF TypeOK, Begin, BeginApprove, BeginReject, BeginClaim, BeginFail, BeginResume,
              Arrive, Goto
<1>3. ASSUME NEW t \in Threads, Statement(t)
      PROVE  pc'[u] = "idle"
  BY <1>3, StatementIsBusy, StatementFrame
<1>4. ASSUME NEW t \in Threads, Respond(t) \/ CutOff(t)
      PROVE  pc'[u] = "idle"
  BY <1>4 DEF TypeOK, Respond, CutOff, Goto
<1> QED
  BY <1>1, <1>2, <1>3, <1>4 DEF WallStep

\* A step of an export beside the wall's own steps is a step of the wall, or none.
LEMMA StepOfTheWall ==
  ASSUME ExportTypes, [ProviderNext]_allVars
  PROVE  [Next]_vars
<1>1. CASE WallStep
  BY <1>1 DEF WallStep, Next
<1>2. ASSUME NEW t \in Threads, ExportResume(t)
      PROVE  Next
  <2>1. export[t].action \in Actions
    BY <1>2 DEF ExportTypes, ExportResume, Exporting
  <2> QED
    BY <1>2, <2>1 DEF ExportResume, Begin, Next
<1>3. ASSUME NEW t \in Threads, ExportStep(t), ~ExportResume(t)
      PROVE  UNCHANGED vars
  BY <1>3 DEF ExportStep, BeginExport, ExportRow, ExportGate, ExportPost, ExportFails, ExportCutOff
<1> QED
  BY <1>1, <1>2, <1>3 DEF ProviderNext, allVars

\* One thread moves on to another stage, or leaves.
LEMMA ToType ==
  ASSUME ExportTypes, NEW t \in Threads, NEW stage \in Stages, Exporting(t),
         To(t, stage) \/ Leave(t)
  PROVE  /\ export' \in [Threads -> Exports]
         /\ \A u \in Threads : Exporting(u)' => Exporting(u) /\ export'[u].action = export[u].action
<1>1. PICK q \in Exports :
        export' = [export EXCEPT ![t] = q] /\ (q.stage # "none" => q.action = export[t].action)
  <2>1. CASE To(t, stage)
    <3> DEFINE p == [export[t] EXCEPT !.stage = stage]
    <3>1. p \in Exports /\ p.action = export[t].action
      BY DEF ExportTypes, Exports
    <3>2. export' = [export EXCEPT ![t] = p]
      BY <2>1, Zenon DEF To
    <3> QED
      BY <3>1, <3>2
  <2>2. CASE Leave(t)
    <3>1. NoExport \in Exports /\ NoExport.stage = "none"
      BY DEF NoExport, Exports, Stages
    <3> QED
      BY <2>2, <3>1 DEF Leave
  <2> QED
    BY <2>1, <2>2
<1> QED
  BY <1>1 DEF ExportTypes, Exporting

\* What an export goes on with from its row: a consumption is seen.
LEMMA RowRead ==
  ASSUME ExportTypes, NEW t \in Threads, ExportRow(t)
  PROVE  \E q \in Exports :
           /\ export' = [export EXCEPT ![t] = q]
           /\ q.action = export[t].action /\ q.stage = "gate"
           /\ consumed[q.action] => q.sawSpent
<1> DEFINE spent == consumed[export[t].action] \/ status[export[t].action] = "consumed"
           q == [export[t] EXCEPT !.stage = "gate", !.sawSpent = spent]
<1>1. export' = [export EXCEPT ![t] = q]
  BY Zenon DEF ExportRow
<1>2. spent \in BOOLEAN /\ (consumed[export[t].action] => spent)
  OBVIOUS
<1> HIDE DEF spent
<1>3. q \in Exports /\ q.action = export[t].action /\ q.stage = "gate" /\ (spent => q.sawSpent)
  BY <1>2 DEF ExportTypes, Exports, Stages
<1> QED
  BY <1>1, <1>2, <1>3

\* The stages of an export keep its types.
LEMMA ExportStepTypes ==
  ASSUME TypeOK, ExportTypes, NEW t \in Threads, ExportStep(t)
  PROVE  ExportTypes'
<1>1. ASSUME NEW a \in Actions, BeginExport(t, a)
      PROVE  ExportTypes'
  BY <1>1 DEF ExportTypes, BeginExport, Exports, Exporting, NoExport, Stages, vars
<1>2. CASE ExportRow(t)
  <2>1. Exporting(t) /\ pc[t] = "idle" /\ export[t].action \in Actions
    BY <1>2 DEF ExportTypes, ExportRow, Exporting
  <2>2. UNCHANGED <<pc, effects>>
    BY <1>2 DEF ExportRow, vars
  <2> QED
    BY <1>2, <2>1, <2>2, RowRead DEF ExportTypes, Exporting
<1>3. CASE ExportGate(t) \/ ExportFails(t) \/ ExportCutOff(t)
  <2>1. Exporting(t) /\ (To(t, "post") \/ Leave(t)) /\ UNCHANGED <<pc, effects>>
    BY <1>3 DEF ExportGate, ExportFails, ExportCutOff, Exporting, vars
  <2> QED
    BY <2>1, ToType DEF ExportTypes, Stages
<1>4. CASE ExportPost(t)
  <2>1. Exporting(t) /\ (To(t, "resume") \/ Leave(t)) /\ UNCHANGED pc
    BY <1>4 DEF ExportPost, Exporting, vars
  <2>2. effects' \in [Actions -> 0 .. MaxEffects]
    <3> DEFINE more == effects[export[t].action] + 1
    <3>1. export[t].action \in Actions
      BY <2>1 DEF ExportTypes
    <3>2. more \in 0 .. MaxEffects
      BY <1>4, <3>1, ProviderAssumption DEF ExportTypes, ExportPost
    <3>3. effects' = [effects EXCEPT ![export[t].action] = more]
      BY <1>4 DEF ExportPost
    <3> QED
      BY <3>2, <3>3 DEF ExportTypes
  <2> QED
    BY <2>1, <2>2, ToType DEF ExportTypes, Stages
<1>5. CASE ExportResume(t)
  <2>1. Exporting(t) /\ Leave(t) /\ UNCHANGED effects
    BY <1>5 DEF ExportResume, Exporting
  <2>2. \A u \in Threads \ {t} : pc'[u] = pc[u]
    BY <1>5 DEF TypeOK, ExportResume, BeginResume, Arrive, Goto
  <2>3. ~Exporting(t)'
    BY <2>1 DEF ExportTypes, Leave, Exporting, NoExport
  <2> QED
    BY <2>1, <2>2, <2>3, ToType DEF ExportTypes, Stages
<1> QED
  BY <1>1, <1>2, <1>3, <1>4, <1>5 DEF ExportStep

\* Every step keeps the types of exports and of the wall.
LEMMA ExportTypeStep ==
  ASSUME TypeOK, ExportTypes, [ProviderNext]_allVars
  PROVE  TypeOK' /\ ExportTypes'
<1>1. TypeOK'
  BY StepOfTheWall, TypeStep
<1>2. CASE UNCHANGED allVars
  <2>1. UNCHANGED <<pc, export, effects>>
    BY <1>2 DEF allVars, providerVars, vars
  <2> QED
    BY <1>1, <2>1 DEF ExportTypes, Exporting
<1>3. CASE WallStep /\ UNCHANGED providerVars
  <2>1. UNCHANGED <<export, effects>>
    BY <1>3 DEF providerVars
  <2>2. \A u \in Threads : Exporting(u) /\ pc[u] = "idle" => pc'[u] = "idle"
    BY <1>3, WallLeavesExports
  <2> QED
    BY <1>1, <2>1, <2>2 DEF ExportTypes, Exporting
<1> QED
  BY <1>1, <1>2, <1>3, ExportStepTypes DEF ProviderNext

\* In the initial state no thread exports.
LEMMA InitExportTypes == ProviderInit => ExportTypes /\ Authorised
BY ProviderAssumption
DEF ProviderInit, ExportTypes, Authorised, PastExportGate, EffectsAreAuthorised, Exports, Stages,
    NoExport, Exporting

\* The types, and where an export may stand.
THEOREM ProviderTypes == ProviderSpec => [](TypeOK /\ ExportTypes)
<1>1. ProviderInit => TypeOK
  <2>1. Init => TypeOK
    BY ConstantsAssumption
    DEF Init, TypeOK, Decisions, Statuses, LeaseStatuses, WorkStatuses, Labels, Requests,
        NoRequest, Operations
  <2> QED
    BY <2>1 DEF ProviderInit
<1>2. TypeOK /\ ExportTypes /\ [ProviderNext]_allVars => TypeOK' /\ ExportTypes'
  BY ExportTypeStep
<1> QED
  BY <1>1, <1>2, InitExportTypes, PTL DEF ProviderSpec

\* The wall's variables keep their domains and an export is where it can be.
THEOREM ProviderTypeCorrect == ProviderSpec => []ProviderTypeOK
<1>1. TypeOK /\ ExportTypes => ProviderTypeOK
  BY DEF ExportTypes, ProviderTypeOK
<1> QED
  BY <1>1, ProviderTypes, PTL

\* Exports obey the wall: a server that runs exports is a server of the wall, and
\* every theorem about the wall holds of it.
THEOREM ExportObeysWall == ProviderSpec => Spec
<1>1. TypeOK /\ ExportTypes /\ [ProviderNext]_allVars => [Next]_vars
  BY StepOfTheWall
<1>2. ProviderInit => Init
  BY DEF ProviderInit
<1> QED
  BY <1>1, <1>2, ProviderTypes, PTL DEF ProviderSpec, Spec

\* What the wall promises of an action it also keeps with exports beside it.
THEOREM ExportsKeepTheContract ==
  ProviderSpec => ImplementsContract /\ []AtMostOnce /\ DeadStaysDead
BY ExportObeysWall, WallImplementsContract, ExecutedAtMostOnce, DeadStaysDeadAlways, PTL

-----------------------------------------------------------------------------
(* Effects are authorised.                                                 *)

\* A recorded approval is not forgotten.
LEMMA AuthorisedStays ==
  ASSUME TypeOK, [Next]_vars, NEW a \in Actions, authorised[a]
  PROVE  authorised'[a]
<1>1. CASE UNCHANGED authorised
  BY <1>1
<1>2. ASSUME NEW t \in Threads, NEW here, NEW decision, NEW next, SetApproval(t, here, decision, next)
      PROVE  authorised'[a]
  BY <1>2 DEF TypeOK, SetApproval
<1> QED
  BY <1>1, <1>2, Writers DEF ExpireApproval, DecideApproval

\* An export passes the gate only when the approval it reads is recorded.
LEMMA AuthorisedStep ==
  ASSUME IInv, ExportTypes, Authorised, [ProviderNext]_allVars
  PROVE  Authorised'
<1> USE DEF Authorised, PastExportGate, EffectsAreAuthorised
<1>0. TypeOK /\ [Next]_vars
  BY StepOfTheWall DEF IInv
<1>1. \A a \in Actions : authorised[a] => authorised'[a]
  BY <1>0, AuthorisedStays
<1>2. CASE UNCHANGED providerVars
  <2>1. \A t \in Threads : export[t].stage = "post" => export[t].action \in Actions
    BY DEF ExportTypes, Exporting
  <2> QED
    BY <1>1, <1>2, <2>1 DEF providerVars
<1>3. ASSUME NEW t \in Threads, ExportStep(t)
      PROVE  Authorised'
  <2>1. ASSUME NEW u \in Threads, u # t
        PROVE  export'[u] = export[u]
    BY <1>3, <2>1
    DEF ExportTypes, ExportStep, BeginExport, ExportRow, ExportGate, ExportPost, ExportFails,
        ExportResume, ExportCutOff, To, Leave
  <2>2. ASSUME export'[t].stage = "post"
        PROVE  /\ export'[t].action = export[t].action /\ export[t].action \in Actions
               /\ authorised[export[t].action]
    <3>1. ExportGate(t)
      <4>1. export[t] \in Exports
        BY DEF ExportTypes
      <4>2. ~(\E a \in Actions : BeginExport(t, a)) /\ ~ExportRow(t)
        BY <2>2, <4>1, RowRead DEF ExportTypes, BeginExport, NoExport
      <4>3. ~To(t, "resume") /\ ~Leave(t)
        BY <2>2, <4>1 DEF ExportTypes, To, Leave, NoExport, Exports
      <4> QED
        BY <1>3, <4>2, <4>3 DEF ExportStep, ExportPost, ExportFails, ExportResume, ExportCutOff
    <3>2. export[t].action \in Actions
      BY <3>1 DEF ExportTypes, ExportGate, Exporting
    <3>3. To(t, "post") /\ approval[export[t].action] = "approved"
      BY <2>2, <3>1 DEF ExportTypes, ExportGate, Leave, NoExport
    <3> QED
      BY <3>2, <3>3 DEF ExportTypes, To, Exports, IInv, Rows, RowsAgree
  <2>3. PastExportGate'
    BY <1>1, <2>1, <2>2 DEF ExportTypes, Exporting
  <2>4. ASSUME NEW a \in Actions, effects'[a] > 0
        PROVE  authorised'[a]
    <3>1. CASE effects'[a] = effects[a]
      BY <1>1, <2>4, <3>1
    <3>2. CASE effects'[a] # effects[a]
      <4>1. ExportPost(t)
        BY <1>3, <3>2
        DEF ExportStep, BeginExport, ExportRow, ExportGate, ExportFails, ExportResume, ExportCutOff
      <4>2. export[t].action = a
        BY <3>2, <4>1 DEF ExportTypes, ExportPost
      <4> QED
        BY <1>1, <4>1, <4>2 DEF ExportPost
    <3> QED
      BY <3>1, <3>2
  <2> QED
    BY <2>3, <2>4
<1> QED
  BY <1>2, <1>3 DEF ProviderNext, allVars

\* The provider is never called for an action no human has approved, whatever
\* decisions, expiries and resumes run between the reads and the call.
THEOREM EffectsAlwaysAuthorised == ProviderSpec => []EffectsAreAuthorised
<1>1. IInv /\ ExportTypes /\ Authorised /\ [ProviderNext]_allVars => Authorised'
  BY AuthorisedStep
<1>2. ProviderSpec => []IInv
  BY ExportObeysWall, InvariantHolds, PTL
<1>3. Authorised => EffectsAreAuthorised
  BY DEF Authorised
<1> QED
  BY <1>1, <1>2, <1>3, InitExportTypes, ProviderTypes, PTL DEF ProviderSpec

-----------------------------------------------------------------------------
(* A drained action stays drained.                                         *)

\* An export is in flight on an action.
Flies(t, a) ==
  /\ export[t].action = a
  /\ \/ export[t].stage = "gate" /\ ~export[t].sawSpent /\ ~lapsed[a]
     \/ export[t].stage = "post"

\* No export starts flying on an action that is consumed or past its expiry.
LEMMA NoTakeOff ==
  ASSUME TypeOK, ExportTypes, [ProviderNext]_allVars, NEW a \in Actions, consumed[a] \/ lapsed[a],
         lapsed[a] => lapsed'[a], NEW t \in Threads, ~Flies(t, a)
  PROVE  ~Flies(t, a)'
<1>1. CASE export'[t] = export[t]
  BY <1>1 DEF Flies, TypeOK
<1>2. ASSUME NEW u \in Threads, ExportStep(u), u # t
      PROVE  export'[t] = export[t]
  BY <1>2
  DEF ExportTypes, ExportStep, BeginExport, ExportRow, ExportGate, ExportPost, ExportFails,
      ExportResume, ExportCutOff, To, Leave
<1>3. CASE ExportRow(t)
  BY <1>3, RowRead DEF ExportTypes, Flies
<1>4. CASE ExportGate(t)
  BY <1>4 DEF ExportTypes, ExportGate, To, Leave, NoExport, Exports, Flies
<1>5. ASSUME NEW b \in Actions, BeginExport(t, b)
      PROVE  ~Flies(t, a)'
  BY <1>5 DEF ExportTypes, BeginExport, NoExport, Flies
<1>6. CASE ExportPost(t) \/ ExportFails(t) \/ ExportResume(t) \/ ExportCutOff(t)
  <2>1. To(t, "resume") \/ Leave(t)
    BY <1>6 DEF ExportPost, ExportFails, ExportResume, ExportCutOff
  <2>2. export'[t].stage \notin {"gate", "post"}
    BY <2>1 DEF ExportTypes, To, Leave, NoExport, Exports
  <2> QED
    BY <2>2 DEF Flies
<1> QED
  BY <1>1, <1>2, <1>3, <1>4, <1>5, <1>6 DEF ProviderNext, ExportStep, allVars, providerVars

\* Only an export in flight calls the provider.
LEMMA EffectOfFlight ==
  ASSUME ExportTypes, [ProviderNext]_allVars, NEW a \in Actions, effects'[a] # effects[a]
  PROVE  InFlight(a)
<1>1. PICK t \in Threads : ExportPost(t)
  BY DEF ProviderNext, allVars, providerVars, ExportStep, BeginExport, ExportRow, ExportGate,
         ExportFails, ExportResume, ExportCutOff
<1>2. export[t].action = a
  BY <1>1 DEF ExportTypes, ExportPost
<1> QED
  BY <1>1, <1>2 DEF ExportPost, InFlight

\* Once an action is consumed or past its expiry, and the exports that read it
\* before are through, nothing reaches the provider for it again.
THEOREM DrainedStaysDrainedAlways == ProviderSpec => DrainedStaysDrained
<1>1. ASSUME TypeOK, ExportTypes, [ProviderNext]_allVars, NEW a \in Actions, Drained(a)
      PROVE  Drained(a)' /\ effects'[a] = effects[a]
  <2>1. [Next]_vars
    BY <1>1, StepOfTheWall
  <2>2. (consumed[a] => consumed'[a]) /\ (lapsed[a] => lapsed'[a])
    BY <1>1, <2>1, OutcomeStep, LapsedStays DEF Final
  <2>3. \A t \in Threads : ~Flies(t, a)
    BY <1>1 DEF Drained, InFlight, Flies
  <2>4. \A t \in Threads : ~Flies(t, a)'
    BY <1>1, <2>2, <2>3, NoTakeOff DEF Drained
  <2>5. ~InFlight(a)'
    BY <2>4 DEF InFlight, Flies
  <2>6. effects'[a] = effects[a]
    BY <1>1, EffectOfFlight DEF Drained
  <2> QED
    BY <1>1, <2>2, <2>5, <2>6 DEF Drained
<1>2. TypeOK /\ ExportTypes /\ [ProviderNext]_allVars =>
        [\A a \in Actions : Drained(a) => (Drained(a)' /\ effects'[a] = effects[a])]_allVars
  BY <1>1
<1> QED
  BY <1>2, ProviderTypes, PTL DEF ProviderSpec, DrainedStaysDrained
=============================================================================
