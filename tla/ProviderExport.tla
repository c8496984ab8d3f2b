--------------------------- MODULE ProviderExport ---------------------------
(***************************************************************************)
(* A confirmed export to an external provider (the Notion report export of *)
(* src/server.py) on top of ApprovalWall.  The request thread tests the    *)
(* prepared action itself, calls the provider, and only then calls         *)
(* agent_gateway_resume_prepared_action, in the same thread, to consume    *)
(* the action.  No lease is taken: these actions are not workspace writes. *)
(***************************************************************************)
EXTENDS ApprovalWall

CONSTANT MaxEffects   \* bound: pages created per action

ASSUME ProviderAssumption == MaxEffects \in Nat \ {0}

VARIABLES
  export,    \* the export a thread runs outside the wall's own handlers
  effects    \* pages the provider created for an action

providerVars == <<export, effects>>
allVars == <<vars, providerVars>>

Stages == {"none", "row", "gate", "post", "resume"}
NoExport == [stage |-> "none", action |-> NoAction, sawSpent |-> FALSE]
Exports == [stage : Stages, action : Actions \cup {NoAction}, sawSpent : BOOLEAN]

Exporting(t) == export[t].stage # "none"
To(t, stage) == export' = [export EXCEPT ![t].stage = stage]
Leave(t) == export' = [export EXCEPT ![t] = NoExport]

ProviderInit ==
  /\ Init
  /\ export = [t \in Threads |-> NoExport]
  /\ effects = [a \in Actions |-> 0]

BeginExport(t, a) ==
  /\ pc[t] = "idle" /\ ~Exporting(t) /\ approval[a] # "none"
  /\ export' = [export EXCEPT ![t] = [NoExport EXCEPT !.stage = "row", !.action = a]]
  /\ UNCHANGED <<vars, effects>>

\* Mutant: the row is not tested for an earlier consumption.
ExportRowBlind(t) ==
  /\ export[t].stage = "row" /\ To(t, "gate")
  /\ UNCHANGED <<vars, effects>>

ExportRow(t) ==
  LET a == export[t].action IN
  /\ export[t].stage = "row"
  /\ export' = [export EXCEPT ![t].stage = "gate",
                              ![t].sawSpent = consumed[a] \/ status[a] = "consumed"]
  /\ UNCHANGED <<vars, effects>>

\* Mutant: a pending approval is enough.
ExportGateUndecided(t) ==
  LET a == export[t].action IN
  /\ export[t].stage = "gate"
  /\ IF ~lapsed[a] /\ ~export[t].sawSpent THEN To(t, "post") ELSE Leave(t)
  /\ UNCHANGED <<vars, effects>>

\* prepared_action_resume_gate_error reads the approval after the row.
ExportGate(t) ==
  LET a == export[t].action IN
  /\ export[t].stage = "gate"
  /\ IF approval[a] = "approved" /\ ~lapsed[a] /\ ~export[t].sawSpent /\ a \notin WorkspaceWrite
       THEN To(t, "post")
       ELSE Leave(t)
  /\ UNCHANGED <<vars, effects>>

\* The provider creates the page and answers, or its answer is lost.
ExportPost(t) ==
  LET a == export[t].action IN
  /\ export[t].stage = "post" /\ effects[a] < MaxEffects
  /\ effects' = [effects EXCEPT ![a] = @ + 1]
  /\ (To(t, "resume") \/ Leave(t))
  /\ UNCHANGED vars

\* The call raises: the failure is recorded and the action stays approved.
ExportFails(t) ==
  /\ export[t].stage = "post"
  /\ Leave(t)
  /\ UNCHANGED <<vars, effects>>

\* Mutant: the export is not left when the resume begins.
ExportResumeStays(t) ==
  /\ export[t].stage = "resume"
  /\ BeginResume(t, export[t].action, FALSE)
  /\ UNCHANGED providerVars

\* The thread goes on as a resume; what resume answers only fills the reply.
ExportResume(t) ==
  /\ export[t].stage = "resume"
  /\ BeginResume(t, export[t].action, FALSE)
  /\ Leave(t)
  /\ UNCHANGED effects

ExportCutOff(t) ==
  /\ Exporting(t)
  /\ Leave(t)
  /\ UNCHANGED <<vars, effects>>

ExportStep(t) ==
  \/ \E a \in Actions : BeginExport(t, a)
  \/ ExportRow(t) \/ ExportGate(t) \/ ExportPost(t) \/ ExportFails(t)
  \/ ExportResume(t) \/ ExportCutOff(t)

WallStep ==
  \/ \E a \in Actions : Prepare(a) \/ ActionLapses(a)
  \/ \E t \in Threads :
       \/ ~Exporting(t) /\ \E a \in Actions : Begin(t, a)
       \/ Statement(t) \/ Respond(t) \/ CutOff(t)

ProviderNext ==
  \/ WallStep /\ UNCHANGED providerVars
  \/ \E t \in Threads : ExportStep(t)

ProviderSpec == ProviderInit /\ [][ProviderNext]_allVars

-----------------------------------------------------------------------------
\* The wall's variables keep their domains and an export is where it can be.
ProviderTypeOK ==
  /\ TypeOK
  /\ export \in [Threads -> Exports]
  /\ effects \in [Actions -> 0 .. MaxEffects]
  /\ \A t \in Threads : Exporting(t) => pc[t] = "idle"

\* The provider is never called for an action no human has approved, whatever
\* decisions, expiries and resumes run between the reads and the call.
EffectsAreAuthorised == \A a \in Actions : effects[a] > 0 => authorised[a]

\* An export that has read its row, found it unspent, and not yet posted.
InFlight(a) ==
  \E t \in Threads :
    /\ export[t].action = a
    /\ \/ export[t].stage = "gate" /\ ~export[t].sawSpent /\ ~lapsed[a]
       \/ export[t].stage = "post"

\* Once an action is consumed or past its expiry, and the exports that read it
\* before are through, no later confirmation, retry or new approval reaches the
\* provider again.
Drained(a) == (consumed[a] \/ lapsed[a]) /\ ~InFlight(a)
DrainedStaysDrained ==
  [][\A a \in Actions : Drained(a) => (Drained(a)' /\ effects'[a] = effects[a])]_allVars

\* docs/HARNESS_ENGINEERING_EXECUTION_CONSTRAINTS.md:181 "-> execute once": the
\* provider is called at most once for a prepared action.
EffectAtMostOnce == \A a \in Actions : effects[a] <= 1
=============================================================================
