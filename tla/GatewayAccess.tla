---------------------------- MODULE GatewayAccess ----------------------------
(***************************************************************************)
(* Who gets in: enrollment tokens, the short-lived sessions minted from    *)
(* them, and the authentication of every Agent Gateway request before a    *)
(* handler of TaskLedger serves it (src/server.py).                        *)
(*                                                                         *)
(* Authentication reads a session and its parent token in two statements,  *)
(* and what it found is not looked at again while the handler runs.  The   *)
(* operator's requests (enroll, rotate, revoke) are statements too.  Ids   *)
(* are fresh and random, so the agent of a token and the parent of a       *)
(* session are fixed with the id.                                          *)
(***************************************************************************)
EXTENDS TaskLedger

CONSTANTS Tokens,     \* token ids
          Sessions,   \* session ids
          Holder,     \* the agent of each token
          Parent,     \* the token each session is minted from
          Operators   \* connections of the operator

ASSUME AccessAssumption ==
  /\ Holder \in [Tokens -> Agents]
  /\ Parent \in [Sessions -> Tokens]
  /\ Tokens \cap Sessions = {} /\ Nobody \notin Tokens \cup Sessions

VARIABLES token,    \* agent_gateway_tokens.status, "none" without a row
          session,  \* agent_gateway_sessions.status, "none" without a row
          overdue,  \* credentials whose expires_at has passed
          door,     \* the authentication of each agent's request
          order,    \* the operator's request in progress on each connection
          orders    \* orders of the operator, sessions minted and credentials run out so far

accessVars == <<token, session, overdue, door, order, orders>>
allVars == <<vars, accessVars>>

Statuses == {"none", "active", "expired", "revoked"}
Credentials == Tokens \cup Sessions

\* open: the credential was open when the request came (history).
Outside == [pc |-> "out", cred |-> Nobody, open |-> FALSE]
NoOrder == [pc |-> "idle", agent |-> Nobody, list |-> {}]

Issued(c) == IF c \in Tokens THEN token[c] # "none" ELSE session[c] # "none"
AgentOf(c) == IF c \in Tokens THEN Holder[c] ELSE Holder[Parent[c]]

\* A credential that authentication accepts, read in one moment.
OpenToken(k) == token[k] = "active" /\ k \notin overdue
Open(c) ==
  IF c \in Tokens THEN OpenToken(c)
  ELSE session[c] = "active" /\ c \notin overdue /\ OpenToken(Parent[c])

\* One bound for everything that is counted, the requests of the ledger included.
Room  == served + orders < MaxRequests
Order == Room /\ orders' = orders + 1

AccessInit ==
  /\ LedgerInit
  /\ token \in [Tokens -> {"none", "active"}]
  /\ session = [s \in Sessions |-> "none"]
  /\ overdue = {}
  /\ door = [a \in Agents |-> Outside]
  /\ order = [p \in Operators |-> NoOrder]
  /\ orders = 0

Lapse(c) ==
  /\ Issued(c) /\ c \notin overdue /\ Order
  /\ overdue' = overdue \cup {c}
  /\ UNCHANGED <<vars, token, session, door, order>>

-----------------------------------------------------------------------------
(* agent_gateway_auth_context.  A refusal that writes nothing is no step.  *)

To(a, pc) == door' = [door EXCEPT ![a].pc = pc]
Leave(a) == door' = [door EXCEPT ![a] = Outside]

Arrive(a, c, pc) ==
  /\ door[a].pc = "out" /\ request[a].pc = "idle"
  /\ door' = [door EXCEPT ![a] = [pc |-> pc, cred |-> c, open |-> Open(c)]]
  /\ UNCHANGED <<vars, token, session, overdue, order, orders>>

\* Mutant: only the expiry of a token is tested.
TokenReadByExpiry(a, k) ==
  /\ Holder[k] = a /\ token[k] # "none"
  /\ Arrive(a, k, IF k \in overdue THEN "expire" ELSE "in")

TokenRead(a, k) ==
  /\ Holder[k] = a /\ token[k] = "active"
  /\ Arrive(a, k, IF k \in overdue THEN "expire" ELSE "in")

\* Mutant: the agent is the one the body names.
SessionReadAnyAgent(a, s) ==
  /\ session[s] = "active"
  /\ Arrive(a, s, IF s \in overdue THEN "expire" ELSE "parent")

SessionRead(a, s) ==
  /\ AgentOf(s) = a /\ session[s] = "active"
  /\ Arrive(a, s, IF s \in overdue THEN "expire" ELSE "parent")

\* Mutant: the parent token only has to be there.
ParentUntested(a) ==
  /\ door[a].pc = "parent" /\ To(a, "in")
  /\ UNCHANGED <<vars, token, session, overdue, order, orders>>

ParentRead(a) ==
  LET k == Parent[door[a].cred] IN
  /\ door[a].pc = "parent"
  /\ To(a, IF token[k] # "active" THEN "close" ELSE IF k \in overdue THEN "expire_parent" ELSE "in")
  /\ UNCHANGED <<vars, token, session, overdue, order, orders>>

\* The UPDATEs of a refusal have no test of the status.
CloseSession(a) ==
  /\ door[a].pc = "close"
  /\ session' = [session EXCEPT ![door[a].cred] = "revoked"] /\ Leave(a)
  /\ UNCHANGED <<vars, token, overdue, order, orders>>

ExpireParent(a) ==
  /\ door[a].pc = "expire_parent"
  /\ token' = [token EXCEPT ![Parent[door[a].cred]] = "expired"] /\ To(a, "expire")
  /\ UNCHANGED <<vars, session, overdue, order, orders>>

Expire(a) ==
  LET c == door[a].cred IN
  /\ door[a].pc = "expire" /\ Leave(a)
  /\ token' = IF c \in Tokens THEN [token EXCEPT ![c] = "expired"] ELSE token
  /\ session' = IF c \in Sessions THEN [session EXCEPT ![c] = "expired"] ELSE session
  /\ UNCHANGED <<vars, overdue, order, orders>>

-----------------------------------------------------------------------------
(* What an admitted request does.                                          *)

\* The handlers of TaskLedger, with the agent of the credential.
Enter(a) ==
  /\ door[a].pc = "in" /\ Leave(a) /\ Room
  /\ \/ ClaimRead(a)
     \/ \E r \in Runs, s \in RunStatuses : StartRead(a, r, s)
     \/ \E r \in Runs, s \in RunStatuses \cup {"absent"} : BeatRead(a, r, s)
  /\ UNCHANGED <<token, session, overdue, order, orders>>

\* The handler refuses (no access to the task or the run, nothing to do), or
\* authentication does and records nothing, as for revoke-self.
Refused(a) ==
  /\ door[a].pc \in {"in", "close", "expire", "expire_parent"} /\ Leave(a)
  /\ UNCHANGED <<vars, token, session, overdue, order, orders>>

\* agent_gateway_create_session: a session cannot mint another.
Mint(a, s) ==
  /\ door[a].pc = "in" /\ door[a].cred = Parent[s] /\ session[s] = "none" /\ Order
  /\ session' = [session EXCEPT ![s] = "active"] /\ Leave(a)
  /\ UNCHANGED <<vars, token, overdue, order>>

\* agent_gateway_revoke_own_session.
RevokeSelf(a) ==
  LET s == door[a].cred IN
  /\ door[a].pc = "in" /\ s \in Sessions /\ Leave(a)
  /\ session' = [session EXCEPT ![s] = IF @ = "active" THEN "revoked" ELSE @]
  /\ UNCHANGED <<vars, token, overdue, order, orders>>

-----------------------------------------------------------------------------
(* The operator.                                                           *)

\* agent_gateway_create_enrollment: one INSERT.
Enroll(k) ==
  /\ Order /\ token[k] = "none"
  /\ token' = [token EXCEPT ![k] = "active"]
  /\ UNCHANGED <<vars, session, overdue, door, order>>

\* agent_gateway_revoke_enrollment: the rows by token id or by agent are listed.
RevokeRead(p) ==
  /\ order[p].pc = "idle" /\ Order
  /\ \/ \E k \in Tokens : token[k] # "none" /\
          order' = [order EXCEPT ![p] = [pc |-> "revoke", agent |-> Nobody, list |-> {k}]]
     \/ \E a \in Agents :
          order' = [order EXCEPT ![p] = [pc |-> "revoke", agent |-> a,
                      list |-> {k \in Tokens : Holder[k] = a /\ token[k] = "active"}]]
  /\ UNCHANGED <<vars, token, session, overdue, door>>

\* The UPDATE selects the rows again: by id any, by agent those active now.
RevokeTokens(p) ==
  LET q == order[p]
      hit(k) == IF q.agent = Nobody THEN k \in q.list ELSE Holder[k] = q.agent /\ token[k] = "active"
  IN
  /\ q.pc = "revoke"
  /\ token' = [k \in Tokens |-> IF hit(k) THEN "revoked" ELSE token[k]]
  /\ order' = [order EXCEPT ![p].pc = "cascade"]
  /\ UNCHANGED <<vars, session, overdue, door, orders>>

\* The sessions of each listed token.
RevokeCascade(p, k) ==
  /\ order[p].pc = "cascade" /\ k \in order[p].list
  /\ session' = [s \in Sessions |->
                   IF Parent[s] = k /\ session[s] = "active" THEN "revoked" ELSE session[s]]
  /\ order' = [order EXCEPT ![p].list = @ \ {k}]
  /\ UNCHANGED <<vars, token, overdue, door, orders>>

RevokeDone(p) ==
  /\ order[p].pc = "cascade" /\ order[p].list = {}
  /\ order' = [order EXCEPT ![p] = NoOrder]
  /\ UNCHANGED <<vars, token, session, overdue, door, orders>>

\* agent_gateway_revoke_session: by session id any, by agent the active ones.
RevokeSessions ==
  /\ Order
  /\ \/ \E s \in Sessions : session[s] # "none" /\ session' = [session EXCEPT ![s] = "revoked"]
     \/ \E a \in Agents :
          session' = [s \in Sessions |->
                        IF AgentOf(s) = a /\ session[s] = "active" THEN "revoked" ELSE session[s]]
  /\ UNCHANGED <<vars, token, overdue, door, order>>

\* agent_gateway_rotate_enrollment.  The sessions of the old token stay as they are.
RotateRead(p, k) ==
  /\ order[p].pc = "idle" /\ Order /\ token[k] = "active"
  /\ order' = [order EXCEPT ![p] = [pc |-> "rotate", agent |-> Holder[k], list |-> {k}]]
  /\ UNCHANGED <<vars, token, session, overdue, door>>

RotateRevoke(p) ==
  /\ order[p].pc = "rotate"
  /\ token' = [k \in Tokens |-> IF k \in order[p].list THEN "revoked" ELSE token[k]]
  /\ order' = [order EXCEPT ![p].pc = "create"]
  /\ UNCHANGED <<vars, session, overdue, door, orders>>

RotateCreate(p, k) ==
  /\ order[p].pc = "create" /\ token[k] = "none" /\ Holder[k] = order[p].agent
  /\ token' = [token EXCEPT ![k] = "active"]
  /\ order' = [order EXCEPT ![p] = NoOrder]
  /\ UNCHANGED <<vars, session, overdue, door, orders>>

-----------------------------------------------------------------------------
\* The server stops, with every request.
StopServer ==
  /\ \/ Stop
     \/ /\ UNCHANGED vars
        /\ release = NoRelease /\ \A a \in Agents : request[a] = NoRequest
  /\ door' = [a \in Agents |-> Outside] /\ order' = [p \in Operators |-> NoOrder]
  /\ UNCHANGED <<token, session, overdue, orders>>

\* What the handlers and the operator of TaskLedger do once a request is in.
LedgerStep ==
  \/ \E a \in Agents :
       Claim(a) \/ StartBinding(a) \/ StartUpsert(a) \/ StartTask(a) \/ BeatRun(a) \/ BeatTask(a)
  \/ (\E force \in BOOLEAN : ReleaseRead(force)) \/ ReleaseList
  \/ (\E r \in Runs : ReleaseRun(r)) \/ ReleaseTask
  \/ (\E s \in TaskStatuses : PatchStatus(s))
  \/ (\E o \in Agents \cup {Nobody} : PatchAssign(o))

AccessNext ==
  \/ LedgerStep /\ served' + orders <= MaxRequests /\ UNCHANGED accessVars
  \/ \E c \in Credentials : Lapse(c)
  \/ \E a \in Agents :
       \/ (\E k \in Tokens : TokenRead(a, k)) \/ (\E s \in Sessions : SessionRead(a, s))
       \/ ParentRead(a) \/ CloseSession(a) \/ ExpireParent(a) \/ Expire(a)
       \/ Enter(a) \/ Refused(a) \/ (\E s \in Sessions : Mint(a, s)) \/ RevokeSelf(a)
  \/ (\E k \in Tokens : Enroll(k)) \/ RevokeSessions
  \/ \E p \in Operators :
       \/ RevokeRead(p) \/ RevokeTokens(p) \/ RevokeDone(p) \/ RotateRevoke(p)
       \/ \E k \in Tokens : RevokeCascade(p, k) \/ RotateRead(p, k) \/ RotateCreate(p, k)
  \/ StopServer

AccessSpec == AccessInit /\ [][AccessNext]_allVars

-----------------------------------------------------------------------------
\* The rows, doors and orders keep their types, and who stands at a door shows
\* an issued credential of its own.
RowsTypeOK ==
  /\ token \in [Tokens -> Statuses] /\ session \in [Sessions -> Statuses]
  /\ overdue \subseteq Credentials
  /\ door \in [Agents -> [pc : {"out", "parent", "close", "expire", "expire_parent", "in"},
                          cred : Credentials \cup {Nobody}, open : BOOLEAN]]
  /\ \A a \in Agents : door[a].pc # "out" =>
       door[a].cred \in Credentials /\ Issued(door[a].cred) /\ AgentOf(door[a].cred) = a
  /\ order \in [Operators -> [pc : {"idle", "revoke", "cascade", "rotate", "create"},
                              agent : Agents \cup {Nobody}, list : SUBSET Tokens]]
  /\ orders \in Nat /\ served + orders <= MaxRequests

\* Credentials and doors, and the ledger they guard, keep their types.
AccessTypeOK == LedgerTypeOK /\ RowsTypeOK

\* A request is let in only on a credential that was open, parent token and all,
\* when the request came, although the session and its parent are read at
\* different times and any revocation, rotation or expiry may fall in between.
AdmittedWasOpen == \A a \in Agents : door[a].pc = "in" => door[a].open

\* No credential lets the agent in, nor will one that is being made, and nothing
\* it sent is past the door.
Shut(a) ==
  /\ \A k \in Tokens : Holder[k] = a => ~OpenToken(k)
  /\ \A p \in Operators : order[p].pc \in {"rotate", "create"} => order[p].agent # a
  /\ door[a].pc # "in" /\ request[a].pc = "idle"

\* Revocation shuts the agent out: sessions minted before or while its last token
\* was revoked, expired or rotated away open nothing, a late write of a refusal
\* does not revive a row, and only the operator lets the agent in again, with a
\* new enrollment or the rotation of a token that expired but was never marked so.
ShutStaysShut ==
  [][\A a \in Agents : Shut(a) =>
       \/ Shut(a)' /\ (a \in claimants' => a \in claimants)
       \/ \E k \in Tokens : Holder[k] = a /\ token[k] = "none" /\ token'[k] = "active"
       \/ \E p \in Operators : order[p].pc = "idle" /\ order'[p].pc = "rotate" /\ order'[p].agent = a]_allVars
=============================================================================
