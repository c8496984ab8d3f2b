------------------------- MODULE GatewayAccess_proofs -------------------------
(***************************************************************************)
(* Proofs about GatewayAccess, for every set of agents, tokens, sessions   *)
(* and operators.                                                          *)
(*                                                                         *)
(* Authentication adds nothing to the ledger: AccessSpec implements        *)
(* LedgerSpec.  Admission rests on two facts: a token that was issued is   *)
(* never active again once it is not (Closed stays closed), and a request  *)
(* waiting for the second read with a credential that was not open when it *)
(* came waits for a parent token that is not open.                         *)
(***************************************************************************)
EXTENDS GatewayAccess, TaskLedger_proofs

\* A session was minted from a token that was there.
Minted == \A s \in Sessions : session[s] # "none" => token[Parent[s]] # "none"

\* What the second read has still to find out.
Awaits(a) ==
  door[a].pc = "parent" =>
    /\ door[a].cred \in Sessions
    /\ door[a].open \/ ~OpenToken(Parent[door[a].cred])

Tested == \A a \in Agents : Awaits(a)

AccessInv == LedgerTypeOK /\ RowsTypeOK /\ Minted /\ Tested /\ AdmittedWasOpen

-----------------------------------------------------------------------------
(* The ledger behind the door.                                              *)

\* Every step is a step of the ledger or leaves it alone.
LEMMA AccessStepIsLedgerStep ==
  [AccessNext]_allVars => [Next]_vars
<1> SUFFICES ASSUME [AccessNext]_allVars
             PROVE  [Next]_vars
  OBVIOUS
<1>1. CASE LedgerStep
  BY <1>1 DEF LedgerStep, Next
<1>2. ASSUME NEW a \in Agents, Enter(a)
      PROVE  Next
  BY <1>2 DEF Enter, Next
<1>3. CASE StopServer
  BY <1>3 DEF StopServer, Next
<1>4. CASE UNCHANGED vars
  BY <1>4
<1> QED
  BY <1>1, <1>2, <1>3, <1>4
  DEF AccessNext, allVars, Lapse, Arrive, TokenRead, SessionRead, ParentRead, CloseSession, ExpireParent,
      Expire, Refused, Mint, RevokeSelf, Enroll, RevokeSessions, RevokeRead, RevokeTokens, RevokeDone,
      RotateRevoke, RevokeCascade, RotateRead, RotateCreate

\* Authentication implements the ledger: whatever tokens and sessions do, the
\* task and its runs change only by the handlers of TaskLedger.
THEOREM AccessObeysLedger == AccessSpec => LedgerSpec
<1>1. AccessInit => LedgerInit
  BY DEF AccessInit
<1> QED
  BY <1>1, AccessStepIsLedgerStep, PTL DEF AccessSpec, LedgerSpec

-----------------------------------------------------------------------------
(* Tokens.                                                                  *)

\* Only an INSERT makes a token active: no row comes back to it.
LEMMA ClosedStaysClosed ==
  ASSUME RowsTypeOK, [AccessNext]_allVars, NEW k \in Tokens, token[k] # "none"
  PROVE  /\ token'[k] # "none"
         /\ token'[k] = "active" => token[k] = "active"
         /\ overdue \subseteq overdue'
<1> USE DEF RowsTypeOK, Statuses
<1>1. ASSUME NEW a \in Agents, ExpireParent(a) \/ Expire(a)
      PROVE  token'[k] \in {token[k], "expired"} /\ overdue' = overdue
  BY <1>1 DEF ExpireParent, Expire
<1>2. ASSUME NEW q \in Tokens, Enroll(q)
      PROVE  token'[k] = token[k] /\ overdue' = overdue
  BY <1>2 DEF Enroll
<1>3. ASSUME NEW p \in Operators, RevokeTokens(p) \/ RotateRevoke(p)
      PROVE  token'[k] \in {token[k], "revoked"} /\ overdue' = overdue
  BY <1>3 DEF RevokeTokens, RotateRevoke
<1>4. ASSUME NEW p \in Operators, NEW q \in Tokens, RotateCreate(p, q)
      PROVE  token'[k] = token[k] /\ overdue' = overdue
  BY <1>4 DEF RotateCreate
<1>5. ASSUME NEW c \in Credentials, Lapse(c)
      PROVE  token'[k] = token[k] /\ overdue \subseteq overdue'
  BY <1>5 DEF Lapse
<1>6. CASE UNCHANGED <<token, overdue>>
  BY <1>6
<1> QED
  BY <1>1, <1>2, <1>3, <1>4, <1>5, <1>6
  DEF AccessNext, allVars, accessVars, Arrive, TokenRead, SessionRead, ParentRead, CloseSession,
      Enter, Refused, Mint, RevokeSelf, RevokeSessions, RevokeRead, RevokeDone,
      RevokeCascade, RotateRead, StopServer

\* A credential that was issued stays issued.
LEMMA IssuedStays ==
  ASSUME RowsTypeOK, [AccessNext]_allVars, NEW c \in Credentials, Issued(c)
  PROVE  Issued(c)'
<1>1. CASE c \in Tokens
  BY <1>1, ClosedStaysClosed DEF Issued
<1>2. CASE c \notin Tokens
  <2>1. c \in Sessions /\ session[c] # "none"
    BY <1>2 DEF Issued, Credentials
  <2>2. session'[c] # "none"
    <3> USE DEF RowsTypeOK, Statuses
    <3>1. ASSUME NEW a \in Agents, CloseSession(a) \/ Expire(a) \/ RevokeSelf(a)
          PROVE  session'[c] \in {session[c], "revoked", "expired"}
      BY <2>1, <3>1 DEF CloseSession, Expire, RevokeSelf
    <3>2. ASSUME NEW a \in Agents, NEW s \in Sessions, Mint(a, s)
          PROVE  session'[c] \in {session[c], "active"}
      BY <2>1, <3>2 DEF Mint
    <3>3. ASSUME NEW p \in Operators, NEW k \in Tokens, RevokeCascade(p, k)
          PROVE  session'[c] \in {session[c], "revoked"}
      BY <2>1, <3>3 DEF RevokeCascade
    <3>4. ASSUME RevokeSessions
          PROVE  session'[c] \in {session[c], "revoked"}
      BY <2>1, <3>4 DEF RevokeSessions
    <3>5. CASE UNCHANGED session
      BY <2>1, <3>5
    <3> QED
      BY <2>1, <3>1, <3>2, <3>3, <3>4, <3>5
      DEF AccessNext, allVars, accessVars, Arrive, TokenRead, SessionRead, ParentRead, ExpireParent,
          Enter, Refused, Enroll, Lapse, RevokeRead, RevokeTokens, RevokeDone,
          RotateRead, RotateRevoke, RotateCreate, StopServer
  <2> QED
    BY <1>2, <2>2 DEF Issued
<1> QED
  BY <1>1, <1>2

-----------------------------------------------------------------------------
(* Type correctness.                                                        *)

\* The doors apart: the rows, the orders and the bound.
RowsType ==
  /\ token \in [Tokens -> Statuses] /\ session \in [Sessions -> Statuses]
  /\ overdue \subseteq Credentials
  /\ order \in [Operators -> [pc : {"idle", "revoke", "cascade", "rotate", "create"},
                              agent : Agents \cup {Nobody}, list : SUBSET Tokens]]
  /\ orders \in Nat /\ served + orders <= MaxRequests

DoorsType ==
  /\ door \in [Agents -> [pc : {"out", "parent", "close", "expire", "expire_parent", "in"},
                          cred : Credentials \cup {Nobody}, open : BOOLEAN]]
  /\ \A a \in Agents : door[a].pc # "out" =>
       door[a].cred \in Credentials /\ Issued(door[a].cred) /\ AgentOf(door[a].cred) = a

\* Every step keeps the types of the rows and the orders.
LEMMA StepRows ==
  ASSUME LedgerTypeOK, RowsTypeOK, [AccessNext]_allVars
  PROVE  RowsType'
<1> USE DEF RowsType, Statuses
<1>0. RowsType /\ served \in Nat
  BY LedgerAssumption DEF LedgerTypeOK, RowsTypeOK
<1>1. ASSUME LedgerStep, served' + orders <= MaxRequests, UNCHANGED accessVars
      PROVE  RowsType'
  BY <1>0, <1>1 DEF accessVars
<1>2. ASSUME NEW c \in Credentials, Lapse(c)
      PROVE  RowsType'
  BY <1>0, <1>2, LedgerAssumption DEF Lapse, Order, Room, vars
<1>3. ASSUME NEW a \in Agents, CloseSession(a) \/ ExpireParent(a) \/ Expire(a) \/ RevokeSelf(a)
      PROVE  RowsType'
  BY <1>0, <1>3 DEF CloseSession, ExpireParent, Expire, RevokeSelf, vars
<1>4. ASSUME NEW a \in Agents, Enter(a)
      PROVE  RowsType'
  BY <1>0, <1>4, LedgerAssumption DEF Enter, Room, ClaimRead, StartRead, BeatRead, Serve
<1>5. ASSUME NEW a \in Agents, NEW s \in Sessions, Mint(a, s)
      PROVE  RowsType'
  BY <1>0, <1>5, LedgerAssumption DEF Mint, Order, Room, vars
<1>6. ASSUME NEW k \in Tokens, Enroll(k)
      PROVE  RowsType'
  BY <1>0, <1>6, LedgerAssumption DEF Enroll, Order, Room, vars
<1>7. ASSUME RevokeSessions
      PROVE  RowsType'
  BY <1>0, <1>7, LedgerAssumption DEF RevokeSessions, Order, Room, vars
<1>8. ASSUME NEW p \in Operators, RevokeRead(p)
      PROVE  RowsType'
  <2>1. \E q \in [pc : {"revoke"}, agent : Agents \cup {Nobody}, list : SUBSET Tokens] :
          order' = [order EXCEPT ![p] = q]
    BY <1>8 DEF RevokeRead
  <2> QED
    BY <1>0, <1>8, <2>1, LedgerAssumption DEF RevokeRead, Order, Room, vars
<1>9. ASSUME NEW p \in Operators, RevokeTokens(p) \/ RevokeDone(p) \/ RotateRevoke(p)
      PROVE  RowsType'
  BY <1>0, <1>9 DEF RevokeTokens, RevokeDone, RotateRevoke, NoOrder, vars
<1>10. ASSUME NEW p \in Operators, NEW k \in Tokens, RevokeCascade(p, k)
       PROVE  RowsType'
  BY <1>0, <1>10 DEF RevokeCascade, vars
<1>11. ASSUME NEW p \in Operators, NEW k \in Tokens, RotateRead(p, k)
       PROVE  RowsType'
  <2>1. Holder[k] \in Agents
    BY AccessAssumption
  <2> QED
    BY <1>0, <1>11, <2>1, LedgerAssumption DEF RotateRead, Order, Room, vars
<1>12. ASSUME NEW p \in Operators, NEW k \in Tokens, RotateCreate(p, k)
       PROVE  RowsType'
  BY <1>0, <1>12 DEF RotateCreate, NoOrder, vars
<1>13. ASSUME StopServer
       PROVE  RowsType'
  BY <1>0, <1>13 DEF StopServer, Stop, NoOrder, vars
<1>14. CASE UNCHANGED <<token, session, overdue, order, orders, served>>
  BY <1>0, <1>14
<1> QED
  BY <1>1, <1>2, <1>3, <1>4, <1>5, <1>6, <1>7, <1>8, <1>9, <1>10, <1>11, <1>12, <1>13, <1>14
  DEF AccessNext, allVars, accessVars, vars, Arrive, TokenRead, SessionRead, ParentRead, Refused

\* Whoever leaves a door as it was, or empty, keeps its type: a credential stays issued.
LEMMA DoorsKept ==
  ASSUME RowsTypeOK, [AccessNext]_allVars,
         door' \in [Agents -> [pc : {"out", "parent", "close", "expire", "expire_parent", "in"},
                              cred : Credentials \cup {Nobody}, open : BOOLEAN]],
         \A a \in Agents : door'[a].pc # "out" => door[a].pc # "out" /\ door'[a].cred = door[a].cred
  PROVE  DoorsType'
<1>1. ASSUME NEW a \in Agents, door'[a].pc # "out"
      PROVE  (door[a].cred \in Credentials /\ Issued(door[a].cred) /\ AgentOf(door[a].cred) = a)'
  <2>1. door[a].cred \in Credentials /\ Issued(door[a].cred) /\ AgentOf(door[a].cred) = a
    BY <1>1 DEF RowsTypeOK
  <2>2. Issued(door[a].cred)' = (IF door'[a].cred \in Tokens THEN token'[door'[a].cred] # "none"
                                                             ELSE session'[door'[a].cred] # "none")
    BY DEF Issued
  <2> QED
    BY <1>1, <2>1, <2>2, IssuedStays DEF Issued, AgentOf
<1> QED
  BY <1>1 DEF DoorsType, AgentOf

\* Every step keeps the types of the doors.
LEMMA StepDoors ==
  ASSUME RowsTypeOK, [AccessNext]_allVars
  PROVE  DoorsType'
<1> DEFINE Places == [pc : {"out", "parent", "close", "expire", "expire_parent", "in"},
                      cred : Credentials \cup {Nobody}, open : BOOLEAN]
<1>0. door \in [Agents -> Places]
  BY DEF RowsTypeOK
<1>1. ASSUME NEW a \in Agents, NEW c \in Credentials, NEW pc \in {"expire", "parent", "in"},
             Issued(c), AgentOf(c) = a, Arrive(a, c, pc)
      PROVE  DoorsType'
  <2>1. door' = [door EXCEPT ![a] = [pc |-> pc, cred |-> c, open |-> Open(c)]]
    BY <1>1 DEF Arrive
  <2>2. Open(c) \in BOOLEAN
    BY DEF Open, OpenToken
  <2>3. door' \in [Agents -> Places]
    <3>1. [pc |-> pc, cred |-> c, open |-> Open(c)] \in Places
      BY <1>1, <2>2
    <3> QED
      BY <1>0, <2>1, <3>1
  <2>4. door'[a].cred = c /\ \A b \in Agents \ {a} : door'[b] = door[b]
    BY <1>0, <2>1
  <2>5. \A b \in Agents : door'[b].pc # "out" =>
          door'[b].cred \in Credentials /\ Issued(door'[b].cred) /\ AgentOf(door'[b].cred) = b
    BY <1>1, <2>4 DEF RowsTypeOK
  <2> QED
    BY <1>1, <2>3, <2>5, IssuedStays DEF DoorsType, AgentOf
<1>2. ASSUME NEW a \in Agents, NEW k \in Tokens, TokenRead(a, k)
      PROVE  DoorsType'
  BY <1>1, <1>2 DEF TokenRead, Issued, AgentOf, Credentials
<1>3. ASSUME NEW a \in Agents, NEW s \in Sessions, SessionRead(a, s)
      PROVE  DoorsType'
  BY <1>1, <1>3, AccessAssumption DEF SessionRead, Issued, Credentials
<1>4. ASSUME NEW a \in Agents, NEW pc \in {"close", "expire_parent", "in", "expire"}, To(a, pc), door[a].pc # "out"
      PROVE  DoorsType'
  <2>1. door' \in [Agents -> Places]
    BY <1>0, <1>4 DEF To
  <2>2. \A b \in Agents : door'[b].pc # "out" => door[b].pc # "out" /\ door'[b].cred = door[b].cred
    BY <1>0, <1>4 DEF To
  <2> QED
    BY <2>1, <2>2, DoorsKept
<1>5. ASSUME NEW a \in Agents, Leave(a)
      PROVE  DoorsType'
  <2>1. door' \in [Agents -> Places]
    BY <1>0, <1>5 DEF Leave, Outside
  <2>2. \A b \in Agents : door'[b].pc # "out" => door[b].pc # "out" /\ door'[b].cred = door[b].cred
    BY <1>0, <1>5 DEF Leave, Outside
  <2> QED
    BY <2>1, <2>2, DoorsKept
<1>6. ASSUME NEW a \in Agents, ParentRead(a) \/ ExpireParent(a)
      PROVE  DoorsType'
  BY <1>4, <1>6 DEF ParentRead, ExpireParent
<1>7. ASSUME NEW a \in Agents,
             \/ CloseSession(a) \/ Expire(a) \/ Enter(a) \/ Refused(a) \/ RevokeSelf(a)
             \/ \E s \in Sessions : Mint(a, s)
      PROVE  DoorsType'
  BY <1>5, <1>7 DEF CloseSession, Expire, Enter, Refused, RevokeSelf, Mint
<1>8. ASSUME StopServer
      PROVE  DoorsType'
  <2>1. door' = [a \in Agents |-> Outside]
    BY <1>8 DEF StopServer
  <2>2. door' \in [Agents -> Places]
    BY <2>1 DEF Outside
  <2> QED
    BY <2>1, <2>2 DEF DoorsType, Outside
<1>9. CASE UNCHANGED door
  BY <1>0, <1>9, DoorsKept
<1> QED
  BY <1>2, <1>3, <1>6, <1>7, <1>8, <1>9
  DEF AccessNext, allVars, accessVars, Lapse, Enroll, RevokeSessions, RevokeRead, RevokeTokens,
      RevokeDone, RotateRevoke, RevokeCascade, RotateRead, RotateCreate

-----------------------------------------------------------------------------
(* Admission.                                                               *)

\* A session keeps its parent token.
LEMMA StepMinted ==
  ASSUME RowsTypeOK, Minted, [AccessNext]_allVars
  PROVE  Minted'
<1> SUFFICES ASSUME NEW s \in Sessions, session'[s] # "none"
             PROVE  token'[Parent[s]] # "none"
  BY DEF Minted
<1> USE DEF RowsTypeOK, Statuses
<1>0. Parent[s] \in Tokens
  BY AccessAssumption
<1>1. CASE session[s] # "none"
  BY <1>0, <1>1, ClosedStaysClosed DEF Minted
<1>2. CASE session[s] = "none"
  <2>1. ASSUME NEW a \in Agents, NEW t \in Sessions, Mint(a, t)
        PROVE  token[Parent[s]] # "none" /\ token' = token
    <3>1. t = s /\ door[a].cred = Parent[s] /\ door[a].pc # "out"
      BY <1>2, <2>1 DEF Mint
    <3> QED
      BY <1>0, <2>1, <3>1 DEF Issued, Mint
  <2>2. ASSUME NEW a \in Agents, CloseSession(a) \/ Expire(a)
        PROVE  door[a].cred = s
    BY <1>2, <2>2 DEF CloseSession, Expire
  <2>3. ASSUME NEW a \in Agents, CloseSession(a) \/ Expire(a)
        PROVE  FALSE
    <3>1. Issued(s)
      BY <2>2, <2>3 DEF CloseSession, Expire
    <3> QED
      BY <1>2, <3>1, AccessAssumption DEF Issued
  <2>4. ASSUME NEW a \in Agents, RevokeSelf(a)
        PROVE  FALSE
    BY <1>2, <2>4 DEF RevokeSelf
  <2>5. ASSUME NEW p \in Operators, NEW k \in Tokens, RevokeCascade(p, k)
        PROVE  FALSE
    BY <1>2, <2>5 DEF RevokeCascade
  <2>6. ASSUME RevokeSessions
        PROVE  FALSE
    BY <1>2, <2>6 DEF RevokeSessions
  <2>7. CASE UNCHANGED session
    BY <1>2, <2>7
  <2> QED
    BY <2>1, <2>3, <2>4, <2>5, <2>6, <2>7
    DEF AccessNext, allVars, accessVars, Arrive, TokenRead, SessionRead, ParentRead, ExpireParent,
        Enter, Refused, Enroll, Lapse, RevokeRead, RevokeTokens, RevokeDone,
        RotateRead, RotateRevoke, RotateCreate, StopServer
<1> QED
  BY <1>1, <1>2

\* What the doors know stays true, step by step: a request comes with what is so
\* at that moment, and what it learns at the second read was so when it came.
LEMMA StepAdmitted ==
  ASSUME RowsTypeOK, Minted, Tested, AdmittedWasOpen, [AccessNext]_allVars
  PROVE  Tested' /\ AdmittedWasOpen'
<1> SUFFICES ASSUME NEW a \in Agents
             PROVE  Awaits(a)' /\ (door'[a].pc = "in" => door'[a].open)
  BY DEF Tested, AdmittedWasOpen
<1> USE DEF Awaits
<1>1. CASE door'[a] = door[a]
  <2>1. ASSUME door[a].pc = "parent"
        PROVE  token[Parent[door[a].cred]] # "none" /\ Parent[door[a].cred] \in Tokens
    BY <2>1, AccessAssumption DEF Tested, Awaits, RowsTypeOK, Issued, Minted
  <2>2. ASSUME door[a].pc = "parent", ~OpenToken(Parent[door[a].cred])
        PROVE  ~OpenToken(Parent[door[a].cred])'
    <3> DEFINE k == Parent[door[a].cred]
    <3>1. token'[k] # "active" \/ k \in overdue'
      BY <2>1, <2>2, ClosedStaysClosed DEF OpenToken
    <3> QED
      BY <1>1, <3>1 DEF OpenToken
  <2> QED
    BY <1>1, <2>2 DEF Tested, AdmittedWasOpen
<1>2. CASE door'[a].pc \notin {"parent", "in"}
  BY <1>2
<1>3. ASSUME NEW k \in Tokens, TokenRead(a, k)
      PROVE  door'[a].pc = "in" => door'[a].open
  <2>1. door'[a] = [pc |-> IF k \in overdue THEN "expire" ELSE "in", cred |-> k, open |-> Open(k)]
    BY <1>3 DEF TokenRead, Arrive, RowsTypeOK
  <2>2. k \notin overdue => Open(k)
    BY <1>3 DEF TokenRead, Open, OpenToken
  <2> QED
    BY <2>1, <2>2
<1>4. ASSUME NEW k \in Tokens, TokenRead(a, k)
      PROVE  door'[a].pc # "parent"
  BY <1>4 DEF TokenRead, Arrive, RowsTypeOK
<1>5. ASSUME NEW s \in Sessions, SessionRead(a, s)
      PROVE  /\ door'[a].pc # "in"
             /\ door'[a].pc = "parent" => door'[a].cred = s /\ (door'[a].open \/ ~OpenToken(Parent[s])')
  <2>1. door'[a] = [pc |-> IF s \in overdue THEN "expire" ELSE "parent", cred |-> s, open |-> Open(s)]
    BY <1>5 DEF SessionRead, Arrive, RowsTypeOK
  <2>2. s \notin Tokens /\ Parent[s] \in Tokens
    BY AccessAssumption
  <2>3. s \notin overdue /\ OpenToken(Parent[s]) => Open(s)
    BY <1>5, <2>2 DEF SessionRead, Open
  <2>4. OpenToken(Parent[s])' => OpenToken(Parent[s])
    BY <1>5 DEF SessionRead, Arrive, OpenToken
  <2> QED
    BY <2>1, <2>3, <2>4
<1>6. ASSUME ParentRead(a), door'[a].pc \in {"parent", "in"}
      PROVE  door'[a].pc = "in" /\ door'[a].open
  <2>1. OpenToken(Parent[door[a].cred]) /\ door[a].pc = "parent"
    BY <1>6 DEF ParentRead, To, OpenToken, RowsTypeOK
  <2>2. door[a].open
    BY <2>1 DEF Tested
  <2> QED
    BY <1>6, <2>2 DEF ParentRead, To, RowsTypeOK
<1>7. ASSUME CloseSession(a) \/ ExpireParent(a) \/ Expire(a) \/ Enter(a) \/ Refused(a)
             \/ RevokeSelf(a) \/ \E s \in Sessions : Mint(a, s)
      PROVE  door'[a].pc \notin {"parent", "in"}
  BY <1>7 DEF CloseSession, ExpireParent, Expire, Enter, Refused, RevokeSelf, Mint,
              To, Leave, Outside, RowsTypeOK
<1>8. ASSUME StopServer
      PROVE  door'[a].pc \notin {"parent", "in"}
  BY <1>8 DEF StopServer, Outside
<1>9. ASSUME NEW b \in Agents \ {a},
             \/ (\E k \in Tokens : TokenRead(b, k)) \/ (\E s \in Sessions : SessionRead(b, s))
             \/ ParentRead(b) \/ CloseSession(b) \/ ExpireParent(b) \/ Expire(b)
             \/ Enter(b) \/ Refused(b) \/ (\E s \in Sessions : Mint(b, s)) \/ RevokeSelf(b)
      PROVE  door'[a] = door[a]
  BY <1>9 DEF TokenRead, SessionRead, Arrive, ParentRead, CloseSession, ExpireParent, Expire,
              Enter, Refused, Mint, RevokeSelf, To, Leave, RowsTypeOK
<1>10. CASE UNCHANGED door
  BY <1>1, <1>10
<1>11. ASSUME NEW s \in Sessions, SessionRead(a, s), door'[a].pc = "parent"
       PROVE  Awaits(a)'
  BY <1>5, <1>11 DEF OpenToken
<1>12. ASSUME NEW b \in Agents,
             \/ (\E k \in Tokens : TokenRead(b, k)) \/ (\E s \in Sessions : SessionRead(b, s))
             \/ ParentRead(b) \/ CloseSession(b) \/ ExpireParent(b) \/ Expire(b)
             \/ Enter(b) \/ Refused(b) \/ (\E s \in Sessions : Mint(b, s)) \/ RevokeSelf(b)
       PROVE  Awaits(a)' /\ (door'[a].pc = "in" => door'[a].open)
  <2>1. CASE b # a
    BY <1>1, <1>9, <1>12, <2>1
  <2>2. CASE b = a
    BY <1>2, <1>3, <1>4, <1>5, <1>6, <1>7, <1>11, <1>12, <2>2
  <2> QED
    BY <2>1, <2>2
<1> QED
  BY <1>8, <1>10, <1>12
  DEF AccessNext, allVars, accessVars, Lapse, Enroll, RevokeSessions, RevokeRead, RevokeTokens,
      RevokeDone, RotateRevoke, RevokeCascade, RotateRead, RotateCreate

\* Every step keeps the types.
LEMMA StepAccessType ==
  ASSUME LedgerTypeOK, RowsTypeOK, [AccessNext]_allVars
  PROVE  RowsTypeOK'
BY StepRows, StepDoors DEF RowsType, DoorsType, RowsTypeOK

-----------------------------------------------------------------------------
(* Revocation.                                                              *)

\* The operator lets the agent in again.
Readmitted(a) ==
  \/ \E k \in Tokens : Holder[k] = a /\ token[k] = "none" /\ token'[k] = "active"
  \/ \E p \in Operators : order[p].pc = "idle" /\ order'[p].pc = "rotate" /\ order'[p].agent = a

\* No order makes a token for an agent that is shut out, unless a rotation starts.
LEMMA ShutOrders ==
  ASSUME RowsTypeOK, [AccessNext]_allVars, NEW a \in Agents, Shut(a), ~Readmitted(a)
  PROVE  \A p \in Operators : order'[p].pc \in {"rotate", "create"} => order'[p].agent # a
<1> SUFFICES ASSUME NEW p \in Operators, order'[p].pc \in {"rotate", "create"}
             PROVE  order'[p].agent # a
  OBVIOUS
<1> USE DEF RowsTypeOK
<1>1. CASE order'[p] = order[p]
  BY <1>1 DEF Shut
<1>2. ASSUME NEW q \in Operators, RevokeRead(q)
      PROVE  order'[p] = order[p]
  BY <1>2 DEF RevokeRead
<1>3. ASSUME NEW q \in Operators, RevokeTokens(q) \/ RevokeDone(q) \/ \E k \in Tokens : RevokeCascade(q, k)
      PROVE  order'[p] = order[p]
  <2>1. CASE q # p
    BY <1>3, <2>1 DEF RevokeTokens, RevokeDone, RevokeCascade
  <2>2. CASE q = p
    <3>1. order'[p].pc \in {"cascade", "idle"}
      BY <1>3, <2>2 DEF RevokeTokens, RevokeDone, RevokeCascade, NoOrder
    <3> QED
      BY <3>1
  <2> QED
    BY <2>1, <2>2
<1>4. ASSUME NEW q \in Operators, RotateRevoke(q)
      PROVE  order'[p].agent # a
  BY <1>4 DEF RotateRevoke, Shut
<1>5. ASSUME NEW q \in Operators, NEW k \in Tokens, RotateCreate(q, k)
      PROVE  order'[p] = order[p]
  BY <1>5 DEF RotateCreate, NoOrder
<1>6. ASSUME NEW q \in Operators, NEW k \in Tokens, RotateRead(q, k)
      PROVE  order'[p].agent # a
  <2>1. CASE q = p
    <3>1. order[p].pc = "idle" /\ order'[p].pc = "rotate"
      BY <1>6, <2>1 DEF RotateRead
    <3> QED
      BY <3>1 DEF Readmitted
  <2>2. CASE q # p
    BY <1>1, <1>6, <2>2 DEF RotateRead
  <2> QED
    BY <2>1, <2>2
<1>7. ASSUME StopServer
      PROVE  FALSE
  BY <1>7 DEF StopServer, NoOrder
<1>8. CASE UNCHANGED order
  BY <1>1, <1>8
<1> QED
  BY <1>1, <1>2, <1>3, <1>4, <1>5, <1>6, <1>7, <1>8
  DEF AccessNext, allVars, accessVars, Lapse, Enroll, RevokeSessions, Arrive, TokenRead, SessionRead,
      ParentRead, CloseSession, ExpireParent, Expire, Enter, Refused, Mint, RevokeSelf

\* No token of an agent that is shut out opens, unless a new row is made for it.
LEMMA ShutTokens ==
  ASSUME RowsTypeOK, [AccessNext]_allVars, NEW a \in Agents, Shut(a), ~Readmitted(a)
  PROVE  \A k \in Tokens : Holder[k] = a => ~(token'[k] = "active" /\ k \notin overdue')
<1> SUFFICES ASSUME NEW k \in Tokens, Holder[k] = a
             PROVE  ~(token'[k] = "active" /\ k \notin overdue')
  OBVIOUS
<1>1. CASE token[k] = "none"
  BY <1>1 DEF Readmitted
<1>2. CASE token[k] # "none"
  BY <1>2, ClosedStaysClosed DEF Shut, OpenToken
<1> QED
  BY <1>1, <1>2

\* Nobody who is shut out gets past the door.
LEMMA ShutDoor ==
  ASSUME RowsTypeOK, Tested, [AccessNext]_allVars, NEW a \in Agents, Shut(a)
  PROVE  door'[a].pc # "in"
<1> USE DEF RowsTypeOK
<1>1. ASSUME NEW k \in Tokens, TokenRead(a, k)
      PROVE  door'[a].pc # "in"
  <2>1. k \in overdue
    BY <1>1 DEF TokenRead, Shut, OpenToken
  <2> QED
    BY <1>1, <2>1 DEF TokenRead, Arrive
<1>2. ASSUME NEW s \in Sessions, SessionRead(a, s)
      PROVE  door'[a].pc # "in"
  BY <1>2 DEF SessionRead, Arrive
<1>3. ASSUME ParentRead(a)
      PROVE  door'[a].pc # "in"
  <2> DEFINE k == Parent[door[a].cred]
  <2>1. door[a].cred \in Sessions /\ AgentOf(door[a].cred) = a
    BY <1>3 DEF ParentRead, Tested, Awaits
  <2>2. k \in Tokens /\ Holder[k] = a
    BY <2>1, AccessAssumption DEF AgentOf
  <2>3. token[k] # "active" \/ k \in overdue
    BY <2>2 DEF Shut, OpenToken
  <2> QED
    BY <1>3, <2>3 DEF ParentRead, To
<1>4. ASSUME CloseSession(a) \/ ExpireParent(a) \/ Expire(a) \/ Enter(a) \/ Refused(a)
             \/ RevokeSelf(a) \/ \E s \in Sessions : Mint(a, s)
      PROVE  door'[a].pc # "in"
  BY <1>4 DEF CloseSession, ExpireParent, Expire, Enter, Refused, RevokeSelf, Mint, To, Leave, Outside
<1>5. ASSUME StopServer
      PROVE  door'[a].pc # "in"
  BY <1>5 DEF StopServer, Outside
<1>6. ASSUME NEW b \in Agents \ {a},
             \/ (\E k \in Tokens : TokenRead(b, k)) \/ (\E s \in Sessions : SessionRead(b, s))
             \/ ParentRead(b) \/ CloseSession(b) \/ ExpireParent(b) \/ Expire(b)
             \/ Enter(b) \/ Refused(b) \/ (\E s \in Sessions : Mint(b, s)) \/ RevokeSelf(b)
      PROVE  door'[a] = door[a]
  BY <1>6 DEF TokenRead, SessionRead, Arrive, ParentRead, CloseSession, ExpireParent, Expire,
              Enter, Refused, Mint, RevokeSelf, To, Leave
<1>7. CASE door'[a] = door[a]
  BY <1>7 DEF Shut
<1>8. ASSUME NEW b \in Agents,
             \/ (\E k \in Tokens : TokenRead(b, k)) \/ (\E s \in Sessions : SessionRead(b, s))
             \/ ParentRead(b) \/ CloseSession(b) \/ ExpireParent(b) \/ Expire(b)
             \/ Enter(b) \/ Refused(b) \/ (\E s \in Sessions : Mint(b, s)) \/ RevokeSelf(b)
      PROVE  door'[a].pc # "in"
  <2>1. CASE b # a
    BY <1>6, <1>7, <1>8, <2>1
  <2>2. CASE b = a
    BY <1>1, <1>2, <1>3, <1>4, <1>8, <2>2
  <2> QED
    BY <2>1, <2>2
<1> QED
  BY <1>5, <1>7, <1>8
  DEF AccessNext, allVars, accessVars, Lapse, Enroll, RevokeSessions, RevokeRead, RevokeTokens,
      RevokeDone, RotateRevoke, RevokeCascade, RotateRead, RotateCreate

\* The ledger does nothing for who is shut out: no request begins, no claim succeeds.
LEMMA ShutRequest ==
  ASSUME LedgerTypeOK, RowsTypeOK, [AccessNext]_allVars, NEW a \in Agents, Shut(a)
  PROVE  request'[a].pc = "idle" /\ (a \in claimants' => a \in claimants)
<1> USE DEF Shut, LedgerTypeOK
<1>1. ASSUME NEW b \in Agents, Enter(b)
      PROVE  request'[a].pc = "idle" /\ (a \in claimants' => a \in claimants)
  BY <1>1 DEF Enter, ClaimRead, StartRead, BeatRead
<1>2. ASSUME NEW b \in Agents,
             Claim(b) \/ StartBinding(b) \/ StartUpsert(b) \/ StartTask(b) \/ BeatRun(b) \/ BeatTask(b)
      PROVE  request'[a].pc = "idle" /\ (a \in claimants' => a \in claimants)
  BY <1>2 DEF Claim, StartBinding, StartUpsert, StartTask, BeatRun, BeatTask
<1>3. ASSUME \/ (\E force \in BOOLEAN : ReleaseRead(force)) \/ ReleaseList
             \/ (\E r \in Runs : ReleaseRun(r)) \/ ReleaseTask
             \/ (\E s \in TaskStatuses : PatchStatus(s))
             \/ (\E o \in Agents \cup {Nobody} : PatchAssign(o))
      PROVE  request'[a].pc = "idle" /\ (a \in claimants' => a \in claimants)
  BY <1>3 DEF ReleaseRead, ReleaseList, ReleaseRun, ReleaseTask, PatchStatus, PatchAssign
<1>4. ASSUME StopServer
      PROVE  request'[a].pc = "idle" /\ (a \in claimants' => a \in claimants)
  BY <1>4 DEF StopServer, Stop, NoRequest, vars
<1>5. CASE UNCHANGED vars
  BY <1>5 DEF vars
<1> QED
  BY <1>1, <1>2, <1>3, <1>4, <1>5
  DEF AccessNext, allVars, LedgerStep, Lapse, Arrive, TokenRead, SessionRead, ParentRead, CloseSession,
      ExpireParent, Expire, Refused, Mint, RevokeSelf, Enroll, RevokeSessions, RevokeRead, RevokeTokens,
      RevokeDone, RotateRevoke, RevokeCascade, RotateRead, RotateCreate

-----------------------------------------------------------------------------
(* The invariant and what follows from it.                                  *)

\* The inductive invariant holds in every reachable state.
THEOREM AccessInvariant == AccessSpec => []AccessInv
<1>1. AccessInit => RowsTypeOK /\ Minted /\ Tested /\ AdmittedWasOpen
  BY LedgerAssumption
  DEF AccessInit, LedgerInit, RowsTypeOK, Minted, Tested, Awaits, AdmittedWasOpen, Statuses, Outside, NoOrder
<1>2. LedgerTypeOK /\ RowsTypeOK /\ Minted /\ Tested /\ AdmittedWasOpen /\ [AccessNext]_allVars
        => (RowsTypeOK /\ Minted /\ Tested /\ AdmittedWasOpen)'
  BY StepAccessType, StepMinted, StepAdmitted
<1>3. AccessSpec => []LedgerTypeOK
  BY AccessObeysLedger, LedgerTypeCorrect, PTL
<1>4. AccessInv <=> LedgerTypeOK /\ (RowsTypeOK /\ Minted /\ Tested /\ AdmittedWasOpen)
  BY DEF AccessInv
<1> QED
  BY <1>1, <1>2, <1>3, <1>4, PTL DEF AccessSpec

\* The rows of the credentials and of the ledger, doors and orders keep their types.
THEOREM AccessTypeCorrect == AccessSpec => []AccessTypeOK
<1>1. AccessInv => AccessTypeOK
  BY DEF AccessInv, AccessTypeOK
<1> QED
  BY <1>1, AccessInvariant, PTL

\* A request is let in only on a credential that was open when it came (the two
\* reads of agent_gateway_auth_context, against every revocation in between).
THEOREM AdmissionWasOpen == AccessSpec => []AdmittedWasOpen
<1>1. AccessInv => AdmittedWasOpen
  BY DEF AccessInv
<1> QED
  BY <1>1, AccessInvariant, PTL

\* An agent without an open token, and with nothing on its way, stays shut out,
\* its sessions with it, until the operator enrolls it again.
THEOREM ShutAlwaysStaysShut == AccessSpec => ShutStaysShut
<1>1. AccessInv /\ [AccessNext]_allVars =>
        [\A a \in Agents : Shut(a) =>
           \/ Shut(a)' /\ (a \in claimants' => a \in claimants)
           \/ \E k \in Tokens : Holder[k] = a /\ token[k] = "none" /\ token'[k] = "active"
           \/ \E p \in Operators : order[p].pc = "idle" /\ order'[p].pc = "rotate"
                                   /\ order'[p].agent = a]_allVars
  <2> SUFFICES ASSUME AccessInv, [AccessNext]_allVars, NEW a \in Agents, Shut(a), ~Readmitted(a)
               PROVE  Shut(a)' /\ (a \in claimants' => a \in claimants)
    BY DEF Readmitted
  <2>1. /\ \A k \in Tokens : Holder[k] = a => ~(token'[k] = "active" /\ k \notin overdue')
        /\ \A p \in Operators : order'[p].pc \in {"rotate", "create"} => order'[p].agent # a
        /\ door'[a].pc # "in" /\ request'[a].pc = "idle"
    BY ShutTokens, ShutOrders, ShutDoor, ShutRequest DEF AccessInv
  <2>2. Shut(a)'
    BY <2>1 DEF Shut, OpenToken
  <2> QED
    BY <2>2, ShutRequest DEF AccessInv
<1> QED
  BY <1>1, AccessInvariant, PTL DEF AccessSpec, ShutStaysShut

\* Behind authentication the task is handed out as HandOut says and is completed
\* only after one of its runs was: sessions, tokens and the operator's orders on
\* them add nothing that the handlers have not shown.
THEOREM AccessHandsOut == AccessSpec => ImplementsHandOut /\ []AtMostOneClaimant /\ []CompletedByARun
  BY AccessObeysLedger, PoolImplementsHandOut, OneClaimant, CompletionIsRecorded, PTL
=============================================================================
