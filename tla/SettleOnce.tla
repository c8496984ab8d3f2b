------------------------------ MODULE SettleOnce ------------------------------
(***************************************************************************)
(* What the relay transition promises, seen from the disk and the audit    *)
(* ledger, whatever fails or stops in between.  Transactions follow one    *)
(* another under numbers that are never used twice.  Each is opened on two *)
(* config files that agree, and gets a verdict: healthy, with both files   *)
(* on the other mode, rolled back, with both where they were, or failed,   *)
(* after which no transaction is opened.  A healthy verdict alone may be   *)
(* taken back, and only until the transaction is closed; the ledger tells  *)
(* a verdict only when it cannot be taken back any more.                   *)
(***************************************************************************)
EXTENDS Naturals

CONSTANTS Modes,       \* the modes of publication
          Opposite(_), \* of the two, the other one
          Unsettled    \* the two files while they promise nothing

VARIABLES number,   \* of the transaction under way, 0 when there is none
          verdict,  \* "none", "open", or its verdict
          origin,   \* the mode it was opened on
          files,    \* the two config files
          closed,   \* number and verdict of the transactions that are over
          told      \* number and verdict in the audit ledger

promise == <<number, verdict, origin, files, closed, told>>

Both(m) == <<m, m>>
This    == <<number, verdict>>

Init ==
  /\ number = 0 /\ verdict = "none" /\ origin = "none"
  /\ files \in {Both(m) : m \in Modes}
  /\ closed = {} /\ told = {}

Unused(n) == n > number /\ \A c \in closed \cup told : n > c[1]

\* A finished transaction is closed by the one that follows it.
Open ==
  /\ verdict \in {"none", "healthy", "rolled_back"}
  /\ Unused(number') /\ verdict' = "open"
  /\ \E m \in Modes : files = Both(m) /\ origin' = m
  /\ files' = Unsettled
  /\ closed' = IF verdict = "none" THEN closed ELSE closed \cup {This}
  /\ UNCHANGED told

Settle(v) ==
  /\ verdict = "open" /\ verdict' = v
  /\ files' = CASE v = "healthy"     -> Both(Opposite(origin))
                [] v = "rolled_back" -> Both(origin)
                [] OTHER             -> Unsettled
  /\ UNCHANGED <<number, origin, closed, told>>

Revoke ==
  /\ verdict = "healthy" /\ This \notin told
  /\ verdict' = "open" /\ files' = Unsettled
  /\ UNCHANGED <<number, origin, closed, told>>

Close ==
  /\ verdict = "healthy"
  /\ number' = 0 /\ verdict' = "none" /\ origin' = "none"
  /\ closed' = closed \cup {This}
  /\ UNCHANGED <<files, told>>

Irrevocable == closed \cup (IF verdict \in {"rolled_back", "rollback_failed"} THEN {This} ELSE {})

Tell(e) ==
  /\ e \in Irrevocable
  /\ told' = told \cup {e}
  /\ UNCHANGED <<number, verdict, origin, files, closed>>

Next ==
  \/ Open \/ Revoke \/ Close
  \/ \E v \in {"healthy", "rolled_back", "rollback_failed"} : Settle(v)
  \/ \E e \in Irrevocable : Tell(e)

Spec == Init /\ [][Next]_promise
=============================================================================
