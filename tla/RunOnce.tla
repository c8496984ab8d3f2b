------------------------------- MODULE RunOnce -------------------------------
(***************************************************************************)
(* What a workflow job submitted under a key promises, seen from outside:  *)
(* the first request fixes the content, that content is begun at most      *)
(* once, and only a job that has begun is completed.  No job goes back to  *)
(* the queue.  A job may be declared failed at any time, also before,      *)
(* during or after its run, and a job that was declared failed may still   *)
(* begin, complete, or complete again: no outcome is promised to be final. *)
(***************************************************************************)
EXTENDS Naturals

CONSTANTS Contents, Nothing

VARIABLES recorded,  \* the content under the key, Nothing before the first request
          status,    \* what the job's row tells
          runs       \* how often it has been begun

promise == <<recorded, status, runs>>

Init == recorded = Nothing /\ status = "none" /\ runs = 0

Record(c) ==
  /\ status = "none"
  /\ recorded' = c /\ status' = "queued" /\ UNCHANGED runs

Begin ==
  /\ status \in {"queued", "failed"} /\ runs = 0
  /\ status' = "running" /\ runs' = 1 /\ UNCHANGED recorded

Complete ==
  /\ status \in {"running", "failed"} /\ runs = 1
  /\ status' = "completed" /\ UNCHANGED <<recorded, runs>>

Fail ==
  /\ status # "none"
  /\ status' = "failed" /\ UNCHANGED <<recorded, runs>>

Next == (\E c \in Contents : Record(c)) \/ Begin \/ Complete \/ Fail

Spec == Init /\ [][Next]_promise
=============================================================================
