-------------------------------- MODULE Gate --------------------------------
(***************************************************************************)
(* What the test gate promises to the rest of the pipeline: the code goes   *)
(* on to its review only after a test reported a pass, and a failure is     *)
(* handed to a fixing agent only while attempts are left.  CodeTest         *)
(* implements it; DevPipeline is built on it.                               *)
(***************************************************************************)
EXTENDS Integers

CONSTANT MaxRetry    \* MAX_TEST_RETRY

VARIABLES
  gate,      \* "out", "testing", "fixing", "through" or "stuck"
  report,    \* what the test of this visit reported
  failures   \* failures in a row

Init == gate = "out" /\ report = "none" /\ failures = 0

(* Mutant of Report: a pass takes one failure back. *)
MutantReport ==
  /\ \/ report' = "pass" /\ failures' = failures - 1
     \/ report' = "fail" /\ failures' = failures + 1
  /\ UNCHANGED gate

(* A test reports, whatever the batch is doing by then. *)
Report ==
  /\ \/ report' = "pass" /\ failures' = 0
     \/ report' = "fail" /\ failures' = failures + 1
  /\ UNCHANGED gate

Test ==
  /\ gate \in {"out", "fixing"}
  /\ gate' = "testing"
  /\ report' = "none"
  /\ UNCHANGED failures

(* The test is started late; what another one reported before is dropped.   *)
Restart == report' = "none" /\ UNCHANGED <<gate, failures>>

Pass ==
  /\ gate = "testing" /\ report = "pass"
  /\ gate' = "through"
  /\ UNCHANGED <<report, failures>>

Fix ==
  /\ gate = "testing" /\ report = "fail" /\ failures < MaxRetry
  /\ gate' = "fixing"
  /\ UNCHANGED <<report, failures>>

(* Too many failures, or somebody took too long or could not be started. *)
GiveUp ==
  /\ gate' = "stuck"
  /\ UNCHANGED <<report, failures>>

(* The review or the owner sends the code back, or the batch is over. *)
Leave ==
  /\ gate' = "out"
  /\ \/ UNCHANGED <<report, failures>>
     \/ report' = "none" /\ failures' = 0

Next == Report \/ Test \/ Restart \/ Pass \/ Fix \/ GiveUp \/ Leave

Spec == Init /\ [][Next]_<<gate, report, failures>>
=============================================================================
