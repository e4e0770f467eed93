------------------------------ MODULE CodeTest ------------------------------
(***************************************************************************)
(* The test gate between the implementation and the code review: a test    *)
(* process and, when it fails, a fixing agent, both detached from the      *)
(* watchdog that starts them and known to it only by a pid in the pipeline *)
(* JSON.  A watchdog tick is not one step here: it decides in a            *)
(* transaction, starts the process, and records it in a second one; the    *)
(* poll of a finished test reads and removes its files before it saves the *)
(* result.  The owner's commands and a crash come in between.              *)
(***************************************************************************)
EXTENDS Integers, FiniteSets

CONSTANTS
  MaxRetry,      \* MAX_TEST_RETRY
  Environments,  \* sets of faults and owner's commands a behaviour may meet
  CodeBound,     \* bound: versions of the code
  CrashBound,    \* bound: crashes of the watchdog
  RetryBound     \* bound: failures after which the owner does not resume

Disturbances == {"crash", "block", "resume", "reset"}

ASSUME CodeTestAssumption ==
  /\ MaxRetry \in Nat \ {0}
  /\ Environments \subseteq SUBSET Disturbances
  /\ CodeBound \in Nat \ {0}
  /\ CrashBound \in Nat
  /\ RetryBound \in Nat

VARIABLES
  state,     \* state; IMPLEMENT stands for IMPLEMENTATION and CODE_REVISE
  result,    \* test_result
  retries,   \* test_retry_count
  test,      \* _code_test and the process and exit file it names
  cc,        \* cc_pid: whether its process lives, for which retry it was started
  overdue,   \* the state's timer has run out
  wd,        \* where the watchdog is in its tick
  job,       \* what the tick carries to its next step
  stray,     \* live processes that no record names any more
  code,      \* version of the working tree
  passed,    \* history: version that a collected test passed last, 0 if it failed
  crashes,   \* number of crashes so far
  allowed    \* what this behaviour may meet, one of Environments

procVars == <<test, cc, stray>>
tickVars == <<wd, job>>
envVars  == <<crashes, allowed>>
vars == <<state, result, retries, overdue, code, passed, procVars, tickVars,
          envVars>>

States == {"IMPLEMENT", "CODE_TEST", "CODE_TEST_FIX", "CODE_REVIEW",
           "BLOCKED", "IDLE"}

(* States in which the project is enabled, so that a tick looks at it. *)
Enabled == States \ {"BLOCKED", "IDLE"}

(* A test runs, is over but for its exit code in the file it has opened,    *)
(* has its exit code there, or is gone without one.                        *)
Exits == {"running", "opened", "passed", "failed", "gone"}
NoTest == [status |-> "none", code |-> 0, late |-> FALSE]
Tests  == {NoTest} \cup [status : Exits, code : Nat, late : BOOLEAN]

NoFixer == [status |-> "none", for |-> 0]
Fixers  == {NoFixer} \cup [status : {"live", "ended"}, for : Nat]

Steps == {"idle", "save", "launch", "record", "launchFix", "recordFix"}

TypeOK ==
  /\ state \in States
  /\ result \in {"none", "pass", "fail"}
  /\ retries \in Nat
  /\ test \in Tests
  /\ cc \in Fixers
  /\ overdue \in BOOLEAN
  /\ wd \in Steps
  /\ job \in IF wd = "recordFix" THEN Fixers \ {NoFixer}
             ELSE IF wd \in {"save", "record"} THEN Tests \ {NoTest}
             ELSE {NoTest}
  /\ stray \subseteq {"test", "fix"}
  /\ code \in Nat
  /\ passed \in Nat
  /\ crashes \in Nat
  /\ allowed \subseteq Disturbances

(* The implementing agent has ended, if there was one, when the gate is     *)
(* first reached.                                                          *)
Init ==
  /\ state = "IMPLEMENT"
  /\ result = "none"
  /\ retries = 0
  /\ test = NoTest
  /\ cc \in {NoFixer, [status |-> "ended", for |-> 0]}
  /\ overdue = FALSE
  /\ wd = "idle"
  /\ job = NoTest
  /\ stray = {}
  /\ code = 1
  /\ passed = 0
  /\ crashes = 0
  /\ allowed \in Environments

Goto(s) == state' = s /\ overdue' = FALSE

(* A process whose record is overwritten or dropped goes on on its own. *)
OrphanedTest == IF test.status = "running" THEN {"test"} ELSE {}
OrphanedFix  == IF cc.status = "live" THEN {"fix"} ELSE {}

-----------------------------------------------------------------------------
(* The implementer and the reviewers *)

Commit ==
  /\ state = "IMPLEMENT"
  /\ code < CodeBound
  /\ code' = code + 1
  /\ UNCHANGED <<state, result, retries, overdue, passed, procVars, tickVars,
                 envVars>>

(* The code review asks for a revision. *)
LeaveReview ==
  /\ state = "CODE_REVIEW"
  /\ Goto("IMPLEMENT")
  /\ UNCHANGED <<result, retries, code, passed, procVars, tickVars, envVars>>

-----------------------------------------------------------------------------
(* The processes *)

TestOpensExit ==
  /\ test.status = "running"
  /\ test' = [test EXCEPT !.status = "opened"]
  /\ UNCHANGED <<state, result, retries, overdue, cc, stray, code, passed,
                 tickVars, envVars>>

TestWritesExit ==
  /\ test.status = "opened"
  /\ \E e \in {"passed", "failed"} : test' = [test EXCEPT !.status = e]
  /\ UNCHANGED <<state, result, retries, overdue, cc, stray, code, passed,
                 tickVars, envVars>>

TestDies ==
  /\ test.status = "running"
  /\ test' = [test EXCEPT !.status = "gone"]
  /\ UNCHANGED <<state, result, retries, overdue, cc, stray, code, passed,
                 tickVars, envVars>>

(* A fixing agent commits. *)
FixCommits ==
  /\ cc.status = "live" \/ "fix" \in stray
  /\ code < CodeBound
  /\ code' = code + 1
  /\ UNCHANGED <<state, result, retries, overdue, passed, procVars, tickVars,
                 envVars>>

FixEnds ==
  /\ cc.status = "live"
  /\ cc' = [cc EXCEPT !.status = "ended"]
  /\ UNCHANGED <<state, result, retries, overdue, test, stray, code, passed,
                 tickVars, envVars>>

StrayEnds(p) ==
  /\ p \in stray
  /\ stray' = stray \ {p}
  /\ UNCHANGED <<state, result, retries, overdue, test, cc, code, passed,
                 tickVars, envVars>>

Processes ==
  \/ TestOpensExit \/ TestWritesExit \/ TestDies \/ FixCommits \/ FixEnds
  \/ \E p \in stray : StrayEnds(p)

-----------------------------------------------------------------------------
(* The watchdog's tick: the poll *)

(* The exit file is there, or the process is gone.  An exit file that is    *)
(* still empty reads as a failure; the files collected are removed.         *)
PollCollect ==
  /\ wd = "idle" /\ state \in Enabled
  /\ test.status \in Exits \ {"running"}
  /\ wd' = "save"
  /\ job' = test
  /\ test' = IF test.status = "opened" THEN test
             ELSE [test EXCEPT !.status = "gone"]
  /\ UNCHANGED <<state, result, retries, overdue, cc, stray, code, passed,
                 envVars>>

(* Mutant of PollTimeout: the process goes on. *)
MutantPollTimeout ==
  /\ wd = "idle" /\ state \in Enabled
  /\ test.status = "running" /\ test.late
  /\ wd' = "save"
  /\ job' = [test EXCEPT !.status = "gone"]
  /\ UNCHANGED <<state, result, retries, overdue, procVars, code, passed,
                 envVars>>

(* The test has run for longer than test_timeout and is killed. *)
PollTimeout ==
  /\ wd = "idle" /\ state \in Enabled
  /\ test.status = "running" /\ test.late
  /\ wd' = "save"
  /\ job' = [test EXCEPT !.status = "gone"]
  /\ test' = job'
  /\ UNCHANGED <<state, result, retries, overdue, cc, stray, code, passed,
                 envVars>>

(* Mutant of PollSave: a pass takes one failure back. *)
MutantPollSave ==
  /\ wd = "save"
  /\ LET pass == job.status = "passed"
     IN  /\ result' = IF pass THEN "pass" ELSE "fail"
         /\ retries' = IF pass THEN retries - 1 ELSE retries + 1
         /\ passed' = IF pass THEN job.code ELSE 0
  /\ test' = NoTest
  /\ stray' = stray \cup OrphanedTest
  /\ wd' = "idle"
  /\ job' = NoTest
  /\ UNCHANGED <<state, overdue, cc, code, envVars>>

(* The result is saved whatever has become of the state and the record.     *)
PollSave ==
  /\ wd = "save"
  /\ LET pass == job.status = "passed"
     IN  /\ result' = IF pass THEN "pass" ELSE "fail"
         /\ retries' = IF pass THEN 0 ELSE retries + 1
         /\ passed' = IF pass THEN job.code ELSE 0
  /\ test' = NoTest
  /\ stray' = stray \cup OrphanedTest
  /\ wd' = "idle"
  /\ job' = NoTest
  /\ UNCHANGED <<state, overdue, cc, code, envVars>>

(* The watchdog's tick: transitions and starts.  A tick polls before it     *)
(* decides, but a test can end between the two.                            *)

(* Mutant of EnterTest: the result of the test before stays. *)
MutantEnterTest ==
  /\ Goto("CODE_TEST")
  /\ wd' = "launch"
  /\ UNCHANGED <<result, retries, procVars, job, code, passed, envVars>>

(* CODE_TEST is entered; the test is started by the tick's next step. *)
EnterTest ==
  /\ Goto("CODE_TEST")
  /\ result' = "none"
  /\ wd' = "launch"
  /\ UNCHANGED <<retries, procVars, job, code, passed, envVars>>

(* Every issue is committed or, in CODE_REVISE, revised. *)
ImplementDone == wd = "idle" /\ state = "IMPLEMENT" /\ EnterTest

Launch ==
  /\ wd = "launch"
  /\ wd' = "record"
  /\ job' = [status |-> "running", code |-> code, late |-> FALSE]
  /\ UNCHANGED <<state, result, retries, overdue, procVars, code, passed,
                 envVars>>

RecordTest ==
  /\ wd = "record"
  /\ test' = job
  /\ result' = "none"
  /\ stray' = stray \cup OrphanedTest
  /\ wd' = "idle"
  /\ job' = NoTest
  /\ UNCHANGED <<state, retries, overdue, cc, code, passed, envVars>>

(* The start or its record fails: the project is BLOCKED, whatever its      *)
(* state, and the recorded test killed, not the one just started.           *)
LaunchFails ==
  /\ wd \in {"launch", "record"}
  /\ Goto("BLOCKED")
  /\ test' = NoTest
  /\ stray' = IF wd = "record" THEN stray \cup {"test"} ELSE stray
  /\ wd' = "idle"
  /\ job' = NoTest
  /\ UNCHANGED <<result, retries, cc, code, passed, envVars>>

TestPassed ==
  /\ wd = "idle" /\ state = "CODE_TEST"
  /\ result = "pass"
  /\ Goto("CODE_REVIEW")
  /\ UNCHANGED <<result, retries, code, passed, procVars, tickVars, envVars>>

(* Mutant of EnterFix: the pid of the agent before is kept. *)
MutantEnterFix ==
  /\ Goto("CODE_TEST_FIX")
  /\ wd' = "launchFix"
  /\ UNCHANGED <<cc, stray>>

(* CODE_TEST_FIX forgets the agent that ran before; the tick's next step    *)
(* starts one.                                                             *)
EnterFix ==
  /\ Goto("CODE_TEST_FIX")
  /\ wd' = "launchFix"
  /\ cc' = NoFixer
  /\ stray' = stray \cup OrphanedFix

(* Mutant of TestFailed: one fix more. *)
MutantTestFailed ==
  /\ wd = "idle" /\ state = "CODE_TEST"
  /\ result = "fail"
  /\ IF retries > MaxRetry THEN Goto("BLOCKED") /\ UNCHANGED <<wd, cc, stray>>
     ELSE EnterFix
  /\ UNCHANGED <<result, retries, test, job, code, passed, envVars>>

TestFailed ==
  /\ wd = "idle" /\ state = "CODE_TEST"
  /\ result = "fail"
  /\ IF retries >= MaxRetry THEN Goto("BLOCKED") /\ UNCHANGED <<wd, cc, stray>>
     ELSE EnterFix
  /\ UNCHANGED <<result, retries, test, job, code, passed, envVars>>

(* Mutant of TestStalled: a test that was never recorded is waited for. *)
MutantTestStalled ==
  /\ wd = "idle" /\ state = "CODE_TEST"
  /\ result = "none" /\ overdue
  /\ test # NoTest
  /\ Goto("BLOCKED")
  /\ UNCHANGED <<result, retries, code, passed, procVars, tickVars, envVars>>

(* No result in time; the poll of the same tick may have seen the test run. *)
TestStalled ==
  /\ wd = "idle" /\ state = "CODE_TEST"
  /\ result = "none" /\ overdue
  /\ Goto("BLOCKED")
  /\ UNCHANGED <<result, retries, code, passed, procVars, tickVars, envVars>>

LaunchFix ==
  /\ wd = "launchFix"
  /\ wd' = "recordFix"
  /\ job' = [status |-> "live", for |-> retries]
  /\ UNCHANGED <<state, result, retries, overdue, procVars, code, passed,
                 envVars>>

RecordFix ==
  /\ wd = "recordFix"
  /\ cc' = job
  /\ stray' = stray \cup OrphanedFix
  /\ wd' = "idle"
  /\ job' = NoTest
  /\ UNCHANGED <<state, result, retries, overdue, test, code, passed, envVars>>

(* An agent that cannot be recorded is killed at once. *)
LaunchFixFails ==
  /\ wd \in {"launchFix", "recordFix"}
  /\ Goto("BLOCKED")
  /\ wd' = "idle"
  /\ job' = NoTest
  /\ UNCHANGED <<result, retries, procVars, code, passed, envVars>>

FixDone ==
  /\ wd = "idle" /\ state = "CODE_TEST_FIX"
  /\ cc.status = "ended"
  /\ EnterTest

(* The agent is late, or was never recorded; a late one is not stopped.     *)
FixStalled ==
  /\ wd = "idle" /\ state = "CODE_TEST_FIX"
  /\ cc.status # "ended" /\ overdue
  /\ Goto("BLOCKED")
  /\ UNCHANGED <<result, retries, code, passed, procVars, tickVars, envVars>>

Watchdog ==
  \/ PollCollect \/ PollTimeout \/ PollSave
  \/ ImplementDone \/ Launch \/ RecordTest \/ LaunchFails
  \/ TestPassed \/ TestFailed \/ TestStalled
  \/ LaunchFix \/ RecordFix \/ LaunchFixFails \/ FixDone \/ FixStalled

-----------------------------------------------------------------------------
(* Time, crashes, the owner and the batches *)

StateTimer ==
  /\ state \in {"CODE_TEST", "CODE_TEST_FIX"} /\ ~overdue
  /\ overdue' = TRUE
  /\ UNCHANGED <<state, result, retries, code, passed, procVars, tickVars,
                 envVars>>

TestTimer ==
  /\ test.status = "running" /\ ~test.late
  /\ test' = [test EXCEPT !.late = TRUE]
  /\ UNCHANGED <<state, result, retries, overdue, cc, stray, code, passed,
                 tickVars, envVars>>

Clock == StateTimer \/ TestTimer

(* The tick is lost, and a process it started but did not record orphaned. *)
Crash ==
  /\ "crash" \in allowed /\ crashes < CrashBound
  /\ wd # "idle"
  /\ crashes' = crashes + 1
  /\ wd' = "idle"
  /\ job' = NoTest
  /\ stray' = stray \cup (IF wd = "record" THEN {"test"}
                          ELSE IF wd = "recordFix" THEN {"fix"} ELSE {})
  /\ UNCHANGED <<state, result, retries, overdue, test, cc, code, passed,
                 allowed>>

(* gokrax transition --to BLOCKED *)
Block ==
  /\ "block" \in allowed
  /\ state \in Enabled
  /\ Goto("BLOCKED")
  /\ UNCHANGED <<result, retries, code, passed, procVars, tickVars, envVars>>

(* gokrax transition --resume --to CODE_REVISE *)
Resume ==
  /\ "resume" \in allowed /\ retries <= RetryBound
  /\ state = "BLOCKED"
  /\ Goto("IMPLEMENT")
  /\ UNCHANGED <<result, retries, code, passed, procVars, tickVars, envVars>>

(* The end of a batch kills the recorded test and forgets its result; a     *)
(* fixing agent is only forgotten.                                          *)
Cleanup ==
  /\ test' = NoTest
  /\ result' = "none"
  /\ retries' = 0
  /\ cc' = NoFixer
  /\ stray' = stray \cup OrphanedFix

(* gokrax reset *)
Reset ==
  /\ "reset" \in allowed
  /\ state # "IDLE"
  /\ Goto("IDLE")
  /\ Cleanup
  /\ UNCHANGED <<code, passed, tickVars, envVars>>

(* The code is approved and merged. *)
BatchDone ==
  /\ wd = "idle" /\ state = "CODE_REVIEW"
  /\ Goto("IDLE")
  /\ Cleanup
  /\ UNCHANGED <<code, passed, tickVars, envVars>>

(* The next batch kills what a tick has recorded since. *)
NextBatch ==
  /\ wd = "idle" /\ state = "IDLE"
  /\ Goto("IMPLEMENT")
  /\ test' = NoTest
  /\ result' = "none"
  /\ retries' = 0
  /\ UNCHANGED <<cc, stray, code, passed, tickVars, envVars>>

Owner == Block \/ Resume \/ Reset \/ BatchDone \/ NextBatch

-----------------------------------------------------------------------------
Next ==
  Commit \/ LeaveReview \/ Processes \/ Watchdog \/ Clock \/ Crash \/ Owner

Spec == Init /\ [][Next]_vars

(* The watchdog loop ticks for ever and time passes; tests and agents may    *)
(* hang.                                                                   *)
FairSpec == Spec /\ WF_vars(Watchdog) /\ WF_vars(Clock)

-----------------------------------------------------------------------------
(* Properties *)

(* Left to itself, crashes of the watchdog and a BLOCKED by hand included,  *)
(* the pipeline enters CODE_REVIEW only with code whose own test has passed:*)
(* no result of an earlier version, of a replaced or of a killed test opens *)
(* the gate.                                                               *)
ReviewedIsTested ==
  [][(allowed \subseteq {"crash", "block"}
        /\ state # "CODE_REVIEW" /\ state' = "CODE_REVIEW")
      => passed = code]_vars

(* A fix is only asked for a recorded failure and below MAX_TEST_RETRY,     *)
(* whichever ticks, crashes and commands came in between.                   *)
FixWithinLimit == state = "CODE_TEST_FIX" => retries \in 1 .. MaxRetry - 1

(* The test runs again only when the agent started for the very failure on  *)
(* record has ended, not one left from an earlier fix or an earlier batch.  *)
FixBeforeRetest ==
  [][state = "CODE_TEST_FIX" /\ state' = "CODE_TEST" =>
       cc.status = "ended" /\ cc.for = retries]_vars

(* Without the owner's resume or reset no test process ever runs beside a   *)
(* fixing agent that changes the tree under it: not a timed-out one, nor    *)
(* one orphaned by a crash.                                                *)
Apart ==
  allowed \subseteq {"crash", "block"} =>
    ~ /\ test.status = "running" \/ "test" \in stray
      /\ cc.status = "live" \/ "fix" \in stray

(* The gate is left, for the review or for BLOCKED, whatever hangs, dies or *)
(* crashes: a test that was never started or recorded ends by timeout.      *)
(* FairSpec, without the owner's commands.                                  *)
GateEnds ==
  (allowed \subseteq {"crash"} /\ state = "CODE_TEST")
    ~> state \in {"CODE_REVIEW", "BLOCKED"}

(* Whatever dies, crashes or is commanded, the gate is to the rest of the    *)
(* pipeline what Gate says.                                                *)
GateOf ==
  CASE state = "CODE_TEST"     -> "testing"
    [] state = "CODE_TEST_FIX" -> "fixing"
    [] state = "CODE_REVIEW"   -> "through"
    [] state = "BLOCKED"       -> "stuck"
    [] OTHER                   -> "out"

Promise == INSTANCE Gate WITH gate <- GateOf, report <- result,
                              failures <- retries
GateImplemented == Promise!Spec
=============================================================================
