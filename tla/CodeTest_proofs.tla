--------------------------- MODULE CodeTest_proofs ---------------------------
(***************************************************************************)
(* What holds of the test gate for every retry limit, every environment    *)
(* and any number of versions, crashes and resumes.                        *)
(***************************************************************************)
EXTENDS CodeTest, TLAPS

-----------------------------------------------------------------------------
(* Type correctness *)

LEMMA GateInitType == Init => TypeOK
<1> SUFFICES ASSUME Init PROVE TypeOK  OBVIOUS
<1>1. cc \in Fixers  BY DEF Init, Fixers, NoFixer
<1>2. test \in Tests  BY DEF Init, Tests
<1>3. allowed \subseteq Disturbances
  BY CodeTestAssumption DEF Init, CodeTestAssumption
<1>4. QED  BY <1>1, <1>2, <1>3 DEF Init, TypeOK, States, Steps

LEMMA ProcessesType == TypeOK /\ Processes => TypeOK'
<1> SUFFICES ASSUME TypeOK, Processes PROVE TypeOK'  OBVIOUS
<1> USE DEF tickVars, envVars
<1>1. CASE TestOpensExit \/ TestWritesExit \/ TestDies
  BY <1>1 DEF TestOpensExit, TestWritesExit, TestDies, TypeOK, Tests, Exits, NoTest
<1>2. CASE FixCommits
  BY <1>2 DEF FixCommits, TypeOK, procVars
<1>3. CASE FixEnds
  BY <1>3 DEF FixEnds, TypeOK, Fixers, NoFixer
<1>4. CASE \E p \in stray : StrayEnds(p)
  BY <1>4 DEF StrayEnds, TypeOK
<1>5. QED  BY <1>1, <1>2, <1>3, <1>4 DEF Processes

LEMMA GateWatchdogType == TypeOK /\ Watchdog => TypeOK'
<1> SUFFICES ASSUME TypeOK, Watchdog PROVE TypeOK'  OBVIOUS
<1> USE DEF tickVars, envVars, procVars, Goto, States, Steps, OrphanedTest,
            OrphanedFix
<1>1. CASE PollCollect \/ PollTimeout
  BY <1>1 DEF PollCollect, PollTimeout, TypeOK, Tests, Exits, NoTest
<1>2. CASE PollSave
  <2>1. job \in Tests \ {NoTest}  BY <1>2 DEF PollSave, TypeOK
  <2>2. job.code \in Nat  BY <2>1 DEF Tests
  <2>3. QED  BY <1>2, <2>2 DEF PollSave, TypeOK, Tests
<1>3. CASE ImplementDone \/ FixDone
  BY <1>3 DEF ImplementDone, FixDone, EnterTest, TypeOK
<1>4. CASE Launch
  BY <1>4 DEF Launch, TypeOK, Tests, Exits, NoTest
<1>5. CASE RecordTest \/ LaunchFails
  BY <1>5 DEF RecordTest, LaunchFails, TypeOK, Tests
<1>6. CASE TestPassed \/ TestStalled \/ FixStalled
  BY <1>6 DEF TestPassed, TestStalled, FixStalled, TypeOK
<1>7. CASE TestFailed
  BY <1>7 DEF TestFailed, EnterFix, TypeOK, Fixers
<1>8. CASE LaunchFix
  BY <1>8 DEF LaunchFix, TypeOK, Fixers, NoFixer
<1>9. CASE RecordFix \/ LaunchFixFails
  BY <1>9 DEF RecordFix, LaunchFixFails, TypeOK
<1>10. QED
  BY <1>1, <1>2, <1>3, <1>4, <1>5, <1>6, <1>7, <1>8, <1>9 DEF Watchdog

LEMMA GateTypeStep == TypeOK /\ [Next]_vars => TypeOK'
<1> SUFFICES ASSUME TypeOK, [Next]_vars PROVE TypeOK'  OBVIOUS
<1> USE DEF tickVars, envVars, procVars, Goto, States
<1>1. CASE Commit \/ LeaveReview
  <2>1. CASE Commit  BY <2>1 DEF Commit, TypeOK
  <2>2. CASE LeaveReview  BY <2>2 DEF LeaveReview, TypeOK
  <2>3. QED  BY <1>1, <2>1, <2>2
<1>2. CASE Processes  BY <1>2, ProcessesType
<1>3. CASE Watchdog  BY <1>3, GateWatchdogType
<1>4. CASE Clock
  <2>1. CASE StateTimer  BY <2>1 DEF StateTimer, TypeOK
  <2>2. CASE TestTimer
    <3>1. test \in [status : Exits, code : Nat, late : BOOLEAN]
      BY <2>2 DEF TestTimer, TypeOK, Tests, NoTest
    <3>2. test' \in [status : Exits, code : Nat, late : BOOLEAN]
      BY <2>2, <3>1 DEF TestTimer
    <3>3. test' \in Tests  BY <3>2 DEF Tests
    <3>4. QED  BY <2>2, <3>3 DEF TestTimer, TypeOK
  <2>3. QED  BY <1>4, <2>1, <2>2 DEF Clock
<1>5. CASE Crash
  BY <1>5 DEF Crash, TypeOK, Steps
<1>6. CASE Owner
  <2>1. CASE Block \/ Resume
    BY <2>1 DEF Block, Resume, TypeOK
  <2>2. CASE Reset \/ BatchDone \/ NextBatch
    <3>1. test' \in Tests  BY <2>2 DEF Reset, BatchDone, NextBatch, Cleanup, Tests
    <3>2. cc' \in Fixers
      BY <2>2 DEF Reset, BatchDone, NextBatch, Cleanup, Fixers, TypeOK
    <3>3. stray' \subseteq {"test", "fix"}
      BY <2>2 DEF Reset, BatchDone, NextBatch, Cleanup, OrphanedFix, TypeOK
    <3>4. /\ state' \in States /\ overdue' \in BOOLEAN
          /\ result' = "none" /\ retries' = 0
          /\ UNCHANGED <<wd, job, code, passed, crashes, allowed>>
      BY <2>2 DEF Reset, BatchDone, NextBatch, Cleanup
    <3>5. QED  BY <3>1, <3>2, <3>3, <3>4 DEF TypeOK
  <2>3. QED  BY <1>6, <2>1, <2>2 DEF Owner
<1>7. CASE UNCHANGED vars  BY <1>7 DEF vars, TypeOK
<1>8. QED  BY <1>1, <1>2, <1>3, <1>4, <1>5, <1>6, <1>7 DEF Next

(* Every reachable state is well-typed: no step of the watchdog finds the   *)
(* data of another one in its hands, and no counter leaves the naturals.    *)
THEOREM GateTypeCorrect == Spec => []TypeOK
BY GateInitType, GateTypeStep, PTL DEF Spec

-----------------------------------------------------------------------------
(* The fixes.  A result on record excludes a recorded test and a tick that  *)
(* is about to save one: nothing changes the retry counter during a fix, so *)
(* the limit TestFailed has checked and the retry the agent was started for *)
(* stay those of the failure on record.                                     *)

FixInv ==
  /\ TypeOK
  /\ result # "none" => test = NoTest /\ wd # "save"
  /\ result = "fail" => retries > 0
  /\ state = "CODE_TEST_FIX" =>
       /\ result = "fail" /\ retries < MaxRetry
       /\ wd \in {"idle", "launchFix", "recordFix"}
       /\ cc.status # "none" => cc.for = retries
       /\ wd = "recordFix" => job.for = retries

(* Nobody else starts, records or ends anything while the steps of one of   *)
(* these are taken.                                                        *)
LEMMA FixProcesses == FixInv /\ Processes => FixInv'
<1> SUFFICES ASSUME FixInv, Processes PROVE FixInv'  OBVIOUS
<1> USE DEF tickVars, envVars, procVars, Goto, NoTest
<1>0. TypeOK'  BY ProcessesType DEF FixInv
<1>1. CASE TestOpensExit \/ TestWritesExit \/ TestDies
  BY <1>0, <1>1 DEF TestOpensExit, TestWritesExit, TestDies, FixInv
<1>2. CASE FixCommits  BY <1>0, <1>2 DEF FixCommits, FixInv
<1>3. CASE FixEnds
  <2>1. cc'.for = cc.for /\ cc.status # "none"
    BY <1>3 DEF FixEnds, FixInv, TypeOK, Fixers, NoFixer
  <2>2. QED  BY <1>0, <1>3, <2>1 DEF FixEnds, FixInv
<1>4. CASE \E p \in stray : StrayEnds(p)
  BY <1>0, <1>4 DEF StrayEnds, FixInv
<1>5. QED  BY <1>1, <1>2, <1>3, <1>4 DEF Processes

LEMMA FixWatchdog == FixInv /\ Watchdog => FixInv'
<1> SUFFICES ASSUME FixInv, Watchdog PROVE FixInv'  OBVIOUS
<1> USE DEF tickVars, envVars, procVars, Goto
<1>0. TypeOK'  BY GateWatchdogType DEF FixInv
<1>1. CASE PollCollect \/ PollTimeout
  BY <1>0, <1>1 DEF PollCollect, PollTimeout, FixInv, NoTest, Exits
<1>2. CASE PollSave
  <2>1. state # "CODE_TEST_FIX"  BY <1>2 DEF PollSave, FixInv
  <2>2. retries \in Nat  BY DEF FixInv, TypeOK
  <2>3. QED  BY <1>0, <1>2, <2>1, <2>2 DEF PollSave, FixInv
<1>3. CASE ImplementDone \/ FixDone
  BY <1>0, <1>3 DEF ImplementDone, FixDone, EnterTest, FixInv
<1>4. CASE Launch  BY <1>0, <1>4 DEF Launch, FixInv
<1>5. CASE RecordTest \/ LaunchFails
  BY <1>0, <1>5 DEF RecordTest, LaunchFails, FixInv
<1>6. CASE TestPassed \/ TestStalled \/ FixStalled
  BY <1>0, <1>6 DEF TestPassed, TestStalled, FixStalled, FixInv
<1>7. CASE TestFailed
  <2>1. retries \in Nat /\ MaxRetry \in Nat
    BY CodeTestAssumption DEF CodeTestAssumption, FixInv, TypeOK
  <2>2. QED
    BY <1>0, <1>7, <2>1 DEF TestFailed, EnterFix, FixInv, NoFixer
<1>8. CASE LaunchFix  BY <1>0, <1>8 DEF LaunchFix, FixInv
<1>9. CASE RecordFix \/ LaunchFixFails
  BY <1>0, <1>9 DEF RecordFix, LaunchFixFails, FixInv
<1>10. QED
  BY <1>1, <1>2, <1>3, <1>4, <1>5, <1>6, <1>7, <1>8, <1>9 DEF Watchdog

LEMMA FixStep == FixInv /\ [Next]_vars => FixInv'
<1> SUFFICES ASSUME FixInv, [Next]_vars PROVE FixInv'  OBVIOUS
<1> USE DEF tickVars, envVars, procVars, Goto
<1>0. TypeOK'  BY GateTypeStep DEF FixInv
<1>1. CASE Commit  BY <1>0, <1>1 DEF Commit, FixInv
<1>2. CASE LeaveReview  BY <1>0, <1>2 DEF LeaveReview, FixInv
<1>3. CASE Processes  BY <1>3, FixProcesses
<1>4. CASE Watchdog  BY <1>4, FixWatchdog
<1>5. CASE Clock
  BY <1>0, <1>5 DEF Clock, StateTimer, TestTimer, FixInv, NoTest
<1>6. CASE Crash  BY <1>0, <1>6 DEF Crash, FixInv
<1>7. CASE Block \/ Resume  BY <1>0, <1>7 DEF Block, Resume, FixInv
<1>8. CASE Reset \/ BatchDone \/ NextBatch
  BY <1>0, <1>8 DEF Reset, BatchDone, NextBatch, Cleanup, FixInv
<1>9. CASE UNCHANGED vars  BY <1>0, <1>9 DEF vars, FixInv
<1>10. QED
  BY <1>1, <1>2, <1>3, <1>4, <1>5, <1>6, <1>7, <1>8, <1>9 DEF Next, Owner

LEMMA FixInit == Init => FixInv
BY GateInitType DEF Init, FixInv

(* However often the owner blocks, resumes and resets and the watchdog       *)
(* crashes, a fix is asked for a recorded failure and below the limit.      *)
THEOREM FixesWithinLimit == Spec => []FixWithinLimit
<1>1. FixInv => FixWithinLimit
  BY CodeTestAssumption DEF CodeTestAssumption, FixInv, FixWithinLimit, TypeOK
<1>2. QED  BY <1>1, FixInit, FixStep, PTL DEF Spec

(* The agent whose end lets the test run again is the one that was started  *)
(* for the failure on record.                                               *)
THEOREM RetestAfterItsFix == Spec => FixBeforeRetest
<1>1. FixInv /\ [Next]_vars =>
        [state = "CODE_TEST_FIX" /\ state' = "CODE_TEST" =>
           cc.status = "ended" /\ cc.for = retries]_vars
  <2> SUFFICES ASSUME FixInv, Next,
                      state = "CODE_TEST_FIX", state' = "CODE_TEST"
               PROVE  cc.status = "ended" /\ cc.for = retries
    OBVIOUS
  <2>1. FixDone
    BY DEF Next, Commit, LeaveReview, Processes, TestOpensExit, TestWritesExit,
           TestDies, FixCommits, FixEnds, StrayEnds, Watchdog, PollCollect,
           PollTimeout, PollSave, ImplementDone, Launch, RecordTest,
           LaunchFails, TestPassed, TestFailed, TestStalled, LaunchFix,
           RecordFix, LaunchFixFails, FixStalled, Clock, StateTimer, TestTimer,
           Crash, Owner, Block, Resume, Reset, BatchDone, NextBatch, Goto
  <2>2. QED  BY <2>1 DEF FixDone, FixInv
<1>2. QED  BY <1>1, FixInit, FixStep, PTL DEF Spec, FixBeforeRetest

-----------------------------------------------------------------------------
(* The gate, without the owner's resume and reset.  Outside BLOCKED, where   *)
(* the batch ends, the states take turns: tests in CODE_TEST, agents in      *)
(* CODE_TEST_FIX, neither elsewhere.  A process orphaned by a crash leaves   *)
(* a state without a record, which only its timer ends.                     *)

Undisturbed == allowed \subseteq {"crash", "block"}

Fixing  == cc.status = "live" \/ "fix" \in stray \/ wd \in {"launchFix", "recordFix"}
Testing == test # NoTest \/ "test" \in stray \/ wd \in {"save", "launch", "record"}

(* Every trace of a test in CODE_TEST is of the version in the tree.        *)
OwnTest ==
  /\ test # NoTest => test.code = code
  /\ wd \in {"save", "record"} => job.code = code
  /\ result = "pass" => passed = code

(* A test starts when there is none, and an orphan excludes every other.    *)
OneTest ==
  /\ wd \in {"launch", "record"} =>
       test = NoTest /\ result = "none" /\ "test" \notin stray
  /\ wd = "save" => test.status # "running"
  /\ "test" \in stray => test = NoTest /\ result = "none" /\ wd = "idle"

(* An agent is started when there is none, and nobody follows an orphan.    *)
OneFix ==
  /\ wd \in {"launchFix", "recordFix"} => cc = NoFixer /\ "fix" \notin stray
  /\ "fix" \in stray => cc = NoFixer

GateInv ==
  /\ FixInv
  /\ Undisturbed =>
       /\ state \in {"IMPLEMENT", "CODE_REVIEW", "IDLE"} => ~Testing /\ ~Fixing
       /\ state = "CODE_TEST" => ~Fixing /\ OwnTest /\ OneTest
       /\ state = "CODE_TEST_FIX" => ~Testing /\ OneFix
       /\ state = "BLOCKED" => ~Testing \/ ~Fixing

LEMMA GateInit == Init => GateInv
BY FixInit DEF Init, GateInv, Testing, Fixing, NoFixer

LEMMA GateProcesses == GateInv /\ Processes => GateInv'
<1> SUFFICES ASSUME GateInv, Processes PROVE GateInv'  OBVIOUS
<1> USE DEF tickVars, envVars, procVars, Undisturbed, Testing, Fixing, OwnTest,
            OneTest, OneFix
<1>0. FixInv'  BY FixProcesses DEF GateInv
<1>1. CASE TestOpensExit \/ TestWritesExit \/ TestDies
  <2>1. test'.code = test.code /\ test'.status # "running" /\ test # NoTest
    BY <1>1 DEF TestOpensExit, TestWritesExit, TestDies, GateInv, FixInv, TypeOK,
                Tests, NoTest
  <2>2. UNCHANGED <<state, result, cc, stray, code, passed, wd, job, allowed>>
    BY <1>1 DEF TestOpensExit, TestWritesExit, TestDies
  <2>3. QED  BY <1>0, <2>1, <2>2 DEF GateInv
<1>2. CASE FixCommits
  <2>1. state # "CODE_TEST" \/ ~Undisturbed  BY <1>2 DEF FixCommits, GateInv
  <2>2. QED  BY <1>0, <1>2, <2>1 DEF FixCommits, GateInv
<1>3. CASE FixEnds
  <2>1. cc.status = "live" /\ cc # NoFixer /\ cc'.status = "ended"
    BY <1>3 DEF FixEnds, GateInv, FixInv, TypeOK, Fixers, NoFixer
  <2>2. UNCHANGED <<state, result, test, stray, code, passed, wd, job, allowed>>
    BY <1>3 DEF FixEnds
  <2>3. QED  BY <1>0, <2>1, <2>2 DEF GateInv
<1>4. CASE \E p \in stray : StrayEnds(p)
  <2>1. stray' \subseteq stray  BY <1>4 DEF StrayEnds
  <2>2. UNCHANGED <<state, result, test, cc, code, passed, wd, job, allowed>>
    BY <1>4 DEF StrayEnds
  <2>3. QED  BY <1>0, <2>1, <2>2 DEF GateInv
<1>5. QED  BY <1>1, <1>2, <1>3, <1>4 DEF Processes

LEMMA GateWatchdog == GateInv /\ Watchdog => GateInv'
<1> SUFFICES ASSUME GateInv, Watchdog PROVE GateInv'  OBVIOUS
<1> USE DEF tickVars, envVars, procVars, Goto, Undisturbed, Testing, Fixing,
            OwnTest, OneTest, OneFix
<1>0. FixInv'  BY FixWatchdog DEF GateInv
<1>1. CASE PollCollect
  <2>1. test # NoTest  BY <1>1 DEF PollCollect, NoTest, Exits
  <2>2. test'.code = test.code /\ test'.status # "running"
    BY <1>1, <2>1 DEF PollCollect, GateInv, FixInv, TypeOK, Tests
  <2>3. QED  BY <1>0, <1>1, <2>1, <2>2 DEF PollCollect, GateInv, Enabled
<1>2. CASE PollTimeout
  <2>1. test # NoTest  BY <1>2 DEF PollTimeout, NoTest
  <2>2. test'.code = test.code /\ test'.status # "running"
    BY <1>2, <2>1 DEF PollTimeout, GateInv, FixInv, TypeOK, Tests
  <2>3. QED  BY <1>0, <1>2, <2>1, <2>2 DEF PollTimeout, GateInv, Enabled
<1>3. CASE PollSave
  BY <1>0, <1>3 DEF PollSave, OrphanedTest, GateInv
<1>4. CASE ImplementDone
  BY <1>0, <1>4 DEF ImplementDone, EnterTest, GateInv
<1>5. CASE FixDone
  BY <1>0, <1>5 DEF FixDone, EnterTest, GateInv, NoFixer
<1>6. CASE Launch
  BY <1>0, <1>6 DEF Launch, GateInv, FixInv
<1>7. CASE RecordTest
  BY <1>0, <1>7 DEF RecordTest, OrphanedTest, GateInv, FixInv, NoTest
<1>8. CASE LaunchFails
  <2>1. state \in States  BY DEF GateInv, FixInv, TypeOK
  <2>2. Undisturbed => ~Fixing  BY <1>8, <2>1 DEF LaunchFails, GateInv, States
  <2>3. QED  BY <1>0, <1>8, <2>2 DEF LaunchFails, GateInv
<1>9. CASE TestPassed \/ TestStalled \/ FixStalled
  BY <1>0, <1>9 DEF TestPassed, TestStalled, FixStalled, GateInv, FixInv
<1>10. CASE TestFailed
  BY <1>0, <1>10 DEF TestFailed, EnterFix, OrphanedFix, GateInv, FixInv
<1>11. CASE LaunchFix \/ LaunchFixFails
  <2>1. state \in States  BY DEF GateInv, FixInv, TypeOK
  <2>2. Undisturbed => ~Testing
    BY <1>11, <2>1 DEF LaunchFix, LaunchFixFails, GateInv, States
  <2>3. QED  BY <1>0, <1>11, <2>2 DEF LaunchFix, LaunchFixFails, GateInv
<1>12. CASE RecordFix
  BY <1>0, <1>12 DEF RecordFix, OrphanedFix, GateInv, FixInv, NoFixer
<1>13. QED
  BY <1>1, <1>2, <1>3, <1>4, <1>5, <1>6, <1>7, <1>8, <1>9, <1>10, <1>11, <1>12
  DEF Watchdog

LEMMA GateStep == GateInv /\ [Next]_vars => GateInv'
<1> SUFFICES ASSUME GateInv, [Next]_vars PROVE GateInv'  OBVIOUS
<1> USE DEF tickVars, envVars, procVars, Goto, Undisturbed, Testing, Fixing,
            OwnTest, OneTest, OneFix
<1>0. FixInv'  BY FixStep DEF GateInv
<1>1. CASE Commit  BY <1>0, <1>1 DEF Commit, GateInv
<1>2. CASE LeaveReview  BY <1>0, <1>2 DEF LeaveReview, GateInv
<1>3. CASE Processes  BY <1>3, GateProcesses
<1>4. CASE Watchdog  BY <1>4, GateWatchdog
<1>5. CASE StateTimer  BY <1>0, <1>5 DEF StateTimer, GateInv
<1>6. CASE TestTimer
  <2>1. test # NoTest /\ test'.code = test.code /\ test'.status = test.status
    BY <1>6 DEF TestTimer, GateInv, FixInv, TypeOK, Tests, NoTest
  <2>2. UNCHANGED <<state, result, cc, stray, code, passed, wd, job, allowed>>
    BY <1>6 DEF TestTimer
  <2>3. QED  BY <1>0, <2>1, <2>2 DEF GateInv
<1>7. CASE Crash  BY <1>0, <1>7 DEF Crash, GateInv, FixInv
<1>8. CASE Block
  BY <1>0, <1>8 DEF Block, GateInv, FixInv, Enabled, States
<1>9. CASE Resume \/ Reset
  <2>1. ~Undisturbed'  BY <1>9 DEF Resume, Reset
  <2>2. QED  BY <1>0, <2>1 DEF GateInv
<1>10. CASE BatchDone \/ NextBatch
  BY <1>0, <1>10 DEF BatchDone, NextBatch, Cleanup, OrphanedFix, GateInv, NoFixer
<1>11. CASE UNCHANGED vars  BY <1>0, <1>11 DEF vars, GateInv
<1>12. QED
  BY <1>1, <1>2, <1>3, <1>4, <1>5, <1>6, <1>7, <1>8, <1>9, <1>10, <1>11
  DEF Next, Owner, Clock

(* No test runs beside a fixing agent, timed-out, orphaned or recorded.     *)
THEOREM TestsAndFixesApart == Spec => []Apart
<1>1. GateInv => Apart
  <2> SUFFICES ASSUME GateInv, Undisturbed PROVE Apart
    BY DEF Apart, Undisturbed
  <2>1. state \in States  BY DEF GateInv, FixInv, TypeOK
  <2>2. test.status = "running" => test # NoTest  BY DEF NoTest
  <2>3. ~Testing \/ ~Fixing
    BY <2>1 DEF GateInv, States, OneTest, OneFix, Testing, Fixing
  <2>4. QED  BY <2>2, <2>3 DEF Apart, Testing, Fixing
<1>2. QED  BY <1>1, GateInit, GateStep, PTL DEF Spec

(* The code that enters CODE_REVIEW is the code whose test has passed.       *)
THEOREM GateKept == Spec => ReviewedIsTested
<1>1. GateInv /\ [Next]_vars =>
        [(allowed \subseteq {"crash", "block"}
            /\ state # "CODE_REVIEW" /\ state' = "CODE_REVIEW")
          => passed = code]_vars
  <2> SUFFICES ASSUME GateInv, Next, Undisturbed,
                      state # "CODE_REVIEW", state' = "CODE_REVIEW"
               PROVE  passed = code
    BY DEF Undisturbed
  <2>1. TestPassed
    BY DEF Next, Commit, LeaveReview, Processes, TestOpensExit, TestWritesExit,
           TestDies, FixCommits, FixEnds, StrayEnds, Watchdog, PollCollect,
           PollTimeout, PollSave, ImplementDone, Launch, RecordTest, EnterTest,
           LaunchFails, TestFailed, EnterFix, TestStalled, LaunchFix, RecordFix,
           LaunchFixFails, FixDone, FixStalled, Clock, StateTimer, TestTimer,
           Crash, Owner, Block, Resume, Reset, BatchDone, NextBatch, Goto
  <2>2. QED  BY <2>1 DEF TestPassed, GateInv, OwnTest
<1>2. QED  BY <1>1, GateInit, GateStep, PTL DEF Spec, ReviewedIsTested
-----------------------------------------------------------------------------
(* The gate as the rest of the pipeline sees it *)

GateStutters == UNCHANGED <<state, result, retries>>

LEMMA PromiseProcesses == Processes => GateStutters
BY Zenon
DEF Processes, TestOpensExit, TestWritesExit, TestDies, FixCommits, FixEnds, StrayEnds,
    GateStutters

LEMMA PromiseStutters ==
  GateStutters => [Promise!Next]_<<GateOf, result, retries>>
BY DEF GateStutters, GateOf

LEMMA PromiseTicks ==
  TypeOK /\ Watchdog => [Promise!Next]_<<GateOf, result, retries>>
<1> SUFFICES ASSUME TypeOK, Watchdog
             PROVE  [Promise!Next]_<<GateOf, result, retries>>
  OBVIOUS
<1> USE DEF GateOf, Goto
<1>1. CASE PollCollect \/ PollTimeout \/ Launch \/ LaunchFix \/ RecordFix
  <2>1. GateStutters
    BY <1>1 DEF PollCollect, PollTimeout, Launch, LaunchFix, RecordFix, GateStutters
  <2>2. QED  BY <2>1, PromiseStutters
<1>2. CASE PollSave
  <2>1. GateOf' = GateOf  BY <1>2 DEF PollSave
  <2>2. Promise!Report  BY <1>2, <2>1 DEF PollSave, Promise!Report
  <2>3. QED  BY <2>2 DEF Promise!Next
<1>3. CASE ImplementDone \/ FixDone
  <2>1. GateOf \in {"out", "fixing"} /\ GateOf' = "testing"
    BY <1>3 DEF ImplementDone, FixDone, EnterTest
  <2>2. Promise!Test
    BY <1>3, <2>1 DEF ImplementDone, FixDone, EnterTest, Promise!Test
  <2>3. QED  BY <2>2 DEF Promise!Next
<1>4. CASE RecordTest
  <2>1. GateOf' = GateOf  BY <1>4 DEF RecordTest
  <2>2. Promise!Restart  BY <1>4, <2>1 DEF RecordTest, Promise!Restart
  <2>3. QED  BY <2>2 DEF Promise!Next
<1>5. CASE TestPassed
  <2>1. GateOf = "testing" /\ GateOf' = "through"  BY <1>5 DEF TestPassed
  <2>2. Promise!Pass  BY <1>5, <2>1 DEF TestPassed, Promise!Pass
  <2>3. QED  BY <2>2 DEF Promise!Next
<1>6. CASE TestFailed /\ retries < MaxRetry
  <2>1. retries \in Nat /\ MaxRetry \in Nat
    BY CodeTestAssumption DEF CodeTestAssumption, TypeOK
  <2>2. GateOf = "testing" /\ GateOf' = "fixing"
    BY <1>6, <2>1 DEF TestFailed, EnterFix
  <2>3. Promise!Fix  BY <1>6, <2>2 DEF TestFailed, Promise!Fix
  <2>4. QED  BY <2>3 DEF Promise!Next
<1>7. CASE \/ LaunchFails \/ TestStalled \/ LaunchFixFails \/ FixStalled
           \/ TestFailed /\ ~(retries < MaxRetry)
  <2>1. retries \in Nat /\ MaxRetry \in Nat
    BY CodeTestAssumption DEF CodeTestAssumption, TypeOK
  <2>2. GateOf' = "stuck" /\ UNCHANGED <<result, retries>>
    BY <1>7, <2>1
    DEF LaunchFails, TestStalled, LaunchFixFails, FixStalled, TestFailed
  <2>3. Promise!GiveUp  BY <2>2 DEF Promise!GiveUp
  <2>4. QED  BY <2>3 DEF Promise!Next
<1>8. QED
  BY <1>1, <1>2, <1>3, <1>4, <1>5, <1>6, <1>7 DEF Watchdog

LEMMA PromiseStep ==
  TypeOK /\ [Next]_vars => [Promise!Next]_<<GateOf, result, retries>>
<1> SUFFICES ASSUME TypeOK, [Next]_vars
             PROVE  [Promise!Next]_<<GateOf, result, retries>>
  OBVIOUS
<1>1. CASE Commit \/ Clock \/ Crash \/ UNCHANGED vars
  <2>1. GateStutters
    BY <1>1 DEF Commit, Clock, StateTimer, TestTimer, Crash, vars, GateStutters
  <2>2. QED  BY <2>1, PromiseStutters
<1>2. CASE Processes  BY <1>2, PromiseProcesses, PromiseStutters
<1>3. CASE Watchdog  BY <1>3, PromiseTicks
<1>4. CASE Block
  <2>1. Promise!GiveUp  BY <1>4 DEF Block, Goto, GateOf, Promise!GiveUp
  <2>2. QED  BY <2>1 DEF Promise!Next
<1>5. CASE LeaveReview \/ Resume \/ Reset \/ BatchDone \/ NextBatch
  <2>1. GateOf' = "out"
    BY <1>5 DEF LeaveReview, Resume, Reset, BatchDone, NextBatch, Goto, GateOf
  <2>2. Promise!Leave
    BY <1>5, <2>1
    DEF LeaveReview, Resume, Reset, BatchDone, NextBatch, Cleanup, Promise!Leave
  <2>3. QED  BY <2>2 DEF Promise!Next
<1>6. QED  BY <1>1, <1>2, <1>3, <1>4, <1>5 DEF Next, Owner

(* The test gate implements Gate, which the development pipeline is built   *)
(* on.                                                                     *)
THEOREM GateAsPromised == Spec => GateImplemented
<1>1. Init => Promise!Init  BY DEF Init, Promise!Init, GateOf
<1>2. QED
  BY <1>1, PromiseStep, GateTypeCorrect, PTL DEF Spec, GateImplemented, Promise!Spec
=============================================================================
