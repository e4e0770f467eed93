---------------------------- MODULE DevPipeline -----------------------------
(***************************************************************************)
(* A project's pipeline from one IDLE to the next: the owner starts a batch *)
(* of issues, the implementer plans, assesses and implements them, each     *)
(* review phase and the test gate does what Phase and Gate say, and the     *)
(* merge waits for the owner's consent before it is pushed.                 *)
(*                                                                          *)
(* A watchdog tick is a transaction on the pipeline JSON followed by work   *)
(* outside the lock (wd, job): it resets reviewers, starts an agent, posts  *)
(* the merge summary or pushes, and stores what came of it in a second      *)
(* transaction, whatever the owner, the agents or a crash have done since.  *)
(***************************************************************************)
EXTENDS Integers, Sequences, FiniteSets

CONSTANTS
  Issues,
  Options,       \* option records a batch may be started with
  Environments,  \* sets of faults and owner's commands a behaviour may meet
  MaxCycles,     \* MAX_REVISE_CYCLES
  MaxRetry,      \* MAX_TEST_RETRY
  BatchBound,    \* bound: batches
  ResumeBound,   \* bound: resumes
  CrashBound     \* bound: crashes of the watchdog

Disturbances ==
  {"crash",    \* the watchdog dies in the middle of a tick
   "die",      \* an agent dies without a commit, or cannot be started
   "post",     \* the merge summary cannot be posted
   "dirty",    \* the working tree is dirty when the merge is approved
   "block",    \* gokrax transition --to BLOCKED, gokrax disable
   "reset",    \* gokrax reset
   "resume",   \* gokrax transition --resume
   "leftover", \* ... also of one blocked in its merge, or once it was approved
   "summary"}  \* gokrax merge-summary

Excluding == {"none", "high", "any"}
OptionRecords ==
  [skipDesign : BOOLEAN, skipAssess : BOOLEAN, noCc : BOOLEAN,
   exclude : Excluding, test : BOOLEAN, automerge : BOOLEAN]

ASSUME DevAssumption ==
  /\ IsFiniteSet(Issues) /\ Issues # {}
  /\ Options \subseteq OptionRecords
  /\ Environments \subseteq SUBSET Disturbances
  /\ MaxCycles \in Nat \ {0}
  /\ MaxRetry \in Nat \ {0}
  /\ BatchBound \in Nat \ {0}
  /\ ResumeBound \in Nat
  /\ CrashBound \in Nat

VARIABLES
  state,
  enabled,
  from,       \* history's origin of BLOCKED
  opts,       \* the batch's options
  batch,      \* issues in batch
  ready,      \* issues with design_ready
  risk,       \* assessment's domain_risk of each issue
  commits,    \* issues with commit
  objected,   \* Phase's view of the phase in progress
  left,
  report,     \* Gate's view of the test gate
  failures,
  cc,         \* cc_pid: the agent on record
  stray,      \* live agents that no record names
  overdue,    \* the state's timer has run out
  roster,     \* batch for which reviewer_number_map was drawn, 0 if absent
  summary,    \* batch whose summary summary_message_id names, 0 if absent
  approved,   \* merge_approved
  replied,    \* batches whose summary the owner has answered with OK
  dirty,      \* the working tree: "clean", "dirty", or "late"
  wd,         \* where the watchdog is in its tick
  job,        \* batch and issues the tick works for
  own,        \* the owner's command that has read but not yet written
  number,     \* history: number of the batch started last
  consented,  \* history: the owner has approved the code as it now is
  pushed,     \* history: batches whose commits were pushed, in this order
  overtaken,  \* history: a tick or command has written to what it did not read
  resumes,    \* bound
  crashes,    \* bound
  allowed     \* what this behaviour may meet, one of Environments

batchVars  == <<opts, batch, ready, risk, commits>>
reviewVars == <<objected, left>>
gateVars   == <<report, failures>>
agentVars  == <<cc, stray>>
mergeVars  == <<summary, approved, replied, dirty>>
tickVars   == <<wd, job>>
histVars   == <<number, consented, pushed, overtaken>>
envVars    == <<resumes, crashes, allowed>>
vars == <<state, enabled, from, batchVars, reviewVars, gateVars, agentVars,
          overdue, roster, mergeVars, tickVars, own, histVars, envVars>>

Phases == {"DESIGN", "CODE"}
StateOf ==
  [DESIGN |-> [REVIEW |-> "DESIGN_REVIEW", NPASS |-> "DESIGN_REVIEW_NPASS",
               REVISE |-> "DESIGN_REVISE", APPROVED |-> "DESIGN_APPROVED"],
   CODE   |-> [REVIEW |-> "CODE_REVIEW", NPASS |-> "CODE_REVIEW_NPASS",
               REVISE |-> "CODE_REVISE", APPROVED |-> "CODE_APPROVED"]]
Modes == {"REVIEW", "NPASS", "REVISE", "APPROVED"}
PhaseStates(p) == {StateOf[p][m] : m \in Modes}

States ==
  {"IDLE", "INITIALIZE", "DESIGN_PLAN", "ASSESSMENT", "IMPLEMENTATION",
   "CODE_TEST", "CODE_TEST_FIX", "MERGE_SUMMARY_SENT", "DONE", "BLOCKED"}
    \cup PhaseStates("DESIGN") \cup PhaseStates("CODE")

Steps == {"idle", "reset", "start", "record", "post", "saveId", "rollback",
          "push"}

NoOpts == [skipDesign |-> FALSE, skipAssess |-> FALSE, noCc |-> FALSE,
           exclude |-> "none", test |-> FALSE, automerge |-> FALSE]
NoJob   == [of |-> 0, issues |-> {}, then |-> "idle"]
Jobs    == [of : Nat, issues : SUBSET Issues, then : {"idle", "start"}]
NoAgent == [status |-> "none", of |-> 0, issues |-> {}]
Agents  == {NoAgent}
             \cup [status : {"live", "ended"}, of : Nat, issues : SUBSET Issues]
NoCmd   == [cmd |-> "none", of |-> 0]
Cmds    == {NoCmd} \cup [cmd : {"summary", "reset"}, of : Nat]

TypeOK ==
  /\ state \in States
  /\ enabled \in BOOLEAN
  /\ from \in States
  /\ opts \in OptionRecords
  /\ batch \subseteq Issues /\ ready \subseteq Issues /\ commits \subseteq Issues
  /\ risk \in [Issues -> {"unset", "none", "low", "high"}]
  /\ objected \in BOOLEAN
  /\ left \in Int
  /\ report \in {"none", "pass", "fail"}
  /\ failures \in Nat
  /\ cc \in Agents
  /\ stray \subseteq Agents
  /\ overdue \in BOOLEAN
  /\ roster \in Nat /\ summary \in Nat /\ number \in Nat
  /\ approved \in BOOLEAN
  /\ replied \subseteq Nat
  /\ dirty \in {"clean", "dirty", "late"}
  /\ wd \in Steps
  /\ job \in Jobs
  /\ own \in Cmds
  /\ consented \in BOOLEAN
  /\ pushed \in Seq(Nat)
  /\ overtaken \in BOOLEAN
  /\ resumes \in Nat /\ crashes \in Nat
  /\ allowed \subseteq Disturbances

NoRisk == [i \in Issues |-> "unset"]

(* cmd_init *)
Init ==
  /\ state = "IDLE" /\ enabled = FALSE /\ from = "IDLE"
  /\ opts = NoOpts
  /\ batch = {} /\ ready = {} /\ risk = NoRisk /\ commits = {}
  /\ objected = FALSE /\ left = MaxCycles
  /\ report = "none" /\ failures = 0
  /\ cc = NoAgent /\ stray = {}
  /\ overdue = FALSE
  /\ roster = 0 /\ summary = 0 /\ approved = FALSE /\ replied = {}
  /\ dirty = "clean"
  /\ wd = "idle" /\ job = NoJob /\ own = NoCmd
  /\ number = 0 /\ consented = FALSE /\ pushed = <<>> /\ overtaken = FALSE
  /\ resumes = 0 /\ crashes = 0
  /\ allowed \in Environments

-----------------------------------------------------------------------------
(* The two parts with modules of their own *)

ModeOf(p) ==
  IF \E m \in Modes : StateOf[p][m] = state
  THEN CHOOSE m \in Modes : StateOf[p][m] = state
  ELSE IF state = "BLOCKED" /\ from \in PhaseStates(p) THEN "BLOCKED" ELSE "OUT"

Ph(p) == INSTANCE Phase WITH mode <- ModeOf(p)

GateOf ==
  CASE state = "CODE_TEST"     -> "testing"
    [] state = "CODE_TEST_FIX" -> "fixing"
    [] state = "CODE_REVIEW"   -> "through"
    [] state = "BLOCKED"       -> "stuck"
    [] OTHER                   -> "out"

TestGate == INSTANCE Gate WITH gate <- GateOf

-----------------------------------------------------------------------------
(* Steps shared by several actions *)

Goto(s) ==
  /\ state' = s
  /\ overdue' = FALSE
  /\ enabled' = IF s = "BLOCKED" THEN FALSE ELSE enabled
  /\ from' = IF s = "BLOCKED" THEN state ELSE from

(* The tick goes on with step w for issues is of the batch, and then with t. *)
Continue(w, is, t) ==
  /\ wd' = w
  /\ job' = [of |-> number, issues |-> is, then |-> t]

EndTick == wd' = "idle" /\ job' = NoJob

Orphaned == IF cc.status = "live" THEN {cc} ELSE {}

(* Mutant of Cleanup: merge_approved stays. *)
MutantCleanup ==
  /\ state' = "IDLE" /\ overdue' = FALSE
  /\ enabled' = FALSE
  /\ opts' = NoOpts
  /\ batch' = {} /\ ready' = {} /\ risk' = NoRisk /\ commits' = {}
  /\ objected' = FALSE /\ left' = MaxCycles
  /\ report' = "none" /\ failures' = 0
  /\ cc' = NoAgent /\ stray' = stray \cup Orphaned
  /\ roster' = 0 /\ summary' = 0 /\ UNCHANGED approved
  /\ dirty' = IF dirty = "late" THEN "dirty" ELSE dirty

(* A batch is over.  Its agent is forgotten, not stopped. *)
Cleanup ==
  /\ state' = "IDLE" /\ overdue' = FALSE
  /\ enabled' = FALSE
  /\ opts' = NoOpts
  /\ batch' = {} /\ ready' = {} /\ risk' = NoRisk /\ commits' = {}
  /\ objected' = FALSE /\ left' = MaxCycles
  /\ report' = "none" /\ failures' = 0
  /\ cc' = NoAgent /\ stray' = stray \cup Orphaned
  /\ roster' = 0 /\ summary' = 0 /\ approved' = FALSE
  /\ dirty' = IF dirty = "late" THEN "dirty" ELSE dirty

(* A tick looks at a project that is enabled and has a batch. *)
Ticks == wd = "idle" /\ enabled /\ (batch # {} \/ state = "DONE")

(* What a later step of a tick works for is not there any more. *)
Outdated(of) == batch = {} \/ number # of

-----------------------------------------------------------------------------
(* Start and initialization *)

(* gokrax start: triage, options, INITIALIZE and enable.  Another project's *)
(* or another starter's interference is TaskQueue's subject.                *)
Start(o, is) ==
  /\ state = "IDLE" /\ batch = {}
  /\ number < BatchBound
  /\ state' = "INITIALIZE" /\ overdue' = FALSE
  /\ enabled' = TRUE
  /\ opts' = o
  /\ batch' = is
  /\ number' = number + 1
  /\ consented' = FALSE
  /\ UNCHANGED <<from, ready, risk, commits, reviewVars, gateVars, agentVars,
                 roster, mergeVars, tickVars, own, pushed, overtaken, envVars>>

(* An issue is closed, or its state cannot be fetched. *)
ClosedGuard ==
  /\ Ticks /\ state = "INITIALIZE"
  /\ Goto("BLOCKED")
  /\ UNCHANGED <<batchVars, reviewVars, gateVars, agentVars, roster, mergeVars,
                 tickVars, own, histVars, envVars>>

(* The counters and the test gate start afresh; the tick goes on with the   *)
(* reset of the reviewers.                                                  *)
Initialize ==
  /\ Ticks /\ state = "INITIALIZE"
  /\ Goto(IF opts.skipDesign THEN "DESIGN_APPROVED" ELSE "DESIGN_PLAN")
  /\ objected' = FALSE /\ left' = MaxCycles
  /\ report' = "none" /\ failures' = 0
  /\ Continue("reset", batch, "idle")
  /\ UNCHANGED <<batchVars, agentVars, roster, mergeVars, own, histVars, envVars>>

(* The reviewers have answered the ping: who is left out and who gets which *)
(* number is stored, the numbers only if there are none.                    *)
SaveRoster ==
  /\ wd = "reset"
  /\ roster' = IF roster = 0 THEN job.of ELSE roster
  /\ overtaken' = (overtaken \/ Outdated(job.of))
  /\ IF job.then = "start" THEN wd' = "start" /\ UNCHANGED job ELSE EndTick
  /\ UNCHANGED <<state, enabled, from, batchVars, reviewVars, gateVars,
                 agentVars, overdue, mergeVars, own, number, consented, pushed,
                 envVars>>

-----------------------------------------------------------------------------
(* Design and assessment *)

(* gokrax plan-done *)
PlanDone(i) ==
  /\ state = "DESIGN_PLAN"
  /\ i \in batch
  /\ ready' = ready \cup {i}
  /\ UNCHANGED <<state, enabled, from, opts, batch, risk, commits, reviewVars,
                 gateVars, agentVars, overdue, roster, mergeVars, tickVars, own,
                 histVars, envVars>>

DesignPlanned ==
  /\ Ticks /\ state = "DESIGN_PLAN"
  /\ batch \subseteq ready
  /\ Goto("DESIGN_REVIEW")
  /\ objected' = FALSE /\ left' = MaxCycles
  /\ UNCHANGED <<batchVars, gateVars, agentVars, roster, mergeVars, tickVars,
                 own, histVars, envVars>>

(* The implementation starts, for the issues is, with the reviewers' reset  *)
(* and, unless no_cc, an agent.                                             *)
EnterImplementation(is) ==
  /\ Goto("IMPLEMENTATION")
  /\ batch' = is
  /\ objected' = FALSE /\ left' = MaxCycles
  /\ Continue("reset", is \ commits, IF opts.noCc THEN "idle" ELSE "start")
  /\ UNCHANGED <<opts, ready, risk, commits, gateVars, agentVars, roster,
                 mergeVars, own, histVars, envVars>>

DesignApproved ==
  /\ Ticks /\ state = "DESIGN_APPROVED"
  /\ IF opts.skipAssess THEN EnterImplementation(batch)
     ELSE /\ Goto("ASSESSMENT")
          /\ UNCHANGED <<batchVars, reviewVars, gateVars, agentVars, roster,
                         mergeVars, tickVars, own, histVars, envVars>>

(* gokrax assess-done *)
AssessDone(i, r) ==
  /\ state = "ASSESSMENT"
  /\ i \in batch
  /\ risk' = [risk EXCEPT ![i] = r]
  /\ UNCHANGED <<state, enabled, from, opts, batch, ready, commits, reviewVars,
                 gateVars, agentVars, overdue, roster, mergeVars, tickVars, own,
                 histVars, envVars>>

TooRisky(i) ==
  CASE opts.exclude = "any"  -> risk[i] \in {"low", "high"}
    [] opts.exclude = "high" -> risk[i] = "high"
    [] OTHER                 -> FALSE

(* Every issue is assessed; those of excluded risks leave the batch. *)
Assessed ==
  /\ Ticks /\ state = "ASSESSMENT"
  /\ \A i \in batch : risk[i] # "unset"
  /\ \E i \in batch : ~TooRisky(i)
  /\ EnterImplementation({i \in batch : ~TooRisky(i)})

AllTooRisky ==
  /\ Ticks /\ state = "ASSESSMENT"
  /\ \A i \in batch : risk[i] # "unset" /\ TooRisky(i)
  /\ Cleanup
  /\ UNCHANGED <<from, replied, tickVars, own, histVars, envVars>>

(* Mutant of DesignTimeout: no timer for the assessment. *)
MutantDesignTimeout ==
  /\ Ticks /\ overdue
  /\ state = "DESIGN_PLAN" /\ ~(batch \subseteq ready)
  /\ Goto("BLOCKED")
  /\ UNCHANGED <<batchVars, reviewVars, gateVars, agentVars, roster, mergeVars,
                 tickVars, own, histVars, envVars>>

(* The design, or the assessment, takes too long. *)
DesignTimeout ==
  /\ Ticks /\ overdue
  /\ \/ state = "DESIGN_PLAN" /\ ~(batch \subseteq ready)
     \/ state = "ASSESSMENT" /\ \E i \in batch : risk[i] = "unset"
  /\ Goto("BLOCKED")
  /\ UNCHANGED <<batchVars, reviewVars, gateVars, agentVars, roster, mergeVars,
                 tickVars, own, histVars, envVars>>

-----------------------------------------------------------------------------
(* Implementation *)

(* Mutant of AgentDue: whether one is running is not looked at. *)
MutantAgentDue ==
  /\ Ticks /\ state = "IMPLEMENTATION"
  /\ ~(batch \subseteq commits) /\ ~opts.noCc
  /\ Continue("start", batch \ commits, "idle")
  /\ UNCHANGED <<state, enabled, from, batchVars, reviewVars, gateVars,
                 agentVars, overdue, roster, mergeVars, own, histVars, envVars>>

(* No agent is running: the next one is started. *)
AgentDue ==
  /\ Ticks /\ state = "IMPLEMENTATION"
  /\ ~(batch \subseteq commits) /\ ~opts.noCc
  /\ cc.status # "live"
  /\ Continue("start", batch \ commits, "idle")
  /\ UNCHANGED <<state, enabled, from, batchVars, reviewVars, gateVars,
                 agentVars, overdue, roster, mergeVars, own, histVars, envVars>>

(* The agent's script runs; the tick has still to store its pid. *)
StartAgent ==
  /\ wd = "start" /\ job.issues # {}
  /\ wd' = "record"
  /\ UNCHANGED <<state, enabled, from, batchVars, reviewVars, gateVars,
                 agentVars, overdue, roster, mergeVars, job, own, histVars,
                 envVars>>

(* Nothing is left to implement, or the start fails and the next tick tries *)
(* again.                                                                   *)
NoStart ==
  /\ wd = "start"
  /\ job.issues = {} \/ "die" \in allowed
  /\ EndTick
  /\ UNCHANGED <<state, enabled, from, batchVars, reviewVars, gateVars,
                 agentVars, overdue, roster, mergeVars, own, histVars, envVars>>

RecordAgent ==
  /\ wd = "record"
  /\ cc' = [status |-> "live", of |-> job.of, issues |-> job.issues]
  /\ stray' = stray \cup Orphaned
  /\ overtaken' = (overtaken \/ Outdated(job.of))
  /\ EndTick
  /\ UNCHANGED <<state, enabled, from, batchVars, reviewVars, gateVars, overdue,
                 roster, mergeVars, own, number, consented, pushed, envVars>>

Ends(a) ==
  \/ a = cc /\ cc' = [cc EXCEPT !.status = "ended"] /\ UNCHANGED stray
  \/ a \in stray /\ stray' = stray \ {a} /\ UNCHANGED cc

Live == Orphaned \cup stray

(* The script's gokrax commit, refused unless all of its issues are in the  *)
(* batch of the moment.  It does not look at the state.                     *)
AgentCommits(a) ==
  /\ Ends(a)
  /\ commits' = IF a.issues \subseteq batch THEN commits \cup a.issues
                ELSE commits
  /\ UNCHANGED <<state, enabled, from, opts, batch, ready, risk, reviewVars,
                 gateVars, overdue, roster, mergeVars, tickVars, own, histVars,
                 envVars>>

(* Without a new commit after its retries the script forces BLOCKED, which  *)
(* is refused only where no review mode is set.                             *)
AgentGivesUp(a) ==
  /\ Ends(a)
  /\ IF batch = {} THEN UNCHANGED <<state, overdue, enabled, from>>
     ELSE Goto("BLOCKED")
  /\ UNCHANGED <<batchVars, reviewVars, gateVars, roster, mergeVars, tickVars,
                 own, histVars, envVars>>

AgentDies(a) ==
  /\ "die" \in allowed
  /\ Ends(a)
  /\ UNCHANGED <<state, enabled, from, batchVars, reviewVars, gateVars, overdue,
                 roster, mergeVars, tickVars, own, histVars, envVars>>

(* no_cc: the implementer's own gokrax commit *)
HandCommit(i) ==
  /\ state = "IMPLEMENTATION" /\ opts.noCc
  /\ i \in batch
  /\ commits' = commits \cup {i}
  /\ UNCHANGED <<state, enabled, from, opts, batch, ready, risk, reviewVars,
                 gateVars, agentVars, overdue, roster, mergeVars, tickVars, own,
                 histVars, envVars>>

ImplementationTimeout ==
  /\ Ticks /\ state = "IMPLEMENTATION" /\ overdue
  /\ ~(batch \subseteq commits) /\ ~opts.noCc
  /\ cc.status = "live"
  /\ Goto("BLOCKED")
  /\ UNCHANGED <<batchVars, reviewVars, gateVars, agentVars, roster, mergeVars,
                 tickVars, own, histVars, envVars>>

(* To the test gate, or past it. *)
ToReview ==
  /\ Goto(IF opts.test THEN "CODE_TEST" ELSE "CODE_REVIEW")
  /\ IF opts.test THEN TestGate!Test ELSE UNCHANGED gateVars

(* Mutant of Implemented: one committed issue is enough. *)
MutantImplemented ==
  /\ Ticks /\ state = "IMPLEMENTATION"
  /\ batch \cap commits # {}
  /\ ToReview
  /\ UNCHANGED <<batchVars, reviewVars, agentVars, roster, mergeVars, tickVars,
                 own, histVars, envVars>>

Implemented ==
  /\ Ticks /\ state = "IMPLEMENTATION"
  /\ batch \subseteq commits
  /\ ToReview
  /\ UNCHANGED <<batchVars, reviewVars, agentVars, roster, mergeVars, tickVars,
                 own, histVars, envVars>>

-----------------------------------------------------------------------------
(* The review phases and the test gate *)

Speak(p) ==
  /\ UNCHANGED <<state, enabled, from, batchVars, gateVars, agentVars, overdue,
                 roster, mergeVars, tickVars, own, histVars, envVars>>
  /\ Ph(p)!Speak

ReviewDecides(p) ==
  /\ Ticks /\ state \in PhaseStates(p)
  /\ \E s \in PhaseStates(p) \cup {"BLOCKED"} : Goto(s)
  /\ Ph(p)!Decide
  /\ UNCHANGED <<batchVars, gateVars, agentVars, roster, mergeVars, tickVars,
                 own, histVars, envVars>>

DesignRevised ==
  /\ Ticks /\ state = "DESIGN_REVISE"
  /\ Goto("DESIGN_REVIEW")
  /\ Ph("DESIGN")!Resubmit
  /\ UNCHANGED <<batchVars, gateVars, agentVars, roster, mergeVars, tickVars,
                 own, histVars, envVars>>

(* The revised code is tested again before it is reviewed again. *)
CodeRevised ==
  /\ Ticks /\ state = "CODE_REVISE"
  /\ ToReview
  /\ objected' = FALSE /\ UNCHANGED left
  /\ UNCHANGED <<batchVars, agentVars, roster, mergeVars, tickVars, own,
                 histVars, envVars>>

TestReports ==
  /\ state = "CODE_TEST" /\ report = "none"
  /\ UNCHANGED <<state, enabled, from, batchVars, reviewVars, agentVars,
                 overdue, roster, mergeVars, tickVars, own, histVars, envVars>>
  /\ TestGate!Report

(* The gate's next stop.  The fixing agent is CodeTest's subject; the        *)
(* implementing one is forgotten when it starts.                            *)
TestDecides ==
  /\ Ticks /\ state \in {"CODE_TEST", "CODE_TEST_FIX"}
  /\ \E s \in {"CODE_TEST", "CODE_TEST_FIX", "CODE_REVIEW", "BLOCKED"} : Goto(s)
  /\ TestGate!Test \/ TestGate!Pass \/ TestGate!Fix \/ TestGate!GiveUp
  /\ IF state' = "CODE_TEST_FIX"
     THEN cc' = NoAgent /\ stray' = stray \cup Orphaned
     ELSE UNCHANGED agentVars
  /\ UNCHANGED <<batchVars, reviewVars, roster, mergeVars, tickVars, own,
                 histVars, envVars>>

-----------------------------------------------------------------------------
(* The merge *)

(* CODE_APPROVED: the summary will be posted. *)
SummaryDue ==
  /\ Ticks /\ state = "CODE_APPROVED"
  /\ Goto("MERGE_SUMMARY_SENT")
  /\ Continue("post", batch, "idle")
  /\ UNCHANGED <<batchVars, reviewVars, gateVars, agentVars, roster, mergeVars,
                 own, histVars, envVars>>

(* A new message nobody has answered yet, or a post that failed. *)
PostSummary ==
  /\ wd = "post"
  /\ \/ wd' = "saveId" /\ replied' = replied \ {job.of}
     \/ "post" \in allowed /\ wd' = "rollback" /\ UNCHANGED replied
  /\ UNCHANGED <<state, enabled, from, batchVars, reviewVars, gateVars,
                 agentVars, overdue, roster, summary, approved, dirty, job, own,
                 histVars, envVars>>

SaveSummaryId ==
  /\ wd = "saveId"
  /\ summary' = job.of
  /\ overtaken' = (overtaken \/ Outdated(job.of))
  /\ EndTick
  /\ UNCHANGED <<state, enabled, from, batchVars, reviewVars, gateVars,
                 agentVars, overdue, roster, approved, replied, dirty, own,
                 number, consented, pushed, envVars>>

(* The state is set back whatever it is by then. *)
Rollback ==
  /\ wd = "rollback"
  /\ state' = "CODE_APPROVED" /\ overdue' = FALSE
  /\ overtaken' = (overtaken \/ Outdated(job.of) \/ state # "MERGE_SUMMARY_SENT")
  /\ EndTick
  /\ UNCHANGED <<enabled, from, batchVars, reviewVars, gateVars, agentVars,
                 roster, mergeVars, own, number, consented, pushed, envVars>>

(* gokrax ok, or the owner's OK in reply to the summary. *)
Answered == approved \/ (summary # 0 /\ summary \in replied)

(* Mutant of Consent: the message that was answered is not looked at. *)
MutantConsent == opts.automerge \/ approved \/ replied # {}

Consent == opts.automerge \/ Answered

Merge ==
  /\ Ticks /\ state = "MERGE_SUMMARY_SENT"
  /\ Consent /\ dirty = "clean"
  /\ Goto("DONE")
  /\ Continue("push", batch, "idle")
  /\ UNCHANGED <<batchVars, reviewVars, gateVars, agentVars, roster, mergeVars,
                 own, histVars, envVars>>

(* Mutant of DirtyBlock: the batch is pushed and goes on waiting. *)
MutantDirtyBlock ==
  /\ Ticks /\ state = "MERGE_SUMMARY_SENT"
  /\ Consent /\ dirty = "late"
  /\ UNCHANGED <<state, overdue, enabled, from>>
  /\ dirty' = "dirty"
  /\ Continue("push", batch, "idle")
  /\ UNCHANGED <<batchVars, reviewVars, gateVars, agentVars, roster, summary,
                 approved, replied, own, histVars, envVars>>

(* A tree that stays dirty for too long blocks the batch, which is pushed   *)
(* all the same.                                                            *)
DirtyBlock ==
  /\ Ticks /\ state = "MERGE_SUMMARY_SENT"
  /\ Consent /\ dirty = "late"
  /\ Goto("BLOCKED")
  /\ dirty' = "dirty"
  /\ Continue("push", batch, "idle")
  /\ UNCHANGED <<batchVars, reviewVars, gateVars, agentVars, roster, summary,
                 approved, replied, own, histVars, envVars>>

(* git push and the closing of the issues, or a push that failed three times *)
Push ==
  /\ wd = "push"
  /\ \/ pushed' = Append(pushed, job.of)
     \/ UNCHANGED pushed
  /\ overtaken' = (overtaken \/ Outdated(job.of))
  /\ EndTick
  /\ UNCHANGED <<state, enabled, from, batchVars, reviewVars, gateVars,
                 agentVars, overdue, roster, mergeVars, own, number, consented,
                 envVars>>

Finish ==
  /\ Ticks /\ state = "DONE"
  /\ Cleanup
  /\ UNCHANGED <<from, replied, tickVars, own, histVars, envVars>>

Watchdog ==
  \/ ClosedGuard \/ Initialize \/ SaveRoster
  \/ DesignPlanned \/ DesignApproved \/ Assessed \/ AllTooRisky \/ DesignTimeout
  \/ AgentDue \/ StartAgent \/ NoStart \/ RecordAgent
  \/ Implemented \/ ImplementationTimeout
  \/ \E p \in Phases : ReviewDecides(p)
  \/ DesignRevised \/ CodeRevised \/ TestDecides
  \/ SummaryDue \/ PostSummary \/ SaveSummaryId \/ Rollback
  \/ Merge \/ DirtyBlock \/ Push \/ Finish

-----------------------------------------------------------------------------
(* Agents, reviewers, time, crashes *)

Workers ==
  \/ \E i \in Issues : PlanDone(i) \/ HandCommit(i)
  \/ \E i \in Issues, r \in {"none", "low", "high"} : AssessDone(i, r)
  \/ \E p \in Phases : Speak(p)
  \/ TestReports
  \/ \E a \in Live : AgentCommits(a) \/ AgentGivesUp(a) \/ AgentDies(a)

StateTimer ==
  /\ state \in {"DESIGN_PLAN", "ASSESSMENT", "IMPLEMENTATION"} /\ ~overdue
  /\ overdue' = TRUE
  /\ UNCHANGED <<state, enabled, from, batchVars, reviewVars, gateVars,
                 agentVars, roster, mergeVars, tickVars, own, histVars, envVars>>

(* dirty_gate_since is a while ago. *)
DirtyTimer ==
  /\ state = "MERGE_SUMMARY_SENT" /\ Consent
  /\ dirty = "dirty"
  /\ dirty' = "late"
  /\ UNCHANGED <<state, enabled, from, batchVars, reviewVars, gateVars,
                 agentVars, overdue, roster, summary, approved, replied,
                 tickVars, own, histVars, envVars>>

Clock == StateTimer \/ DirtyTimer

(* Somebody leaves tracked changes behind, or cleans them up. *)
Tree ==
  /\ "dirty" \in allowed
  /\ state = "MERGE_SUMMARY_SENT"
  /\ dirty' = IF dirty = "clean" THEN "dirty" ELSE "clean"
  /\ UNCHANGED <<state, enabled, from, batchVars, reviewVars, gateVars,
                 agentVars, overdue, roster, summary, approved, replied,
                 tickVars, own, histVars, envVars>>

(* What the tick still had to do is not done; an agent it had started runs  *)
(* on unrecorded.                                                           *)
Crash ==
  /\ "crash" \in allowed /\ crashes < CrashBound
  /\ wd # "idle"
  /\ crashes' = crashes + 1
  /\ stray' = IF wd = "record"
              THEN stray \cup {[status |-> "live", of |-> job.of,
                                issues |-> job.issues]}
              ELSE stray
  /\ EndTick
  /\ UNCHANGED <<state, enabled, from, batchVars, reviewVars, gateVars, cc,
                 overdue, roster, mergeVars, own, histVars, resumes, allowed>>

-----------------------------------------------------------------------------
(* The owner *)

(* gokrax ok *)
Ok ==
  /\ state = "MERGE_SUMMARY_SENT"
  /\ approved' = TRUE
  /\ consented' = TRUE
  /\ UNCHANGED <<state, enabled, from, batchVars, reviewVars, gateVars,
                 agentVars, overdue, roster, summary, replied, dirty, tickVars,
                 own, number, pushed, overtaken, envVars>>

(* OK in reply to the summary the project waits for, while it waits. *)
Reply ==
  /\ state = "MERGE_SUMMARY_SENT"
  /\ summary # 0
  /\ replied' = replied \cup {summary}
  /\ consented' = (consented \/ summary = number)
  /\ UNCHANGED <<state, enabled, from, batchVars, reviewVars, gateVars,
                 agentVars, overdue, roster, summary, approved, dirty, tickVars,
                 own, number, pushed, overtaken, envVars>>

(* gokrax merge-summary reads, posts, and writes whatever the state is then. *)
SummaryRead ==
  /\ "summary" \in allowed /\ own = NoCmd
  /\ state = "CODE_APPROVED"
  /\ own' = [cmd |-> "summary", of |-> number]
  /\ UNCHANGED <<state, enabled, from, batchVars, reviewVars, gateVars,
                 agentVars, overdue, roster, mergeVars, tickVars, histVars,
                 envVars>>

SummaryWrite ==
  /\ own.cmd = "summary"
  /\ own' = NoCmd
  /\ state' = "MERGE_SUMMARY_SENT" /\ overdue' = FALSE
  /\ summary' = own.of
  /\ replied' = replied \ {own.of}
  /\ overtaken' = (overtaken \/ Outdated(own.of) \/ state # "CODE_APPROVED")
  /\ UNCHANGED <<enabled, from, batchVars, reviewVars, gateVars, agentVars,
                 roster, approved, dirty, tickVars, number, consented, pushed,
                 envVars>>

(* gokrax reset lists what is to be reset, asks, and resets what there is. *)
ResetRead ==
  /\ "reset" \in allowed /\ own = NoCmd
  /\ state # "IDLE"
  /\ own' = [cmd |-> "reset", of |-> number]
  /\ UNCHANGED <<state, enabled, from, batchVars, reviewVars, gateVars,
                 agentVars, overdue, roster, mergeVars, tickVars, histVars,
                 envVars>>

ResetWrite ==
  /\ own.cmd = "reset"
  /\ own' = NoCmd
  /\ Cleanup
  /\ UNCHANGED <<from, replied, tickVars, histVars, envVars>>

(* gokrax transition --to BLOCKED, along an edge of VALID_TRANSITIONS *)
Block ==
  /\ "block" \in allowed
  /\ state \in {"DESIGN_REVIEW", "CODE_REVIEW", "CODE_TEST", "CODE_TEST_FIX"}
  /\ Goto("BLOCKED")
  /\ UNCHANGED <<batchVars, reviewVars, gateVars, agentVars, roster, mergeVars,
                 tickVars, own, histVars, envVars>>

(* gokrax disable, gokrax enable *)
Switch ==
  /\ "block" \in allowed
  /\ state \notin {"IDLE", "BLOCKED"}
  /\ enabled' = ~enabled
  /\ UNCHANGED <<state, from, batchVars, reviewVars, gateVars, agentVars,
                 overdue, roster, mergeVars, tickVars, own, histVars, envVars>>

CodeBlockedFrom ==
  PhaseStates("CODE") \cup {"CODE_TEST", "CODE_TEST_FIX"}
    \cup (IF "leftover" \in allowed THEN {"MERGE_SUMMARY_SENT"} ELSE {})

(* gokrax transition --resume, into the phase that was interrupted.  The     *)
(* code is open again: what the owner has consented to is not this.         *)
Resume(p) ==
  /\ "resume" \in allowed /\ resumes < ResumeBound
  /\ state = "BLOCKED"
  /\ from \in IF p = "DESIGN" THEN PhaseStates("DESIGN") ELSE CodeBlockedFrom
  /\ Answered => "leftover" \in allowed
  /\ state' = StateOf[p].REVISE /\ overdue' = FALSE
  /\ from' = "IDLE"
  /\ enabled' = TRUE
  /\ IF from \in PhaseStates(p) THEN Ph(p)!Reopen
     ELSE left' \in {left, left + MaxCycles} /\ UNCHANGED objected
  /\ consented' = FALSE
  /\ resumes' = resumes + 1
  /\ UNCHANGED <<batchVars, gateVars, agentVars, roster, mergeVars, tickVars,
                 own, number, pushed, overtaken, crashes, allowed>>

Owner ==
  \/ \E o \in Options, is \in (SUBSET Issues) \ {{}} : Start(o, is)
  \/ Ok \/ Reply
  \/ SummaryRead \/ SummaryWrite
  \/ ResetRead \/ ResetWrite
  \/ Block \/ Switch
  \/ \E p \in Phases : Resume(p)

-----------------------------------------------------------------------------
Next == Watchdog \/ Workers \/ Clock \/ Tree \/ Crash \/ Owner

Spec == Init /\ [][Next]_vars

(* The watchdog loop ticks for ever and time passes; nobody else has to act. *)
FairSpec == Spec /\ WF_vars(Watchdog) /\ WF_vars(Clock)

-----------------------------------------------------------------------------
(* Properties *)

(* The consent of a merge is never the one of another batch, nor of this    *)
(* batch's code before it was opened again: not after a failed post, a      *)
(* second summary, a crash, a BLOCKED or a resume; short of a resume of a   *)
(* batch that was blocked in its merge or once it was approved.             *)
ConsentForThisCode ==
  [][("leftover" \notin allowed /\ ~overtaken
        /\ wd # "push" /\ wd' = "push")
      => opts.automerge \/ consented]_vars

CommittedStates ==
  PhaseStates("CODE") \cup {"CODE_TEST", "CODE_TEST_FIX", "MERGE_SUMMARY_SENT",
                            "DONE"}

(* From the test gate to the merge every issue of the batch has its commit, *)
(* whoever committed: the agent of this batch, one that a crash or a reset  *)
(* left running, or nobody after a rollback and a resume.                   *)
ReviewedIsCommitted ==
  ~overtaken /\ state \in CommittedStates => batch \subseteq commits

(* A batch starts without anything of the batch before it: no agent, no     *)
(* roster of reviewers, no summary, no approval.                            *)
FreshBatch ==
  ~overtaken /\ state = "INITIALIZE" =>
    cc = NoAgent /\ roster = 0 /\ summary = 0 /\ ~approved

(* Two agents work in the repository at once only where a crash or a reset, *)
(* or a command overtaken by the ticks, has lost one.                       *)
OneAgent ==
  allowed \cap {"crash", "reset"} = {} /\ ~overtaken => Cardinality(Live) <= 1

(* Left alone a batch ends, or BLOCKED tells the owner, or it waits for the  *)
(* owner's own hands (no_cc) or consent.  FairSpec; an agent that dies or    *)
(* a summary that fails is tried again without end, so they do not.         *)
WaitsForOwner ==
  \/ state \in {"IDLE", "BLOCKED"}
  \/ state = "IMPLEMENTATION" /\ opts.noCc
  \/ state = "MERGE_SUMMARY_SENT" /\ ~Consent
BatchEnds ==
  (allowed \subseteq {"crash"} /\ state = "INITIALIZE") ~> WaitsForOwner

Stage ==
  IF overtaken THEN "lost"
  ELSE IF state = "IDLE" THEN "none"
  ELSE IF state = "DONE" \/ (wd = "push" /\ job.of = number) THEN "agreed"
  ELSE IF state = "BLOCKED" THEN "halted" ELSE "open"

(* Unless a command and a tick overtake each other or a batch blocked in    *)
(* its merge is resumed, a batch has the life that BatchLife promises.      *)
Life == INSTANCE BatchLife WITH
          stage <- IF "leftover" \in allowed THEN "lost" ELSE Stage,
          delivered <- pushed
LifeImplemented == Life!Spec
=============================================================================
