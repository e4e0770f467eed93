------------------------- MODULE DevPipeline_proofs --------------------------
(***************************************************************************)
(* A batch's way through the pipeline, for every set of issues and options, *)
(* every number of batches, revisions, retries, resumes and crashes, and    *)
(* every combination of faults and commands.                               *)
(***************************************************************************)
EXTENDS DevPipeline, FiniteSetTheorems, TLAPS

-----------------------------------------------------------------------------
(* The inductive invariant *)

(* A tick and a command work for a batch that has begun; between two        *)
(* batches there is none.                                                  *)
Numbers ==
  /\ job.of <= number /\ own.of <= number
  /\ wd = "idle" => job = NoJob
  /\ state = "INITIALIZE" /\ wd # "idle" => job.of < number
  /\ state = "IDLE" => batch = {}
  /\ own.cmd = "reset" => "reset" \in allowed
  /\ \A a \in stray : a.status = "live"

(* Between two batches nothing is left of the one before. *)
Clean ==
  ~overtaken /\ state \in {"IDLE", "INITIALIZE"} =>
    cc = NoAgent /\ roster = 0 /\ summary = 0 /\ ~approved

(* A batch that is past its implementation, or blocked since then, is       *)
(* committed.                                                              *)
Committed ==
  ~overtaken
    /\ (state \in CommittedStates \/ (state = "BLOCKED" /\ from \in CommittedStates))
  => batch \subseteq commits

(* Agents come one after the other: what the next one is to implement is    *)
(* not committed, and it is started where none lives.                      *)
ToStart == wd \in {"start", "record"} \/ job.then = "start"
OneByOne ==
  allowed \cap {"crash", "reset"} = {} /\ ~overtaken =>
    /\ stray = {}
    /\ cc.status = "live" =>
         /\ state = "IMPLEMENTATION" \/ (state = "BLOCKED" /\ from = "IMPLEMENTATION")
         /\ cc.issues # {} /\ cc.issues \subseteq batch \ commits
         /\ ~opts.noCc /\ wd = "idle"
    /\ ToStart =>
         /\ state = "IMPLEMENTATION" /\ cc.status # "live"
         /\ job.issues \subseteq batch \ commits /\ ~opts.noCc
    /\ wd = "record" => job.issues # {}

(* An answer that counts is the owner's consent to the batch in progress:   *)
(* resumed is only one without.                                            *)
Consenting ==
  "leftover" \notin allowed /\ ~overtaken =>
    /\ state # "IDLE" => number > 0
    /\ summary \in {0, number}
    /\ \A n \in replied : n <= number
    /\ approved => consented
    /\ number \in replied /\ state # "IDLE" => consented /\ summary = number

(* Once the push has begun there is no way back into the batch. *)
Past ==
  \/ state \in {"IDLE", "DONE"}
  \/ state = "BLOCKED" /\ from \in {"MERGE_SUMMARY_SENT", "DONE", "BLOCKED"}
Pushing == wd = "push" /\ job.of = number
Once ==
  "leftover" \notin allowed /\ ~overtaken =>
    /\ Pushing => Past /\ \A i \in DOMAIN pushed : pushed[i] # number
    /\ (\E i \in DOMAIN pushed : pushed[i] = number) => Past
    /\ \A i \in DOMAIN pushed : pushed[i] <= number
    /\ \A i, j \in DOMAIN pushed : pushed[i] = pushed[j] => i = j

DevInv ==
  TypeOK /\ Numbers /\ Clean /\ Committed /\ OneByOne /\ Consenting /\ Once

LEMMA DevInit == Init => DevInv
<1> SUFFICES ASSUME Init PROVE DevInv  OBVIOUS
<1>1. TypeOK
  <2>1. risk \in [Issues -> {"unset", "none", "low", "high"}]  BY DEF Init, NoRisk
  <2>2. opts \in OptionRecords  BY DEF Init, NoOpts, OptionRecords, Excluding
  <2>3. cc \in Agents /\ job \in Jobs /\ own \in Cmds
    BY DEF Init, Agents, NoAgent, Jobs, NoJob, Cmds, NoCmd
  <2>4. left \in Int /\ allowed \subseteq Disturbances
    BY DevAssumption DEF Init, DevAssumption
  <2>5. pushed \in Seq(Nat)  BY DEF Init
  <2>6. QED  BY <2>1, <2>2, <2>3, <2>4, <2>5 DEF Init, TypeOK, States, Steps
<1>2. Numbers  BY DEF Init, Numbers, NoJob, NoCmd
<1>3. Clean  BY DEF Init, Clean
<1>4. Committed  BY DEF Init, Committed
<1>5. OneByOne  BY DEF Init, OneByOne, ToStart, NoJob, NoAgent
<1>6. Consenting  BY DEF Init, Consenting
<1>7. Once  BY DEF Init, Once, Pushing, Past
<1>8. QED  BY <1>1, <1>2, <1>3, <1>4, <1>5, <1>6, <1>7 DEF DevInv

-----------------------------------------------------------------------------
(* The states, phase by phase *)

LEMMA ReviewStates ==
  /\ PhaseStates("DESIGN") = {"DESIGN_REVIEW", "DESIGN_REVIEW_NPASS", "DESIGN_REVISE",
                              "DESIGN_APPROVED"}
  /\ PhaseStates("CODE") = {"CODE_REVIEW", "CODE_REVIEW_NPASS", "CODE_REVISE",
                            "CODE_APPROVED"}
BY DEF PhaseStates, StateOf, Modes

LEMMA Limits == MaxCycles \in Nat /\ MaxCycles > 0 /\ Options \subseteq OptionRecords
BY DevAssumption DEF DevAssumption

(* A step of the tick has a job. *)
LEMMA JobTypes ==
  ASSUME TypeOK, NEW w \in Steps, NEW is \in SUBSET Issues, NEW t \in {"idle", "start"},
         Continue(w, is, t)
  PROVE  wd' \in Steps /\ job' \in Jobs
BY DEF TypeOK, Continue, Jobs

LEMMA GotoTypes ==
  ASSUME TypeOK, NEW s \in States, Goto(s)
  PROVE  /\ state' \in States /\ from' \in States
         /\ enabled' \in BOOLEAN /\ overdue' \in BOOLEAN
BY DEF TypeOK, Goto

(* Only a live agent ends: the one on record, or one that is not. *)
LEMMA EndTypes ==
  ASSUME TypeOK, Numbers, NEW a \in Live, Ends(a)
  PROVE  cc' \in Agents /\ stray' \subseteq Agents
<1>1. CASE a = cc /\ cc' = [cc EXCEPT !.status = "ended"] /\ UNCHANGED stray
  <2>1. cc.status = "live"  BY <1>1 DEF Live, Orphaned, Numbers
  <2>2. cc \in [status : {"live", "ended"}, of : Nat, issues : SUBSET Issues]
    BY <2>1 DEF TypeOK, Agents, NoAgent
  <2>3. QED  BY <1>1, <2>2 DEF TypeOK, Agents
<1>2. CASE a \in stray /\ stray' = stray \ {a} /\ UNCHANGED cc
  BY <1>2 DEF TypeOK
<1>3. QED  BY <1>1, <1>2 DEF Ends

(* Steps that touch only what the invariant says nothing of but its type. *)
LEMMA Quiet ==
  ASSUME DevInv, TypeOK',
         UNCHANGED <<state, from, opts, batch, commits, agentVars, roster, summary,
                     approved, replied, tickVars, own, histVars, allowed>>
  PROVE  DevInv'
<1>1. UNCHANGED <<state, from, opts, batch, commits, cc, stray,
                 roster, summary, approved, replied, wd, job, own, number,
                 consented, pushed, overtaken, allowed>>
  BY DEF agentVars, tickVars, histVars
<1>2. TypeOK /\ Numbers /\ Clean /\ Committed /\ OneByOne /\ Consenting /\ Once
  BY DEF DevInv
<1>3. Numbers' /\ Clean' /\ Committed' /\ OneByOne' /\ Consenting' /\ Once'
  BY <1>1, <1>2 DEF Numbers, Clean, Committed, OneByOne, ToStart, Consenting, Once, Pushing,
     Past
<1>4. TypeOK'
  OBVIOUS
<1>5. QED
  BY <1>3, <1>4 DEF DevInv

(* A tick or the owner moves the pipeline on, outside the merge.           *)
LEMMA Moves ==
  ASSUME DevInv, TypeOK', state' # "IDLE", state' # "INITIALIZE",
         UNCHANGED <<opts, batch, commits, agentVars, roster, summary, approved, replied,
                     tickVars, own, histVars, allowed>>,
         from' = (IF state' = "BLOCKED" THEN state ELSE from),
         state \notin {"IDLE", "DONE", "MERGE_SUMMARY_SENT", "BLOCKED"},
         (state = "IMPLEMENTATION" /\ state' # "BLOCKED") => batch \subseteq commits,
         state = "IMPLEMENTATION" => wd = "idle",
         state' \in CommittedStates => (state \in CommittedStates \/ batch \subseteq commits)
  PROVE  DevInv'
<1>1. UNCHANGED <<opts, batch, commits, cc, stray, roster, summary,
                 approved, replied, wd, job, own, number, consented, pushed,
                 overtaken, allowed>>
  BY DEF agentVars, tickVars, histVars
<1>2. TypeOK /\ Numbers /\ Clean /\ Committed /\ OneByOne /\ Consenting /\ Once
  BY DEF DevInv
<1>3. TypeOK'
  OBVIOUS
<1>4. Numbers'  BY <1>1, <1>2 DEF Numbers
<1>5. Clean'  BY <1>1, <1>2 DEF Clean
<1>6. Committed'  BY <1>1, <1>2 DEF Committed
<1>7. OneByOne'  BY <1>1, <1>2 DEF OneByOne, ToStart, Numbers, NoJob
<1>8. Consenting'  BY <1>1, <1>2 DEF Consenting
<1>9. Once'  BY <1>1, <1>2 DEF Once, Pushing, Past
<1>10. QED
  BY <1>3, <1>4, <1>5, <1>6, <1>7, <1>8, <1>9 DEF DevInv

LEMMA Starts ==
  ASSUME DevInv, NEW o \in Options, NEW is \in (SUBSET Issues) \ {{}}, Start(o, is)
  PROVE  DevInv'
<1>1. UNCHANGED <<from, ready, risk, commits, objected, left, report,
                 failures, cc, stray, roster, summary, approved, replied, dirty,
                 wd, job, own, pushed, overtaken, resumes, crashes, allowed>>
  BY DEF Start, reviewVars, gateVars, agentVars, mergeVars, tickVars, envVars
<1>2. TypeOK /\ Numbers /\ Clean /\ Committed /\ OneByOne /\ Consenting /\ Once
  BY DEF DevInv
<1>3. TypeOK'
  <2>1. opts' \in OptionRecords  BY Limits DEF Start
  <2>2. /\ state' \in States /\ enabled' \in BOOLEAN /\ batch' \subseteq Issues
        /\ overdue' \in BOOLEAN /\ consented' \in BOOLEAN
    BY DEF Start, States
  <2>3. number' \in Nat  BY <1>2 DEF Start, TypeOK
  <2>4. QED  BY <1>1, <1>2, <2>1, <2>2, <2>3 DEF TypeOK
<1>4. Numbers'  BY <1>1, <1>2 DEF Numbers, Start, TypeOK, Jobs, Cmds, NoCmd
<1>5. Clean'  BY <1>1, <1>2 DEF Clean, Start
<1>6. Committed'
  BY <1>1, <1>2 DEF Committed, Start, CommittedStates, PhaseStates, StateOf,
     Modes
<1>7. OneByOne'  BY <1>1, <1>2 DEF OneByOne, ToStart, Start
<1>8. Consenting'  BY <1>1, <1>2 DEF Consenting, Start, TypeOK, Clean
<1>9. Once'  BY <1>1, <1>2 DEF Once, Pushing, Start, TypeOK, Numbers
<1>10. QED
  BY <1>3, <1>4, <1>5, <1>6, <1>7, <1>8, <1>9 DEF DevInv

LEMMA Initializes ==
  ASSUME DevInv, Initialize
  PROVE  DevInv'
<1>1. UNCHANGED <<opts, batch, ready, risk, commits, cc, stray,
                 roster, summary, approved, replied, dirty, own, number,
                 consented, pushed, overtaken, resumes, crashes, allowed>>
  BY DEF Initialize, batchVars, agentVars, mergeVars, histVars, envVars
<1>2. TypeOK /\ Numbers /\ Clean /\ Committed /\ OneByOne /\ Consenting /\ Once
  BY DEF DevInv
<1>3. TypeOK'
  <2>1. /\ state' \in States /\ enabled' \in BOOLEAN /\ from' \in States
        /\ overdue' \in BOOLEAN
    <3>1. {"DESIGN_APPROVED", "DESIGN_PLAN"} \subseteq States  BY ReviewStates DEF States
    <3>2. QED  BY <1>2, <3>1, GotoTypes DEF Initialize
  <2>2. wd' \in Steps /\ job' \in Jobs
    <3>1. batch \in SUBSET Issues  BY <1>2 DEF TypeOK
    <3>2. QED  BY <1>2, <3>1, JobTypes DEF Initialize, Steps
  <2>3. /\ objected' \in BOOLEAN /\ left' \in Int
        /\ report' \in {"none", "pass", "fail"} /\ failures' \in Nat
    <3>1. objected' = FALSE /\ left' = MaxCycles /\ report' = "none" /\ failures' = 0
      BY Zenon DEF Initialize
    <3>2. left' \in Int  BY <3>1, Limits
    <3>3. objected' \in BOOLEAN  BY <3>1
    <3>4. QED  BY <3>1, <3>2, <3>3
  <2>4. QED  BY <1>1, <1>2, <2>1, <2>2, <2>3 DEF TypeOK
<1>4. Numbers'  BY <1>1, <1>2 DEF Numbers, Initialize, Goto, Continue, TypeOK
<1>5. Clean'  BY <1>1, <1>2 DEF Clean, Initialize
<1>6. Committed'
  BY <1>1, <1>2 DEF Committed, Initialize, Goto, CommittedStates, PhaseStates,
     StateOf, Modes
<1>7. OneByOne'  BY <1>1, <1>2 DEF OneByOne, ToStart, Initialize, Continue
<1>8. Consenting'  BY <1>1, <1>2 DEF Consenting, Initialize
<1>9. Once'  BY <1>1, <1>2 DEF Once, Pushing, Past, Initialize, Continue
<1>10. QED
  BY <1>3, <1>4, <1>5, <1>6, <1>7, <1>8, <1>9 DEF DevInv

LEMMA Rosters ==
  ASSUME DevInv, SaveRoster
  PROVE  DevInv'
<1>1. UNCHANGED <<state, enabled, from, opts, batch, ready, risk,
                 commits, objected, left, report, failures, cc, stray, overdue,
                 summary, approved, replied, dirty, own, number, consented,
                 pushed, resumes, crashes, allowed>>
  BY DEF SaveRoster, batchVars, reviewVars, gateVars, agentVars, mergeVars,
         envVars
<1>2. TypeOK /\ Numbers /\ Clean /\ Committed /\ OneByOne /\ Consenting /\ Once
  BY DEF DevInv
<1>3. job.of \in Nat  BY <1>2 DEF TypeOK, Jobs
<1>4. ~overtaken' => ~overtaken /\ batch # {} /\ number = job.of
  BY <1>2, Zenon DEF SaveRoster, Outdated
<1>5. TypeOK'
  <2>1. /\ roster' \in Nat /\ wd' \in Steps /\ job' \in Jobs
        /\ overtaken' \in BOOLEAN
    BY <1>1, <1>2 DEF SaveRoster, EndTick, TypeOK, Steps, Jobs, NoJob
  <2>2. QED  BY <1>1, <1>2, <2>1 DEF TypeOK
<1>6. Numbers'  BY <1>1, <1>2 DEF Numbers, SaveRoster, EndTick, TypeOK, NoJob
<1>7. Clean'  BY <1>1, <1>2, <1>3, <1>4 DEF Clean, SaveRoster, Numbers
<1>8. Committed'  BY <1>1, <1>2, <1>3, <1>4 DEF Committed
<1>9. OneByOne'
  BY <1>1, <1>2, <1>3, <1>4 DEF OneByOne, ToStart, SaveRoster, EndTick, NoJob
<1>10. Consenting'  BY <1>1, <1>2, <1>3, <1>4 DEF Consenting
<1>11. Once'
  BY <1>1, <1>2, <1>3, <1>4 DEF Once, Pushing, Past, SaveRoster, EndTick
<1>12. QED
  BY <1>5, <1>6, <1>7, <1>8, <1>9, <1>10, <1>11 DEF DevInv

LEMMA Implements ==
  ASSUME DevInv, NEW is \in SUBSET batch, EnterImplementation(is), Ticks, state # "IDLE",
         state \in {"DESIGN_APPROVED", "ASSESSMENT"}
  PROVE  DevInv'
<1>1. UNCHANGED <<opts, ready, risk, commits, report, failures, cc,
                 stray, roster, summary, approved, replied, dirty, own, number,
                 consented, pushed, overtaken, resumes, crashes, allowed>>
  BY DEF EnterImplementation, gateVars, agentVars, mergeVars, histVars, envVars
<1>2. TypeOK /\ Numbers /\ Clean /\ Committed /\ OneByOne /\ Consenting /\ Once
  BY DEF DevInv
<1>3. TypeOK'
  <2>1. /\ state' \in States /\ enabled' \in BOOLEAN /\ from' \in States
        /\ overdue' \in BOOLEAN
    <3>1. "IMPLEMENTATION" \in States  BY DEF States
    <3>2. QED  BY <1>2, <3>1, GotoTypes DEF EnterImplementation
  <2>2. is \ commits \in SUBSET Issues /\ batch' \subseteq Issues
    BY <1>2 DEF TypeOK, EnterImplementation
  <2>3. wd' \in Steps /\ job' \in Jobs
    BY <1>2, <2>2, JobTypes DEF EnterImplementation, Steps
  <2>4. objected' \in BOOLEAN /\ left' \in Int
    <3>1. objected' = FALSE /\ left' = MaxCycles  BY Zenon DEF EnterImplementation
    <3>2. left' \in Int  BY <3>1, Limits
    <3>3. objected' \in BOOLEAN  BY <3>1
    <3>4. QED  BY <3>2, <3>3
  <2>5. QED  BY <1>1, <1>2, <2>1, <2>2, <2>3, <2>4 DEF TypeOK
<1>4. Numbers'
  BY <1>1, <1>2 DEF Numbers, EnterImplementation, Goto, Continue, TypeOK
<1>5. Clean'  BY <1>1, <1>2 DEF Clean, EnterImplementation, Goto
<1>6. Committed'
  BY <1>1, <1>2 DEF Committed, EnterImplementation, Goto, CommittedStates,
     PhaseStates, StateOf, Modes
<1>7. OneByOne'
  BY <1>1, <1>2 DEF OneByOne, ToStart, EnterImplementation, Goto, Continue
<1>8. Consenting'  BY <1>1, <1>2 DEF Consenting
<1>9. Once'
  BY <1>1, <1>2 DEF Once, Pushing, Past, EnterImplementation, Continue
<1>10. QED
  BY <1>3, <1>4, <1>5, <1>6, <1>7, <1>8, <1>9 DEF DevInv

LEMMA Cleans ==
  ASSUME DevInv, Cleanup, TypeOK',
         UNCHANGED <<from, replied, tickVars, histVars, envVars>>, own' \in {own, NoCmd},
         (wd # "idle" \/ state \notin {"ASSESSMENT", "DONE"}) => "reset" \in allowed
  PROVE  DevInv'
<1>1. UNCHANGED <<from, replied, wd, job, number, consented, pushed,
                 overtaken, resumes, crashes, allowed>>
  BY DEF tickVars, histVars, envVars
<1>2. TypeOK /\ Numbers /\ Clean /\ Committed /\ OneByOne /\ Consenting /\ Once
  BY DEF DevInv
<1>3. TypeOK'
  OBVIOUS
<1>4. Numbers'  BY <1>1, <1>2 DEF Numbers, Cleanup, TypeOK, NoCmd, Orphaned
<1>5. Clean'  BY <1>1, <1>2 DEF Clean, Cleanup
<1>6. Committed'  BY <1>1, <1>2 DEF Committed, Cleanup
<1>7. OneByOne'  BY <1>1, <1>2 DEF OneByOne, ToStart, Cleanup, NoAgent, Orphaned
<1>8. Consenting'  BY <1>1, <1>2 DEF Consenting, Cleanup
<1>9. Once'  BY <1>1, <1>2 DEF Once, Pushing, Past, Cleanup
<1>10. QED
  BY <1>3, <1>4, <1>5, <1>6, <1>7, <1>8, <1>9 DEF DevInv

LEMMA Due ==
  ASSUME DevInv, AgentDue
  PROVE  DevInv'
<1>1. UNCHANGED <<state, enabled, from, opts, batch, ready, risk,
                 commits, objected, left, report, failures, cc, stray, overdue,
                 roster, summary, approved, replied, dirty, own, number,
                 consented, pushed, overtaken, resumes, crashes, allowed>>
  BY DEF AgentDue, batchVars, reviewVars, gateVars, agentVars, mergeVars,
         histVars, envVars
<1>2. TypeOK /\ Numbers /\ Clean /\ Committed /\ OneByOne /\ Consenting /\ Once
  BY DEF DevInv
<1>3. Clean' /\ Committed' /\ Consenting'
  BY <1>1, <1>2 DEF Clean, Committed, Consenting
<1>4. TypeOK'
  <2>1. wd' \in Steps /\ job' \in Jobs
    BY <1>1, <1>2 DEF AgentDue, Continue, TypeOK, Steps, Jobs
  <2>2. QED  BY <1>1, <1>2, <2>1 DEF TypeOK
<1>5. Numbers'  BY <1>1, <1>2 DEF Numbers, AgentDue, Continue, TypeOK
<1>6. OneByOne'  BY <1>1, <1>2 DEF OneByOne, AgentDue, Continue
<1>7. Once'  BY <1>1, <1>2 DEF Once, Pushing, Past, AgentDue, Continue
<1>8. QED
  BY <1>3, <1>4, <1>5, <1>6, <1>7 DEF DevInv

LEMMA StartsAgent ==
  ASSUME DevInv, StartAgent
  PROVE  DevInv'
<1>1. UNCHANGED <<state, enabled, from, opts, batch, ready, risk,
                 commits, objected, left, report, failures, cc, stray, overdue,
                 roster, summary, approved, replied, dirty, job, own, number,
                 consented, pushed, overtaken, resumes, crashes, allowed>>
  BY DEF StartAgent, batchVars, reviewVars, gateVars, agentVars, mergeVars,
         histVars, envVars
<1>2. TypeOK /\ Numbers /\ Clean /\ Committed /\ OneByOne /\ Consenting /\ Once
  BY DEF DevInv
<1>3. Clean' /\ Committed' /\ Consenting'
  BY <1>1, <1>2 DEF Clean, Committed, Consenting
<1>4. TypeOK'
  <2>1. wd' \in Steps
    BY <1>1, <1>2 DEF StartAgent, Steps
  <2>2. QED  BY <1>1, <1>2, <2>1 DEF TypeOK
<1>5. Numbers'  BY <1>1, <1>2 DEF Numbers, StartAgent
<1>6. OneByOne'  BY <1>1, <1>2 DEF OneByOne, ToStart, StartAgent
<1>7. Once'  BY <1>1, <1>2 DEF Once, Pushing, Past, StartAgent
<1>8. QED
  BY <1>3, <1>4, <1>5, <1>6, <1>7 DEF DevInv

LEMMA NoneStarted ==
  ASSUME DevInv, NoStart
  PROVE  DevInv'
<1>1. UNCHANGED <<state, enabled, from, opts, batch, ready, risk,
                 commits, objected, left, report, failures, cc, stray, overdue,
                 roster, summary, approved, replied, dirty, own, number,
                 consented, pushed, overtaken, resumes, crashes, allowed>>
  BY DEF NoStart, batchVars, reviewVars, gateVars, agentVars, mergeVars,
         histVars, envVars
<1>2. TypeOK /\ Numbers /\ Clean /\ Committed /\ OneByOne /\ Consenting /\ Once
  BY DEF DevInv
<1>3. Clean' /\ Committed' /\ Consenting'
  BY <1>1, <1>2 DEF Clean, Committed, Consenting
<1>4. TypeOK'
  <2>1. wd' \in Steps /\ job' \in Jobs
    BY <1>1, <1>2 DEF NoStart, EndTick, Steps, Jobs, NoJob
  <2>2. QED  BY <1>1, <1>2, <2>1 DEF TypeOK
<1>5. Numbers'  BY <1>1, <1>2 DEF Numbers, NoStart, EndTick, NoJob, TypeOK
<1>6. OneByOne'  BY <1>1, <1>2 DEF OneByOne, ToStart, NoStart, EndTick, NoJob
<1>7. Once'  BY <1>1, <1>2 DEF Once, Pushing, Past, NoStart, EndTick
<1>8. QED
  BY <1>3, <1>4, <1>5, <1>6, <1>7 DEF DevInv

LEMMA Records ==
  ASSUME DevInv, RecordAgent
  PROVE  DevInv'
<1>1. UNCHANGED <<state, enabled, from, opts, batch, ready, risk,
                 commits, objected, left, report, failures, overdue, roster,
                 summary, approved, replied, dirty, own, number, consented,
                 pushed, resumes, crashes, allowed>>
  BY DEF RecordAgent, batchVars, reviewVars, gateVars, mergeVars, envVars
<1>2. TypeOK /\ Numbers /\ Clean /\ Committed /\ OneByOne /\ Consenting /\ Once
  BY DEF DevInv
<1>3. job.of \in Nat  BY <1>2 DEF TypeOK, Jobs
<1>4. ~overtaken' => ~overtaken /\ batch # {} /\ number = job.of
  BY <1>2, Zenon DEF RecordAgent, Outdated
<1>5. TypeOK'
  <2>1. /\ cc' \in Agents /\ stray' \subseteq Agents /\ wd' \in Steps
        /\ job' \in Jobs /\ overtaken' \in BOOLEAN
    BY <1>1, <1>2 DEF RecordAgent, EndTick, Orphaned, TypeOK, Steps, Jobs, NoJob, Agents
  <2>2. QED  BY <1>1, <1>2, <2>1 DEF TypeOK
<1>6. Numbers'
  BY <1>1, <1>2 DEF Numbers, RecordAgent, EndTick, Orphaned, NoJob, TypeOK
<1>7. Clean'  BY <1>1, <1>2, <1>3, <1>4 DEF Clean, RecordAgent, Numbers
<1>8. Committed'  BY <1>1, <1>2, <1>3, <1>4 DEF Committed
<1>9. OneByOne'
  BY <1>1, <1>2, <1>3, <1>4 DEF OneByOne, ToStart, RecordAgent, EndTick,
     Orphaned, NoJob
<1>10. Consenting'  BY <1>1, <1>2, <1>3, <1>4 DEF Consenting
<1>11. Once'
  BY <1>1, <1>2, <1>3, <1>4 DEF Once, Pushing, Past, RecordAgent, EndTick
<1>12. QED
  BY <1>5, <1>6, <1>7, <1>8, <1>9, <1>10, <1>11 DEF DevInv

LEMMA Commits ==
  ASSUME DevInv, NEW a \in Live, AgentCommits(a)
  PROVE  DevInv'
<1>1. UNCHANGED <<state, enabled, from, opts, batch, ready, risk,
                 objected, left, report, failures, overdue, roster, summary,
                 approved, replied, dirty, wd, job, own, number, consented,
                 pushed, overtaken, resumes, crashes, allowed>>
  BY DEF AgentCommits, reviewVars, gateVars, mergeVars, tickVars, histVars,
         envVars
<1>2. TypeOK /\ Numbers /\ Clean /\ Committed /\ OneByOne /\ Consenting /\ Once
  BY DEF DevInv
<1>3. Consenting' /\ Once'
  BY <1>1, <1>2 DEF Consenting, Once, Pushing, Past
<1>4. TypeOK'
  <2>1. cc' \in Agents /\ stray' \subseteq Agents  BY <1>2, EndTypes DEF AgentCommits
  <2>2. commits' \subseteq Issues  BY <1>2 DEF AgentCommits, TypeOK
  <2>3. QED  BY <1>1, <1>2, <2>1, <2>2 DEF TypeOK
<1>5. Numbers'  BY <1>1, <1>2 DEF Numbers, AgentCommits, Ends
<1>6. Clean'
  BY <1>1, <1>2 DEF Clean, AgentCommits, Ends, Live, Orphaned, Numbers, NoAgent
<1>7. Committed'  BY <1>1, <1>2 DEF Committed, AgentCommits
<1>8. OneByOne'
  BY <1>1, <1>2 DEF OneByOne, ToStart, AgentCommits, Ends, Live, Orphaned,
     TypeOK, Agents, NoAgent
<1>9. QED
  BY <1>3, <1>4, <1>5, <1>6, <1>7, <1>8 DEF DevInv

LEMMA GivesUp ==
  ASSUME DevInv, NEW a \in Live, AgentGivesUp(a)
  PROVE  DevInv'
<1>1. UNCHANGED <<opts, batch, ready, risk, commits, objected, left,
                 report, failures, roster, summary, approved, replied, dirty,
                 wd, job, own, number, consented, pushed, overtaken, resumes,
                 crashes, allowed>>
  BY DEF AgentGivesUp, batchVars, reviewVars, gateVars, mergeVars, tickVars,
         histVars, envVars
<1>2. TypeOK /\ Numbers /\ Clean /\ Committed /\ OneByOne /\ Consenting /\ Once
  BY DEF DevInv
<1>3. \/ batch = {} /\ UNCHANGED <<state, from>>
      \/ state' = "BLOCKED" /\ from' = state
  BY DEF AgentGivesUp, Goto
<1>4. TypeOK'
  <2>1. cc' \in Agents /\ stray' \subseteq Agents  BY <1>2, EndTypes DEF AgentGivesUp
  <2>2. /\ state' \in States /\ enabled' \in BOOLEAN /\ from' \in States
        /\ overdue' \in BOOLEAN
    <3>1. CASE batch = {}  BY <1>2, <3>1 DEF AgentGivesUp, TypeOK
    <3>2. CASE batch # {}
      BY <1>2, <3>2, GotoTypes DEF AgentGivesUp, States
    <3>3. QED  BY <3>1, <3>2
  <2>3. QED  BY <1>1, <1>2, <2>1, <2>2 DEF TypeOK
<1>5. Numbers'  BY <1>1, <1>2 DEF Numbers, AgentGivesUp, Ends, Goto
<1>6. Clean'
  BY <1>1, <1>2, <1>3 DEF Clean, AgentGivesUp, Ends, Live, Orphaned, Numbers,
     NoAgent
<1>7. Committed'
  BY <1>1, <1>2, <1>3 DEF Committed, CommittedStates, PhaseStates, StateOf,
     Modes
<1>8. OneByOne'
  BY <1>1, <1>2, <1>3 DEF OneByOne, ToStart, AgentGivesUp, Ends, Live, Orphaned,
     TypeOK, Agents, NoAgent
<1>9. Consenting'  BY <1>1, <1>2, <1>3 DEF Consenting, AgentGivesUp, Numbers
<1>10. Once'  BY <1>1, <1>2, <1>3 DEF Once, Pushing, Past, AgentGivesUp, Numbers
<1>11. QED
  BY <1>4, <1>5, <1>6, <1>7, <1>8, <1>9, <1>10 DEF DevInv

LEMMA Dies ==
  ASSUME DevInv, NEW a \in Live, AgentDies(a)
  PROVE  DevInv'
<1>1. UNCHANGED <<state, enabled, from, opts, batch, ready, risk,
                 commits, objected, left, report, failures, overdue, roster,
                 summary, approved, replied, dirty, wd, job, own, number,
                 consented, pushed, overtaken, resumes, crashes, allowed>>
  BY DEF AgentDies, batchVars, reviewVars, gateVars, mergeVars, tickVars,
         histVars, envVars
<1>2. TypeOK /\ Numbers /\ Clean /\ Committed /\ OneByOne /\ Consenting /\ Once
  BY DEF DevInv
<1>3. Committed' /\ Consenting' /\ Once'
  BY <1>1, <1>2 DEF Committed, Consenting, Once, Pushing, Past
<1>4. TypeOK'
  <2>1. cc' \in Agents /\ stray' \subseteq Agents
    BY <1>1, <1>2 DEF AgentDies, Ends, TypeOK, Agents, NoAgent
  <2>2. QED  BY <1>1, <1>2, <2>1 DEF TypeOK
<1>5. Numbers'  BY <1>1, <1>2 DEF Numbers, AgentDies, Ends
<1>6. Clean'
  BY <1>1, <1>2 DEF Clean, AgentDies, Ends, Live, Orphaned, Numbers, NoAgent
<1>7. OneByOne'
  BY <1>1, <1>2 DEF OneByOne, ToStart, AgentDies, Ends, TypeOK, Agents, NoAgent
<1>8. QED
  BY <1>3, <1>4, <1>5, <1>6, <1>7 DEF DevInv

LEMMA HandCommits ==
  ASSUME DevInv, NEW i \in Issues, HandCommit(i)
  PROVE  DevInv'
<1>1. UNCHANGED <<state, enabled, from, opts, batch, ready, risk,
                 objected, left, report, failures, cc, stray, overdue, roster,
                 summary, approved, replied, dirty, wd, job, own, number,
                 consented, pushed, overtaken, resumes, crashes, allowed>>
  BY DEF HandCommit, reviewVars, gateVars, agentVars, mergeVars, tickVars,
         histVars, envVars
<1>2. TypeOK /\ Numbers /\ Clean /\ Committed /\ OneByOne /\ Consenting /\ Once
  BY DEF DevInv
<1>3. Numbers' /\ Clean' /\ Consenting' /\ Once'
  BY <1>1, <1>2 DEF Numbers, Clean, Consenting, Once, Pushing, Past
<1>4. TypeOK'
  <2>1. commits' \subseteq Issues
    BY <1>1, <1>2 DEF HandCommit, TypeOK
  <2>2. QED  BY <1>1, <1>2, <2>1 DEF TypeOK
<1>5. Committed'  BY <1>1, <1>2 DEF Committed, HandCommit
<1>6. OneByOne'  BY <1>1, <1>2 DEF OneByOne, ToStart, HandCommit
<1>7. QED
  BY <1>3, <1>4, <1>5, <1>6 DEF DevInv

(* The agent that implemented is forgotten when one that fixes is started.  *)
LEMMA Fixes ==
  ASSUME DevInv, TypeOK', Ticks, state \in {"CODE_TEST", "CODE_TEST_FIX"}, state' = "CODE_TEST_FIX",
         cc' = NoAgent, stray' = stray \cup Orphaned, from' = from,
         UNCHANGED <<batchVars, reviewVars, roster, mergeVars, tickVars, own, histVars,
                     envVars>>
  PROVE  DevInv'
<1>1. UNCHANGED <<from, opts, batch, ready, risk, commits, objected,
                 left, roster, summary, approved, replied, dirty, wd, job, own,
                 number, consented, pushed, overtaken, resumes, crashes,
                 allowed>>
  BY DEF batchVars, reviewVars, mergeVars, tickVars, histVars, envVars
<1>2. TypeOK /\ Numbers /\ Clean /\ Committed /\ OneByOne /\ Consenting /\ Once
  BY DEF DevInv
<1>3. TypeOK'
  OBVIOUS
<1>4. Numbers'  BY <1>1, <1>2 DEF Numbers, Orphaned
<1>5. Clean'  BY <1>1, <1>2 DEF Clean
<1>6. Committed'  BY <1>1, <1>2 DEF Committed, CommittedStates
<1>7. OneByOne'  BY <1>1, <1>2 DEF OneByOne, ToStart, NoAgent, Orphaned
<1>8. Consenting'  BY <1>1, <1>2 DEF Consenting
<1>9. Once'  BY <1>1, <1>2 DEF Once, Pushing, Past
<1>10. QED
  BY <1>3, <1>4, <1>5, <1>6, <1>7, <1>8, <1>9 DEF DevInv

LEMMA Summarizes ==
  ASSUME DevInv, SummaryDue
  PROVE  DevInv'
<1>1. UNCHANGED <<opts, batch, ready, risk, commits, objected, left,
                 report, failures, cc, stray, roster, summary, approved,
                 replied, dirty, own, number, consented, pushed, overtaken,
                 resumes, crashes, allowed>>
  BY DEF SummaryDue, batchVars, reviewVars, gateVars, agentVars, mergeVars,
         histVars, envVars
<1>2. TypeOK /\ Numbers /\ Clean /\ Committed /\ OneByOne /\ Consenting /\ Once
  BY DEF DevInv
<1>3. TypeOK'
  <2>1. /\ state' \in States /\ enabled' \in BOOLEAN /\ from' \in States
        /\ overdue' \in BOOLEAN /\ wd' \in Steps /\ job' \in Jobs
    BY <1>1, <1>2 DEF SummaryDue, Goto, Continue, TypeOK, States, Steps, Jobs
  <2>2. QED  BY <1>1, <1>2, <2>1 DEF TypeOK
<1>4. Numbers'  BY <1>1, <1>2 DEF Numbers, SummaryDue, Goto, Continue, TypeOK
<1>5. Clean'  BY <1>1, <1>2 DEF Clean, SummaryDue, Goto
<1>6. Committed'
  BY <1>1, <1>2 DEF Committed, SummaryDue, CommittedStates, PhaseStates,
     StateOf, Modes
<1>7. OneByOne'  BY <1>1, <1>2 DEF OneByOne, ToStart, SummaryDue, Continue
<1>8. Consenting'  BY <1>1, <1>2 DEF Consenting, SummaryDue
<1>9. Once'  BY <1>1, <1>2 DEF Once, Pushing, Past, SummaryDue, Continue
<1>10. QED
  BY <1>3, <1>4, <1>5, <1>6, <1>7, <1>8, <1>9 DEF DevInv

LEMMA Posts ==
  ASSUME DevInv, PostSummary
  PROVE  DevInv'
<1>1. UNCHANGED <<state, enabled, from, opts, batch, ready, risk,
                 commits, objected, left, report, failures, cc, stray, overdue,
                 roster, summary, approved, dirty, job, own, number, consented,
                 pushed, overtaken, resumes, crashes, allowed>>
  BY DEF PostSummary, batchVars, reviewVars, gateVars, agentVars, histVars,
         envVars
<1>2. TypeOK /\ Numbers /\ Clean /\ Committed /\ OneByOne /\ Consenting /\ Once
  BY DEF DevInv
<1>3. replied' \subseteq replied  BY DEF PostSummary
<1>4. Clean' /\ Committed'
  BY <1>1, <1>2 DEF Clean, Committed
<1>5. TypeOK'
  <2>1. replied' \subseteq Nat /\ wd' \in Steps
    BY <1>1, <1>2 DEF PostSummary, TypeOK, Steps
  <2>2. QED  BY <1>1, <1>2, <2>1 DEF TypeOK
<1>6. Numbers'  BY <1>1, <1>2 DEF Numbers, PostSummary
<1>7. OneByOne'  BY <1>1, <1>2, <1>3 DEF OneByOne, ToStart, PostSummary
<1>8. Consenting'
  BY <1>1, <1>2, <1>3 DEF Consenting
<1>9. Once'  BY <1>1, <1>2, <1>3 DEF Once, Pushing, Past, PostSummary
<1>10. QED
  BY <1>4, <1>5, <1>6, <1>7, <1>8, <1>9 DEF DevInv

LEMMA SavesId ==
  ASSUME DevInv, SaveSummaryId
  PROVE  DevInv'
<1>1. UNCHANGED <<state, enabled, from, opts, batch, ready, risk,
                 commits, objected, left, report, failures, cc, stray, overdue,
                 roster, approved, replied, dirty, own, number, consented,
                 pushed, resumes, crashes, allowed>>
  BY DEF SaveSummaryId, batchVars, reviewVars, gateVars, agentVars, envVars
<1>2. TypeOK /\ Numbers /\ Clean /\ Committed /\ OneByOne /\ Consenting /\ Once
  BY DEF DevInv
<1>3. job.of \in Nat  BY <1>2 DEF TypeOK, Jobs
<1>4. ~overtaken' => ~overtaken /\ batch # {} /\ number = job.of
  BY <1>2, Zenon DEF SaveSummaryId, Outdated
<1>5. TypeOK'
  <2>1. /\ summary' \in Nat /\ wd' \in Steps /\ job' \in Jobs
        /\ overtaken' \in BOOLEAN
    BY <1>1, <1>2 DEF SaveSummaryId, EndTick, TypeOK, Steps, Jobs, NoJob
  <2>2. QED  BY <1>1, <1>2, <2>1 DEF TypeOK
<1>6. Numbers'  BY <1>1, <1>2 DEF Numbers, SaveSummaryId, EndTick, NoJob, TypeOK
<1>7. Clean'  BY <1>1, <1>2, <1>3, <1>4 DEF Clean, SaveSummaryId, Numbers
<1>8. Committed'  BY <1>1, <1>2, <1>3, <1>4 DEF Committed
<1>9. OneByOne'
  BY <1>1, <1>2, <1>3, <1>4 DEF OneByOne, ToStart, SaveSummaryId, EndTick, NoJob
<1>10. Consenting'  BY <1>1, <1>2, <1>3, <1>4 DEF Consenting, SaveSummaryId
<1>11. Once'
  BY <1>1, <1>2, <1>3, <1>4 DEF Once, Pushing, Past, SaveSummaryId, EndTick
<1>12. QED
  BY <1>5, <1>6, <1>7, <1>8, <1>9, <1>10, <1>11 DEF DevInv

LEMMA RollsBack ==
  ASSUME DevInv, Rollback
  PROVE  DevInv'
<1>1. UNCHANGED <<enabled, from, opts, batch, ready, risk, commits,
                 objected, left, report, failures, cc, stray, roster, summary,
                 approved, replied, dirty, own, number, consented, pushed,
                 resumes, crashes, allowed>>
  BY DEF Rollback, batchVars, reviewVars, gateVars, agentVars, mergeVars,
         envVars
<1>2. TypeOK /\ Numbers /\ Clean /\ Committed /\ OneByOne /\ Consenting /\ Once
  BY DEF DevInv
<1>3. job.of \in Nat  BY <1>2 DEF TypeOK, Jobs
<1>4. ~overtaken' => ~overtaken /\ batch # {} /\ number = job.of /\ state = "MERGE_SUMMARY_SENT" 
  BY <1>2, Zenon DEF Rollback, Outdated
<1>5. TypeOK'
  <2>1. /\ state' \in States /\ overdue' \in BOOLEAN /\ wd' \in Steps
        /\ job' \in Jobs /\ overtaken' \in BOOLEAN
    BY <1>1, <1>2 DEF Rollback, EndTick, States, PhaseStates, StateOf, Modes, Steps, Jobs,
       NoJob
  <2>2. QED  BY <1>1, <1>2, <2>1 DEF TypeOK
<1>6. Numbers'  BY <1>1, <1>2 DEF Numbers, Rollback, EndTick, NoJob, TypeOK
<1>7. Clean'  BY <1>1, <1>2, <1>3, <1>4 DEF Clean, Rollback
<1>8. Committed'  BY <1>1, <1>2, <1>3, <1>4 DEF Committed, CommittedStates
<1>9. OneByOne'
  BY <1>1, <1>2, <1>3, <1>4 DEF OneByOne, ToStart, Rollback, EndTick, NoJob
<1>10. Consenting'  BY <1>1, <1>2, <1>3, <1>4 DEF Consenting
<1>11. Once'
  BY <1>1, <1>2, <1>3, <1>4 DEF Once, Pushing, Past, Rollback, EndTick
<1>12. QED
  BY <1>5, <1>6, <1>7, <1>8, <1>9, <1>10, <1>11 DEF DevInv

LEMMA Merges ==
  ASSUME DevInv, Merge
  PROVE  DevInv'
<1>1. UNCHANGED <<opts, batch, ready, risk, commits, objected, left,
                 report, failures, cc, stray, roster, summary, approved,
                 replied, dirty, own, number, consented, pushed, overtaken,
                 resumes, crashes, allowed>>
  BY DEF Merge, batchVars, reviewVars, gateVars, agentVars, mergeVars, histVars,
         envVars
<1>2. TypeOK /\ Numbers /\ Clean /\ Committed /\ OneByOne /\ Consenting /\ Once
  BY DEF DevInv
<1>3. TypeOK'
  <2>1. /\ state' \in States /\ enabled' \in BOOLEAN /\ from' \in States
        /\ overdue' \in BOOLEAN /\ wd' \in Steps /\ job' \in Jobs
    BY <1>1, <1>2 DEF Merge, Goto, Continue, TypeOK, States, Steps, Jobs
  <2>2. QED  BY <1>1, <1>2, <2>1 DEF TypeOK
<1>4. Numbers'  BY <1>1, <1>2 DEF Numbers, Merge, Goto, Continue, TypeOK
<1>5. Clean'  BY <1>1, <1>2 DEF Clean, Merge, Goto
<1>6. Committed'  BY <1>1, <1>2 DEF Committed, Merge, CommittedStates
<1>7. OneByOne'  BY <1>1, <1>2 DEF OneByOne, ToStart, Merge, Continue
<1>8. Consenting'  BY <1>1, <1>2 DEF Consenting, Merge
<1>9. Once'  BY <1>1, <1>2 DEF Once, Past, Merge, Goto
<1>10. QED
  BY <1>3, <1>4, <1>5, <1>6, <1>7, <1>8, <1>9 DEF DevInv

LEMMA Blocks ==
  ASSUME DevInv, DirtyBlock
  PROVE  DevInv'
<1>1. UNCHANGED <<opts, batch, ready, risk, commits, objected, left,
                 report, failures, cc, stray, roster, summary, approved,
                 replied, own, number, consented, pushed, overtaken, resumes,
                 crashes, allowed>>
  BY DEF DirtyBlock, batchVars, reviewVars, gateVars, agentVars, histVars,
         envVars
<1>2. TypeOK /\ Numbers /\ Clean /\ Committed /\ OneByOne /\ Consenting /\ Once
  BY DEF DevInv
<1>3. TypeOK'
  <2>1. /\ state' \in States /\ enabled' \in BOOLEAN /\ from' \in States
        /\ overdue' \in BOOLEAN /\ dirty' \in {"clean", "dirty", "late"}
        /\ wd' \in Steps /\ job' \in Jobs
    BY <1>1, <1>2 DEF DirtyBlock, Goto, Continue, TypeOK, States, Steps, Jobs
  <2>2. QED  BY <1>1, <1>2, <2>1 DEF TypeOK
<1>4. Numbers'  BY <1>1, <1>2 DEF Numbers, DirtyBlock, Goto, Continue, TypeOK
<1>5. Clean'  BY <1>1, <1>2 DEF Clean, DirtyBlock, Goto
<1>6. Committed'  BY <1>1, <1>2 DEF Committed, DirtyBlock, CommittedStates
<1>7. OneByOne'  BY <1>1, <1>2 DEF OneByOne, ToStart, DirtyBlock, Continue
<1>8. Consenting'  BY <1>1, <1>2 DEF Consenting, DirtyBlock
<1>9. Once'  BY <1>1, <1>2 DEF Once, Past, DirtyBlock, Goto
<1>10. QED
  BY <1>3, <1>4, <1>5, <1>6, <1>7, <1>8, <1>9 DEF DevInv

LEMMA Pushes ==
  ASSUME DevInv, Push
  PROVE  DevInv'
<1>1. UNCHANGED <<state, enabled, from, opts, batch, ready, risk,
                 commits, objected, left, report, failures, cc, stray, overdue,
                 roster, summary, approved, replied, dirty, own, number,
                 consented, resumes, crashes, allowed>>
  BY DEF Push, batchVars, reviewVars, gateVars, agentVars, mergeVars, envVars
<1>2. TypeOK /\ Numbers /\ Clean /\ Committed /\ OneByOne /\ Consenting /\ Once
  BY DEF DevInv
<1>3. job.of \in Nat  BY <1>2 DEF TypeOK, Jobs
<1>4. ~overtaken' => ~overtaken /\ batch # {} /\ number = job.of
  BY <1>2, Zenon DEF Push, Outdated
<1>5. wd = "push" /\ wd' = "idle"  BY DEF Push, EndTick
<1>6. TypeOK'
  <2>1. /\ wd' \in Steps /\ job' \in Jobs /\ pushed' \in Seq(Nat)
        /\ overtaken' \in BOOLEAN
    BY <1>1, <1>2 DEF Push, EndTick, TypeOK, Steps, Jobs, NoJob
  <2>2. QED  BY <1>1, <1>2, <2>1 DEF TypeOK
<1>7. Numbers'  BY <1>1, <1>2 DEF Numbers, Push, EndTick, NoJob, TypeOK
<1>8. Clean'  BY <1>1, <1>2, <1>3, <1>4, <1>5 DEF Clean
<1>9. Committed'  BY <1>1, <1>2, <1>3, <1>4, <1>5 DEF Committed
<1>10. OneByOne'
  BY <1>1, <1>2, <1>3, <1>4, <1>5 DEF OneByOne, ToStart, Push, EndTick, NoJob
<1>11. Consenting'  BY <1>1, <1>2, <1>3, <1>4, <1>5 DEF Consenting
<1>12. Once'
  <2>1. CASE pushed' = pushed
    BY <1>1, <1>2, <1>4, <1>5, <2>1 DEF Once, Pushing, Past
  <2>2. CASE pushed' = Append(pushed, job.of)
    <3>1. /\ DOMAIN pushed' = DOMAIN pushed \cup {Len(pushed) + 1}
          /\ pushed'[Len(pushed) + 1] = job.of
          /\ \A i \in DOMAIN pushed : pushed'[i] = pushed[i] /\ i # Len(pushed) + 1
      BY <1>2, <1>3, <2>2 DEF TypeOK
    <3>2. QED
      BY <1>1, <1>2, <1>3, <1>4, <1>5, <3>1 DEF Once, Pushing, Past, Push
  <2>3. QED  BY <2>1, <2>2 DEF Push
<1>13. QED
  BY <1>6, <1>7, <1>8, <1>9, <1>10, <1>11, <1>12 DEF DevInv

LEMMA Crashes ==
  ASSUME DevInv, Crash
  PROVE  DevInv'
<1>1. UNCHANGED <<state, enabled, from, opts, batch, ready, risk,
                 commits, objected, left, report, failures, cc, overdue, roster,
                 summary, approved, replied, dirty, own, number, consented,
                 pushed, overtaken, resumes, allowed>>
  BY DEF Crash, batchVars, reviewVars, gateVars, mergeVars, histVars
<1>2. TypeOK /\ Numbers /\ Clean /\ Committed /\ OneByOne /\ Consenting /\ Once
  BY DEF DevInv
<1>3. Clean' /\ Committed' /\ Consenting'
  BY <1>1, <1>2 DEF Clean, Committed, Consenting
<1>4. TypeOK'
  <2>1. /\ stray' \subseteq Agents /\ wd' \in Steps /\ job' \in Jobs
        /\ crashes' \in Nat
    BY <1>1, <1>2 DEF Crash, EndTick, TypeOK, Steps, Jobs, NoJob, Agents
  <2>2. QED  BY <1>1, <1>2, <2>1 DEF TypeOK
<1>5. Numbers'  BY <1>1, <1>2 DEF Numbers, Crash, EndTick, NoJob, TypeOK
<1>6. OneByOne'  BY <1>1, <1>2 DEF OneByOne, Crash
<1>7. Once'  BY <1>1, <1>2 DEF Once, Pushing, Past, Crash, EndTick
<1>8. QED
  BY <1>3, <1>4, <1>5, <1>6, <1>7 DEF DevInv

LEMMA Oks ==
  ASSUME DevInv, Ok
  PROVE  DevInv'
<1>1. UNCHANGED <<state, enabled, from, opts, batch, ready, risk,
                 commits, objected, left, report, failures, cc, stray, overdue,
                 roster, summary, replied, dirty, wd, job, own, number, pushed,
                 overtaken, resumes, crashes, allowed>>
  BY DEF Ok, batchVars, reviewVars, gateVars, agentVars, tickVars, envVars
<1>2. TypeOK /\ Numbers /\ Clean /\ Committed /\ OneByOne /\ Consenting /\ Once
  BY DEF DevInv
<1>3. Numbers' /\ Committed' /\ OneByOne' /\ Once'
  BY <1>1, <1>2 DEF Numbers, Committed, OneByOne, ToStart, Once, Pushing, Past
<1>4. TypeOK'
  <2>1. approved' \in BOOLEAN /\ consented' \in BOOLEAN
    BY <1>1, <1>2 DEF Ok
  <2>2. QED  BY <1>1, <1>2, <2>1 DEF TypeOK
<1>5. Clean'  BY <1>1, <1>2 DEF Clean, Ok
<1>6. Consenting'  BY <1>1, <1>2 DEF Consenting, Ok
<1>7. QED
  BY <1>3, <1>4, <1>5, <1>6 DEF DevInv

LEMMA Replies ==
  ASSUME DevInv, Reply
  PROVE  DevInv'
<1>1. UNCHANGED <<state, enabled, from, opts, batch, ready, risk,
                 commits, objected, left, report, failures, cc, stray, overdue,
                 roster, summary, approved, dirty, wd, job, own, number, pushed,
                 overtaken, resumes, crashes, allowed>>
  BY DEF Reply, batchVars, reviewVars, gateVars, agentVars, tickVars, envVars
<1>2. TypeOK /\ Numbers /\ Clean /\ Committed /\ OneByOne /\ Consenting /\ Once
  BY DEF DevInv
<1>3. replied' = replied \cup {summary} /\ summary # 0  BY DEF Reply
<1>4. consented' <=> (consented \/ summary = number)  BY <1>2, Zenon DEF Reply, TypeOK
<1>5. number \in Nat  BY <1>2 DEF TypeOK
<1>6. Numbers' /\ Clean' /\ Committed' /\ OneByOne' /\ Once'
  BY <1>1, <1>2 DEF Numbers, Clean, Committed, OneByOne, ToStart, Once, Pushing, Past
<1>7. TypeOK'
  <2>1. replied' \subseteq Nat /\ consented' \in BOOLEAN
    BY <1>1, <1>2 DEF Reply, TypeOK
  <2>2. QED  BY <1>1, <1>2, <2>1 DEF TypeOK
<1>8. Consenting'
  BY <1>1, <1>2, <1>3, <1>4, <1>5 DEF Consenting
<1>9. QED
  BY <1>6, <1>7, <1>8 DEF DevInv

LEMMA ReadsSummary ==
  ASSUME DevInv, SummaryRead
  PROVE  DevInv'
<1>1. UNCHANGED <<state, enabled, from, opts, batch, ready, risk,
                 commits, objected, left, report, failures, cc, stray, overdue,
                 roster, summary, approved, replied, dirty, wd, job, number,
                 consented, pushed, overtaken, resumes, crashes, allowed>>
  BY DEF SummaryRead, batchVars, reviewVars, gateVars, agentVars, mergeVars,
         tickVars, histVars, envVars
<1>2. TypeOK /\ Numbers /\ Clean /\ Committed /\ OneByOne /\ Consenting /\ Once
  BY DEF DevInv
<1>3. Clean' /\ Committed' /\ OneByOne' /\ Consenting' /\ Once'
  BY <1>1, <1>2 DEF Clean, Committed, OneByOne, ToStart, Consenting, Once, Pushing, Past
<1>4. TypeOK'
  <2>1. own' \in Cmds
    BY <1>1, <1>2 DEF SummaryRead, TypeOK, Cmds
  <2>2. QED  BY <1>1, <1>2, <2>1 DEF TypeOK
<1>5. Numbers'  BY <1>1, <1>2 DEF Numbers, SummaryRead, TypeOK
<1>6. QED
  BY <1>3, <1>4, <1>5 DEF DevInv

LEMMA WritesSummary ==
  ASSUME DevInv, SummaryWrite
  PROVE  DevInv'
<1>1. UNCHANGED <<enabled, from, opts, batch, ready, risk, commits,
                 objected, left, report, failures, cc, stray, roster, approved,
                 dirty, wd, job, number, consented, pushed, resumes, crashes,
                 allowed>>
  BY DEF SummaryWrite, batchVars, reviewVars, gateVars, agentVars, tickVars,
         envVars
<1>2. TypeOK /\ Numbers /\ Clean /\ Committed /\ OneByOne /\ Consenting /\ Once
  BY DEF DevInv
<1>3. own.of \in Nat  BY <1>2 DEF TypeOK, Cmds, NoCmd, SummaryWrite
<1>4. ~overtaken' => ~overtaken /\ batch # {} /\ number = own.of /\ state = "CODE_APPROVED" 
  BY <1>2, Zenon DEF SummaryWrite, Outdated
<1>5. TypeOK'
  <2>1. state' \in States /\ overdue' \in BOOLEAN /\ own' \in Cmds
    BY DEF SummaryWrite, States, Cmds
  <2>2. summary' \in Nat /\ replied' \subseteq Nat
    BY <1>2, <1>3 DEF SummaryWrite, TypeOK
  <2>3. overtaken' \in BOOLEAN  BY <1>2, Zenon DEF SummaryWrite, TypeOK
  <2>4. QED  BY <1>1, <1>2, <2>1, <2>2, <2>3 DEF TypeOK
<1>6. Numbers'  BY <1>1, <1>2 DEF Numbers, SummaryWrite, NoCmd, TypeOK
<1>7. Clean'  BY <1>1, <1>2, <1>3, <1>4 DEF Clean, SummaryWrite
<1>8. Committed'
  BY <1>1, <1>2, <1>3, <1>4 DEF Committed, CommittedStates, PhaseStates,
     StateOf, Modes
<1>9. OneByOne'  BY <1>1, <1>2, <1>3, <1>4 DEF OneByOne, ToStart
<1>10. Consenting'  BY <1>1, <1>2, <1>3, <1>4 DEF Consenting, SummaryWrite
<1>11. Once'  BY <1>1, <1>2, <1>3, <1>4 DEF Once, Pushing, Past
<1>12. QED
  BY <1>5, <1>6, <1>7, <1>8, <1>9, <1>10, <1>11 DEF DevInv

LEMMA ReadsReset ==
  ASSUME DevInv, ResetRead
  PROVE  DevInv'
<1>1. UNCHANGED <<state, enabled, from, opts, batch, ready, risk,
                 commits, objected, left, report, failures, cc, stray, overdue,
                 roster, summary, approved, replied, dirty, wd, job, number,
                 consented, pushed, overtaken, resumes, crashes, allowed>>
  BY DEF ResetRead, batchVars, reviewVars, gateVars, agentVars, mergeVars,
         tickVars, histVars, envVars
<1>2. TypeOK /\ Numbers /\ Clean /\ Committed /\ OneByOne /\ Consenting /\ Once
  BY DEF DevInv
<1>3. Clean' /\ Committed' /\ OneByOne' /\ Consenting' /\ Once'
  BY <1>1, <1>2 DEF Clean, Committed, OneByOne, ToStart, Consenting, Once, Pushing, Past
<1>4. TypeOK'
  <2>1. own' \in Cmds
    BY <1>1, <1>2 DEF ResetRead, TypeOK, Cmds
  <2>2. QED  BY <1>1, <1>2, <2>1 DEF TypeOK
<1>5. Numbers'  BY <1>1, <1>2 DEF Numbers, ResetRead, TypeOK
<1>6. QED
  BY <1>3, <1>4, <1>5 DEF DevInv

LEMMA Resumes ==
  ASSUME DevInv, NEW p \in Phases, Resume(p)
  PROVE  DevInv'
<1>1. UNCHANGED <<opts, batch, ready, risk, commits, report,
                 failures, cc, stray, roster, summary, approved, replied, dirty,
                 wd, job, own, number, pushed, overtaken, crashes, allowed>>
  BY DEF Resume, batchVars, gateVars, agentVars, mergeVars, tickVars
<1>2. TypeOK /\ Numbers /\ Clean /\ Committed /\ OneByOne /\ Consenting /\ Once
  BY DEF DevInv
<1>3. TypeOK'
  <2>1. StateOf[p].REVISE \in States /\ "IDLE" \in States
    BY DEF States, PhaseStates, StateOf, Modes, Phases
  <2>2. left' \in Int /\ objected' \in BOOLEAN
    <3>1. CASE from \in PhaseStates(p)
      BY <1>2, <3>1, Limits DEF Resume, Ph!Reopen, TypeOK
    <3>2. CASE from \notin PhaseStates(p)
      BY <1>2, <3>2, Limits DEF Resume, TypeOK
    <3>3. QED  BY <3>1, <3>2
  <2>3. /\ state' \in States /\ enabled' \in BOOLEAN /\ from' \in States
        /\ overdue' \in BOOLEAN /\ consented' \in BOOLEAN
    <3>1. /\ state' = StateOf[p].REVISE /\ overdue' = FALSE /\ from' = "IDLE"
          /\ enabled' = TRUE /\ consented' = FALSE
      BY Zenon DEF Resume
    <3>2. QED  BY <2>1, <3>1
  <2>4. resumes' \in Nat
    <3>1. resumes' = resumes + 1  BY Zenon DEF Resume
    <3>2. QED  BY <1>2, <3>1 DEF TypeOK
  <2>5. QED  BY <1>1, <1>2, <2>1, <2>2, <2>3, <2>4 DEF TypeOK
<1>4. Numbers'  BY <1>1, <1>2 DEF Numbers, Resume, Phases, StateOf
<1>5. Clean'  BY <1>1, <1>2 DEF Clean, Resume, Phases, StateOf
<1>6. Committed'
  BY <1>1, <1>2 DEF Committed, Resume, StateOf, CommittedStates, PhaseStates,
     Modes, CodeBlockedFrom
<1>7. OneByOne'
  BY <1>1, <1>2 DEF OneByOne, ToStart, Resume, StateOf, PhaseStates, Modes,
     CodeBlockedFrom
<1>8. Consenting'  BY <1>1, <1>2 DEF Consenting, Resume, Answered
<1>9. Once'
  BY <1>1, <1>2 DEF Once, Pushing, Past, Resume, StateOf, PhaseStates, Modes,
     CodeBlockedFrom
<1>10. QED
  BY <1>3, <1>4, <1>5, <1>6, <1>7, <1>8, <1>9 DEF DevInv

-----------------------------------------------------------------------------
(* Every step of Next *)

(* From one state to the next of the same batch. *)
LEMMA Turns ==
  ASSUME DevInv, NEW s \in States, s \notin {"IDLE", "INITIALIZE"}, Goto(s),
         state \notin {"IDLE", "DONE", "MERGE_SUMMARY_SENT", "BLOCKED"},
         state = "IMPLEMENTATION" /\ s # "BLOCKED" => batch \subseteq commits,
         state = "IMPLEMENTATION" => wd = "idle",
         s \in CommittedStates => state \in CommittedStates \/ batch \subseteq commits,
         objected' \in BOOLEAN, left' \in Int,
         report' \in {"none", "pass", "fail"}, failures' \in Nat,
         UNCHANGED <<batchVars, agentVars, roster, mergeVars, tickVars, own, histVars,
                     envVars>>
  PROVE  DevInv'
<1>1. UNCHANGED <<opts, batch, ready, risk, commits, cc, stray, roster, summary,
                  approved, replied, dirty, wd, job, own, number, consented, pushed,
                  overtaken, resumes, crashes, allowed>>
  BY DEF batchVars, agentVars, mergeVars, tickVars, histVars, envVars
<1>2. TypeOK  BY DEF DevInv
<1>3. /\ state' \in States /\ from' \in States
      /\ enabled' \in BOOLEAN /\ overdue' \in BOOLEAN
  BY <1>2, GotoTypes
<1>4. TypeOK'  BY <1>1, <1>2, <1>3 DEF TypeOK
<1>5. state' = s /\ from' = IF state' = "BLOCKED" THEN state ELSE from  BY DEF Goto
<1>6. QED  BY <1>1, <1>4, <1>5, Moves DEF agentVars, tickVars, histVars

LEMMA CleanTypes ==
  ASSUME TypeOK, Cleanup, own' \in {own, NoCmd},
         UNCHANGED <<from, replied, tickVars, histVars, envVars>>
  PROVE  TypeOK'
<1>1. UNCHANGED <<from, replied, wd, job, number, consented, pushed, overtaken, resumes,
                  crashes, allowed>>
  BY DEF tickVars, histVars, envVars
<1>2. /\ state' \in States /\ enabled' \in BOOLEAN /\ overdue' \in BOOLEAN
      /\ batch' \subseteq Issues /\ ready' \subseteq Issues /\ commits' \subseteq Issues
      /\ objected' \in BOOLEAN /\ report' \in {"none", "pass", "fail"}
      /\ failures' \in Nat /\ roster' \in Nat /\ summary' \in Nat /\ approved' \in BOOLEAN
  BY DEF Cleanup, States
<1>3. opts' \in OptionRecords /\ risk' \in [Issues -> {"unset", "none", "low", "high"}]
  BY DEF Cleanup, OptionRecords, NoOpts, Excluding, NoRisk
<1>4. left' \in Int
  <2>1. left' = MaxCycles  BY DEF Cleanup
  <2>2. QED  BY <2>1, Limits
<1>5. cc' \in Agents /\ stray' \subseteq Agents
  BY DEF Cleanup, Agents, Orphaned, TypeOK
<1>6. dirty' \in {"clean", "dirty", "late"}  BY DEF Cleanup, TypeOK
<1>7. own' \in Cmds  BY DEF TypeOK, Cmds
<1>8. QED  BY <1>1, <1>2, <1>3, <1>4, <1>5, <1>6, <1>7 DEF TypeOK

(* The reviewers' phases: what they know of the batch does not change. *)
LEMMA ReviewSteps ==
  /\ \A p \in Phases : DevInv /\ ReviewDecides(p) => DevInv'
  /\ DevInv /\ DesignRevised => DevInv'
  /\ DevInv /\ CodeRevised => DevInv'
<1>1. ASSUME DevInv, NEW p \in Phases, ReviewDecides(p)  PROVE DevInv'
  <2>1. TypeOK  BY <1>1 DEF DevInv
  <2>2. PICK s \in PhaseStates(p) \cup {"BLOCKED"} : Goto(s)  BY <1>1 DEF ReviewDecides
  <2>3. state \in PhaseStates(p)  BY <1>1 DEF ReviewDecides
  <2>4. objected' \in BOOLEAN /\ left' \in Int
    <3>1. CASE UNCHANGED <<objected, left>>  BY <2>1, <3>1 DEF TypeOK
    <3>2. CASE left' = left - 1 /\ UNCHANGED objected  BY <2>1, <3>2 DEF TypeOK
    <3>3. CASE objected' \in {objected, FALSE} /\ UNCHANGED left
      BY <2>1, <3>3 DEF TypeOK
    <3>4. QED
      BY <1>1, <3>1, <3>2, <3>3
      DEF ReviewDecides, Ph!Decide, Ph!EnterNpass, Ph!Approve, Ph!AskRevision, Ph!GiveUp
  <2>5. UNCHANGED <<report, failures>>  BY <1>1 DEF ReviewDecides, gateVars
  <2>6. report' \in {"none", "pass", "fail"} /\ failures' \in Nat
    BY <2>1, <2>5 DEF TypeOK
  <2>7. /\ s \in States /\ s \notin {"IDLE", "INITIALIZE"}
        /\ state \notin {"IDLE", "DONE", "MERGE_SUMMARY_SENT", "BLOCKED", "IMPLEMENTATION"}
        /\ s \in CommittedStates => state \in CommittedStates
    BY <2>3, ReviewStates DEF Phases, States, CommittedStates
  <2>8. QED  BY <1>1, <2>2, <2>4, <2>6, <2>7, Turns DEF ReviewDecides
<1>2. ASSUME DevInv, DesignRevised  PROVE DevInv'
  <2>1. TypeOK  BY <1>2 DEF DevInv
  <2>2. objected' \in BOOLEAN /\ left' \in Int
    BY <1>2, <2>1 DEF DesignRevised, Ph!Resubmit, TypeOK
  <2>3. UNCHANGED <<report, failures>>  BY <1>2 DEF DesignRevised, gateVars
  <2>4. report' \in {"none", "pass", "fail"} /\ failures' \in Nat
    BY <2>1, <2>3 DEF TypeOK
  <2>5. "DESIGN_REVIEW" \in States /\ "DESIGN_REVIEW" \notin CommittedStates
    BY ReviewStates DEF States, CommittedStates
  <2>6. QED  BY <1>2, <2>2, <2>4, <2>5, Turns DEF DesignRevised
<1>3. ASSUME DevInv, CodeRevised  PROVE DevInv'
  <2>1. TypeOK  BY <1>3 DEF DevInv
  <2>2. objected' = FALSE /\ left' = left  BY <1>3 DEF CodeRevised
  <2>3. objected' \in BOOLEAN /\ left' \in Int  BY <2>1, <2>2 DEF TypeOK
  <2>4. PICK s \in {"CODE_TEST", "CODE_REVIEW"} : Goto(s)
    BY <1>3 DEF CodeRevised, ToReview
  <2>5. report' \in {"none", "pass", "fail"} /\ failures' \in Nat
    BY <1>3, <2>1 DEF CodeRevised, ToReview, TestGate!Test, gateVars, TypeOK
  <2>6. s \in States /\ state = "CODE_REVISE" /\ state \in CommittedStates
    BY <1>3, ReviewStates DEF CodeRevised, States, CommittedStates
  <2>7. QED  BY <1>3, <2>3, <2>4, <2>5, <2>6, Turns DEF CodeRevised
<1>4. QED  BY <1>1, <1>2, <1>3

LEMMA TestSteps == DevInv /\ TestDecides => DevInv'
<1> SUFFICES ASSUME DevInv, TestDecides  PROVE DevInv'  OBVIOUS
<1>1. TypeOK /\ Numbers  BY DEF DevInv
<1>2. PICK s \in {"CODE_TEST", "CODE_TEST_FIX", "CODE_REVIEW", "BLOCKED"} : Goto(s)
  BY DEF TestDecides
<1>3. state' = s /\ state \in {"CODE_TEST", "CODE_TEST_FIX"} /\ Ticks
  BY <1>2 DEF TestDecides, Goto
<1>4. report' \in {"none", "pass", "fail"} /\ failures' \in Nat
  BY <1>1
  DEF TestDecides, TestGate!Test, TestGate!Pass, TestGate!Fix, TestGate!GiveUp, TypeOK
<1>5. objected' = objected /\ left' = left  BY DEF TestDecides, reviewVars
<1>6. objected' \in BOOLEAN /\ left' \in Int  BY <1>1, <1>5 DEF TypeOK
<1>7. s \in States /\ state \in CommittedStates
  BY <1>3, ReviewStates DEF States, CommittedStates
<1>8. CASE s = "CODE_TEST_FIX"
  <2>1. cc' = NoAgent /\ stray' = stray \cup Orphaned
    BY <1>3, <1>8 DEF TestDecides
  <2>2. UNCHANGED <<opts, batch, ready, risk, commits, roster, summary, approved,
                    replied, dirty, wd, job, own, number, consented, pushed, overtaken,
                    resumes, crashes, allowed>>
    BY DEF TestDecides, batchVars, mergeVars, tickVars, histVars, envVars
  <2>3. /\ state' \in States /\ from' \in States
        /\ enabled' \in BOOLEAN /\ overdue' \in BOOLEAN
    BY <1>1, <1>2, <1>7, GotoTypes
  <2>4. cc' \in Agents /\ stray' \subseteq Agents
    BY <1>1, <2>1 DEF TypeOK, Agents, Orphaned
  <2>5. TypeOK'  BY <1>1, <1>4, <1>6, <2>2, <2>3, <2>4 DEF TypeOK
  <2>6. from' = from  BY <1>2, <1>8 DEF Goto
  <2>7. QED  BY <1>3, <1>8, <2>1, <2>5, <2>6, Fixes DEF TestDecides
<1>9. CASE s # "CODE_TEST_FIX"
  <2>1. UNCHANGED agentVars  BY <1>3, <1>9 DEF TestDecides
  <2>2. QED  BY <1>2, <1>3, <1>4, <1>6, <1>7, <2>1, Turns DEF TestDecides
<1>10. QED  BY <1>8, <1>9

(* Start and design *)
LEMMA DesignSteps ==
  /\ DevInv /\ ClosedGuard => DevInv'
  /\ DevInv /\ DesignPlanned => DevInv'
  /\ DevInv /\ DesignApproved => DevInv'
  /\ DevInv /\ Assessed => DevInv'
  /\ DevInv /\ AllTooRisky => DevInv'
  /\ DevInv /\ DesignTimeout => DevInv'
<1>1. ASSUME DevInv, UNCHANGED <<reviewVars, gateVars>>
      PROVE  /\ objected' \in BOOLEAN /\ left' \in Int
             /\ report' \in {"none", "pass", "fail"} /\ failures' \in Nat
  BY <1>1 DEF DevInv, TypeOK, reviewVars, gateVars
<1>2. "BLOCKED" \in States /\ "BLOCKED" \notin CommittedStates
  BY ReviewStates DEF States, CommittedStates
<1>3. ASSUME DevInv, ClosedGuard  PROVE DevInv'
  <2>1. state = "INITIALIZE"  BY <1>3 DEF ClosedGuard
  <2>2. QED  BY <1>1, <1>2, <1>3, <2>1, Turns DEF ClosedGuard
<1>4. ASSUME DevInv, DesignPlanned  PROVE DevInv'
  <2>1. "DESIGN_REVIEW" \in States /\ "DESIGN_REVIEW" \notin CommittedStates
    BY ReviewStates DEF States, CommittedStates
  <2>2. objected' \in BOOLEAN /\ left' \in Int
    <3>1. objected' = FALSE /\ left' = MaxCycles  BY <1>4 DEF DesignPlanned
    <3>2. left' \in Int  BY <3>1, Limits
    <3>3. objected' \in BOOLEAN  BY <3>1
    <3>4. QED  BY <3>2, <3>3
  <2>3. report' \in {"none", "pass", "fail"} /\ failures' \in Nat
    BY <1>4 DEF DevInv, TypeOK, DesignPlanned, gateVars
  <2>4. QED  BY <1>4, <2>1, <2>2, <2>3, Turns DEF DesignPlanned
<1>5. ASSUME DevInv, DesignApproved  PROVE DevInv'
  <2>1. state = "DESIGN_APPROVED" /\ Ticks  BY <1>5 DEF DesignApproved
  <2>2. CASE opts.skipAssess
    <3>1. EnterImplementation(batch)  BY <1>5, <2>2 DEF DesignApproved
    <3>2. QED  BY <1>5, <2>1, <3>1, Implements
  <2>3. CASE ~opts.skipAssess
    <3>1. "ASSESSMENT" \in States /\ "ASSESSMENT" \notin CommittedStates
      BY ReviewStates DEF States, CommittedStates
    <3>2. QED  BY <1>1, <1>5, <2>1, <2>3, <3>1, Turns DEF DesignApproved
  <2>4. QED  BY <2>2, <2>3
<1>6. ASSUME DevInv, Assessed  PROVE DevInv'
  <2>1. PICK is \in SUBSET batch : EnterImplementation(is)  BY <1>6 DEF Assessed
  <2>2. QED  BY <1>6, <2>1, Implements DEF Assessed
<1>7. ASSUME DevInv, AllTooRisky  PROVE DevInv'
  <2>1. state = "ASSESSMENT" /\ wd = "idle" /\ Cleanup  BY <1>7 DEF AllTooRisky, Ticks
  <2>2. UNCHANGED <<from, replied, tickVars, own, histVars, envVars>>
    BY <1>7 DEF AllTooRisky
  <2>3. TypeOK'  BY <1>7, <2>1, <2>2, CleanTypes DEF DevInv
  <2>4. QED  BY <1>7, <2>1, <2>2, <2>3, Cleans
<1>8. ASSUME DevInv, DesignTimeout  PROVE DevInv'
  <2>1. state \in {"DESIGN_PLAN", "ASSESSMENT"}  BY <1>8 DEF DesignTimeout
  <2>2. QED  BY <1>1, <1>2, <1>8, <2>1, Turns DEF DesignTimeout
<1>9. QED  BY <1>3, <1>4, <1>5, <1>6, <1>7, <1>8

LEMMA TickSteps == DevInv /\ Watchdog => DevInv'
<1> SUFFICES ASSUME DevInv, Watchdog  PROVE DevInv'  OBVIOUS
<1>1. CASE Implemented
  <2>1. PICK s \in {"CODE_TEST", "CODE_REVIEW"} : Goto(s)
    BY <1>1 DEF Implemented, ToReview
  <2>2. state = "IMPLEMENTATION" /\ wd = "idle" /\ batch \subseteq commits
    BY <1>1 DEF Implemented, Ticks
  <2>3. objected' \in BOOLEAN /\ left' \in Int
    BY <1>1 DEF Implemented, reviewVars, DevInv, TypeOK
  <2>4. report' \in {"none", "pass", "fail"} /\ failures' \in Nat
    BY <1>1 DEF Implemented, ToReview, TestGate!Test, gateVars, DevInv, TypeOK
  <2>5. s \in States  BY ReviewStates DEF States
  <2>6. QED  BY <1>1, <2>1, <2>2, <2>3, <2>4, <2>5, Turns DEF Implemented
<1>2. CASE ImplementationTimeout
  <2>1. state = "IMPLEMENTATION" /\ wd = "idle"
    BY <1>2 DEF ImplementationTimeout, Ticks
  <2>2. /\ objected' \in BOOLEAN /\ left' \in Int
        /\ report' \in {"none", "pass", "fail"} /\ failures' \in Nat
    BY <1>2 DEF ImplementationTimeout, reviewVars, gateVars, DevInv, TypeOK
  <2>3. "BLOCKED" \in States /\ "BLOCKED" \notin CommittedStates
    BY ReviewStates DEF States, CommittedStates
  <2>4. QED  BY <1>2, <2>1, <2>2, <2>3, Turns DEF ImplementationTimeout
<1>3. CASE Finish
  <2>1. state = "DONE" /\ wd = "idle" /\ Cleanup  BY <1>3 DEF Finish, Ticks
  <2>2. UNCHANGED <<from, replied, tickVars, own, histVars, envVars>>
    BY <1>3 DEF Finish
  <2>3. TypeOK'  BY <2>1, <2>2, CleanTypes DEF DevInv
  <2>4. QED  BY <2>1, <2>2, <2>3, Cleans
<1>4. CASE ClosedGuard \/ DesignPlanned \/ DesignApproved \/ Assessed \/ AllTooRisky
             \/ DesignTimeout
  BY <1>4, DesignSteps
<1>5. CASE (\E p \in Phases : ReviewDecides(p)) \/ DesignRevised \/ CodeRevised
             \/ TestDecides
  BY <1>5, ReviewSteps, TestSteps
<1>6. CASE Initialize \/ SaveRoster \/ AgentDue \/ StartAgent \/ NoStart \/ RecordAgent
  BY <1>6, Initializes, Rosters, Due, StartsAgent, NoneStarted, Records
<1>7. CASE SummaryDue \/ PostSummary \/ SaveSummaryId \/ Rollback
  BY <1>7, Summarizes, Posts, SavesId, RollsBack
<1>8. CASE Merge \/ DirtyBlock \/ Push
  BY <1>8, Merges, Blocks, Pushes
<1>9. QED
  BY <1>1, <1>2, <1>3, <1>4, <1>5, <1>6, <1>7, <1>8 DEF Watchdog

(* Steps that change one thing the invariant knows by its type only. *)
LEMMA WorkSteps == DevInv /\ Workers => DevInv'
<1> SUFFICES ASSUME DevInv, Workers  PROVE DevInv'  OBVIOUS
<1>1. TypeOK  BY DEF DevInv
<1>2. ASSUME NEW i \in Issues, PlanDone(i)  PROVE DevInv'
  <2>1. TypeOK'
    BY <1>1, <1>2
    DEF PlanDone, TypeOK, reviewVars, gateVars, agentVars, mergeVars, tickVars, histVars,
        envVars
  <2>2. QED  BY <1>2, <2>1, Quiet DEF PlanDone, mergeVars, envVars
<1>3. ASSUME NEW i \in Issues, NEW r \in {"none", "low", "high"}, AssessDone(i, r)
      PROVE  DevInv'
  <2>1. risk' \in [Issues -> {"unset", "none", "low", "high"}]
    BY <1>1, <1>3 DEF AssessDone, TypeOK
  <2>2. TypeOK'
    BY <1>1, <1>3, <2>1
    DEF AssessDone, TypeOK, reviewVars, gateVars, agentVars, mergeVars, tickVars,
        histVars, envVars
  <2>3. QED  BY <1>3, <2>2, Quiet DEF AssessDone, mergeVars, envVars
<1>4. ASSUME NEW p \in Phases, Speak(p)  PROVE DevInv'
  <2>1. objected' \in BOOLEAN /\ left' = left  BY <1>4 DEF Speak, Ph!Speak
  <2>2. TypeOK'
    BY <1>1, <1>4, <2>1
    DEF Speak, TypeOK, batchVars, gateVars, agentVars, mergeVars, tickVars, histVars,
        envVars
  <2>3. QED  BY <1>4, <2>2, Quiet DEF Speak, batchVars, mergeVars, envVars
<1>5. CASE TestReports
  <2>1. report' \in {"none", "pass", "fail"} /\ failures' \in Nat
    BY <1>1, <1>5 DEF TestReports, TestGate!Report, TypeOK
  <2>2. TypeOK'
    BY <1>1, <1>5, <2>1
    DEF TestReports, TypeOK, batchVars, reviewVars, agentVars, mergeVars, tickVars,
        histVars, envVars
  <2>3. QED  BY <1>5, <2>2, Quiet
         DEF TestReports, batchVars, mergeVars, envVars
<1>6. QED
  BY <1>2, <1>3, <1>4, <1>5, HandCommits, Commits, GivesUp, Dies DEF Workers

LEMMA OutsideSteps == DevInv /\ (Clock \/ Tree \/ Crash) => DevInv'
<1> SUFFICES ASSUME DevInv, Clock \/ Tree \/ Crash  PROVE DevInv'  OBVIOUS
<1>1. TypeOK  BY DEF DevInv
<1>2. CASE StateTimer
  <2>1. TypeOK'
    BY <1>1, <1>2
    DEF StateTimer, TypeOK, batchVars, reviewVars, gateVars, agentVars, mergeVars,
        tickVars, histVars, envVars
  <2>2. QED  BY <1>2, <2>1, Quiet DEF StateTimer, batchVars, mergeVars, envVars
<1>3. CASE DirtyTimer
  <2>1. TypeOK'
    BY <1>1, <1>3
    DEF DirtyTimer, TypeOK, batchVars, reviewVars, gateVars, agentVars, tickVars,
        histVars, envVars
  <2>2. QED  BY <1>3, <2>1, Quiet DEF DirtyTimer, batchVars, envVars
<1>4. CASE Tree
  <2>1. TypeOK'
    BY <1>1, <1>4
    DEF Tree, TypeOK, batchVars, reviewVars, gateVars, agentVars, tickVars, histVars,
        envVars
  <2>2. QED  BY <1>4, <2>1, Quiet DEF Tree, batchVars, envVars
<1>5. QED  BY <1>2, <1>3, <1>4, Crashes DEF Clock

LEMMA OwnerSteps == DevInv /\ Owner => DevInv'
<1> SUFFICES ASSUME DevInv, Owner  PROVE DevInv'  OBVIOUS
<1>1. TypeOK /\ Numbers  BY DEF DevInv
<1>2. CASE ResetWrite
  <2>1. "reset" \in allowed  BY <1>1, <1>2 DEF ResetWrite, Numbers
  <2>2. /\ Cleanup /\ own' \in {own, NoCmd}
        /\ UNCHANGED <<from, replied, tickVars, histVars, envVars>>
    BY <1>2 DEF ResetWrite
  <2>3. TypeOK'  BY <1>1, <2>2, CleanTypes
  <2>4. QED  BY <2>1, <2>2, <2>3, Cleans
<1>3. CASE Block
  <2>1. state \in {"DESIGN_REVIEW", "CODE_REVIEW", "CODE_TEST", "CODE_TEST_FIX"}
    BY <1>3 DEF Block
  <2>2. /\ objected' \in BOOLEAN /\ left' \in Int
        /\ report' \in {"none", "pass", "fail"} /\ failures' \in Nat
    BY <1>1, <1>3 DEF Block, reviewVars, gateVars, TypeOK
  <2>3. "BLOCKED" \in States /\ "BLOCKED" \notin CommittedStates
    BY ReviewStates DEF States, CommittedStates
  <2>4. QED  BY <1>3, <2>1, <2>2, <2>3, Turns DEF Block
<1>4. CASE Switch
  <2>1. TypeOK'
    BY <1>1, <1>4
    DEF Switch, TypeOK, batchVars, reviewVars, gateVars, agentVars, mergeVars, tickVars,
        histVars, envVars
  <2>2. QED  BY <1>4, <2>1, Quiet DEF Switch, batchVars, mergeVars, envVars
<1>5. CASE (\E o \in Options, is \in (SUBSET Issues) \ {{}} : Start(o, is))
             \/ (\E p \in Phases : Resume(p))
  BY <1>5, Starts, Resumes
<1>6. CASE Ok \/ Reply \/ SummaryRead \/ SummaryWrite \/ ResetRead
  BY <1>6, Oks, Replies, ReadsSummary, WritesSummary, ReadsReset
<1>7. QED  BY <1>2, <1>3, <1>4, <1>5, <1>6 DEF Owner

LEMMA DevStep == DevInv /\ [Next]_vars => DevInv'
<1>1. DevInv /\ UNCHANGED vars => DevInv'
  <2> SUFFICES ASSUME DevInv, UNCHANGED vars  PROVE DevInv'  OBVIOUS
  <2>1. TypeOK'
    BY DEF vars, batchVars, reviewVars, gateVars, agentVars, mergeVars, tickVars,
       histVars, envVars, DevInv, TypeOK
  <2>2. QED  BY <2>1, Quiet DEF vars, batchVars, mergeVars, envVars
<1>2. QED  BY <1>1, TickSteps, WorkSteps, OutsideSteps, OwnerSteps DEF Next

LEMMA DevInvariant == Spec => []DevInv
BY DevInit, DevStep, PTL DEF Spec

-----------------------------------------------------------------------------
(* The theorems *)

(* Every variable keeps its type whatever ticks, agents and commands do. *)
THEOREM DevTypes == Spec => []TypeOK
<1>1. DevInv => TypeOK  BY DEF DevInv
<1>2. QED  BY <1>1, DevInvariant, PTL

(* From the test gate to the merge every issue of the batch is committed,   *)
(* by whichever agent or hand (cmd_commit, the transitions of               *)
(* IMPLEMENTATION).                                                        *)
THEOREM ReviewsCommitted == Spec => []ReviewedIsCommitted
<1>1. DevInv => ReviewedIsCommitted  BY DEF DevInv, Committed, ReviewedIsCommitted
<1>2. QED  BY <1>1, DevInvariant, PTL

(* A batch starts without an agent, a roster, a summary or an approval of   *)
(* the one before (clean_batch_state).                                     *)
THEOREM StartsFresh == Spec => []FreshBatch
<1>1. DevInv => FreshBatch  BY DEF DevInv, Clean, FreshBatch
<1>2. QED  BY <1>1, DevInvariant, PTL

(* Where no crash, no reset and no overtaken command has lost an agent, no  *)
(* two of them run at once (_start_cc and _is_cc_running).                  *)
THEOREM AgentsOneByOne == Spec => []OneAgent
<1>1. DevInv => OneAgent
  <2> SUFFICES ASSUME DevInv, allowed \cap {"crash", "reset"} = {} /\ ~overtaken
               PROVE  Cardinality(Live) <= 1
    BY DEF OneAgent
  <2>1. Live = Orphaned  BY DEF DevInv, OneByOne, Live
  <2>2. CASE Orphaned = {}
    <3>1. Cardinality(Orphaned) = 0  BY <2>2, FS_EmptySet
    <3>2. QED  BY <2>1, <3>1
  <2>3. CASE Orphaned = {cc}
    <3>1. Cardinality({cc}) = 1  BY FS_Singleton
    <3>2. QED  BY <2>1, <2>3, <3>1
  <2>4. QED  BY <2>2, <2>3 DEF Orphaned
<1>2. QED  BY <1>1, DevInvariant, PTL

-----------------------------------------------------------------------------
(* The merge and the life of a batch *)

(* Only the merge and the block of a dirty tree begin a push. *)
LEMMA PushBegins ==
  ASSUME [Next]_vars, wd # "push", wd' = "push"
  PROVE  Merge \/ DirtyBlock
<1>1. ASSUME Watchdog  PROVE Merge \/ DirtyBlock
  <2>1. CASE ClosedGuard \/ DesignPlanned \/ AllTooRisky \/ DesignTimeout \/ Implemented
               \/ ImplementationTimeout \/ DesignRevised \/ CodeRevised \/ TestDecides
               \/ Finish \/ (\E p \in Phases : ReviewDecides(p))
    <3>1. wd' = wd
      BY <2>1, Zenon
      DEF ClosedGuard, DesignPlanned, AllTooRisky, DesignTimeout, Implemented,
          ImplementationTimeout, DesignRevised, CodeRevised, TestDecides, Finish,
          ReviewDecides, tickVars
    <3>2. QED  BY <3>1
  <2>2. CASE Initialize \/ AgentDue \/ SummaryDue \/ Assessed
    BY <2>2 DEF Initialize, AgentDue, SummaryDue, Assessed, EnterImplementation, Continue
  <2>3. CASE DesignApproved
    <3>1. wd' \in {wd, "reset"}
      BY <2>3 DEF DesignApproved, EnterImplementation, Continue, tickVars
    <3>2. QED  BY <3>1
  <2>4. CASE SaveRoster \/ StartAgent \/ NoStart \/ RecordAgent
    BY <2>4 DEF SaveRoster, StartAgent, NoStart, RecordAgent, EndTick
  <2>5. CASE PostSummary \/ SaveSummaryId \/ Rollback \/ Push
    BY <2>5 DEF PostSummary, SaveSummaryId, Rollback, Push, EndTick
  <2>6. QED  BY <1>1, <2>1, <2>2, <2>3, <2>4, <2>5 DEF Watchdog
<1>2. ASSUME Workers  PROVE wd' = wd
  BY <1>2, Zenon
  DEF Workers, PlanDone, HandCommit, AssessDone, Speak, TestReports, AgentCommits,
      AgentGivesUp, AgentDies, tickVars
<1>3. ASSUME Clock \/ Tree \/ Crash  PROVE wd' \in {wd, "idle"}
  BY <1>3 DEF Clock, StateTimer, DirtyTimer, Tree, Crash, EndTick, tickVars
<1>4. ASSUME Owner  PROVE wd' = wd
  BY <1>4, Zenon
  DEF Owner, Start, Ok, Reply, SummaryRead, SummaryWrite, ResetRead, ResetWrite, Block,
      Switch, Resume, tickVars
<1>5. QED  BY <1>1, <1>2, <1>3, <1>4 DEF Next, vars, tickVars

(* The consent of a merge is for this batch's code as it now is (the checks *)
(* of MERGE_SUMMARY_SENT, cmd_ok, the resume).                              *)
THEOREM MergesWithConsent == Spec => ConsentForThisCode
<1>1. DevInv /\ [Next]_vars =>
        (("leftover" \notin allowed /\ ~overtaken /\ wd # "push" /\ wd' = "push")
           => opts.automerge \/ consented)
  <2> SUFFICES ASSUME DevInv, [Next]_vars, "leftover" \notin allowed, ~overtaken,
                      wd # "push", wd' = "push"
               PROVE  opts.automerge \/ consented
    OBVIOUS
  <2>1. state = "MERGE_SUMMARY_SENT" /\ Consent
    BY PushBegins DEF Merge, DirtyBlock
  <2>2. approved => consented
    BY DEF DevInv, Consenting
  <2>3. summary # 0 /\ summary \in replied => consented
    BY <2>1 DEF DevInv, Consenting
  <2>4. QED  BY <2>1, <2>2, <2>3 DEF Consent, Answered
<1>2. QED  BY <1>1, DevInvariant, PTL DEF Spec, ConsentForThisCode

(* What BatchLife sees of the pipeline. *)
LifeStage == IF "leftover" \in allowed THEN "lost" ELSE Stage
LifeNext == [Life!Next]_<<LifeStage, number, pushed>>

(* A step after which everything is lost may do anything. *)
LEMMA LifeLost ==
  ASSUME "leftover" \in allowed' \/ overtaken'
  PROVE  LifeNext
BY DEF LifeNext, LifeStage, Stage, Life!Next, Life!Lose

LEMMA LifeStutters ==
  ASSUME UNCHANGED <<state, tickVars, number, pushed, overtaken, allowed>>
  PROVE  LifeNext
BY DEF LifeNext, LifeStage, Stage, tickVars

(* A tick or the owner moves an open batch on, or halts it. *)
LEMMA LifeTurns ==
  ASSUME DevInv, NEW s, s \notin {"IDLE", "DONE"}, state' = s,
         state \notin {"IDLE", "DONE", "MERGE_SUMMARY_SENT", "BLOCKED"},
         wd' \notin {"push"} \/ UNCHANGED tickVars,
         wd # "push" \/ UNCHANGED tickVars,
         UNCHANGED <<histVars, allowed>>
  PROVE  LifeNext
<1>1. CASE "leftover" \in allowed \/ overtaken
  BY <1>1, LifeLost DEF histVars
<1>2. CASE "leftover" \notin allowed /\ ~overtaken
  <2>1. ~Pushing  BY <1>2 DEF DevInv, Once, Past
  <2>2. Stage = "open"  BY <1>2, <2>1 DEF Stage, Pushing
  <2>3. ~(wd' = "push" /\ job'.of = number')  BY <2>1 DEF Pushing, tickVars, histVars
  <2>4. Stage' \in {"open", "halted"}  BY <1>2, <2>3 DEF Stage, histVars
  <2>5. QED
    BY <1>2, <2>2, <2>4
    DEF LifeNext, LifeStage, histVars, Life!Next, Life!Halt
<1>3. QED  BY <1>1, <1>2

(* The tick's work outside the lock, short of the push. *)
LEMMA LifeWorks ==
  ASSUME UNCHANGED <<state, number, pushed, allowed>>, ~overtaken' => ~overtaken,
         wd # "push", wd' # "push"
  PROVE  LifeNext
<1>1. CASE overtaken'  BY <1>1, LifeLost
<1>2. CASE ~overtaken'
  BY <1>2 DEF LifeNext, LifeStage, Stage
<1>3. QED  BY <1>1, <1>2

(* A batch ends. *)
LEMMA LifeEnds ==
  ASSUME Cleanup, UNCHANGED <<histVars, allowed>>
  PROVE  LifeNext
<1>1. CASE "leftover" \in allowed \/ overtaken
  BY <1>1, LifeLost DEF histVars
<1>2. CASE "leftover" \notin allowed /\ ~overtaken
  <2>1. Stage' = "none"  BY <1>2 DEF Stage, Cleanup, histVars
  <2>2. Stage \in {"none", "open", "agreed", "halted"}  BY <1>2 DEF Stage
  <2>3. QED
    BY <1>2, <2>1, <2>2 DEF LifeNext, LifeStage, histVars, Life!Next, Life!End
<1>3. QED  BY <1>1, <1>2

LEMMA LifeMerge ==
  /\ DevInv /\ (Merge \/ DirtyBlock) => LifeNext
  /\ DevInv /\ Rollback => LifeNext
  /\ DevInv /\ Push => LifeNext
  /\ DevInv /\ Crash => LifeNext
<1>1. ASSUME DevInv, Merge \/ DirtyBlock  PROVE LifeNext
  <2>1. /\ state = "MERGE_SUMMARY_SENT" /\ wd = "idle" /\ state' \in {"DONE", "BLOCKED"}
        /\ wd' = "push" /\ job'.of = number /\ UNCHANGED <<histVars, allowed>>
    <3>1. CASE Merge  BY <3>1 DEF Merge, Ticks, Goto, Continue, envVars
    <3>2. CASE DirtyBlock  BY <3>2 DEF DirtyBlock, Ticks, Goto, Continue, envVars
    <3>3. QED  BY <1>1, <3>1, <3>2
  <2>2. CASE "leftover" \in allowed \/ overtaken
    BY <2>1, <2>2, LifeLost DEF histVars
  <2>3. CASE "leftover" \notin allowed /\ ~overtaken
    <3>1. Stage = "open" /\ Stage' = "agreed"  BY <2>1, <2>3 DEF Stage, histVars
    <3>2. QED
      BY <2>1, <2>3, <3>1 DEF LifeNext, LifeStage, histVars, Life!Next, Life!Agree
  <2>4. QED  BY <2>2, <2>3
<1>2. ASSUME DevInv, Rollback  PROVE LifeNext
  <2>1. CASE "leftover" \in allowed' \/ overtaken'  BY <2>1, LifeLost
  <2>2. CASE ~("leftover" \in allowed' \/ overtaken')
    <3>1. state = "MERGE_SUMMARY_SENT" /\ ~overtaken
      BY <1>2, <2>2, Zenon DEF Rollback
    <3>2. /\ wd = "rollback" /\ state' = "CODE_APPROVED" /\ wd' = "idle"
          /\ UNCHANGED <<number, pushed, allowed>>
      BY <1>2 DEF Rollback, EndTick, envVars
    <3>3. Stage = "open" /\ Stage' = "open"  BY <2>2, <3>1, <3>2 DEF Stage
    <3>4. QED  BY <3>2, <3>3 DEF LifeNext, LifeStage
  <2>3. QED  BY <2>1, <2>2
<1>3. ASSUME DevInv, Push  PROVE LifeNext
  <2>1. CASE "leftover" \in allowed' \/ overtaken'  BY <2>1, LifeLost
  <2>2. CASE ~("leftover" \in allowed' \/ overtaken')
    <3>1. ~overtaken /\ batch # {} /\ number = job.of
      BY <1>3, <2>2, Zenon DEF Push, Outdated
    <3>2. /\ wd = "push" /\ wd' = "idle"
          /\ UNCHANGED <<state, number, allowed>>
      BY <1>3 DEF Push, EndTick, envVars
    <3>3. /\ Past /\ state # "IDLE"
          /\ \A i \in DOMAIN pushed : pushed[i] # number
      BY <1>3, <2>2, <3>1, <3>2 DEF DevInv, Once, Pushing, Numbers
    <3>4. Stage = "agreed"  BY <3>1, <3>2, <3>3 DEF Stage
    <3>5. Stage' \in {"agreed", "halted"}  BY <2>2, <3>2, <3>3 DEF Stage, Past
    <3>6. pushed' \in {pushed, Append(pushed, number)}  BY <1>3, <3>1 DEF Push
    <3>7. CASE pushed' = pushed
      BY <2>2, <3>2, <3>4, <3>5, <3>7
      DEF LifeNext, LifeStage, Life!Next, Life!Halt
    <3>8. CASE pushed' = Append(pushed, number)
      BY <2>2, <3>2, <3>3, <3>4, <3>5, <3>8
      DEF LifeNext, LifeStage, Life!Next, Life!Deliver
    <3>9. QED  BY <3>6, <3>7, <3>8
  <2>3. QED  BY <2>1, <2>2
<1>4. ASSUME DevInv, Crash  PROVE LifeNext
  <2>1. /\ wd' = "idle" /\ job'.of = 0 /\ UNCHANGED <<state, histVars, allowed>>
    BY <1>4 DEF Crash, EndTick, NoJob
  <2>2. CASE "leftover" \in allowed \/ overtaken
    BY <2>1, <2>2, LifeLost DEF histVars
  <2>3. CASE "leftover" \notin allowed /\ ~overtaken
    <3>1. CASE Pushing
      <4>1. Past  BY <1>4, <2>3, <3>1 DEF DevInv, Once
      <4>2. \/ Stage = Stage'
            \/ Stage = "agreed" /\ Stage' = "halted"
        BY <2>1, <2>3, <3>1, <4>1 DEF Stage, Pushing, Past, histVars
      <4>3. QED
        BY <2>1, <2>3, <4>2 DEF LifeNext, LifeStage, histVars, Life!Next, Life!Halt
    <3>2. CASE ~Pushing
      <4>1. Stage = Stage'  BY <2>1, <2>3, <3>2 DEF Stage, Pushing, histVars
      <4>2. QED  BY <2>1, <4>1 DEF LifeNext, LifeStage, histVars
    <3>3. QED  BY <3>1, <3>2
  <2>4. QED  BY <2>2, <2>3
<1>5. QED  BY <1>1, <1>2, <1>3, <1>4

LEMMA LifeTicks == DevInv /\ Watchdog => LifeNext
<1> SUFFICES ASSUME DevInv, Watchdog  PROVE LifeNext  OBVIOUS
<1>1. CASE ClosedGuard \/ DesignPlanned \/ DesignTimeout \/ ImplementationTimeout
             \/ DesignRevised
  <2>1. PICK s \in {"BLOCKED", "DESIGN_REVIEW"} : state' = s
    BY <1>1
    DEF ClosedGuard, DesignPlanned, DesignTimeout, ImplementationTimeout, DesignRevised,
        Goto
  <2>2. /\ state \notin {"IDLE", "DONE", "MERGE_SUMMARY_SENT", "BLOCKED"}
        /\ UNCHANGED <<tickVars, histVars, allowed>>
    BY <1>1
    DEF ClosedGuard, DesignPlanned, DesignTimeout, ImplementationTimeout, DesignRevised,
        envVars
  <2>3. QED  BY <2>1, <2>2, LifeTurns
<1>2. CASE Implemented \/ CodeRevised
  <2>1. PICK s \in {"CODE_TEST", "CODE_REVIEW"} : state' = s
    BY <1>2 DEF Implemented, CodeRevised, ToReview, Goto
  <2>2. /\ state \notin {"IDLE", "DONE", "MERGE_SUMMARY_SENT", "BLOCKED"}
        /\ UNCHANGED <<tickVars, histVars, allowed>>
    BY <1>2 DEF Implemented, CodeRevised, envVars
  <2>3. QED  BY <2>1, <2>2, LifeTurns
<1>3. CASE TestDecides
  <2>1. PICK s \in {"CODE_TEST", "CODE_TEST_FIX", "CODE_REVIEW", "BLOCKED"} : state' = s
    BY <1>3 DEF TestDecides, Goto
  <2>2. /\ state \notin {"IDLE", "DONE", "MERGE_SUMMARY_SENT", "BLOCKED"}
        /\ UNCHANGED <<tickVars, histVars, allowed>>
    BY <1>3 DEF TestDecides, envVars
  <2>3. QED  BY <2>1, <2>2, LifeTurns
<1>4. CASE \E p \in Phases : ReviewDecides(p)
  <2>1. PICK p \in Phases : ReviewDecides(p)  BY <1>4
  <2>2. PICK s \in PhaseStates(p) \cup {"BLOCKED"} : state' = s
    BY <2>1 DEF ReviewDecides, Goto
  <2>3. s \notin {"IDLE", "DONE"}  BY <2>2, ReviewStates DEF Phases
  <2>4. /\ state \notin {"IDLE", "DONE", "MERGE_SUMMARY_SENT", "BLOCKED"}
        /\ UNCHANGED <<tickVars, histVars, allowed>>
    BY <2>1, ReviewStates DEF ReviewDecides, Phases, envVars
  <2>5. QED  BY <2>2, <2>3, <2>4, LifeTurns
<1>5. CASE Initialize \/ SummaryDue
  <2>1. PICK s \in {"DESIGN_APPROVED", "DESIGN_PLAN", "MERGE_SUMMARY_SENT"} : state' = s
    BY <1>5 DEF Initialize, SummaryDue, Goto
  <2>2. /\ state \in {"INITIALIZE", "CODE_APPROVED"} /\ wd = "idle"
        /\ wd' \in {"reset", "post"} /\ UNCHANGED <<histVars, allowed>>
    BY <1>5 DEF Initialize, SummaryDue, Ticks, Continue, envVars
  <2>3. QED  BY <2>1, <2>2, LifeTurns
<1>6. CASE DesignApproved \/ Assessed
  <2>1. PICK s \in {"IMPLEMENTATION", "ASSESSMENT"} : state' = s
    BY <1>6 DEF DesignApproved, Assessed, EnterImplementation, Goto
  <2>2. /\ state \in {"DESIGN_APPROVED", "ASSESSMENT"} /\ wd = "idle"
        /\ UNCHANGED <<histVars, allowed>>
    BY <1>6 DEF DesignApproved, Assessed, EnterImplementation, Ticks, envVars
  <2>3. wd' \in {wd, "reset"}
    BY <1>6 DEF DesignApproved, Assessed, EnterImplementation, Continue, tickVars
  <2>4. QED  BY <2>1, <2>2, <2>3, LifeTurns
<1>7. CASE SaveRoster \/ AgentDue \/ StartAgent \/ NoStart \/ RecordAgent \/ PostSummary
             \/ SaveSummaryId
  <2>1. wd # "push" /\ wd' # "push"
    BY <1>7
    DEF SaveRoster, AgentDue, StartAgent, NoStart, RecordAgent, PostSummary,
        SaveSummaryId, Ticks, Continue, EndTick
  <2>2. UNCHANGED <<state, number, pushed, allowed>>
    BY <1>7
    DEF SaveRoster, AgentDue, StartAgent, NoStart, RecordAgent, PostSummary,
        SaveSummaryId, histVars, envVars
  <2>3. ~overtaken' => ~overtaken
    BY <1>7, Zenon
    DEF SaveRoster, AgentDue, StartAgent, NoStart, RecordAgent, PostSummary,
        SaveSummaryId, histVars
  <2>4. QED  BY <2>1, <2>2, <2>3, LifeWorks
<1>8. CASE AllTooRisky \/ Finish
  BY <1>8, LifeEnds DEF AllTooRisky, Finish, envVars
<1>9. CASE Merge \/ DirtyBlock \/ Rollback \/ Push  BY <1>9, LifeMerge
<1>10. QED
  BY <1>1, <1>2, <1>3, <1>4, <1>5, <1>6, <1>7, <1>8, <1>9 DEF Watchdog

LEMMA LifeWorkers == DevInv /\ (Workers \/ Clock \/ Tree \/ Crash) => LifeNext
<1> SUFFICES ASSUME DevInv, Workers \/ Clock \/ Tree \/ Crash  PROVE LifeNext  OBVIOUS
<1>1. ASSUME NEW a \in Live, AgentGivesUp(a)  PROVE LifeNext
  <2>1. UNCHANGED <<tickVars, histVars, allowed>>  BY <1>1 DEF AgentGivesUp, envVars
  <2>2. CASE batch = {}
    BY <1>1, <2>1, <2>2, LifeStutters DEF AgentGivesUp, histVars
  <2>3. CASE "leftover" \in allowed \/ overtaken
    BY <2>1, <2>3, LifeLost DEF histVars
  <2>4. CASE batch # {} /\ ~("leftover" \in allowed \/ overtaken)
    <3>1. state' = "BLOCKED" /\ state # "IDLE"
      BY <1>1, <2>4 DEF AgentGivesUp, Goto, DevInv, Numbers
    <3>2. \/ Stage \in {"open", "agreed", "halted"} /\ Stage' = "halted"
          \/ Stage = "agreed" /\ Stage' = "agreed"
      BY <2>1, <2>4, <3>1 DEF Stage, tickVars, histVars
    <3>3. QED
      BY <2>1, <2>4, <3>2 DEF LifeNext, LifeStage, histVars, Life!Next, Life!Halt
  <2>5. QED  BY <2>2, <2>3, <2>4
<1>2. CASE Workers /\ ~(\E a \in Live : AgentGivesUp(a))
  <2>1. UNCHANGED <<state, tickVars, histVars, allowed>>
    BY <1>2
    DEF Workers, PlanDone, HandCommit, AssessDone, Speak, TestReports, AgentCommits,
        AgentDies, envVars
  <2>2. QED  BY <2>1, LifeStutters DEF histVars
<1>3. CASE Clock \/ Tree
  <2>1. UNCHANGED <<state, tickVars, histVars, allowed>>
    BY <1>3 DEF Clock, StateTimer, DirtyTimer, Tree, envVars
  <2>2. QED  BY <2>1, LifeStutters DEF histVars
<1>4. QED  BY <1>1, <1>2, <1>3, LifeMerge

LEMMA LifeOwner == DevInv /\ Owner => LifeNext
<1> SUFFICES ASSUME DevInv, Owner  PROVE LifeNext  OBVIOUS
<1>1. ASSUME NEW o \in Options, NEW is \in (SUBSET Issues) \ {{}}, Start(o, is)
      PROVE  LifeNext
  <2>1. /\ state = "IDLE" /\ state' = "INITIALIZE" /\ number' = number + 1
        /\ UNCHANGED <<wd, job, pushed, overtaken, allowed>>
    BY <1>1 DEF Start, tickVars, envVars
  <2>2. CASE "leftover" \in allowed \/ overtaken  BY <2>1, <2>2, LifeLost
  <2>3. CASE ~("leftover" \in allowed \/ overtaken)
    <3>1. number \in Nat /\ job.of \in Nat /\ job.of <= number
      BY DEF DevInv, TypeOK, Jobs, Numbers
    <3>2. Stage = "none" /\ Stage' = "open"  BY <2>1, <2>3, <3>1 DEF Stage
    <3>3. QED  BY <2>1, <2>3, <3>2 DEF LifeNext, LifeStage, Life!Next, Life!Begin
  <2>4. QED  BY <2>2, <2>3
<1>2. CASE SummaryWrite
  <2>1. CASE "leftover" \in allowed' \/ overtaken'  BY <2>1, LifeLost
  <2>2. CASE ~("leftover" \in allowed' \/ overtaken')
    <3>1. state = "CODE_APPROVED" /\ ~overtaken
      BY <1>2, <2>2, Zenon DEF SummaryWrite
    <3>2. /\ state' = "MERGE_SUMMARY_SENT"
          /\ UNCHANGED <<wd, job, number, pushed, allowed>>
      BY <1>2 DEF SummaryWrite, tickVars, envVars
    <3>3. ~Pushing  BY <2>2, <3>1, <3>2 DEF DevInv, Once, Past
    <3>4. Stage = "open" /\ Stage' = "open"
      BY <2>2, <3>1, <3>2, <3>3 DEF Stage, Pushing
    <3>5. QED  BY <3>2, <3>4 DEF LifeNext, LifeStage
  <2>3. QED  BY <2>1, <2>2
<1>3. CASE ResetWrite  BY <1>3, LifeEnds DEF ResetWrite, envVars
<1>4. CASE Block
  <2>1. PICK s \in {"BLOCKED"} : state' = s  BY <1>4 DEF Block, Goto
  <2>2. /\ state \notin {"IDLE", "DONE", "MERGE_SUMMARY_SENT", "BLOCKED"}
        /\ UNCHANGED <<tickVars, histVars, allowed>>
    BY <1>4 DEF Block, envVars
  <2>3. QED  BY <2>1, <2>2, LifeTurns
<1>5. ASSUME NEW p \in Phases, Resume(p)  PROVE LifeNext
  <2>1. /\ state = "BLOCKED" /\ state' \in {"DESIGN_REVISE", "CODE_REVISE"}
        /\ UNCHANGED <<wd, job, number, pushed, overtaken, allowed>>
    BY <1>5 DEF Resume, Phases, StateOf, tickVars
  <2>2. CASE "leftover" \in allowed \/ overtaken  BY <2>1, <2>2, LifeLost
  <2>3. CASE ~("leftover" \in allowed \/ overtaken)
    <3>1. from \notin {"MERGE_SUMMARY_SENT", "DONE", "BLOCKED"}
      BY <1>5, <2>3, ReviewStates DEF Resume, CodeBlockedFrom
    <3>2. ~Pushing  BY <2>1, <2>3, <3>1 DEF DevInv, Once, Past
    <3>3. Stage = "halted" /\ Stage' = "open"
      BY <2>1, <2>3, <3>2 DEF Stage, Pushing
    <3>4. QED  BY <2>1, <2>3, <3>3 DEF LifeNext, LifeStage, Life!Next, Life!Resume
  <2>4. QED  BY <2>2, <2>3
<1>6. CASE Ok \/ Reply \/ SummaryRead \/ ResetRead \/ Switch
  <2>1. UNCHANGED <<state, tickVars, number, pushed, overtaken, allowed>>
    BY <1>6 DEF Ok, Reply, SummaryRead, ResetRead, Switch, histVars, envVars
  <2>2. QED  BY <2>1, LifeStutters
<1>7. QED  BY <1>1, <1>2, <1>3, <1>4, <1>5, <1>6 DEF Owner

(* The pipeline implements BatchLife: a batch is pushed at most once, after *)
(* its merge and before the next one begins.                               *)
THEOREM LivesAsPromised == Spec => LifeImplemented
<1>1. Init => Life!Init
  BY DEF Init, Life!Init, Stage
<1>2. DevInv /\ [Next]_vars => LifeNext
  <2>1. UNCHANGED vars => LifeNext
    BY LifeStutters DEF vars, histVars, envVars
  <2>2. QED  BY <2>1, LifeTicks, LifeWorkers, LifeOwner DEF Next
<1>3. QED
  BY <1>1, <1>2, DevInvariant, PTL
  DEF Spec, LifeImplemented, Life!Spec, LifeNext, LifeStage

=============================================================================
