-------------------------- MODULE TaskQueue_proofs --------------------------
(***************************************************************************)
(* TaskQueue's invariants, for every set of projects and entries, every     *)
(* queue file, every environment and any number of runs.                    *)
(*                                                                          *)
(* None of them is inductive alone.  What they hang on is what a runner     *)
(* carries from one step to the next (Carrying), that it works alone where  *)
(* the owner and the watchdog take turns, on a project nobody else moves    *)
(* (Alone), what an idle project's batch may still hold and who will empty  *)
(* it (Batches), who stores the options of a project in the queue's mode    *)
(* (QueueMode), and that an entry has one line (Distinct).                  *)
(***************************************************************************)
EXTENDS TaskQueue, TLAPS, FiniteSetTheorems, SequenceTheorems, WellFoundedInduction

LineType == [entry : Entries, done : BOOLEAN]
ProjectType == [state : {"IDLE", "INITIALIZE", "RUN", "BLOCKED"},
                batch : SUBSET Entries, queued : BOOLEAN,
                opts : {"none", "start", "entry"}]
RunnerType == [pc : Steps, via : Vias, entry : Entries \cup {"none"},
               skip : BOOLEAN]
RunsTyped == run \in [Runners -> RunnerType]

-----------------------------------------------------------------------------
(* The inductive invariant *)

(* What a runner carries at each of its steps.  A run that is an answer has  *)
(* a command to answer.                                                     *)
Carried(r) ==
  /\ run[r].pc \notin {"off", "find"} => Entry(r) \in Entries
  /\ run[r].pc = "wait" => Project(r) = Wait
  /\ run[r].pc \notin {"off", "find", "mark", "wait", "restore"} => Project(r) \in Projects
  /\ run[r].pc # "off" /\ run[r].via = "start" =>
       /\ "start" \in allowed
       /\ run[r].pc \in {"start", "triage", "setup", "transition", "loop", "undo"}
  /\ run[r].pc # "off" /\ run[r].via = "discord" =>
       "discord" \in allowed /\ r = "tick" /\ inbox > 0
Carrying ==
  /\ \A r \in Runners : Carried(r)
  /\ inbox > 0 => "discord" \in allowed

(* Where the owner and the watchdog take turns only one of them runs, and   *)
(* nothing but its own steps changes the project it has found idle.  A      *)
(* gokrax start has not looked yet.                                         *)
Steady(r) ==
  /\ /\ run[r].pc \in {"look", "mark", "flag", "start", "triage", "setup",
                       "transition", "restore", "clean"}
     /\ Project(r) # Wait
     /\ ~ (run[r].pc = "start" /\ run[r].via = "start")
     => proj[Project(r)].state = "IDLE"
  /\ run[r].pc \in {"loop", "save", "undo"} => proj[Project(r)].state = "INITIALIZE"
Alone ==
  "hand" \notin allowed =>
    /\ At("tick", "off") \/ At("hand", "off")
    /\ \A r \in Runners : Steady(r)

(* Only the runner that has filled it, and will empty it if it fails, leaves *)
(* something in an idle project's batch.                                    *)
Filled(p) ==
  \E r \in Runners :
    /\ run[r].pc \in {"setup", "transition", "restore", "clean"}
    /\ run[r].pc \in {"restore", "clean"} => run[r].via \notin {"discord", "start"}
    /\ Project(r) = p /\ proj[p].batch = {Entry(r)}
BatchOf(p) ==
  /\ proj[p].state # "IDLE" => \E e \in Entries : proj[p].batch = {e}
  /\ proj[p].state = "IDLE" => proj[p].batch = {} \/ Filled(p)
  /\ \A r \in Runners :
       run[r].pc \in {"setup", "transition"} /\ Project(r) = p => proj[p].batch = {Entry(r)}
OneStarter ==
  /\ allowed \cap {"hand", "crash"} = {}
  /\ "fail" \in allowed => allowed \cap {"discord", "start"} = {}
Batches == OneStarter => \A p \in Projects : BatchOf(p)

(* A project is in the queue's mode with the entry's options, or while the   *)
(* runner that will store them or take the mode back is at work.             *)
Serving(p) ==
  \E r \in Runners :
    /\ run[r].pc \in {"start", "triage", "setup", "transition", "loop", "save", "undo",
                      "restore", "clean"}
    /\ run[r].via # "start" /\ Project(r) = p
QueueMode ==
  allowed \cap {"crash", "hand"} = {} =>
    \A p \in Projects :
      proj[p].queued =>
        (proj[p].state # "IDLE" /\ proj[p].opts = "entry") \/ Serving(p)

(* No two lines have the same entry. *)
Distinct ==
  \A i, j \in DOMAIN lines : lines[i].entry = lines[j].entry => i = j

QueueInv ==
  TypeOK /\ Carrying /\ Alone /\ Batches /\ QueueMode /\ Distinct /\ NothingLost

-----------------------------------------------------------------------------
(* The ways to move on *)

(* What the ways to move on do to the runners. *)
LEMMA OffTyped == Off \in RunnerType
  BY DEF Off, RunnerType, Steps, Vias

LEMMA Goes ==
  ASSUME RunsTyped, NEW r \in Runners, NEW pc \in Steps, Goto(r, pc)
  PROVE  /\ RunsTyped'
         /\ run'[r].pc = pc /\ run'[r].entry = run[r].entry
         /\ run'[r].via = run[r].via /\ run'[r].skip = run[r].skip
         /\ \A q \in Runners \ {r} : run'[q] = run[q]
  BY DEF RunsTyped, Goto, RunnerType

LEMMA Ends ==
  ASSUME RunsTyped, NEW r \in Runners, EndRun(r)
  PROVE  /\ RunsTyped'
         /\ run'[r] = Off
         /\ \A q \in Runners \ {r} : run'[q] = run[q]
  BY OffTyped DEF RunsTyped, EndRun

LEMMA Begins ==
  ASSUME RunsTyped, NEW r \in Runners, NEW via \in Vias, NEW pc \in Steps,
         NEW e \in Entries \cup {"none"}, Begin(r, via, pc, e)
  PROVE  /\ RunsTyped'
         /\ run'[r].pc = pc /\ run'[r].entry = e
         /\ run'[r].via = via /\ run'[r].skip = FALSE
         /\ \A q \in Runners \ {r} : run'[q] = run[q]
  BY DEF RunsTyped, Begin, RunnerType

LEMMA Stops ==
  ASSUME RunsTyped, NEW r \in Runners, NEW pc \in Steps, LoopStops(r, pc),
         loop \in BOOLEAN
  PROVE  /\ RunsTyped' /\ loop' \in BOOLEAN
         /\ \/ run'[r] = Off
            \/ /\ run'[r].pc = pc /\ run'[r].entry = run[r].entry
               /\ run'[r].via = run[r].via /\ run'[r].skip = run[r].skip
         /\ \A q \in Runners \ {r} : run'[q] \in {run[q], Off}
<1>1. CASE loop' = loop /\ Goto(r, pc)
  BY <1>1, Goes
<1>2. CASE /\ loop' = FALSE
           /\ run' = [q \in Runners |->
                        IF q = "tick" THEN Off
                        ELSE IF q = r THEN [run[q] EXCEPT !.pc = pc] ELSE run[q]]
  <2>1. [run[r] EXCEPT !.pc = pc] \in RunnerType
    BY DEF RunsTyped, RunnerType
  <2>. QED
    BY <1>2, <2>1, OffTyped DEF RunsTyped, RunnerType
<1>. QED
  BY <1>1, <1>2 DEF LoopStops

(* The least of some numbers: the smallest of the intervals below them. *)
LEMMA Least ==
  ASSUME NEW is \in SUBSET Nat, is # {}
  PROVE  \E i \in is : \A j \in is : i <= j
<1>. DEFINE below == {1..i : i \in is}
<1>1. below \subseteq FiniteSubsetsOf(Nat) /\ below # {}
  <2>1. \A i \in is : IsFiniteSet(1..i) /\ 1..i \subseteq Nat
    BY FS_Interval
  <2>. QED
    BY <2>1 DEF FiniteSubsetsOf
<1>2. PICK s \in below : \A t \in below : ~ (<<t, s>> \in StrictSubsetOrdering(Nat))
  <2>. HIDE DEF below
  <2>1. IsWellFoundedOn(StrictSubsetOrdering(Nat), FiniteSubsetsOf(Nat))
    BY FS_StrictSubsetOrderingWellFounded
  <2>. QED
    BY <1>1, <2>1, WFMin, Zenon
<1>3. PICK i \in is : s = 1..i
  BY <1>2
<1>4. ASSUME NEW j \in is, j < i
      PROVE  FALSE
  <2>1. 1..j \subseteq 1..i /\ i \in 1..i /\ i \notin 1..j
    BY <1>4
  <2>2. 1..j \in SUBSET Nat /\ 1..i \in SUBSET Nat
    OBVIOUS
  <2>3. <<1..j, 1..i>> \in StrictSubsetOrdering(Nat)
    BY <2>1, <2>2, Zenon DEF StrictSubsetOrdering
  <2>. QED
    BY <1>2, <1>3, <2>3
<1>5. \A j \in is : i <= j
  BY <1>4
<1>. QED
  BY <1>5

LEMMA Firsts ==
  ASSUME NEW is \in SUBSET Nat, is # {}
  PROVE  FirstOf(is) \in is /\ \A j \in is : FirstOf(is) <= j
  BY Least DEF FirstOf

(* A line is a line, also one found by its content. *)
LEMMA EachLine ==
  ASSUME TypeOK
  PROVE  \A i \in DOMAIN lines : lines[i] \in LineType
<1>1. lines \in Seq(LineType)
  BY Zenon DEF TypeOK, LineType
<1>. QED
  BY <1>1, ElementOfSeq

LEMMA LinesOf ==
  ASSUME TypeOK, NEW e, NEW d, LineOf(e, d) # {}
  PROVE  /\ FirstOf(LineOf(e, d)) \in DOMAIN lines
         /\ lines[FirstOf(LineOf(e, d))] = [entry |-> e, done |-> d]
<1>1. LineOf(e, d) \in SUBSET Nat
  BY DEF TypeOK, LineOf
<1>. QED
  BY <1>1, Firsts DEF LineOf

(* What Find takes is a line that is ready. *)
LEMMA FirstReady ==
  ASSUME TypeOK, NEW is, is = {i \in DOMAIN lines : Ready(i)}, is # {}
  PROVE  /\ FirstOf(is) \in DOMAIN lines
         /\ Ready(FirstOf(is))
         /\ lines[FirstOf(is)].entry \in Entries
<1>1. is \in SUBSET Nat
  <2>1. DOMAIN lines \subseteq Nat
    BY DEF TypeOK
  <2>. QED
    BY <2>1
<1>2. FirstOf(is) \in is
  BY <1>1, Firsts
<1>3. FirstOf(is) \in DOMAIN lines /\ Ready(FirstOf(is))
  BY <1>2
<1>4. lines[FirstOf(is)] \in [entry : Entries, done : BOOLEAN]
  BY <1>3, EachLine DEF LineType
<1>. QED
  BY <1>3, <1>4

-----------------------------------------------------------------------------
(* The types *)

(* The types again, under the names the lemmas use. *)
LEMMA OldTypes ==
  ASSUME QueueInv
  PROVE  /\ TypeOK /\ RunsTyped /\ loop \in BOOLEAN /\ inbox \in Nat
         /\ lines \in Seq(LineType)
         /\ proj \in [Projects -> ProjectType]
  BY Zenon DEF QueueInv, TypeOK, RunsTyped, RunnerType, LineType, ProjectType

LEMMA BatchGrows ==
  ASSUME NEW q \in ProjectType, NEW e \in Entries
  PROVE  [q EXCEPT !.batch = @ \cup {e}] \in ProjectType
<1>1. q.batch \subseteq Entries
  BY DEF ProjectType
<1>2. q.batch \cup {e} \subseteq Entries
  BY <1>1
<1>. QED
  BY <1>2 DEF ProjectType

(* A run that answers a command has one to answer. *)
LEMMA EndsAnswer ==
  ASSUME QueueInv, NEW r \in Runners, EndRun(r), run[r].pc # "off"
  PROVE  inbox' \in Nat
  BY OldTypes DEF EndRun, QueueInv, Carrying, Carried

LEMMA CarriedEntry ==
  ASSUME QueueInv, NEW r \in Runners
  PROVE  /\ run[r].pc \notin {"off", "find"} => Entry(r) \in Entries
         /\ run[r].pc \notin {"off", "find", "mark", "wait", "restore"} =>
              Project(r) \in Projects
  BY DEF QueueInv, Carrying, Carried

(* Every step keeps the types of the runners, the inbox and the projects. *)
LEMMA RunnersTyped ==
  ASSUME QueueInv, [Next]_vars
  PROVE  RunsTyped'
<1>1. CASE UNCHANGED run
  BY <1>1, OldTypes DEF RunsTyped
<1>2. CASE Answer
  BY <1>2, OldTypes, Begins
  DEF Answer, Resting, Steps, Vias, Runners
<1>3. CASE WaitExpires
  BY <1>3, OldTypes, Begins
  DEF WaitExpires, Resting, Steps, Vias, Runners
<1>4. ASSUME NEW p \in Projects, Finish(p)
      PROVE  RunsTyped'
  <2>1. CASE UNCHANGED run
    BY <2>1, OldTypes DEF RunsTyped
  <2>2. CASE Begin("tick", "check", "find", "none")
    BY <2>2, OldTypes, Begins DEF Runners, Vias, Steps
  <2>. QED
    BY <1>4, <2>1, <2>2 DEF Finish
<1>5. ASSUME NEW r \in Runners, Find(r)
      PROVE  RunsTyped'
  <2>1. CASE EndRun(r)
    BY <2>1, OldTypes, Ends
  <2>. DEFINE found == {i \in DOMAIN lines : Ready(i)}
  <2>2. CASE /\ found # {}
             /\ LET e == lines[FirstOf(found)].entry IN
                run' = [run EXCEPT ![r].entry = e, ![r].skip = FALSE,
                          ![r].pc = IF Lane(e) = Wait THEN "mark" ELSE "look"]
    <3>. DEFINE e == lines[FirstOf(found)].entry
    <3>1. e \in Entries
      BY <2>2, OldTypes, FirstReady
    <3>. HIDE DEF e
    <3>. QED
      BY <2>2, <3>1, OldTypes DEF RunsTyped, RunnerType, Steps, e
  <2>. QED
    BY <1>5, <2>1, <2>2 DEF Find
<1>6. ASSUME NEW r \in Runners, Look(r)
      PROVE  RunsTyped'
  BY <1>6, OldTypes
  DEF Look, RunsTyped, RunnerType, Steps, Vias, Runners
<1>7. ASSUME NEW r \in Runners, Mark(r)
      PROVE  RunsTyped'
  BY <1>7, OldTypes, Goes
  DEF Mark, Steps, Vias, Runners
<1>8. ASSUME NEW r \in Runners, StartWait(r)
      PROVE  RunsTyped'
  BY <1>8, OldTypes, Goes, Ends
  DEF StartWait, Steps, Vias, Runners
<1>9. ASSUME NEW r \in Runners, SetQueueMode(r)
      PROVE  RunsTyped'
  BY <1>9, OldTypes, Goes
  DEF SetQueueMode, Steps, Vias, Runners
<1>10. ASSUME NEW r \in Runners, StartChecks(r)
      PROVE  RunsTyped'
  BY <1>10, OldTypes, Goes, Ends
  DEF StartChecks, Fails, Steps, Vias, Runners
<1>11. ASSUME NEW r \in Runners, Triage(r)
      PROVE  RunsTyped'
  BY <1>11, OldTypes, Goes, Ends, OffTyped
  DEF Triage, Fails, RunsTyped, RunnerType, Steps, Vias, Runners
<1>12. ASSUME NEW r \in Runners, Setup(r)
      PROVE  RunsTyped'
  BY <1>12, OldTypes, Goes, Ends
  DEF Setup, Fails, Steps, Vias, Runners
<1>13. ASSUME NEW r \in Runners, Transition(r)
      PROVE  RunsTyped'
  BY <1>13, OldTypes, Goes
  DEF Transition, Steps, Vias, Runners
<1>14. ASSUME NEW r \in Runners, StartLoop(r)
      PROVE  RunsTyped'
  BY <1>14, OldTypes, Goes, Ends
  DEF StartLoop, Steps, Vias, Runners
<1>15. ASSUME NEW r \in Runners, SaveOptions(r)
      PROVE  RunsTyped'
  BY <1>15, OldTypes, Ends
  DEF SaveOptions, Steps, Vias, Runners
<1>16. ASSUME NEW r \in Runners, Undo(r)
      PROVE  RunsTyped'
  BY <1>16, OldTypes, Stops
  DEF Undo, Steps, Vias, Runners
<1>17. ASSUME NEW r \in Runners, Restore(r)
      PROVE  RunsTyped'
  BY <1>17, OldTypes, Goes, Ends
  DEF Restore, Steps, Vias, Runners
<1>18. ASSUME NEW r \in Runners, Clean(r)
      PROVE  RunsTyped'
  BY <1>18, OldTypes, Goes, Ends, Stops
  DEF Clean, Steps, Vias, Runners
<1>19. ASSUME NEW r \in Runners, Crash(r)
      PROVE  RunsTyped'
  BY <1>19, OldTypes, OffTyped
  DEF Crash, RunsTyped, Steps, Vias, Runners
<1>20. ASSUME NEW via \in {"qrun", "start"}, NEW e \in Entries, ByHand(via, e)
      PROVE  RunsTyped'
  BY <1>20, OldTypes, Begins
  DEF ByHand, Steps, Vias, Runners
<1>. QED
  BY <1>1, <1>2, <1>3, <1>4, <1>5, <1>6, <1>7, <1>8, <1>9, <1>10, <1>11,
     <1>12, <1>13, <1>14, <1>15, <1>16, <1>17, <1>18, <1>19, <1>20
  DEF Next, Watchdog, RunStep, Owner, vars, Initialize, WaitOver, Cron, Block,
     ResetBlocked, Command, Qadd, Qdel, Qedit

LEMMA InboxTyped ==
  ASSUME QueueInv, [Next]_vars
  PROVE  (inbox \in Nat)'
<1>1. CASE UNCHANGED inbox
  BY <1>1, OldTypes
<1>2. ASSUME NEW r \in Runners, Find(r)
      PROVE  (inbox \in Nat)'
  BY <1>2, OldTypes, EndsAnswer
  DEF Find, Fails, At
<1>3. ASSUME NEW r \in Runners, StartWait(r)
      PROVE  (inbox \in Nat)'
  BY <1>3, OldTypes, EndsAnswer
  DEF StartWait, Fails, At
<1>4. ASSUME NEW r \in Runners, StartChecks(r)
      PROVE  (inbox \in Nat)'
  BY <1>4, OldTypes, EndsAnswer
  DEF StartChecks, Fails, At
<1>5. ASSUME NEW r \in Runners, Triage(r)
      PROVE  (inbox \in Nat)'
  BY <1>5, OldTypes, EndsAnswer
  DEF Triage, Fails, At
<1>6. ASSUME NEW r \in Runners, Setup(r)
      PROVE  (inbox \in Nat)'
  BY <1>6, OldTypes, EndsAnswer
  DEF Setup, Fails, At
<1>7. ASSUME NEW r \in Runners, StartLoop(r)
      PROVE  (inbox \in Nat)'
  BY <1>7, OldTypes, EndsAnswer
  DEF StartLoop, Fails, At
<1>8. ASSUME NEW r \in Runners, SaveOptions(r)
      PROVE  (inbox \in Nat)'
  BY <1>8, OldTypes, EndsAnswer
  DEF SaveOptions, Fails, At
<1>9. ASSUME NEW r \in Runners, Restore(r)
      PROVE  (inbox \in Nat)'
  BY <1>9, OldTypes, EndsAnswer
  DEF Restore, Fails, At
<1>10. ASSUME NEW r \in Runners, Clean(r)
      PROVE  (inbox \in Nat)'
  BY <1>10, OldTypes, EndsAnswer
  DEF Clean, Fails, At
<1>11. CASE Command
  BY <1>11, OldTypes, EndsAnswer
  DEF Command, Fails, At
<1>. QED
  BY <1>1, <1>2, <1>3, <1>4, <1>5, <1>6, <1>7, <1>8, <1>9, <1>10, <1>11
  DEF Next, Watchdog, RunStep, Owner, vars, Answer, WaitExpires, Initialize,
     Finish, Look, Mark, SetQueueMode, Transition, Undo, WaitOver, Cron,
     Crash, Block, ResetBlocked, ByHand, Qadd, Qdel, Qedit

LEMMA ProjectsTyped ==
  ASSUME QueueInv, [Next]_vars
  PROVE  (proj \in [Projects -> ProjectType])'
<1>1. CASE UNCHANGED proj
  BY <1>1, OldTypes
<1>2. ASSUME NEW p \in Projects, Initialize(p)
      PROVE  (proj \in [Projects -> ProjectType])'
  BY <1>2, OldTypes, CarriedEntry
  DEF Initialize, ProjectType, Idle, Reset
<1>3. ASSUME NEW p \in Projects, Finish(p)
      PROVE  (proj \in [Projects -> ProjectType])'
  BY <1>3, OldTypes, CarriedEntry
  DEF Finish, ProjectType, Idle, Reset
<1>4. ASSUME NEW r \in Runners, SetQueueMode(r)
      PROVE  (proj \in [Projects -> ProjectType])'
  BY <1>4, OldTypes, CarriedEntry
  DEF SetQueueMode, ProjectType, Idle, Reset
<1>5. ASSUME NEW r \in Runners, Triage(r)
      PROVE  (proj \in [Projects -> ProjectType])'
  <2>1. CASE UNCHANGED proj
    BY <2>1, OldTypes
  <2>2. CASE /\ At(r, "triage")
             /\ proj' = [proj EXCEPT ![Project(r)].batch = @ \cup {Entry(r)}]
    <3>1. Entry(r) \in Entries /\ Project(r) \in Projects
      BY <2>2, CarriedEntry DEF At
    <3>2. proj[Project(r)] \in ProjectType
      BY <3>1, OldTypes
    <3>3. [proj[Project(r)] EXCEPT !.batch = @ \cup {Entry(r)}] \in ProjectType
      BY <3>1, <3>2, BatchGrows
    <3>. QED
      BY <2>2, <3>1, <3>3, OldTypes
  <2>. QED
    BY <1>5, <2>1, <2>2 DEF Triage
<1>6. ASSUME NEW r \in Runners, Setup(r)
      PROVE  (proj \in [Projects -> ProjectType])'
  BY <1>6, OldTypes, CarriedEntry
  DEF Setup, ProjectType, Idle, Reset
<1>7. ASSUME NEW r \in Runners, Transition(r)
      PROVE  (proj \in [Projects -> ProjectType])'
  BY <1>7, OldTypes, CarriedEntry
  DEF Transition, ProjectType, Idle, Reset
<1>8. ASSUME NEW r \in Runners, SaveOptions(r)
      PROVE  (proj \in [Projects -> ProjectType])'
  BY <1>8, OldTypes, CarriedEntry
  DEF SaveOptions, ProjectType, Idle, Reset
<1>9. ASSUME NEW r \in Runners, Undo(r)
      PROVE  (proj \in [Projects -> ProjectType])'
  BY <1>9, OldTypes, CarriedEntry
  DEF Undo, ProjectType, Idle, Reset
<1>10. ASSUME NEW r \in Runners, Clean(r)
      PROVE  (proj \in [Projects -> ProjectType])'
  <2>1. Project(r) \in Projects
    BY <1>10, CarriedEntry DEF Clean, At
  <2>2. CASE Reset(Project(r))
    BY <2>1, <2>2, OldTypes DEF Reset, Idle, ProjectType
  <2>3. CASE proj' = [proj EXCEPT ![Project(r)].queued = FALSE]
    BY <2>1, <2>3, OldTypes DEF ProjectType
  <2>. QED
    BY <1>10, <2>2, <2>3 DEF Clean
<1>11. ASSUME NEW p \in Projects, Block(p)
      PROVE  (proj \in [Projects -> ProjectType])'
  BY <1>11, OldTypes, CarriedEntry
  DEF Block, ProjectType, Idle, Reset
<1>12. ASSUME NEW p \in Projects, ResetBlocked(p)
      PROVE  (proj \in [Projects -> ProjectType])'
  BY <1>12, OldTypes, CarriedEntry
  DEF ResetBlocked, ProjectType, Idle, Reset
<1>. QED
  BY <1>1, <1>2, <1>3, <1>4, <1>5, <1>6, <1>7, <1>8, <1>9, <1>10, <1>11, <1>12
  DEF Next, Watchdog, RunStep, Owner, vars, Answer, WaitExpires, Find, Look,
     Mark, StartWait, StartChecks, StartLoop, Restore, WaitOver, Cron, Crash,
     ByHand, Command, Qadd, Qdel, Qedit

-----------------------------------------------------------------------------
(* The lines *)

(* A line that is marked or active again, changed, appended, or taken out.  *)
LEMMA Changes ==
  ASSUME lines \in Seq(LineType), NEW i \in DOMAIN lines, NEW l \in LineType,
         lines' = [lines EXCEPT ![i] = l]
  PROVE  /\ lines' \in Seq(LineType) /\ DOMAIN lines' = DOMAIN lines
         /\ \A j \in DOMAIN lines : lines'[j] = IF j = i THEN l ELSE lines[j]
  BY ExceptSeq

LEMMA Flips ==
  ASSUME lines \in Seq(LineType), NEW i \in DOMAIN lines, NEW d \in BOOLEAN,
         lines' = [lines EXCEPT ![i].done = d]
  PROVE  /\ lines' \in Seq(LineType) /\ DOMAIN lines' = DOMAIN lines
         /\ \A j \in DOMAIN lines :
              /\ lines'[j].entry = lines[j].entry
              /\ lines'[j].done = IF j = i THEN d ELSE lines[j].done
<1>. DEFINE l == [lines[i] EXCEPT !.done = d]
<1>1. \A j \in DOMAIN lines : lines[j] \in LineType
  BY ElementOfSeq
<1>2. l \in LineType /\ l.entry = lines[i].entry /\ l.done = d
  BY <1>1 DEF LineType
<1>3. lines' = [lines EXCEPT ![i] = l]
  OBVIOUS
<1>. HIDE DEF l
<1>. QED
  BY <1>1, <1>2, <1>3, Changes

LEMMA Edits ==
  ASSUME lines \in Seq(LineType), NEW i \in DOMAIN lines, NEW e \in Entries,
         lines' = [lines EXCEPT ![i].entry = e]
  PROVE  /\ lines' \in Seq(LineType) /\ DOMAIN lines' = DOMAIN lines
         /\ \A j \in DOMAIN lines :
              /\ lines'[j].entry = IF j = i THEN e ELSE lines[j].entry
              /\ lines'[j].done = lines[j].done
<1>. DEFINE l == [lines[i] EXCEPT !.entry = e]
<1>1. \A j \in DOMAIN lines : lines[j] \in LineType
  BY ElementOfSeq
<1>2. l \in LineType /\ l.done = lines[i].done /\ l.entry = e
  BY <1>1 DEF LineType
<1>3. lines' = [lines EXCEPT ![i] = l]
  OBVIOUS
<1>. HIDE DEF l
<1>. QED
  BY <1>1, <1>2, <1>3, Changes

LEMMA Joins ==
  ASSUME lines \in Seq(LineType), NEW l \in LineType, lines' = Append(lines, l)
  PROVE  /\ lines' \in Seq(LineType)
         /\ \A j \in DOMAIN lines' :
              \/ j \in DOMAIN lines /\ lines'[j] = lines[j]
              \/ j = Len(lines) + 1 /\ lines'[j] = l
<1>1. /\ lines' \in Seq(LineType) /\ Len(lines') = Len(lines) + 1
      /\ \A j \in 1..Len(lines) : lines'[j] = lines[j]
      /\ lines'[Len(lines) + 1] = l
  BY AppendProperties
<1>2. /\ Len(lines) \in Nat /\ DOMAIN lines = 1..Len(lines)
      /\ DOMAIN lines' = 1..Len(lines')
  BY <1>1, LenProperties
<1>3. ASSUME NEW n \in Nat, NEW j \in 1..(n + 1)
      PROVE  j \in 1..n \/ j = n + 1
  OBVIOUS
<1>4. \A j \in DOMAIN lines' : j \in DOMAIN lines \/ j = Len(lines) + 1
  BY <1>1, <1>2, <1>3
<1>. QED
  BY <1>1, <1>2, <1>4

LEMMA Leaves ==
  ASSUME lines \in Seq(LineType), NEW i \in DOMAIN lines, lines' = RemoveAt(lines, i)
  PROVE  /\ lines' \in Seq(LineType)
         /\ \A j \in DOMAIN lines' :
              LET k == IF j < i THEN j ELSE j + 1 IN
              k \in DOMAIN lines /\ lines'[j] = lines[k]
<1>. DEFINE n == Len(lines)
            a == SubSeq(lines, 1, i - 1)
            b == SubSeq(lines, i + 1, n)
<1>1. n \in Nat /\ i \in 1..n /\ DOMAIN lines = 1..n
  BY LenProperties
<1>2. \A j \in 1..n : lines[j] \in LineType
  BY ElementOfSeq
<1>3. /\ a \in Seq(LineType) /\ Len(a) = i - 1
      /\ \A j \in 1..(i - 1) : a[j] = lines[j]
  <2>1. \A j \in 1..(i - 1) : lines[j] \in LineType
    BY <1>1, <1>2
  <2>. QED
    BY <1>1, <2>1, SubSeqProperties
<1>4. /\ b \in Seq(LineType) /\ Len(b) = n - i
      /\ \A j \in 1..(n - i) : b[j] = lines[i + j]
  <2>1. \A j \in (i + 1)..n : lines[j] \in LineType
    BY <1>1, <1>2
  <2>. HIDE DEF n
  <2>2. /\ b \in Seq(LineType)
        /\ Len(b) = IF i + 1 <= n THEN n - (i + 1) + 1 ELSE 0
        /\ \A j \in 1 .. n - (i + 1) + 1 : b[j] = lines[(i + 1) + j - 1]
    BY <1>1, <2>1, SubSeqProperties
  <2>. QED
    BY <1>1, <2>2
<1>5. lines' = a \o b
  BY Zenon DEF RemoveAt
<1>. HIDE DEF a, b, n
<1>6. /\ a \o b \in Seq(LineType) /\ Len(a \o b) = n - 1
      /\ \A j \in 1..(n - 1) : (a \o b)[j] = IF j <= i - 1 THEN a[j] ELSE b[j - (i - 1)]
  <2>1. Len(a) + Len(b) = n - 1
    BY <1>1, <1>3, <1>4
  <2>2. /\ a \o b \in Seq(LineType) /\ Len(a \o b) = Len(a) + Len(b)
        /\ \A j \in 1 .. Len(a) + Len(b) :
             (a \o b)[j] = IF j <= Len(a) THEN a[j] ELSE b[j - Len(a)]
    BY <1>3, <1>4, ConcatProperties
  <2>. QED
    BY <1>3, <2>1, <2>2
<1>7. \A j \in 1..(n - 1) : (a \o b)[j] = lines[IF j < i THEN j ELSE j + 1]
  <2>. SUFFICES ASSUME NEW j \in 1..(n - 1)
                PROVE  (a \o b)[j] = lines[IF j < i THEN j ELSE j + 1]
    OBVIOUS
  <2>1. CASE j < i
    BY <1>1, <1>3, <1>6, <2>1
  <2>2. CASE ~ (j < i)
    <3>1. j - (i - 1) \in 1..(n - i) /\ i + (j - (i - 1)) = j + 1
      BY <1>1, <2>2
    <3>2. (a \o b)[j] = b[j - (i - 1)]
      BY <1>1, <1>6, <2>2
    <3>. QED
      BY <1>4, <2>2, <3>1, <3>2
  <2>. QED
    BY <2>1, <2>2
<1>8. DOMAIN (a \o b) = 1..(n - 1)
  BY <1>1, <1>6, LenProperties
<1>9. \A j \in 1..(n - 1) : (IF j < i THEN j ELSE j + 1) \in 1..n
  BY <1>1
<1>. QED
  BY <1>1, <1>5, <1>6, <1>7, <1>8, <1>9

LEMMA OldDistinct ==
  ASSUME QueueInv
  PROVE  Distinct
  BY DEF QueueInv

(* A fresh entry has no line. *)
LEMMA NotQueued ==
  ASSUME QueueInv, NEW e \in Entries, Fresh(e)
  PROVE  \A j \in DOMAIN lines : lines[j].entry # e
<1>. SUFFICES ASSUME NEW j \in DOMAIN lines, lines[j].entry = e
              PROVE  FALSE
  OBVIOUS
<1>1. lines[j] \in LineType
  BY OldTypes, EachLine
<1>2. lines[j] = [entry |-> e, done |-> lines[j].done] /\ lines[j].done \in BOOLEAN
  BY <1>1 DEF LineType
<1>3. j \in LineOf(e, FALSE) \cup LineOf(e, TRUE)
  BY <1>2 DEF LineOf
<1>. QED
  BY <1>3 DEF Fresh

(* Every step keeps the lines lines, and one for each entry. *)
LEMMA LinesTyped ==
  ASSUME QueueInv, [Next]_vars
  PROVE  (lines \in Seq(LineType))'
<1>1. CASE UNCHANGED lines
  BY <1>1, OldTypes
<1>2. ASSUME NEW r \in Runners, Mark(r)
      PROVE  (lines \in Seq(LineType))'
  <2>1. CASE UNCHANGED lines
    BY <2>1, OldTypes
  <2>2. CASE /\ LineOf(Entry(r), FALSE) # {}
             /\ lines' = [lines EXCEPT ![FirstOf(LineOf(Entry(r), FALSE))].done = TRUE]
    BY <2>2, OldTypes, LinesOf, Flips
  <2>. QED
    BY <1>2, <2>1, <2>2 DEF Mark
<1>3. ASSUME NEW r \in Runners, Restore(r)
      PROVE  (lines \in Seq(LineType))'
  <2>1. CASE UNCHANGED lines
    BY <2>1, OldTypes
  <2>2. CASE /\ LineOf(Entry(r), TRUE) # {}
             /\ lines' = [lines EXCEPT ![FirstOf(LineOf(Entry(r), TRUE))].done = FALSE]
    BY <2>2, OldTypes, LinesOf, Flips
  <2>. QED
    BY <1>3, <2>1, <2>2 DEF Restore
<1>4. ASSUME NEW e \in Entries, Qadd(e)
      PROVE  (lines \in Seq(LineType))'
  BY <1>4, OldTypes, Joins DEF Qadd, LineType
<1>5. ASSUME NEW i \in DOMAIN lines, Qdel(i)
      PROVE  (lines \in Seq(LineType))'
  BY <1>5, OldTypes, Leaves DEF Qdel
<1>6. ASSUME NEW i \in DOMAIN lines, NEW e \in Entries, Qedit(i, e)
      PROVE  (lines \in Seq(LineType))'
  BY <1>6, OldTypes, Edits DEF Qedit
<1>. QED
  BY <1>1, <1>2, <1>3, <1>4, <1>5, <1>6
  DEF Next, Watchdog, RunStep, Owner, vars, Answer, WaitExpires, Initialize,
     Finish, Find, Look, StartWait, SetQueueMode, StartChecks, Triage, Setup,
     Transition, StartLoop, SaveOptions, Undo, Clean, WaitOver, Cron, Crash,
     Block, ResetBlocked, ByHand, Command

LEMMA DistinctKept ==
  ASSUME QueueInv, [Next]_vars
  PROVE  Distinct'
<1>1. CASE UNCHANGED lines
  BY <1>1, OldDistinct DEF Distinct
<1>2. ASSUME NEW r \in Runners, Mark(r)
      PROVE  Distinct'
  <2>1. CASE UNCHANGED lines
    BY <2>1, OldDistinct DEF Distinct
  <2>2. CASE /\ LineOf(Entry(r), FALSE) # {}
             /\ lines' = [lines EXCEPT ![FirstOf(LineOf(Entry(r), FALSE))].done = TRUE]
    <3>1. /\ DOMAIN lines' = DOMAIN lines
          /\ \A j \in DOMAIN lines : lines'[j].entry = lines[j].entry
      BY <2>2, OldTypes, LinesOf, Flips
    <3>. QED
      BY <3>1, OldDistinct DEF Distinct
  <2>. QED
    BY <1>2, <2>1, <2>2 DEF Mark
<1>3. ASSUME NEW r \in Runners, Restore(r)
      PROVE  Distinct'
  <2>1. CASE UNCHANGED lines
    BY <2>1, OldDistinct DEF Distinct
  <2>2. CASE /\ LineOf(Entry(r), TRUE) # {}
             /\ lines' = [lines EXCEPT ![FirstOf(LineOf(Entry(r), TRUE))].done = FALSE]
    <3>1. /\ DOMAIN lines' = DOMAIN lines
          /\ \A j \in DOMAIN lines : lines'[j].entry = lines[j].entry
      BY <2>2, OldTypes, LinesOf, Flips
    <3>. QED
      BY <3>1, OldDistinct DEF Distinct
  <2>. QED
    BY <1>3, <2>1, <2>2 DEF Restore
<1>4. ASSUME NEW e \in Entries, Qadd(e)
      PROVE  Distinct'
  <2>1. \A j \in DOMAIN lines : lines[j].entry # e
    BY <1>4, NotQueued DEF Qadd
  <2>2. \A j \in DOMAIN lines' :
          \/ j \in DOMAIN lines /\ lines'[j] = lines[j]
          \/ j = Len(lines) + 1 /\ lines'[j].entry = e
    BY <1>4, OldTypes, Joins DEF Qadd, LineType
  <2>. QED
    BY <2>1, <2>2, OldDistinct DEF Distinct
<1>5. ASSUME NEW i \in DOMAIN lines, Qdel(i)
      PROVE  Distinct'
  <2>1. \A j \in DOMAIN lines' :
          LET k == IF j < i THEN j ELSE j + 1 IN
          k \in DOMAIN lines /\ lines'[j] = lines[k]
    BY <1>5, OldTypes, Leaves DEF Qdel
  <2>2. DOMAIN lines \subseteq Int /\ DOMAIN lines' \subseteq Int
    BY OldTypes, LinesTyped, LenProperties
  <2>. SUFFICES ASSUME NEW j \in DOMAIN lines', NEW k \in DOMAIN lines',
                       lines'[j].entry = lines'[k].entry
                PROVE  j = k
    BY DEF Distinct
  <2>. DEFINE old(x) == IF x < i THEN x ELSE x + 1
  <2>3. old(j) \in DOMAIN lines /\ old(k) \in DOMAIN lines /\ old(j) = old(k)
    BY <2>1, OldDistinct DEF Distinct
  <2>. QED
    BY <2>2, <2>3
<1>6. ASSUME NEW i \in DOMAIN lines, NEW e \in Entries, Qedit(i, e)
      PROVE  Distinct'
  <2>1. \A j \in DOMAIN lines : lines[j].entry # e
    BY <1>6, NotQueued DEF Qedit
  <2>2. /\ DOMAIN lines' = DOMAIN lines
        /\ \A j \in DOMAIN lines :
             lines'[j].entry = IF j = i THEN e ELSE lines[j].entry
    BY <1>6, OldTypes, Edits DEF Qedit
  <2>. QED
    BY <2>1, <2>2, OldDistinct DEF Distinct
<1>. QED
  BY <1>1, <1>2, <1>3, <1>4, <1>5, <1>6
  DEF Next, Watchdog, RunStep, Owner, vars, Answer, WaitExpires, Initialize,
     Finish, Find, Look, StartWait, SetQueueMode, StartChecks, Triage, Setup,
     Transition, StartLoop, SaveOptions, Undo, Clean, WaitOver, Cron, Crash,
     Block, ResetBlocked, ByHand, Command

-----------------------------------------------------------------------------
(* What runners carry *)

(* What a behaviour may meet is chosen once. *)
LEMMA AllowedFixed ==
  ASSUME QueueInv, [Next]_vars
  PROVE  allowed' = allowed
  BY DEF Next, Watchdog, RunStep, Owner, vars, Answer, WaitExpires, Initialize, Finish,
     Find, Look, Mark, StartWait, SetQueueMode, StartChecks, Triage, Setup, Transition,
     StartLoop, SaveOptions, Undo, Restore, Clean, WaitOver, Cron, Crash, Block,
     ResetBlocked, ByHand, Command, Qadd, Qdel, Qedit

LEMMA OldCarrying ==
  ASSUME QueueInv
  PROVE  /\ Carrying
         /\ \A e \in Entries : Lane(e) \in Projects \cup {Wait}
         /\ Wait \notin Projects
  BY QueueAssumption DEF QueueInv

(* Who does not move carries on; so does who starts to look, or ends. *)
LEMMA OthersCarry ==
  ASSUME QueueInv, NEW r \in Runners, Carried(r)',
         \A q \in Runners \ {r} : run'[q] = run[q],
         allowed' = allowed, inbox' = inbox
  PROVE  Carrying'
<1>1. ASSUME NEW q \in Runners \ {r}
      PROVE  Carried(q)'
  BY <1>1, OldCarrying DEF Carrying, Carried, Entry, Project
<1>. QED
  BY <1>1, OldCarrying DEF Carrying

LEMMA StartsCarrying ==
  ASSUME QueueInv, NEW r \in Runners, NEW via \in Vias \ {"start"},
         Begin(r, via, "find", "none"), allowed' = allowed, inbox' = inbox,
         via = "discord" => "discord" \in allowed /\ r = "tick" /\ inbox > 0
  PROVE  Carrying'
<1>1. /\ run'[r].pc = "find" /\ run'[r].via = via
      /\ \A q \in Runners \ {r} : run'[q] = run[q]
  BY OldTypes, Begins DEF Steps
<1>2. Carried(r)'
  BY <1>1 DEF Carried
<1>. QED
  BY <1>1, <1>2, OthersCarry

LEMMA EndsCarrying ==
  ASSUME QueueInv, NEW r \in Runners, EndRun(r), run[r].pc # "off",
         allowed' = allowed
  PROVE  Carrying'
<1>1. run'[r] = Off /\ \A q \in Runners \ {r} : run'[q] = run[q]
  BY OldTypes, Ends
<1>2. Carried(r)'
  BY <1>1 DEF Carried, Off
<1>3. CASE run[r].via = "discord"
  <2>1. r = "tick" /\ inbox' = inbox - 1 /\ inbox \in Nat /\ "discord" \in allowed
    BY <1>3, OldTypes, OldCarrying DEF Carrying, Carried, EndRun
  <2>2. ASSUME NEW q \in Runners \ {r}
        PROVE  Carried(q)'
    BY <1>1, <2>1, <2>2, OldCarrying DEF Carrying, Carried, Entry, Project
  <2>. QED
    BY <1>2, <2>1, <2>2 DEF Carrying
<1>4. CASE run[r].via # "discord"
  BY <1>1, <1>2, <1>4, OthersCarry DEF EndRun
<1>. QED
  BY <1>3, <1>4

(* Every step leaves each runner with what its next step needs. *)
LEMMA CarryingKept ==
  ASSUME QueueInv, [Next]_vars
  PROVE  Carrying'
<1>1. CASE UNCHANGED <<run, inbox>>
  BY <1>1, OldCarrying, AllowedFixed DEF Carrying, Carried, Entry, Project
<1>2. CASE Answer
  <2>1. "tick" \in Runners /\ "discord" \in allowed /\ inbox > 0
    BY <1>2, OldTypes, OldCarrying DEF Answer, Runners, Carrying
  <2>. QED
    BY <1>2, <2>1, AllowedFixed, StartsCarrying DEF Answer, Vias
<1>3. CASE WaitExpires
  BY <1>3, AllowedFixed, StartsCarrying DEF WaitExpires, Runners, Vias
<1>4. ASSUME NEW p \in Projects, Finish(p)
      PROVE  Carrying'
  <2>1. CASE UNCHANGED run
    BY <1>4, <2>1, AllowedFixed, OldCarrying DEF Finish, Carrying, Carried, Entry, Project
  <2>2. CASE Begin("tick", "check", "find", "none")
    BY <1>4, <2>2, AllowedFixed, StartsCarrying DEF Finish, Runners, Vias
  <2>. QED
    BY <1>4, <2>1, <2>2 DEF Finish
<1>5. ASSUME NEW r \in Runners, Find(r)
      PROVE  Carrying'
  <2>1. CASE EndRun(r)
    BY <1>5, <2>1, AllowedFixed, EndsCarrying DEF Find, At
  <2>. DEFINE found == {i \in DOMAIN lines : Ready(i)}
  <2>2. CASE /\ found # {} /\ UNCHANGED inbox
             /\ LET e == lines[FirstOf(found)].entry IN
                run' = [run EXCEPT ![r].entry = e, ![r].skip = FALSE,
                          ![r].pc = IF Lane(e) = Wait THEN "mark" ELSE "look"]
    <3>. DEFINE e == lines[FirstOf(found)].entry
    <3>1. e \in Entries
      BY <2>2, OldTypes, FirstReady
    <3>. HIDE DEF e
    <3>2. /\ run'[r].pc = IF Lane(e) = Wait THEN "mark" ELSE "look"
          /\ run'[r].entry = e /\ run'[r].via = run[r].via
          /\ \A q \in Runners \ {r} : run'[q] = run[q]
      BY <2>2, OldTypes DEF RunsTyped, RunnerType, e
    <3>3. Lane(e) \in Projects \cup {Wait} /\ run[r].pc = "find"
      BY <1>5, <3>1, OldCarrying DEF Find, At
    <3>4. /\ run[r].via # "start"
          /\ run[r].via = "discord" => "discord" \in allowed /\ r = "tick" /\ inbox > 0
      BY <3>3, OldCarrying DEF Carrying, Carried
    <3>5. Carried(r)'
      <4>1. /\ run'[r].entry = e /\ run'[r].via = run[r].via /\ inbox' = inbox
            /\ \/ run'[r].pc = "mark"
               \/ run'[r].pc = "look" /\ Lane(e) \in Projects
        BY <2>2, <3>2, <3>3
      <4>. QED
        BY <3>1, <3>4, <4>1, AllowedFixed DEF Carried, Entry, Project
    <3>. QED
      BY <2>2, <3>2, <3>5, AllowedFixed, OthersCarry
  <2>. QED
    BY <1>5, <2>1, <2>2 DEF Find
<1>6. ASSUME NEW r \in Runners, Look(r)
      PROVE  Carrying'
  <2>1. /\ run'[r].pc = "mark"
        /\ run'[r].entry = run[r].entry /\ run'[r].via = run[r].via
        /\ \A q \in Runners \ {r} : run'[q] = run[q]
    BY <1>6, OldTypes DEF Look, RunsTyped, RunnerType
  <2>2. run[r].pc = "look" /\ Carried(r) /\ inbox' = inbox
    BY <1>6, OldCarrying DEF Look, At, Carrying
  <2>3. Carried(r)'
    BY <2>1, <2>2, AllowedFixed DEF Carried, Entry, Project
  <2>. QED
    BY <2>1, <2>2, <2>3, AllowedFixed, OthersCarry
<1>7. ASSUME NEW r \in Runners, Mark(r)
      PROVE  Carrying'
  <2>1. /\ run'[r].pc \in {"find", "flag", "wait"}
        /\ run'[r].pc # "find" => (run'[r].pc = "wait" <=> Project(r) = Wait)
        /\ run'[r].entry = run[r].entry /\ run'[r].via = run[r].via
        /\ \A q \in Runners \ {r} : run'[q] = run[q]
    BY <1>7, OldTypes, Goes DEF Mark, Steps
  <2>2. run[r].pc = "mark" /\ Carried(r) /\ inbox' = inbox
    BY <1>7, OldCarrying DEF Mark, At, Carrying
  <2>3. Lane(run[r].entry) \in Projects \cup {Wait}
    BY <2>2, OldCarrying DEF Carried, Entry
  <2>4. Carried(r)'
    BY <2>1, <2>2, <2>3, AllowedFixed DEF Carried, Entry, Project
  <2>. QED
    BY <2>1, <2>2, <2>4, AllowedFixed, OthersCarry
<1>8. ASSUME NEW r \in Runners, StartWait(r)
      PROVE  Carrying'
  BY <1>8, OldTypes, OldCarrying, AllowedFixed, Goes, Ends
  DEF StartWait, EndRun, At, Carrying, Carried, Entry, Project, Off, Runners,
     Steps, Vias
<1>9. ASSUME NEW r \in Runners, SetQueueMode(r)
      PROVE  Carrying'
  BY <1>9, OldTypes, OldCarrying, AllowedFixed, Goes
  DEF SetQueueMode, At, Carrying, Carried, Entry, Project, Off, Runners,
     Steps, Vias
<1>10. ASSUME NEW r \in Runners, StartChecks(r)
      PROVE  Carrying'
  BY <1>10, OldTypes, OldCarrying, AllowedFixed, Goes, Ends
  DEF StartChecks, Fails, EndRun, At, Carrying, Carried, Entry, Project, Off,
     Runners, Steps, Vias
<1>11. ASSUME NEW r \in Runners, Triage(r)
      PROVE  Carrying'
  BY <1>11, OldTypes, OldCarrying, AllowedFixed, Goes, Ends, OffTyped
  DEF Triage, Fails, RunsTyped, RunnerType, EndRun, At, Carrying, Carried,
     Entry, Project, Off, Runners, Steps, Vias
<1>12. ASSUME NEW r \in Runners, Setup(r)
      PROVE  Carrying'
  BY <1>12, OldTypes, OldCarrying, AllowedFixed, Goes, Ends
  DEF Setup, Fails, EndRun, At, Carrying, Carried, Entry, Project, Off,
     Runners, Steps, Vias
<1>13. ASSUME NEW r \in Runners, Transition(r)
      PROVE  Carrying'
  BY <1>13, OldTypes, OldCarrying, AllowedFixed, Goes
  DEF Transition, At, Carrying, Carried, Entry, Project, Off, Runners, Steps,
     Vias
<1>14. ASSUME NEW r \in Runners, StartLoop(r)
      PROVE  Carrying'
  BY <1>14, OldTypes, OldCarrying, AllowedFixed, Goes, Ends
  DEF StartLoop, EndRun, At, Carrying, Carried, Entry, Project, Off, Runners,
     Steps, Vias
<1>15. ASSUME NEW r \in Runners, SaveOptions(r)
      PROVE  Carrying'
  BY <1>15, AllowedFixed, EndsCarrying DEF SaveOptions, At
<1>16. ASSUME NEW r \in Runners, Undo(r)
      PROVE  Carrying'
  BY <1>16, OldTypes, OldCarrying, AllowedFixed, Stops
  DEF Undo, At, Carrying, Carried, Entry, Project, Off, Runners, Steps, Vias
<1>17. ASSUME NEW r \in Runners, Restore(r)
      PROVE  Carrying'
  BY <1>17, OldTypes, OldCarrying, AllowedFixed, Goes, Ends
  DEF Restore, EndRun, At, Carrying, Carried, Entry, Project, Off, Runners,
     Steps, Vias
<1>18. ASSUME NEW r \in Runners, Clean(r)
      PROVE  Carrying'
  BY <1>18, OldTypes, OldCarrying, AllowedFixed, Goes, Ends, Stops
  DEF Clean, EndRun, At, Carrying, Carried, Entry, Project, Off, Runners,
     Steps, Vias
<1>19. ASSUME NEW r \in Runners, Crash(r)
      PROVE  Carrying'
  BY <1>19, OldTypes, OldCarrying, AllowedFixed, OffTyped
  DEF Crash, RunsTyped, At, Carrying, Carried, Entry, Project, Off, Runners,
     Steps, Vias
<1>20. ASSUME NEW via \in {"qrun", "start"}, NEW e \in Entries, ByHand(via, e)
      PROVE  Carrying'
  <2>1. CASE via = "qrun" /\ Begin("hand", "qrun", "find", "none")
    BY <1>20, <2>1, AllowedFixed, StartsCarrying DEF ByHand, Runners, Vias
  <2>2. CASE /\ via = "start" /\ "start" \in allowed
             /\ Lane(e) # Wait /\ Begin("hand", "start", "start", e)
    <3>1. Lane(e) \in Projects /\ "hand" \in Runners /\ inbox' = inbox
      BY <1>20, <2>2, OldCarrying DEF Runners, ByHand
    <3>2. /\ run'["hand"].pc = "start" /\ run'["hand"].entry = e
          /\ run'["hand"].via = "start"
          /\ \A q \in Runners \ {"hand"} : run'[q] = run[q]
      BY <2>2, <3>1, OldTypes, Begins DEF Vias, Steps
    <3>3. Carried("hand")'
      BY <2>2, <3>1, <3>2, AllowedFixed DEF Carried, Entry, Project
    <3>. QED
      BY <3>1, <3>2, <3>3, AllowedFixed, OthersCarry
  <2>. QED
    BY <1>20, <2>1, <2>2 DEF ByHand
<1>21. CASE Command
  BY <1>21, OldTypes, OldCarrying, AllowedFixed
  DEF Command, At, Carrying, Carried, Entry, Project, Off, Runners, Steps,
     Vias
<1>. QED
  BY <1>1, <1>2, <1>3, <1>4, <1>5, <1>6, <1>7, <1>8, <1>9, <1>10, <1>11,
     <1>12, <1>13, <1>14, <1>15, <1>16, <1>17, <1>18, <1>19, <1>20, <1>21
  DEF Next, Watchdog, RunStep, Owner, vars, Initialize, WaitOver, Cron, Block,
     ResetBlocked, Qadd, Qdel, Qedit

-----------------------------------------------------------------------------
(* Alone *)

LEMMA OldAlone ==
  ASSUME QueueInv
  PROVE  Alone /\ Carrying
  BY DEF QueueInv

(* Where the owner and the watchdog take turns, who runs runs alone. *)
LEMMA Solo ==
  ASSUME QueueInv, "hand" \notin allowed, NEW r \in Runners, run[r].pc # "off"
  PROVE  \A q \in Runners \ {r} : run[q].pc = "off"
  BY OldAlone DEF Alone, At, Runners

LEMMA OneSteady ==
  ASSUME NEW r \in Runners, allowed' = allowed, Steady(r)',
         \A q \in Runners \ {r} : run'[q].pc = "off"
  PROVE  Alone'
  BY DEF Alone, At, Steady, Runners

LEMMA StartsAlone ==
  ASSUME QueueInv, NEW r \in Runners, NEW via \in Vias, run[r].pc = "off",
         Begin(r, via, "find", "none"), Turn(r), allowed' = allowed
  PROVE  Alone'
<1>. SUFFICES ASSUME "hand" \notin allowed
              PROVE  Alone'
  BY DEF Alone
<1>1. /\ run'[r].pc = "find"
      /\ \A q \in Runners \ {r} : run'[q] = run[q]
  BY OldTypes, Begins DEF Steps
<1>2. \A q \in Runners \ {r} : run[q].pc = "off"
  BY DEF Turn, At
<1>3. Steady(r)'
  BY <1>1 DEF Steady
<1>. QED
  BY <1>1, <1>2, <1>3, OneSteady

(* ... and every step leaves it alone with its project. *)
LEMMA AloneKept ==
  ASSUME QueueInv, [Next]_vars
  PROVE  Alone'
<1>1. CASE UNCHANGED <<run, proj>>
  BY <1>1, OldAlone, AllowedFixed DEF Alone, Steady, Entry, Project, At
<1>2. CASE Answer
  BY <1>2, AllowedFixed, StartsAlone DEF Answer, Resting, Runners, Vias, At
<1>3. CASE WaitExpires
  BY <1>3, AllowedFixed, StartsAlone DEF WaitExpires, Resting, Runners, Vias, At
<1>4. ASSUME NEW p \in Projects, Initialize(p)
      PROVE  Alone'
  <2>. SUFFICES ASSUME "hand" \notin allowed
                PROVE  Alone'
    BY AllowedFixed DEF Alone
  <2>1. \A q \in Runners : run[q].pc = "off"
    BY <1>4 DEF Initialize, Resting, Turn, At, Runners
  <2>. QED
    BY <1>4, <2>1, AllowedFixed DEF Initialize, Alone, Steady, At, Runners
<1>5. ASSUME NEW p \in Projects, Finish(p)
      PROVE  Alone'
  <2>1. CASE Begin("tick", "check", "find", "none")
    BY <1>5, <2>1, AllowedFixed, StartsAlone DEF Finish, Resting, Runners, Vias, At
  <2>2. CASE UNCHANGED run
    <3>. SUFFICES ASSUME "hand" \notin allowed
                  PROVE  Alone'
      BY AllowedFixed DEF Alone
    <3>1. \A q \in Runners : run[q].pc = "off"
      BY <1>5 DEF Finish, Resting, Turn, At, Runners
    <3>. QED
      BY <1>5, <2>2, <3>1, AllowedFixed DEF Alone, Steady, At, Runners
  <2>. QED
    BY <1>5, <2>1, <2>2 DEF Finish
<1>6. ASSUME NEW r \in Runners, Find(r)
      PROVE  Alone'
  <2>. SUFFICES ASSUME "hand" \notin allowed
                PROVE  Alone'
    BY AllowedFixed DEF Alone
  <2>1. run[r].pc = "find"
    BY <1>6 DEF Find, At
  <2>2. \A q \in Runners \ {r} : run[q].pc = "off"
    BY <2>1, Solo
  <2>3. CASE EndRun(r)
    <3>1. run'[r] = Off /\ \A q \in Runners \ {r} : run'[q] = run[q]
      BY <2>3, OldTypes, Ends
    <3>2. Steady(r)'
      BY <3>1 DEF Steady, Off
    <3>. QED
      BY <2>2, <3>1, <3>2, AllowedFixed, OneSteady
  <2>. DEFINE found == {i \in DOMAIN lines : Ready(i)}
  <2>4. CASE /\ found # {} /\ UNCHANGED proj
             /\ LET e == lines[FirstOf(found)].entry IN
                run' = [run EXCEPT ![r].entry = e, ![r].skip = FALSE,
                          ![r].pc = IF Lane(e) = Wait THEN "mark" ELSE "look"]
    <3>. DEFINE e == lines[FirstOf(found)].entry
    <3>1. Lane(e) = Wait \/ proj[Lane(e)].state = "IDLE"
      BY <2>4, OldTypes, FirstReady DEF Ready
    <3>. HIDE DEF e
    <3>2. /\ run'[r].pc \in {"mark", "look"} /\ run'[r].entry = e
          /\ \A q \in Runners \ {r} : run'[q] = run[q]
      BY <2>4, OldTypes DEF RunsTyped, RunnerType, e
    <3>3. Steady(r)'
      BY <2>4, <3>1, <3>2 DEF Steady, Entry, Project
    <3>. QED
      BY <2>2, <3>2, <3>3, AllowedFixed, OneSteady
  <2>. QED
    BY <1>6, <2>3, <2>4 DEF Find
<1>7. ASSUME NEW r \in Runners, Look(r)
      PROVE  Alone'
  BY <1>7, OldTypes, OldAlone, AllowedFixed
  DEF Look, RunsTyped, RunnerType, At, Alone, Steady, Entry, Project, Off,
     Runners, Steps, Vias
<1>8. ASSUME NEW r \in Runners, Mark(r)
      PROVE  Alone'
  <2>. SUFFICES ASSUME "hand" \notin allowed
                PROVE  Alone'
    BY AllowedFixed DEF Alone
  <2>1. run[r].pc = "mark" /\ proj' = proj /\ Steady(r) /\ run[r].via # "start"
    BY <1>8, OldAlone DEF Mark, At, Alone, Carrying, Carried
  <2>2. /\ run'[r].pc \in {"find", "flag", "wait"}
        /\ run'[r].pc # "find" => (run'[r].pc = "wait" <=> Project(r) = Wait)
        /\ run'[r].entry = run[r].entry /\ run'[r].via = run[r].via
        /\ \A q \in Runners \ {r} : run'[q] = run[q]
    BY <1>8, OldTypes, Goes DEF Mark, Steps
  <2>3. Steady(r)'
    BY <2>1, <2>2 DEF Steady, Entry, Project
  <2>4. \A q \in Runners \ {r} : run[q].pc = "off"
    BY <2>1, Solo
  <2>. QED
    BY <2>2, <2>3, <2>4, AllowedFixed, OneSteady
<1>9. ASSUME NEW r \in Runners, StartWait(r)
      PROVE  Alone'
  <2>. SUFFICES ASSUME "hand" \notin allowed
                PROVE  Alone'
    BY AllowedFixed DEF Alone
  <2>1. run[r].pc = "wait" /\ Project(r) = Wait
    BY <1>9, OldAlone DEF StartWait, At, Carrying, Carried
  <2>2. /\ \/ run'[r] = Off
           \/ run'[r].pc = "restore" /\ run'[r].entry = run[r].entry
        /\ \A q \in Runners \ {r} : run'[q] = run[q]
    BY <1>9, OldTypes, Goes, Ends DEF StartWait, Steps
  <2>3. Steady(r)'
    BY <2>1, <2>2 DEF Steady, Entry, Project, Off
  <2>4. \A q \in Runners \ {r} : run[q].pc = "off"
    BY <2>1, Solo
  <2>. QED
    BY <2>2, <2>3, <2>4, AllowedFixed, OneSteady
<1>10. ASSUME NEW r \in Runners, SetQueueMode(r)
      PROVE  Alone'
  BY <1>10, OldTypes, OldAlone, AllowedFixed, Goes
  DEF SetQueueMode, ProjectType, At, Alone, Steady, Entry, Project, Off,
     Runners, Steps, Vias
<1>11. ASSUME NEW r \in Runners, StartChecks(r)
      PROVE  Alone'
  BY <1>11, OldTypes, OldAlone, AllowedFixed, Goes, Ends
  DEF StartChecks, Fails, At, Alone, Steady, Entry, Project, Off, Runners,
     Steps, Vias
<1>12. ASSUME NEW r \in Runners, Triage(r)
      PROVE  Alone'
  BY <1>12, OldTypes, OldAlone, AllowedFixed, Goes, Ends, OffTyped
  DEF Triage, Fails, RunsTyped, RunnerType, ProjectType, At, Alone, Steady,
     Entry, Project, Off, Runners, Steps, Vias
<1>13. ASSUME NEW r \in Runners, Setup(r)
      PROVE  Alone'
  BY <1>13, OldTypes, OldAlone, AllowedFixed, Goes, Ends
  DEF Setup, Fails, ProjectType, At, Alone, Steady, Entry, Project, Off,
     Runners, Steps, Vias
<1>14. ASSUME NEW r \in Runners, Transition(r)
      PROVE  Alone'
  <2>. SUFFICES ASSUME "hand" \notin allowed
                PROVE  Alone'
    BY AllowedFixed DEF Alone
  <2>1. /\ run[r].pc = "transition" /\ Project(r) \in Projects
        /\ proj[Project(r)].state = "IDLE"
    BY <1>14, OldAlone, OldCarrying DEF Transition, At, Alone, Steady, Carrying, Carried
  <2>2. Goto(r, "loop") /\ proj' = [proj EXCEPT ![Project(r)].state = "INITIALIZE"]
    BY <1>14, <2>1 DEF Transition
  <2>3. /\ run'[r].pc = "loop" /\ run'[r].entry = run[r].entry
        /\ \A q \in Runners \ {r} : run'[q] = run[q]
    BY <2>2, OldTypes, Goes DEF Steps
  <2>4. proj'[Project(r)].state = "INITIALIZE"
    BY <2>1, <2>2, OldTypes DEF ProjectType
  <2>5. Steady(r)'
    BY <2>3, <2>4 DEF Steady, Entry, Project
  <2>6. \A q \in Runners \ {r} : run[q].pc = "off"
    BY <2>1, Solo
  <2>. QED
    BY <2>3, <2>5, <2>6, AllowedFixed, OneSteady
<1>15. ASSUME NEW r \in Runners, StartLoop(r)
      PROVE  Alone'
  BY <1>15, OldTypes, OldAlone, AllowedFixed, Goes, Ends
  DEF StartLoop, At, Alone, Steady, Entry, Project, Off, Runners, Steps, Vias
<1>16. ASSUME NEW r \in Runners, SaveOptions(r)
      PROVE  Alone'
  BY <1>16, OldTypes, OldAlone, AllowedFixed, Ends
  DEF SaveOptions, ProjectType, At, Alone, Steady, Entry, Project, Off,
     Runners, Steps, Vias
<1>17. ASSUME NEW r \in Runners, Undo(r)
      PROVE  Alone'
  <2>. SUFFICES ASSUME "hand" \notin allowed
                PROVE  Alone'
    BY AllowedFixed DEF Alone
  <2>1. run[r].pc = "undo" /\ Project(r) \in Projects
    BY <1>17, OldAlone DEF Undo, At, Carrying, Carried
  <2>2. proj'[Project(r)].state = "IDLE"
    BY <1>17, <2>1, OldTypes DEF Undo, Reset, Idle
  <2>3. /\ \/ run'[r] = Off
           \/ /\ run'[r].pc \in {"off", "restore"} /\ run'[r].entry = run[r].entry
        /\ \A q \in Runners \ {r} : run'[q] \in {run[q], Off}
    BY <1>17, OldTypes, Stops DEF Undo, Steps
  <2>4. Steady(r)'
    BY <2>2, <2>3 DEF Steady, Entry, Project, Off
  <2>5. \A q \in Runners \ {r} : run'[q].pc = "off"
    BY <2>1, <2>3, Solo DEF Off
  <2>. QED
    BY <2>4, <2>5, AllowedFixed, OneSteady
<1>18. ASSUME NEW r \in Runners, Restore(r)
      PROVE  Alone'
  BY <1>18, OldTypes, OldAlone, AllowedFixed, Goes, Ends
  DEF Restore, At, Alone, Steady, Entry, Project, Off, Runners, Steps, Vias
<1>19. ASSUME NEW r \in Runners, Clean(r)
      PROVE  Alone'
  BY <1>19, OldTypes, OldAlone, AllowedFixed, Goes, Ends, Stops
  DEF Clean, Reset, Idle, ProjectType, At, Alone, Steady, Entry, Project, Off,
     Runners, Steps, Vias
<1>20. ASSUME NEW r \in Runners, Crash(r)
      PROVE  Alone'
  BY <1>20, OldTypes, OldAlone, AllowedFixed, OffTyped
  DEF Crash, RunsTyped, At, Alone, Steady, Entry, Project, Off, Runners,
     Steps, Vias
<1>21. ASSUME NEW p \in Projects, Block(p)
      PROVE  Alone'
  BY <1>21, OldTypes, OldAlone, AllowedFixed
  DEF Block, ProjectType, At, Alone, Steady, Entry, Project, Off, Runners,
     Steps, Vias
<1>22. ASSUME NEW p \in Projects, ResetBlocked(p)
      PROVE  Alone'
  BY <1>22, OldTypes, OldAlone, AllowedFixed
  DEF ResetBlocked, Reset, Idle, ProjectType, At, Alone, Steady, Entry,
     Project, Off, Runners, Steps, Vias
<1>23. ASSUME NEW via \in {"qrun", "start"}, NEW e \in Entries, ByHand(via, e)
      PROVE  Alone'
  <2>1. CASE Begin("hand", "qrun", "find", "none")
    BY <1>23, <2>1, AllowedFixed, StartsAlone DEF ByHand, Runners, Vias, At
  <2>2. CASE Begin("hand", "start", "start", e)
    <3>. SUFFICES ASSUME "hand" \notin allowed
                  PROVE  Alone'
      BY AllowedFixed DEF Alone
    <3>1. \A q \in Runners : run[q].pc = "off"
      BY <1>23 DEF ByHand, Turn, At, Runners
    <3>2. /\ run'["hand"].pc = "start" /\ run'["hand"].via = "start"
          /\ \A q \in Runners \ {"hand"} : run'[q] = run[q]
      BY <2>2, OldTypes, Begins DEF Vias, Steps, Runners
    <3>3. Steady("hand")'
      BY <3>2 DEF Steady
    <3>. QED
      BY <3>1, <3>2, <3>3, AllowedFixed, OneSteady DEF Runners
  <2>. QED
    BY <1>23, <2>1, <2>2 DEF ByHand
<1>. QED
  BY <1>1, <1>2, <1>3, <1>4, <1>5, <1>6, <1>7, <1>8, <1>9, <1>10, <1>11,
     <1>12, <1>13, <1>14, <1>15, <1>16, <1>17, <1>18, <1>19, <1>20, <1>21,
     <1>22, <1>23
  DEF Next, Watchdog, RunStep, Owner, vars, WaitOver, Cron, Command, Qadd,
     Qdel, Qedit

-----------------------------------------------------------------------------
(* Batches *)

LEMMA OldBatches ==
  ASSUME QueueInv
  PROVE  Batches
  BY DEF QueueInv

(* A project and the one runner that works on it. *)
Fit(x, c) ==
  /\ x.state # "IDLE" => \E e \in Entries : x.batch = {e}
  /\ x.state = "IDLE" =>
       \/ x.batch = {}
       \/ /\ c.pc \in {"setup", "transition", "restore", "clean"}
          /\ c.pc \in {"restore", "clean"} => c.via \notin {"discord", "start"}
          /\ x.batch = {c.entry}
  /\ c.pc \in {"setup", "transition"} => x.batch = {c.entry}

(* Where Find leads. *)
LEMMA Finds ==
  ASSUME QueueInv, NEW r \in Runners, Find(r)
  PROVE  /\ run'[r].pc \in {"off", "look", "mark"}
         /\ \A q \in Runners \ {r} : run'[q] = run[q]
<1>1. CASE EndRun(r)
  BY <1>1, OldTypes, Ends DEF Off
<1>2. CASE \E e : run' = [run EXCEPT ![r].entry = e, ![r].skip = FALSE,
                          ![r].pc = IF Lane(e) = Wait THEN "mark" ELSE "look"]
  BY <1>2, OldTypes DEF RunsTyped, RunnerType
<1>. QED
  BY <1>1, <1>2 DEF Find

(* The batch of the one runner's project, before and after its step. *)
LEMMA OldFit ==
  ASSUME QueueInv, OneStarter, NEW r \in Runners, run[r].pc # "off",
         Project(r) \in Projects
  PROVE  Fit(proj[Project(r)], run[r])
<1>. DEFINE p == Project(r)
<1>1. \A q \in Runners \ {r} : run[q].pc = "off"
  BY Solo DEF OneStarter
<1>2. BatchOf(p)
  BY OldBatches DEF Batches
<1>3. Filled(p) =>
        /\ run[r].pc \in {"setup", "transition", "restore", "clean"}
        /\ run[r].pc \in {"restore", "clean"} => run[r].via \notin {"discord", "start"}
        /\ proj[p].batch = {Entry(r)}
  BY <1>1 DEF Filled
<1>. QED
  BY <1>2, <1>3 DEF BatchOf, Fit, Entry

(* A step of the one runner need only care for its own project. *)
LEMMA OwnBatch ==
  ASSUME QueueInv, OneStarter, NEW r \in Runners, run[r].pc # "off",
         allowed' = allowed,
         \A q \in Runners \ {r} : run'[q].pc = "off",
         run'[r].entry = run[r].entry \/ run'[r].pc \in {"off", "find", "look", "mark"},
         \A p \in Projects : p # Project(r) => proj'[p] = proj[p],
         Project(r) \in Projects => Fit(proj'[Project(r)], run'[r])
  PROVE  Batches'
<1>1. \A q \in Runners \ {r} : run[q].pc = "off"
  BY Solo DEF OneStarter
<1>2. ASSUME NEW p \in Projects, p # Project(r)
      PROVE  BatchOf(p)'
  <2>1. BatchOf(p)
    BY OldBatches DEF Batches
  <2>2. ~ Filled(p)
    BY <1>1, <1>2 DEF Filled
  <2>3. proj'[p] = proj[p]
    BY <1>2
  <2>4. \A q \in Runners : run'[q].pc \in {"setup", "transition"} => Project(q)' # p
    BY <1>2 DEF Project, Entry
  <2>. QED
    BY <2>1, <2>2, <2>3, <2>4 DEF BatchOf
<1>3. ASSUME NEW p \in Projects, p = Project(r)
      PROVE  BatchOf(p)'
  <2>1. Fit(proj'[p], run'[r])
    BY <1>3
  <2>2. CASE run'[r].entry = run[r].entry
    <3>1. Project(r)' = p /\ Entry(r)' = run'[r].entry
      BY <1>3, <2>2 DEF Project, Entry
    <3>. QED
      BY <2>1, <3>1 DEF Fit, BatchOf, Filled
  <2>3. CASE run'[r].pc \in {"off", "find", "look", "mark"}
    <3>1. \A q \in Runners :
            run'[q].pc \notin {"setup", "transition", "restore", "clean"}
      BY <2>3
    <3>. QED
      BY <2>1, <2>3, <3>1 DEF Fit, BatchOf, Filled
  <2>. QED
    BY <2>2, <2>3
<1>4. \A p \in Projects : BatchOf(p)'
  BY <1>2, <1>3
<1>. QED
  BY <1>4 DEF Batches

(* Nor do steps matter while nobody runs, if they empty a batch or keep it. *)
LEMMA RestingBatches ==
  ASSUME QueueInv, OneStarter, allowed' = allowed,
         \A q \in Runners : run[q].pc = "off",
         \A q \in Runners :
           run'[q].pc \notin {"setup", "transition", "restore", "clean"},
         \A p \in Projects :
           \/ proj'[p].batch = {} /\ proj'[p].state = "IDLE"
           \/ /\ proj'[p].batch = proj[p].batch
              /\ proj'[p].state = "IDLE" <=> proj[p].state = "IDLE"
  PROVE  Batches'
<1>1. \A p \in Projects : ~ Filled(p)
  BY DEF Filled
<1>. QED
  BY <1>1, OldBatches DEF Batches, BatchOf, OneStarter

LEMMA StartsBatches ==
  ASSUME QueueInv, NEW r \in Runners, NEW via \in Vias, run[r].pc = "off",
         Begin(r, via, "find", "none"), Turn(r), allowed' = allowed, proj' = proj
  PROVE  Batches'
<1>. SUFFICES ASSUME OneStarter
              PROVE  Batches'
  BY DEF Batches, OneStarter
<1>1. /\ run'[r].pc = "find"
      /\ \A q \in Runners \ {r} : run'[q] = run[q]
  BY OldTypes, Begins DEF Steps
<1>2. \A q \in Runners \ {r} : run[q].pc = "off"
  BY DEF Turn, At, OneStarter
<1>3. \A q \in Runners : run[q].pc = "off" /\ run'[q].pc \in {"off", "find"}
  BY <1>1, <1>2
<1>. QED
  BY <1>3, RestingBatches

(* Every step leaves a project one entry, or what its runner will empty. *)
LEMMA BatchesKept ==
  ASSUME QueueInv, [Next]_vars
  PROVE  Batches'
<1>1. CASE UNCHANGED <<run, proj>>
  BY <1>1, OldBatches, AllowedFixed DEF Batches, OneStarter, BatchOf, Filled, Entry, Project
<1>2. CASE Answer
  BY <1>2, AllowedFixed, StartsBatches DEF Answer, Resting, Runners, Vias, At
<1>3. CASE WaitExpires
  BY <1>3, AllowedFixed, StartsBatches DEF WaitExpires, Resting, Runners, Vias, At
<1>4. ASSUME NEW p \in Projects, Initialize(p)
      PROVE  Batches'
  <2>. SUFFICES ASSUME OneStarter
                PROVE  Batches'
    BY AllowedFixed DEF Batches, OneStarter
  <2>1. \A q \in Runners : run[q].pc = "off" /\ run'[q].pc = "off"
    BY <1>4 DEF Initialize, Resting, Turn, At, Runners, OneStarter
  <2>. QED
    BY <1>4, <2>1, OldTypes, AllowedFixed, RestingBatches DEF Initialize, ProjectType
<1>5. ASSUME NEW p \in Projects, Finish(p)
      PROVE  Batches'
  <2>1. CASE Begin("tick", "check", "find", "none")
    <3>. SUFFICES ASSUME OneStarter
                  PROVE  Batches'
      BY AllowedFixed DEF Batches, OneStarter
    <3>1. \A q \in Runners : run[q].pc = "off"
      BY <1>5 DEF Finish, Resting, Turn, At, Runners, OneStarter
    <3>2. /\ run'["tick"].pc = "find"
          /\ \A q \in Runners \ {"tick"} : run'[q] = run[q]
      BY <2>1, OldTypes, Begins DEF Runners, Vias, Steps
    <3>3. \A q \in Runners : run'[q].pc \in {"off", "find"}
      BY <3>1, <3>2
    <3>. QED
      BY <1>5, <3>1, <3>3, OldTypes, AllowedFixed, RestingBatches DEF Finish, Reset, Idle, ProjectType
  <2>2. CASE UNCHANGED run
    <3>. SUFFICES ASSUME OneStarter
                  PROVE  Batches'
      BY AllowedFixed DEF Batches, OneStarter
    <3>1. \A q \in Runners : run[q].pc = "off"
      BY <1>5 DEF Finish, Resting, Turn, At, Runners, OneStarter
    <3>. QED
      BY <1>5, <2>2, <3>1, OldTypes, AllowedFixed, RestingBatches DEF Finish, Reset, Idle, ProjectType
  <2>. QED
    BY <1>5, <2>1, <2>2 DEF Finish
<1>6. ASSUME NEW r \in Runners, Find(r)
      PROVE  Batches'
  <2>. SUFFICES ASSUME OneStarter
                PROVE  Batches'
    BY AllowedFixed DEF Batches, OneStarter
  <2>1. /\ run[r].pc = "find"
        /\ Carried(r)
        /\ Project(r) \in Projects => Fit(proj[Project(r)], run[r])
    BY <1>6, OldAlone, OldFit DEF Find, At, Carrying
  <2>2. /\ proj' = proj /\ run'[r].pc \in {"off", "look", "mark"}
        /\ \A q \in Runners \ {r} : run'[q] = run[q]
    BY <1>6, <2>1, OldTypes, Finds DEF Find
  <2>3. \A q \in Runners \ {r} : run'[q].pc = "off"
    BY <2>1, <2>2, Solo DEF OneStarter, Off
  <2>4. Project(r) \in Projects => Fit(proj'[Project(r)], run'[r])
    BY <2>1, <2>2 DEF Fit, Entry, Project, Off, OneStarter
  <2>5. \A p \in Projects : p # Project(r) => proj'[p] = proj[p]
    BY <1>6, OldTypes DEF Find, Reset
  <2>. QED
    BY <2>1, <2>2, <2>3, <2>4, <2>5, AllowedFixed, OwnBatch DEF Off
<1>7. ASSUME NEW r \in Runners, Look(r)
      PROVE  Batches'
  <2>. SUFFICES ASSUME OneStarter
                PROVE  Batches'
    BY AllowedFixed DEF Batches, OneStarter
  <2>1. /\ run[r].pc = "look"
        /\ Carried(r)
        /\ Project(r) \in Projects => Fit(proj[Project(r)], run[r])
    BY <1>7, OldAlone, OldFit DEF Look, At, Carrying
  <2>2. /\ proj' = proj
        /\ run'[r].pc = "mark"
        /\ run'[r].entry = run[r].entry /\ run'[r].via = run[r].via
        /\ \A q \in Runners \ {r} : run'[q] = run[q]
    BY <1>7, <2>1, OldTypes DEF Look, RunsTyped, RunnerType
  <2>3. \A q \in Runners \ {r} : run'[q].pc = "off"
    BY <2>1, <2>2, Solo DEF OneStarter, Off
  <2>4. Project(r) \in Projects => Fit(proj'[Project(r)], run'[r])
    BY <2>1, <2>2 DEF Fit, Entry, Project, Off, OneStarter
  <2>5. \A p \in Projects : p # Project(r) => proj'[p] = proj[p]
    BY <1>7, OldTypes DEF Look, Reset
  <2>. QED
    BY <2>1, <2>2, <2>3, <2>4, <2>5, AllowedFixed, OwnBatch DEF Off
<1>8. ASSUME NEW r \in Runners, Mark(r)
      PROVE  Batches'
  <2>. SUFFICES ASSUME OneStarter
                PROVE  Batches'
    BY AllowedFixed DEF Batches, OneStarter
  <2>1. /\ run[r].pc = "mark"
        /\ Carried(r)
        /\ Project(r) \in Projects => Fit(proj[Project(r)], run[r])
    BY <1>8, OldAlone, OldFit DEF Mark, At, Carrying
  <2>2. /\ proj' = proj
        /\ run'[r].pc \in {"find", "flag", "wait"}
        /\ run'[r].entry = run[r].entry /\ run'[r].via = run[r].via
        /\ \A q \in Runners \ {r} : run'[q] = run[q]
    BY <1>8, <2>1, OldTypes, Goes DEF Mark, Steps
  <2>3. \A q \in Runners \ {r} : run'[q].pc = "off"
    BY <2>1, <2>2, Solo DEF OneStarter, Off
  <2>4. Project(r) \in Projects => Fit(proj'[Project(r)], run'[r])
    BY <2>1, <2>2 DEF Fit, Entry, Project, Off, OneStarter
  <2>5. \A p \in Projects : p # Project(r) => proj'[p] = proj[p]
    BY <1>8, OldTypes DEF Mark, Reset
  <2>. QED
    BY <2>1, <2>2, <2>3, <2>4, <2>5, AllowedFixed, OwnBatch DEF Off
<1>9. ASSUME NEW r \in Runners, StartWait(r)
      PROVE  Batches'
  <2>. SUFFICES ASSUME OneStarter
                PROVE  Batches'
    BY AllowedFixed DEF Batches, OneStarter
  <2>1. /\ run[r].pc = "wait"
        /\ Carried(r)
        /\ Project(r) \in Projects => Fit(proj[Project(r)], run[r])
    BY <1>9, OldAlone, OldFit DEF StartWait, At, Carrying
  <2>2. proj' = proj /\ (\A q \in Runners \ {r} : run'[q] = run[q])
        /\ \/ run'[r] = Off
           \/ /\ run'[r].pc \in {"restore"}
              /\ run'[r].entry = run[r].entry /\ run'[r].via = run[r].via
    BY <1>9, <2>1, OldTypes, Goes, Ends DEF StartWait, Steps
  <2>3. \A q \in Runners \ {r} : run'[q].pc = "off"
    BY <2>1, <2>2, Solo DEF OneStarter, Off
  <2>4. Project(r) \in Projects => Fit(proj'[Project(r)], run'[r])
    BY <2>1, <2>2, OldCarrying DEF Fit, Entry, Project, Off, OneStarter, Carried
  <2>5. \A p \in Projects : p # Project(r) => proj'[p] = proj[p]
    BY <1>9, OldTypes DEF StartWait, Reset
  <2>. QED
    BY <2>1, <2>2, <2>3, <2>4, <2>5, AllowedFixed, OwnBatch DEF Off
<1>10. ASSUME NEW r \in Runners, SetQueueMode(r)
      PROVE  Batches'
  <2>. SUFFICES ASSUME OneStarter
                PROVE  Batches'
    BY AllowedFixed DEF Batches, OneStarter
  <2>1. /\ run[r].pc = "flag"
        /\ Carried(r)
        /\ Project(r) \in Projects => Fit(proj[Project(r)], run[r])
    BY <1>10, OldAlone, OldFit DEF SetQueueMode, At, Carrying
  <2>2. /\ run'[r].pc = "start"
        /\ Project(r) \in Projects
        /\ proj'[Project(r)].state = proj[Project(r)].state
        /\ proj'[Project(r)].batch = proj[Project(r)].batch
        /\ run'[r].entry = run[r].entry /\ run'[r].via = run[r].via
        /\ \A q \in Runners \ {r} : run'[q] = run[q]
    BY <1>10, <2>1, OldTypes, Goes DEF SetQueueMode, Steps, Carried, ProjectType
  <2>3. \A q \in Runners \ {r} : run'[q].pc = "off"
    BY <2>1, <2>2, Solo DEF OneStarter, Off
  <2>4. Project(r) \in Projects => Fit(proj'[Project(r)], run'[r])
    BY <2>1, <2>2 DEF Fit, Entry, Project, Off, OneStarter
  <2>5. \A p \in Projects : p # Project(r) => proj'[p] = proj[p]
    BY <1>10, OldTypes DEF SetQueueMode, Reset
  <2>. QED
    BY <2>1, <2>2, <2>3, <2>4, <2>5, AllowedFixed, OwnBatch DEF Off
<1>11. ASSUME NEW r \in Runners, StartChecks(r)
      PROVE  Batches'
  <2>. SUFFICES ASSUME OneStarter
                PROVE  Batches'
    BY AllowedFixed DEF Batches, OneStarter
  <2>1. /\ run[r].pc = "start"
        /\ Carried(r)
        /\ Project(r) \in Projects => Fit(proj[Project(r)], run[r])
    BY <1>11, OldAlone, OldFit DEF StartChecks, At, Carrying
  <2>2. proj' = proj /\ (\A q \in Runners \ {r} : run'[q] = run[q])
        /\ \/ run'[r] = Off
           \/ /\ run'[r].pc \in {"triage", "restore"}
              /\ run'[r].entry = run[r].entry /\ run'[r].via = run[r].via
    BY <1>11, <2>1, OldTypes, Goes, Ends DEF StartChecks, Fails, Steps
  <2>3. \A q \in Runners \ {r} : run'[q].pc = "off"
    BY <2>1, <2>2, Solo DEF OneStarter, Off
  <2>4. Project(r) \in Projects => Fit(proj'[Project(r)], run'[r])
    BY <2>1, <2>2 DEF Fit, Entry, Project, Off, OneStarter
  <2>5. \A p \in Projects : p # Project(r) => proj'[p] = proj[p]
    BY <1>11, OldTypes DEF StartChecks, Reset
  <2>. QED
    BY <2>1, <2>2, <2>3, <2>4, <2>5, AllowedFixed, OwnBatch DEF Off
<1>12. ASSUME NEW r \in Runners, Triage(r)
      PROVE  Batches'
  <2>. SUFFICES ASSUME OneStarter
                PROVE  Batches'
    BY AllowedFixed DEF Batches, OneStarter
  <2>1. /\ run[r].pc = "triage"
        /\ Carried(r)
        /\ Project(r) \in Projects => Fit(proj[Project(r)], run[r])
    BY <1>12, OldAlone, OldFit DEF Triage, At, Carrying
  <2>0. proj[Project(r)].state = "IDLE"
    BY <1>12, <2>1, OldAlone, OldCarrying DEF Alone, Steady, OneStarter, Carried
  <2>2. /\ Project(r) \in Projects
        /\ \A q \in Runners \ {r} : run'[q] = run[q]
        /\ \/ /\ proj' = proj
              /\ \/ run'[r] = Off
                 \/ /\ run'[r].entry = run[r].entry /\ run'[r].via = run[r].via
                    /\ run'[r].pc \in {"restore", "clean"}
           \/ /\ run'[r].pc = "setup"
              /\ run'[r].entry = run[r].entry /\ run'[r].via = run[r].via
              /\ proj'[Project(r)].state = "IDLE"
              /\ proj'[Project(r)].batch = proj[Project(r)].batch \cup {Entry(r)}
    BY <1>12, <2>1, OldTypes, <2>0, Goes, Ends DEF Triage, Fails, RunsTyped, RunnerType, Steps, Carried, ProjectType
  <2>3. \A q \in Runners \ {r} : run'[q].pc = "off"
    BY <2>1, <2>2, Solo DEF OneStarter, Off
  <2>4. Project(r) \in Projects => Fit(proj'[Project(r)], run'[r])
    BY <2>1, <2>2, <2>0 DEF Fit, Entry, Project, Off, OneStarter
  <2>5. \A p \in Projects : p # Project(r) => proj'[p] = proj[p]
    BY <1>12, OldTypes DEF Triage, Reset
  <2>. QED
    BY <2>1, <2>2, <2>3, <2>4, <2>5, AllowedFixed, OwnBatch DEF Off
<1>13. ASSUME NEW r \in Runners, Setup(r)
      PROVE  Batches'
  <2>. SUFFICES ASSUME OneStarter
                PROVE  Batches'
    BY AllowedFixed DEF Batches, OneStarter
  <2>1. /\ run[r].pc = "setup"
        /\ Carried(r)
        /\ Project(r) \in Projects => Fit(proj[Project(r)], run[r])
    BY <1>13, OldAlone, OldFit DEF Setup, At, Carrying
  <2>2. /\ Project(r) \in Projects
        /\ proj'[Project(r)].state = proj[Project(r)].state
        /\ proj'[Project(r)].batch = proj[Project(r)].batch
        /\ \A q \in Runners \ {r} : run'[q] = run[q]
        /\ \/ "fail" \in allowed /\ run[r].via = "start" /\ run'[r] = Off
           \/ /\ run'[r].entry = run[r].entry /\ run'[r].via = run[r].via
              /\ \/ run'[r].pc = "transition"
                 \/ run'[r].pc = "restore" /\ run[r].via # "start" /\ "fail" \in allowed
    BY <1>13, <2>1, OldTypes, Goes, Ends DEF Setup, Fails, MayFail, Steps, Carried, ProjectType
  <2>3. \A q \in Runners \ {r} : run'[q].pc = "off"
    BY <2>1, <2>2, Solo DEF OneStarter, Off
  <2>4. Project(r) \in Projects => Fit(proj'[Project(r)], run'[r])
    BY <2>1, <2>2 DEF Fit, Entry, Project, Off, OneStarter, Carried
  <2>5. \A p \in Projects : p # Project(r) => proj'[p] = proj[p]
    BY <1>13, OldTypes DEF Setup, Reset
  <2>. QED
    BY <2>1, <2>2, <2>3, <2>4, <2>5, AllowedFixed, OwnBatch DEF Off
<1>14. ASSUME NEW r \in Runners, Transition(r)
      PROVE  Batches'
  <2>. SUFFICES ASSUME OneStarter
                PROVE  Batches'
    BY AllowedFixed DEF Batches, OneStarter
  <2>1. /\ run[r].pc = "transition"
        /\ Carried(r)
        /\ Project(r) \in Projects => Fit(proj[Project(r)], run[r])
    BY <1>14, OldAlone, OldFit DEF Transition, At, Carrying
  <2>0. proj[Project(r)].state = "IDLE"
    BY <1>14, <2>1, OldAlone, OldCarrying DEF Alone, Steady, OneStarter, Carried
  <2>2. /\ run'[r].pc = "loop"
        /\ Project(r) \in Projects /\ Entry(r) \in Entries
        /\ proj'[Project(r)].state = "INITIALIZE"
        /\ proj'[Project(r)].batch = proj[Project(r)].batch
        /\ run'[r].entry = run[r].entry /\ run'[r].via = run[r].via
        /\ \A q \in Runners \ {r} : run'[q] = run[q]
    BY <1>14, <2>1, OldTypes, <2>0, Goes DEF Transition, Steps, Carried, ProjectType
  <2>3. \A q \in Runners \ {r} : run'[q].pc = "off"
    BY <2>1, <2>2, Solo DEF OneStarter, Off
  <2>4. Project(r) \in Projects => Fit(proj'[Project(r)], run'[r])
    BY <2>1, <2>2 DEF Fit, Entry, Project, Off, OneStarter
  <2>5. \A p \in Projects : p # Project(r) => proj'[p] = proj[p]
    BY <1>14, OldTypes DEF Transition, Reset
  <2>. QED
    BY <2>1, <2>2, <2>3, <2>4, <2>5, AllowedFixed, OwnBatch DEF Off
<1>15. ASSUME NEW r \in Runners, StartLoop(r)
      PROVE  Batches'
  <2>. SUFFICES ASSUME OneStarter
                PROVE  Batches'
    BY AllowedFixed DEF Batches, OneStarter
  <2>1. /\ run[r].pc = "loop"
        /\ Carried(r)
        /\ Project(r) \in Projects => Fit(proj[Project(r)], run[r])
    BY <1>15, OldAlone, OldFit DEF StartLoop, At, Carrying
  <2>2. proj' = proj /\ (\A q \in Runners \ {r} : run'[q] = run[q])
        /\ \/ run'[r] = Off
           \/ /\ run'[r].pc \in {"save", "undo"}
              /\ run'[r].entry = run[r].entry /\ run'[r].via = run[r].via
    BY <1>15, <2>1, OldTypes, Goes, Ends DEF StartLoop, Steps
  <2>3. \A q \in Runners \ {r} : run'[q].pc = "off"
    BY <2>1, <2>2, Solo DEF OneStarter, Off
  <2>4. Project(r) \in Projects => Fit(proj'[Project(r)], run'[r])
    BY <2>1, <2>2 DEF Fit, Entry, Project, Off, OneStarter
  <2>5. \A p \in Projects : p # Project(r) => proj'[p] = proj[p]
    BY <1>15, OldTypes DEF StartLoop, Reset
  <2>. QED
    BY <2>1, <2>2, <2>3, <2>4, <2>5, AllowedFixed, OwnBatch DEF Off
<1>16. ASSUME NEW r \in Runners, SaveOptions(r)
      PROVE  Batches'
  <2>. SUFFICES ASSUME OneStarter
                PROVE  Batches'
    BY AllowedFixed DEF Batches, OneStarter
  <2>1. /\ run[r].pc = "save"
        /\ Carried(r)
        /\ Project(r) \in Projects => Fit(proj[Project(r)], run[r])
    BY <1>16, OldAlone, OldFit DEF SaveOptions, At, Carrying
  <2>2. /\ run'[r] = Off
        /\ Project(r) \in Projects
        /\ proj'[Project(r)].state = proj[Project(r)].state
        /\ proj'[Project(r)].batch = proj[Project(r)].batch
        /\ \A q \in Runners \ {r} : run'[q] = run[q]
    BY <1>16, <2>1, OldTypes, Ends DEF SaveOptions, Carried, ProjectType
  <2>3. \A q \in Runners \ {r} : run'[q].pc = "off"
    BY <2>1, <2>2, Solo DEF OneStarter, Off
  <2>4. Project(r) \in Projects => Fit(proj'[Project(r)], run'[r])
    BY <2>1, <2>2 DEF Fit, Entry, Project, Off, OneStarter
  <2>5. \A p \in Projects : p # Project(r) => proj'[p] = proj[p]
    BY <1>16, OldTypes DEF SaveOptions, Reset
  <2>. QED
    BY <2>1, <2>2, <2>3, <2>4, <2>5, AllowedFixed, OwnBatch DEF Off
<1>17. ASSUME NEW r \in Runners, Undo(r)
      PROVE  Batches'
  <2>. SUFFICES ASSUME OneStarter
                PROVE  Batches'
    BY AllowedFixed DEF Batches, OneStarter
  <2>1. /\ run[r].pc = "undo"
        /\ Carried(r)
        /\ Project(r) \in Projects => Fit(proj[Project(r)], run[r])
    BY <1>17, OldAlone, OldFit DEF Undo, At, Carrying
  <2>2. /\ Project(r) \in Projects
        /\ proj'[Project(r)].state = "IDLE" /\ proj'[Project(r)].batch = {}
        /\ \A q \in Runners \ {r} : run'[q] \in {run[q], Off}
        /\ \/ run'[r] = Off
           \/ run'[r].pc \in {"off", "restore"} /\ run'[r].entry = run[r].entry
    BY <1>17, <2>1, OldTypes, Stops DEF Undo, Reset, Idle, Steps, Carried
  <2>3. \A q \in Runners \ {r} : run'[q].pc = "off"
    BY <2>1, <2>2, Solo DEF OneStarter, Off
  <2>4. Project(r) \in Projects => Fit(proj'[Project(r)], run'[r])
    BY <2>1, <2>2 DEF Fit, Entry, Project, Off, OneStarter
  <2>5. \A p \in Projects : p # Project(r) => proj'[p] = proj[p]
    BY <1>17, OldTypes DEF Undo, Reset
  <2>. QED
    BY <2>1, <2>2, <2>3, <2>4, <2>5, AllowedFixed, OwnBatch DEF Off
<1>18. ASSUME NEW r \in Runners, Restore(r)
      PROVE  Batches'
  <2>. SUFFICES ASSUME OneStarter
                PROVE  Batches'
    BY AllowedFixed DEF Batches, OneStarter
  <2>1. /\ run[r].pc = "restore"
        /\ Carried(r)
        /\ Project(r) \in Projects => Fit(proj[Project(r)], run[r])
    BY <1>18, OldAlone, OldFit DEF Restore, At, Carrying
  <2>2. proj' = proj /\ (\A q \in Runners \ {r} : run'[q] = run[q])
        /\ \/ Project(r) = Wait /\ run'[r] = Off
           \/ /\ run'[r].pc \in {"clean"}
              /\ run'[r].entry = run[r].entry /\ run'[r].via = run[r].via
    BY <1>18, <2>1, OldTypes, Goes, Ends DEF Restore, Steps
  <2>3. \A q \in Runners \ {r} : run'[q].pc = "off"
    BY <2>1, <2>2, Solo DEF OneStarter, Off
  <2>4. Project(r) \in Projects => Fit(proj'[Project(r)], run'[r])
    BY <2>1, <2>2, OldCarrying DEF Fit, Entry, Project, Off, OneStarter
  <2>5. \A p \in Projects : p # Project(r) => proj'[p] = proj[p]
    BY <1>18, OldTypes DEF Restore, Reset
  <2>. QED
    BY <2>1, <2>2, <2>3, <2>4, <2>5, AllowedFixed, OwnBatch DEF Off
<1>19. ASSUME NEW r \in Runners, Clean(r)
      PROVE  Batches'
  <2>. SUFFICES ASSUME OneStarter
                PROVE  Batches'
    BY AllowedFixed DEF Batches, OneStarter
  <2>1. /\ run[r].pc = "clean"
        /\ Carried(r)
        /\ Project(r) \in Projects => Fit(proj[Project(r)], run[r])
    BY <1>19, OldAlone, OldFit DEF Clean, At, Carrying
  <2>0. proj[Project(r)].state = "IDLE"
    BY <1>19, <2>1, OldAlone, OldCarrying DEF Alone, Steady, OneStarter, Carried
  <2>2. /\ Project(r) \in Projects
        /\ proj'[Project(r)].batch = {}
        /\ proj'[Project(r)].state = "IDLE"
        /\ \A q \in Runners \ {r} : run'[q] \in {run[q], Off}
        /\ \/ run'[r] = Off
           \/ run'[r].pc \in {"off", "find"} /\ run'[r].entry = run[r].entry
    BY <1>19, <2>1, OldTypes, <2>0, Stops, Goes, Ends DEF Clean, Reset, Idle, Steps, Carried, ProjectType, Fit, Entry
  <2>3. \A q \in Runners \ {r} : run'[q].pc = "off"
    BY <2>1, <2>2, Solo DEF OneStarter, Off
  <2>4. Project(r) \in Projects => Fit(proj'[Project(r)], run'[r])
    BY <2>1, <2>2 DEF Fit, Entry, Project, Off, OneStarter
  <2>5. \A p \in Projects : p # Project(r) => proj'[p] = proj[p]
    BY <1>19, OldTypes DEF Clean, Reset
  <2>. QED
    BY <2>1, <2>2, <2>3, <2>4, <2>5, AllowedFixed, OwnBatch DEF Off
<1>20. ASSUME NEW r \in Runners, Crash(r)
      PROVE  Batches'
  BY <1>20, AllowedFixed DEF Crash, Batches, OneStarter
<1>21. ASSUME NEW p \in Projects, Block(p)
      PROVE  Batches'
  <2>. SUFFICES ASSUME OneStarter
                PROVE  Batches'
    BY AllowedFixed DEF Batches, OneStarter
  <2>1. \A x \in Projects :
          /\ proj'[x].batch = proj[x].batch
          /\ proj'[x].state = "IDLE" <=> proj[x].state = "IDLE"
    BY <1>21, OldTypes DEF Block, ProjectType
  <2>2. run' = run
    BY <1>21 DEF Block
  <2>. QED
    BY <2>1, <2>2, OldBatches, AllowedFixed DEF Batches, BatchOf, Filled, Project, Entry, OneStarter
<1>22. ASSUME NEW p \in Projects, ResetBlocked(p)
      PROVE  Batches'
  <2>. SUFFICES ASSUME OneStarter
                PROVE  Batches'
    BY AllowedFixed DEF Batches, OneStarter
  <2>1. /\ proj'[p].batch = {} /\ proj[p].state = "BLOCKED"
        /\ \A x \in Projects \ {p} : proj'[x] = proj[x]
        /\ run' = run
    BY <1>22, OldTypes DEF ResetBlocked, Reset, Idle
  <2>2. \A r \in Runners : run[r].pc \in {"setup", "transition"} => Project(r) # p
    BY <2>1, OldAlone, OldCarrying DEF Alone, Steady, OneStarter
  <2>3. ASSUME NEW x \in Projects \ {p}
        PROVE  BatchOf(x)'
    BY <2>1, <2>3, OldBatches DEF Batches, BatchOf, Filled, Project, Entry
  <2>4. BatchOf(p)'
    BY <1>22, <2>1, <2>2, OldTypes DEF BatchOf, Project, Entry, ResetBlocked, Reset, Idle
  <2>. QED
    BY <2>3, <2>4 DEF Batches
<1>23. ASSUME NEW via \in {"qrun", "start"}, NEW e \in Entries, ByHand(via, e)
      PROVE  Batches'
  <2>1. CASE Begin("hand", "qrun", "find", "none")
    BY <1>23, <2>1, AllowedFixed, StartsBatches DEF ByHand, Runners, Vias, At
  <2>2. CASE Begin("hand", "start", "start", e)
    <3>. SUFFICES ASSUME OneStarter
                  PROVE  Batches'
      BY AllowedFixed DEF Batches, OneStarter
    <3>1. \A q \in Runners : run[q].pc = "off"
      BY <1>23 DEF ByHand, Turn, At, Runners, OneStarter
    <3>2. \A q \in Runners : run'[q].pc \in {"off", "start"}
      BY <2>2, <3>1, OldTypes, Begins DEF Runners, Vias, Steps
    <3>. QED
      BY <1>23, <3>1, <3>2, AllowedFixed, RestingBatches DEF ByHand
  <2>. QED
    BY <1>23, <2>1, <2>2 DEF ByHand
<1>. QED
  BY <1>1, <1>2, <1>3, <1>4, <1>5, <1>6, <1>7, <1>8, <1>9, <1>10, <1>11,
     <1>12, <1>13, <1>14, <1>15, <1>16, <1>17, <1>18, <1>19, <1>20, <1>21,
     <1>22, <1>23
  DEF Next, Watchdog, RunStep, Owner, vars, WaitOver, Cron, Command, Qadd,
     Qdel, Qedit

-----------------------------------------------------------------------------
(* The queue's mode *)

InTurn == allowed \cap {"crash", "hand"} = {}

LEMMA OldMode ==
  ASSUME QueueInv
  PROVE  QueueMode
  BY DEF QueueInv

Suits(x, c) ==
  x.queued =>
    \/ x.state # "IDLE" /\ x.opts = "entry"
    \/ /\ c.pc \in {"start", "triage", "setup", "transition", "loop", "save", "undo",
                    "restore", "clean"}
       /\ c.via # "start"

LEMMA OldSuits ==
  ASSUME QueueInv, InTurn, NEW r \in Runners, run[r].pc # "off",
         Project(r) \in Projects
  PROVE  Suits(proj[Project(r)], run[r])
<1>1. \A q \in Runners \ {r} : run[q].pc = "off"
  BY Solo DEF InTurn
<1>. QED
  BY <1>1, OldMode DEF QueueMode, InTurn, Suits, Serving

(* The same for the queue's mode. *)
LEMMA OwnMode ==
  ASSUME QueueInv, InTurn, NEW r \in Runners, run[r].pc # "off",
         allowed' = allowed,
         \A q \in Runners \ {r} : run'[q].pc = "off",
         run'[r].entry = run[r].entry \/ run'[r].pc \in {"off", "find", "look", "mark"},
         \A p \in Projects : p # Project(r) => proj'[p] = proj[p],
         Project(r) \in Projects => Suits(proj'[Project(r)], run'[r])
  PROVE  QueueMode'
<1>1. \A q \in Runners \ {r} : run[q].pc = "off"
  BY Solo DEF InTurn
<1>2. ASSUME NEW p \in Projects, p # Project(r), proj'[p].queued
      PROVE  proj'[p].state # "IDLE" /\ proj'[p].opts = "entry"
  BY <1>1, <1>2, OldMode DEF QueueMode, InTurn, Serving
<1>3. ASSUME NEW p \in Projects, p = Project(r), proj'[p].queued
      PROVE  (proj'[p].state # "IDLE" /\ proj'[p].opts = "entry") \/ Serving(p)'
  <2>1. Suits(proj'[p], run'[r])
    BY <1>3
  <2>2. CASE run'[r].entry = run[r].entry
    BY <1>3, <2>1, <2>2 DEF Suits, Serving, Project, Entry
  <2>3. CASE run'[r].pc \in {"off", "find", "look", "mark"}
    BY <1>3, <2>1, <2>3 DEF Suits
  <2>. QED
    BY <2>2, <2>3
<1>. QED
  BY <1>2, <1>3 DEF QueueMode

LEMMA RestingMode ==
  ASSUME QueueInv, InTurn, allowed' = allowed,
         \A q \in Runners : run[q].pc = "off",
         \A p \in Projects :
           \/ proj'[p] = proj[p]
           \/ proj'[p].queued = FALSE
           \/ /\ proj'[p].queued = proj[p].queued /\ proj'[p].opts = proj[p].opts
              /\ proj'[p].state # "IDLE"
  PROVE  QueueMode'
<1>1. \A p \in Projects : ~ Serving(p)
  BY DEF Serving
<1>. QED
  BY <1>1, OldMode DEF QueueMode, InTurn

LEMMA StartsMode ==
  ASSUME QueueInv, NEW r \in Runners, NEW via \in Vias, run[r].pc = "off",
         Begin(r, via, "find", "none"), Turn(r), allowed' = allowed, proj' = proj
  PROVE  QueueMode'
<1>. SUFFICES ASSUME InTurn
              PROVE  QueueMode'
  BY DEF QueueMode, InTurn
<1>1. \A q \in Runners : run[q].pc = "off"
  BY DEF Turn, At, InTurn
<1>. QED
  BY <1>1, RestingMode

(* A project that is served is not at work yet. *)
LEMMA OptionsFirst ==
  ASSUME QueueInv
  PROVE  OptionsBeforeWork
<1>. SUFFICES ASSUME InTurn, NEW p \in Projects, proj[p].state = "RUN", proj[p].queued
              PROVE  proj[p].opts = "entry"
  BY DEF OptionsBeforeWork, InTurn
<1>1. ASSUME NEW r \in Runners, Project(r) = p, run[r].via # "start",
             run[r].pc \in {"start", "triage", "setup", "transition", "loop", "save",
                            "undo", "restore", "clean"}
      PROVE  FALSE
  BY <1>1, OldAlone, OldCarrying DEF Alone, Steady, InTurn
<1>. QED
  BY <1>1, OldMode DEF QueueMode, InTurn, Serving

LEMMA OneEntry ==
  ASSUME QueueInv
  PROVE  OneEntryABatch
<1>. SUFFICES ASSUME OneStarter, NEW p \in Projects, proj[p].state # "IDLE"
              PROVE  Cardinality(proj[p].batch) = 1
  BY DEF OneEntryABatch, OneStarter
<1>1. PICK e \in Entries : proj[p].batch = {e}
  BY OldBatches DEF Batches, BatchOf
<1>. QED
  BY <1>1, FS_Singleton

(* Every step leaves a project in the queue's mode its options or its runner. *)
LEMMA ModeKept ==
  ASSUME QueueInv, [Next]_vars
  PROVE  QueueMode'
<1>1. CASE UNCHANGED <<run, proj>>
  BY <1>1, OldMode, AllowedFixed DEF QueueMode, Serving, Entry, Project
<1>2. CASE Answer
  BY <1>2, AllowedFixed, StartsMode DEF Answer, Resting, Runners, Vias, At
<1>3. CASE WaitExpires
  BY <1>3, AllowedFixed, StartsMode DEF WaitExpires, Resting, Runners, Vias, At
<1>4. ASSUME NEW p \in Projects, Initialize(p)
      PROVE  QueueMode'
  <2>. SUFFICES ASSUME InTurn
                PROVE  QueueMode'
    BY AllowedFixed DEF QueueMode, InTurn
  <2>1. \A q \in Runners : run[q].pc = "off" /\ run'[q].pc = "off"
    BY <1>4 DEF Initialize, Resting, Turn, At, Runners, InTurn
  <2>. QED
    BY <1>4, <2>1, OldTypes, AllowedFixed, RestingMode DEF Initialize, ProjectType
<1>5. ASSUME NEW p \in Projects, Finish(p)
      PROVE  QueueMode'
  <2>. SUFFICES ASSUME InTurn
                PROVE  QueueMode'
    BY AllowedFixed DEF QueueMode, InTurn
  <2>1. \A q \in Runners : run[q].pc = "off"
    BY <1>5 DEF Finish, Resting, Turn, At, Runners, InTurn
  <2>2. Reset(p)
    BY <1>5 DEF Finish
  <2>3. \A x \in Projects : proj'[x] = IF x = p THEN Idle ELSE proj[x]
    BY <2>2, OldTypes DEF Reset
  <2>. QED
    <3>1. \A x \in Projects : proj'[x] = proj[x] \/ proj'[x].queued = FALSE
      BY <2>3 DEF Idle
    <3>. QED
      BY <2>1, <3>1, AllowedFixed, RestingMode
<1>6. ASSUME NEW r \in Runners, Find(r)
      PROVE  QueueMode'
  <2>. SUFFICES ASSUME InTurn
                PROVE  QueueMode'
    BY AllowedFixed DEF QueueMode, InTurn
  <2>1. /\ run[r].pc = "find"
        /\ Carried(r)
        /\ Project(r) \in Projects => Suits(proj[Project(r)], run[r])
    BY <1>6, OldAlone, OldSuits DEF Find, At, Carrying
  <2>2. /\ proj' = proj /\ run'[r].pc \in {"off", "look", "mark"}
        /\ \A q \in Runners \ {r} : run'[q] = run[q]
    BY <1>6, <2>1, OldTypes, Finds DEF Find
  <2>3. \A q \in Runners \ {r} : run'[q].pc = "off"
    BY <2>1, <2>2, Solo DEF InTurn, Off
  <2>4. Project(r) \in Projects => Suits(proj'[Project(r)], run'[r])
    BY <2>1, <2>2 DEF Suits, Off
  <2>5. \A p \in Projects : p # Project(r) => proj'[p] = proj[p]
    BY <1>6, OldTypes DEF Find, Reset
  <2>. QED
    BY <2>1, <2>2, <2>3, <2>4, <2>5, AllowedFixed, OwnMode DEF Off
<1>7. ASSUME NEW r \in Runners, Look(r)
      PROVE  QueueMode'
  <2>. SUFFICES ASSUME InTurn
                PROVE  QueueMode'
    BY AllowedFixed DEF QueueMode, InTurn
  <2>1. /\ run[r].pc = "look"
        /\ Carried(r)
        /\ Project(r) \in Projects => Suits(proj[Project(r)], run[r])
    BY <1>7, OldAlone, OldSuits DEF Look, At, Carrying
  <2>2. /\ proj' = proj
        /\ run'[r].pc = "mark"
        /\ run'[r].entry = run[r].entry /\ run'[r].via = run[r].via
        /\ \A q \in Runners \ {r} : run'[q] = run[q]
    BY <1>7, <2>1, OldTypes DEF Look, RunsTyped, RunnerType
  <2>3. \A q \in Runners \ {r} : run'[q].pc = "off"
    BY <2>1, <2>2, Solo DEF InTurn, Off
  <2>4. Project(r) \in Projects => Suits(proj'[Project(r)], run'[r])
    BY <2>1, <2>2 DEF Suits, Off
  <2>5. \A p \in Projects : p # Project(r) => proj'[p] = proj[p]
    BY <1>7, OldTypes DEF Look, Reset
  <2>. QED
    BY <2>1, <2>2, <2>3, <2>4, <2>5, AllowedFixed, OwnMode DEF Off
<1>8. ASSUME NEW r \in Runners, Mark(r)
      PROVE  QueueMode'
  <2>. SUFFICES ASSUME InTurn
                PROVE  QueueMode'
    BY AllowedFixed DEF QueueMode, InTurn
  <2>1. /\ run[r].pc = "mark"
        /\ Carried(r)
        /\ Project(r) \in Projects => Suits(proj[Project(r)], run[r])
    BY <1>8, OldAlone, OldSuits DEF Mark, At, Carrying
  <2>2. /\ proj' = proj
        /\ run'[r].pc \in {"find", "flag", "wait"}
        /\ run'[r].entry = run[r].entry /\ run'[r].via = run[r].via
        /\ \A q \in Runners \ {r} : run'[q] = run[q]
    BY <1>8, <2>1, OldTypes, Goes DEF Mark, Steps
  <2>3. \A q \in Runners \ {r} : run'[q].pc = "off"
    BY <2>1, <2>2, Solo DEF InTurn, Off
  <2>4. Project(r) \in Projects => Suits(proj'[Project(r)], run'[r])
    BY <2>1, <2>2 DEF Suits, Off
  <2>5. \A p \in Projects : p # Project(r) => proj'[p] = proj[p]
    BY <1>8, OldTypes DEF Mark, Reset
  <2>. QED
    BY <2>1, <2>2, <2>3, <2>4, <2>5, AllowedFixed, OwnMode DEF Off
<1>9. ASSUME NEW r \in Runners, StartWait(r)
      PROVE  QueueMode'
  <2>. SUFFICES ASSUME InTurn
                PROVE  QueueMode'
    BY AllowedFixed DEF QueueMode, InTurn
  <2>1. /\ run[r].pc = "wait"
        /\ Carried(r)
        /\ Project(r) \in Projects => Suits(proj[Project(r)], run[r])
    BY <1>9, OldAlone, OldSuits DEF StartWait, At, Carrying
  <2>2. proj' = proj /\ (\A q \in Runners \ {r} : run'[q] = run[q])
        /\ \/ TRUE /\ run'[r] = Off
           \/ /\ run'[r].pc \in {"restore"}
              /\ run'[r].entry = run[r].entry /\ run'[r].via = run[r].via
    BY <1>9, <2>1, OldTypes, Goes, Ends DEF StartWait, Steps
  <2>3. \A q \in Runners \ {r} : run'[q].pc = "off"
    BY <2>1, <2>2, Solo DEF InTurn, Off
  <2>4. Project(r) \in Projects => Suits(proj'[Project(r)], run'[r])
    BY <2>1, <2>2 DEF Suits, Off
  <2>5. \A p \in Projects : p # Project(r) => proj'[p] = proj[p]
    BY <1>9, OldTypes DEF StartWait, Reset
  <2>. QED
    BY <2>1, <2>2, <2>3, <2>4, <2>5, AllowedFixed, OwnMode DEF Off
<1>10. ASSUME NEW r \in Runners, SetQueueMode(r)
      PROVE  QueueMode'
  <2>. SUFFICES ASSUME InTurn
                PROVE  QueueMode'
    BY AllowedFixed DEF QueueMode, InTurn
  <2>1. /\ run[r].pc = "flag"
        /\ Carried(r)
        /\ Project(r) \in Projects => Suits(proj[Project(r)], run[r])
    BY <1>10, OldAlone, OldSuits DEF SetQueueMode, At, Carrying
  <2>2. /\ run'[r].pc = "start" /\ run[r].via # "start"
        /\ run'[r].entry = run[r].entry /\ run'[r].via = run[r].via
        /\ \A q \in Runners \ {r} : run'[q] = run[q]
    BY <1>10, <2>1, OldTypes, Goes DEF SetQueueMode, Steps, Carried
  <2>3. \A q \in Runners \ {r} : run'[q].pc = "off"
    BY <2>1, <2>2, Solo DEF InTurn, Off
  <2>4. Project(r) \in Projects => Suits(proj'[Project(r)], run'[r])
    BY <2>1, <2>2 DEF Suits, Off
  <2>5. \A p \in Projects : p # Project(r) => proj'[p] = proj[p]
    BY <1>10, OldTypes DEF SetQueueMode, Reset
  <2>. QED
    BY <2>1, <2>2, <2>3, <2>4, <2>5, AllowedFixed, OwnMode DEF Off
<1>11. ASSUME NEW r \in Runners, StartChecks(r)
      PROVE  QueueMode'
  <2>. SUFFICES ASSUME InTurn
                PROVE  QueueMode'
    BY AllowedFixed DEF QueueMode, InTurn
  <2>1. /\ run[r].pc = "start"
        /\ Carried(r)
        /\ Project(r) \in Projects => Suits(proj[Project(r)], run[r])
    BY <1>11, OldAlone, OldSuits DEF StartChecks, At, Carrying
  <2>2. proj' = proj /\ (\A q \in Runners \ {r} : run'[q] = run[q])
        /\ \/ run[r].via = "start" /\ run'[r] = Off
           \/ /\ run'[r].pc \in {"triage", "restore"}
              /\ run'[r].entry = run[r].entry /\ run'[r].via = run[r].via
    BY <1>11, <2>1, OldTypes, Goes, Ends DEF StartChecks, Fails, Steps
  <2>3. \A q \in Runners \ {r} : run'[q].pc = "off"
    BY <2>1, <2>2, Solo DEF InTurn, Off
  <2>4. Project(r) \in Projects => Suits(proj'[Project(r)], run'[r])
    BY <2>1, <2>2 DEF Suits, Off
  <2>5. \A p \in Projects : p # Project(r) => proj'[p] = proj[p]
    BY <1>11, OldTypes DEF StartChecks, Reset
  <2>. QED
    BY <2>1, <2>2, <2>3, <2>4, <2>5, AllowedFixed, OwnMode DEF Off
<1>12. ASSUME NEW r \in Runners, Triage(r)
      PROVE  QueueMode'
  <2>. SUFFICES ASSUME InTurn
                PROVE  QueueMode'
    BY AllowedFixed DEF QueueMode, InTurn
  <2>1. /\ run[r].pc = "triage"
        /\ Carried(r)
        /\ Project(r) \in Projects => Suits(proj[Project(r)], run[r])
    BY <1>12, OldAlone, OldSuits DEF Triage, At, Carrying
  <2>0. proj[Project(r)].state = "IDLE"
    BY <1>12, <2>1, OldAlone, OldCarrying DEF Alone, Steady, InTurn, Carried
  <2>2. /\ Project(r) \in Projects
        /\ proj'[Project(r)].state = proj[Project(r)].state
        /\ proj'[Project(r)].queued = proj[Project(r)].queued
        /\ \A q \in Runners \ {r} : run'[q] = run[q]
        /\ \/ run[r].via = "start" /\ run'[r] = Off
           \/ /\ run'[r].entry = run[r].entry /\ run'[r].via = run[r].via
              /\ run'[r].pc \in {"setup", "restore", "clean"}
    BY <1>12, <2>1, OldTypes, <2>0, Goes, Ends DEF Triage, Fails, RunsTyped, RunnerType, Steps, Carried, ProjectType
  <2>3. \A q \in Runners \ {r} : run'[q].pc = "off"
    BY <2>1, <2>2, Solo DEF InTurn, Off
  <2>4. Project(r) \in Projects => Suits(proj'[Project(r)], run'[r])
    BY <2>1, <2>2, <2>0 DEF Suits, Off
  <2>5. \A p \in Projects : p # Project(r) => proj'[p] = proj[p]
    BY <1>12, OldTypes DEF Triage, Reset
  <2>. QED
    BY <2>1, <2>2, <2>3, <2>4, <2>5, AllowedFixed, OwnMode DEF Off
<1>13. ASSUME NEW r \in Runners, Setup(r)
      PROVE  QueueMode'
  <2>. SUFFICES ASSUME InTurn
                PROVE  QueueMode'
    BY AllowedFixed DEF QueueMode, InTurn
  <2>1. /\ run[r].pc = "setup"
        /\ Carried(r)
        /\ Project(r) \in Projects => Suits(proj[Project(r)], run[r])
    BY <1>13, OldAlone, OldSuits DEF Setup, At, Carrying
  <2>0. proj[Project(r)].state = "IDLE"
    BY <1>13, <2>1, OldAlone, OldCarrying DEF Alone, Steady, InTurn, Carried
  <2>2. /\ Project(r) \in Projects
        /\ proj'[Project(r)].state = proj[Project(r)].state
        /\ proj'[Project(r)].queued = proj[Project(r)].queued
        /\ \A q \in Runners \ {r} : run'[q] = run[q]
        /\ \/ run[r].via = "start" /\ run'[r] = Off
           \/ /\ run'[r].entry = run[r].entry /\ run'[r].via = run[r].via
              /\ run'[r].pc \in {"transition", "restore"}
    BY <1>13, <2>1, OldTypes, Goes, Ends DEF Setup, Fails, Steps, Carried, ProjectType
  <2>3. \A q \in Runners \ {r} : run'[q].pc = "off"
    BY <2>1, <2>2, Solo DEF InTurn, Off
  <2>4. Project(r) \in Projects => Suits(proj'[Project(r)], run'[r])
    BY <2>1, <2>2, <2>0 DEF Suits, Off
  <2>5. \A p \in Projects : p # Project(r) => proj'[p] = proj[p]
    BY <1>13, OldTypes DEF Setup, Reset
  <2>. QED
    BY <2>1, <2>2, <2>3, <2>4, <2>5, AllowedFixed, OwnMode DEF Off
<1>14. ASSUME NEW r \in Runners, Transition(r)
      PROVE  QueueMode'
  <2>. SUFFICES ASSUME InTurn
                PROVE  QueueMode'
    BY AllowedFixed DEF QueueMode, InTurn
  <2>1. /\ run[r].pc = "transition"
        /\ Carried(r)
        /\ Project(r) \in Projects => Suits(proj[Project(r)], run[r])
    BY <1>14, OldAlone, OldSuits DEF Transition, At, Carrying
  <2>0. proj[Project(r)].state = "IDLE"
    BY <1>14, <2>1, OldAlone, OldCarrying DEF Alone, Steady, InTurn, Carried
  <2>2. /\ Project(r) \in Projects
        /\ proj'[Project(r)].queued = proj[Project(r)].queued
        /\ run'[r].pc = "loop"
        /\ run'[r].entry = run[r].entry /\ run'[r].via = run[r].via
        /\ \A q \in Runners \ {r} : run'[q] = run[q]
    BY <1>14, <2>1, OldTypes, <2>0, Goes DEF Transition, Steps, Carried, ProjectType
  <2>3. \A q \in Runners \ {r} : run'[q].pc = "off"
    BY <2>1, <2>2, Solo DEF InTurn, Off
  <2>4. Project(r) \in Projects => Suits(proj'[Project(r)], run'[r])
    BY <2>1, <2>2, <2>0 DEF Suits, Off
  <2>5. \A p \in Projects : p # Project(r) => proj'[p] = proj[p]
    BY <1>14, OldTypes DEF Transition, Reset
  <2>. QED
    BY <2>1, <2>2, <2>3, <2>4, <2>5, AllowedFixed, OwnMode DEF Off
<1>15. ASSUME NEW r \in Runners, StartLoop(r)
      PROVE  QueueMode'
  <2>. SUFFICES ASSUME InTurn
                PROVE  QueueMode'
    BY AllowedFixed DEF QueueMode, InTurn
  <2>1. /\ run[r].pc = "loop"
        /\ Carried(r)
        /\ Project(r) \in Projects => Suits(proj[Project(r)], run[r])
    BY <1>15, OldAlone, OldSuits DEF StartLoop, At, Carrying
  <2>2. proj' = proj /\ (\A q \in Runners \ {r} : run'[q] = run[q])
        /\ \/ run[r].via = "start" /\ run'[r] = Off
           \/ /\ run'[r].pc \in {"save", "undo"}
              /\ run'[r].entry = run[r].entry /\ run'[r].via = run[r].via
    BY <1>15, <2>1, OldTypes, Goes, Ends DEF StartLoop, Steps
  <2>3. \A q \in Runners \ {r} : run'[q].pc = "off"
    BY <2>1, <2>2, Solo DEF InTurn, Off
  <2>4. Project(r) \in Projects => Suits(proj'[Project(r)], run'[r])
    BY <2>1, <2>2 DEF Suits, Off
  <2>5. \A p \in Projects : p # Project(r) => proj'[p] = proj[p]
    BY <1>15, OldTypes DEF StartLoop, Reset
  <2>. QED
    BY <2>1, <2>2, <2>3, <2>4, <2>5, AllowedFixed, OwnMode DEF Off
<1>16. ASSUME NEW r \in Runners, SaveOptions(r)
      PROVE  QueueMode'
  <2>. SUFFICES ASSUME InTurn
                PROVE  QueueMode'
    BY AllowedFixed DEF QueueMode, InTurn
  <2>1. /\ run[r].pc = "save"
        /\ Carried(r)
        /\ Project(r) \in Projects => Suits(proj[Project(r)], run[r])
    BY <1>16, OldAlone, OldSuits DEF SaveOptions, At, Carrying
  <2>0. proj[Project(r)].state = "INITIALIZE"
    BY <1>16, <2>1, OldAlone, OldCarrying DEF Alone, Steady, InTurn, Carried
  <2>2. /\ Project(r) \in Projects
        /\ proj'[Project(r)].state = "INITIALIZE" /\ proj'[Project(r)].opts = "entry"
        /\ run'[r] = Off
        /\ \A q \in Runners \ {r} : run'[q] = run[q]
    BY <1>16, <2>1, OldTypes, <2>0, Ends DEF SaveOptions, Carried, ProjectType
  <2>3. \A q \in Runners \ {r} : run'[q].pc = "off"
    BY <2>1, <2>2, Solo DEF InTurn, Off
  <2>4. Project(r) \in Projects => Suits(proj'[Project(r)], run'[r])
    BY <2>1, <2>2 DEF Suits, Off
  <2>5. \A p \in Projects : p # Project(r) => proj'[p] = proj[p]
    BY <1>16, OldTypes DEF SaveOptions, Reset
  <2>. QED
    BY <2>1, <2>2, <2>3, <2>4, <2>5, AllowedFixed, OwnMode DEF Off
<1>17. ASSUME NEW r \in Runners, Undo(r)
      PROVE  QueueMode'
  <2>. SUFFICES ASSUME InTurn
                PROVE  QueueMode'
    BY AllowedFixed DEF QueueMode, InTurn
  <2>1. /\ run[r].pc = "undo"
        /\ Carried(r)
        /\ Project(r) \in Projects => Suits(proj[Project(r)], run[r])
    BY <1>17, OldAlone, OldSuits DEF Undo, At, Carrying
  <2>2. /\ proj'[Project(r)].queued = FALSE
        /\ \A q \in Runners \ {r} : run'[q] \in {run[q], Off}
        /\ \/ run'[r] = Off
           \/ run'[r].pc \in {"off", "restore"} /\ run'[r].entry = run[r].entry
    BY <1>17, <2>1, OldTypes, Stops DEF Undo, Reset, Idle, Steps, Carried
  <2>3. \A q \in Runners \ {r} : run'[q].pc = "off"
    BY <2>1, <2>2, Solo DEF InTurn, Off
  <2>4. Project(r) \in Projects => Suits(proj'[Project(r)], run'[r])
    BY <2>1, <2>2 DEF Suits, Off
  <2>5. \A p \in Projects : p # Project(r) => proj'[p] = proj[p]
    BY <1>17, OldTypes DEF Undo, Reset
  <2>. QED
    BY <2>1, <2>2, <2>3, <2>4, <2>5, AllowedFixed, OwnMode DEF Off
<1>18. ASSUME NEW r \in Runners, Restore(r)
      PROVE  QueueMode'
  <2>. SUFFICES ASSUME InTurn
                PROVE  QueueMode'
    BY AllowedFixed DEF QueueMode, InTurn
  <2>1. /\ run[r].pc = "restore"
        /\ Carried(r)
        /\ Project(r) \in Projects => Suits(proj[Project(r)], run[r])
    BY <1>18, OldAlone, OldSuits DEF Restore, At, Carrying
  <2>2. proj' = proj /\ (\A q \in Runners \ {r} : run'[q] = run[q])
        /\ \/ Project(r) = Wait /\ run'[r] = Off
           \/ /\ run'[r].pc \in {"clean"}
              /\ run'[r].entry = run[r].entry /\ run'[r].via = run[r].via
    BY <1>18, <2>1, OldTypes, Goes, Ends DEF Restore, Steps
  <2>3. \A q \in Runners \ {r} : run'[q].pc = "off"
    BY <2>1, <2>2, Solo DEF InTurn, Off
  <2>4. Project(r) \in Projects => Suits(proj'[Project(r)], run'[r])
    BY <2>1, <2>2, OldCarrying DEF Suits, Off
  <2>5. \A p \in Projects : p # Project(r) => proj'[p] = proj[p]
    BY <1>18, OldTypes DEF Restore, Reset
  <2>. QED
    BY <2>1, <2>2, <2>3, <2>4, <2>5, AllowedFixed, OwnMode DEF Off
<1>19. ASSUME NEW r \in Runners, Clean(r)
      PROVE  QueueMode'
  <2>. SUFFICES ASSUME InTurn
                PROVE  QueueMode'
    BY AllowedFixed DEF QueueMode, InTurn
  <2>1. /\ run[r].pc = "clean"
        /\ Carried(r)
        /\ Project(r) \in Projects => Suits(proj[Project(r)], run[r])
    BY <1>19, OldAlone, OldSuits DEF Clean, At, Carrying
  <2>2. /\ proj'[Project(r)].queued = FALSE
        /\ \A q \in Runners \ {r} : run'[q] \in {run[q], Off}
        /\ \/ run'[r] = Off
           \/ run'[r].pc \in {"off", "find"} /\ run'[r].entry = run[r].entry
    BY <1>19, <2>1, OldTypes, Stops, Goes, Ends DEF Clean, Reset, Idle, Steps, Carried, ProjectType, Entry
  <2>3. \A q \in Runners \ {r} : run'[q].pc = "off"
    BY <2>1, <2>2, Solo DEF InTurn, Off
  <2>4. Project(r) \in Projects => Suits(proj'[Project(r)], run'[r])
    BY <2>1, <2>2 DEF Suits, Off
  <2>5. \A p \in Projects : p # Project(r) => proj'[p] = proj[p]
    BY <1>19, OldTypes DEF Clean, Reset
  <2>. QED
    BY <2>1, <2>2, <2>3, <2>4, <2>5, AllowedFixed, OwnMode DEF Off
<1>20. ASSUME NEW r \in Runners, Crash(r)
      PROVE  QueueMode'
  BY <1>20, AllowedFixed DEF Crash, QueueMode
<1>21. ASSUME NEW p \in Projects, Block(p)
      PROVE  QueueMode'
  <2>. SUFFICES ASSUME InTurn
                PROVE  QueueMode'
    BY AllowedFixed DEF QueueMode, InTurn
  <2>1. /\ \A x \in Projects :
             /\ proj'[x].queued = proj[x].queued /\ proj'[x].opts = proj[x].opts
             /\ proj'[x].state = "IDLE" <=> proj[x].state = "IDLE"
        /\ run' = run
    BY <1>21, OldTypes DEF Block, ProjectType
  <2>. QED
    BY <2>1, OldMode, AllowedFixed DEF QueueMode, Serving, Project, Entry
<1>22. ASSUME NEW p \in Projects, ResetBlocked(p)
      PROVE  QueueMode'
  <2>. SUFFICES ASSUME InTurn
                PROVE  QueueMode'
    BY AllowedFixed DEF QueueMode, InTurn
  <2>1. /\ \A x \in Projects : proj'[x] = IF x = p THEN Idle ELSE proj[x]
        /\ run' = run
    BY <1>22, OldTypes DEF ResetBlocked, Reset
  <2>. QED
    BY <2>1, OldMode, AllowedFixed DEF QueueMode, Serving, Project, Entry, Idle
<1>23. ASSUME NEW via \in {"qrun", "start"}, NEW e \in Entries, ByHand(via, e)
      PROVE  QueueMode'
  <2>. SUFFICES ASSUME InTurn
                PROVE  QueueMode'
    BY AllowedFixed DEF QueueMode, InTurn
  <2>1. \A q \in Runners : run[q].pc = "off"
    BY <1>23 DEF ByHand, Turn, At, Runners, InTurn
  <2>. QED
    BY <1>23, <2>1, AllowedFixed, RestingMode DEF ByHand
<1>. QED
  BY <1>1, <1>2, <1>3, <1>4, <1>5, <1>6, <1>7, <1>8, <1>9, <1>10, <1>11,
     <1>12, <1>13, <1>14, <1>15, <1>16, <1>17, <1>18, <1>19, <1>20, <1>21,
     <1>22, <1>23
  DEF Next, Watchdog, RunStep, Owner, vars, WaitOver, Cron, Command, Qadd,
     Qdel, Qedit

-----------------------------------------------------------------------------
(* Nothing lost *)

LEMMA OldLost ==
  ASSUME QueueInv
  PROVE  NothingLost
  BY DEF QueueInv

(* An entry served stays served. *)
LEMMA ServedGrows ==
  ASSUME QueueInv, NEW e \in Entries, served' = Append(served, e)
  PROVE  e \in ToSet(served') /\ ToSet(served) \subseteq ToSet(served')
<1>1. served \in Seq(Entries)
  BY Zenon DEF QueueInv, TypeOK
<1>2. /\ Len(served) \in Nat /\ DOMAIN served = 1..Len(served)
      /\ DOMAIN served' = 1..(Len(served) + 1)
      /\ served'[Len(served) + 1] = e
      /\ \A i \in 1..Len(served) : served'[i] = served[i]
  BY <1>1, AppendProperties, LenProperties
<1>. QED
  BY <1>2 DEF ToSet

(* The runner's entry needs no more care, is taken care of or is dropped.   *)
Given(r) ==
  \/ Entry(r) \in passed' \cup ToSet(served') \cup dropped'
  \/ run'[r].pc \in Holding /\ run'[r].entry = Entry(r) /\ run'[r].via # "start"
  \/ \A i \in DOMAIN lines' : lines'[i].done => lines'[i].entry # Entry(r)
  \/ ~ Holds(r) /\ lines' = lines

(* Another runner keeps what it holds, or drops it. *)
Spared(r) ==
  \A q \in Runners \ {r} : Holds(q) => run'[q] = run[q] \/ Entry(q) \in dropped'

(* What is cared for stays cared for. *)
Grows ==
  /\ passed \subseteq passed' /\ ToSet(served) \subseteq ToSet(served')
  /\ dropped \subseteq dropped'

(* A step of the one runner need only care for its own entry. *)
LEMMA OwnHand ==
  ASSUME QueueInv, NEW r \in Runners, Given(r), Spared(r), Grows,
         \A i \in DOMAIN lines' : lines'[i].done =>
           \/ lines'[i].entry = Entry(r)
           \/ \E j \in DOMAIN lines : lines[j].done /\ lines[j].entry = lines'[i].entry
  PROVE  NothingLost'
<1>1. ASSUME NEW e, NEW j \in DOMAIN lines, lines[j].done, lines[j].entry = e
      PROVE  \/ e \in passed' \cup ToSet(served') \cup dropped'
             \/ InHand(e)'
             \/ e = Entry(r) /\ Holds(r)
  <2>1. e \in passed \cup ToSet(served) \cup dropped \/ InHand(e)
    BY <1>1, OldLost DEF NothingLost
  <2>2. CASE e \in passed \cup ToSet(served) \cup dropped
    BY <2>2 DEF Grows
  <2>3. ASSUME NEW q \in Runners, Holds(q), Entry(q) = e
        PROVE  \/ e \in dropped'
               \/ InHand(e)'
               \/ e = Entry(r) /\ Holds(r)
    <3>1. q # r => run'[q] = run[q] \/ Entry(q) \in dropped'
      BY <2>3 DEF Spared
    <3>. QED
      BY <2>3, <3>1 DEF InHand, Holds, Entry
  <2>. QED
    BY <2>1, <2>2, <2>3 DEF InHand
<1>2. ASSUME NEW i \in DOMAIN lines', lines'[i].done, NEW e, e = lines'[i].entry
      PROVE  e \in passed' \cup ToSet(served') \cup dropped' \/ InHand(e)'
  <2>1. CASE e # Entry(r)
    BY <1>1, <1>2, <2>1
  <2>2. CASE e = Entry(r) /\ ~ Holds(r) /\ lines' = lines
    BY <1>1, <1>2, <2>2
  <2>3. CASE e = Entry(r) /\ ~ (~ Holds(r) /\ lines' = lines)
    BY <1>2, <2>3 DEF Given, InHand, Holds, Entry
  <2>. QED
    BY <2>1, <2>2, <2>3
<1>. QED
  BY <1>2 DEF NothingLost

(* ... all the more if it does not touch the file. *)
LEMMA FileKept ==
  ASSUME QueueInv, NEW r \in Runners, Given(r), Spared(r), Grows, lines' = lines
  PROVE  NothingLost'
  BY OwnHand

(* The owner's edits mark no line done. *)
LEMMA FewerDone ==
  ASSUME QueueInv,
         \A i \in DOMAIN lines' : lines'[i].done =>
           \E j \in DOMAIN lines : lines[j].done /\ lines[j].entry = lines'[i].entry,
         run' = run, passed' = passed, served' = served, dropped' = dropped
  PROVE  NothingLost'
<1>1. ToSet(served') = ToSet(served) /\ \A e : InHand(e)' <=> InHand(e)
  BY DEF InHand, Holds, Entry
<1>. QED
  BY <1>1, OldLost DEF NothingLost, InHand, Holds, Entry

(* When the loop's stop kills a runner, what it holds is dropped. *)
LEMMA KilledDrops ==
  ASSUME QueueInv, NEW r \in Runners, NEW pc \in Steps, LoopStops(r, pc)
  PROVE  /\ Spared(r) /\ dropped \subseteq dropped'
         /\ \/ /\ run'[r].pc = pc /\ run'[r].entry = run[r].entry
               /\ run'[r].via = run[r].via
            \/ Holds(r) => Entry(r) \in dropped'
<1>1. CASE loop' = loop /\ Goto(r, pc) /\ UNCHANGED dropped
  BY <1>1, OldTypes, Goes DEF Spared
<1>2. CASE /\ loop' = FALSE /\ Drops({"tick"})
           /\ run' = [q \in Runners |->
                        IF q = "tick" THEN Off
                        ELSE IF q = r THEN [run[q] EXCEPT !.pc = pc] ELSE run[q]]
  <2>1. /\ dropped \subseteq dropped'
        /\ Holds("tick") => Entry("tick") \in dropped'
    BY <1>2 DEF Drops
  <2>2. \A q \in Runners \ {"tick", r} : run'[q] = run[q]
    BY <1>2
  <2>3. CASE r = "tick"
    BY <2>1, <2>2, <2>3 DEF Spared
  <2>4. CASE r # "tick"
    <3>1. run'[r] = [run[r] EXCEPT !.pc = pc]
      BY <1>2, <2>4
    <3>2. run[r] \in RunnerType
      BY OldTypes DEF RunsTyped
    <3>3. /\ run'[r].pc = pc /\ run'[r].entry = run[r].entry
          /\ run'[r].via = run[r].via
      BY <3>1, <3>2 DEF RunnerType
    <3>. QED
      BY <2>1, <2>2, <3>3 DEF Spared
  <2>. QED
    BY <2>3, <2>4
<1>. QED
  BY <1>1, <1>2 DEF LoopStops

(* Every step keeps what is marked done in hand, served, passed over or      *)
(* dropped.                                                                 *)
LEMMA NothingLostKept ==
  ASSUME QueueInv, [Next]_vars
  PROVE  NothingLost'
<1>1. CASE UNCHANGED <<lines, run, served, passed, dropped>>
  BY <1>1, FewerDone
<1>2. CASE Answer
  <2>1. ~ Holds("tick") /\ Begin("tick", "discord", "find", "none")
    BY <1>2 DEF Answer, Resting, At, Holds, Holding
  <2>2. \A q \in Runners \ {"tick"} : run'[q] = run[q]
    BY <2>1 DEF Begin
  <2>. QED
    BY <1>2, <2>1, <2>2, FileKept DEF Answer, Given, Spared, Grows, Runners
<1>3. CASE WaitExpires
  <2>1. ~ Holds("tick") /\ Begin("tick", "check", "find", "none")
    BY <1>3 DEF WaitExpires, Resting, At, Holds, Holding
  <2>2. \A q \in Runners \ {"tick"} : run'[q] = run[q]
    BY <2>1 DEF Begin
  <2>. QED
    BY <1>3, <2>1, <2>2, FileKept DEF WaitExpires, Given, Spared, Grows, Runners
<1>4. ASSUME NEW p \in Projects, Finish(p)
      PROVE  NothingLost'
  <2>1. ~ Holds("tick")
    BY <1>4 DEF Finish, Resting, At, Holds, Holding
  <2>2. \A q \in Runners \ {"tick"} : run'[q] = run[q]
    BY <1>4, OldTypes DEF Finish, Begin, RunsTyped
  <2>. QED
    BY <1>4, <2>1, <2>2, FileKept DEF Finish, Given, Spared, Grows, Runners
<1>5. ASSUME NEW r \in Runners, Find(r)
      PROVE  NothingLost'
  <2>1. ~ Holds(r)
    BY <1>5 DEF Find, At, Holds, Holding
  <2>2. \A q \in Runners \ {r} : run'[q] = run[q]
    BY <1>5, OldTypes DEF Find, EndRun, RunsTyped
  <2>. QED
    BY <1>5, <2>1, <2>2, FileKept DEF Find, Given, Spared, Grows
<1>6. ASSUME NEW r \in Runners, Look(r)
      PROVE  NothingLost'
  <2>1. ~ Holds(r)
    BY <1>6 DEF Look, At, Holds, Holding
  <2>2. \A q \in Runners \ {r} : run'[q] = run[q]
    BY <1>6, OldTypes DEF Look, RunsTyped
  <2>. QED
    BY <1>6, <2>1, <2>2, FileKept DEF Look, Given, Spared, Grows
<1>7. ASSUME NEW r \in Runners, Mark(r)
      PROVE  NothingLost'
  <2>1. /\ run[r].pc = "mark" /\ Carried(r) /\ ~ Holds(r)
        /\ served' = served /\ dropped' = dropped
    BY <1>7, OldAlone DEF Mark, At, Carrying, Holds, Holding
  <2>2. /\ run'[r].entry = run[r].entry /\ run'[r].via = run[r].via
        /\ \A q \in Runners \ {r} : run'[q] = run[q]
    BY <1>7, OldTypes, Goes DEF Mark, Steps
  <2>. DEFINE is == LineOf(Entry(r), FALSE)
  <2>3. CASE UNCHANGED <<lines, passed>>
    BY <2>1, <2>2, <2>3, FileKept DEF Given, Spared, Grows
  <2>4. CASE /\ is # {}
             /\ lines' = [lines EXCEPT ![FirstOf(is)].done = TRUE]
             /\ passed' = IF run[r].skip THEN passed \cup {Entry(r)} ELSE passed
             /\ Goto(r, IF run[r].skip THEN "find"
                        ELSE IF Project(r) = Wait THEN "wait" ELSE "flag")
    <3>0. /\ FirstOf(is) \in DOMAIN lines
          /\ lines[FirstOf(is)] = [entry |-> Entry(r), done |-> FALSE]
      BY <2>4, OldTypes, LinesOf, Zenon
    <3>. HIDE DEF is
    <3>1. FirstOf(is) \in DOMAIN lines /\ lines[FirstOf(is)].entry = Entry(r)
      BY <3>0
    <3>2. /\ DOMAIN lines' = DOMAIN lines
          /\ \A j \in DOMAIN lines :
               /\ lines'[j].entry = lines[j].entry
               /\ j # FirstOf(is) => lines'[j].done = lines[j].done
      BY <2>4, <3>1, OldTypes, Flips
    <3>3. Given(r)
      BY <2>1, <2>4, OldTypes, Goes DEF Given, Holding, Steps, Entry, Carried
    <3>4. Grows /\ Spared(r)
      BY <2>1, <2>2, <2>4 DEF Grows, Spared
    <3>5. \A i \in DOMAIN lines' : lines'[i].done =>
            \/ lines'[i].entry = Entry(r)
            \/ \E j \in DOMAIN lines : lines[j].done /\ lines[j].entry = lines'[i].entry
      BY <3>1, <3>2
    <3>. QED
      BY <3>3, <3>4, <3>5, OwnHand
  <2>. QED
    BY <1>7, <2>3, <2>4 DEF Mark
<1>8. ASSUME NEW r \in Runners, StartWait(r)
      PROVE  NothingLost'
  <2>1. /\ run[r].pc = "wait" /\ Entry(r) \in Entries /\ run[r].via # "start"
        /\ lines' = lines /\ passed' = passed /\ dropped' = dropped
    BY <1>8, OldAlone DEF StartWait, At, Carrying, Carried
  <2>2. CASE served' = Append(served, Entry(r)) /\ EndRun(r)
    BY <2>1, <2>2, OldTypes, ServedGrows, Ends, FileKept DEF Given, Spared, Grows
  <2>3. CASE Goto(r, "restore") /\ served' = served
    BY <2>1, <2>3, OldTypes, Goes, FileKept DEF Given, Spared, Grows, Steps, Holding, Entry
  <2>. QED
    BY <1>8, <2>2, <2>3 DEF StartWait
<1>9. ASSUME NEW r \in Runners, SetQueueMode(r)
      PROVE  NothingLost'
  <2>1. run'[r].pc = "start" /\ run'[r].entry = run[r].entry /\ run'[r].via = run[r].via
        /\ \A q \in Runners \ {r} : run'[q] = run[q]
    BY <1>9, OldTypes, Goes DEF SetQueueMode, Steps
  <2>2. Given(r)
    BY <1>9, <2>1 DEF SetQueueMode, Given, Holds, Holding, Entry
  <2>. QED
    BY <1>9, <2>1, <2>2, FileKept DEF SetQueueMode, Spared, Grows
<1>10. ASSUME NEW r \in Runners, StartChecks(r)
      PROVE  NothingLost'
  <2>1. /\ \/ ~ Holds(r)
           \/ /\ run'[r].pc \in Holding /\ run'[r].entry = run[r].entry
              /\ run'[r].via = run[r].via
        /\ \A q \in Runners \ {r} : run'[q] = run[q]
    BY <1>10, OldTypes, Goes, Ends DEF StartChecks, Fails, Steps, Holds, Holding
  <2>2. Given(r)
    BY <1>10, <2>1 DEF StartChecks, Given, Holds, Entry
  <2>. QED
    BY <1>10, <2>1, <2>2, FileKept DEF StartChecks, Spared, Grows
<1>11. ASSUME NEW r \in Runners, Triage(r)
      PROVE  NothingLost'
  <2>0. \/ Goto(r, "setup")
        \/ Fails(r)
        \/ /\ run' = [run EXCEPT ![r].pc = "clean", ![r].skip = TRUE]
           /\ passed' = passed \cup {Entry(r)}
    BY <1>11 DEF Triage
  <2>1. /\ \/ ~ Holds(r)
           \/ Entry(r) \in passed'
           \/ /\ run'[r].pc \in Holding /\ run'[r].entry = run[r].entry
              /\ run'[r].via = run[r].via
        /\ \A q \in Runners \ {r} : run'[q] = run[q]
    <3>1. CASE Goto(r, "setup")
      BY <3>1, OldTypes, Goes DEF Steps, Holding
    <3>2. CASE Fails(r)
      BY <3>2, OldTypes, Goes, Ends DEF Fails, Steps, Holds, Holding
    <3>3. CASE /\ run' = [run EXCEPT ![r].pc = "clean", ![r].skip = TRUE]
               /\ passed' = passed \cup {Entry(r)}
      BY <3>3, OldTypes DEF RunsTyped
    <3>. QED
      BY <2>0, <3>1, <3>2, <3>3
  <2>2. Given(r) /\ Grows
    BY <1>11, <2>1 DEF Triage, Given, Holds, Entry, Grows
  <2>. QED
    BY <1>11, <2>1, <2>2, FileKept DEF Triage, Spared
<1>12. ASSUME NEW r \in Runners, Setup(r)
      PROVE  NothingLost'
  <2>1. /\ \/ ~ Holds(r)
           \/ /\ run'[r].pc \in Holding /\ run'[r].entry = run[r].entry
              /\ run'[r].via = run[r].via
        /\ \A q \in Runners \ {r} : run'[q] = run[q]
    BY <1>12, OldTypes, Goes, Ends DEF Setup, Fails, Steps, Holds, Holding
  <2>2. Given(r)
    BY <1>12, <2>1 DEF Setup, Given, Holds, Entry
  <2>. QED
    BY <1>12, <2>1, <2>2, FileKept DEF Setup, Spared, Grows
<1>13. ASSUME NEW r \in Runners, Transition(r)
      PROVE  NothingLost'
  <2>1. /\ run'[r].pc \in Holding /\ run'[r].entry = run[r].entry
        /\ run'[r].via = run[r].via
        /\ \A q \in Runners \ {r} : run'[q] = run[q]
    BY <1>13, OldTypes, Goes DEF Transition, Steps, Holding
  <2>2. Given(r)
    BY <1>13, <2>1 DEF Transition, Given, Holds, Entry
  <2>. QED
    BY <1>13, <2>1, <2>2, FileKept DEF Transition, Spared, Grows
<1>14. ASSUME NEW r \in Runners, StartLoop(r)
      PROVE  NothingLost'
  <2>1. /\ run[r].pc = "loop" /\ Entry(r) \in Entries
        /\ lines' = lines /\ passed' = passed /\ dropped' = dropped
    BY <1>14, OldAlone DEF StartLoop, At, Carrying, Carried
  <2>2. CASE run[r].via = "start" /\ EndRun(r) /\ served' = served
    BY <2>1, <2>2, OldTypes, Ends, FileKept DEF Given, Spared, Grows, Holds
  <2>3. CASE served' = Append(served, Entry(r)) /\ Goto(r, "save")
    BY <2>1, <2>3, OldTypes, ServedGrows, Goes, FileKept DEF Given, Spared, Grows, Steps
  <2>4. CASE Goto(r, "undo") /\ served' = served
    BY <2>1, <2>4, OldTypes, Goes, FileKept
    DEF Given, Spared, Grows, Steps, Holds, Holding, Entry
  <2>. QED
    BY <1>14, <2>2, <2>3, <2>4 DEF StartLoop
<1>15. ASSUME NEW r \in Runners, SaveOptions(r)
      PROVE  NothingLost'
  <2>1. ~ Holds(r)
    BY <1>15 DEF SaveOptions, At, Holds, Holding
  <2>2. \A q \in Runners \ {r} : run'[q] = run[q]
    BY <1>15 DEF SaveOptions, EndRun
  <2>. QED
    BY <1>15, <2>1, <2>2, FileKept DEF SaveOptions, Given, Spared, Grows
<1>16. ASSUME NEW r \in Runners, Undo(r)
      PROVE  NothingLost'
  <2>1. /\ LoopStops(r, IF run[r].via = "start" THEN "off" ELSE "restore")
        /\ UNCHANGED <<lines, served, passed>>
    BY <1>16 DEF Undo
  <2>2. /\ Spared(r) /\ dropped \subseteq dropped'
        /\ \/ /\ run'[r].pc = IF run[r].via = "start" THEN "off" ELSE "restore"
              /\ run'[r].entry = run[r].entry /\ run'[r].via = run[r].via
           \/ Holds(r) => Entry(r) \in dropped'
    BY <2>1, KilledDrops DEF Steps
  <2>. QED
    BY <2>1, <2>2, FileKept DEF Given, Grows, Holds, Holding, Entry
<1>17. ASSUME NEW r \in Runners, Restore(r)
      PROVE  NothingLost'
  <2>1. /\ run[r].pc = "restore" /\ run[r].via # "start" /\ UNCHANGED <<passed, served>>
    BY <1>17, OldAlone DEF Restore, At, Carrying, Carried
  <2>2. \A q \in Runners \ {r} : run'[q] = run[q]
    BY <1>17, OldTypes DEF Restore, EndRun, Goto, RunsTyped
  <2>. DEFINE is == LineOf(Entry(r), TRUE)
  <2>3. CASE Drops({r}) /\ UNCHANGED lines
    <3>1. Entry(r) \in dropped' /\ dropped \subseteq dropped'
      BY <2>1, <2>3 DEF Drops, Holds, Holding
    <3>. QED
      BY <2>1, <2>2, <2>3, <3>1, FileKept DEF Given, Spared, Grows
  <2>4. CASE /\ is # {} /\ lines' = [lines EXCEPT ![FirstOf(is)].done = FALSE]
             /\ UNCHANGED dropped
    <3>0. /\ FirstOf(is) \in DOMAIN lines
          /\ lines[FirstOf(is)] = [entry |-> Entry(r), done |-> TRUE]
      BY <2>4, OldTypes, LinesOf, Zenon
    <3>. HIDE DEF is
    <3>1. FirstOf(is) \in DOMAIN lines /\ lines[FirstOf(is)].entry = Entry(r)
      BY <3>0
    <3>2. /\ DOMAIN lines' = DOMAIN lines
          /\ \A j \in DOMAIN lines :
               /\ lines'[j].entry = lines[j].entry
               /\ lines'[j].done = IF j = FirstOf(is) THEN FALSE ELSE lines[j].done
      BY <2>4, <3>1, OldTypes, Flips
    <3>3. Given(r)
      BY <3>1, <3>2, OldDistinct DEF Given, Distinct
    <3>4. \A i \in DOMAIN lines' : lines'[i].done =>
            \E j \in DOMAIN lines : lines[j].done /\ lines[j].entry = lines'[i].entry
      BY <3>1, <3>2
    <3>. QED
      BY <2>1, <2>2, <2>4, <3>3, <3>4, OwnHand DEF Spared, Grows
  <2>. QED
    BY <1>17, <2>3, <2>4 DEF Restore
<1>18. ASSUME NEW r \in Runners, Clean(r)
      PROVE  NothingLost'
  <2>1. ~ Holds(r) /\ UNCHANGED <<lines, served, passed>>
    BY <1>18 DEF Clean, At, Holds, Holding
  <2>2. CASE dropped' = dropped /\ (Goto(r, "find") \/ EndRun(r))
    BY <2>1, <2>2, OldTypes, Goes, Ends, FileKept DEF Given, Spared, Grows, Steps
  <2>3. ASSUME NEW pc \in {"find", "off"}, LoopStops(r, pc)
        PROVE  NothingLost'
    BY <2>1, <2>3, KilledDrops, FileKept DEF Given, Grows, Steps
  <2>. QED
    BY <1>18, <2>2, <2>3 DEF Clean
<1>19. ASSUME NEW r \in Runners, Crash(r)
      PROVE  NothingLost'
  <2>1. /\ dropped \subseteq dropped'
        /\ Holds(r) => Entry(r) \in dropped'
        /\ \A q \in Runners \ {r} : run'[q] = run[q]
    BY <1>19, OldTypes DEF Crash, Drops, RunsTyped
  <2>. QED
    BY <1>19, <2>1, FileKept DEF Crash, Given, Spared, Grows
<1>20. ASSUME NEW via \in {"qrun", "start"}, NEW e \in Entries, ByHand(via, e)
      PROVE  NothingLost'
  <2>1. ~ Holds("hand")
    BY <1>20 DEF ByHand, At, Holds, Holding
  <2>2. \A q \in Runners \ {"hand"} : run'[q] = run[q]
    BY <1>20, OldTypes DEF ByHand, Begin, RunsTyped
  <2>. QED
    BY <1>20, <2>1, <2>2, FileKept DEF ByHand, Given, Spared, Grows, Runners
<1>21. ASSUME NEW e \in Entries, Qadd(e)
      PROVE  NothingLost'
  <2>1. \A j \in DOMAIN lines' :
          \/ j \in DOMAIN lines /\ lines'[j] = lines[j]
          \/ j = Len(lines) + 1 /\ lines'[j].done = FALSE
    BY <1>21, OldTypes, Joins DEF Qadd, LineType
  <2>. QED
    BY <1>21, <2>1, FewerDone DEF Qadd
<1>22. ASSUME NEW i \in DOMAIN lines, Qdel(i)
      PROVE  NothingLost'
  <2>1. \A j \in DOMAIN lines' :
          LET k == IF j < i THEN j ELSE j + 1 IN
          k \in DOMAIN lines /\ lines'[j] = lines[k]
    BY <1>22, OldTypes, Leaves DEF Qdel
  <2>. QED
    BY <1>22, <2>1, FewerDone DEF Qdel
<1>23. ASSUME NEW i \in DOMAIN lines, NEW e \in Entries, Qedit(i, e)
      PROVE  NothingLost'
  <2>1. /\ DOMAIN lines' = DOMAIN lines /\ ~ lines[i].done
        /\ \A j \in DOMAIN lines :
             /\ lines'[j].entry = IF j = i THEN e ELSE lines[j].entry
             /\ lines'[j].done = lines[j].done
    BY <1>23, OldTypes, Edits DEF Qedit, Active
  <2>. QED
    BY <1>23, <2>1, FewerDone DEF Qedit
<1>. QED
  BY <1>1, <1>2, <1>3, <1>4, <1>5, <1>6, <1>7, <1>8, <1>9, <1>10, <1>11,
     <1>12, <1>13, <1>14, <1>15, <1>16, <1>17, <1>18, <1>19, <1>20, <1>21,
     <1>22, <1>23
  DEF Next, Watchdog, RunStep, Owner, vars, Initialize, WaitOver, Cron, Block,
     ResetBlocked, Command

-----------------------------------------------------------------------------
(* The invariant *)

(* The other variables. *)
LEMMA OthersTyped ==
  ASSUME QueueInv, [Next]_vars
  PROVE  /\ (waiting \in {"no", "yes", "over"})'
         /\ (loop \in BOOLEAN)'
         /\ (served \in Seq(Entries))'
         /\ (passed \subseteq Entries)' /\ (dropped \subseteq Entries)'
         /\ (kicks \in Nat /\ crashes \in Nat)'
         /\ (allowed \subseteq Disturbances)'
<1>1. (allowed \subseteq Disturbances)'
  BY AllowedFixed DEF QueueInv, TypeOK
<1>2. (waiting \in {"no", "yes", "over"})'
  BY DEF QueueInv, TypeOK, Next, Watchdog, RunStep, Owner, vars, Answer, WaitExpires,
     Initialize, Finish, Find, Look, Mark, StartWait, SetQueueMode, StartChecks, Triage,
     Setup, Transition, StartLoop, SaveOptions, Undo, Restore, Clean, WaitOver, Cron,
     Crash, Block, ResetBlocked, ByHand, Command, Qadd, Qdel, Qedit
<1>3. (loop \in BOOLEAN)'
  BY Zenon DEF QueueInv, TypeOK, LoopStops, Next, Watchdog, RunStep, Owner, vars, Answer,
     WaitExpires, Initialize, Finish, Find, Look, Mark, StartWait, SetQueueMode,
     StartChecks, Triage, Setup, Transition, StartLoop, SaveOptions, Undo, Restore,
     Clean, WaitOver, Cron, Crash, Block, ResetBlocked, ByHand, Command, Qadd, Qdel,
     Qedit
<1>4. (served \in Seq(Entries))' /\ (passed \subseteq Entries)'
  <2>1. served \in Seq(Entries) /\ passed \subseteq Entries
    BY Zenon DEF QueueInv, TypeOK
  <2>2. CASE UNCHANGED <<served, passed>>
    BY <2>1, <2>2
  <2>3. ASSUME NEW r \in Runners, Mark(r) \/ Triage(r) \/ StartWait(r) \/ StartLoop(r)
        PROVE  (served \in Seq(Entries))' /\ (passed \subseteq Entries)'
    <3>1. Entry(r) \in Entries
      BY <2>3, OldCarrying DEF Carrying, Carried, At, Mark, Triage, StartWait, StartLoop
    <3>2. served' \in {served, Append(served, Entry(r))}
      BY <2>3 DEF Mark, Triage, StartWait, StartLoop
    <3>3. passed' \in {passed, passed \cup {Entry(r)}}
      BY <2>3 DEF Mark, Triage, StartWait, StartLoop
    <3>. QED
      BY <2>1, <3>1, <3>2, <3>3, AppendProperties
  <2>. QED
    BY <2>2, <2>3
    DEF Next, Watchdog, RunStep, Owner, vars, Answer, WaitExpires, Initialize, Finish,
     Find, Look, SetQueueMode, StartChecks, Setup, Transition, SaveOptions, Undo, Restore,
     Clean, WaitOver, Cron, Crash, Block, ResetBlocked, ByHand, Command, Qadd, Qdel,
     Qedit
<1>6. (dropped \subseteq Entries)'
  <2>1. dropped \subseteq Entries
    BY DEF QueueInv, TypeOK
  <2>2. CASE UNCHANGED dropped
    BY <2>1, <2>2
  <2>3. ASSUME NEW rs, rs \subseteq Runners, Drops(rs)
        PROVE  (dropped \subseteq Entries)'
    <3>1. \A r \in rs : Holds(r) => Entry(r) \in Entries
      BY <2>3, OldCarrying DEF Carrying, Carried, Holds, Holding
    <3>. QED
      BY <2>1, <2>3, <3>1 DEF Drops
  <2>4. ASSUME NEW r, NEW pc, LoopStops(r, pc)
        PROVE  (dropped \subseteq Entries)'
    BY <2>2, <2>3, <2>4 DEF LoopStops, Runners
  <2>5. ASSUME NEW r \in Runners, Restore(r) \/ Undo(r) \/ Clean(r) \/ Crash(r)
        PROVE  (dropped \subseteq Entries)'
    BY <2>2, <2>3, <2>4, <2>5 DEF Restore, Undo, Clean, Crash
  <2>. QED
    BY <2>2, <2>5
    DEF Next, Watchdog, RunStep, Owner, vars, Answer, WaitExpires, Initialize, Finish,
     Find, Look, Mark, StartWait, SetQueueMode, StartChecks, Triage, Setup, Transition,
     StartLoop, SaveOptions, WaitOver, Cron, Block, ResetBlocked, ByHand, Command, Qadd,
     Qdel, Qedit
<1>5. (kicks \in Nat /\ crashes \in Nat)'
  <2>1. kicks \in Nat /\ crashes \in Nat
    BY DEF QueueInv, TypeOK
  <2>2. CASE UNCHANGED <<kicks, crashes>>
    BY <2>1, <2>2
  <2>3. CASE Command
    BY <2>1, <2>3 DEF Command
  <2>4. ASSUME NEW via, NEW e, ByHand(via, e)
        PROVE  (kicks \in Nat /\ crashes \in Nat)'
    BY <2>1, <2>4 DEF ByHand
  <2>5. ASSUME NEW r, Crash(r)
        PROVE  (kicks \in Nat /\ crashes \in Nat)'
    BY <2>1, <2>5 DEF Crash
  <2>. QED
    BY <2>2, <2>3, <2>4, <2>5
    DEF Next, Watchdog, RunStep, Owner, vars, Answer, WaitExpires, Initialize, Finish,
     Find, Look, Mark, StartWait, SetQueueMode, StartChecks, Triage, Setup, Transition,
     StartLoop, SaveOptions, Undo, Restore, Clean, WaitOver, Cron, Block, ResetBlocked,
     Qadd, Qdel, Qedit
<1>. QED
  BY <1>1, <1>2, <1>3, <1>4, <1>5, <1>6

LEMMA TypesKept ==
  ASSUME QueueInv, [Next]_vars
  PROVE  TypeOK'
<1>1. RunsTyped' /\ (inbox \in Nat)' /\ (proj \in [Projects -> ProjectType])'
      /\ (lines \in Seq(LineType))'
  BY RunnersTyped, InboxTyped, ProjectsTyped, LinesTyped
<1>. QED
  BY <1>1, OthersTyped, Zenon DEF TypeOK, RunsTyped, RunnerType, ProjectType, LineType

(* The file's first lines are as many as its first entries, and not done.   *)
LEMMA FirstLines ==
  ASSUME Init
  PROVE  /\ lines \in Seq(LineType) /\ Distinct
         /\ \A i \in DOMAIN lines : ~ lines[i].done
<1>1. PICK q \in QueueFiles :
        lines = [i \in DOMAIN q |-> [entry |-> q[i], done |-> FALSE]]
  BY DEF Init
<1>2. q \in Seq(Entries) /\ IsInjective(q)
  BY QueueAssumption
<1>3. Len(q) \in Nat /\ DOMAIN q = 1..Len(q) /\ \A i \in 1..Len(q) : q[i] \in Entries
  BY <1>2, LenProperties, ElementOfSeq
<1>4. /\ DOMAIN lines = 1..Len(q)
      /\ \A i \in 1..Len(q) : lines[i].entry = q[i] /\ lines[i].done = FALSE
  BY <1>1, <1>3
<1>5. lines \in [1..Len(q) -> LineType]
  BY <1>1, <1>3 DEF LineType
<1>6. lines \in Seq(LineType)
  BY <1>3, <1>5, SeqDef
<1>. QED
  BY <1>2, <1>3, <1>4, <1>6 DEF Distinct, IsInjective

(* At first nobody runs and nothing is marked. *)
LEMMA InvStarts ==
  ASSUME Init
  PROVE  QueueInv
<1>1. /\ \A r \in Runners : run[r] = Off
      /\ \A p \in Projects : proj[p] = Idle
      /\ inbox = 0
  BY DEF Init
<1>2. TypeOK
  <2>1. lines \in Seq([entry : Entries, done : BOOLEAN])
    BY FirstLines DEF LineType
  <2>2. proj \in [Projects -> ProjectType]
    BY DEF Init, Idle, ProjectType
  <2>3. RunsTyped
    BY OffTyped DEF Init, RunsTyped
  <2>4. /\ served \in Seq(Entries)
        /\ passed \subseteq Entries /\ dropped \subseteq Entries
    BY EmptySeq DEF Init
  <2>5. allowed \subseteq Disturbances
    BY QueueAssumption DEF Init
  <2>6. /\ waiting \in {"no", "yes", "over"} /\ loop \in BOOLEAN /\ inbox \in Nat
        /\ kicks \in Nat /\ crashes \in Nat
    BY DEF Init
  <2>. QED
    BY <2>1, <2>2, <2>3, <2>4, <2>5, <2>6, Zenon DEF TypeOK, ProjectType, RunsTyped, RunnerType
<1>3. Carrying
  BY <1>1 DEF Carrying, Carried, Off
<1>4. Alone
  BY <1>1 DEF Alone, Steady, At, Off, Runners
<1>5. Batches
  BY <1>1 DEF Batches, BatchOf, Idle, Off
<1>6. QueueMode
  BY <1>1 DEF QueueMode, Idle
<1>7. NothingLost
  BY FirstLines DEF NothingLost
<1>. QED
  BY <1>2, <1>3, <1>4, <1>5, <1>6, <1>7, FirstLines DEF QueueInv

(* The invariant is inductive. *)
LEMMA QueueInvariant == Spec => []QueueInv
<1>1. Init => QueueInv
  BY InvStarts
<1>2. QueueInv /\ [Next]_vars => QueueInv'
  <2>. SUFFICES ASSUME QueueInv, [Next]_vars
                PROVE  QueueInv'
    OBVIOUS
  <2>. QED
    BY TypesKept, CarryingKept, AloneKept, BatchesKept, ModeKept, DistinctKept,
       NothingLostKept DEF QueueInv
<1>. QED
  BY <1>1, <1>2, PTL DEF Spec

(* Every variable keeps its type. *)
THEOREM QueueTypes == Spec => []TypeOK
<1>1. QueueInv => TypeOK
  BY DEF QueueInv
<1>. QED
  BY <1>1, QueueInvariant, PTL

(* An entry whose line is marked done has been served or passed over, is in  *)
(* the hands of a runner that will serve it, pass it over or restore it, or   *)
(* was dropped: its runner was killed while it had it, or found the file      *)
(* locked when it restored the line.  Whatever else happens loses none.       *)
THEOREM NoEntryLost == Spec => []NothingLost
<1>1. QueueInv => NothingLost
  BY DEF QueueInv
<1>. QED
  BY <1>1, QueueInvariant, PTL

(* A batch has the issues of one entry, also after a start of its project has *)
(* failed half-way.                                                          *)
THEOREM BatchesHaveOneEntry == Spec => []OneEntryABatch
<1>1. QueueInv => OneEntryABatch
  BY OneEntry
<1>. QED
  BY <1>1, QueueInvariant, PTL

(* No batch of the queue does any work before its entry's options are stored. *)
THEOREM OptionsInTime == Spec => []OptionsBeforeWork
<1>1. QueueInv => OptionsBeforeWork
  BY OptionsFirst
<1>. QED
  BY <1>1, QueueInvariant, PTL
=============================================================================
