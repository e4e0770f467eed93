------------------------------ MODULE TaskQueue ------------------------------
(***************************************************************************)
(* The queue file and those who take entries from it.  A runner finds a     *)
(* line, looks its issues up, marks it done, starts a batch with it and     *)
(* stores the entry's options: each a step of its own, with the file lock   *)
(* or the pipeline lock held in it or no lock at all.  When a later step    *)
(* fails the runner undoes the earlier ones.                                *)
(*                                                                          *)
(* "tick" is the watchdog's runner: it serves a qrun of Discord in its own  *)
(* process, and after a batch of the queue or a wait has ended it runs      *)
(* gokrax qrun and waits for it.  "hand" is the owner's gokrax qrun or      *)
(* gokrax start.                                                            *)
(***************************************************************************)
EXTENDS Integers, Sequences, FiniteSets, SequencesExt

CONSTANTS
  Projects,
  Entries,
  Lane(_),       \* an entry's project, or Wait
  Wait,
  QueueFiles,    \* what the file may hold at first
  Environments,  \* sets of faults and commands a behaviour may meet
  KickBound,     \* bound: runs by hand and Discord commands
  CrashBound     \* bound: crashes of a runner

Disturbances ==
  {"closed",   \* issues are closed before they are popped
   "flaky",    \* ... and this is only seen after the pop
   "fail",     \* a start fails: no review mode, no issues, overflow, network
   "loop",     \* the watchdog loop cannot be started
   "busy",     \* the file is locked by somebody else
   "qadd",     \* gokrax qadd
   "edit",     \* gokrax qdel, qedit
   "start",    \* gokrax start
   "hand",     \* ... and qrun while the watchdog runs the queue itself
   "discord",  \* qrun by Discord
   "block",    \* a batch is blocked, and reset later
   "crash"}    \* a runner dies

ASSUME QueueAssumption ==
  /\ Wait \notin Projects
  /\ \A e \in Entries : Lane(e) \in Projects \cup {Wait}
  /\ \A q \in QueueFiles : q \in Seq(Entries) /\ IsInjective(q)
  /\ Environments \subseteq SUBSET Disturbances
  /\ KickBound \in Nat /\ CrashBound \in Nat

VARIABLES
  lines,     \* the queue file
  waiting,   \* the wait file: "no", "yes", or "over" when it has expired
  proj,      \* each project's pipeline, as far as starting goes
  run,       \* each runner
  loop,      \* the watchdog loop runs
  inbox,     \* Discord commands after last_command_message_id
  served,    \* history: entries started, and waits begun, in this order
  passed,    \* history: entries passed over because their issues are closed
  dropped,   \* history: entries whose runner could not take care of them
  kicks,     \* bound
  crashes,   \* bound
  allowed    \* what this behaviour may meet, one of Environments

vars == <<lines, waiting, proj, run, loop, inbox, served, passed, dropped, kicks,
          crashes, allowed>>

Runners == {"tick", "hand"}
Vias == {"check", "discord", "qrun", "start"}
Steps == {"off", "find", "look", "mark", "wait", "flag", "start", "triage",
          "setup", "transition", "loop", "save", "undo", "restore", "clean"}

Off  == [pc |-> "off", via |-> "qrun", entry |-> "none", skip |-> FALSE]
Idle == [state |-> "IDLE", batch |-> {}, queued |-> FALSE, opts |-> "none"]

TypeOK ==
  /\ lines \in Seq([entry : Entries, done : BOOLEAN])
  /\ waiting \in {"no", "yes", "over"}
  /\ proj \in [Projects -> [state : {"IDLE", "INITIALIZE", "RUN", "BLOCKED"},
                            batch : SUBSET Entries, queued : BOOLEAN,
                            opts : {"none", "start", "entry"}]]
  /\ run \in [Runners -> [pc : Steps, via : Vias,
                          entry : Entries \cup {"none"}, skip : BOOLEAN]]
  /\ loop \in BOOLEAN
  /\ inbox \in Nat
  /\ served \in Seq(Entries)
  /\ passed \subseteq Entries /\ dropped \subseteq Entries
  /\ kicks \in Nat /\ crashes \in Nat
  /\ allowed \subseteq Disturbances

Init ==
  /\ \E q \in QueueFiles :
       lines = [i \in DOMAIN q |-> [entry |-> q[i], done |-> FALSE]]
  /\ waiting = "no"
  /\ proj = [p \in Projects |-> Idle]
  /\ run = [r \in Runners |-> Off]
  /\ loop = TRUE
  /\ inbox = 0
  /\ served = <<>> /\ passed = {} /\ dropped = {}
  /\ kicks = 0 /\ crashes = 0
  /\ allowed \in Environments

-----------------------------------------------------------------------------
Goto(r, pc) == run' = [run EXCEPT ![r].pc = pc]
At(r, pc) == run[r].pc = pc
Entry(r) == run[r].entry
Project(r) == Lane(Entry(r))

(* The owner and the watchdog take turns, unless "hand". *)
Turn(r) == "hand" \in allowed \/ \A q \in Runners \ {r} : At(q, "off")

(* Mutant of Resting: the watchdog does not wait for the qrun it starts. *)
MutantResting == loop /\ Turn("tick")

(* The watchdog is between two ticks. *)
Resting == loop /\ At("tick", "off") /\ Turn("tick")

Active(i) == ~lines[i].done
Ready(i) ==
  /\ Active(i)
  /\ LET p == Lane(lines[i].entry) IN p = Wait \/ proj[p].state = "IDLE"

(* A runner holds an entry from the mark on its line until it has served it, *)
(* passed it over or restored the line.  A gokrax start holds none.          *)
Holding == {"wait", "flag", "start", "triage", "setup", "transition", "loop",
            "undo", "restore"}
Holds(r) == run[r].pc \in Holding /\ run[r].via # "start"

(* ... and drops it when it is killed before that, or cannot restore it.      *)
Drops(rs) == dropped' = dropped \cup {Entry(r) : r \in {q \in rs : Holds(q)}}

(* A line whose content is e, done or not. *)
LineOf(e, done) == {i \in DOMAIN lines : lines[i] = [entry |-> e, done |-> done]}
FirstOf(is) == CHOOSE i \in is : \A j \in is : i <= j

(* _cleanup_batch_state and IDLE *)
Reset(p) == proj' = [proj EXCEPT ![p] = Idle]

(* _stop_loop, if no project is enabled any more.  It kills the watchdog and *)
(* every process it has started: the runner "tick", also when it is the one  *)
(* that stops the loop.                                                      *)
Enabled(s) == s \in {"INITIALIZE", "RUN"}
LoopStops(r, pc) ==
  IF \E p \in Projects : Enabled(proj'[p].state)
  THEN loop' = loop /\ Goto(r, pc) /\ UNCHANGED dropped
  ELSE /\ loop' = FALSE /\ Drops({"tick"})
       /\ run' = [q \in Runners |->
                    IF q = "tick" THEN Off
                    ELSE IF q = r THEN [run[q] EXCEPT !.pc = pc] ELSE run[q]]

-----------------------------------------------------------------------------
(* Who runs the queue *)

Begin(r, via, pc, e) ==
  run' = [run EXCEPT ![r] = [pc |-> pc, via |-> via, entry |-> e, skip |-> FALSE]]

(* gokrax qrun; gokrax start of the issues of entry e *)
ByHand(via, e) ==
  /\ kicks < KickBound /\ kicks' = kicks + 1
  /\ At("hand", "off") /\ Turn("hand")
  /\ \/ via = "qrun" /\ Begin("hand", "qrun", "find", "none")
     \/ /\ via = "start" /\ "start" \in allowed
        /\ Lane(e) # Wait /\ LineOf(e, FALSE) \cup LineOf(e, TRUE) = {}
        /\ Begin("hand", "start", "start", e)
  /\ UNCHANGED <<lines, waiting, proj, loop, inbox, served, passed, dropped,
                 crashes, allowed>>

(* The owner writes qrun in Discord. *)
Command ==
  /\ "discord" \in allowed
  /\ kicks < KickBound /\ kicks' = kicks + 1
  /\ inbox' = inbox + 1
  /\ UNCHANGED <<lines, waiting, proj, run, loop, served, passed, dropped,
                 crashes, allowed>>

(* The watchdog answers a command.  The command counts as answered when the  *)
(* run has ended.                                                            *)
Answer ==
  /\ Resting /\ inbox > 0
  /\ Begin("tick", "discord", "find", "none")
  /\ UNCHANGED <<lines, waiting, proj, loop, inbox, served, passed, dropped,
                 kicks, crashes, allowed>>

(* After an expired wait the queue goes on. *)
WaitExpires ==
  /\ Resting /\ waiting = "over"
  /\ waiting' = "no"
  /\ Begin("tick", "check", "find", "none")
  /\ UNCHANGED <<lines, proj, loop, inbox, served, passed, dropped, kicks,
                 crashes, allowed>>

(* The tick of a new batch; all of its work until it is merged, or all of    *)
(* its issues are excluded, is DevPipeline's.                                *)
Initialize(p) ==
  /\ Resting /\ proj[p].state = "INITIALIZE"
  /\ proj' = [proj EXCEPT ![p].state = "RUN"]
  /\ UNCHANGED <<lines, waiting, run, loop, inbox, served, passed, dropped,
                 kicks, crashes, allowed>>

(* Mutant of Finish: the queue's flag is read after it is cleared. *)
MutantFinish(p) ==
  /\ Resting /\ proj[p].state = "RUN"
  /\ Reset(p)
  /\ IF proj'[p].queued /\ waiting = "no"
     THEN Begin("tick", "check", "find", "none") ELSE UNCHANGED run
  /\ UNCHANGED <<lines, waiting, loop, inbox, served, passed, dropped, kicks,
                 crashes, allowed>>

(* After a batch of the queue the queue goes on, unless it waits. *)
Finish(p) ==
  /\ Resting /\ proj[p].state = "RUN"
  /\ Reset(p)
  /\ IF proj[p].queued /\ waiting = "no"
     THEN Begin("tick", "check", "find", "none") ELSE UNCHANGED run
  /\ UNCHANGED <<lines, waiting, loop, inbox, served, passed, dropped, kicks,
                 crashes, allowed>>

-----------------------------------------------------------------------------
(* The run *)

(* Mutant of EndRun: every run counts as the answer to a command. *)
MutantEndRun(r) ==
  /\ run' = [run EXCEPT ![r] = Off]
  /\ inbox' = inbox - 1

(* A run ends; so does the command it has answered. *)
EndRun(r) ==
  /\ run' = [run EXCEPT ![r] = Off]
  /\ inbox' = IF run[r].via = "discord" THEN inbox - 1 ELSE inbox

(* The first line that is a wait or whose project is idle.  A file locked by *)
(* somebody else counts as empty.                                            *)
Find(r) ==
  /\ At(r, "find")
  /\ LET found == {i \in DOMAIN lines : Ready(i)} IN
     \/ /\ found # {}
        /\ LET e == lines[FirstOf(found)].entry IN
           run' = [run EXCEPT ![r].entry = e, ![r].skip = FALSE,
                     ![r].pc = IF Lane(e) = Wait THEN "mark" ELSE "look"]
        /\ UNCHANGED inbox
     \/ /\ found = {} \/ "busy" \in allowed
        /\ EndRun(r)
  /\ UNCHANGED <<lines, waiting, proj, loop, served, passed, dropped, kicks,
                 crashes, allowed>>

(* The issues are looked up without a lock. *)
Look(r) ==
  /\ At(r, "look")
  /\ \E closed \in IF "closed" \in allowed THEN BOOLEAN ELSE {FALSE} :
       run' = [run EXCEPT ![r].pc = "mark", ![r].skip = closed]
  /\ UNCHANGED <<lines, waiting, proj, loop, inbox, served, passed, dropped,
                 kicks, crashes, allowed>>

(* The line is marked, if it is still there; otherwise, and after an entry   *)
(* with closed issues, the next one is looked for.                           *)
Mark(r) ==
  /\ At(r, "mark")
  /\ LET is == LineOf(Entry(r), FALSE) IN
     \/ /\ is # {}
        /\ lines' = [lines EXCEPT ![FirstOf(is)].done = TRUE]
        /\ passed' = IF run[r].skip THEN passed \cup {Entry(r)} ELSE passed
        /\ Goto(r, IF run[r].skip THEN "find"
                   ELSE IF Project(r) = Wait THEN "wait" ELSE "flag")
     \/ /\ is = {} \/ "busy" \in allowed
        /\ Goto(r, "find")
        /\ UNCHANGED <<lines, passed>>
  /\ UNCHANGED <<waiting, proj, loop, inbox, served, dropped, kicks, crashes,
                 allowed>>

(* The wait begins, or its time is in the past. *)
StartWait(r) ==
  /\ At(r, "wait")
  /\ \/ /\ waiting' = "yes"
        /\ served' = Append(served, Entry(r))
        /\ EndRun(r)
     \/ /\ "fail" \in allowed
        /\ waiting' = "no"
        /\ Goto(r, "restore")
        /\ UNCHANGED <<served, inbox>>
  /\ UNCHANGED <<lines, proj, loop, passed, dropped, kicks, crashes, allowed>>

SetQueueMode(r) ==
  /\ At(r, "flag")
  /\ proj' = [proj EXCEPT ![Project(r)].queued = TRUE]
  /\ Goto(r, "start")
  /\ UNCHANGED <<lines, waiting, loop, inbox, served, passed, dropped, kicks,
                 crashes, allowed>>

(* A failed gokrax start just ends. *)
Fails(r) ==
  IF run[r].via = "start" THEN EndRun(r) ELSE Goto(r, "restore") /\ UNCHANGED inbox

MayFail(r) == "fail" \in allowed

(* cmd_start: the state is read without a lock. *)
StartChecks(r) ==
  /\ At(r, "start")
  /\ \/ /\ proj[Project(r)].state = "IDLE"
        /\ Goto(r, "triage") /\ UNCHANGED inbox
     \/ /\ proj[Project(r)].state # "IDLE" \/ MayFail(r)
        /\ Fails(r)
  /\ UNCHANGED <<lines, waiting, proj, loop, served, passed, dropped, kicks,
                 crashes, allowed>>

(* The issues join the batch, unless all of them are closed by now. *)
Triage(r) ==
  /\ At(r, "triage")
  /\ LET p == Project(r) IN
     \/ /\ proj[p].state = "IDLE" /\ Entry(r) \notin proj[p].batch
        /\ proj' = [proj EXCEPT ![p].batch = @ \cup {Entry(r)}]
        /\ Goto(r, "setup")
        /\ UNCHANGED <<inbox, passed>>
     \/ /\ proj[p].state # "IDLE" \/ Entry(r) \in proj[p].batch \/ MayFail(r)
        /\ Fails(r)
        /\ UNCHANGED <<proj, passed>>
     \/ /\ "flaky" \in allowed /\ run[r].via # "start"
        /\ run' = [run EXCEPT ![r].pc = "clean", ![r].skip = TRUE]
        /\ passed' = passed \cup {Entry(r)}
        /\ UNCHANGED <<inbox, proj>>
  /\ UNCHANGED <<lines, waiting, loop, served, dropped, kicks, crashes,
                 allowed>>

(* The options that gokrax start knows are stored, whatever the state. *)
Setup(r) ==
  /\ At(r, "setup")
  /\ \/ /\ proj' = [proj EXCEPT ![Project(r)].opts = "start"]
        /\ Goto(r, "transition") /\ UNCHANGED inbox
     \/ MayFail(r) /\ Fails(r) /\ UNCHANGED proj
  /\ UNCHANGED <<lines, waiting, loop, served, passed, dropped, kicks, crashes,
                 allowed>>

Transition(r) ==
  /\ At(r, "transition")
  /\ IF proj[Project(r)].state = "IDLE"
     THEN /\ proj' = [proj EXCEPT ![Project(r)].state = "INITIALIZE"]
          /\ Goto(r, "loop")
     ELSE Goto(r, "undo") /\ UNCHANGED proj
  /\ UNCHANGED <<lines, waiting, loop, inbox, served, passed, dropped, kicks,
                 crashes, allowed>>

(* With the loop running the start has succeeded. *)
StartLoop(r) ==
  /\ At(r, "loop")
  /\ \/ /\ loop' = TRUE
        /\ IF run[r].via = "start" THEN EndRun(r) /\ UNCHANGED served
           ELSE /\ served' = Append(served, Entry(r))
                /\ Goto(r, "save") /\ UNCHANGED inbox
     \/ /\ "loop" \in allowed
        /\ Goto(r, "undo") /\ UNCHANGED <<loop, inbox, served>>
  /\ UNCHANGED <<lines, waiting, proj, passed, dropped, kicks, crashes,
                 allowed>>

(* cmd_start's own rollback: the project is reset, whoever's batch it runs. *)
Undo(r) ==
  /\ At(r, "undo")
  /\ Reset(Project(r))
  /\ LoopStops(r, IF run[r].via = "start" THEN "off" ELSE "restore")
  /\ UNCHANGED <<lines, waiting, inbox, served, passed, kicks, crashes,
                 allowed>>

(* The entry's options, automerge among them, replace the defaults. *)
SaveOptions(r) ==
  /\ At(r, "save")
  /\ proj' = [proj EXCEPT ![Project(r)].opts = "entry"]
  /\ EndRun(r)
  /\ UNCHANGED <<lines, waiting, loop, served, passed, dropped, kicks, crashes,
                 allowed>>

(* Mutant of Restore: nothing is restored. *)
MutantRestore(r) ==
  /\ At(r, "restore")
  /\ UNCHANGED lines
  /\ IF Project(r) = Wait THEN EndRun(r) ELSE Goto(r, "clean") /\ UNCHANGED inbox
  /\ UNCHANGED <<waiting, proj, loop, served, passed, dropped, kicks, crashes,
                 allowed>>

(* Mutant of Restore: the entry is queued again behind the others. *)
MutantRestoreLast(r) ==
  /\ At(r, "restore")
  /\ LET is == LineOf(Entry(r), TRUE) IN
     IF is = {} THEN UNCHANGED lines
     ELSE lines' = Append(RemoveAt(lines, FirstOf(is)),
                          [entry |-> Entry(r), done |-> FALSE])
  /\ IF Project(r) = Wait THEN EndRun(r) ELSE Goto(r, "clean") /\ UNCHANGED inbox
  /\ UNCHANGED <<waiting, proj, loop, served, passed, dropped, kicks, crashes,
                 allowed>>

(* The line is active again where it was, unless somebody locks the file:    *)
(* then it stays done, and nothing goes back to it.                          *)
Restore(r) ==
  /\ At(r, "restore")
  /\ LET is == LineOf(Entry(r), TRUE) IN
     \/ /\ is # {}
        /\ lines' = [lines EXCEPT ![FirstOf(is)].done = FALSE]
        /\ UNCHANGED dropped
     \/ /\ is = {} \/ "busy" \in allowed
        /\ Drops({r}) /\ UNCHANGED lines
  /\ IF Project(r) = Wait THEN EndRun(r) ELSE Goto(r, "clean") /\ UNCHANGED inbox
  /\ UNCHANGED <<waiting, proj, loop, served, passed, kicks, crashes, allowed>>

(* Mutant of Clean: the project is not rolled back. *)
MutantClean(r) ==
  /\ At(r, "clean")
  /\ proj' = [proj EXCEPT ![Project(r)].queued = FALSE]
  /\ UNCHANGED loop
  /\ IF run[r].skip /\ run[r].via \in {"check", "discord"}
     THEN Goto(r, "find") /\ UNCHANGED inbox ELSE EndRun(r)
  /\ UNCHANGED <<lines, waiting, served, passed, dropped, kicks, crashes,
                 allowed>>

(* A failed qrun also rolls the project back, whatever it runs, and stops    *)
(* the loop; a failed Discord run only takes the queue's flag back.  After a *)
(* skipped entry both go on with the next one, if they are still there.      *)
Clean(r) ==
  /\ At(r, "clean")
  /\ LET next == IF run[r].skip /\ run[r].via \in {"check", "discord"}
                 THEN "find" ELSE "off" IN
     IF run[r].via = "discord"
     THEN /\ proj' = [proj EXCEPT ![Project(r)].queued = FALSE]
          /\ UNCHANGED <<loop, dropped>>
          /\ IF next = "find" THEN Goto(r, "find") /\ UNCHANGED inbox
             ELSE EndRun(r)
     ELSE /\ Reset(Project(r))
          /\ LoopStops(r, next)
          /\ UNCHANGED inbox
  /\ UNCHANGED <<lines, waiting, served, passed, kicks, crashes, allowed>>

RunStep(r) ==
  \/ Find(r) \/ Look(r) \/ Mark(r) \/ StartWait(r)
  \/ SetQueueMode(r) \/ StartChecks(r) \/ Triage(r) \/ Setup(r)
  \/ Transition(r) \/ StartLoop(r) \/ SaveOptions(r)
  \/ Undo(r) \/ Restore(r) \/ Clean(r)

-----------------------------------------------------------------------------
(* Time, faults, the owner *)

WaitOver ==
  /\ waiting = "yes"
  /\ waiting' = "over"
  /\ UNCHANGED <<lines, proj, run, loop, inbox, served, passed, dropped, kicks,
                 crashes, allowed>>

(* cron starts the loop again. *)
Cron ==
  /\ ~loop
  /\ loop' = TRUE
  /\ UNCHANGED <<lines, waiting, proj, run, inbox, served, passed, dropped,
                 kicks, crashes, allowed>>

(* The process dies, or is killed when it takes too long. *)
Crash(r) ==
  /\ "crash" \in allowed /\ crashes < CrashBound
  /\ ~At(r, "off")
  /\ crashes' = crashes + 1
  /\ Drops({r})
  /\ run' = [run EXCEPT ![r] = Off]
  /\ UNCHANGED <<lines, waiting, proj, loop, inbox, served, passed, kicks,
                 allowed>>

Block(p) ==
  /\ "block" \in allowed
  /\ proj[p].state = "RUN"
  /\ proj' = [proj EXCEPT ![p].state = "BLOCKED"]
  /\ UNCHANGED <<lines, waiting, run, loop, inbox, served, passed, dropped,
                 kicks, crashes, allowed>>

(* gokrax reset does not go on with the queue. *)
ResetBlocked(p) ==
  /\ proj[p].state = "BLOCKED"
  /\ Reset(p)
  /\ UNCHANGED <<lines, waiting, run, loop, inbox, served, passed, dropped,
                 kicks, crashes, allowed>>

Fresh(e) == LineOf(e, FALSE) \cup LineOf(e, TRUE) = {}

Qadd(e) ==
  /\ "qadd" \in allowed /\ Fresh(e)
  /\ lines' = Append(lines, [entry |-> e, done |-> FALSE])
  /\ UNCHANGED <<waiting, proj, run, loop, inbox, served, passed, dropped,
                 kicks, crashes, allowed>>

Qdel(i) ==
  /\ "edit" \in allowed /\ Active(i)
  /\ lines' = RemoveAt(lines, i)
  /\ UNCHANGED <<waiting, proj, run, loop, inbox, served, passed, dropped,
                 kicks, crashes, allowed>>

Qedit(i, e) ==
  /\ "edit" \in allowed /\ Active(i) /\ Fresh(e)
  /\ lines' = [lines EXCEPT ![i].entry = e]
  /\ UNCHANGED <<waiting, proj, run, loop, inbox, served, passed, dropped,
                 kicks, crashes, allowed>>

-----------------------------------------------------------------------------
Watchdog ==
  \/ Answer \/ WaitExpires
  \/ \E p \in Projects : Initialize(p) \/ Finish(p)

Owner ==
  \/ \E via \in {"qrun", "start"}, e \in Entries : ByHand(via, e)
  \/ Command
  \/ \E e \in Entries : Qadd(e)
  \/ \E i \in DOMAIN lines : Qdel(i) \/ \E e \in Entries : Qedit(i, e)

Next ==
  \/ Watchdog \/ \E r \in Runners : RunStep(r)
  \/ WaitOver \/ Cron
  \/ \E r \in Runners : Crash(r)
  \/ \E p \in Projects : Block(p) \/ ResetBlocked(p)
  \/ Owner

Spec == Init /\ [][Next]_vars

(* A run goes on, waits expire, cron and the watchdog do their work; that a  *)
(* batch is merged in the end is DevPipeline's matter and assumed here.      *)
FairSpec ==
  /\ Spec
  /\ \A r \in Runners : WF_vars(RunStep(r))
  /\ WF_vars(Watchdog) /\ WF_vars(WaitOver) /\ WF_vars(Cron)

-----------------------------------------------------------------------------
(* Properties *)

InHand(e) == \E r \in Runners : Holds(r) /\ Entry(r) = e

(* No entry is lost in between.  A line marked done has been served or       *)
(* passed over, or the runner that will serve it, pass it over or restore it *)
(* has it in hand; else that very runner was killed while it had, by a crash *)
(* or by the loop's stop, or found the file locked when it restored it.  No  *)
(* failure at another step, no second runner, no edit and no command loses   *)
(* any.                                                                      *)
NothingLost ==
  \A i \in DOMAIN lines : lines[i].done =>
    \/ lines[i].entry \in passed \cup ToSet(served) \cup dropped
    \/ InHand(lines[i].entry)

(* A batch has the issues of one entry, also after an earlier start of the   *)
(* same project has failed half-way; unless two starters meet, one crashes,  *)
(* or the one that failed was Discord's or a gokrax start, which leave what  *)
(* they had already put into the batch.                                      *)
OneEntryABatch ==
  /\ allowed \cap {"hand", "crash"} = {}
  /\ "fail" \in allowed => allowed \cap {"discord", "start"} = {}
  => \A p \in Projects :
       proj[p].state # "IDLE" => Cardinality(proj[p].batch) = 1

(* No batch of the queue does any work before the entry's own options are    *)
(* stored: it would be merged by the default automerge.  Not with a crash    *)
(* before they are, or with a run by hand in the middle of a tick.           *)
OptionsBeforeWork ==
  allowed \cap {"crash", "hand"} = {} =>
    \A p \in Projects :
      proj[p].state = "RUN" /\ proj[p].queued => proj[p].opts = "entry"

(* The queue never dries up with work left: once somebody has started it,    *)
(* every entry is served or passed over, through waits, closed issues,       *)
(* several projects and Discord's runs in between.  FairSpec; a failing      *)
(* start, an edit or a blocked batch ends the run by design.                 *)
QueueDrains ==
  (allowed \subseteq {"closed", "discord"} /\ \E r \in Runners : At(r, "find"))
    ~> \A i \in DOMAIN lines : lines[i].done

(* Unless somebody else holds the file's lock, a runner crashes, the loop    *)
(* cannot be started, two start at a time or lines go under a runner's eyes, *)
(* the file is the first-in-first-out queue that Fifo promises: an entry     *)
(* keeps its place until it is served, however often its start fails.        *)
Undisturbed == allowed \cap {"busy", "crash", "loop", "hand"} = {}
InOrder == Undisturbed /\ "edit" \notin allowed
Wanted(line) == ~line.done \/ InHand(line.entry)
Promise == INSTANCE Fifo WITH
  pending <- IF InOrder
             THEN LET is == SelectSeq(lines, Wanted)
                  IN  [i \in DOMAIN is |-> is[i].entry]
             ELSE <<>>,
  served <- IF InOrder THEN served ELSE <<>>
FifoImplemented == Promise!Spec
=============================================================================
