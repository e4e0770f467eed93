--------------------------- MODULE AgentSessions ---------------------------
(* The sessions of ONE agent that several projects share: the command-line *)
(* backends of engine/backend_*.py, the dispatch of engine/backend.py that *)
(* picks one of them for a send, a reap or a reset, and the quota fallback *)
(* that redirects the sends of a home backend to a target backend.         *)
(*                                                                         *)
(* Every backend keeps per-agent files (session id, pid, ...) that all     *)
(* projects and both actors use: the watchdog's tick and a command typed   *)
(* by hand.  A send reads them, checks for a live process, starts one and  *)
(* writes them again; cc, codex and agy hold the agent's lock for all of   *)
(* it, the others do not.                                                  *)
(*                                                                         *)
(* Processes are numbered in the order they start, and that number is the  *)
(* model's clock.  A conversation is named after the process that began    *)
(* it.  The openclaw backend (a remote gateway) is not modelled.           *)
EXTENDS Naturals, Sequences

CONSTANTS
  Projects,      \* the projects that use the agent
  Setups,        \* [home, target, allowed, asks]: the configured backend, its
                 \* fallback, the environment, and the requests made in all
  LaunchBound,   \* processes ever started
  FaultBound     \* faults and expiries of a fallback period

Backends == {"cc", "cci", "codex", "agy", "kimi", "gemini", "pi"}
Locked == {"cc", "codex", "agy"}        \* a send holds the agent's lock

(* What the environment of a setup may do: commands typed by hand beside   *)
(* the watchdog, and faults.                                               *)
Environment ==
  {"hand", "expire", "hang", "die", "spawn", "persist", "stubborn", "kill"}

(* The targets a home backend's fallback may have.                         *)
Fallbacks(home) ==
  CASE home \in {"codex", "kimi", "gemini"} -> {"cc", "pi"}
    [] home = "agy" -> {"cc", "pi", "kimi"}
    [] home = "pi" -> {"cc"}
    [] OTHER -> {}

ASSUME SetupsAssumption ==
  /\ Setups \subseteq [home : Backends, target : Backends \cup {"none"},
                       allowed : SUBSET Environment, asks : Nat]
  /\ \A s \in Setups : s.target \in Fallbacks(s.home) \cup {"none"}
ASSUME BoundsAssumption ==
  LaunchBound \in Nat /\ FaultBound \in Nat

VARIABLES
  setup,      \* the agent's configuration
  procs,      \* the processes started so far
  files,      \* per backend, the agent's session files
  op,         \* per actor, the send it is in the middle of
  todo,       \* per project: does it wait for the agent's review?
  submitted,  \* per project, the time of the last review (0: none)
  period,     \* the fallback cache: none, active or expired
  reset,      \* history: the time of the last complete reset_session
  asks,       \* the requests made
  faults      \* faults used up

vars == <<setup, procs, files, op, todo, submitted, period, reset, asks, faults>>

Actors == {"tick", "hand"}
Now == Len(procs)
NoFiles == [sid |-> 0, pid |-> 0, out |-> 0, marker |-> FALSE]
Idle == [pc |-> "idle", b |-> "none", p |-> "none", conv |-> 0, was |-> 0]

TypeOK ==
  /\ setup \in Setups
  /\ procs \in Seq([backend : Backends, conv : 1..LaunchBound, project : Projects,
                    st : {"run", "sent", "hung", "gone"}, spoke : BOOLEAN,
                    stray : BOOLEAN])
  /\ Now <= LaunchBound
  /\ files \in [Backends -> [sid : 0..LaunchBound, pid : 0..LaunchBound,
                             out : 0..LaunchBound, marker : BOOLEAN]]
  /\ op \in [Actors -> [pc : {"idle", "check", "spawn"}, b : Backends \cup {"none"},
                        p : Projects \cup {"none"}, conv : 0..LaunchBound,
                        was : 0..LaunchBound]]
  /\ todo \in [Projects -> {"idle", "asked", "given"}]
  /\ submitted \in [Projects -> 0..LaunchBound]
  /\ period \in {"none", "active", "expired"}
  /\ reset \in 0..LaunchBound
  /\ asks \in 0..setup.asks
  /\ faults \in 0..FaultBound

Init ==
  /\ setup \in Setups
  /\ procs = <<>>
  /\ files = [b \in Backends |-> NoFiles]
  /\ op = [a \in Actors |-> Idle]
  /\ todo = [p \in Projects |-> "idle"]
  /\ submitted = [p \in Projects |-> 0]
  /\ period = "none"
  /\ reset = 0
  /\ asks = 0
  /\ faults = 0

(* ------------------------- processes and files ------------------------- *)

Alive(ps, i) == i \in 1..Len(ps) /\ ps[i].st # "gone"
Gone(ps, i) == [ps EXCEPT ![i].st = "gone"]

(* The recorded process: codex asks who holds the output file locked, the  *)
(* others read the pid file.                                               *)
Recorded(b, f) == IF b = "codex" THEN f.out ELSE f.pid

(* cc and cci match the session id against the process's command line.     *)
OfSession(b, ps, f) == b \in {"cc", "cci"} => ps[f.pid].conv = f.sid

(* The process a send, a reap or is_inactive takes for the session's live  *)
(* owner, 0 for none.                                                      *)
LiveOwner(b, ps, fs) ==
  LET i == Recorded(b, fs[b]) IN
  IF Alive(ps, i) /\ OfSession(b, ps, fs[b]) THEN i ELSE 0

(* Whether a send refuses to start a second process: kimi, gemini and pi   *)
(* never look for one.                                                     *)
Refuses(b) == b \in {"cc", "cci", "codex", "agy"}

(* The conversation the next process continues; 0 begins a new one.  agy   *)
(* and kimi pass the flag that continues the latest conversation of their  *)
(* directory only while the session marker is there.                       *)
Resumed(b, f) == IF b \in {"agy", "kimi"} /\ ~f.marker THEN 0 ELSE f.sid

(* _harvest_session of codex: the session id after reading the last run's  *)
(* output.  A resumed run that left no turn makes the session id go unless *)
(* it left nothing at all.                                                 *)
Harvested(ps, f) ==
  IF f.out = 0 THEN {f.sid}
  ELSE LET r == ps[f.out] IN
       IF r.spoke THEN {r.conv}
       ELSE IF r.conv # f.out /\ r.conv = f.sid THEN {0, f.sid} ELSE {f.sid}

(* A terminate that a stubborn process may survive; codex refuses to end a *)
(* run that its pid record does not name.                                  *)
Kills(b, i, ps, fs) ==
  IF b = "codex" /\ fs[b].pid # i THEN {ps}
  ELSE {Gone(ps, i)} \cup (IF "stubborn" \in setup.allowed THEN {ps} ELSE {})

(* An actor between two operations; commands are typed in some setups.     *)
Free(a) == op[a] = Idle /\ (a = "hand" => "hand" \in setup.allowed)

(* Mutant of LockFree: the sends do not take the agent's lock.             *)
MutantNoLock(a, b) == TRUE

(* No other actor is inside a send of backend b that holds the lock.       *)
LockFree(a, b) ==
  b \in Locked => \A o \in Actors \ {a} : ~(op[o].pc = "spawn" /\ op[o].b = b)

(* ------------------------------- reset --------------------------------- *)

(* The files after a reset; kimi keeps its conversations.                  *)
Cleared(b, fs) ==
  [fs EXCEPT ![b] = IF b = "kimi" THEN [NoFiles EXCEPT !.sid = fs[b].sid] ELSE NoFiles]

Clean(b, ps, fs) == [ps |-> ps, fs |-> Cleared(b, fs), done |-> TRUE]

(* cc and pi only unlink their files.                                      *)
Unlinks(b) == b \in {"cc", "pi"}

(* cci signals the runner and does not wait.                               *)
Signals(b, i, ps, fs) == {Clean(b, ps, fs), Clean(b, Gone(ps, i), fs)}

(* codex, agy, kimi and gemini end the recorded process first and keep     *)
(* everything when they cannot.                                            *)
EndsFirst(b, i, ps, fs) ==
  {IF Alive(qs, i) THEN [ps |-> qs, fs |-> fs, done |-> FALSE] ELSE Clean(b, qs, fs)
     : qs \in Kills(b, i, ps, fs)}

(* reset_session of one backend: the possible [ps, fs, done].              *)
BackendReset(b, ps, fs) ==
  LET i == Recorded(b, fs[b]) IN
  IF Unlinks(b) \/ ~Alive(ps, i) THEN {Clean(b, ps, fs)}
  ELSE IF b = "cci" THEN Signals(b, i, ps, fs) ELSE EndsFirst(b, i, ps, fs)

(* backend.reset_session: the home backend and the target of an active     *)
(* fallback period.                                                        *)
AgentReset ==
  LET homes == BackendReset(setup.home, procs, files) IN
  IF period = "active" /\ setup.target \in {"cc", "pi", "kimi"}
    THEN UNION {{[ps |-> t.ps, fs |-> t.fs, done |-> h.done /\ t.done]
                   : t \in BackendReset(setup.target, h.ps, h.fs)} : h \in homes}
    ELSE homes

(* Mutant of SettledPeriod: the reset leaves an expired period in place.   *)
MutantUnsettled == period

(* settle_for_reset: a reset of codex ends an expired period.              *)
SettledPeriod ==
  IF setup.home = "codex" /\ period = "expired" THEN "none" ELSE period

(* ------------------------------ requests -------------------------------- *)

(* A phase begins: _reset_reviewers resets the agent and the review        *)
(* request is about to be sent.                                            *)
StartPhase(a, p) ==
  /\ Free(a)
  /\ todo[p] = "idle"
  /\ asks < setup.asks
  /\ LockFree(a, setup.home) /\ LockFree(a, setup.target)
  /\ \E r \in AgentReset :
       /\ procs' = r.ps
       /\ files' = r.fs
       /\ reset' = IF r.done THEN Now ELSE reset
  /\ period' = SettledPeriod
  /\ todo' = [todo EXCEPT ![p] = "asked"]
  /\ submitted' = [submitted EXCEPT ![p] = 0]
  /\ asks' = asks + 1
  /\ UNCHANGED <<setup, op, faults>>

(* What a reap may end: cc's process when it started before the review was *)
(* submitted, cci's when it is old, codex's and agy's in any case.         *)
Reapable(b, i, at) ==
  CASE b = "cc" -> i <= at
    [] b = "cci" -> procs[i].st = "hung"
    [] OTHER -> b \in {"codex", "agy"}

(* soft_reap, dispatched to the HOME backend: what is left of the agent's  *)
(* process is ended and its session kept.                                  *)
SoftReap(b, at) ==
  LET i == LiveOwner(b, procs, files)
  IN  IF i = 0 \/ ~Reapable(b, i, at) THEN {[ps |-> procs, fs |-> files]}
      ELSE {[ps |-> qs, fs |-> IF Alive(qs, i) THEN files ELSE [files EXCEPT ![b].pid = 0]]
              : qs \in Kills(b, i, procs, files)}

(* A new round of the same phase: the watchdog reaps the agent that        *)
(* reviewed the round before; a transition typed by hand does not.         *)
NextRound(a, p) ==
  /\ Free(a)
  /\ todo[p] = "idle"
  /\ asks < setup.asks
  /\ submitted[p] # 0
  /\ a = "tick" => LockFree(a, setup.home)
  /\ \E r \in IF a = "tick" THEN SoftReap(setup.home, submitted[p])
                            ELSE {[ps |-> procs, fs |-> files]} :
       procs' = r.ps /\ files' = r.fs
  /\ todo' = [todo EXCEPT ![p] = "asked"]
  /\ asks' = asks + 1
  /\ UNCHANGED <<setup, op, submitted, period, reset, faults>>

(* -------------------------------- a send -------------------------------- *)

(* No live owner of the session: cc and cci.                               *)
Ownerless(b) == LiveOwner(b, procs, files) = 0

(* No owner, or one that has been silent for too long: codex and agy.      *)
Silent(b) == LET i == LiveOwner(b, procs, files) IN i # 0 => procs[i].st = "hung"

(* No turn of late, whatever process: pi.                                  *)
Quiet(b) == \A i \in 1..Now : procs[i].backend = b => procs[i].st # "run"

(* is_inactive of the backend in use.                                      *)
Inactive(b) ==
  CASE b \in {"cc", "cci"} -> Ownerless(b)
    [] b \in {"codex", "agy"} -> Silent(b)
    [] b \in {"kimi", "gemini"} -> ~Alive(procs, files[b].pid)
    [] OTHER -> Quiet(b)

(* resolve_backend: the cached fallback, no probe.                         *)
Resolved == IF period = "active" THEN setup.target ELSE setup.home

Sent(b, c) == {[b |-> b, ps |-> procs, fs |-> files, period |-> c]}

(* The quota is there: the home backend; codex and pi forget the period.   *)
Spared == Sent(setup.home, IF setup.home \in {"codex", "pi"} THEN "none" ELSE period)

(* codex and pi continue an expired period with the target's session.      *)
Renews == setup.home \in {"codex", "pi"} /\ period = "expired"

(* A new period begins with a reset of the target.                         *)
Begins == {[b |-> setup.target, ps |-> r.ps, fs |-> r.fs, period |-> "active"]
             : r \in BackendReset(setup.target, procs, files)}

(* should_fallback at a send: [b, ps, fs, period].  "over" is the probe's  *)
(* answer, not asked for while a period is active.                         *)
Routes(over) ==
  IF period = "active" THEN Sent(setup.target, "active")
  ELSE IF setup.target = "none" THEN Sent(setup.home, period)
  ELSE IF ~over THEN Spared
  ELSE IF Renews THEN Sent(setup.target, "active") ELSE Begins

(* backend.send picks the backend: the first send of a request by whoever  *)
(* made it, a nudge only by the watchdog and only at an inactive agent.    *)
Route(a, p) ==
  /\ Free(a)
  /\ \/ todo[p] = "asked"
     \/ a = "tick" /\ todo[p] = "given" /\ Inactive(Resolved)
  /\ LockFree(a, setup.target)
  /\ \E over \in BOOLEAN : \E r \in Routes(over) :
       /\ op' = [op EXCEPT ![a] = [pc |-> "check", b |-> r.b, p |-> p,
                              conv |-> 0, was |-> reset]]
       /\ procs' = r.ps
       /\ files' = r.fs
       /\ period' = r.period
  /\ todo' = [todo EXCEPT ![p] = "given"]
  /\ UNCHANGED <<setup, submitted, reset, asks, faults>>

(* Mutant of ReapsOnSend: a silent process keeps the agent busy.           *)
MutantNeverReaps(b, i) == FALSE

(* Whether a send ends a live owner itself: codex and agy when it has been *)
(* silent for too long, cci when it is too old; cc never.                  *)
ReapsOnSend(b, i) == b \in {"codex", "agy", "cci"} /\ procs[i].st = "hung"

Busy(a) == op' = [op EXCEPT ![a] = Idle] /\ UNCHANGED <<procs, files>>

(* The backend takes its lock and looks for a live owner: the send is      *)
(* refused, or goes on with the session id it reads now.                   *)
Check(a) ==
  LET b == op[a].b
      i == IF Refuses(b) THEN LiveOwner(b, procs, files) ELSE 0
      goOn(ps) == \E sid \in IF b = "codex" THEN Harvested(ps, files[b]) ELSE {files[b].sid} :
        LET f == [files[b] EXCEPT !.sid = sid, !.out = 0,
                    !.pid = IF i # 0 \/ b = "codex" THEN 0 ELSE @] IN
        /\ procs' = ps
        /\ files' = [files EXCEPT ![b] = f]
        /\ op' = [op EXCEPT ![a].pc = "spawn", ![a].conv = Resumed(b, f)]
  IN
  /\ op[a].pc = "check"
  /\ LockFree(a, b)
  /\ IF i = 0 THEN goOn(procs)
     ELSE IF ~ReapsOnSend(b, i) THEN Busy(a)
     ELSE \E qs \in Kills(b, i, procs, files) : IF Alive(qs, i) THEN Busy(a) ELSE goOn(qs)
  /\ UNCHANGED <<setup, todo, submitted, period, reset, asks, faults>>

(* What a send records: the session and the process,                       *)
Owned(i, c) == [NoFiles EXCEPT !.sid = c, !.pid = i]

(* codex the process and its output, from which the session is read later, *)
Written(i) == [files["codex"] EXCEPT !.pid = i, !.out = i]

(* agy and kimi also the marker, pi the session alone.                     *)
Marked(i, c) == [Owned(i, c) EXCEPT !.marker = TRUE]
Named(c) == [NoFiles EXCEPT !.sid = c]

(* The files after process i has been started in conversation c.           *)
Persisted(b, i, c) ==
  CASE b \in {"cc", "cci", "gemini"} -> Owned(i, c)
    [] b = "codex" -> Written(i)
    [] b \in {"agy", "kimi"} -> Marked(i, c)
    [] OTHER -> Named(c)

(* The conversation of the next process of a's send.                       *)
Conversation(a) == IF op[a].conv = 0 THEN Now + 1 ELSE op[a].conv

(* A process of a's send has been started, and the files of its backend    *)
(* are f now; it is a stray when they do not name it.                      *)
Launched(a, st, f) ==
  LET b == op[a].b IN
  /\ op[a].pc = "spawn"
  /\ Now < LaunchBound
  /\ procs' = Append(procs,
       [backend |-> b, conv |-> Conversation(a), project |-> op[a].p,
        st |-> st, spoke |-> TRUE, stray |-> Recorded(b, f) # Now + 1])
  /\ files' = [files EXCEPT ![b] = f]

(* The send of actor a is over.                                            *)
Over(a) ==
  /\ op' = [op EXCEPT ![a] = Idle]
  /\ UNCHANGED <<setup, todo, submitted, period, reset, asks>>

(* The process is started and its session recorded; the lock is released.  *)
Spawn(a) ==
  /\ Launched(a, "run", Persisted(op[a].b, Now + 1, Conversation(a)))
  /\ Over(a)
  /\ UNCHANGED faults

Fault(f) == f \in setup.allowed /\ faults < FaultBound /\ faults' = faults + 1

(* Popen fails: nothing was started, the send reports FAIL.                *)
SpawnFails(a) ==
  /\ op[a].pc = "spawn"
  /\ Fault("spawn")
  /\ Over(a)
  /\ UNCHANGED <<procs, files>>

(* The files when process i could not be recorded: cc and cci drop theirs, *)
(* codex drops the output of a run that has ended, the others leave what   *)
(* the process stored.                                                     *)
Unrecorded(b, st, i, c) ==
  CASE b \in {"cc", "cci"} -> NoFiles
    [] b = "codex" -> [files[b] EXCEPT !.out = IF st = "gone" THEN @ ELSE i]
    [] OTHER -> [files[b] EXCEPT !.sid = c]

(* The session could not be recorded: the new process is ended, and a      *)
(* stubborn one lives on.                                                  *)
PersistFails(a) ==
  /\ op[a].b # "pi"
  /\ Fault("persist")
  /\ \E st \in {"gone"} \cup (IF "stubborn" \in setup.allowed THEN {"run"} ELSE {}) :
       Launched(a, st, Unrecorded(op[a].b, st, Now + 1, Conversation(a)))
  /\ Over(a)

(* What is on disk when the sender dies after Popen and before it is done: *)
(* cc and cci write the session before the process, agy and kimi the       *)
(* process before the marker; codex's run holds its output from the start. *)
HalfRecorded(b, i, c) ==
  CASE b \in {"cc", "cci"} -> {files[b], [files[b] EXCEPT !.sid = c]}
    [] b = "codex" -> {[files[b] EXCEPT !.out = i]}
    [] b \in {"agy", "kimi"} -> {files[b], [files[b] EXCEPT !.sid = c, !.pid = i]}
    [] b = "gemini" -> {files[b]}
    [] OTHER -> {Named(c)}

(* The sender, the watchdog or a command, is killed: before Popen nothing  *)
(* is left, after it a process in a session of its own, which may not have *)
(* got its prompt.  The lock goes with the sender.                         *)
Killed(a) ==
  /\ op[a] # Idle
  /\ Fault("kill")
  /\ \/ UNCHANGED <<procs, files>>
     \/ \E st \in {"run", "gone"} :
          \E f \in HalfRecorded(op[a].b, Now + 1, Conversation(a)) : Launched(a, st, f)
  /\ Over(a)

(* ------------------------------ processes ------------------------------- *)

(* The agent files its review; its process goes on for a while.            *)
Submit(i) ==
  LET p == procs[i].project IN
  /\ procs[i].st = "run"
  /\ todo[p] # "idle"
  /\ procs' = [procs EXCEPT ![i].st = "sent"]
  /\ todo' = [todo EXCEPT ![p] = "idle"]
  /\ submitted' = [submitted EXCEPT ![p] = Now]
  /\ UNCHANGED <<setup, files, op, period, reset, asks, faults>>

(* A process that has nothing left to do exits.                            *)
End(i) ==
  /\ \/ procs[i].st = "sent"
     \/ procs[i].st = "run" /\ todo[procs[i].project] = "idle"
  /\ procs' = Gone(procs, i)
  /\ UNCHANGED <<setup, files, op, todo, submitted, period, reset, asks, faults>>

(* A process dies before its review, possibly before its first turn.       *)
Die(i) ==
  /\ procs[i].st = "run"
  /\ Fault("die")
  /\ \E said \in BOOLEAN :
       procs' = [procs EXCEPT ![i].st = "gone", ![i].spoke = said]
  /\ UNCHANGED <<setup, files, op, todo, submitted, period, reset, asks>>

(* A process falls silent for good.                                        *)
Hang(i) ==
  /\ procs[i].st \in {"run", "sent"}
  /\ Fault("hang")
  /\ procs' = [procs EXCEPT ![i].st = "hung"]
  /\ UNCHANGED <<setup, files, op, todo, submitted, period, reset, asks>>

(* A turn makes its conversation the latest of the directory, for the      *)
(* backends that continue "the latest".                                    *)
Turn(i) ==
  LET b == procs[i].backend IN
  /\ procs[i].st \in {"run", "sent"}
  /\ b \in {"agy", "kimi", "gemini"}
  /\ files[b].sid # procs[i].conv
  /\ files' = [files EXCEPT ![b].sid = procs[i].conv]
  /\ UNCHANGED <<setup, procs, op, todo, submitted, period, reset, asks, faults>>

(* The fallback period runs out.                                           *)
Expire ==
  /\ period = "active"
  /\ Fault("expire")
  /\ period' = "expired"
  /\ UNCHANGED <<setup, procs, files, op, todo, submitted, reset, asks>>

Sends(a) == (\E p \in Projects : Route(a, p)) \/ Check(a) \/ Spawn(a)

Next ==
  \/ \E a \in Actors :
       \/ \E p \in Projects : StartPhase(a, p) \/ NextRound(a, p)
       \/ Sends(a)
       \/ SpawnFails(a) \/ PersistFails(a) \/ Killed(a)
  \/ \E i \in 1..Now : Submit(i) \/ End(i) \/ Die(i) \/ Hang(i) \/ Turn(i)
  \/ Expire

Spec == Init /\ [][Next]_vars

(* The watchdog goes on sending, a command once started comes to its end,  *)
(* and a process that works is eventually done.                            *)
Fairness ==
  /\ \A p \in Projects : SF_vars(Route("tick", p))
  /\ \A a \in Actors : WF_vars(Check(a)) /\ WF_vars(Spawn(a))
  /\ \A i \in 1..LaunchBound :
       WF_vars(i \in 1..Now /\ Submit(i)) /\ WF_vars(i \in 1..Now /\ End(i))

FairSpec == Spec /\ Fairness

(* ------------------------------ properties ------------------------------ *)

(* Two live processes never write one conversation of codex, and of cc or  *)
(* agy only when one of them was started and never recorded: its sender    *)
(* was killed in between, or it could neither be recorded nor ended.       *)
(* Whoever sends, resets and reaps in between, no recorded process ever    *)
(* gets a second writer beside it.                                         *)
OneWriter ==
  \A i, j \in 1..Now :
    /\ procs[i].backend \in Locked /\ procs[i].backend = procs[j].backend
    /\ procs[i].conv = procs[j].conv /\ i # j
    /\ Alive(procs, i) /\ Alive(procs, j)
    => /\ procs[i].backend # "codex"
       /\ procs[i].stray \/ procs[j].stray
       /\ "kill" \in setup.allowed \/ {"persist", "stubborn"} \subseteq setup.allowed

(* agy continues the latest conversation of its directory, which a process *)
(* it has not recorded may change behind its back.                         *)
Contaminated(b, ps) == b = "agy" /\ \E i \in 1..Len(ps) : ps[i].backend = b /\ ps[i].stray

(* A process of cc, codex or agy never continues a conversation that began *)
(* before the last reset_session of the agent that ran to its end.  On the *)
(* home backend this holds even for a send under way during the reset; on  *)
(* a fallback target for the sends that picked it after the reset.  Not so *)
(* for an agy that ever left an unrecorded process, nor for the target of  *)
(* pi: a reset leaves pi's expired period, and the sends that renew it     *)
(* continue the target's session.                                          *)
FreshAfterReset ==
  [][\A a \in Actors : \A i \in DOMAIN procs' \ DOMAIN procs :
       /\ op[a] # op'[a] /\ procs'[i].backend \in Locked /\ setup.home # "pi"
       /\ ~Contaminated(procs'[i].backend, procs)
       => procs'[i].conv > IF procs'[i].backend = setup.home THEN reset ELSE op[a].was]_vars

(* Agents whose silent processes a send ends: the others answer only while *)
(* no process of theirs hangs (their phase is ended by its timeout), and   *)
(* codex never ends a run its dead sender has not recorded.                *)
Recovers ==
  /\ "stubborn" \notin setup.allowed
  /\ "hang" \in setup.allowed =>
       setup.home \in {"codex", "agy"} /\ setup.target = "none" /\ "kill" \notin setup.allowed

(* A review request is answered in the end: a refused or failed send, a    *)
(* process that dies, that another project's reset ends or that hangs is   *)
(* made up for by the nudges.                                              *)
RequestServed ==
  \A p \in Projects : (todo[p] # "idle" /\ Recovers) ~> (todo[p] = "idle")

=============================================================================
