------------------------ MODULE AgentSessions_proofs ------------------------
(***************************************************************************)
(* One writer a conversation, and resets that last, for any number of      *)
(* projects, requests, starts and faults, and every choice of home         *)
(* backend, fallback and environment.                                      *)
(***************************************************************************)
EXTENDS AgentSessions, SequenceTheorems, TLAPS

-----------------------------------------------------------------------------
(* The inductive invariant *)

Process ==
  [backend : Backends, conv : Nat \ {0}, project : Projects,
   st : {"run", "sent", "hung", "gone"}, spoke : BOOLEAN, stray : BOOLEAN]
File(n) == [sid : 0..n, pid : 0..n, out : 0..n, marker : BOOLEAN]
Send(n) == [pc : {"idle", "check", "spawn"}, b : Backends \cup {"none"},
            p : Projects \cup {"none"}, conv : 0..n, was : 0..n]

(* A conversation is named after a process that has been started.          *)
Procs(ps) == ps \in Seq(Process) /\ \A i \in 1..Len(ps) : ps[i].conv <= Len(ps)
Files(ps, fs) == fs \in [Backends -> File(Len(ps))]

PlainTypes ==
  /\ setup \in Setups
  /\ Now <= LaunchBound
  /\ todo \in [Projects -> {"idle", "asked", "given"}]
  /\ submitted \in [Projects -> 0..Now]
  /\ period \in {"none", "active", "expired"}
  /\ period = "active" => setup.target \in Backends
  /\ reset \in 0..Now
  /\ asks \in 0..setup.asks
  /\ faults \in 0..FaultBound

Sending ==
  /\ op \in [Actors -> Send(Now)]
  /\ \A a \in Actors : op[a].pc # "idle" => op[a].b \in Backends /\ op[a].p \in Projects

Types == PlainTypes /\ Sending /\ Procs(procs) /\ Files(procs, files)

(* A live process that is recorded; codex's output records every run.      *)
Kept(ps, i) == Alive(ps, i) /\ (ps[i].stray => ps[i].backend = "codex")

(* The files name such a process of codex or agy, one of cc while they     *)
(* name its session; its conversation is agy's latest unless a stray may   *)
(* have changed that.                                                      *)
Traced(ps, fs, i) ==
  /\ ps[i].backend \in {"codex", "agy"} => Recorded(ps[i].backend, fs[ps[i].backend]) = i
  /\ ps[i].backend = "cc" /\ fs["cc"].sid = ps[i].conv => fs["cc"].pid = i
  /\ ps[i].backend = "agy" /\ ~Contaminated("agy", ps) => fs["agy"].sid = ps[i].conv

Tracked(ps, fs) == \A i \in 1..Len(ps) : Kept(ps, i) => Traced(ps, fs, i)

(* A send about to start its process has nobody to disturb ...             *)
Undisturbed(o, ps) ==
  o.pc = "spawn" /\ o.b \in Locked =>
    \A i \in 1..Len(ps) : Kept(ps, i) /\ ps[i].backend = o.b =>
      o.b = "cc" /\ ps[i].conv # o.conv

(* ... and is alone in doing so.                                           *)
Exclusive ==
  \A a, o \in Actors :
    op[a].pc = "spawn" /\ op[o].pc = "spawn" /\ op[a].b = op[o].b
      /\ op[a].b \in Locked => a = o

Single(ps) ==
  \A i, j \in 1..Len(ps) :
    ps[i].backend \in Locked /\ ps[i].conv = ps[j].conv
      /\ ps[i].backend = ps[j].backend /\ Kept(ps, i) /\ Kept(ps, j) => i = j

WriterInv ==
  /\ Types
  /\ Tracked(procs, files)
  /\ \A a \in Actors : Undisturbed(op[a], procs)
  /\ Exclusive
  /\ Single(procs)

-----------------------------------------------------------------------------
(* Lists of processes *)

(* qs is ps with some of its processes ended.                              *)
Fewer(ps, qs) ==
  /\ Procs(qs) /\ Len(qs) = Len(ps)
  /\ \A i \in 1..Len(ps) :
       /\ qs[i].backend = ps[i].backend /\ qs[i].conv = ps[i].conv
       /\ qs[i].stray = ps[i].stray
       /\ Alive(qs, i) => Alive(ps, i)

LEMMA SetupType == Types => setup.home \in Backends /\ setup.target \in Backends \cup {"none"}
  BY SetupsAssumption DEF Types, PlainTypes, SetupsAssumption

LEMMA ProcessType ==
  ASSUME NEW ps, Procs(ps), NEW i \in 1..Len(ps)
  PROVE  /\ ps[i] \in Process /\ ps[i].backend \in Backends
         /\ ps[i].conv \in 1..Len(ps) /\ ps[i].project \in Projects
<1>1. ps \in Seq(Process)  BY DEF Procs
<1>2. ps[i] \in Process  BY <1>1, ElementOfSeq
<1>3. QED  BY <1>2 DEF Process, Procs

LEMMA FewerSelf == ASSUME NEW ps, Procs(ps) PROVE Fewer(ps, ps)
  BY DEF Fewer

(* A process that is changed, but neither moved nor revived.               *)
LEMMA Touched ==
  ASSUME NEW ps, Procs(ps), NEW i \in 1..Len(ps), NEW q \in Process,
         q.backend = ps[i].backend, q.conv = ps[i].conv, q.stray = ps[i].stray,
         q.st # "gone" => ps[i].st # "gone"
  PROVE  Fewer(ps, [ps EXCEPT ![i] = q])
<1> DEFINE qs == [ps EXCEPT ![i] = q]
<1>1. ps \in Seq(Process)  BY DEF Procs
<1>2. /\ qs \in Seq(Process) /\ Len(qs) = Len(ps)
      /\ \A j \in 1..Len(ps) : qs[j] = IF j = i THEN q ELSE ps[j]
  BY <1>1, ExceptSeq
<1> HIDE DEF qs
<1>3. QED  BY <1>2 DEF Fewer, Procs, Alive

LEMMA Ended ==
  ASSUME NEW ps, Procs(ps), NEW i \in 1..Len(ps)
  PROVE  Fewer(ps, Gone(ps, i)) /\ ~Alive(Gone(ps, i), i)
<1> DEFINE q == [ps[i] EXCEPT !.st = "gone"]
<1>1. ps \in Seq(Process) /\ ps[i] \in Process  BY ElementOfSeq DEF Procs
<1>2. /\ q \in Process /\ q.backend = ps[i].backend /\ q.conv = ps[i].conv
      /\ q.stray = ps[i].stray /\ q.st = "gone"
  BY <1>1 DEF Process
<1>3. Gone(ps, i) = [ps EXCEPT ![i] = q]  BY DEF Gone
<1>4. [ps EXCEPT ![i] = q][i] = q  BY <1>1, <1>2, ExceptSeq
<1> HIDE DEF q
<1>5. Fewer(ps, [ps EXCEPT ![i] = q])  BY <1>2, Touched
<1>6. QED  BY <1>2, <1>3, <1>4, <1>5 DEF Alive

LEMMA Terminated ==
  ASSUME NEW b, NEW fs, NEW ps, Procs(ps), NEW i \in 1..Len(ps), NEW qs \in Kills(b, i, ps, fs)
  PROVE  Fewer(ps, qs) /\ (Alive(qs, i) => qs = ps)
  BY Ended, FewerSelf DEF Kills

LEMMA FewerTwice ==
  ASSUME NEW ps, NEW qs, NEW rs, Fewer(ps, qs), Fewer(qs, rs)
  PROVE  Fewer(ps, rs)
  BY DEF Fewer

LEMMA FewerKept ==
  ASSUME NEW ps, NEW qs, Fewer(ps, qs)
  PROVE  /\ \A i \in 1..Len(ps) : Kept(qs, i) => Kept(ps, i)
         /\ \A b : Contaminated(b, qs) <=> Contaminated(b, ps)
<1>1. \A i \in 1..Len(ps) : Kept(qs, i) => Kept(ps, i)  BY DEF Fewer, Kept
<1>2. \A b : Contaminated(b, qs) <=> Contaminated(b, ps)  BY DEF Fewer, Contaminated
<1>3. QED  BY <1>1, <1>2

(* Ending processes disturbs nobody.                                       *)
LEMMA FewerKeeps ==
  ASSUME NEW ps, NEW qs, NEW fs, Procs(ps), Fewer(ps, qs)
  PROVE  /\ Files(ps, fs) => Files(qs, fs)
         /\ Tracked(ps, fs) => Tracked(qs, fs)
         /\ Single(ps) => Single(qs)
         /\ \A o : Undisturbed(o, ps) => Undisturbed(o, qs)
<1>1. Len(qs) = Len(ps)  BY DEF Fewer
<1>2. Files(ps, fs) => Files(qs, fs)  BY <1>1 DEF Files
<1>3. Tracked(ps, fs) => Tracked(qs, fs)
  BY <1>1, FewerKept DEF Fewer, Tracked, Traced
<1>4. Single(ps) => Single(qs)  BY <1>1, FewerKept DEF Fewer, Single
<1>5. ASSUME NEW o, Undisturbed(o, ps) PROVE Undisturbed(o, qs)
  BY <1>1, <1>5, FewerKept DEF Fewer, Undisturbed
<1>6. QED  BY <1>2, <1>3, <1>4, <1>5

-----------------------------------------------------------------------------
(* Resets and reaps *)

(* What a reset or a reap may leave of processes and files.                *)
Follows(ps, qs, gs) == Fewer(ps, qs) /\ Files(qs, gs) /\ Tracked(qs, gs)

LEMMA FileType ==
  ASSUME NEW ps, NEW fs, Files(ps, fs), NEW b \in Backends
  PROVE  /\ fs[b].sid \in 0..Len(ps) /\ fs[b].pid \in 0..Len(ps)
         /\ fs[b].out \in 0..Len(ps) /\ fs[b].marker \in BOOLEAN
         /\ Recorded(b, fs[b]) \in 0..Len(ps)
  BY DEF Files, File, Recorded

(* Files without a session, where no process of theirs is left alive.      *)
LEMMA CleanKeeps ==
  ASSUME NEW ps, NEW fs, NEW qs, NEW b \in Backends, Procs(ps), Files(ps, fs),
         Tracked(ps, fs), Fewer(ps, qs),
         b \in {"codex", "agy"} => ~Alive(qs, Recorded(b, fs[b]))
  PROVE  Follows(ps, qs, Cleared(b, fs))
<1> DEFINE gs == Cleared(b, fs)
<1>1. Len(qs) = Len(ps) /\ Len(ps) \in Nat /\ Procs(qs)  BY DEF Fewer, Procs
<1>2. gs[b] \in File(Len(qs)) /\ (b # "kimi" => gs[b].sid = 0)
  <2>1. gs[b] = IF b = "kimi" THEN [NoFiles EXCEPT !.sid = fs[b].sid] ELSE NoFiles
    BY DEF Files, Cleared
  <2>2. NoFiles \in File(Len(qs)) /\ NoFiles.sid = 0  BY <1>1 DEF File, NoFiles
  <2>3. fs[b].sid \in 0..Len(qs)  BY <1>1, FileType
  <2>4. [NoFiles EXCEPT !.sid = fs[b].sid] \in File(Len(qs))
    BY <2>2, <2>3 DEF File
  <2>5. QED  BY <2>1, <2>2, <2>4
<1>3. gs = [fs EXCEPT ![b] = gs[b]]  BY DEF Files, Cleared
<1> HIDE DEF gs
<1>4. Files(qs, gs)  BY <1>1, <1>2, <1>3 DEF Files
<1>5. ASSUME NEW i \in 1..Len(qs), Kept(qs, i)
      PROVE  Traced(qs, gs, i)
  <2>1. /\ Kept(ps, i) /\ qs[i].backend = ps[i].backend /\ qs[i].conv = ps[i].conv
        /\ Contaminated("agy", qs) <=> Contaminated("agy", ps)
    BY <1>1, <1>5, FewerKept DEF Fewer
  <2>2. qs[i].backend \in Backends /\ qs[i].conv # 0
    BY <1>1, ProcessType
  <2>3. CASE qs[i].backend # b
    <3>1. gs[qs[i].backend] = fs[qs[i].backend]  BY <1>3, <2>2, <2>3 DEF Files
    <3>2. Traced(ps, fs, i)  BY <1>1, <2>1 DEF Tracked
    <3>3. QED  BY <2>1, <2>3, <3>1, <3>2 DEF Traced
  <2>4. CASE qs[i].backend = b
    <3>1. b \notin {"codex", "agy"}  BY <1>1, <1>5, <2>1, <2>4 DEF Tracked, Traced, Kept
    <3>2. QED  BY <1>2, <2>2, <2>4, <3>1 DEF Traced
  <2>5. QED  BY <2>3, <2>4
<1>6. Tracked(qs, gs)  BY <1>5 DEF Tracked
<1>7. QED  BY <1>4, <1>6 DEF Follows, gs

(* A reset ends or forgets its own backend's process and touches no other. *)
LEMMA ResetKeeps ==
  ASSUME NEW ps, NEW fs, NEW b \in Backends, Procs(ps), Files(ps, fs), Tracked(ps, fs),
         setup.home \in Backends,
         NEW r \in BackendReset(b, ps, fs)
  PROVE  Follows(ps, r.ps, r.fs)
<1> DEFINE i == Recorded(b, fs[b])
<1>1. Fewer(ps, ps) /\ i \in 0..Len(ps)  BY FewerSelf, FileType
<1>2. CASE r = Clean(b, ps, fs) /\ (Unlinks(b) \/ ~Alive(ps, i))
  <2>1. b \in {"codex", "agy"} => ~Alive(ps, i)  BY <1>2 DEF Unlinks
  <2>2. QED  BY <1>1, <1>2, <2>1, CleanKeeps DEF Clean
<1>3. CASE ~Unlinks(b) /\ Alive(ps, i) /\ b = "cci"
  <2>1. i \in 1..Len(ps)  BY <1>1, <1>3 DEF Alive
  <2>2. Fewer(ps, Gone(ps, i))  BY <2>1, Ended
  <2>3. r \in {Clean(b, ps, fs), Clean(b, Gone(ps, i), fs)}
    BY <1>3 DEF BackendReset, Signals
  <2>4. QED  BY <1>1, <1>3, <2>2, <2>3, CleanKeeps DEF Clean
<1>4. CASE ~Unlinks(b) /\ Alive(ps, i) /\ b # "cci"
  <2>1. i \in 1..Len(ps)  BY <1>1, <1>4 DEF Alive
  <2>2. r \in EndsFirst(b, i, ps, fs)  BY <1>4 DEF BackendReset
  <2>3. PICK qs \in Kills(b, i, ps, fs) :
          r = IF Alive(qs, i) THEN [ps |-> qs, fs |-> fs, done |-> FALSE] ELSE Clean(b, qs, fs)
    BY <2>2 DEF EndsFirst
  <2>4. Fewer(ps, qs)  BY <2>1, Terminated
  <2>5. CASE Alive(qs, i)
    <3>1. Files(qs, fs) /\ Tracked(qs, fs)  BY <2>4, FewerKeeps
    <3>2. QED  BY <2>3, <2>4, <2>5, <3>1 DEF Follows
  <2>6. CASE ~Alive(qs, i)
    BY <2>3, <2>4, <2>6, CleanKeeps DEF Clean
  <2>7. QED  BY <2>5, <2>6
<1>5. QED  BY <1>2, <1>3, <1>4 DEF BackendReset

LEMMA FollowsTwice ==
  ASSUME NEW ps, NEW qs, NEW gs, NEW rs, NEW hs, Follows(ps, qs, gs), Follows(qs, rs, hs)
  PROVE  Follows(ps, rs, hs)
  BY FewerTwice DEF Follows

LEMMA AgentResetKeeps ==
  ASSUME Types, Tracked(procs, files), NEW r \in AgentReset
  PROVE  Follows(procs, r.ps, r.fs)
<1>1. setup.home \in Backends /\ Procs(procs) /\ Files(procs, files)
  BY SetupType DEF Types
<1>2. CASE r \in BackendReset(setup.home, procs, files)  BY <1>1, <1>2, ResetKeeps
<1>3. CASE /\ setup.target \in {"cc", "pi", "kimi"}
           /\ \E h \in BackendReset(setup.home, procs, files) :
                \E t \in BackendReset(setup.target, h.ps, h.fs) :
                  r = [ps |-> t.ps, fs |-> t.fs, done |-> h.done /\ t.done]
  <2>1. PICK h \in BackendReset(setup.home, procs, files) :
          \E t \in BackendReset(setup.target, h.ps, h.fs) :
            r = [ps |-> t.ps, fs |-> t.fs, done |-> h.done /\ t.done]
    BY <1>3
  <2>2. PICK t \in BackendReset(setup.target, h.ps, h.fs) :
          r = [ps |-> t.ps, fs |-> t.fs, done |-> h.done /\ t.done]
    BY <2>1
  <2>3. Follows(procs, h.ps, h.fs)  BY <1>1, ResetKeeps
  <2>4. setup.target \in Backends  BY <1>3 DEF Backends
  <2>5. Follows(h.ps, t.ps, t.fs)
    BY <1>1, <2>3, <2>4, ResetKeeps DEF Follows, Fewer
  <2>6. QED  BY <2>2, <2>3, <2>5, FollowsTwice
<1>4. QED  BY <1>2, <1>3 DEF AgentReset

LEMMA ReapKeeps ==
  ASSUME Types, Tracked(procs, files), NEW b \in Backends, NEW at,
         NEW r \in SoftReap(b, at)
  PROVE  Follows(procs, r.ps, r.fs)
<1> DEFINE i == LiveOwner(b, procs, files)
<1>1. Procs(procs) /\ Files(procs, files)  BY DEF Types
<1>2. CASE r = [ps |-> procs, fs |-> files]
  BY <1>1, <1>2, FewerSelf DEF Follows
<1>3. CASE /\ i # 0
           /\ \E qs \in Kills(b, i, procs, files) :
                r = [ps |-> qs, fs |-> IF Alive(qs, i) THEN files ELSE [files EXCEPT ![b].pid = 0]]
  <2>1. PICK qs \in Kills(b, i, procs, files) :
          r = [ps |-> qs, fs |-> IF Alive(qs, i) THEN files ELSE [files EXCEPT ![b].pid = 0]]
    BY <1>3
  <2>2. i = Recorded(b, files[b]) /\ Alive(procs, i)  BY <1>3 DEF LiveOwner
  <2>3. i \in 1..Len(procs)  BY <2>2 DEF Alive
  <2>4. Fewer(procs, qs)  BY <1>1, <2>3, Terminated
  <2>5. Files(qs, files) /\ Tracked(qs, files)  BY <1>1, <2>4, FewerKeeps
  <2>6. CASE Alive(qs, i)  BY <2>1, <2>4, <2>5, <2>6 DEF Follows
  <2>7. CASE ~Alive(qs, i)
    <3> DEFINE gs == [files EXCEPT ![b].pid = 0]
    <3>1. gs = [files EXCEPT ![b] = gs[b]] /\ gs[b] \in File(Len(qs))
          /\ gs[b].sid = files[b].sid /\ gs[b].out = files[b].out
      BY <2>5 DEF Files, File
    <3> HIDE DEF gs
    <3>2. Files(qs, gs)  BY <2>5, <3>1 DEF Files
    <3>3. ASSUME NEW j \in 1..Len(qs), Kept(qs, j)
          PROVE  Traced(qs, gs, j)
      <4>1. j # i  BY <2>7, <3>3 DEF Kept
      <4>2. qs[j].backend \in Backends
        BY <2>4, ProcessType DEF Fewer
      <4>3. CASE qs[j].backend # b
        <5>1. gs[qs[j].backend] = files[qs[j].backend]  BY <2>5, <3>1, <4>2, <4>3 DEF Files
        <5>2. QED  BY <2>5, <3>3, <4>3, <5>1 DEF Tracked, Traced
      <4>4. CASE qs[j].backend = b
        <5>1. b \notin {"codex", "agy"}  BY <2>2, <2>5, <3>3, <4>1, <4>4 DEF Tracked, Traced
        <5>2. b = "cc" => files["cc"].sid # qs[j].conv
          BY <2>2, <2>5, <3>3, <4>1, <4>4 DEF Tracked, Traced, Recorded
        <5>3. QED  BY <3>1, <4>4, <5>1, <5>2 DEF Traced
      <4>5. QED  BY <4>3, <4>4
    <3>4. Tracked(qs, gs)  BY <3>3 DEF Tracked
    <3>5. QED  BY <2>1, <2>4, <2>7, <3>2, <3>4 DEF Follows, gs
  <2>8. QED  BY <2>6, <2>7
<1>4. QED  BY <1>2, <1>3 DEF SoftReap

-----------------------------------------------------------------------------
(* Steps *)

(* A step that ends processes and starts none, and brings no send to the   *)
(* point of starting one.                                                  *)
LEMMA QuietStep ==
  ASSUME WriterInv, Follows(procs, procs', files'), PlainTypes', Sending',
         \A a \in Actors : op'[a] = op[a] \/ op'[a].pc # "spawn"
  PROVE  WriterInv'
<1>1. Fewer(procs, procs') /\ Files(procs', files') /\ Tracked(procs', files')
  BY DEF Follows
<1>2. Types'  BY <1>1 DEF Types, Fewer
<1>3. Procs(procs)  BY DEF WriterInv, Types
<1>4. Single(procs')  BY <1>1, <1>3, FewerKeeps DEF WriterInv
<1>5. ASSUME NEW a \in Actors PROVE Undisturbed(op'[a], procs')
  <2>1. CASE op'[a] = op[a]  BY <1>1, <1>3, <2>1, FewerKeeps DEF WriterInv
  <2>2. CASE op'[a].pc # "spawn"  BY <2>2 DEF Undisturbed
  <2>3. QED  BY <2>1, <2>2
<1>6. Exclusive'  BY DEF WriterInv, Exclusive
<1>7. QED  BY <1>1, <1>2, <1>4, <1>5, <1>6 DEF WriterInv

(* ... in particular one that changes neither sends nor files.             *)
LEMMA ProcessStep ==
  ASSUME WriterInv, Fewer(procs, procs'), UNCHANGED <<files, op>>, PlainTypes'
  PROVE  WriterInv'
<1>1. Procs(procs) /\ Files(procs, files) /\ Tracked(procs, files) /\ Sending
  BY DEF WriterInv, Types
<1>2. Follows(procs, procs', files')  BY <1>1, FewerKeeps DEF Follows
<1>3. Now' = Now  BY DEF Fewer, Now
<1>4. Sending'  BY <1>1, <1>3 DEF Sending
<1>5. QED  BY <1>2, <1>4, QuietStep

LEMMA ProcessesEnd ==
  ASSUME Types, NEW i \in 1..Now, Submit(i) \/ End(i) \/ Die(i) \/ Hang(i)
  PROVE  Fewer(procs, procs')
<1>1. Procs(procs) /\ i \in 1..Len(procs)  BY DEF Types, Now
<1>2. procs[i] \in Process  BY <1>1, ProcessType
<1> USE DEF Fault
<1>3. \E q \in Process :
        /\ procs' = [procs EXCEPT ![i] = q]
        /\ q.backend = procs[i].backend /\ q.conv = procs[i].conv /\ q.stray = procs[i].stray
        /\ q.st # "gone" => procs[i].st # "gone"
  <2>1. CASE Submit(i)
    <3>1. [procs[i] EXCEPT !.st = "sent"] \in Process  BY <1>2 DEF Process
    <3>2. QED  BY <1>2, <2>1, <3>1 DEF Submit, Process
  <2>2. CASE End(i)
    <3>1. [procs[i] EXCEPT !.st = "gone"] \in Process  BY <1>2 DEF Process
    <3>2. QED  BY <1>2, <2>2, <3>1 DEF End, Gone, Process
  <2>3. CASE Die(i)
    <3>1. PICK said \in BOOLEAN : procs' = [procs EXCEPT ![i].st = "gone", ![i].spoke = said]
      BY <2>3 DEF Die
    <3> DEFINE q == [procs[i] EXCEPT !.st = "gone", !.spoke = said]
    <3>2. /\ q \in Process /\ q.backend = procs[i].backend /\ q.conv = procs[i].conv
          /\ q.stray = procs[i].stray /\ q.st = "gone"
      BY <1>2 DEF Process
    <3>3. procs' = [procs EXCEPT ![i] = q]  BY <3>1
    <3> HIDE DEF q
    <3>4. QED  BY <3>2, <3>3
  <2>4. CASE Hang(i)
    <3>1. [procs[i] EXCEPT !.st = "hung"] \in Process  BY <1>2 DEF Process
    <3>2. QED  BY <1>2, <2>4, <3>1 DEF Hang, Process
  <2>5. QED  BY <2>1, <2>2, <2>3, <2>4
<1>4. QED  BY <1>1, <1>3, Touched

LEMMA Processes ==
  ASSUME WriterInv, NEW i \in 1..Now, Submit(i) \/ End(i) \/ Die(i) \/ Hang(i)
  PROVE  WriterInv'
<1> USE DEF Fault
<1>1. Procs(procs) /\ PlainTypes /\ i \in 1..Len(procs)  BY DEF WriterInv, Types, Now
<1>2. Fewer(procs, procs')  BY ProcessesEnd DEF WriterInv
<1>3. Now' = Now /\ Now \in Nat  BY <1>1, <1>2 DEF Fewer, Now, Procs
<1>4. PlainTypes'
  <2>1. CASE Submit(i)
    <3>1. procs[i].project \in Projects  BY <1>1, ProcessType
    <3>2. QED  BY <1>1, <1>3, <2>1, <3>1 DEF Submit, PlainTypes
  <2>2. CASE End(i)  BY <1>1, <1>3, <2>2 DEF End, PlainTypes
  <2>3. CASE Die(i)  BY <1>1, <1>3, <2>3, BoundsAssumption DEF Die, PlainTypes, BoundsAssumption
  <2>4. CASE Hang(i)  BY <1>1, <1>3, <2>4, BoundsAssumption DEF Hang, PlainTypes, BoundsAssumption
  <2>5. QED  BY <2>1, <2>2, <2>3, <2>4
<1>5. UNCHANGED <<files, op>>  BY DEF Submit, End, Die, Hang
<1>6. QED  BY <1>2, <1>4, <1>5, ProcessStep

LEMMA Expiry == ASSUME WriterInv, Expire PROVE WriterInv'
<1>1. Procs(procs) /\ PlainTypes  BY DEF WriterInv, Types
<1>2. procs' = procs /\ UNCHANGED <<files, op>>  BY DEF Expire
<1>3. Fewer(procs, procs')  BY <1>1, <1>2, FewerSelf
<1>4. PlainTypes'
  BY <1>1, <1>2, BoundsAssumption DEF Expire, Fault, PlainTypes, BoundsAssumption, Now
<1>5. QED  BY <1>2, <1>3, <1>4, ProcessStep

LEMMA PhaseStarts ==
  ASSUME WriterInv, NEW a \in Actors, NEW p \in Projects, StartPhase(a, p)
  PROVE  WriterInv'
<1>1. Types /\ PlainTypes /\ Sending /\ Tracked(procs, files)  BY DEF WriterInv, Types
<1>2. Follows(procs, procs', files') /\ reset' \in {Now, reset}
  BY <1>1, AgentResetKeeps DEF StartPhase
<1>3. Now' = Now /\ Now \in Nat  BY <1>1, <1>2 DEF Types, Procs, Follows, Fewer, Now
<1>4. setup.asks \in Nat  BY <1>1, SetupsAssumption DEF PlainTypes, SetupsAssumption
<1>5. PlainTypes'
  BY <1>1, <1>2, <1>3, <1>4 DEF StartPhase, PlainTypes, SettledPeriod
<1>6. Sending' /\ op' = op  BY <1>1, <1>3 DEF StartPhase, Sending
<1>7. QED  BY <1>2, <1>5, <1>6, QuietStep

LEMMA RoundStarts ==
  ASSUME WriterInv, NEW a \in Actors, NEW p \in Projects, NextRound(a, p)
  PROVE  WriterInv'
<1>1. Types /\ PlainTypes /\ Sending /\ Tracked(procs, files) /\ Procs(procs) /\ Files(procs, files)
  BY DEF WriterInv, Types
<1>2. Follows(procs, procs', files')
  <2>1. PICK r \in IF a = "tick" THEN SoftReap(setup.home, submitted[p])
                                ELSE {[ps |-> procs, fs |-> files]} :
          procs' = r.ps /\ files' = r.fs
    BY DEF NextRound
  <2>2. CASE a = "tick"  BY <1>1, <2>1, <2>2, SetupType, ReapKeeps
  <2>3. CASE a # "tick"  BY <1>1, <2>1, <2>3, FewerSelf DEF Follows
  <2>4. QED  BY <2>2, <2>3
<1>3. Now' = Now /\ Now \in Nat  BY <1>1, <1>2 DEF Types, Procs, Follows, Fewer, Now
<1>4. setup.asks \in Nat  BY <1>1, SetupsAssumption DEF PlainTypes, SetupsAssumption
<1>5. PlainTypes'  BY <1>1, <1>3, <1>4 DEF NextRound, PlainTypes
<1>6. Sending' /\ op' = op  BY <1>1, <1>3 DEF NextRound, Sending
<1>7. QED  BY <1>2, <1>5, <1>6, QuietStep

LEMMA RouteKeeps ==
  ASSUME Types, Tracked(procs, files), NEW over \in BOOLEAN, NEW r \in Routes(over)
  PROVE  /\ Follows(procs, r.ps, r.fs) /\ r.b \in Backends
         /\ r.period \in {"none", "active", "expired"}
         /\ r.period = "active" => setup.target \in Backends
<1>1. /\ Procs(procs) /\ Files(procs, files) /\ PlainTypes
      /\ setup.home \in Backends /\ setup.target \in Backends \cup {"none"}
  BY SetupType DEF Types
<1>2. ASSUME NEW b, NEW c, r \in Sent(b, c)
      PROVE  Follows(procs, r.ps, r.fs) /\ r.b = b /\ r.period = c
  BY <1>1, <1>2, FewerSelf DEF Sent, Follows
<1>3. CASE period = "active"
  BY <1>1, <1>2, <1>3 DEF Routes, PlainTypes
<1>4. CASE period # "active" /\ setup.target = "none"
  BY <1>1, <1>2, <1>4 DEF Routes, PlainTypes
<1>5. CASE period # "active" /\ setup.target # "none" /\ ~over
  <2>1. r \in Spared  BY <1>5 DEF Routes
  <2>2. r.period \in {"none", period}  BY <1>2, <2>1 DEF Spared
  <2>3. QED  BY <1>1, <1>2, <1>5, <2>1, <2>2 DEF Spared, PlainTypes
<1>6. CASE period # "active" /\ setup.target # "none" /\ over /\ Renews
  BY <1>1, <1>2, <1>6 DEF Routes
<1>7. CASE period # "active" /\ setup.target # "none" /\ over /\ ~Renews
  <2>1. PICK t \in BackendReset(setup.target, procs, files) :
          r = [b |-> setup.target, ps |-> t.ps, fs |-> t.fs, period |-> "active"]
    BY <1>7 DEF Routes, Begins
  <2>2. QED  BY <1>1, <1>7, <2>1, ResetKeeps
<1>8. QED  BY <1>3, <1>4, <1>5, <1>6, <1>7

LEMMA Routed ==
  ASSUME WriterInv, NEW a \in Actors, NEW p \in Projects, Route(a, p)
  PROVE  WriterInv'
<1>1. Types /\ PlainTypes /\ Sending /\ Tracked(procs, files)  BY DEF WriterInv, Types
<1>2. PICK over \in BOOLEAN : \E r \in Routes(over) :
        /\ op' = [op EXCEPT ![a] = [pc |-> "check", b |-> r.b, p |-> p,
                               conv |-> 0, was |-> reset]]
        /\ procs' = r.ps /\ files' = r.fs /\ period' = r.period
  BY DEF Route
<1>3. PICK r \in Routes(over) :
        /\ op' = [op EXCEPT ![a] = [pc |-> "check", b |-> r.b, p |-> p,
                               conv |-> 0, was |-> reset]]
        /\ procs' = r.ps /\ files' = r.fs /\ period' = r.period
  BY <1>2
<1>4. /\ Follows(procs, procs', files') /\ r.b \in Backends
      /\ period' \in {"none", "active", "expired"}
      /\ period' = "active" => setup.target \in Backends
  BY <1>1, <1>3, RouteKeeps
<1>5. Now' = Now /\ Now \in Nat  BY <1>1, <1>4 DEF Types, Procs, Follows, Fewer, Now
<1>6. PlainTypes'  BY <1>1, <1>4, <1>5 DEF Route, PlainTypes
<1>7. [pc |-> "check", b |-> r.b, p |-> p, conv |-> 0, was |-> reset] \in Send(Now)
  BY <1>1, <1>4, <1>5 DEF Send, PlainTypes
<1>8. Sending'  BY <1>1, <1>3, <1>4, <1>5, <1>7 DEF Sending
<1>9. \A o \in Actors : op'[o] = op[o] \/ op'[o].pc # "spawn"
  BY <1>1, <1>3 DEF Sending
<1>10. QED  BY <1>4, <1>6, <1>8, <1>9, QuietStep

LEMMA Abandoned ==
  ASSUME WriterInv, NEW a \in Actors,
         SpawnFails(a) \/ (Killed(a) /\ UNCHANGED <<procs, files>>)
  PROVE  WriterInv'
<1>1. Types /\ PlainTypes /\ Sending /\ Tracked(procs, files) /\ Procs(procs) /\ Files(procs, files)
  BY DEF WriterInv, Types
<1>2. Over(a) /\ UNCHANGED <<procs, files>>  BY DEF SpawnFails, Killed
<1>3. Follows(procs, procs', files') /\ Now' = Now /\ Now \in Nat
  BY <1>1, <1>2, FewerSelf DEF Follows, Now, Procs
<1>4. faults' \in 0..FaultBound
  BY <1>1, BoundsAssumption DEF SpawnFails, Killed, Fault, PlainTypes, BoundsAssumption
<1>5. PlainTypes'  BY <1>1, <1>2, <1>3, <1>4 DEF Over, PlainTypes
<1>6. Sending' /\ \A o \in Actors : op'[o] = op[o] \/ op'[o].pc # "spawn"
  <2>1. Idle \in Send(Now) /\ Idle.pc = "idle"  BY <1>3 DEF Idle, Send
  <2>2. op' = [op EXCEPT ![a] = Idle]  BY <1>2 DEF Over
  <2>3. QED  BY <1>1, <1>3, <2>1, <2>2 DEF Sending
<1>7. QED  BY <1>3, <1>5, <1>6, QuietStep

(* Recorded processes of agy are turned away: theirs is the latest already. *)
LEMMA AgyTurns ==
  ASSUME WriterInv, NEW i \in 1..Now, Turn(i), procs[i].backend = "agy"
  PROVE  Contaminated("agy", procs)
<1>1. Alive(procs, i) /\ i \in 1..Len(procs)  BY DEF Turn, Alive, Now
<1>2. CASE procs[i].stray  BY <1>1, <1>2 DEF Contaminated
<1>3. CASE ~procs[i].stray
  <2>1. Traced(procs, files, i)  BY <1>1, <1>3 DEF Kept, WriterInv, Tracked
  <2>2. QED  BY <2>1 DEF Traced, Turn
<1>4. QED  BY <1>2, <1>3

LEMMA Turned ==
  ASSUME WriterInv, NEW i \in 1..Now, Turn(i)
  PROVE  WriterInv'
<1> DEFINE b == procs[i].backend
           c == procs[i].conv
<1>1. Types /\ PlainTypes /\ Sending /\ Tracked(procs, files) /\ Procs(procs) /\ Files(procs, files)
  BY DEF WriterInv, Types
<1>2. b \in {"agy", "kimi", "gemini"} /\ b \in Backends /\ c \in 0..Len(procs)
  BY <1>1, ProcessType DEF Turn, Now
<1>3. files' = [files EXCEPT ![b] = [files[b] EXCEPT !.sid = c]] /\ procs' = procs /\ op' = op
  BY DEF Turn
<1>4. [files[b] EXCEPT !.sid = c] \in File(Len(procs))  BY <1>1, <1>2 DEF Files, File
<1>4a. b = "agy" => Contaminated("agy", procs)  BY AgyTurns
<1> HIDE DEF b, c
<1>5. Files(procs', files')  BY <1>1, <1>2, <1>3, <1>4 DEF Files
<1>6. /\ files'["codex"] = files["codex"] /\ files'["cc"] = files["cc"]
      /\ files'["agy"].pid = files["agy"].pid
      /\ ~Contaminated("agy", procs) => files'["agy"] = files["agy"]
  <2>1. "agy" \in Backends /\ "cc" \in Backends /\ "codex" \in Backends  BY DEF Backends
  <2>2. \A x \in Backends \ {b} : files'[x] = files[x]  BY <1>1, <1>3 DEF Files
  <2>3. files'[b] = [files[b] EXCEPT !.sid = c] /\ files[b] \in File(Len(procs))
    BY <1>1, <1>2, <1>3 DEF Files
  <2>4. files'[b].pid = files[b].pid  BY <2>3 DEF File
  <2>5. QED  BY <1>2, <1>4a, <2>1, <2>2, <2>4
<1>7. Tracked(procs', files')
  <2>1. ASSUME NEW j \in 1..Len(procs), Traced(procs, files, j)
        PROVE  Traced(procs, files', j)
    <3>1. procs[j].backend \in {"codex", "agy"} =>
            Recorded(procs[j].backend, files'[procs[j].backend]) = j
      <4>1. CASE procs[j].backend = "codex"  BY <1>6, <2>1, <4>1 DEF Traced
      <4>2. CASE procs[j].backend = "agy"  BY <1>6, <2>1, <4>2 DEF Traced, Recorded
      <4>3. QED  BY <4>1, <4>2
    <3>2. QED  BY <1>6, <2>1, <3>1 DEF Traced
  <2>2. QED  BY <1>1, <1>3, <2>1 DEF Tracked
<1>8. Follows(procs, procs', files')  BY <1>1, <1>3, <1>5, <1>7, FewerSelf DEF Follows
<1>9. Now' = Now  BY <1>3 DEF Now
<1>10. PlainTypes' /\ Sending'  BY <1>1, <1>3, <1>9 DEF Turn, PlainTypes, Sending
<1>11. QED  BY <1>3, <1>8, <1>10, QuietStep

LEMMA HarvestType ==
  ASSUME NEW ps, NEW fs, Procs(ps), Files(ps, fs), NEW sid \in Harvested(ps, fs["codex"])
  PROVE  sid \in 0..Len(ps)
<1>1. "codex" \in Backends  BY DEF Backends
<1>2. fs["codex"].sid \in 0..Len(ps) /\ fs["codex"].out \in 0..Len(ps)
  BY <1>1, FileType
<1>3. CASE fs["codex"].out = 0  BY <1>2, <1>3 DEF Harvested
<1>4. CASE fs["codex"].out # 0
  <2>1. ps[fs["codex"].out].conv \in 0..Len(ps)  BY <1>2, <1>4, ProcessType
  <2>2. QED  BY <1>2, <1>4, <2>1 DEF Harvested
<1>5. QED  BY <1>3, <1>4

(* A send that goes on: its backend's processes are ended, or not its own. *)
GoesOn(a, b, qs, sid, pid, f) ==
  /\ b = op[a].b /\ op[a].pc = "check" /\ LockFree(a, b)
  /\ Fewer(procs, qs) /\ procs' = qs
  /\ b \in {"codex", "agy"} => \A j \in 1..Len(qs) : Kept(qs, j) => qs[j].backend # b
  /\ b = "cc" => \A j \in 1..Len(qs) :
       Kept(qs, j) /\ qs[j].backend = b => qs[j].conv # files[b].sid
  /\ sid \in IF b = "codex" THEN Harvested(qs, files[b]) ELSE {files[b].sid}
  /\ pid \in {0, files[b].pid}
  /\ f = [files[b] EXCEPT !.sid = sid, !.out = 0, !.pid = pid]
  /\ files' = [files EXCEPT ![b] = f]
  /\ op' = [op EXCEPT ![a].pc = "spawn", ![a].conv = Resumed(b, f)]
  /\ UNCHANGED <<setup, todo, submitted, period, reset, asks, faults>>

LEMMA GoneOn ==
  ASSUME WriterInv, NEW a \in Actors, NEW b, NEW qs, NEW sid, NEW pid, NEW f,
         GoesOn(a, b, qs, sid, pid, f)
  PROVE  WriterInv'
<1> USE DEF GoesOn
<1>1. /\ Types /\ PlainTypes /\ Sending /\ Tracked(procs, files)
      /\ Procs(procs) /\ Files(procs, files) /\ Single(procs) /\ Exclusive
      /\ \A o \in Actors : Undisturbed(op[o], procs)
  BY DEF WriterInv, Types
<1>2. b \in Backends /\ op[a] \in Send(Now)  BY <1>1 DEF Sending
<1>3. /\ Len(qs) = Len(procs) /\ Procs(qs) /\ Files(qs, files) /\ Tracked(qs, files)
      /\ Single(qs) /\ \A o \in Actors : Undisturbed(op[o], qs)
  BY <1>1, FewerKeeps DEF Fewer
<1>4. Now' = Now /\ Now = Len(qs) /\ Now \in Nat  BY <1>3 DEF Now, Procs
<1>5. sid \in 0..Len(qs)
  <2>1. CASE b = "codex"  BY <1>3, <2>1, HarvestType
  <2>2. CASE b # "codex"  BY <1>2, <1>3, <2>2, FileType
  <2>3. QED  BY <2>1, <2>2
<1>6. /\ f \in File(Len(qs)) /\ f.sid = sid
  <2>1. files[b] \in File(Len(qs))  BY <1>2, <1>3 DEF Files
  <2>2. pid \in 0..Len(qs) /\ 0 \in 0..Len(qs)  BY <2>1, <1>4 DEF File
  <2>3. f = [sid |-> sid, pid |-> pid, out |-> 0, marker |-> files[b].marker]
    BY <2>1 DEF File
  <2>4. files[b].marker \in BOOLEAN  BY <2>1 DEF File
  <2>5. QED  BY <1>5, <2>2, <2>3, <2>4 DEF File
<1>7. Files(procs', files')  BY <1>2, <1>3, <1>6 DEF Files
<1>8. Resumed(b, f) \in 0..Len(qs) /\ (b = "cc" => Resumed(b, f) = sid)
  BY <1>4, <1>5, <1>6 DEF Resumed
<1>9. /\ op'[a] \in Send(Now) /\ op'[a].b = b /\ op'[a].p = op[a].p
      /\ op'[a].pc = "spawn" /\ op'[a].conv = Resumed(b, f)
      /\ \A o \in Actors \ {a} : op'[o] = op[o]
  <2> DEFINE s == [op[a] EXCEPT !.pc = "spawn", !.conv = Resumed(b, f)]
  <2>1. op' = [op EXCEPT ![a] = s]  OBVIOUS
  <2>2. s \in Send(Now) /\ s.b = b /\ s.p = op[a].p /\ s.pc = "spawn" /\ s.conv = Resumed(b, f)
    BY <1>2, <1>4, <1>8 DEF Send
  <2> HIDE DEF s
  <2>3. QED  BY <1>1, <2>1, <2>2 DEF Sending
<1>10. Sending'
  <2>1. op' \in [Actors -> Send(Now')]  BY <1>1, <1>4, <1>9 DEF Sending
  <2>2. QED  BY <1>1, <1>9, <2>1 DEF Sending
<1>11. PlainTypes'  BY <1>1, <1>4 DEF PlainTypes
<1>12. Tracked(procs', files')
  <2>1. ASSUME NEW j \in 1..Len(qs), Kept(qs, j)
        PROVE  Traced(qs, files', j)
    <3>1. qs[j].backend \in Backends  BY <1>3, ProcessType
    <3>2. CASE qs[j].backend # b
      <4>1. files'[qs[j].backend] = files[qs[j].backend]  BY <1>3, <3>1, <3>2 DEF Files
      <4>2. QED  BY <1>3, <2>1, <3>2, <4>1 DEF Tracked, Traced
    <3>3. CASE qs[j].backend = b
      <4>1. b \notin {"codex", "agy"}  BY <2>1, <3>3
      <4>2. b = "cc" => sid = files["cc"].sid  OBVIOUS
      <4>3. files'[b].sid = sid  BY <1>2, <1>3, <1>6 DEF Files
      <4>4. QED  BY <2>1, <3>3, <4>1, <4>2, <4>3 DEF Traced
    <3>4. QED  BY <3>2, <3>3
  <2>2. QED  BY <2>1 DEF Tracked
<1>13. ASSUME NEW o \in Actors PROVE Undisturbed(op'[o], procs')
  <2>1. CASE o # a  BY <1>3, <1>9, <2>1
  <2>2. CASE o = a
    <3>1. b \in Locked => b \in {"cc", "codex", "agy"}  BY DEF Locked
    <3>2. QED  BY <1>8, <1>9, <2>2, <3>1 DEF Undisturbed
  <2>3. QED  BY <2>1, <2>2
<1>14. Exclusive'
  <2>1. \A o \in Actors \ {a} : ~(op'[o].pc = "spawn" /\ op'[o].b = b) \/ b \notin Locked
    BY <1>9 DEF LockFree
  <2>2. ASSUME NEW x \in Actors, NEW y \in Actors, op'[x].pc = "spawn", op'[y].pc = "spawn",
               op'[x].b = op'[y].b, op'[x].b \in Locked
        PROVE  x = y
    <3>0. op'[a].b = b  BY <1>9
    <3>1. CASE x = a
      <4>1. op'[x].b = b /\ op'[y].b = b /\ b \in Locked  BY <2>2, <3>0, <3>1
      <4>2. y = a  BY <2>1, <2>2, <4>1
      <4>3. QED  BY <3>1, <4>2
    <3>2. CASE y = a
      <4>1. op'[x].b = b /\ b \in Locked  BY <2>2, <3>0, <3>2
      <4>2. x = a  BY <2>1, <2>2, <4>1
      <4>3. QED  BY <3>2, <4>2
    <3>3. CASE x # a /\ y # a  BY <1>1, <1>9, <2>2, <3>3 DEF Exclusive
    <3>4. QED  BY <3>1, <3>2, <3>3
  <2>3. QED  BY <2>2 DEF Exclusive
<1>15. Types'  BY <1>3, <1>7, <1>10, <1>11 DEF Types
<1>16. QED  BY <1>3, <1>12, <1>13, <1>14, <1>15 DEF WriterInv

LEMMA CheckGoes ==
  ASSUME WriterInv, NEW a \in Actors, Check(a)
  PROVE  Busy(a) \/ \E b, qs, sid, pid, f : GoesOn(a, b, qs, sid, pid, f)
<1>0. PICK b : b = op[a].b  OBVIOUS
<1> DEFINE i == IF Refuses(b) THEN LiveOwner(b, procs, files) ELSE 0
           F(sid) == [files[b] EXCEPT !.sid = sid, !.out = 0,
                        !.pid = IF i # 0 \/ b = "codex" THEN 0 ELSE @]
           GoOn(ps) == \E sid \in IF b = "codex" THEN Harvested(ps, files[b]) ELSE {files[b].sid} :
             /\ procs' = ps
             /\ files' = [files EXCEPT ![b] = F(sid)]
             /\ op' = [op EXCEPT ![a].pc = "spawn", ![a].conv = Resumed(b, F(sid))]
<1>1. /\ Types /\ PlainTypes /\ Sending /\ Tracked(procs, files)
      /\ Procs(procs) /\ Files(procs, files)
  BY DEF WriterInv, Types
<1>2. b \in Backends /\ op[a].pc = "check" /\ LockFree(a, b)  BY <1>0, <1>1 DEF Sending, Check
<1>3. i \in 0..Len(procs)  BY <1>1, <1>2, FileType DEF LiveOwner
<1>5. ASSUME NEW qs, GoOn(qs), Fewer(procs, qs),
             i = 0 => qs = procs, i # 0 => ~Alive(qs, i) /\ b # "cc"
      PROVE  \E x, ps, sid, pid, f : GoesOn(a, x, ps, sid, pid, f)
  <2>1. PICK sid \in IF b = "codex" THEN Harvested(qs, files[b]) ELSE {files[b].sid} :
             /\ procs' = qs
             /\ files' = [files EXCEPT ![b] = F(sid)]
             /\ op' = [op EXCEPT ![a].pc = "spawn", ![a].conv = Resumed(b, F(sid))]
    BY <1>5
  <2>2. Tracked(qs, files) /\ Len(qs) = Len(procs)  BY <1>1, <1>5, FewerKeeps DEF Fewer
  <2>3. b \in {"codex", "agy"} => \A j \in 1..Len(qs) : Kept(qs, j) => qs[j].backend # b
    <3>1. ASSUME b \in {"codex", "agy"}, NEW j \in 1..Len(qs), Kept(qs, j), qs[j].backend = b
          PROVE  FALSE
      <4>1. Recorded(b, files[b]) = j  BY <2>2, <3>1 DEF Tracked, Traced
      <4>2. i = IF Alive(procs, j) THEN j ELSE 0
        BY <3>1, <4>1 DEF Refuses, LiveOwner, OfSession
      <4>3. Alive(procs, j)  BY <1>5, <2>2, <3>1 DEF Fewer, Kept
      <4>4. QED  BY <1>5, <3>1, <4>2, <4>3 DEF Kept
    <3>2. QED  BY <3>1
  <2>4. b = "cc" => \A j \in 1..Len(qs) :
                      Kept(qs, j) /\ qs[j].backend = b => qs[j].conv # files[b].sid
    <3>1. ASSUME b = "cc", NEW j \in 1..Len(qs), Kept(qs, j), qs[j].backend = b,
                 qs[j].conv = files[b].sid
          PROVE  FALSE
      <4>1. files[b].pid = j /\ qs = procs /\ i = 0  BY <1>5, <2>2, <3>1 DEF Tracked, Traced
      <4>2. LiveOwner(b, procs, files) = j
        BY <3>1, <4>1 DEF LiveOwner, Recorded, OfSession, Kept
      <4>3. QED  BY <3>1, <4>1, <4>2 DEF Refuses
    <3>2. QED  BY <3>1
  <2> DEFINE pid == IF i # 0 \/ b = "codex" THEN 0 ELSE files[b].pid
  <2>5. pid \in {0, files[b].pid}  OBVIOUS
  <2>6. F(sid) = [files[b] EXCEPT !.sid = sid, !.out = 0, !.pid = pid]
    BY <1>1, <1>2 DEF Files, File
  <2>7. UNCHANGED <<setup, todo, submitted, period, reset, asks, faults>>  BY DEF Check
  <2>8. PICK f : f = F(sid)  OBVIOUS
  <2>9. PICK q : q = pid  OBVIOUS
  <2>10. /\ f = [files[b] EXCEPT !.sid = sid, !.out = 0, !.pid = q]
        /\ q \in {0, files[b].pid}
        /\ files' = [files EXCEPT ![b] = f]
        /\ op' = [op EXCEPT ![a].pc = "spawn", ![a].conv = Resumed(b, f)]
        /\ procs' = qs /\ Fewer(procs, qs)
    BY <1>5, <2>1, <2>5, <2>6, <2>8, <2>9
  <2> HIDE DEF i, F, pid
  <2>11. GoesOn(a, b, qs, sid, q, f)
    BY <1>0, <1>2, <2>1, <2>3, <2>4, <2>7, <2>10 DEF GoesOn
  <2>12. QED  BY <2>11
<1>6. CASE i = 0 /\ GoOn(procs)
  BY <1>1, <1>5, <1>6, FewerSelf
<1>7. CASE i # 0 /\ ReapsOnSend(b, i) /\ \E qs \in Kills(b, i, procs, files) : ~Alive(qs, i) /\ GoOn(qs)
  <2>1. PICK qs \in Kills(b, i, procs, files) : ~Alive(qs, i) /\ GoOn(qs)  BY <1>7
  <2>2. Fewer(procs, qs)  BY <1>1, <1>3, <1>7, Terminated
  <2>3. b # "cc"  BY <1>7 DEF ReapsOnSend
  <2>4. QED  BY <1>5, <1>7, <2>1, <2>2, <2>3
<1>8. QED
  <2>1. IF i = 0 THEN GoOn(procs)
        ELSE IF ~ReapsOnSend(b, i) THEN Busy(a)
        ELSE \E qs \in Kills(b, i, procs, files) : IF Alive(qs, i) THEN Busy(a) ELSE GoOn(qs)
    BY <1>0 DEF Check
  <2> HIDE DEF i, F, GoOn
  <2>2. QED  BY <1>6, <1>7, <2>1

LEMMA Checked ==
  ASSUME WriterInv, NEW a \in Actors, Check(a)
  PROVE  WriterInv'
<1>1. /\ Types /\ PlainTypes /\ Sending /\ Tracked(procs, files)
      /\ Procs(procs) /\ Files(procs, files)
  BY DEF WriterInv, Types
<1>2. CASE Busy(a)
  <2>1. Follows(procs, procs', files') /\ Now' = Now
    BY <1>1, <1>2, FewerSelf DEF Busy, Follows, Now
  <2>2. PlainTypes'  BY <1>1, <2>1 DEF Check, PlainTypes
  <2>3. Sending' /\ \A o \in Actors : op'[o] = op[o] \/ op'[o].pc # "spawn"
    <3>1. Idle \in Send(Now)  BY <1>1 DEF Idle, Send, Procs, Now
    <3>2. Idle.pc = "idle"  BY DEF Idle
    <3>3. op' = [op EXCEPT ![a] = Idle]  BY <1>2 DEF Busy
    <3>4. QED  BY <1>1, <2>1, <3>1, <3>2, <3>3 DEF Sending
  <2>4. QED  BY <2>1, <2>2, <2>3, QuietStep
<1>3. CASE \E b, qs, sid, pid, f : GoesOn(a, b, qs, sid, pid, f)
  BY <1>3, GoneOn
<1>4. QED  BY <1>2, <1>3, CheckGoes

(* The list with one process more.                                         *)
LEMMA Appended ==
  ASSUME NEW ps, Procs(ps), NEW q \in Process, q.conv <= Len(ps) + 1
  PROVE  /\ Procs(Append(ps, q)) /\ Len(Append(ps, q)) = Len(ps) + 1
         /\ Append(ps, q)[Len(ps) + 1] = q
         /\ \A j \in 1..Len(ps) : Append(ps, q)[j] = ps[j]
<1>1. ps \in Seq(Process) /\ Len(ps) \in Nat  BY DEF Procs
<1>2. /\ Append(ps, q) \in Seq(Process) /\ Len(Append(ps, q)) = Len(ps) + 1
      /\ Append(ps, q)[Len(ps) + 1] = q
      /\ \A j \in 1..Len(ps) : Append(ps, q)[j] = ps[j]
  BY <1>1, AppendProperties
<1>3. \A j \in 1..Len(ps) + 1 : Append(ps, q)[j].conv <= Len(ps) + 1
  <2>1. ASSUME NEW j \in 1..Len(ps) PROVE ps[j].conv <= Len(ps) + 1
    BY <1>1, <2>1, ProcessType
  <2>2. \A j \in 1..Len(ps) + 1 : j \in 1..Len(ps) \/ j = Len(ps) + 1
    BY <1>1
  <2>3. QED  BY <1>2, <2>1, <2>2
<1>4. QED  BY <1>2, <1>3 DEF Procs

(* What lets a live process go unrecorded.                                 *)
MayStray == "kill" \in setup.allowed \/ {"persist", "stubborn"} \subseteq setup.allowed

(* A process, started or ended at once, joins the list; a send is over.    *)
Joins(a, b, c, q, f) ==
  /\ op[a].pc = "spawn" /\ b = op[a].b
  /\ c = Conversation(a)
  /\ Now + 1 <= LaunchBound
  /\ q \in Process /\ q.backend = b /\ q.conv = c /\ q.st \in {"run", "gone"}
  /\ f \in File(Now + 1)
  /\ q.st = "run" /\ (q.stray => b = "codex") =>
       /\ b \in {"codex", "agy"} => Recorded(b, f) = Now + 1
       /\ b = "cc" => f.pid = Now + 1
       /\ b = "agy" => f.sid = c
  /\ q.st = "run" /\ q.stray /\ b \in Locked => MayStray
  /\ b = "cc" => f = files[b] \/ f.sid \in {0, c}
  /\ b = "agy" => f.sid \in {files[b].sid, c}
  /\ b = "codex" => f.sid = files[b].sid /\ f.out \in {files[b].out, Now + 1}
  /\ procs' = Append(procs, q)
  /\ files' = [files EXCEPT ![b] = f]
  /\ op' = [op EXCEPT ![a] = Idle]
  /\ faults' \in 0..FaultBound
  /\ UNCHANGED <<setup, todo, submitted, period, reset, asks>>

LEMMA Joined ==
  ASSUME WriterInv, NEW a \in Actors, NEW b, NEW c, NEW q, NEW f, Joins(a, b, c, q, f)
  PROVE  WriterInv'
<1> USE DEF Joins
<1>1. /\ Types /\ PlainTypes /\ Sending /\ Tracked(procs, files)
      /\ Procs(procs) /\ Files(procs, files) /\ Single(procs) /\ Exclusive
      /\ Undisturbed(op[a], procs)
  BY DEF WriterInv, Types
<1>2. b \in Backends /\ op[a] \in Send(Now) /\ Now \in Nat /\ Now = Len(procs)
  BY <1>1 DEF Sending, Procs, Now
<1>3. c \in 1..Now + 1  BY <1>2 DEF Send, Conversation
<1>4. /\ Procs(procs') /\ Now' = Now + 1 /\ procs'[Now + 1] = q
      /\ \A j \in 1..Now : procs'[j] = procs[j]
  BY <1>1, <1>2, <1>3, Appended DEF Now
<1>5. \A j \in 1..Now : Kept(procs', j) <=> Kept(procs, j)
  BY <1>2, <1>4 DEF Kept, Alive, Now
<1>6. Kept(procs', Now + 1) <=> q.st = "run" /\ (q.stray => b = "codex")
  BY <1>2, <1>4 DEF Kept, Alive, Now
<1>6a. Contaminated("agy", procs) => Contaminated("agy", procs')
  BY <1>2, <1>4 DEF Contaminated, Now
<1>7. Files(procs', files')
  <2>1. \A x \in Backends : files[x] \in File(Now + 1)
    <3>1. ASSUME NEW x \in Backends PROVE files[x] \in File(Now + 1)
      <4>1. files[x] \in File(Now)  BY <1>1, <1>2 DEF Files
      <4>2. QED  BY <1>2, <4>1 DEF File
    <3>2. QED  BY <3>1
  <2>2. QED  BY <1>1, <1>2, <1>4, <2>1 DEF Files, Now
<1>8. Sending'
  <2>1. ASSUME NEW o \in Actors PROVE op[o] \in Send(Now + 1)
    <3>1. op[o] \in Send(Now)  BY <1>1 DEF Sending
    <3>2. QED  BY <1>2, <3>1 DEF Send
  <2>2. Idle \in Send(Now + 1) /\ Idle.pc = "idle"  BY <1>2 DEF Idle, Send
  <2>3. QED  BY <1>1, <1>4, <2>1, <2>2 DEF Sending
<1>9. PlainTypes'  BY <1>1, <1>2, <1>4 DEF PlainTypes
<1>10. Types'  BY <1>4, <1>7, <1>8, <1>9 DEF Types
<1>11. ASSUME NEW j \in 1..Now, Kept(procs, j), procs[j].backend = b, b \in Locked
       PROVE  b = "cc" /\ procs[j].conv # c
  <2>1. b = "cc" /\ procs[j].conv # op[a].conv  BY <1>1, <1>2, <1>11 DEF Undisturbed
  <2>2. procs[j].conv \in 1..Now  BY <1>1, <1>2, ProcessType
  <2>3. QED  BY <1>2, <2>1, <2>2 DEF Conversation
<1>12. \A j \in 1..Now + 1 : j \in 1..Now \/ j = Now + 1  BY <1>2
<1>13. Tracked(procs', files')
  <2>1. ASSUME NEW j \in 1..Now, Kept(procs', j)
        PROVE  Traced(procs', files', j)
    <3>1. procs[j].backend \in Backends /\ procs[j].conv # 0  BY <1>1, <1>2, ProcessType
    <3>2. procs'[j] = procs[j] /\ Kept(procs, j)  BY <1>4, <1>5, <2>1
    <3>3. Traced(procs, files, j)  BY <1>1, <1>2, <3>2 DEF Tracked
    <3>4. CASE procs[j].backend # b
      <4>1. files'[procs[j].backend] = files[procs[j].backend]  BY <1>1, <3>1, <3>4 DEF Files
      <4>2. QED  BY <1>6a, <3>2, <3>3, <3>4, <4>1 DEF Traced
    <3>5. CASE procs[j].backend = b
      <4>1. b \in Locked => b = "cc" /\ procs[j].conv # c  BY <1>11, <3>2, <3>5
      <4>2. files'[b] = f  BY <1>1, <1>2 DEF Files
      <4>3. b = "cc" /\ f.sid = procs[j].conv => f = files[b]  BY <3>1, <4>1 DEF Locked
      <4>4. QED  BY <3>2, <3>3, <3>5, <4>1, <4>2, <4>3 DEF Traced, Locked
    <3>6. QED  BY <3>4, <3>5
  <2>2. Kept(procs', Now + 1) => Traced(procs', files', Now + 1)
    <3>1. files'[b] = f  BY <1>1, <1>2 DEF Files
    <3>2. QED  BY <1>4, <1>6, <3>1 DEF Traced
  <2>3. Len(procs') = Now + 1  BY <1>4 DEF Now
  <2>4. QED  BY <1>4, <1>12, <2>1, <2>2, <2>3 DEF Tracked
<1>14. Single(procs')
  <2>1. ASSUME NEW j \in 1..Now, procs'[j].backend \in Locked,
               procs'[j].conv = q.conv, procs'[j].backend = q.backend, Kept(procs', j),
               Kept(procs', Now + 1)
        PROVE  FALSE
    BY <1>4, <1>5, <1>11, <2>1
  <2>2. \A i, j \in 1..Now :
          procs'[i].backend \in Locked /\ procs'[i].conv = procs'[j].conv
            /\ procs'[i].backend = procs'[j].backend /\ Kept(procs', i) /\ Kept(procs', j) => i = j
    BY <1>1, <1>2, <1>4, <1>5 DEF Single
  <2>3. Len(procs') = Now + 1  BY <1>4 DEF Now
  <2>4. QED  BY <1>4, <1>12, <2>1, <2>2, <2>3 DEF Single
<1>15. ASSUME NEW o \in Actors PROVE Undisturbed(op'[o], procs')
  <2>1. CASE o = a
    <3>1. op'[o].pc = "idle"  BY <1>1, <2>1 DEF Sending, Idle
    <3>2. QED  BY <3>1 DEF Undisturbed
  <2>2. CASE o # a
    <3>1. op'[o] = op[o]  BY <1>1, <2>2 DEF Sending
    <3>2. SUFFICES ASSUME op[o].pc = "spawn", op[o].b \in Locked,
                          NEW j \in 1..Now + 1, Kept(procs', j), procs'[j].backend = op[o].b
                   PROVE  op[o].b = "cc" /\ procs'[j].conv # op[o].conv
      BY <1>4, <3>1 DEF Undisturbed, Now
    <3>3. op[o].b # b  BY <1>1, <2>2, <3>2 DEF Exclusive
    <3>4. j \in 1..Now  BY <1>4, <1>12, <3>2, <3>3
    <3>5. Undisturbed(op[o], procs)  BY DEF WriterInv
    <3>6. QED  BY <1>2, <1>4, <1>5, <3>2, <3>4, <3>5 DEF Undisturbed
  <2>3. QED  BY <2>1, <2>2
<1>16. Exclusive'
  <2>1. op'[a].pc = "idle" /\ \A o \in Actors \ {a} : op'[o] = op[o]
    BY <1>1 DEF Sending, Idle
  <2>2. QED  BY <1>1, <2>1 DEF Exclusive
<1>17. QED  BY <1>10, <1>13, <1>14, <1>15, <1>16 DEF WriterInv

LEMMA LaunchJoins ==
  ASSUME WriterInv, NEW a \in Actors, NEW b, b = op[a].b, NEW st \in {"run", "gone"}, NEW f,
         Launched(a, st, f), Over(a), faults' \in 0..FaultBound,
         f \in File(Now + 1),
         b = "codex" => /\ st = "run" => f.out = Now + 1
                        /\ f.sid = files[b].sid /\ f.out \in {files[b].out, Now + 1},
         b = "agy" => /\ f.pid = Now + 1 => f.sid = Conversation(a)
                      /\ f.sid \in {files[b].sid, Conversation(a)},
         b = "cc" => f = files[b] \/ f.sid \in {0, Conversation(a)},
         st = "run" /\ Recorded(b, f) # Now + 1 /\ b \in Locked => MayStray
  PROVE  \E x, c, q, g : Joins(a, x, c, q, g)
<1>1. PICK c : c = Conversation(a)  OBVIOUS
<1>2. Sending /\ Now \in Nat /\ op[a].pc = "spawn" /\ Now < LaunchBound
  BY DEF WriterInv, Types, Procs, Now, Launched
<1>3. b \in Backends /\ op[a].p \in Projects /\ op[a].conv \in 0..Now
  BY <1>2 DEF Sending, Send
<1>4. c \in 1..Now + 1  BY <1>1, <1>2, <1>3 DEF Conversation
<1>4a. PICK lost \in BOOLEAN : lost = (Recorded(b, f) # Now + 1)  OBVIOUS
<1> DEFINE q == [backend |-> b, conv |-> c, project |-> op[a].p,
                 st |-> st, spoke |-> TRUE, stray |-> lost]
<1>5. /\ q \in Process /\ q.backend = b /\ q.conv = c /\ q.st = st
      /\ q.stray <=> Recorded(b, f) # Now + 1
  <2>1. q \in Process /\ q.backend = b /\ q.conv = c /\ q.st = st /\ q.stray = lost
    BY <1>2, <1>3, <1>4 DEF Process
  <2>2. QED  BY <1>4a, <2>1
<1>6. procs' = Append(procs, q) /\ files' = [files EXCEPT ![b] = f]
  BY <1>1, <1>4a DEF Launched
<1> HIDE DEF q
<1>7. Now + 1 <= LaunchBound  BY <1>2, BoundsAssumption DEF BoundsAssumption
<1>8. st = "run" /\ (q.stray => b = "codex") =>
        /\ b \in {"codex", "agy"} => Recorded(b, f) = Now + 1
        /\ b = "cc" => f.pid = Now + 1
        /\ b = "agy" => f.sid = c
  BY <1>1, <1>5 DEF Recorded
<1>9. Joins(a, b, c, q, f)  BY <1>1, <1>2, <1>5, <1>6, <1>7, <1>8 DEF Joins, Over
<1>10. QED  BY <1>9

(* What a step that starts a process finds.                                *)
LEMMA Starting ==
  ASSUME WriterInv, NEW a \in Actors, op[a].pc = "spawn"
  PROVE  /\ Now \in Nat /\ Now + 1 \in Nat /\ Conversation(a) \in 0..Now + 1 /\ Now + 1 \in 0..Now + 1
         /\ op[a].b \in Backends /\ files[op[a].b] \in File(Now + 1)
<1>1. Sending /\ Files(procs, files) /\ Now \in Nat /\ Now = Len(procs)
  BY DEF WriterInv, Types, Procs, Now
<1>2. op[a].b \in Backends /\ op[a].conv \in 0..Now  BY <1>1 DEF Sending, Send
<1>3. files[op[a].b] \in File(Now)  BY <1>1, <1>2 DEF Files
<1>4. files[op[a].b] \in File(Now + 1)  BY <1>1, <1>3 DEF File
<1>5. QED  BY <1>1, <1>2, <1>4 DEF Conversation

LEMMA SpawnJoins ==
  ASSUME WriterInv, NEW a \in Actors, Spawn(a)
  PROVE  \E b, c, q, f : Joins(a, b, c, q, f)
<1>1. PICK b : b = op[a].b  OBVIOUS
<1>2. PICK c : c = Conversation(a)  OBVIOUS
<1>3. PICK f : f = Persisted(b, Now + 1, c)  OBVIOUS
<1>4. Launched(a, "run", f) /\ Over(a) /\ UNCHANGED faults /\ op[a].pc = "spawn"
  BY <1>1, <1>2, <1>3 DEF Spawn, Launched
<1>5. /\ Now \in Nat /\ Now + 1 \in Nat /\ c \in 0..Now + 1 /\ Now + 1 \in 0..Now + 1
      /\ b \in Backends /\ files[b] \in File(Now + 1)
  BY <1>1, <1>2, <1>4, Starting
<1>6. /\ f \in File(Now + 1)
      /\ b = "codex" => f.out = Now + 1 /\ f.sid = files[b].sid
      /\ b \in {"cc", "agy"} => f.pid = Now + 1 /\ f.sid = c
  <2>1. CASE b = "codex"
    <3>1. f = [files[b] EXCEPT !.pid = Now + 1, !.out = Now + 1]
      BY <1>3, <2>1 DEF Persisted, Written
    <3>2. /\ f.sid = files[b].sid /\ f.pid = Now + 1 /\ f.out = Now + 1
          /\ f = [sid |-> f.sid, pid |-> f.pid, out |-> f.out, marker |-> f.marker]
          /\ f.marker = files[b].marker
      BY <1>5, <3>1 DEF File
    <3>2a. f \in File(Now + 1)  BY <1>5, <3>2 DEF File
    <3>3. QED  BY <2>1, <3>2, <3>2a
  <2>2. CASE b \in {"cc", "cci", "gemini"}
    <3>1. f = [sid |-> c, pid |-> Now + 1, out |-> 0, marker |-> FALSE]
      BY <1>3, <2>2 DEF Persisted, Owned, NoFiles
    <3>2. QED  BY <1>5, <2>2, <3>1 DEF File
  <2>3. CASE b \in {"agy", "kimi"}
    <3>1. f = [sid |-> c, pid |-> Now + 1, out |-> 0, marker |-> TRUE]
      BY <1>3, <2>3 DEF Persisted, Marked, Owned, NoFiles
    <3>2. QED  BY <1>5, <2>3, <3>1 DEF File
  <2>4. CASE b = "pi"
    <3>1. f = [sid |-> c, pid |-> 0, out |-> 0, marker |-> FALSE]
      BY <1>3, <2>4 DEF Persisted, Named, NoFiles
    <3>2. QED  BY <1>5, <2>4, <3>1 DEF File
  <2>5. QED  BY <1>5, <2>1, <2>2, <2>3, <2>4 DEF Backends
<1>7. b \in Locked => Recorded(b, f) = Now + 1  BY <1>6 DEF Recorded, Locked
<1>8. faults' \in 0..FaultBound  BY <1>4 DEF WriterInv, Types, PlainTypes
<1>9. QED  BY <1>1, <1>2, <1>4, <1>6, <1>7, <1>8, LaunchJoins

LEMMA UnrecordedJoins ==
  ASSUME WriterInv, NEW a \in Actors, PersistFails(a)
  PROVE  \E b, c, q, f : Joins(a, b, c, q, f)
<1>1. PICK b : b = op[a].b  OBVIOUS
<1>2. PICK c : c = Conversation(a)  OBVIOUS
<1>3. PICK st \in {"gone"} \cup (IF "stubborn" \in setup.allowed THEN {"run"} ELSE {}) :
        Launched(a, st, Unrecorded(b, st, Now + 1, c))
  BY <1>1, <1>2 DEF PersistFails
<1>4. PICK f : f = Unrecorded(b, st, Now + 1, c)  OBVIOUS
<1>5. Launched(a, st, f) /\ Over(a) /\ Fault("persist") /\ op[a].pc = "spawn"
  BY <1>3, <1>4 DEF PersistFails, Launched
<1>6. /\ Now \in Nat /\ Now + 1 \in Nat /\ c \in 0..Now + 1 /\ Now + 1 \in 0..Now + 1
      /\ b \in Backends /\ files[b] \in File(Now + 1)
  BY <1>1, <1>2, <1>5, Starting
<1>7. files[b].pid \in 0..Now
  <2>1. Files(procs, files) /\ Now = Len(procs)  BY DEF WriterInv, Types, Now
  <2>2. QED  BY <1>6, <2>1, FileType
<1>8. /\ f \in File(Now + 1)
      /\ b = "codex" => /\ st = "run" => f.out = Now + 1
                        /\ f.sid = files[b].sid /\ f.out \in {files[b].out, Now + 1}
      /\ b = "agy" => f.sid = c
      /\ b = "cc" => f.sid = 0
  <2>1. CASE b \in {"cc", "cci"}
    <3>1. f = NoFiles  BY <1>4, <2>1 DEF Unrecorded
    <3>2. QED  BY <1>6, <2>1, <3>1 DEF File, NoFiles
  <2>2. CASE b = "codex"
    <3>1. f = [files[b] EXCEPT !.out = IF st = "gone" THEN @ ELSE Now + 1]
      BY <1>4, <2>2 DEF Unrecorded
    <3>2. CASE st = "gone"
      <4>1. f = files[b]  BY <1>6, <3>1, <3>2 DEF File
      <4>2. QED  BY <1>6, <2>2, <3>2, <4>1
    <3>3. CASE st # "gone"
      <4>1. f = [files[b] EXCEPT !.out = Now + 1]  BY <3>1, <3>3
      <4>2. /\ f.sid = files[b].sid /\ f.pid = files[b].pid /\ f.out = Now + 1
            /\ f = [sid |-> f.sid, pid |-> f.pid, out |-> f.out, marker |-> f.marker]
            /\ f.marker = files[b].marker
        BY <1>6, <4>1 DEF File
      <4>2a. f \in File(Now + 1)  BY <1>6, <4>2 DEF File
      <4>3. QED  BY <2>2, <4>2, <4>2a
    <3>4. QED  BY <3>2, <3>3
  <2>3. CASE b \notin {"cc", "cci", "codex"}
    <3>1. f = [files[b] EXCEPT !.sid = c]  BY <1>4, <2>3 DEF Unrecorded
    <3>2. /\ f.sid = c /\ f.pid = files[b].pid /\ f.out = files[b].out
          /\ f = [sid |-> f.sid, pid |-> f.pid, out |-> f.out, marker |-> f.marker]
          /\ f.marker = files[b].marker
      BY <1>6, <3>1 DEF File
    <3>2a. f \in File(Now + 1)  BY <1>6, <3>2 DEF File
    <3>3. QED  BY <2>3, <3>2, <3>2a
  <2>4. QED  BY <2>1, <2>2, <2>3
<1>9. faults' \in 0..FaultBound
  BY <1>5, BoundsAssumption DEF Fault, WriterInv, Types, PlainTypes, BoundsAssumption
<1>10. st \in {"run", "gone"} /\ (st = "run" => MayStray)
  BY <1>3, <1>5 DEF MayStray, Fault
<1>11. QED  BY <1>1, <1>2, <1>5, <1>8, <1>9, <1>10, LaunchJoins

(* A sender that is killed leaves nothing, or a process like the others.   *)
LEMMA KilledJoins ==
  ASSUME WriterInv, NEW a \in Actors, Killed(a), ~UNCHANGED <<procs, files>>
  PROVE  \E b, c, q, f : Joins(a, b, c, q, f)
<1>1. PICK b : b = op[a].b  OBVIOUS
<1>2. PICK c : c = Conversation(a)  OBVIOUS
<1>3. PICK st \in {"run", "gone"} : \E f \in HalfRecorded(b, Now + 1, c) : Launched(a, st, f)
  BY <1>1, <1>2 DEF Killed
<1>4. PICK f \in HalfRecorded(b, Now + 1, c) : Launched(a, st, f)  BY <1>3
<1>5. Launched(a, st, f) /\ Over(a) /\ Fault("kill") /\ op[a].pc = "spawn"
  BY <1>4 DEF Killed, Launched
<1>6. /\ Now \in Nat /\ Now + 1 \in Nat /\ c \in 0..Now + 1 /\ Now + 1 \in 0..Now + 1
      /\ b \in Backends /\ files[b] \in File(Now + 1)
  BY <1>1, <1>2, <1>5, Starting
<1>7. files[b].pid \in 0..Now
  <2>1. Files(procs, files) /\ Now = Len(procs)  BY DEF WriterInv, Types, Now
  <2>2. QED  BY <1>6, <2>1, FileType
<1>8. /\ f \in File(Now + 1)
      /\ b = "codex" => f.out = Now + 1 /\ f.sid = files[b].sid
      /\ b = "agy" => (f.pid = Now + 1 => f.sid = c) /\ f.sid \in {files[b].sid, c}
      /\ b = "cc" => f = files[b] \/ f.sid \in {0, c}
  <2>1. CASE b \in {"cc", "cci"}
    <3>1. f \in {files[b], [files[b] EXCEPT !.sid = c]}  BY <2>1 DEF HalfRecorded
    <3>2. CASE f = files[b]  BY <1>6, <2>1, <3>2
    <3>3. CASE f = [files[b] EXCEPT !.sid = c]
      <4>1. /\ f.sid = c /\ f.pid = files[b].pid /\ f.out = files[b].out
            /\ f = [sid |-> f.sid, pid |-> f.pid, out |-> f.out, marker |-> f.marker]
            /\ f.marker = files[b].marker
        BY <1>6, <3>3 DEF File
      <4>1a. f \in File(Now + 1)  BY <1>6, <4>1 DEF File
      <4>2. QED  BY <2>1, <4>1, <4>1a
    <3>4. QED  BY <3>1, <3>2, <3>3
  <2>2. CASE b = "codex"
    <3>1. f = [files[b] EXCEPT !.out = Now + 1]  BY <2>2 DEF HalfRecorded
    <3>2. /\ f.sid = files[b].sid /\ f.pid = files[b].pid /\ f.out = Now + 1
          /\ f = [sid |-> f.sid, pid |-> f.pid, out |-> f.out, marker |-> f.marker]
          /\ f.marker = files[b].marker
      BY <1>6, <3>1 DEF File
    <3>2a. f \in File(Now + 1)  BY <1>6, <3>2 DEF File
    <3>3. QED  BY <2>2, <3>2, <3>2a
  <2>3. CASE b \in {"agy", "kimi"}
    <3>1. f \in {files[b], [files[b] EXCEPT !.sid = c, !.pid = Now + 1]}
      BY <2>3 DEF HalfRecorded
    <3>2. CASE f = files[b]  BY <1>6, <1>7, <2>3, <3>2
    <3>3. CASE f = [files[b] EXCEPT !.sid = c, !.pid = Now + 1]
      <4>1. /\ f.sid = c /\ f.pid = Now + 1 /\ f.out = files[b].out
            /\ f = [sid |-> f.sid, pid |-> f.pid, out |-> f.out, marker |-> f.marker]
            /\ f.marker = files[b].marker
        BY <1>6, <3>3 DEF File
      <4>1a. f \in File(Now + 1)  BY <1>6, <4>1 DEF File
      <4>2. QED  BY <2>3, <4>1, <4>1a
    <3>4. QED  BY <3>1, <3>2, <3>3
  <2>4. CASE b = "gemini"
    <3>1. f = files[b]  BY <2>4 DEF HalfRecorded
    <3>2. QED  BY <1>6, <2>4, <3>1
  <2>5. CASE b = "pi"
    <3>1. f = [sid |-> c, pid |-> 0, out |-> 0, marker |-> FALSE]
      BY <2>5 DEF HalfRecorded, Named, NoFiles
    <3>2. QED  BY <1>6, <2>5, <3>1 DEF File
  <2>6. QED  BY <1>6, <2>1, <2>2, <2>3, <2>4, <2>5 DEF Backends
<1>9. faults' \in 0..FaultBound
  BY <1>5, BoundsAssumption DEF Fault, WriterInv, Types, PlainTypes, BoundsAssumption
<1>10. MayStray  BY <1>5 DEF MayStray, Fault
<1>11. QED  BY <1>1, <1>2, <1>5, <1>8, <1>9, <1>10, LaunchJoins

LEMMA Launches ==
  ASSUME WriterInv, NEW a \in Actors, Spawn(a) \/ PersistFails(a) \/ Killed(a)
  PROVE  WriterInv'
<1>1. CASE Killed(a) /\ UNCHANGED <<procs, files>>  BY <1>1, Abandoned
<1>2. CASE ~(Killed(a) /\ UNCHANGED <<procs, files>>)
  BY <1>2, SpawnJoins, UnrecordedJoins, KilledJoins, Joined
<1>3. QED  BY <1>1, <1>2

LEMMA WriterInit == Init => WriterInv
<1> SUFFICES ASSUME Init PROVE WriterInv  OBVIOUS
<1>1. procs = <<>> /\ Now = 0 /\ Len(procs) = 0  BY DEF Init, Now
<1>2. setup.asks \in Nat  BY SetupsAssumption DEF Init, SetupsAssumption
<1>3. PlainTypes  BY <1>1, <1>2, BoundsAssumption DEF Init, PlainTypes, BoundsAssumption
<1>4. Idle \in Send(0) /\ Idle.pc = "idle"  BY DEF Idle, Send
<1>5. Sending  BY <1>1, <1>4 DEF Init, Sending
<1>6. Procs(procs)  BY <1>1 DEF Procs
<1>7. NoFiles \in File(0)  BY DEF NoFiles, File
<1>8. Files(procs, files)  BY <1>1, <1>7 DEF Init, Files
<1>9. Tracked(procs, files) /\ Single(procs)  BY <1>1 DEF Tracked, Single
<1>10. Exclusive /\ \A a \in Actors : Undisturbed(op[a], procs)
  BY <1>4 DEF Init, Exclusive, Undisturbed
<1>11. QED  BY <1>3, <1>5, <1>6, <1>8, <1>9, <1>10 DEF WriterInv, Types

LEMMA WriterStep == WriterInv /\ [Next]_vars => WriterInv'
<1> SUFFICES ASSUME WriterInv, [Next]_vars PROVE WriterInv'  OBVIOUS
<1>1. ASSUME NEW a \in Actors, NEW p \in Projects, StartPhase(a, p)
      PROVE  WriterInv'
  BY <1>1, PhaseStarts
<1>2. ASSUME NEW a \in Actors, NEW p \in Projects, NextRound(a, p)
      PROVE  WriterInv'
  BY <1>2, RoundStarts
<1>3. ASSUME NEW a \in Actors, Sends(a) PROVE WriterInv'
  BY <1>3, Routed, Checked, Launches DEF Sends
<1>4. ASSUME NEW a \in Actors, SpawnFails(a) \/ PersistFails(a) \/ Killed(a) PROVE WriterInv'
  BY <1>4, Abandoned, Launches
<1>5. ASSUME NEW i \in 1..Now, Submit(i) \/ End(i) \/ Die(i) \/ Hang(i) PROVE WriterInv'
  BY <1>5, Processes
<1>6. ASSUME NEW i \in 1..Now, Turn(i) PROVE WriterInv'  BY <1>6, Turned
<1>7. CASE Expire  BY <1>7, Expiry
<1>8. CASE UNCHANGED vars
  BY <1>8 DEF vars, WriterInv, Types, PlainTypes, Sending, Exclusive, Now
<1>9. QED
  BY <1>1, <1>2, <1>3, <1>4, <1>5, <1>6, <1>7, <1>8 DEF Next

-----------------------------------------------------------------------------
(* Resets that last *)

(* A session that is new, or begun after time n.                           *)
Fresh(n, c) == c = 0 \/ c > n

(* Backend b has nothing that a send could continue from before time n:    *)
(* no session id, no output to read one from, no send that has read one.   *)
Ahead(b, n, ps, fs, os) ==
  /\ Fresh(n, fs[b].sid)
  /\ b = "codex" /\ fs[b].out # 0 => ps[fs[b].out].conv > n
  /\ \A o \in Actors : os[o].pc = "spawn" /\ os[o].b = b => Fresh(n, os[o].conv)

(* A period a send may continue without resetting the target.              *)
Renewable == period = "active" \/ (period = "expired" /\ setup.home = "codex")

Chosen == \A a \in Actors : op[a].pc # "idle" => op[a].b \in {setup.home, setup.target}

(* An agy that has left a stray is out of the agent's hands.               *)
HomeAhead ==
  setup.home \in Locked /\ ~Contaminated(setup.home, procs) =>
    Ahead(setup.home, reset, procs, files, op)

(* The target of a period is reset when the period begins and with every   *)
(* reset of the agent while it lasts.                                      *)
TargetAhead ==
  setup.home # "pi" /\ setup.target = "cc" =>
    /\ Renewable => Ahead("cc", reset, procs, files, op)
    /\ \A a \in Actors : op[a].pc # "idle" /\ op[a].b = "cc" =>
         Ahead("cc", op[a].was, procs, files, op)

FreshInv == WriterInv /\ Chosen /\ HomeAhead /\ TargetAhead

(* A file that loses what it says or keeps it.                             *)
Forgets(f, g) == g.sid \in {0, f.sid} /\ g.out \in {0, f.out}

(* A step that starts no process and brings no send to the point of it.    *)
Quiets ==
  /\ Fewer(procs, procs')
  /\ \A b \in Locked : ~Contaminated(b, procs) => Forgets(files[b], files'[b])
  /\ \A o \in Actors : op'[o] = op[o] \/ op'[o].pc # "spawn"

LEMMA LockedType == Locked \subseteq Backends
  BY DEF Locked, Backends

LEMMA ResetForgets ==
  ASSUME NEW ps, NEW fs, Files(ps, fs), NEW b \in Backends,
         NEW r \in BackendReset(b, ps, fs)
  PROVE  /\ \A x \in Locked : Forgets(fs[x], r.fs[x])
         /\ r.done /\ b \in Locked => r.fs[b].sid = 0 /\ r.fs[b].out = 0
         /\ b = "cc" => r.done
<1>1. \A x \in Locked : Forgets(fs[x], fs[x])  BY DEF Forgets
<1>2. ASSUME NEW qs, r = Clean(b, qs, fs)
      PROVE  /\ \A x \in Locked : Forgets(fs[x], r.fs[x])
             /\ b \in Locked => r.fs[b].sid = 0 /\ r.fs[b].out = 0
             /\ r.done
  <2>1. r.fs = Cleared(b, fs) /\ r.done  BY <1>2 DEF Clean
  <2>2. b = "kimi" => b \notin Locked  BY DEF Locked
  <2>3. \A x \in Locked : r.fs[x] = IF x = b THEN NoFiles ELSE fs[x]
    BY <2>1, <2>2, LockedType DEF Cleared, Files
  <2>4. NoFiles.sid = 0 /\ NoFiles.out = 0  BY DEF NoFiles
  <2>5. QED  BY <1>1, <2>1, <2>3, <2>4 DEF Forgets
<1>3. ASSUME NEW qs, r = [ps |-> qs, fs |-> fs, done |-> FALSE]
      PROVE  \A x \in Locked : Forgets(fs[x], r.fs[x])
  BY <1>1, <1>3
<1>4. \/ \E qs : r = Clean(b, qs, fs)
      \/ b # "cc" /\ \E qs : r = [ps |-> qs, fs |-> fs, done |-> FALSE]
  BY DEF BackendReset, Unlinks, Signals, EndsFirst
<1>5. QED
  <2>1. CASE \E qs : r = Clean(b, qs, fs)  BY <1>2, <2>1
  <2>2. CASE b # "cc" /\ \E qs : r = [ps |-> qs, fs |-> fs, done |-> FALSE]
    <3>1. ~r.done  BY <2>2
    <3>2. QED  BY <1>3, <2>2, <3>1
  <2>3. QED  BY <1>4, <2>1, <2>2

LEMMA ForgetsTwice ==
  ASSUME NEW f, NEW g, NEW h, Forgets(f, g), Forgets(g, h)
  PROVE  Forgets(f, h)
  BY DEF Forgets

(* A complete reset of the agent empties the files of the home backend,    *)
(* and those of the target of an active period.                            *)
LEMMA AgentResetForgets ==
  ASSUME Types, Tracked(procs, files), NEW r \in AgentReset
  PROVE  /\ \A x \in Locked : Forgets(files[x], r.fs[x])
         /\ r.done /\ setup.home \in Locked =>
              r.fs[setup.home].sid = 0 /\ r.fs[setup.home].out = 0
         /\ r.done /\ period = "active" /\ setup.target = "cc" =>
              r.fs["cc"].sid = 0 /\ r.fs["cc"].out = 0
<1>1. setup.home \in Backends /\ Procs(procs) /\ Files(procs, files)
  BY SetupType DEF Types
<1>2. CASE /\ ~(period = "active" /\ setup.target \in {"cc", "pi", "kimi"})
           /\ r \in BackendReset(setup.home, procs, files)
  BY <1>1, <1>2, ResetForgets
<1>3. CASE /\ setup.target \in {"cc", "pi", "kimi"}
           /\ \E h \in BackendReset(setup.home, procs, files) :
                \E t \in BackendReset(setup.target, h.ps, h.fs) :
                  r = [ps |-> t.ps, fs |-> t.fs, done |-> h.done /\ t.done]
  <2>1. PICK h \in BackendReset(setup.home, procs, files) :
          \E t \in BackendReset(setup.target, h.ps, h.fs) :
            r = [ps |-> t.ps, fs |-> t.fs, done |-> h.done /\ t.done]
    BY <1>3
  <2>2. PICK t \in BackendReset(setup.target, h.ps, h.fs) :
          r = [ps |-> t.ps, fs |-> t.fs, done |-> h.done /\ t.done]
    BY <2>1
  <2>3. r.fs = t.fs /\ (r.done => h.done /\ t.done)  BY <2>2
  <2>4. setup.target \in Backends  BY <1>3 DEF Backends
  <2>5. Files(h.ps, h.fs)  BY <1>1, ResetKeeps DEF Follows
  <2>6. /\ \A x \in Locked : Forgets(files[x], h.fs[x])
        /\ h.done /\ setup.home \in Locked =>
             h.fs[setup.home].sid = 0 /\ h.fs[setup.home].out = 0
    BY <1>1, ResetForgets
  <2>7. /\ \A x \in Locked : Forgets(h.fs[x], t.fs[x])
        /\ t.done /\ setup.target \in Locked =>
             t.fs[setup.target].sid = 0 /\ t.fs[setup.target].out = 0
    BY <2>4, <2>5, ResetForgets
  <2>8. \A x \in Locked : Forgets(files[x], t.fs[x])  BY <2>6, <2>7, ForgetsTwice
  <2>9. h.done /\ setup.home \in Locked =>
          t.fs[setup.home].sid = 0 /\ t.fs[setup.home].out = 0
    BY <2>6, <2>7 DEF Forgets
  <2>10. QED  BY <2>3, <2>7, <2>8, <2>9 DEF Locked
<1>4. QED  BY <1>2, <1>3 DEF AgentReset

LEMMA ReapForgets ==
  ASSUME Types, NEW b \in Backends, NEW at, NEW r \in SoftReap(b, at)
  PROVE  \A x \in Locked : Forgets(files[x], r.fs[x])
<1>1. Files(procs, files)  BY DEF Types
<1>2. r.fs = files \/ r.fs = [files EXCEPT ![b].pid = 0]  BY DEF SoftReap
<1>3. \A x \in Locked : files[x] \in File(Len(procs))  BY <1>1, LockedType DEF Files
<1>4. ASSUME NEW x \in Locked
      PROVE  r.fs[x].sid = files[x].sid /\ r.fs[x].out = files[x].out
  <2>1. r.fs[x] = files[x] \/ r.fs[x] = [files[x] EXCEPT !.pid = 0]
    BY <1>1, <1>2, LockedType DEF Files
  <2>2. files[x] \in File(Len(procs))  BY <1>3
  <2>3. QED  BY <2>1, <2>2 DEF File
<1>5. QED  BY <1>4 DEF Forgets

(* Every step is one of four: quiet, the passing of a send's check, the    *)
(* start of a process, or a stutter; and what the quiet ones leave alone.  *)
LEMMA QuietSteps ==
  ASSUME WriterInv,
         \/ \E a \in Actors : \/ \E p \in Projects : StartPhase(a, p) \/ NextRound(a, p)
                              \/ \E p \in Projects : Route(a, p)
                              \/ SpawnFails(a) \/ (Killed(a) /\ UNCHANGED <<procs, files>>)
                              \/ Check(a) /\ Busy(a)
         \/ \E i \in 1..Now : Submit(i) \/ End(i) \/ Die(i) \/ Hang(i) \/ Turn(i)
         \/ Expire
         \/ UNCHANGED vars
  PROVE  Quiets
<1>1. /\ Types /\ PlainTypes /\ Sending /\ Tracked(procs, files)
      /\ Procs(procs) /\ Files(procs, files)
  BY DEF WriterInv, Types
<1>2. \A x \in Locked : Forgets(files[x], files[x])  BY DEF Forgets
<1>3. Fewer(procs, procs)  BY <1>1, FewerSelf
<1>4. Idle.pc = "idle" /\ \A a \in Actors : Free(a) => op[a].pc = "idle"
  BY DEF Idle, Free
<1>5. ASSUME NEW a \in Actors, NEW p \in Projects, StartPhase(a, p) PROVE Quiets
  <2>1. PICK r \in AgentReset : procs' = r.ps /\ files' = r.fs  BY <1>5 DEF StartPhase
  <2>2. op' = op  BY <1>5 DEF StartPhase
  <2>3. QED  BY <1>1, <2>1, <2>2, AgentResetKeeps, AgentResetForgets DEF Quiets, Follows
<1>6. ASSUME NEW a \in Actors, NEW p \in Projects, NextRound(a, p) PROVE Quiets
  <2>1. PICK r \in IF a = "tick" THEN SoftReap(setup.home, submitted[p])
                                ELSE {[ps |-> procs, fs |-> files]} :
          procs' = r.ps /\ files' = r.fs
    BY <1>6 DEF NextRound
  <2>2. op' = op  BY <1>6 DEF NextRound
  <2>3. CASE a = "tick"
    BY <1>1, <2>1, <2>2, <2>3, SetupType, ReapKeeps, ReapForgets DEF Quiets, Follows
  <2>4. CASE a # "tick"
    <3>1. procs' = procs /\ files' = files  BY <2>1, <2>4
    <3>2. QED  BY <1>2, <1>3, <2>2, <3>1 DEF Quiets
  <2>5. QED  BY <2>3, <2>4
<1>7. ASSUME NEW a \in Actors, NEW p \in Projects, Route(a, p) PROVE Quiets
  <2>1. PICK over \in BOOLEAN : \E r \in Routes(over) :
          /\ op' = [op EXCEPT ![a] = [pc |-> "check", b |-> r.b, p |-> p,
                                 conv |-> 0, was |-> reset]]
          /\ procs' = r.ps /\ files' = r.fs
    BY <1>7 DEF Route
  <2>2. PICK r \in Routes(over) :
          /\ op' = [op EXCEPT ![a] = [pc |-> "check", b |-> r.b, p |-> p,
                                 conv |-> 0, was |-> reset]]
          /\ procs' = r.ps /\ files' = r.fs
    BY <2>1
  <2>3. Fewer(procs, procs')  BY <1>1, <2>2, RouteKeeps DEF Follows
  <2>4. \A o \in Actors : op'[o] = op[o] \/ op'[o].pc # "spawn"
    BY <1>1, <2>2 DEF Sending
  <2>5. r.fs = files \/ \E t \in BackendReset(setup.target, procs, files) : r.fs = t.fs
    BY <2>2 DEF Routes, Sent, Spared, Begins
  <2>6. setup.target = "none" => r.fs = files
    BY <1>1, <2>2 DEF Routes, Sent, PlainTypes, Backends
  <2>7. \A x \in Locked : Forgets(files[x], r.fs[x])
    BY <1>1, <1>2, <2>5, <2>6, SetupType, ResetForgets
  <2>8. QED  BY <2>2, <2>3, <2>4, <2>7 DEF Quiets
<1>8. ASSUME NEW a \in Actors,
             SpawnFails(a) \/ (Killed(a) /\ UNCHANGED <<procs, files>>) \/ (Check(a) /\ Busy(a))
      PROVE  Quiets
  <2>1. op' = [op EXCEPT ![a] = Idle] /\ procs' = procs /\ files' = files
    BY <1>8 DEF SpawnFails, Killed, Over, Busy
  <2>2. \A o \in Actors : op'[o] = op[o] \/ op'[o].pc # "spawn"
    BY <1>1, <1>4, <2>1 DEF Sending
  <2>3. QED  BY <1>2, <1>3, <2>1, <2>2 DEF Quiets
<1>9. ASSUME NEW i \in 1..Now, Submit(i) \/ End(i) \/ Die(i) \/ Hang(i) PROVE Quiets
  <2>1. Fewer(procs, procs')  BY <1>1, <1>9, ProcessesEnd
  <2>2. UNCHANGED <<files, op>>  BY <1>9 DEF Submit, End, Die, Hang
  <2>3. QED  BY <1>2, <2>1, <2>2 DEF Quiets
<1>10. ASSUME NEW i \in 1..Now, Turn(i) PROVE Quiets
  <2>1. procs' = procs /\ op' = op  BY <1>10 DEF Turn
  <2>2. \A x \in Locked : ~Contaminated(x, procs) => files'[x] = files[x]
    <3>1. procs[i].backend = "agy" => Contaminated("agy", procs)  BY <1>10, AgyTurns
    <3>2. QED  BY <1>1, <1>10, <3>1, LockedType DEF Turn, Locked, Files
  <2>3. QED  BY <1>2, <1>3, <2>1, <2>2 DEF Quiets
<1>11. CASE Expire \/ UNCHANGED vars
  BY <1>2, <1>3, <1>11 DEF Expire, vars, Quiets
<1>12. QED  BY <1>5, <1>6, <1>7, <1>8, <1>9, <1>10, <1>11

(* What a quiet step leaves ahead stays ahead.                             *)
LEMMA QuietKeepsAhead ==
  ASSUME WriterInv, Quiets, NEW b \in Locked, NEW n,
         Ahead(b, n, procs, files, op), ~Contaminated(b, procs)
  PROVE  Ahead(b, n, procs', files', op')
<1>1. Files(procs, files) /\ b \in Backends  BY LockedType DEF WriterInv, Types
<1>2. files[b].out \in 0..Len(procs)  BY <1>1, FileType
<1>3. Fresh(n, files'[b].sid)  BY DEF Quiets, Forgets, Ahead, Fresh
<1>4. b = "codex" /\ files'[b].out # 0 => procs'[files'[b].out].conv > n
  <2>1. SUFFICES ASSUME b = "codex", files'[b].out # 0
                 PROVE  procs'[files'[b].out].conv > n
    OBVIOUS
  <2>2. files'[b].out = files[b].out  BY <2>1 DEF Quiets, Forgets
  <2>3. files[b].out \in 1..Len(procs)  BY <1>2, <2>1, <2>2
  <2>4. procs'[files[b].out].conv = procs[files[b].out].conv
    BY <2>3 DEF Quiets, Fewer
  <2>5. QED  BY <2>1, <2>2, <2>4 DEF Ahead
<1>5. \A o \in Actors : op'[o].pc = "spawn" /\ op'[o].b = b => Fresh(n, op'[o].conv)
  BY DEF Quiets, Ahead
<1>6. QED  BY <1>3, <1>4, <1>5 DEF Ahead

LEMMA CheckKeepsAhead ==
  ASSUME WriterInv, NEW a \in Actors, NEW x, NEW qs, NEW sid, NEW pid, NEW f,
         GoesOn(a, x, qs, sid, pid, f), NEW b \in Locked, NEW n,
         Ahead(b, n, procs, files, op)
  PROVE  Ahead(b, n, procs', files', op')
<1>1. /\ Types /\ Sending /\ Procs(procs) /\ Files(procs, files)
      /\ b \in Backends /\ x \in Backends
  BY LockedType DEF WriterInv, Types, Sending, GoesOn
<1>2. /\ procs' = qs /\ Fewer(procs, qs) /\ x = op[a].b
      /\ f = [files[x] EXCEPT !.sid = sid, !.out = 0, !.pid = pid]
      /\ files' = [files EXCEPT ![x] = f]
      /\ sid \in IF x = "codex" THEN Harvested(qs, files[x]) ELSE {files[x].sid}
      /\ op' = [op EXCEPT ![a].pc = "spawn", ![a].conv = Resumed(x, f)]
  BY DEF GoesOn
<1>3. files[b].out \in 0..Len(procs) /\ files[x] \in File(Len(procs))
  BY <1>1, FileType DEF Files
<1>4. /\ \A o \in Actors \ {a} : op'[o] = op[o]
      /\ op'[a].b = x /\ op'[a].conv = Resumed(x, f)
  <2> DEFINE s == [op[a] EXCEPT !.pc = "spawn", !.conv = Resumed(x, f)]
  <2>1. op' = [op EXCEPT ![a] = s] /\ op[a] \in Send(Now)  BY <1>1, <1>2 DEF Sending
  <2>2. s.b = x /\ s.conv = Resumed(x, f)  BY <1>2, <2>1 DEF Send
  <2> HIDE DEF s
  <2>3. QED  BY <1>1, <2>1, <2>2 DEF Sending
<1>5. \A j \in 1..Len(procs) : qs[j].conv = procs[j].conv  BY <1>2 DEF Fewer
<1>6. CASE x # b
  <2>1. files'[b] = files[b]  BY <1>1, <1>2, <1>6 DEF Files
  <2>2. b = "codex" /\ files'[b].out # 0 => procs'[files'[b].out].conv > n
    BY <1>2, <1>3, <1>5, <2>1 DEF Ahead
  <2>3. \A o \in Actors : op'[o].pc = "spawn" /\ op'[o].b = b => Fresh(n, op'[o].conv)
    BY <1>4, <1>6 DEF Ahead
  <2>4. QED  BY <2>1, <2>2, <2>3 DEF Ahead
<1>7. CASE x = b
  <2>1. Fresh(n, sid)
    <3>1. CASE b # "codex"  BY <1>2, <1>7, <3>1 DEF Ahead
    <3>2. CASE b = "codex"
      <4>1. \/ sid = 0 \/ sid = files[b].sid
            \/ files[b].out # 0 /\ sid = qs[files[b].out].conv
        BY <1>2, <1>7, <3>2 DEF Harvested
      <4>2. files[b].out # 0 => qs[files[b].out].conv = procs[files[b].out].conv
        BY <1>3, <1>5
      <4>3. QED  BY <3>2, <4>1, <4>2 DEF Ahead, Fresh
    <3>3. QED  BY <3>1, <3>2
  <2>2. f.sid = sid /\ f.out = 0  BY <1>2, <1>3 DEF File
  <2>3. files'[b] = f  BY <1>1, <1>2, <1>7 DEF Files
  <2>4. Fresh(n, Resumed(x, f))  BY <2>1, <2>2 DEF Resumed, Fresh
  <2>5. \A o \in Actors : op'[o].pc = "spawn" /\ op'[o].b = b => Fresh(n, op'[o].conv)
    BY <1>4, <2>4 DEF Ahead
  <2>6. QED  BY <2>1, <2>2, <2>3, <2>5 DEF Ahead
<1>8. QED  BY <1>6, <1>7

LEMMA JoinsAppends ==
  ASSUME WriterInv, NEW a \in Actors, NEW b, NEW c, NEW q, NEW f, Joins(a, b, c, q, f)
  PROVE  /\ procs'[Now + 1] = q /\ Len(procs') = Now + 1
         /\ \A j \in 1..Now : procs'[j] = procs[j]
         /\ Now \in Nat /\ Now = Len(procs) /\ op[a].conv \in 0..Now
<1>1. Types /\ Sending /\ Procs(procs)  BY DEF WriterInv, Types
<1>2. /\ q \in Process /\ q.conv = c /\ procs' = Append(procs, q)
      /\ c = IF op[a].conv = 0 THEN Now + 1 ELSE op[a].conv
  BY DEF Joins, Conversation
<1>3. Now \in Nat /\ Now = Len(procs) /\ op[a].conv \in 0..Now
  BY <1>1 DEF Now, Procs, Sending, Send
<1>4. c <= Now + 1  BY <1>2, <1>3
<1>5. QED  BY <1>1, <1>2, <1>3, <1>4, Appended

(* A process that starts in a backend that is ahead has a conversation of  *)
(* its own or one that is new enough.                                      *)
LEMMA StartIsAhead ==
  ASSUME WriterInv, NEW a \in Actors, NEW b, NEW c, NEW q, NEW f,
         Joins(a, b, c, q, f), NEW n \in 0..Now, Ahead(b, n, procs, files, op)
  PROVE  c > n
<1>1. /\ b = op[a].b /\ op[a].pc = "spawn"
      /\ c = IF op[a].conv = 0 THEN Now + 1 ELSE op[a].conv
  BY DEF Joins, Conversation
<1>2. Now \in Nat /\ op[a].conv \in 0..Now  BY JoinsAppends
<1>3. Fresh(n, op[a].conv)  BY <1>1 DEF Ahead
<1>4. QED  BY <1>1, <1>2, <1>3 DEF Fresh

LEMMA StartKeepsAhead ==
  ASSUME WriterInv, NEW a \in Actors, NEW x, NEW c, NEW q, NEW f,
         Joins(a, x, c, q, f), NEW b \in Locked, NEW n \in 0..Now,
         Ahead(b, n, procs, files, op)
  PROVE  Ahead(b, n, procs', files', op')
<1>1. /\ Types /\ Sending /\ Procs(procs) /\ Files(procs, files)
      /\ b \in Backends /\ x \in Backends
  BY LockedType DEF WriterInv, Types, Sending, Joins
<1>2. /\ x = op[a].b /\ q.conv = c
      /\ x \in {"cc", "agy"} => f.sid \in {0, c, files[x].sid}
      /\ x = "codex" => f.sid = files[x].sid /\ f.out \in {files[x].out, Now + 1}
      /\ files' = [files EXCEPT ![x] = f]
      /\ op' = [op EXCEPT ![a] = Idle]
  BY DEF Joins
<1>3. Now = Len(procs) /\ files[b].out \in 0..Len(procs)
  BY <1>1, FileType DEF Now
<1>4. /\ Idle.pc = "idle" /\ op'[a] = Idle
      /\ \A o \in Actors \ {a} : op'[o] = op[o]
  BY <1>1, <1>2 DEF Idle, Sending
<1>5. \A o \in Actors : op'[o].pc = "spawn" /\ op'[o].b = b => Fresh(n, op'[o].conv)
  BY <1>4 DEF Ahead
<1>6. (\A j \in 1..Now : procs'[j] = procs[j]) /\ procs'[Now + 1] = q
  BY <1>1, JoinsAppends
<1>7. CASE x # b
  <2>1. files'[b] = files[b]  BY <1>1, <1>2, <1>7 DEF Files
  <2>2. b = "codex" /\ files'[b].out # 0 => procs'[files'[b].out].conv > n
    BY <1>3, <1>6, <2>1 DEF Ahead
  <2>3. QED  BY <1>5, <2>1, <2>2 DEF Ahead
<1>8. CASE x = b
  <2>1. files'[b] = f  BY <1>1, <1>2, <1>8 DEF Files
  <2>2. c > n /\ procs'[Now + 1] = q  BY <1>6, <1>8, StartIsAhead
  <2>3. CASE b # "codex"
    <3>1. b \in {"cc", "agy"}  BY <2>3 DEF Locked
    <3>2. Fresh(n, f.sid)  BY <1>2, <1>8, <2>2, <3>1 DEF Fresh, Ahead
    <3>3. QED  BY <1>5, <2>1, <2>3, <3>2 DEF Ahead
  <2>4. CASE b = "codex"
    <3>1. Fresh(n, f.sid)  BY <1>2, <1>8, <2>4 DEF Ahead
    <3>2. f.out # 0 => procs'[f.out].conv > n
      <4>1. CASE f.out = Now + 1  BY <1>2, <2>2, <4>1
      <4>2. CASE f.out = files[b].out
        BY <1>3, <1>6, <2>4, <4>2 DEF Ahead
      <4>3. QED  BY <1>2, <1>8, <2>4, <4>1, <4>2
    <3>3. QED  BY <1>5, <2>1, <3>1, <3>2 DEF Ahead
  <2>5. QED  BY <2>3, <2>4
<1>9. QED  BY <1>7, <1>8

(* Every step is a quiet one, a send that goes on, or one that starts a    *)
(* process.                                                                *)
LEMMA ThreeKinds ==
  ASSUME WriterInv, [Next]_vars
  PROVE  \/ Quiets
         \/ \E a \in Actors : \E b, qs, sid, pid, f : GoesOn(a, b, qs, sid, pid, f)
         \/ \E a \in Actors : \E b, c, q, f : Joins(a, b, c, q, f)
<1>1. ASSUME NEW a \in Actors, Check(a)
      PROVE  Quiets \/ \E b, qs, sid, pid, f : GoesOn(a, b, qs, sid, pid, f)
  BY <1>1, QuietSteps, CheckGoes
<1>2. ASSUME NEW a \in Actors, Spawn(a) \/ PersistFails(a) \/ Killed(a)
      PROVE  Quiets \/ \E b, c, q, f : Joins(a, b, c, q, f)
  BY <1>2, QuietSteps, SpawnJoins, UnrecordedJoins, KilledJoins
<1>3. ASSUME NEW a \in Actors,
             \/ \E p \in Projects : StartPhase(a, p) \/ NextRound(a, p)
             \/ \E p \in Projects : Route(a, p)
             \/ SpawnFails(a)
      PROVE  Quiets
  BY <1>3, QuietSteps
<1>4. ASSUME NEW i \in 1..Now, Submit(i) \/ End(i) \/ Die(i) \/ Hang(i) \/ Turn(i)
      PROVE  Quiets
  BY <1>4, QuietSteps
<1>5. CASE Expire \/ UNCHANGED vars  BY <1>5, QuietSteps
<1>6. QED  BY <1>1, <1>2, <1>3, <1>4, <1>5 DEF Next, Sends

(* Nothing that is ahead falls behind.                                     *)
LEMMA AheadKeeps ==
  ASSUME WriterInv, [Next]_vars, NEW b \in Locked, NEW n \in 0..Now,
         Ahead(b, n, procs, files, op), ~Contaminated(b, procs)
  PROVE  Ahead(b, n, procs', files', op')
  BY ThreeKinds, QuietKeepsAhead, CheckKeepsAhead, StartKeepsAhead

(* A stray process is on the list for good.                                *)
LEMMA StraysStay ==
  ASSUME WriterInv, [Next]_vars, NEW b, Contaminated(b, procs)
  PROVE  Contaminated(b, procs')
<1>1. CASE Quiets  BY <1>1, FewerKept DEF Quiets
<1>2. CASE \E a \in Actors : \E x, qs, sid, pid, f : GoesOn(a, x, qs, sid, pid, f)
  BY <1>2, FewerKept DEF GoesOn
<1>3. ASSUME NEW a \in Actors, NEW x, NEW c, NEW q, NEW f, Joins(a, x, c, q, f)
      PROVE  Contaminated(b, procs')
  BY <1>3, JoinsAppends DEF Contaminated
<1>4. QED  BY <1>1, <1>2, <1>3, ThreeKinds

(* Emptied files, and no send about to start a process, are ahead of any   *)
(* time.                                                                   *)
LEMMA EmptyIsAhead ==
  ASSUME NEW b, NEW n, NEW ps, NEW fs, NEW os, fs[b].sid = 0, fs[b].out = 0,
         \A o \in Actors : ~(os[o].pc = "spawn" /\ os[o].b = b)
  PROVE  Ahead(b, n, ps, fs, os)
  BY DEF Ahead, Fresh

(* What an actor that begins something finds: nobody else starts a process *)
(* of a backend whose lock it can take.                                    *)
LEMMA LockIsFree ==
  ASSUME NEW a, Free(a), NEW b \in Locked, LockFree(a, b)
  PROVE  \A o \in Actors : ~(op[o].pc = "spawn" /\ op[o].b = b)
  BY DEF Free, LockFree, Idle

LEMMA Targets ==
  Types => /\ setup.home = "cc" => setup.target # "cc"
           /\ setup.target \in Locked => setup.target = "cc" /\ setup.home # "cc"
<1> SUFFICES ASSUME Types
             PROVE  /\ setup.home = "cc" => setup.target # "cc"
                    /\ setup.target \in Locked => setup.target = "cc" /\ setup.home # "cc"
  OBVIOUS
<1>1. setup.target \in Fallbacks(setup.home) \cup {"none"}
  BY SetupsAssumption DEF Types, PlainTypes, SetupsAssumption
<1>2. CASE setup.home \in {"codex", "kimi", "gemini"}
  BY <1>1, <1>2 DEF Fallbacks, Locked
<1>3. CASE setup.home = "agy"  BY <1>1, <1>3 DEF Fallbacks, Locked
<1>4. CASE setup.home = "pi"  BY <1>1, <1>4 DEF Fallbacks, Locked
<1>5. CASE setup.home \notin {"codex", "kimi", "gemini", "agy", "pi"}
  BY <1>1, <1>5 DEF Fallbacks, Locked
<1>6. QED  BY <1>2, <1>3, <1>4, <1>5

LEMMA PhaseKeepsFresh ==
  ASSUME FreshInv, WriterInv', NEW a \in Actors, NEW p \in Projects, StartPhase(a, p)
  PROVE  FreshInv'
<1>1. /\ WriterInv /\ Types /\ PlainTypes /\ Sending /\ Tracked(procs, files)
      /\ Chosen /\ HomeAhead /\ TargetAhead /\ Now \in Nat
  BY DEF FreshInv, WriterInv, Types, Procs, Now
<1>2. [Next]_vars  BY DEF Next
<1>3. PICK r \in AgentReset : /\ procs' = r.ps /\ files' = r.fs
                              /\ reset' = IF r.done THEN Now ELSE reset
  BY DEF StartPhase
<1>4. /\ setup' = setup /\ op' = op /\ period' = SettledPeriod
      /\ Free(a) /\ LockFree(a, setup.home) /\ LockFree(a, setup.target)
  BY DEF StartPhase
<1>5. Chosen'  BY <1>1, <1>4 DEF Chosen
<1>6. reset \in 0..Now  BY <1>1 DEF PlainTypes
<1>7. HomeAhead'
  <2>1. SUFFICES ASSUME setup.home \in Locked, ~Contaminated(setup.home, procs')
                 PROVE  Ahead(setup.home, reset', procs', files', op')
    BY <1>4 DEF HomeAhead
  <2>1a. ~Contaminated(setup.home, procs)  BY <1>1, <1>2, <2>1, StraysStay
  <2>2. CASE reset' = reset
    <3>1. Ahead(setup.home, reset, procs, files, op)  BY <1>1, <2>1, <2>1a DEF HomeAhead
    <3>2. Ahead(setup.home, reset, procs', files', op')
      BY <1>1, <1>2, <1>6, <2>1, <2>1a, <3>1, AheadKeeps
    <3>3. QED  BY <2>2, <3>2
  <2>3. CASE r.done
    <3>1. files'[setup.home].sid = 0 /\ files'[setup.home].out = 0
      BY <1>1, <1>3, <2>1, <2>3, AgentResetForgets
    <3>2. \A o \in Actors : ~(op'[o].pc = "spawn" /\ op'[o].b = setup.home)
      BY <1>4, <2>1, LockIsFree
    <3>3. QED  BY <3>1, <3>2, EmptyIsAhead
  <2>4. QED  BY <1>3, <2>2, <2>3
<1>8. TargetAhead'
  <2>1. SUFFICES ASSUME setup.home # "pi", setup.target = "cc"
                 PROVE  /\ Renewable' => Ahead("cc", reset', procs', files', op')
                        /\ \A o \in Actors : op'[o].pc # "idle" /\ op'[o].b = "cc" =>
                             Ahead("cc", op'[o].was, procs', files', op')
    BY <1>4 DEF TargetAhead
  <2>2. "cc" \in Locked /\ ~Contaminated("cc", procs)  BY DEF Locked, Contaminated
  <2>3. ASSUME NEW o \in Actors, op'[o].pc # "idle", op'[o].b = "cc"
        PROVE  Ahead("cc", op'[o].was, procs', files', op')
    <3>1. op[o].was \in 0..Now  BY <1>1 DEF Sending, Send
    <3>2. Ahead("cc", op[o].was, procs, files, op)
      BY <1>1, <1>4, <2>1, <2>3 DEF TargetAhead
    <3>3. Ahead("cc", op[o].was, procs', files', op')
      BY <1>1, <1>2, <2>2, <3>1, <3>2, AheadKeeps
    <3>4. QED  BY <1>4, <3>3
  <2>4. ASSUME Renewable' PROVE Ahead("cc", reset', procs', files', op')
    <3>1. period = "active"  BY <1>4, <2>4 DEF Renewable, SettledPeriod
    <3>2. CASE reset' = reset
      <4>1. Ahead("cc", reset, procs, files, op)
        BY <1>1, <2>1, <3>1 DEF TargetAhead, Renewable
      <4>2. Ahead("cc", reset, procs', files', op')
        BY <1>1, <1>2, <1>6, <2>2, <4>1, AheadKeeps
      <4>3. QED  BY <3>2, <4>2
    <3>3. CASE r.done
      <4>1. files'["cc"].sid = 0 /\ files'["cc"].out = 0
        BY <1>1, <1>3, <2>1, <3>1, <3>3, AgentResetForgets
      <4>2. \A o \in Actors : ~(op'[o].pc = "spawn" /\ op'[o].b = "cc")
        BY <1>4, <2>1, <2>2, LockIsFree
      <4>3. QED  BY <4>1, <4>2, EmptyIsAhead
    <3>4. QED  BY <1>3, <3>2, <3>3
  <2>5. QED  BY <2>3, <2>4
<1>9. QED  BY <1>5, <1>7, <1>8 DEF FreshInv

(* A send is put on the home backend, on a target that has been reset with *)
(* the agent, or on one that it resets itself.                             *)
LEMMA RouteIsFresh ==
  ASSUME FreshInv, WriterInv', NEW a \in Actors, NEW p \in Projects, Route(a, p)
  PROVE  FreshInv'
<1>1. /\ WriterInv /\ Types /\ PlainTypes /\ Sending /\ Files(procs, files)
      /\ Chosen /\ HomeAhead /\ TargetAhead /\ Now \in Nat
  BY DEF FreshInv, WriterInv, Types, Procs, Now
<1>2. [Next]_vars  BY DEF Next, Sends
<1>3. PICK over \in BOOLEAN : \E r \in Routes(over) :
        /\ op' = [op EXCEPT ![a] = [pc |-> "check", b |-> r.b, p |-> p,
                               conv |-> 0, was |-> reset]]
        /\ procs' = r.ps /\ files' = r.fs /\ period' = r.period
  BY DEF Route
<1>4. PICK r \in Routes(over) :
        /\ op' = [op EXCEPT ![a] = [pc |-> "check", b |-> r.b, p |-> p,
                               conv |-> 0, was |-> reset]]
        /\ procs' = r.ps /\ files' = r.fs /\ period' = r.period
  BY <1>3
<1>5. /\ op'[a].b = r.b /\ op'[a].was = reset /\ op'[a].pc = "check"
      /\ \A o \in Actors \ {a} : op'[o] = op[o]
  BY <1>1, <1>4 DEF Sending
<1>6. /\ setup' = setup /\ reset' = reset /\ reset \in 0..Now
      /\ Free(a) /\ LockFree(a, setup.target)
  BY <1>1 DEF Route, PlainTypes
<1>7. r.b \in {setup.home, setup.target}
  BY <1>4 DEF Routes, Sent, Spared, Begins
<1>8. Chosen'  BY <1>1, <1>5, <1>6, <1>7 DEF Chosen
<1>9. HomeAhead'
  <2>1. SUFFICES ASSUME setup.home \in Locked, ~Contaminated(setup.home, procs')
                 PROVE  Ahead(setup.home, reset, procs', files', op')
    BY <1>6 DEF HomeAhead
  <2>1a. ~Contaminated(setup.home, procs)  BY <1>1, <1>2, <2>1, StraysStay
  <2>2. Ahead(setup.home, reset, procs, files, op)  BY <1>1, <2>1, <2>1a DEF HomeAhead
  <2>3. QED  BY <1>1, <1>2, <1>6, <2>1, <2>1a, <2>2, AheadKeeps
<1>10. TargetAhead'
  <2>1. SUFFICES ASSUME setup.home # "pi", setup.target = "cc"
                 PROVE  /\ Renewable' => Ahead("cc", reset, procs', files', op')
                        /\ \A o \in Actors : op'[o].pc # "idle" /\ op'[o].b = "cc" =>
                             Ahead("cc", op'[o].was, procs', files', op')
    BY <1>6 DEF TargetAhead
  <2>2. /\ "cc" \in Locked /\ "cc" \in Backends /\ setup.home # "cc"
        /\ ~Contaminated("cc", procs)
    BY <1>1, <2>1, Targets DEF Locked, Backends, Contaminated
  <2>3. ASSUME NEW o \in Actors \ {a}, op'[o].pc # "idle", op'[o].b = "cc"
        PROVE  Ahead("cc", op'[o].was, procs', files', op')
    <3>1. op[o].was \in 0..Now  BY <1>1 DEF Sending, Send
    <3>2. Ahead("cc", op[o].was, procs, files, op)
      BY <1>1, <1>5, <2>1, <2>3 DEF TargetAhead
    <3>3. Ahead("cc", op[o].was, procs', files', op')
      BY <1>1, <1>2, <2>2, <3>1, <3>2, AheadKeeps
    <3>4. QED  BY <1>5, <2>3, <3>3
  <2>4. Renewable => Ahead("cc", reset, procs', files', op')
    <3>1. SUFFICES ASSUME Renewable PROVE Ahead("cc", reset, procs', files', op')
      OBVIOUS
    <3>2. Ahead("cc", reset, procs, files, op)  BY <1>1, <2>1, <3>1 DEF TargetAhead
    <3>3. QED  BY <1>1, <1>2, <1>6, <2>2, <3>2, AheadKeeps
  <2>5. ASSUME r \in Begins PROVE Ahead("cc", reset, procs', files', op')
    <3>1. PICK t \in BackendReset("cc", procs, files) : r.fs = t.fs
      BY <2>1, <2>5 DEF Begins
    <3>2. t.fs["cc"].sid = 0 /\ t.fs["cc"].out = 0
      BY <1>1, <2>2, ResetForgets
    <3>3. \A o \in Actors : ~(op[o].pc = "spawn" /\ op[o].b = "cc")
      BY <1>6, <2>1, <2>2, LockIsFree
    <3>4. \A o \in Actors : ~(op'[o].pc = "spawn" /\ op'[o].b = "cc")
      BY <1>5, <3>3
    <3>5. QED  BY <1>4, <3>1, <3>2, <3>4, EmptyIsAhead
  <2>6. \/ Renewable
        \/ r \in Begins
        \/ r.b = setup.home /\ (Renewable' => Renewable)
    <3>1. CASE period = "active"  BY <3>1 DEF Renewable
    <3>2. CASE period # "active" /\ over /\ Renews
      BY <2>1, <3>2 DEF Renews, Renewable
    <3>3. CASE period # "active" /\ over /\ ~Renews
      BY <2>1, <3>3 DEF Routes
    <3>4. CASE period # "active" /\ ~over
      <4>1. r \in Spared  BY <2>1, <3>4 DEF Routes
      <4>2. r.b = setup.home /\ r.period \in {"none", period}
        BY <4>1 DEF Spared, Sent
      <4>3. QED  BY <1>4, <1>6, <3>4, <4>2 DEF Renewable
    <3>5. QED  BY <3>1, <3>2, <3>3, <3>4
  <2>7. CASE Renewable \/ r \in Begins
    <3>1. Ahead("cc", reset, procs', files', op')  BY <2>4, <2>5, <2>7
    <3>2. QED  BY <1>5, <2>3, <3>1
  <2>8. CASE r.b = setup.home /\ (Renewable' => Renewable)
    BY <1>5, <2>2, <2>3, <2>4, <2>8
  <2>9. QED  BY <2>6, <2>7, <2>8
<1>11. QED  BY <1>8, <1>9, <1>10 DEF FreshInv

(* The steps that neither reset nor choose a backend.                      *)
LEMMA OthersKeepFresh ==
  ASSUME FreshInv, WriterInv', [Next]_vars, UNCHANGED <<setup, reset>>,
         Renewable' => Renewable,
         \A o \in Actors : op'[o].pc # "idle" =>
           op[o].pc # "idle" /\ op'[o].b = op[o].b /\ op'[o].was = op[o].was
  PROVE  FreshInv'
<1>1. /\ WriterInv /\ PlainTypes /\ Sending /\ Chosen /\ HomeAhead /\ TargetAhead
  BY DEF FreshInv, WriterInv, Types
<1>2. Chosen'  BY <1>1 DEF Chosen
<1>3. reset \in 0..Now  BY <1>1 DEF PlainTypes
<1>4. HomeAhead'
  <2>1. SUFFICES ASSUME setup.home \in Locked, ~Contaminated(setup.home, procs')
                 PROVE  Ahead(setup.home, reset, procs', files', op')
    BY DEF HomeAhead
  <2>1a. ~Contaminated(setup.home, procs)  BY <1>1, <2>1, StraysStay
  <2>2. Ahead(setup.home, reset, procs, files, op)  BY <1>1, <2>1, <2>1a DEF HomeAhead
  <2>3. QED  BY <1>1, <1>3, <2>1, <2>1a, <2>2, AheadKeeps
<1>5. TargetAhead'
  <2>1. SUFFICES ASSUME setup.home # "pi", setup.target = "cc"
                 PROVE  /\ Renewable => Ahead("cc", reset, procs', files', op')
                        /\ \A o \in Actors : op'[o].pc # "idle" /\ op'[o].b = "cc" =>
                             Ahead("cc", op'[o].was, procs', files', op')
    BY DEF TargetAhead
  <2>2. "cc" \in Locked /\ ~Contaminated("cc", procs)  BY DEF Locked, Contaminated
  <2>3. ASSUME NEW o \in Actors, op'[o].pc # "idle", op'[o].b = "cc"
        PROVE  Ahead("cc", op'[o].was, procs', files', op')
    <3>1. op[o].was \in 0..Now /\ op'[o].was = op[o].was
      BY <1>1, <2>3 DEF Sending, Send
    <3>2. Ahead("cc", op[o].was, procs, files, op)
      BY <1>1, <2>1, <2>3 DEF TargetAhead
    <3>3. Ahead("cc", op[o].was, procs', files', op')
      BY <1>1, <2>2, <3>1, <3>2, AheadKeeps
    <3>4. QED  BY <3>1, <3>3
  <2>4. ASSUME Renewable PROVE Ahead("cc", reset, procs', files', op')
    <3>1. Ahead("cc", reset, procs, files, op)  BY <1>1, <2>1, <2>4 DEF TargetAhead
    <3>2. QED  BY <1>1, <1>3, <2>2, <3>1, AheadKeeps
  <2>5. QED  BY <2>3, <2>4
<1>6. QED  BY <1>2, <1>4, <1>5 DEF FreshInv

LEMMA FreshInit == Init => FreshInv
<1> SUFFICES ASSUME Init PROVE FreshInv  OBVIOUS
<1>1. NoFiles.sid = 0 /\ NoFiles.out = 0 /\ Idle.pc = "idle"  BY DEF NoFiles, Idle
<1>2. \A a \in Actors : op[a].pc = "idle"  BY <1>1 DEF Init
<1>3. \A b \in Locked : Ahead(b, 0, procs, files, op)
  BY <1>1, <1>2, LockedType, EmptyIsAhead DEF Init
<1>4. "cc" \in Locked /\ reset = 0 /\ period = "none"  BY DEF Locked, Init
<1>5. Chosen /\ HomeAhead /\ TargetAhead
  BY <1>2, <1>3, <1>4 DEF Chosen, HomeAhead, TargetAhead, Renewable
<1>6. QED  BY <1>5, WriterInit DEF FreshInv

LEMMA FreshStep == FreshInv /\ [Next]_vars => FreshInv'
<1> SUFFICES ASSUME FreshInv, [Next]_vars PROVE FreshInv'  OBVIOUS
<1>1. WriterInv /\ WriterInv' /\ Sending
  BY WriterStep DEF FreshInv, WriterInv, Types
<1>2. Idle.pc = "idle"  BY DEF Idle
<1>3. ASSUME NEW a \in Actors, NEW p \in Projects, StartPhase(a, p) PROVE FreshInv'
  BY <1>1, <1>3, PhaseKeepsFresh
<1>4. ASSUME NEW a \in Actors, NEW p \in Projects, NextRound(a, p) PROVE FreshInv'
  <2>1. UNCHANGED <<setup, op, period, reset>>  BY <1>4 DEF NextRound
  <2>2. QED  BY <1>1, <2>1, OthersKeepFresh DEF Renewable
<1>5. ASSUME NEW a \in Actors, NEW p \in Projects, Route(a, p) PROVE FreshInv'
  BY <1>1, <1>5, RouteIsFresh
<1>6. ASSUME NEW a \in Actors, Check(a) PROVE FreshInv'
  <2>1. UNCHANGED <<setup, period, reset>> /\ op[a].pc = "check"  BY <1>6 DEF Check
  <2>2. \/ op' = [op EXCEPT ![a] = Idle]
        \/ \E c : op' = [op EXCEPT ![a].pc = "spawn", ![a].conv = c]
    BY <1>1, <1>6, CheckGoes DEF Busy, GoesOn
  <2>3. \A o \in Actors : op'[o].pc # "idle" =>
          op[o].pc # "idle" /\ op'[o].b = op[o].b /\ op'[o].was = op[o].was
    <3>1. CASE op' = [op EXCEPT ![a] = Idle]  BY <1>1, <1>2, <3>1 DEF Sending
    <3>2. ASSUME NEW c, op' = [op EXCEPT ![a].pc = "spawn", ![a].conv = c]
          PROVE  \A o \in Actors : op'[o].pc # "idle" =>
                   op[o].pc # "idle" /\ op'[o].b = op[o].b /\ op'[o].was = op[o].was
      <4> DEFINE s == [op[a] EXCEPT !.pc = "spawn", !.conv = c]
      <4>1. op' = [op EXCEPT ![a] = s] /\ op[a] \in Send(Now)
        BY <1>1, <3>2 DEF Sending
      <4>2. s.b = op[a].b /\ s.was = op[a].was  BY <4>1 DEF Send
      <4> HIDE DEF s
      <4>3. QED  BY <1>1, <2>1, <4>1, <4>2 DEF Sending
    <3>3. QED  BY <2>2, <3>1, <3>2
  <2>4. QED  BY <1>1, <2>1, <2>3, OthersKeepFresh DEF Renewable
<1>7. ASSUME NEW a \in Actors, Spawn(a) \/ SpawnFails(a) \/ PersistFails(a) \/ Killed(a)
      PROVE  FreshInv'
  <2>1. UNCHANGED <<setup, period, reset>> /\ op' = [op EXCEPT ![a] = Idle]
    BY <1>7 DEF Spawn, SpawnFails, PersistFails, Killed, Over
  <2>2. \A o \in Actors : op'[o].pc # "idle" =>
          op[o].pc # "idle" /\ op'[o].b = op[o].b /\ op'[o].was = op[o].was
    BY <1>1, <1>2, <2>1 DEF Sending
  <2>3. QED  BY <1>1, <2>1, <2>2, OthersKeepFresh DEF Renewable
<1>8. ASSUME NEW i \in 1..Now, Submit(i) \/ End(i) \/ Die(i) \/ Hang(i) \/ Turn(i)
      PROVE  FreshInv'
  <2>1. UNCHANGED <<setup, op, period, reset>>
    BY <1>8 DEF Submit, End, Die, Hang, Turn
  <2>2. QED  BY <1>1, <2>1, OthersKeepFresh DEF Renewable
<1>9. CASE Expire
  <2>1. UNCHANGED <<setup, op, reset>> /\ Renewable  BY <1>9 DEF Expire, Renewable
  <2>2. QED  BY <1>1, <2>1, OthersKeepFresh
<1>10. CASE UNCHANGED vars
  <2>1. UNCHANGED <<setup, op, period, reset>>  BY <1>10 DEF vars
  <2>2. QED  BY <1>1, <2>1, OthersKeepFresh DEF Renewable
<1>11. QED
  BY <1>3, <1>4, <1>5, <1>6, <1>7, <1>8, <1>9, <1>10 DEF Next, Sends

(* The processes that a step adds: at most the one its send starts.        *)
LEMMA OneJoins ==
  ASSUME WriterInv, [Next]_vars, NEW i \in DOMAIN procs' \ DOMAIN procs
  PROVE  /\ i = Now + 1
         /\ \E a \in Actors : \E b, c, q, f : Joins(a, b, c, q, f)
<1>1. Procs(procs) /\ DOMAIN procs = 1..Len(procs)  BY DEF WriterInv, Types, Procs
<1>2. \A qs : ~(Fewer(procs, qs) /\ procs' = qs)
  <2>1. ASSUME NEW qs, Fewer(procs, qs), procs' = qs PROVE FALSE
    <3>1. Len(procs') = Len(procs) /\ DOMAIN procs' = 1..Len(procs')
      BY <2>1 DEF Fewer, Procs
    <3>2. QED  BY <1>1, <3>1
  <2>2. QED  BY <2>1
<1>3. ~Quiets  BY <1>2 DEF Quiets
<1>4. ~\E a \in Actors : \E b, qs, sid, pid, f : GoesOn(a, b, qs, sid, pid, f)
  <2>1. ASSUME NEW a \in Actors, NEW b, NEW qs, NEW sid, NEW pid, NEW f,
               GoesOn(a, b, qs, sid, pid, f)
        PROVE  FALSE
    BY <1>2, <2>1 DEF GoesOn
  <2>2. QED  BY <2>1
<1>5. PICK a \in Actors : \E b, c, q, f : Joins(a, b, c, q, f)
  BY <1>3, <1>4, ThreeKinds
<1>6. PICK b, c, q, f : Joins(a, b, c, q, f)  BY <1>5
<1>7. Len(procs') = Now + 1 /\ Now = Len(procs) /\ Now \in Nat  BY <1>6, JoinsAppends
<1>8. procs' \in Seq(Process)
  <2>1. WriterInv'  BY WriterStep
  <2>2. QED  BY <2>1 DEF WriterInv, Types, Procs
<1>9. DOMAIN procs' = 1..Now + 1  BY <1>7, <1>8
<1>10. i = Now + 1  BY <1>1, <1>7, <1>9
<1>11. QED  BY <1>5, <1>10

LEMMA StartsFromReset ==
  ASSUME FreshInv, [Next]_vars, NEW a \in Actors, NEW i \in DOMAIN procs' \ DOMAIN procs,
         op[a] # op'[a], procs'[i].backend \in Locked, setup.home # "pi",
         ~Contaminated(procs'[i].backend, procs)
  PROVE  procs'[i].conv > IF procs'[i].backend = setup.home THEN reset ELSE op[a].was
<1>1. /\ WriterInv /\ Types /\ PlainTypes /\ Sending /\ Chosen /\ HomeAhead /\ TargetAhead
  BY DEF FreshInv, WriterInv, Types
<1>2. i = Now + 1  BY <1>1, OneJoins
<1>3. PICK x \in Actors : \E b, c, q, f : Joins(x, b, c, q, f)  BY <1>1, OneJoins
<1>4. PICK b, c, q, f : Joins(x, b, c, q, f)  BY <1>3
<1>5. /\ op' = [op EXCEPT ![x] = Idle] /\ b = op[x].b /\ op[x].pc = "spawn"
      /\ q.backend = b /\ q.conv = c
  BY <1>4 DEF Joins
<1>6. x = a  BY <1>1, <1>5 DEF Sending
<1>7. procs'[i].backend = b /\ procs'[i].conv = c
  BY <1>1, <1>2, <1>4, <1>5, JoinsAppends
<1>8. reset \in 0..Now /\ op[a].was \in 0..Now  BY <1>1 DEF PlainTypes, Sending, Send
<1>9. CASE b = setup.home
  <2>1. Ahead(b, reset, procs, files, op)  BY <1>1, <1>7, <1>9 DEF HomeAhead, Contaminated
  <2>2. c > reset  BY <1>1, <1>4, <1>8, <2>1, StartIsAhead
  <2>3. QED  BY <1>7, <1>9, <2>2
<1>10. CASE b # setup.home
  <2>1. b = setup.target /\ setup.target = "cc"
    BY <1>1, <1>5, <1>7, <1>10, Targets DEF Chosen
  <2>2. Ahead(b, op[a].was, procs, files, op)
    BY <1>1, <1>5, <1>6, <2>1 DEF TargetAhead
  <2>3. c > op[a].was  BY <1>1, <1>4, <1>8, <2>2, StartIsAhead
  <2>4. QED  BY <1>7, <1>10, <2>3
<1>11. QED  BY <1>9, <1>10

-----------------------------------------------------------------------------
(* Theorems *)

LEMMA TypesBounded == Types => TypeOK
<1> SUFFICES ASSUME Types PROVE TypeOK  OBVIOUS
<1>1. PlainTypes /\ Sending /\ Procs(procs) /\ Files(procs, files)  BY DEF Types
<1>2. Now \in Nat /\ Now = Len(procs) /\ LaunchBound \in Nat /\ Now <= LaunchBound
  <2>1. procs \in Seq(Process)  BY <1>1 DEF Procs
  <2>2. QED  BY <1>1, <2>1, BoundsAssumption DEF PlainTypes, BoundsAssumption, Now
<1>3. 0..Now \subseteq 0..LaunchBound  BY <1>2
<1>4. procs \in Seq([backend : Backends, conv : 1..LaunchBound, project : Projects,
                    st : {"run", "sent", "hung", "gone"}, spoke : BOOLEAN, stray : BOOLEAN])
  <2> DEFINE S == [backend : Backends, conv : 1..LaunchBound, project : Projects,
                   st : {"run", "sent", "hung", "gone"}, spoke : BOOLEAN, stray : BOOLEAN]
  <2>1. ASSUME NEW i \in 1..Len(procs) PROVE procs[i] \in S
    <3>1. procs[i] \in Process /\ procs[i].conv \in 1..Len(procs)
      BY <1>1, ProcessType
    <3>2. procs[i].conv \in 1..LaunchBound  BY <1>2, <3>1
    <3>3. QED  BY <3>1, <3>2 DEF Process
  <2>2. procs \in Seq(Process)  BY <1>1 DEF Procs
  <2> HIDE DEF S
  <2>3. procs \in Seq(S)  BY <2>1, <2>2
  <2>4. QED  BY <2>3 DEF S
<1>5. files \in [Backends -> [sid : 0..LaunchBound, pid : 0..LaunchBound,
                             out : 0..LaunchBound, marker : BOOLEAN]]
  <2>1. files \in [Backends -> File(Now)]  BY <1>1, <1>2 DEF Files
  <2>2. File(Now) \subseteq File(LaunchBound)  BY <1>3 DEF File
  <2>3. files \in [Backends -> File(LaunchBound)]  BY <2>1, <2>2
  <2>4. QED  BY <2>3 DEF File
<1>6. op \in [Actors -> [pc : {"idle", "check", "spawn"}, b : Backends \cup {"none"},
                        p : Projects \cup {"none"}, conv : 0..LaunchBound,
                        was : 0..LaunchBound]]
  <2>1. op \in [Actors -> Send(Now)]  BY <1>1 DEF Sending
  <2>2. Send(Now) \subseteq Send(LaunchBound)  BY <1>3 DEF Send
  <2>3. op \in [Actors -> Send(LaunchBound)]  BY <2>1, <2>2
  <2>4. QED  BY <2>3 DEF Send
<1>7. submitted \in [Projects -> 0..LaunchBound] /\ reset \in 0..LaunchBound
  BY <1>1, <1>3 DEF PlainTypes
<1>8. QED  BY <1>1, <1>2, <1>4, <1>5, <1>6, <1>7 DEF TypeOK, PlainTypes

(* The agent's files, processes and sends are well-typed, and a file names *)
(* only sessions and processes that exist.                                 *)
THEOREM SessionsTyped == Spec => []TypeOK
<1>1. WriterInv => TypeOK  BY TypesBounded DEF WriterInv
<1>2. QED  BY <1>1, WriterInit, WriterStep, PTL DEF Spec

(* A live stray of cc, codex or agy has a reason.                          *)
Excused ==
  \A i \in 1..Now : Alive(procs, i) /\ procs[i].stray /\ procs[i].backend \in Locked => MayStray

LEMMA SetupStays == [Next]_vars => setup' = setup
  BY DEF Next, Sends, StartPhase, NextRound, Route, Check, Spawn, SpawnFails, PersistFails,
         Killed, Over, Submit, End, Die, Hang, Turn, Expire, vars

LEMMA StraysExcused == WriterInv /\ Excused /\ [Next]_vars => Excused'
<1> SUFFICES ASSUME WriterInv, Excused, [Next]_vars PROVE Excused'  OBVIOUS
<1>1. MayStray' <=> MayStray  BY SetupStays DEF MayStray
<1>2. ASSUME Fewer(procs, procs') PROVE Excused'
  BY <1>1, <1>2 DEF Excused, Fewer, Now
<1>3. CASE Quiets \/ \E a \in Actors : \E b, qs, sid, pid, f : GoesOn(a, b, qs, sid, pid, f)
  <2>1. ASSUME NEW a \in Actors, NEW b, NEW qs, NEW sid, NEW pid, NEW f,
               GoesOn(a, b, qs, sid, pid, f)
        PROVE  Fewer(procs, procs')
    BY <2>1 DEF GoesOn
  <2>2. QED  BY <1>2, <1>3, <2>1 DEF Quiets
<1>4. ASSUME NEW a \in Actors, NEW b, NEW c, NEW q, NEW f, Joins(a, b, c, q, f)
      PROVE  Excused'
  <2>1. /\ procs'[Now + 1] = q /\ Len(procs') = Now + 1
        /\ \A j \in 1..Now : procs'[j] = procs[j]
        /\ Now \in Nat /\ Now = Len(procs)
    BY <1>4, JoinsAppends
  <2>2. q.st = "run" /\ q.stray /\ q.backend \in Locked => MayStray
    BY <1>4 DEF Joins
  <2>3. q.st \in {"run", "gone"}  BY <1>4 DEF Joins
  <2>4. ASSUME NEW i \in 1..Now + 1, Alive(procs', i), procs'[i].stray, procs'[i].backend \in Locked
        PROVE  MayStray
    <3>1. CASE i = Now + 1  BY <2>1, <2>2, <2>3, <2>4, <3>1 DEF Alive
    <3>2. CASE i \in 1..Now  BY <2>1, <2>4, <3>2 DEF Excused, Alive
    <3>3. QED  BY <2>1, <3>1, <3>2
  <2>5. QED  BY <1>1, <2>1, <2>4 DEF Excused, Now
<1>5. QED  BY <1>3, <1>4, ThreeKinds

(* Two live processes of one conversation, of cc or agy alone, only when   *)
(* one of them was started and never recorded, by a sender that was killed *)
(* or because it could be neither recorded nor ended: whoever sends, by    *)
(* the watchdog or by hand, resets, reaps, dies or hangs, with every       *)
(* fallback.                                                               *)
THEOREM OneWriterEver == Spec => []OneWriter
<1>1. WriterInv /\ Excused => OneWriter
  <2> SUFFICES ASSUME WriterInv, Excused, NEW i \in 1..Now, NEW j \in 1..Now,
                      procs[i].backend \in Locked, procs[i].backend = procs[j].backend,
                      procs[i].conv = procs[j].conv, i # j,
                      Alive(procs, i), Alive(procs, j)
               PROVE  /\ procs[i].backend # "codex"
                      /\ procs[i].stray \/ procs[j].stray
                      /\ MayStray
    BY DEF OneWriter, MayStray
  <2>1. Single(procs) /\ Now = Len(procs)  BY DEF WriterInv, Now
  <2>2. ~(Kept(procs, i) /\ Kept(procs, j))  BY <2>1 DEF Single
  <2>3. procs[i].backend # "codex" /\ (procs[i].stray \/ procs[j].stray)
    BY <2>2 DEF Kept
  <2>4. MayStray  BY <2>3 DEF Excused
  <2>5. QED  BY <2>3, <2>4
<1>2. Init => Excused
  BY DEF Init, Excused, Now
<1>3. QED  BY <1>1, <1>2, WriterInit, WriterStep, StraysExcused, PTL DEF Spec

(* No process of cc, codex or agy continues a conversation from before the *)
(* last complete reset_session: on the home backend not even for a send    *)
(* under way during the reset, on a fallback target for the sends that     *)
(* picked it afterwards; an agy that ever left a stray is excepted.        *)
THEOREM ResetsAreFinal == Spec => FreshAfterReset
<1>1. FreshInv /\ [Next]_vars =>
        [\A a \in Actors : \A i \in DOMAIN procs' \ DOMAIN procs :
           /\ op[a] # op'[a] /\ procs'[i].backend \in Locked /\ setup.home # "pi"
           /\ ~Contaminated(procs'[i].backend, procs)
           => procs'[i].conv > IF procs'[i].backend = setup.home THEN reset ELSE op[a].was]_vars
  BY StartsFromReset
<1>2. QED  BY <1>1, FreshInit, FreshStep, PTL DEF Spec, FreshAfterReset
=============================================================================
