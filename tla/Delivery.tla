------------------------------ MODULE Delivery ------------------------------
(* How a project's requests reach its agents: the outbox                   *)
(* _pending_notifications of the pipeline file, filled in the transaction  *)
(* of a transition and emptied after the send, by the watchdog, by a       *)
(* command typed by hand, by the review command, and by the recovery a     *)
(* tick begins with when it finds the outbox not empty; and the nudges and *)
(* deadlines that make up for what is lost.                                *)
(*                                                                         *)
(* The states are those of one review phase, ended by APPROVED.  Every     *)
(* entry of a state begins an epoch; an entry of the outbox is the state   *)
(* and the epoch it was made for.  Two entries of the same state may read  *)
(* the same, and the code compares what they read.                         *)
EXTENDS Naturals, Sequences, FiniteSets

CONSTANTS
  Reviewers,
  TransitionBound,  \* states entered
  ForcedTo,         \* states the owner forces
  FaultBound        \* failed sends and posts, processes that die

Implementer == "implementer"
States == {"PLAN", "REVIEW", "NPASS", "REVISE", "APPROVED", "BLOCKED"}

ASSUME AgentsAssumption ==
  IsFiniteSet(Reviewers) /\ Reviewers \cap {Implementer, "report"} = {}
ASSUME ForcedAssumption == ForcedTo \subseteq States
ASSUME BoundsAssumption ==
  TransitionBound \in Nat /\ FaultBound \in Nat

VARIABLES
  state, epoch,   \* the state and the number of its entry
  enabled,        \* does the watchdog serve the project?
  late,           \* has the state's deadline passed?
  pend,           \* _pending_notifications
  dog,            \* the watchdog in the middle of its tick
  cli,            \* the transition command in the middle of its sends
  poster,         \* per reviewer, the epoch of the note its command posts
  told, asked,    \* epochs of the last delivered request
  worked, reviewed,        \* epochs of the last answer
  owed,           \* history: notes and reports saved, not delivered nor dropped
                  \* by force
  faults

vars == <<state, epoch, enabled, late, pend, dog, cli, poster, told,
          asked, worked, reviewed, owed, faults>>
agents == <<worked, reviewed>>

Asking == {"REVIEW", "NPASS"}
Working == {"PLAN", "REVISE"}
Epochs == 0..TransitionBound
Entries == [st : States \cup {"none"}, at : Epochs]
None == [st |-> "none", at |-> 0]
Empty == [impl |-> None, review |-> None, report |-> None, notes |-> {}]
Keys == {"impl", "review", "report"}
Resting == [pc |-> "idle", mode |-> "none", st |-> "none", at |-> 0,
            held |-> Empty, todo |-> <<>>]
NoCommand == [pc |-> "idle", key |-> "none", at |-> 0]

Holds(p, k) == IF k = "notes" THEN p.notes # {} ELSE p[k] # None

Init ==
  /\ state = "PLAN" /\ epoch = 1
  /\ enabled = TRUE
  /\ late = FALSE
  /\ pend = [Empty EXCEPT !.impl = [st |-> "PLAN", at |-> 1]]
  /\ dog = [Resting EXCEPT !.pc = "send", !.mode = "fresh", !.st = "PLAN", !.at = 1,
              !.held = pend, !.todo = <<"impl">>]
  /\ cli = NoCommand
  /\ poster = [r \in Reviewers |-> 0]
  /\ told = 0 /\ asked = [r \in Reviewers |-> 0]
  /\ worked = 0 /\ reviewed = [r \in Reviewers |-> 0]
  /\ owed = {}
  /\ faults = 0

(* ------------------------- entering a state ---------------------------- *)

(* stale_pending_keys: entries that contradict the state.                  *)
Stale(s, p) ==
  {k \in Keys : p[k] # None /\
     CASE k = "impl" -> s \in Asking
       [] k = "review" -> s # p.review.st
       [] OTHER -> s # "BLOCKED"}

Without(p, ks) == [k \in DOMAIN p |-> IF k \in ks THEN None ELSE p[k]]

(* What the entry of a state asks for.  Only the watchdog's BLOCKED asks   *)
(* for a report (and tells the implementer why).                           *)
Requests(s, byDog) ==
  CASE s \in Working -> {"impl"}
    [] s \in Asking -> {"review"}
    [] s = "BLOCKED" /\ byDog -> {"impl", "report"}
    [] OTHER -> {}

(* merge_pending_notifications: the latest entry of a key wins.            *)
Merged(p, s, ks) ==
  [k \in DOMAIN p |-> IF k \in ks THEN [st |-> s, at |-> epoch + 1] ELSE p[k]]

Enter(s, p, ks) ==
  /\ epoch < TransitionBound
  /\ state' = s
  /\ epoch' = epoch + 1
  /\ late' = FALSE
  /\ pend' = Merged(p, s, ks)

(* A transition typed with --force drops the whole outbox, the notes too.  *)
Forced(s) ==
  /\ Enter(s, Empty, Requests(s, FALSE))
  /\ owed' = owed \ pend.notes

(* ------------------------------ sending -------------------------------- *)

(* A send to the agents as: the set that is not reached.                   *)
Unreached(as, failed) ==
  /\ failed \subseteq as
  /\ IF failed = {} THEN UNCHANGED faults
     ELSE faults < FaultBound /\ faults' = faults + 1

(* notify_reviewers: when nobody is reached, _trigger_blocked forces the   *)
(* project to BLOCKED by a command of its own, which may fail.             *)
AskReviewers(at) ==
  \E failed \in SUBSET Reviewers :
    /\ Unreached(Reviewers, failed)
    /\ asked' = [r \in Reviewers |-> IF r \in failed THEN asked[r] ELSE at]
    /\ \/ failed = Reviewers /\ Forced("BLOCKED") /\ enabled' = FALSE
       \/ UNCHANGED <<state, epoch, late, pend, owed, enabled>>

Tell(at, ok) ==
  /\ \E failed \in SUBSET {Implementer} :
       Unreached({Implementer}, failed) /\ ok = (failed = {})
  /\ told' = IF ok THEN at ELSE told

(* --------------------------- the watchdog ------------------------------ *)

NextKey(d) == IF Len(d.todo) = 1 THEN Resting ELSE [d EXCEPT !.pc = "send", !.todo = Tail(@)]

(* process() reads the pipeline without the lock: an outbox that is not    *)
(* empty is recovered, and nothing else is done in this tick.              *)
Look ==
  /\ dog.pc = "idle"
  /\ dog' = [Resting EXCEPT
       !.pc = IF pend = Empty THEN "head" ELSE "prune",
       !.mode = IF pend = Empty THEN "none" ELSE "recover",
       !.st = state, !.at = epoch, !.held = pend]
  /\ pend = Empty => enabled
  /\ UNCHANGED <<state, epoch, enabled, late, pend, cli, poster, told,
                 asked, agents, owed, faults>>

RecoveryOrder == <<"impl", "review", "report", "notes">>

(* Recovery gives up when the state is not the one it read; otherwise it   *)
(* prunes what is stale, from the file and from what it read.              *)
Prune ==
  LET stale == Stale(state, dog.held)
      held == Without(dog.held, stale)
      todo == SelectSeq(RecoveryOrder, LAMBDA k : Holds(held, k))
  IN
  /\ dog.pc = "prune"
  /\ IF state # dog.st
     THEN dog' = Resting /\ UNCHANGED pend
     ELSE /\ pend' = IF stale = {} THEN pend ELSE Without(pend, Stale(state, pend))
          /\ dog' = IF todo = <<>> THEN Resting
                    ELSE [dog EXCEPT !.pc = "send", !.held = held, !.todo = todo]
  /\ UNCHANGED <<state, epoch, enabled, late, cli, poster, told, asked, agents, owed, faults>>

(* The next send of a transition or of the recovery.  A request that did   *)
(* not arrive is kept, except a review request: the nudges repeat it.      *)
SendNext ==
  LET k == Head(dog.todo)
      cleared(ok) == dog' = IF ok THEN [dog EXCEPT !.pc = "clear"] ELSE NextKey(dog)
      here == <<state, epoch, enabled, late, pend>>
  IN
  /\ dog.pc = "send"
  /\ \/ /\ k = "impl"
        /\ \E ok \in BOOLEAN : Tell(dog.held.impl.at, ok) /\ cleared(ok)
        /\ UNCHANGED <<here, asked, owed>>
     \/ /\ k = "review"
        /\ AskReviewers(dog.held.review.at)
        /\ cleared(TRUE)
        /\ UNCHANGED told
     \/ /\ k = "report"
        /\ \E failed \in SUBSET {Implementer} :
             /\ Unreached({Implementer}, failed)
             /\ owed' = IF failed = {} THEN owed \ {<<"report", dog.held.report.at>>} ELSE owed
             /\ cleared(failed = {})
        /\ UNCHANGED <<here, told, asked>>
     \/ /\ k = "notes"
        /\ \E lost \in SUBSET dog.held.notes :
             /\ lost # {} => faults < FaultBound
             /\ faults' = IF lost = {} THEN faults ELSE faults + 1
             /\ owed' = owed \ (dog.held.notes \ lost)
             /\ dog' = [dog EXCEPT !.pc = "clear", !.held.notes = @ \ lost]
        /\ UNCHANGED <<here, told, asked>>
  /\ UNCHANGED <<cli, poster, agents>>

(* Mutant of SameText: recovery clears by key.                             *)
MutantSameText(p, k) == {TRUE}

(* _conditional_clear_pending: is the entry still the one that was sent?   *)
(* Another of the same state may read the same.                            *)
SameText(p, k) ==
  IF p[k] = dog.held[k] THEN {TRUE}
  ELSE IF p[k].st = dog.held[k].st THEN BOOLEAN ELSE {FALSE}

(* clear_pending_notification after a send of a transition, its            *)
(* conditional variant after one of the recovery; the keys of notes are    *)
(* never used twice.                                                       *)
ClearNext ==
  LET k == Head(dog.todo) IN
  /\ dog.pc = "clear"
  /\ IF k = "notes" THEN pend' = [pend EXCEPT !.notes = @ \ dog.held.notes]
     ELSE \E same \in IF dog.mode = "recover" THEN SameText(pend, k) ELSE {TRUE} :
            pend' = IF same THEN [pend EXCEPT ![k] = None] ELSE pend
  /\ dog' = NextKey(dog)
  /\ UNCHANGED <<state, epoch, enabled, late, cli, poster, told, asked, agents, owed, faults>>

(* check_transition: the states one of which follows now ...               *)
Following ==
  LET answered == IF state \in Working THEN worked = epoch
                  ELSE \A r \in Reviewers : reviewed[r] = epoch IN
  CASE state \in Working /\ answered -> {"REVIEW"}
    [] state = "REVIEW" /\ answered -> {"REVISE", "NPASS", "APPROVED"}
    [] state = "NPASS" /\ answered -> {"REVISE", "NPASS", "APPROVED"}
    [] state = "NPASS" /\ ~answered /\ late -> {"REVISE", "APPROVED"}
    [] state \in Working \cup {"REVIEW"} /\ ~answered /\ late -> {"BLOCKED"}
    [] OTHER -> {}

(* ... and those that may follow before everyone has answered: the quorum  *)
(* and its grace period, or a serious verdict.                             *)
Early ==
  IF state \in Asking /\ \E r \in Reviewers : reviewed[r] = epoch
    THEN {"REVISE", "APPROVED"}
  ELSE {}

(* The transition of a tick, decided again under the lock when the state   *)
(* is still the one that was read (enabled is not read again).  A P0 flag  *)
(* ends a REVIEW without a word to the implementer.                        *)
Advance ==
  /\ dog.pc = "head" /\ state = dog.st
  /\ \E s \in Following \cup Early \cup {"REVISE"}, ks \in SUBSET Keys :
       LET todo == SelectSeq(<<"report", "impl", "review">>, LAMBDA k : k \in ks) IN
       /\ \/ s \in Following \cup Early /\ ks = Requests(s, TRUE)
          \/ state = "REVIEW" /\ s = "REVISE" /\ ks = {}
       /\ Enter(s, pend, ks)
       /\ enabled' = (enabled /\ s # "BLOCKED")
       /\ owed' = IF s = "BLOCKED" THEN owed \cup {<<"report", epoch + 1>>} ELSE owed
       /\ dog' = IF todo = <<>> THEN Resting
                 ELSE [pc |-> "send", mode |-> "fresh", st |-> s, at |-> epoch + 1,
                       held |-> pend', todo |-> todo]
  /\ UNCHANGED <<cli, poster, told, asked, agents, faults>>

(* Mutant of Nudged: reviewers are not nudged.                             *)
MutantNudged == IF state \in Working /\ told # epoch THEN {Implementer} ELSE {}

(* Who is nudged: agents that have not been reached in this state (others  *)
(* are at work); nobody in NPASS.                                          *)
Nudged ==
  IF state \in Working THEN (IF told = epoch THEN {} ELSE {Implementer})
  ELSE IF state = "REVIEW" THEN {r \in Reviewers : asked[r] # epoch} ELSE {}

(* A tick without transition: the agents to nudge are named, and the       *)
(* nudges are sent after the lock is released.                             *)
Hold ==
  /\ dog.pc = "head"
  /\ state = dog.st => Following = {} \/ epoch = TransitionBound
  /\ dog' = IF state = dog.st /\ Nudged # {}
              THEN [Resting EXCEPT !.pc = "nudge", !.st = state, !.at = epoch] ELSE Resting
  /\ UNCHANGED <<state, epoch, enabled, late, pend, cli, poster, told,
                 asked, agents, owed, faults>>

Nudge ==
  LET as == IF dog.st = "REVIEW" THEN {r \in Reviewers : asked[r] # dog.at}
                                 ELSE {Implementer} IN
  /\ dog.pc = "nudge"
  /\ \E failed \in SUBSET as :
       /\ Unreached(as, failed)
       /\ told' = IF Implementer \in as \ failed THEN dog.at ELSE told
       /\ asked' = [r \in Reviewers |-> IF r \in as \ failed THEN dog.at ELSE asked[r]]
  /\ dog' = Resting
  /\ UNCHANGED <<state, epoch, enabled, late, pend, cli, poster,
                 agents, owed>>

(* The watchdog is killed in the middle of its tick; cron starts another.  *)
(* (Killed elsewhere it has done nothing yet.)                             *)
DogDies ==
  /\ dog.pc \in {"send", "clear"}
  /\ faults < FaultBound
  /\ faults' = faults + 1
  /\ dog' = Resting
  /\ UNCHANGED <<state, epoch, enabled, late, pend, cli, poster, told,
                 asked, agents, owed>>

(* ------------------------- commands by hand ---------------------------- *)

(* VALID_TRANSITIONS within the phase.                                     *)
Valid ==
  [PLAN |-> {"REVIEW"}, REVIEW |-> {"APPROVED", "REVISE", "BLOCKED", "NPASS"},
   NPASS |-> {"APPROVED", "REVISE", "NPASS"}, REVISE |-> {"REVIEW"},
   APPROVED |-> {}, BLOCKED |-> {}]

(* gokrax transition, plain, with --resume or with --force: one            *)
(* transaction, then its sends.                                            *)
Command(s, how) ==
  LET ks == Requests(s, FALSE) IN
  /\ cli.pc = "idle"
  /\ CASE how = "plain" -> s \in Valid[state]
       [] how = "resume" -> state = "BLOCKED" /\ s \in Working \cup Asking
       [] OTHER -> s \in ForcedTo
  /\ IF how = "force" THEN Forced(s)
     ELSE Enter(s, Without(pend, Stale(s, pend)), ks) /\ UNCHANGED owed
  /\ enabled' = CASE how = "resume" /\ s = "REVISE" -> TRUE
                  [] s = "BLOCKED" -> FALSE
                  [] OTHER -> enabled
  /\ cli' = IF ks = {} THEN NoCommand
            ELSE [pc |-> "send", key |-> CHOOSE k \in ks : TRUE, at |-> epoch + 1]
  /\ UNCHANGED <<dog, poster, told, asked, agents, faults>>

CommandSends ==
  /\ cli.pc = "send"
  /\ \/ /\ cli.key = "impl"
        /\ \E ok \in BOOLEAN :
             /\ Tell(cli.at, ok)
             /\ cli' = IF ok THEN [cli EXCEPT !.pc = "clear"] ELSE NoCommand
        /\ UNCHANGED <<state, epoch, enabled, late, pend, asked, owed>>
     \/ /\ cli.key = "review"
        /\ AskReviewers(cli.at)
        /\ cli' = [cli EXCEPT !.pc = "clear"]
        /\ UNCHANGED told
  /\ UNCHANGED <<dog, poster, agents>>

CommandClears ==
  /\ cli.pc = "clear"
  /\ pend' = [pend EXCEPT ![cli.key] = None]
  /\ cli' = NoCommand
  /\ UNCHANGED <<state, epoch, enabled, late, dog, poster, told, asked, agents, owed, faults>>

CommandDies ==
  /\ cli.pc # "idle"
  /\ faults < FaultBound
  /\ faults' = faults + 1
  /\ cli' = NoCommand
  /\ UNCHANGED <<state, epoch, enabled, late, pend, dog, poster, told,
                 asked, agents, owed>>

(* gokrax enable.                                                          *)
Enable ==
  /\ ~enabled /\ state # "BLOCKED"
  /\ enabled' = TRUE
  /\ UNCHANGED <<state, epoch, late, pend, dog, cli, poster, told, asked, agents, owed, faults>>

(* The deadline passes, however often it was extended; at the bound of the *)
(* model it does not.                                                      *)
Pass ==
  /\ ~late
  /\ state \in Working \cup Asking
  /\ epoch < TransitionBound
  /\ late' = TRUE
  /\ UNCHANGED <<state, epoch, enabled, pend, dog, cli, poster, told, asked,
                 agents, owed, faults>>

(* ------------------------------ agents --------------------------------- *)

(* The implementer, told in this state, does its work and reports it.      *)
Work ==
  /\ state \in Working /\ told = epoch /\ worked # epoch
  /\ worked' = epoch
  /\ UNCHANGED <<state, epoch, enabled, late, pend, dog, cli, poster, told,
                 asked, reviewed, owed, faults>>

(* gokrax review: the verdict and its note are saved in one transaction,   *)
(* then the note is posted.                                                *)
Review(r) ==
  /\ state \in Asking /\ asked[r] = epoch /\ reviewed[r] # epoch
  /\ poster[r] = 0
  /\ reviewed' = [reviewed EXCEPT ![r] = epoch]
  /\ pend' = [pend EXCEPT !.notes = @ \cup {<<r, epoch>>}]
  /\ owed' = owed \cup {<<r, epoch>>}
  /\ poster' = [poster EXCEPT ![r] = epoch]
  /\ UNCHANGED <<state, epoch, enabled, late, dog, cli, told, asked, worked, faults>>

(* The note is posted and its entry cleared; or the post fails, or the     *)
(* command dies before it or before the entry is cleared.                  *)
Post(r) ==
  LET note == <<r, poster[r]>> IN
  /\ poster[r] # 0
  /\ poster' = [poster EXCEPT ![r] = 0]
  /\ \/ owed' = owed \ {note} /\ pend' = [pend EXCEPT !.notes = @ \ {note}]
        /\ UNCHANGED faults
     \/ /\ faults < FaultBound /\ faults' = faults + 1
        /\ owed' \in {owed, owed \ {note}}
        /\ UNCHANGED pend
  /\ UNCHANGED <<state, epoch, enabled, late, dog, cli, told, asked, agents>>

Tick == Look \/ Prune \/ SendNext \/ ClearNext \/ Advance \/ Hold \/ Nudge

Next ==
  \/ Tick \/ DogDies
  \/ \E s \in States, how \in {"plain", "resume", "force"} : Command(s, how)
  \/ CommandSends \/ CommandClears \/ CommandDies
  \/ Enable \/ Pass
  \/ Work
  \/ \E r \in Reviewers : Review(r) \/ Post(r)

Spec == Init /\ [][Next]_vars

(* Cron keeps the watchdog ticking, and a command that does not die ends.  *)
FairSpec == Spec /\ WF_vars(Tick) /\ WF_vars(CommandSends \/ CommandClears)
                 /\ \A r \in Reviewers : WF_vars(Post(r))

(* ---------------------------- properties ------------------------------- *)

(* Recovery takes out of the outbox only what it has sent (or an entry     *)
(* that reads the same) and what contradicts the state: an entry stored    *)
(* while it was sending is kept.                                           *)
RecoveryKeepsNewer ==
  [][dog # dog' /\ dog.mode = "recover" /\ epoch = epoch' =>
       \A k \in Keys : pend[k] # None /\ pend'[k] = None =>
         \/ dog.pc = "clear" /\ k = Head(dog.todo) /\ pend[k].st = dog.held[k].st
         \/ k \in Stale(state, pend)]_vars

(* What the state asks for has been delivered in it.                       *)
Delivered ==
  CASE state \in Working -> told = epoch
    [] state = "REVIEW" -> \A r \in Reviewers : asked[r] = epoch
    [] OTHER -> TRUE

(* Notes, and the report of this BLOCKED.                                  *)
Owed == {x \in owed : x[1] = "report" => x[2] = epoch}

(* Whatever is lost to failed sends, killed processes and commands that    *)
(* cross each other, while the project is enabled the agents are asked in  *)
(* the end what the state asks of them, the report of a BLOCKED is         *)
(* requested, and every note is posted that no forced transition drops.    *)
DeliveredInTheEnd == <>[]((enabled => Delivered) /\ Owed = {})

=============================================================================
