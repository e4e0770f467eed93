-------------------------- MODULE SpecCycle_proofs --------------------------
(***************************************************************************)
(* Spec mode for every panel of reviewers, every quorum, number of passes, *)
(* retries, revisions, reports, faults and commands.                       *)
(***************************************************************************)
EXTENDS SpecCycle, FiniteSetTheorems, TLAPS

-----------------------------------------------------------------------------
(* TypeOK in parts *)

Place ==
  /\ state \in States
  /\ from \in {"none", "SPEC_REVIEW", "SPEC_REVISE", "ISSUE_SUGGESTION"} \cup PlanStates
  /\ opts \in SUBSET Flags /\ mode \in BOOLEAN
  /\ cli \in {"continue", "done", "resume", "retry", "extend", "none"}
  /\ state = "SPEC_PAUSED" => from # "none"
Revisions == rev \in Nat /\ limit \in 0..RevBound
Requests ==
  /\ DOMAIN rr \subseteq Reviewers
  /\ rr \in [DOMAIN rr -> [status : Statuses, sent : BOOLEAN]]
Entries ==
  /\ entries \in [Reviewers -> Verdicts \cup {"none", "timeout", "proposal"}]
  /\ proposals \subseteq Reviewers
  /\ given \in [Reviewers -> [verdict : Verdicts \cup {"none"}, rev : Nat]]
JobRecord ==
  [sent : BOOLEAN, tries : 0..MaxRetries, retries : 0..MaxRetries + 1,
   report : Reports \cup {"none"}]
JobType == job \in JobRecord
SelfRecord ==
  [sent : BOOLEAN, pass : 0..Passes, draft : 0..DraftBound, about : 0..DraftBound,
   answer : Answers \cup {"none"}]
SelfType ==
  /\ self \in SelfRecord
  /\ self.sent \/ self.answer # "none" => self.draft # 0
FeedbackRecord == [due : BOOLEAN, tries : 0..MaxRetries]
FeedbackType == feedback \in FeedbackRecord
PlanRecord == [sent : BOOLEAN, done : BOOLEAN, retries : Nat]
PlanType == plan \in [PlanStates -> PlanRecord]
TickRecord ==
  [what : Sends, to : SUBSET (Reviewers \cup {Impl}), rev : Nat,
   draft : 0..DraftBound, bounced : BOOLEAN, busy : BOOLEAN]
TickType == tick \in TickRecord
MessageRecord ==
  [to : Reviewers \cup {Impl}, rev : Nat, draft : 0..DraftBound,
   what : {"review", "suggestion", "revise", "self"} \cup PlanStates]
InboxType == inbox \subseteq MessageRecord
Tallies ==
  /\ busy \subseteq Counters
  /\ drafts \in 0..DraftBound /\ text \in 0..DraftBound
  /\ cleared \subseteq 0..DraftBound
  /\ misses \in [Counters -> Nat]
  /\ faults \in Nat /\ cmds \in Nat
  /\ allowed \subseteq Disturbances

(* Nobody but the owner, who gives one command at a time, takes a project  *)
(* out of a wait.                                                          *)
Waiting ==
  /\ cli = "retry" => state = "SPEC_REVIEW_FAILED"
  /\ cli = "resume" => state = "SPEC_PAUSED"
  /\ cli = "extend" => state = "SPEC_STALLED"

Parts ==
  /\ Place /\ Revisions /\ Requests /\ Entries /\ JobType /\ SelfType /\ FeedbackType
  /\ PlanType /\ TickType /\ InboxType /\ Tallies /\ Waiting

LEMMA TypeParts == Parts => TypeOK
<1> SUFFICES ASSUME Parts PROVE TypeOK  OBVIOUS
<1>1. /\ cli \in DOMAIN Checked \cup {"none"}
      /\ cli \in {"retry", "resume", "extend"} => state = Checked[cli]
  <2>1. CASE cli = "retry"  BY <2>1 DEF Parts, Waiting, Checked
  <2>2. CASE cli = "resume"  BY <2>2 DEF Parts, Waiting, Checked
  <2>3. CASE cli = "extend"  BY <2>3 DEF Parts, Waiting, Checked
  <2>4. CASE cli \in {"continue", "done", "none"}  BY <2>4 DEF Checked
  <2>5. QED  BY <2>1, <2>2, <2>3, <2>4 DEF Parts, Place
<1>2. QED
  BY <1>1 DEF TypeOK, Parts, Place, Revisions, Requests, Entries, JobType, JobRecord, SelfType,
         SelfRecord, FeedbackType, FeedbackRecord, PlanType, PlanRecord, TickType,
         TickRecord, InboxType, MessageRecord, Tallies

-----------------------------------------------------------------------------
(* The inductive invariant *)

(* The counter of the revision stays below its limit while it is used; when*)
(* it reached it, it has paused the project.                               *)
Counted == job.retries <= MaxRetries \/ from = "SPEC_REVISE"

(* Before the approval, only a paused project has a state to resume; a     *)
(* continue comes after it, and only where the owner gives commands.       *)
Reviews == {"SPEC_REVIEW", "SPEC_REVISE", "SPEC_STALLED", "SPEC_REVIEW_FAILED"}
Onward ==
  /\ state \in Reviews \cup {"IDLE", "SPEC_APPROVED"} => from = "none"
  /\ from = "SPEC_REVISE" => state = "SPEC_PAUSED"
  /\ cli = "continue" => state \notin Reviews /\ from # "SPEC_REVISE"
  /\ cli # "none" => "owner" \in allowed

(* A project under review has a revision.                                  *)
Running ==
  /\ state \in Reviews \/ from = "SPEC_REVISE" => rev >= 1
  /\ from # "SPEC_REVIEW"
  /\ state = "SPEC_REVIEW" => \A r \in Reviewers : entries[r] # "proposal"

(* A report that came in is counted.                                       *)
Texts == job.report # "none" => drafts # 0

(* What the author was asked about last, and has found clean.              *)
Cleared ==
  /\ self.about \in {text, self.draft}
  /\ "late" \notin allowed /\ self.answer = "clean" => self.about \in cleared

Reviewing == state \in {"SPEC_REVIEW", "SPEC_STALLED", "SPEC_REVISE"} \/ from = "SPEC_REVISE"

(* What is on record of a reviewer is its last review, of this revision or,*)
(* approved, of the one before.                                            *)
OnRecord(r) ==
  /\ given[r].rev <= rev
  /\ entries[r] \in Verdicts => given[r] = [verdict |-> entries[r], rev |-> rev]
  /\ given[r].rev = rev => entries[r] \in Verdicts
  /\ rr[r].status = "approved_prior" =>
       given[r].verdict = "APPROVE" /\ given[r].rev >= rev - 1
  /\ rr[r].status = "pending" => entries[r] \notin Verdicts

Recorded ==
  /\ \A r \in Reviewers : entries[r] # "none" => r \in DOMAIN rr
  /\ "late" \notin allowed /\ Reviewing => \A r \in DOMAIN rr : OnRecord(r)

(* A request on its way may have been counted already.                     *)
Accounted(what, tries) ==
  IF tick.what = what THEN tries \in 1..misses[what] + 1 ELSE tries <= misses[what]

Misses ==
  allowed \cap {"crash", "owner"} = {} =>
    /\ Accounted("revise", job.tries)
    /\ Accounted("feedback", feedback.tries)
    /\ tick.what = "revise" => job.sent
    /\ state = "IDLE" => tick = Off

SpecInv ==
  /\ Place /\ Revisions /\ Requests /\ Entries /\ JobType /\ SelfType /\ FeedbackType
  /\ PlanType /\ TickType /\ InboxType /\ Tallies
  /\ Waiting /\ Counted /\ Onward /\ Running /\ Texts /\ Cleared /\ Recorded /\ Misses


-----------------------------------------------------------------------------
(* Updates of single records *)

LEMMA JobUpdate ==
  ASSUME NEW j \in JobRecord, NEW s \in BOOLEAN, NEW n \in 0..MaxRetries
  PROVE  [j EXCEPT !.sent = s, !.tries = n] \in JobRecord
  BY DEF JobRecord

LEMMA SelfUpdate ==
  ASSUME NEW s \in SelfRecord, NEW sent \in BOOLEAN, NEW n \in 0..Passes
  PROVE  [s EXCEPT !.sent = sent, !.pass = n] \in SelfRecord
  BY DEF SelfRecord

LEMMA NewSelf ==
  ASSUME NEW d \in 0..DraftBound, NEW a \in 0..DraftBound
  PROVE  /\ [NoSelf EXCEPT !.sent = TRUE, !.draft = d, !.about = a] \in SelfRecord
         /\ [NoSelf EXCEPT !.draft = d, !.about = a] \in SelfRecord
<1>1. NoSelf \in SelfRecord  BY SpecAssumption DEF NoSelf, SelfRecord, Answers, SpecAssumption
<1>2. QED  BY <1>1 DEF SelfRecord

LEMMA SparedType ==
  ASSUME NEW m \in Nat, NEW n \in 0..m
  PROVE  Spared(n) \in 0..m /\ Spared(n) <= n /\ (tick.busy /\ n > 0 => Spared(n) = n - 1)
  BY DEF Spared

(* A request goes to agents, about the revision there is.                  *)
LEMMA Asked ==
  ASSUME Revisions, NEW what \in Sends, NEW to \in SUBSET (Reviewers \cup {Impl}),
         NEW d \in 0..DraftBound, Ask(what, to, d)
  PROVE  TickType' /\ (tick' = Off \/ tick'.what = what)
<1>1. rev \in Nat  BY DEF Revisions
<1>2. Off \in TickRecord /\ Off.what = "none"
  BY SpecAssumption DEF Off, TickRecord, Sends, SpecAssumption
<1>3. [what |-> what, to |-> to, rev |-> rev, draft |-> d, bounced |-> FALSE, busy |-> FALSE]
        \in TickRecord
  BY <1>1 DEF TickRecord
<1>4. QED  BY <1>2, <1>3 DEF Ask, TickType


-----------------------------------------------------------------------------
(* One lemma for each action *)

LEMMA Started ==
  ASSUME SpecInv, Start
  PROVE  SpecInv'
<1>1. UNCHANGED <<tick, faults, cmds, cli, allowed>>
  BY DEF Start
<1>2. Place /\ Revisions /\ Requests /\ Entries /\ JobType /\ SelfType /\
        FeedbackType /\ PlanType /\ TickType /\ InboxType /\ Tallies /\
        Waiting /\ Counted /\ Onward /\ Running /\ Texts /\ Cleared /\ Recorded /\ Misses
  BY DEF SpecInv
<1>3. TickType'
  BY <1>1, <1>2 DEF TickType
<1>4. Place'
  BY <1>1, <1>2, SpecAssumption
     DEF Place, Start, Running, SpecAssumption, States, Waits, PlanStates,
         Flags, Statuses, Counters, NewConfig, NoEntries, NoJob, NoMisses,
         Normal, Unasked, Off
<1>5. Revisions'
  BY <1>1, <1>2, SpecAssumption
     DEF Revisions, Start, SpecAssumption, NewConfig
<1>6. Requests'
  BY <1>1, <1>2 DEF Requests, Start, Flags, Statuses, Unasked, Off
<1>7. Entries'
  BY <1>1, <1>2, SpecAssumption
     DEF Entries, Start, SpecAssumption, NewConfig, NoEntries, NoneGiven
<1>8. JobType'
  BY <1>1, <1>2, SpecAssumption
     DEF JobType, Start, JobRecord, SpecAssumption, NewConfig, NoJob, NoSelf
<1>9. SelfType'
  BY <1>1, <1>2, SpecAssumption
     DEF SelfType, Start, SelfRecord, SpecAssumption, NewConfig, NoJob, NoSelf
<1>10. FeedbackType'
  BY <1>1, <1>2, SpecAssumption
     DEF FeedbackType, Start, FeedbackRecord, SpecAssumption, NewConfig,
         NoFeedback
<1>11. PlanType'
  BY <1>1, <1>2, SpecAssumption
     DEF PlanType, Start, PlanRecord, SpecAssumption, NewConfig, NoEntries,
         NoPlan, NoneGiven
<1>12. InboxType'  BY <1>1, <1>2 DEF InboxType, Start
<1>13. Tallies'
  BY <1>1, <1>2, SpecAssumption
     DEF Tallies, Start, SpecAssumption, NewConfig, NoMisses
<1>14. Counted'
  BY <1>1, <1>2, SpecAssumption
     DEF Counted, Start, SpecAssumption, NewConfig, NoEntries, NoJob,
         NoFeedback, NoPlan
<1>15. Running'
  <2>1. rev' \in StartRevs /\ from' = "none" /\ entries' = NoEntries
    BY DEF Start, NewConfig
  <2>2. rev' >= 1  BY <2>1, SpecAssumption DEF SpecAssumption
  <2>3. QED  BY <2>1, <2>2 DEF Running, NoEntries
<1>16. Texts'
  BY <1>1, <1>2 DEF Texts, Start, NewConfig, NoEntries, NoJob, NoSelf
<1>17. Cleared'  BY <1>1, <1>2 DEF Cleared, Start, NewConfig, NoSelf
<1>18. Recorded'
  <2>1. rev' \in StartRevs /\ entries' = NoEntries /\ given' = NoneGiven
    BY DEF Start, NewConfig
  <2>2. rev' \in Nat /\ rev' >= 1  BY <2>1, SpecAssumption DEF SpecAssumption
  <2>3. PICK panel \in SUBSET Reviewers : rr' = [r \in panel |-> Unasked]
    BY Zenon DEF Start
  <2>4. ASSUME NEW r \in DOMAIN rr' PROVE OnRecord(r)'
    <3>1. r \in Reviewers /\ rr'[r] = Unasked  BY <2>3
    <3>2. entries'[r] = "none" /\ given'[r] = [verdict |-> "none", rev |-> 0]
      BY <2>1, <3>1 DEF NoEntries, NoneGiven
    <3>3. QED  BY <2>2, <3>1, <3>2 DEF OnRecord, Verdicts, Unasked
  <2>5. QED  BY <2>1, <2>4 DEF Recorded, NoEntries
<1>19. Misses'
  BY <1>1, <1>2
     DEF Misses, Start, Accounted, Tallies, JobType, Reports, Answers, Sends,
         Counters, NewConfig, NoEntries, NoJob, NoSelf, NoFeedback, NoPlan,
         NoneGiven, NoMisses, Normal, Unasked, Off
<1>20. Waiting' /\ Onward'
  BY <1>1, <1>2 DEF Waiting, Onward, Reviews, Place, Start, NewConfig
<1>21. QED
  BY <1>3, <1>4, <1>5, <1>6, <1>7, <1>8, <1>9, <1>10, <1>11, <1>12, <1>13,
     <1>14, <1>15, <1>16, <1>17, <1>18, <1>19, <1>20 DEF SpecInv

LEMMA Approved ==
  ASSUME SpecInv, NEW force \in BOOLEAN, Approve(force)
  PROVE  SpecInv'
<1>1. UNCHANGED <<from, opts, rev, limit, rr, proposals, job, self,
        feedback, plan, busy, drafts, text, given, cleared, misses, tick,
        inbox, faults, mode, cli, allowed>>
  BY DEF Approve
<1>2. Place /\ Revisions /\ Requests /\ Entries /\ JobType /\ SelfType /\
        FeedbackType /\ PlanType /\ TickType /\ InboxType /\ Tallies /\
        Waiting /\ Counted /\ Onward /\ Running /\ Texts /\ Cleared /\ Recorded /\ Misses
  BY DEF SpecInv
<1>3. Revisions' /\ Requests' /\ JobType' /\ SelfType' /\ FeedbackType' /\
        PlanType'
  BY <1>1, <1>2 DEF Revisions, Requests, JobType, SelfType, FeedbackType, PlanType
<1>4. TickType' /\ InboxType' /\ Counted' /\ Texts' /\ Cleared'
  BY <1>1, <1>2 DEF TickType, InboxType, Counted, Texts, Cleared
<1>5. Place'  BY <1>1, <1>2 DEF Place, Approve, States
<1>6. Entries'  BY <1>1, <1>2 DEF Entries, Approve, NoEntries
<1>7. Tallies'  BY <1>1, <1>2 DEF Tallies, Approve, Command
<1>8. Running'  BY <1>1, <1>2 DEF Running, Approve, Onward, Reviews, Waiting
<1>9. Recorded'
  BY <1>1, <1>2 DEF Recorded, Approve, Reviewing, Place, Command, NoEntries,
         Onward, Reviews, Waiting
<1>10. Misses'  BY <1>1, <1>2 DEF Misses, Approve, Command
<1>11. Waiting' /\ Onward'
  BY <1>1, <1>2 DEF Waiting, Onward, Reviews, Place, Approve, Command
<1>12. QED
  BY <1>3, <1>4, <1>5, <1>6, <1>7, <1>8, <1>9, <1>10, <1>11 DEF SpecInv

LEMMA Looked ==
  ASSUME SpecInv, NEW c \in DOMAIN Checked, Look(c)
  PROVE  SpecInv'
<1>1. UNCHANGED <<state, from, opts, rev, limit, rr, entries, proposals, job, self,
        feedback, plan, busy, drafts, text, given, cleared, misses, tick,
        inbox, faults, mode, allowed>>
  BY DEF Look, specVars
<1>2. Place /\ Revisions /\ Requests /\ Entries /\ JobType /\ SelfType /\
        FeedbackType /\ PlanType /\ TickType /\ InboxType /\ Tallies /\
        Waiting /\ Counted /\ Onward /\ Running /\ Texts /\ Cleared /\ Recorded /\ Misses
  BY DEF SpecInv
<1>3. /\ c \in {"continue", "done", "resume", "retry", "extend"} /\ cli' = c
      /\ c = "continue" => state = "SPEC_APPROVED"
      /\ c = "resume" => state = "SPEC_PAUSED"
      /\ c = "retry" => state = "SPEC_REVIEW_FAILED"
      /\ c = "extend" => state = "SPEC_STALLED"
      /\ "owner" \in allowed
  BY DEF Look, Checked, Command
<1>4. /\ Revisions' /\ Requests' /\ Entries' /\ JobType' /\ SelfType' /\ FeedbackType'
      /\ PlanType' /\ TickType' /\ InboxType'
  BY <1>1, <1>2 DEF Revisions, Requests, Entries, JobType, SelfType, FeedbackType,
                    PlanType, TickType, InboxType
<1>5. Counted' /\ Running' /\ Texts' /\ Cleared' /\ Recorded'
  BY <1>1, <1>2 DEF Counted, Running, Texts, Cleared, Recorded, Reviewing, OnRecord
<1>6. Place'  BY <1>1, <1>2, <1>3 DEF Place
<1>7. Waiting' /\ Onward'  BY <1>1, <1>2, <1>3 DEF Waiting, Onward, Reviews
<1>8. Tallies'  BY <1>1, <1>2 DEF Tallies, Look, Command
<1>9. Misses'  BY <1>1, <1>2 DEF Misses, Look, Command, Accounted
<1>10. QED
  BY <1>4, <1>5, <1>6, <1>7, <1>8, <1>9 DEF SpecInv

LEMMA Continued ==
  ASSUME SpecInv, Continue
  PROVE  SpecInv'
<1>1. UNCHANGED <<from, opts, rev, limit, entries, proposals, job, self,
        feedback, plan, busy, drafts, text, given, cleared, misses, tick,
        inbox, faults, cmds, mode, allowed>>
  BY DEF Continue
<1>2. Place /\ Revisions /\ Requests /\ Entries /\ JobType /\ SelfType /\
        FeedbackType /\ PlanType /\ TickType /\ InboxType /\ Tallies /\
        Waiting /\ Counted /\ Onward /\ Running /\ Texts /\ Cleared /\ Recorded /\ Misses
  BY DEF SpecInv
<1>3. Revisions' /\ Entries' /\ JobType' /\ SelfType' /\ FeedbackType' /\
        PlanType'
  BY <1>1, <1>2 DEF Revisions, Entries, JobType, SelfType, FeedbackType, PlanType
<1>4. TickType' /\ InboxType' /\ Counted' /\ Texts' /\ Cleared'
  BY <1>1, <1>2 DEF TickType, InboxType, Counted, Texts, Cleared
<1>5. Place'  BY <1>1, <1>2 DEF Place, Continue, States, Onward, Reviews, Waiting, Write
<1>6. Requests'
  BY <1>1, <1>2 DEF Requests, Continue, Statuses, AllUnasked, Unasked
<1>7. Tallies'  BY <1>1, <1>2 DEF Tallies, Continue, Write
<1>8. Running'  BY <1>1, <1>2 DEF Running, Continue, AllUnasked, Onward, Reviews, Waiting
<1>9. Recorded'
  BY <1>1, <1>2 DEF Recorded, Continue, Reviewing, Place, AllUnasked, Unasked,
         Onward, Reviews, Waiting, Write
<1>10. Misses'  BY <1>1, <1>2 DEF Misses, Continue, Write, Onward, Reviews, Waiting
<1>11. Waiting' /\ Onward'
  BY <1>1, <1>2 DEF Waiting, Onward, Reviews, Place, Continue, Write, PlanStates
<1>12. QED
  BY <1>3, <1>4, <1>5, <1>6, <1>7, <1>8, <1>9, <1>10, <1>11 DEF SpecInv

LEMMA Retried ==
  ASSUME SpecInv, Retry
  PROVE  SpecInv'
<1>1. UNCHANGED <<from, opts, rev, limit, proposals, job, self, feedback,
        plan, busy, drafts, text, cleared, misses, tick, inbox, faults,
        cmds, mode, allowed>>
  BY DEF Retry
<1>2. Place /\ Revisions /\ Requests /\ Entries /\ JobType /\ SelfType /\
        FeedbackType /\ PlanType /\ TickType /\ InboxType /\ Tallies /\
        Waiting /\ Counted /\ Onward /\ Running /\ Texts /\ Cleared /\ Recorded /\ Misses
  BY DEF SpecInv
<1>3. Revisions' /\ JobType' /\ SelfType' /\ FeedbackType' /\ PlanType' /\
        TickType'
  BY <1>1, <1>2 DEF Revisions, JobType, SelfType, FeedbackType, PlanType, TickType
<1>4. InboxType' /\ Counted' /\ Texts' /\ Cleared'
  BY <1>1, <1>2 DEF InboxType, Counted, Texts, Cleared
<1>5. Place'  BY <1>1, <1>2 DEF Place, Retry, States, Onward, Reviews, Waiting, Write
<1>6. Requests'
  BY <1>1, <1>2 DEF Requests, Retry, Statuses, AllUnasked, Unasked
<1>7. Entries'
  BY <1>1, <1>2, SpecAssumption
     DEF Entries, Retry, SpecAssumption, NoEntries, NoneGiven
<1>8. Tallies'  BY <1>1, <1>2 DEF Tallies, Retry, Write
<1>9. Running'  BY <1>1, <1>2 DEF Running, Retry, AllUnasked, NoEntries,
         Onward, Reviews, Waiting, Write
<1>10. Recorded'
  BY <1>1, <1>2
     DEF Recorded, Retry, OnRecord, Reviewing, Running, Entries, Requests,
         Place, Revisions, Statuses, Verdicts, Reports, AllUnasked, Unasked,
         NoEntries, NoneGiven, Onward, Reviews, Waiting, Write
<1>11. Misses'  BY <1>1, <1>2 DEF Misses, Retry, Write, Onward, Reviews, Waiting
<1>12. Waiting' /\ Onward'
  BY <1>1, <1>2 DEF Waiting, Onward, Reviews, Place, Retry, Write, PlanStates
<1>13. QED
  BY <1>3, <1>4, <1>5, <1>6, <1>7, <1>8, <1>9, <1>10, <1>11, <1>12 DEF SpecInv

LEMMA Resumed ==
  ASSUME SpecInv, Resume
  PROVE  SpecInv'
<1>1. UNCHANGED <<opts, rev, limit, proposals, self, feedback, busy, drafts,
        text, given, cleared, misses, tick, inbox, faults, cmds, mode, allowed>>
  BY DEF Resume
<1>2. Place /\ Revisions /\ Requests /\ Entries /\ JobType /\ SelfType /\
        FeedbackType /\ PlanType /\ TickType /\ InboxType /\ Tallies /\
        Waiting /\ Counted /\ Onward /\ Running /\ Texts /\ Cleared /\ Recorded /\ Misses
  BY DEF SpecInv
<1>3. Revisions' /\ SelfType' /\ FeedbackType' /\ TickType' /\ InboxType' /\
        Cleared'
  BY <1>1, <1>2 DEF Revisions, SelfType, FeedbackType, TickType, InboxType, Cleared
<1>4. Place'  BY <1>1, <1>2 DEF Place, Resume, States, PlanStates, Onward, Reviews, Waiting, Write
<1>5. Requests'
  BY <1>1, <1>2 DEF Requests, Resume, Statuses, AllUnasked, Unasked, NoEntries
<1>6. Entries'  BY <1>1, <1>2 DEF Entries, Resume, NoEntries
<1>7. JobType'
  BY <1>1, <1>2, SpecAssumption DEF JobType, Resume, JobRecord, SpecAssumption
<1>8. PlanType'
  BY <1>1, <1>2, SpecAssumption
     DEF PlanType, Resume, PlanRecord, SpecAssumption
<1>9. Tallies'  BY <1>1, <1>2 DEF Tallies, Resume, Write
<1>10. Counted'
  BY <1>1, <1>2, SpecAssumption DEF Counted, Resume, PlanType, SpecAssumption
<1>11. Running'  BY <1>1, <1>2 DEF Running, Resume, Place, PlanStates, Reviews, Waiting, Write
<1>12. Texts'  BY <1>1, <1>2 DEF Texts, Resume
<1>13. Recorded'
  BY <1>1, <1>2
     DEF Recorded, Resume, OnRecord, Reviewing, Running, Place, Waits,
         PlanStates
<1>14. Misses'  BY <1>1, <1>2 DEF Misses, Resume, Write, Onward, Reviews, Waiting
<1>15. Waiting' /\ Onward'
  BY <1>1, <1>2 DEF Waiting, Onward, Reviews, Place, Resume, Write, PlanStates
<1>16. QED
  BY <1>3, <1>4, <1>5, <1>6, <1>7, <1>8, <1>9, <1>10, <1>11, <1>12, <1>13,
     <1>14, <1>15 DEF SpecInv

LEMMA Extended ==
  ASSUME SpecInv, Extend
  PROVE  SpecInv'
<1>1. UNCHANGED <<from, opts, rev, rr, entries, proposals, job, self,
        feedback, plan, busy, drafts, text, given, cleared, misses, tick,
        inbox, faults, cmds, mode, allowed>>
  BY DEF Extend
<1>2. Place /\ Revisions /\ Requests /\ Entries /\ JobType /\ SelfType /\
        FeedbackType /\ PlanType /\ TickType /\ InboxType /\ Tallies /\
        Waiting /\ Counted /\ Onward /\ Running /\ Texts /\ Cleared /\ Recorded /\ Misses
  BY DEF SpecInv
<1>3. Requests' /\ Entries' /\ JobType' /\ SelfType' /\ FeedbackType' /\
        PlanType'
  BY <1>1, <1>2 DEF Requests, Entries, JobType, SelfType, FeedbackType, PlanType
<1>4. TickType' /\ InboxType' /\ Counted' /\ Texts' /\ Cleared'
  BY <1>1, <1>2 DEF TickType, InboxType, Counted, Texts, Cleared
<1>5. Place'  BY <1>1, <1>2 DEF Place, Extend, States, Onward, Reviews, Waiting, Write
<1>6. Revisions'
  BY <1>1, <1>2, SpecAssumption DEF Revisions, Extend, SpecAssumption
<1>7. Tallies'  BY <1>1, <1>2 DEF Tallies, Extend, Write
<1>8. Running'  BY <1>1, <1>2 DEF Running, Extend, Revisions, Onward, Reviews, Waiting, Write
<1>9. Recorded'  BY <1>1, <1>2 DEF Recorded, Extend, OnRecord, Reviewing,
         Onward, Reviews, Waiting, Write
<1>10. Misses'  BY <1>1, <1>2 DEF Misses, Extend, Write, Onward, Reviews, Waiting
<1>11. Waiting' /\ Onward'
  BY <1>1, <1>2 DEF Waiting, Onward, Reviews, Place, Extend, Write, PlanStates
<1>12. QED
  BY <1>3, <1>4, <1>5, <1>6, <1>7, <1>8, <1>9, <1>10, <1>11 DEF SpecInv

LEMMA Reviewed ==
  ASSUME SpecInv, NEW r \in Reviewers, NEW v \in Verdicts, SubmitReview(r, v)
  PROVE  SpecInv'
<1>1. UNCHANGED <<state, from, opts, rev, limit, proposals, job, self,
        feedback, plan, busy, drafts, text, cleared, misses, tick, inbox,
        faults, cmds, mode, cli, allowed>>
  BY DEF SubmitReview
<1>2. Place /\ Revisions /\ Requests /\ Entries /\ JobType /\ SelfType /\
        FeedbackType /\ PlanType /\ TickType /\ InboxType /\ Tallies /\
        Waiting /\ Counted /\ Onward /\ Running /\ Texts /\ Cleared /\ Recorded /\ Misses
  BY DEF SpecInv
<1>3. Place' /\ Revisions' /\ JobType' /\ SelfType' /\ FeedbackType' /\
        PlanType'
  BY <1>1, <1>2 DEF Place, Revisions, JobType, SelfType, FeedbackType, PlanType
<1>4. TickType' /\ InboxType' /\ Tallies' /\ Counted' /\ Texts' /\ Cleared'
  BY <1>1, <1>2 DEF TickType, InboxType, Tallies, Counted, Texts, Cleared
<1>5. Misses'
  BY <1>1, <1>2 DEF Misses, Accounted
<1>6. Requests'  BY <1>1, <1>2 DEF Requests, SubmitReview, Statuses
<1>7. Entries'
  <2>1. PICK m \in inbox : given' = [given EXCEPT ![r] = [verdict |-> v, rev |-> m.rev]]
    BY DEF SubmitReview, Held
  <2>2. m.rev \in Nat  BY <1>2, <2>1 DEF InboxType, MessageRecord
  <2>3. entries' = [entries EXCEPT ![r] = v]  BY DEF SubmitReview
  <2>4. QED  BY <1>1, <1>2, <2>1, <2>2, <2>3 DEF Entries
<1>8. Running'  BY <1>1, <1>2 DEF Running, SubmitReview, Verdicts
<1>9. Recorded'
  BY <1>1, <1>2
     DEF Recorded, SubmitReview, OnRecord, Reviewing, Running, Entries,
         Requests, Revisions, Held
<1>10. Waiting' /\ Onward'  BY <1>1, <1>2 DEF Waiting, Onward
<1>11. QED
  BY <1>3, <1>4, <1>5, <1>6, <1>7, <1>8, <1>9, <1>10 DEF SpecInv

LEMMA Revised ==
  ASSUME SpecInv, NEW report \in Reports, SubmitRevise(report)
  PROVE  SpecInv'
<1>1. UNCHANGED <<state, from, opts, rev, limit, rr, entries, proposals,
        self, feedback, plan, busy, text, given, cleared, misses, tick, inbox,
        faults, cmds, mode, cli, allowed>>
  BY DEF SubmitRevise
<1>2. Place /\ Revisions /\ Requests /\ Entries /\ JobType /\ SelfType /\
        FeedbackType /\ PlanType /\ TickType /\ InboxType /\ Tallies /\
        Waiting /\ Counted /\ Onward /\ Running /\ Texts /\ Cleared /\ Recorded /\ Misses
  BY DEF SpecInv
<1>3. Place' /\ Revisions' /\ Requests' /\ Entries' /\ SelfType' /\
        FeedbackType'
  BY <1>1, <1>2 DEF Place, Revisions, Requests, Entries, SelfType, FeedbackType
<1>4. PlanType' /\ TickType' /\ InboxType' /\ Running' /\ Cleared' /\
        Recorded'
  BY <1>1, <1>2 DEF PlanType, TickType, InboxType, Running, Cleared, Recorded, OnRecord,
     Reviewing
<1>5. JobType'  BY <1>1, <1>2 DEF JobType, SubmitRevise, JobRecord
<1>6. Tallies'
  BY <1>1, <1>2, SpecAssumption DEF Tallies, SubmitRevise, SpecAssumption
<1>7. Counted'  BY <1>1, <1>2 DEF Counted, SubmitRevise
<1>8. Texts'
  BY <1>1, <1>2 DEF Texts, SubmitRevise, Tallies, SelfType, SelfRecord
<1>9. Misses'  BY <1>1, <1>2 DEF Misses, SubmitRevise, Accounted
<1>10. Waiting' /\ Onward'  BY <1>1, <1>2 DEF Waiting, Onward
<1>11. QED
  BY <1>3, <1>4, <1>5, <1>6, <1>7, <1>8, <1>9, <1>10 DEF SpecInv

LEMMA SelfReviewed ==
  ASSUME SpecInv, NEW answer \in Answers, SubmitSelf(answer)
  PROVE  SpecInv'
<1>1. UNCHANGED <<state, from, opts, rev, limit, rr, entries, proposals,
        job, feedback, plan, busy, drafts, text, given, misses, tick, inbox,
        faults, cmds, mode, cli, allowed>>
  BY DEF SubmitSelf
<1>2. Place /\ Revisions /\ Requests /\ Entries /\ JobType /\ SelfType /\
        FeedbackType /\ PlanType /\ TickType /\ InboxType /\ Tallies /\
        Waiting /\ Counted /\ Onward /\ Running /\ Texts /\ Cleared /\ Recorded /\ Misses
  BY DEF SpecInv
<1>3. Place' /\ Revisions' /\ Requests' /\ Entries' /\ JobType' /\
        FeedbackType'
  BY <1>1, <1>2 DEF Place, Revisions, Requests, Entries, JobType, FeedbackType
<1>4. PlanType' /\ TickType' /\ InboxType' /\ Counted' /\ Running' /\
        Recorded'
  BY <1>1, <1>2 DEF PlanType, TickType, InboxType, Counted, Running, Recorded, OnRecord,
     Reviewing
<1>5. Misses'
  BY <1>1, <1>2 DEF Misses, Accounted
<1>6. SelfType'  BY <1>1, <1>2 DEF SelfType, SubmitSelf, SelfRecord
<1>7. Tallies'
  <2>1. PICK m \in inbox : /\ m.what = "self"
                           /\ cleared' \subseteq cleared \cup {m.draft}
    BY DEF SubmitSelf, Held
  <2>2. m.draft \in 0..DraftBound  BY <1>2, <2>1 DEF InboxType, MessageRecord
  <2>3. QED  BY <1>1, <1>2, <2>1, <2>2 DEF Tallies
<1>8. Texts'  BY <1>1, <1>2 DEF Texts, SubmitSelf
<1>9. Cleared'  BY <1>1, <1>2 DEF Cleared, SubmitSelf, Texts, Tallies, Held
<1>10. Waiting' /\ Onward'  BY <1>1, <1>2 DEF Waiting, Onward
<1>11. QED
  BY <1>3, <1>4, <1>5, <1>6, <1>7, <1>8, <1>9, <1>10 DEF SpecInv

LEMMA Proposed ==
  ASSUME SpecInv, NEW r \in Reviewers, SubmitProposal(r)
  PROVE  SpecInv'
<1>1. UNCHANGED <<state, from, opts, rev, limit, rr, proposals, job, self,
        feedback, plan, busy, drafts, text, given, cleared, misses, tick,
        inbox, faults, cmds, mode, cli, allowed>>
  BY DEF SubmitProposal
<1>2. Place /\ Revisions /\ Requests /\ Entries /\ JobType /\ SelfType /\
        FeedbackType /\ PlanType /\ TickType /\ InboxType /\ Tallies /\
        Waiting /\ Counted /\ Onward /\ Running /\ Texts /\ Cleared /\ Recorded /\ Misses
  BY DEF SpecInv
<1>3. Place' /\ Revisions' /\ Requests' /\ JobType' /\ SelfType' /\
        FeedbackType'
  BY <1>1, <1>2 DEF Place, Revisions, Requests, JobType, SelfType, FeedbackType
<1>4. PlanType' /\ TickType' /\ InboxType' /\ Tallies' /\ Counted' /\ Texts'
  BY <1>1, <1>2 DEF PlanType, TickType, InboxType, Tallies, Counted, Texts
<1>5. Cleared' /\ Misses'
  BY <1>1, <1>2 DEF Cleared, Misses, Accounted
<1>6. Entries'  BY <1>1, <1>2 DEF Entries, SubmitProposal
<1>7. Running'  BY <1>1, <1>2 DEF Running, SubmitProposal
<1>8. Recorded'  BY <1>1, <1>2 DEF Recorded, SubmitProposal, Reviewing, Place,
         Onward, Reviews, Waiting
<1>9. Waiting' /\ Onward'  BY <1>1, <1>2 DEF Waiting, Onward
<1>10. QED
  BY <1>3, <1>4, <1>5, <1>6, <1>7, <1>8, <1>9 DEF SpecInv

LEMMA Planned ==
  ASSUME SpecInv, NEW p \in PlanStates, SubmitPlan(p)
  PROVE  SpecInv'
<1>1. UNCHANGED <<state, from, opts, rev, limit, rr, entries, proposals,
        job, self, feedback, busy, drafts, text, given, cleared, misses, tick,
        inbox, faults, cmds, mode, cli, allowed>>
  BY DEF SubmitPlan
<1>2. Place /\ Revisions /\ Requests /\ Entries /\ JobType /\ SelfType /\
        FeedbackType /\ PlanType /\ TickType /\ InboxType /\ Tallies /\
        Waiting /\ Counted /\ Onward /\ Running /\ Texts /\ Cleared /\ Recorded /\ Misses
  BY DEF SpecInv
<1>3. Place' /\ Revisions' /\ Requests' /\ Entries' /\ JobType' /\ SelfType'
  BY <1>1, <1>2 DEF Place, Revisions, Requests, Entries, JobType, SelfType
<1>4. FeedbackType' /\ TickType' /\ InboxType' /\ Tallies' /\ Running' /\
        Texts'
  BY <1>1, <1>2 DEF FeedbackType, TickType, InboxType, Tallies, Running, Texts
<1>5. Cleared' /\ Recorded' /\ Misses'
  BY <1>1, <1>2 DEF Cleared, Recorded, Misses, Accounted, OnRecord, Reviewing
<1>6. PlanType'
  <2>1. plan' = [plan EXCEPT ![p] = [plan[p] EXCEPT !.done = TRUE]]  BY DEF SubmitPlan
  <2>2. [plan[p] EXCEPT !.done = TRUE] \in PlanRecord  BY <1>2 DEF PlanType, PlanRecord
  <2>3. QED  BY <1>2, <2>1, <2>2 DEF PlanType
<1>7. Counted'  BY <1>1, <1>2 DEF Counted, SubmitPlan
<1>8. Waiting' /\ Onward'  BY <1>1, <1>2 DEF Waiting, Onward
<1>9. QED
  BY <1>3, <1>4, <1>5, <1>6, <1>7, <1>8 DEF SpecInv

LEMMA ReviewTicks ==
  ASSUME SpecInv, NEW late \in SUBSET Pending, ReviewTick(late)
  PROVE  SpecInv'
<1>1. UNCHANGED <<opts, rev, limit, proposals, job, self, feedback, plan,
        busy, drafts, text, given, cleared, misses, inbox, faults, cmds,
        mode, cli, allowed>>
  BY DEF ReviewTick
<1>2. Place /\ Revisions /\ Requests /\ Entries /\ JobType /\ SelfType /\
        FeedbackType /\ PlanType /\ TickType /\ InboxType /\ Tallies /\
        Waiting /\ Counted /\ Onward /\ Running /\ Texts /\ Cleared /\ Recorded /\ Misses
  BY DEF SpecInv
<1>3. late \subseteq DOMAIN rr /\ late \subseteq Reviewers
  BY <1>2 DEF Requests, Pending
<1>4. rr' = [r \in DOMAIN rr |->
              IF r \in late THEN [rr[r] EXCEPT !.status = "timeout"]
              ELSE IF r \in Unsent THEN [rr[r] EXCEPT !.sent = TRUE] ELSE rr[r]]
  BY DEF ReviewTick
<1>5. PICK es : es = [r \in Reviewers |-> IF r \in late THEN "timeout" ELSE entries[r]]
  OBVIOUS
<1>6. /\ state = "SPEC_REVIEW" /\ from = "none"
      /\ \/ state' = state /\ entries' = es /\ from' = from
         \/ /\ state' = Outcome(es)
            /\ entries' = IF state' = "SPEC_APPROVED" THEN NoEntries ELSE es
            /\ from' = IF state' = "SPEC_PAUSED" THEN state ELSE from
  BY <1>2, <1>5 DEF ReviewTick, Onward, Reviews, Pause
<1>7. \A r \in Reviewers : es[r] # "proposal"
  BY <1>2, <1>5, <1>6 DEF Running
<1>8. state' \in {"SPEC_REVIEW", "SPEC_REVIEW_FAILED", "SPEC_APPROVED", "SPEC_STALLED", "SPEC_REVISE"}
      /\ (state' = "SPEC_REVISE" => rev < limit)
  BY <1>2, <1>6, <1>7, SpecAssumption DEF Outcome, Revisions, SpecAssumption
<1>9. Revisions' /\ JobType' /\ SelfType' /\ FeedbackType' /\ PlanType' /\
        InboxType'
  BY <1>1, <1>2 DEF Revisions, JobType, SelfType, FeedbackType, PlanType, InboxType
<1>10. Tallies' /\ Texts' /\ Cleared'
  BY <1>1, <1>2 DEF Tallies, Texts, Cleared
<1>11. Place'  BY <1>1, <1>2 DEF Place, ReviewTick, States, Waits, Outcome
<1>12. Requests'
  <2>1. ASSUME NEW r \in DOMAIN rr PROVE rr'[r] \in [status : Statuses, sent : BOOLEAN]
    BY <1>2, <1>4 DEF Requests, Statuses
  <2>2. QED  BY <1>2, <1>4, <2>1 DEF Requests
<1>13. Entries'  BY <1>1, <1>2 DEF Entries, ReviewTick, NoEntries
<1>14. TickType'
  <2>1. Unsent \in SUBSET (Reviewers \cup {Impl}) /\ drafts \in 0..DraftBound
    BY <1>2 DEF Requests, Tallies, Unsent
  <2>2. Ask("review", Unsent, drafts)  BY DEF ReviewTick
  <2>3. "review" \in Sends /\ "review" \notin {"self", "draft"}  BY DEF Sends, Counters, PlanStates
  <2>4. QED  BY <1>2, <2>1, <2>2, <2>3, Asked
<1>15. Counted'
  BY <1>1, <1>2 DEF Counted, ReviewTick, PlanRecord, Place, PlanStates, Flags,
         Onward, Reviews, Waiting
<1>16. Running'
  <2>1. DOMAIN rr' = DOMAIN rr /\ from' = "none"  BY <1>4, <1>6, <1>8
  <2>2. QED  BY <1>1, <1>2, <1>5, <1>6, <1>7, <1>8, <2>1 DEF Running, NoEntries,
         Onward, Reviews, Waiting
<1>17. Recorded'
  <2>1. DOMAIN rr' = DOMAIN rr /\ from' = "none"  BY <1>4, <1>6, <1>8
  <2>2. \A r \in Reviewers : entries'[r] # "none" => r \in DOMAIN rr
    BY <1>2, <1>3, <1>5, <1>6 DEF Recorded, NoEntries
  <2>3. ASSUME "late" \notin allowed, Reviewing', NEW r \in DOMAIN rr PROVE OnRecord(r)'
    <3>1. OnRecord(r)  BY <1>2, <1>6, <2>3 DEF Recorded, Reviewing
    <3>2. entries' = es /\ r \in Reviewers  BY <1>2, <1>6, <1>8, <2>1, <2>3 DEF Reviewing, Requests
    <3>3. CASE r \in late
      <4>1. rr[r].status = "pending" /\ rr'[r].status = "timeout" /\ entries'[r] = "timeout"
        BY <1>2, <1>4, <1>5, <3>2, <3>3 DEF Pending, Requests
      <4>2. QED  BY <1>1, <3>1, <4>1 DEF OnRecord, Verdicts
    <3>4. CASE r \notin late
      <4>1. rr'[r].status = rr[r].status /\ entries'[r] = entries[r]
        BY <1>2, <1>4, <1>5, <3>2, <3>4 DEF Requests
      <4>2. QED  BY <1>1, <3>1, <4>1 DEF OnRecord
    <3>5. QED  BY <3>3, <3>4
  <2>4. QED  BY <1>1, <2>1, <2>2, <2>3 DEF Recorded
<1>18. Misses'
  BY <1>1, <1>2 DEF Misses, ReviewTick, Accounted, Idle, Off, Ask, Unsent
<1>19. Waiting' /\ Onward'
  BY <1>1, <1>2 DEF Waiting, Onward, Reviews, Place, ReviewTick, Outcome
<1>20. QED
  BY <1>9, <1>10, <1>11, <1>12, <1>13, <1>14, <1>15, <1>16, <1>17, <1>18, <1>19 DEF SpecInv

LEMMA CleanPasses ==
  ASSUME SpecInv, SelfClean
  PROVE  SpecInv'
<1>1. UNCHANGED <<from, opts, limit, proposals, plan, drafts, given,
        cleared, tick, inbox, faults, cmds, mode, cli, allowed>>
  BY DEF SelfClean
<1>2. Place /\ Revisions /\ Requests /\ Entries /\ JobType /\ SelfType /\
        FeedbackType /\ PlanType /\ TickType /\ InboxType /\ Tallies /\
        Waiting /\ Counted /\ Onward /\ Running /\ Texts /\ Cleared /\ Recorded /\ Misses
  BY DEF SpecInv
<1>3. PlanType' /\ TickType' /\ InboxType'
  BY <1>1, <1>2 DEF PlanType, TickType, InboxType
<1>4. Place'
  BY <1>1, <1>2 DEF Place, SelfClean, Running, States, Counters, Revising
<1>5. Revisions'  BY <1>1, <1>2 DEF Revisions, SelfClean, Running, Revising
<1>6. Requests'
  BY <1>1, <1>2 DEF Requests, SelfClean, Flags, Statuses, Carried, Unasked
<1>7. Entries'  BY <1>1, <1>2 DEF Entries, SelfClean, NoEntries
<1>8. JobType'
  <2>1. NoJob \in JobRecord /\ job.retries \in 0..MaxRetries + 1
    BY <1>2, SpecAssumption DEF NoJob, JobType, JobRecord, SpecAssumption
  <2>2. job' = [NoJob EXCEPT !.retries = job.retries]  BY DEF SelfClean
  <2>3. QED  BY <2>1, <2>2 DEF JobType, JobRecord
<1>9. SelfType'
  BY <1>1, <1>2, SpecAssumption
     DEF SelfType, SelfClean, SelfRecord, SpecAssumption, Revising, NoSelf
<1>10. FeedbackType'
  BY <1>1, <1>2, SpecAssumption
     DEF FeedbackType, SelfClean, FeedbackRecord, SpecAssumption, NoJob,
         NoFeedback
<1>11. Tallies'
  <2>1. text' = self.draft /\ busy' = {} /\ misses' = NoMisses  BY DEF SelfClean
  <2>2. self.draft \in 0..DraftBound /\ NoMisses \in [Counters -> Nat]
    BY <1>2 DEF SelfType, SelfRecord, NoMisses
  <2>3. QED  BY <1>1, <1>2, <2>1, <2>2 DEF Tallies
<1>12. Counted'  BY <1>1, <1>2 DEF Counted, SelfClean
<1>13. Running'
  BY <1>1, <1>2
     DEF Running, SelfClean, Place, Revisions, Revising, Branch, NoEntries,
         Carried, Unasked
<1>14. Texts'  BY <1>1, <1>2 DEF Texts, SelfClean, Tallies, NoSelf, NoJob
<1>15. Cleared'  BY <1>1, <1>2 DEF Cleared, SelfClean, NoSelf
<1>16. Recorded'
  <2>1. /\ state = "SPEC_REVISE" /\ rev' = rev + 1 /\ entries' = NoEntries
        /\ rr' = [r \in DOMAIN rr |-> Carried(r)]
    BY DEF SelfClean, Revising
  <2>2. ASSUME "late" \notin allowed, NEW r \in DOMAIN rr PROVE OnRecord(r)'
    <3>1. OnRecord(r) /\ r \in Reviewers
      BY <1>2, <2>1, <2>2 DEF Recorded, Reviewing, Requests
    <3>2. rev \in Nat /\ given[r].rev \in Nat
      BY <1>2, <3>1, SpecAssumption DEF Revisions, Entries, SpecAssumption
    <3>3. entries'[r] = "none" /\ given'[r].rev < rev'
      BY <1>1, <2>1, <3>1, <3>2 DEF NoEntries, OnRecord
    <3>4. rr'[r].status = "approved_prior" => entries[r] = "APPROVE"
      BY <2>1 DEF Carried, Unasked
    <3>5. rr'[r].status = "approved_prior" => given'[r].verdict = "APPROVE" /\ given'[r].rev = rev
      BY <1>1, <3>1, <3>4 DEF OnRecord, Verdicts
    <3>6. given'[r].rev \in Nat /\ rev' \in Nat /\ rev' - 1 = rev /\ entries'[r] \notin Verdicts
      BY <1>1, <2>1, <3>2, <3>3 DEF Verdicts
    <3>7. given'[r].rev <= rev' /\ given'[r].rev # rev'  BY <3>3, <3>6
    <3>8. rr'[r].status = "approved_prior" =>
            given'[r].verdict = "APPROVE" /\ given'[r].rev >= rev' - 1
      <4>1. HAVE rr'[r].status = "approved_prior"
      <4>2. given'[r].verdict = "APPROVE" /\ given'[r].rev = rev  BY <3>5, <4>1
      <4>3. rev' = rev + 1 /\ rev \in Nat  BY <2>1, <3>2
      <4>4. rev >= rev' - 1  BY <4>3
      <4>5. QED  BY <4>2, <4>4
    <3>9. QED  BY <3>6, <3>7, <3>8 DEF OnRecord
  <2>3. QED  BY <1>1, <2>1, <2>2 DEF Recorded, NoEntries
<1>17. Misses'
  BY <1>1, <1>2
     DEF Misses, SelfClean, Accounted, Tallies, JobType, Answers, Sends,
         Counters, Revising, Branch, Idle, Off, Pause, Ask, NoSelf, NoJob,
         NoFeedback, NoMisses, NoEntries, Carried, Unasked
<1>18. Waiting' /\ Onward'
  BY <1>1, <1>2 DEF Waiting, Onward, Reviews, Place, SelfClean, Revising, Pause
<1>19. QED
  BY <1>3, <1>4, <1>5, <1>6, <1>7, <1>8, <1>9, <1>10, <1>11, <1>12, <1>13,
     <1>14, <1>15, <1>16, <1>17, <1>18 DEF SpecInv

LEMMA IssuesReturn ==
  ASSUME SpecInv, SelfIssues
  PROVE  SpecInv'
<1>1. UNCHANGED <<state, from, opts, rev, limit, rr, entries, proposals,
        feedback, plan, busy, drafts, text, given, cleared, inbox, faults,
        cmds, mode, cli, allowed>>
  BY DEF SelfIssues
<1>2. Place /\ Revisions /\ Requests /\ Entries /\ JobType /\ SelfType /\
        FeedbackType /\ PlanType /\ TickType /\ InboxType /\ Tallies /\
        Waiting /\ Counted /\ Onward /\ Running /\ Texts /\ Cleared /\ Recorded /\ Misses
  BY DEF SpecInv
<1>3. Place' /\ Revisions' /\ Requests' /\ Entries' /\ FeedbackType' /\
        PlanType'
  BY <1>1, <1>2 DEF Place, Revisions, Requests, Entries, FeedbackType, PlanType
<1>4. InboxType' /\ Running' /\ Recorded'
  BY <1>1, <1>2 DEF InboxType, Running, Recorded, OnRecord, Reviewing
<1>5. JobType'  BY <1>1, <1>2 DEF JobType, SelfIssues, JobRecord
<1>6. SelfType'
  BY <1>1, <1>2, SpecAssumption
     DEF SelfType, SelfIssues, SelfRecord, SpecAssumption, NoSelf
<1>7. TickType'
  BY <1>1, <1>2, SpecAssumption
     DEF TickType, SelfIssues, TickRecord, Ask, Off, Revisions, Tallies,
         Texts, SpecAssumption, States, Waits, Sends, Counters, Revising,
         Branch
<1>8. Tallies'  BY <1>1, <1>2 DEF Tallies, SelfIssues
<1>9. Counted'  BY <1>1, <1>2 DEF Counted, SelfIssues
<1>10. Texts'  BY <1>1, <1>2 DEF Texts, SelfIssues, Tallies, Ask, NoSelf
<1>11. Cleared'  BY <1>1, <1>2 DEF Cleared, SelfIssues, NoSelf
<1>12. Misses'
  BY <1>1, <1>2
     DEF Misses, SelfIssues, Accounted, Tallies, TickRecord, Revising, Branch,
         Idle, Off, Pause, Ask
<1>13. Waiting' /\ Onward'  BY <1>1, <1>2 DEF Waiting, Onward
<1>14. QED
  BY <1>3, <1>4, <1>5, <1>6, <1>7, <1>8, <1>9, <1>10, <1>11, <1>12, <1>13 DEF SpecInv

LEMMA SelfRepeats ==
  ASSUME SpecInv, Revising("answered") \/ Revising("reviewing"), SelfFails
  PROVE  SpecInv'
<1>1. UNCHANGED <<opts, rev, limit, rr, entries, proposals, job, feedback,
        plan, drafts, text, given, cleared, inbox, faults, cmds, mode, cli, allowed>>
  BY DEF SelfFails
<1>2. Place /\ Revisions /\ Requests /\ Entries /\ JobType /\ SelfType /\
        FeedbackType /\ PlanType /\ TickType /\ InboxType /\ Tallies /\
        Waiting /\ Counted /\ Onward /\ Running /\ Texts /\ Cleared /\ Recorded /\ Misses
  BY DEF SpecInv
<1>3. self.draft # 0 /\ self \in SelfRecord /\ state = "SPEC_REVISE"
  BY <1>2 DEF SelfType, Revising, Branch
<1>4. \/ self' = [NoSelf EXCEPT !.draft = self.draft, !.about = self.about] /\ tick' = Off
      \/ /\ self.pass + 1 < Passes
         /\ self' = [self EXCEPT !.sent = TRUE, !.answer = "none", !.pass = @ + 1,
                                 !.about = text]
         /\ Ask("self", {Impl}, text)
  BY <1>3, SpecAssumption DEF SelfFails, SelfRecord, SpecAssumption
<1>5. /\ self' \in SelfRecord /\ self'.draft = self.draft /\ self'.answer = "none"
      /\ self'.about \in {text, self.about}
  <2>1. self.draft \in 0..DraftBound /\ self.pass \in Nat /\ Passes \in Nat
    BY <1>3, SpecAssumption DEF SelfRecord, SpecAssumption
  <2>2. CASE self' = [NoSelf EXCEPT !.draft = self.draft, !.about = self.about]
    <3>1. self.about \in 0..DraftBound  BY <1>3 DEF SelfRecord
    <3>2. QED  BY <2>1, <2>2, <3>1, NewSelf DEF NoSelf
  <2>3. CASE /\ self.pass + 1 < Passes
             /\ self' = [self EXCEPT !.sent = TRUE, !.answer = "none", !.pass = @ + 1,
                                     !.about = text]
    <3>1. self.pass + 1 \in 0..Passes /\ text \in 0..DraftBound  BY <1>2, <2>1, <2>3 DEF Tallies
    <3>2. QED  BY <1>3, <2>3, <3>1 DEF SelfRecord
  <2>4. QED  BY <1>4, <2>2, <2>3
<1>6. Off \in TickRecord /\ Off.what = "none" /\ "self" \in Sends
  BY SpecAssumption DEF Off, TickRecord, Sends, Counters, SpecAssumption
<1>7. Revisions' /\ Requests' /\ Entries' /\ JobType' /\ FeedbackType' /\
        PlanType'
  BY <1>1, <1>2 DEF Revisions, Requests, Entries, JobType, FeedbackType, PlanType
<1>8. InboxType'
  BY <1>1, <1>2 DEF InboxType
<1>9. Place'
  BY <1>1, <1>2 DEF Place, SelfFails, States, Waits, Revising, Off, Pause
<1>10. SelfType'
  BY <1>3, <1>5 DEF SelfType
<1>11. TickType'
  <2>1. text \in 0..DraftBound  BY <1>2 DEF Tallies
  <2>2. CASE tick' = Off  BY <1>6, <2>2 DEF TickType
  <2>3. CASE Ask("self", {Impl}, text)  BY <1>2, <1>3, <1>6, <2>1, <2>3, Asked
  <2>4. QED  BY <1>4, <2>2, <2>3
<1>12. Tallies'  BY <1>1, <1>2 DEF Tallies, SelfFails
<1>13. Counted'
  BY <1>1, <1>2
     DEF Counted, SelfFails, PlanRecord, Place, States, Waits, PlanStates,
         Flags, Revising, Branch, Idle, Off, Onward, Reviews, Waiting
<1>14. Running'  BY <1>1, <1>2 DEF Running, SelfFails, Revising, Pause,
         Onward, Reviews, Waiting
<1>15. Texts'
  BY <1>1, <1>2, <1>3, <1>5 DEF Texts, SelfRecord, Tallies, JobType, JobRecord
<1>16. Cleared'
  BY <1>1, <1>2, <1>5 DEF Cleared
<1>17. Recorded'
  BY <1>1, <1>2 DEF Recorded, SelfFails, OnRecord, Reviewing, Pause, Ask
<1>18. Misses'
  BY <1>1, <1>2
     DEF Misses, SelfFails, Accounted, Tallies, JobType, Reports, Answers,
         Sends, Counters, Revising, Branch, Idle, Off, Pause, Ask, NoSelf
<1>19. Waiting' /\ Onward'
  BY <1>1, <1>2 DEF Waiting, Onward, Reviews, Place, SelfFails, Revising, Pause
<1>20. QED
  BY <1>7, <1>8, <1>9, <1>10, <1>11, <1>12, <1>13, <1>14, <1>15, <1>16, <1>17,
     <1>18, <1>19 DEF SpecInv

LEMMA FeedbackSent ==
  ASSUME SpecInv, SendFeedback
  PROVE  SpecInv'
<1>1. UNCHANGED <<opts, rev, limit, rr, entries, proposals, job, self, plan,
        drafts, text, given, cleared, inbox, faults, cmds, mode, cli, allowed>>
  BY DEF SendFeedback
<1>2. Place /\ Revisions /\ Requests /\ Entries /\ JobType /\ SelfType /\
        FeedbackType /\ PlanType /\ TickType /\ InboxType /\ Tallies /\
        Waiting /\ Counted /\ Onward /\ Running /\ Texts /\ Cleared /\ Recorded /\ Misses
  BY DEF SpecInv
<1>3. Revisions' /\ Requests' /\ Entries' /\ JobType' /\ SelfType' /\
        PlanType'
  BY <1>1, <1>2 DEF Revisions, Requests, Entries, JobType, SelfType, PlanType
<1>4. InboxType' /\ Texts' /\ Cleared'
  BY <1>1, <1>2 DEF InboxType, Texts, Cleared
<1>5. Place'
  BY <1>1, <1>2 DEF Place, SendFeedback, States, Waits, Revising, Off, Pause
<1>6. FeedbackType'
  BY <1>1, <1>2, SpecAssumption
     DEF FeedbackType, SendFeedback, FeedbackRecord, SpecAssumption
<1>7. TickType'
  <2>1. drafts \in 0..DraftBound /\ "feedback" \in Sends
    BY <1>2 DEF Tallies, Sends, Counters
  <2>2. Off \in TickRecord /\ Off.what = "none"
    BY SpecAssumption DEF Off, TickRecord, Sends, SpecAssumption
  <2>3. tick' = Off \/ Ask("feedback", {Impl}, drafts)  BY DEF SendFeedback
  <2>4. CASE tick' = Off  BY <2>2, <2>4 DEF TickType
  <2>5. CASE Ask("feedback", {Impl}, drafts)  BY <1>2, <2>1, <2>5, Asked
  <2>6. QED  BY <2>3, <2>4, <2>5
<1>8. Tallies'
  <2>1. busy' \subseteq busy /\ (misses' = misses \/ misses' = [misses EXCEPT !["feedback"] = 0])
    BY DEF SendFeedback
  <2>2. QED  BY <1>1, <1>2, <2>1 DEF Tallies, Counters
<1>9. Counted'
  BY <1>1, <1>2
     DEF Counted, SendFeedback, PlanRecord, Place, States, Waits, PlanStates,
         Flags, Revising, Branch, Idle, Off, Onward, Reviews, Waiting
<1>10. Running'  BY <1>1, <1>2 DEF Running, SendFeedback, Revising, Pause,
         Onward, Reviews, Waiting
<1>11. Recorded'
  BY <1>1, <1>2 DEF Recorded, SendFeedback, OnRecord, Reviewing, Pause, Ask
<1>12. Misses'
  BY <1>1, <1>2
     DEF Misses, SendFeedback, Accounted, Tallies, JobType, JobRecord,
         FeedbackType, FeedbackRecord, TickType, Reports, Answers, Sends,
         Counters, Revising, Branch, Idle, Off, Pause, Ask, NoSelf
<1>13. Waiting' /\ Onward'
  BY <1>1, <1>2 DEF Waiting, Onward, Reviews, Place, SendFeedback, Revising, Pause
<1>14. QED
  BY <1>3, <1>4, <1>5, <1>6, <1>7, <1>8, <1>9, <1>10, <1>11, <1>12, <1>13 DEF SpecInv

LEMMA SelfSent ==
  ASSUME SpecInv, SendSelf
  PROVE  SpecInv'
<1>1. UNCHANGED <<opts, rev, limit, rr, entries, proposals, job, feedback,
        plan, drafts, text, given, cleared, inbox, faults, cmds, mode, cli, allowed>>
  BY DEF SendSelf
<1>2. Place /\ Revisions /\ Requests /\ Entries /\ JobType /\ SelfType /\
        FeedbackType /\ PlanType /\ TickType /\ InboxType /\ Tallies /\
        Waiting /\ Counted /\ Onward /\ Running /\ Texts /\ Cleared /\ Recorded /\ Misses
  BY DEF SpecInv
<1>3. self.draft # 0 /\ ~self.sent /\ self.answer = "none" /\ self \in SelfRecord
  <2>1. Branch = "unsent" /\ self \in SelfRecord  BY <1>2 DEF SendSelf, Revising, SelfType
  <2>2. QED  BY <2>1 DEF Branch, SelfRecord
<1>4. \/ self' = NoSelf /\ tick' = Off
      \/ /\ self.pass < Passes
         /\ self' = [self EXCEPT !.sent = TRUE, !.pass = @ + 1, !.about = self.draft]
         /\ Ask("self", {Impl}, self.draft)
  BY <1>3, SpecAssumption DEF SendSelf, SelfRecord, SpecAssumption
<1>5. /\ self' \in SelfRecord /\ self'.answer = "none"
      /\ self'.about = self'.draft
      /\ \/ self'.draft = self.draft
         \/ self'.draft = 0 /\ ~self'.sent
  <2>1. NoSelf \in SelfRecord /\ NoSelf.answer = "none" /\ NoSelf.draft = 0 /\ ~NoSelf.sent /\ NoSelf.about = 0
    BY SpecAssumption DEF NoSelf, SelfRecord, SpecAssumption
  <2>2. self.pass \in Nat /\ Passes \in Nat
    BY <1>3, SpecAssumption DEF SelfRecord, SpecAssumption
  <2>3. CASE self' = NoSelf  BY <2>1, <2>3
  <2>4. CASE self.pass < Passes
                              /\ self' = [self EXCEPT !.sent = TRUE, !.pass = @ + 1,
                                                      !.about = self.draft]
    <3>1. self.pass + 1 \in 0..Passes  BY <2>2, <2>4
    <3>2. self' = [self EXCEPT !.sent = TRUE, !.pass = self.pass + 1, !.about = self.draft]
      BY <2>4
    <3>3. self' \in SelfRecord  BY <1>3, <3>1, <3>2 DEF SelfRecord
    <3>4. self'.draft = self.draft /\ self'.answer = "none" /\ self'.about = self.draft
      BY <1>3, <3>2 DEF SelfRecord
    <3>5. QED  BY <3>3, <3>4
  <2>5. QED  BY <1>4, <2>3, <2>4
<1>6. Off \in TickRecord /\ Off.what = "none" /\ "self" \in Sends
  BY SpecAssumption DEF Off, TickRecord, Sends, Counters, SpecAssumption
<1>7. Revisions' /\ Requests' /\ Entries' /\ JobType' /\ FeedbackType' /\
        PlanType'
  BY <1>1, <1>2 DEF Revisions, Requests, Entries, JobType, FeedbackType, PlanType
<1>8. InboxType'
  BY <1>1, <1>2 DEF InboxType
<1>9. Place'
  BY <1>1, <1>2 DEF Place, SendSelf, States, Waits, Revising, Off, Pause
<1>10. SelfType'
  BY <1>3, <1>5 DEF SelfType
<1>11. TickType'
  <2>1. self.draft \in 0..DraftBound  BY <1>3 DEF SelfRecord
  <2>2. CASE tick' = Off  BY <1>6, <2>2 DEF TickType
  <2>3. CASE Ask("self", {Impl}, self.draft)  BY <1>2, <1>3, <1>6, <2>1, <2>3, Asked
  <2>4. QED  BY <1>4, <2>2, <2>3
<1>12. Tallies'  BY <1>1, <1>2 DEF Tallies, SendSelf
<1>13. Counted'
  BY <1>1, <1>2
     DEF Counted, SendSelf, PlanRecord, Place, States, Waits, PlanStates,
         Flags, Revising, Branch, Idle, Off, Onward, Reviews, Waiting
<1>14. Running'  BY <1>1, <1>2 DEF Running, SendSelf, Revising, Pause, Onward, Reviews, Waiting
<1>15. Texts'
  BY <1>1, <1>2, <1>3, <1>5 DEF Texts, SelfRecord, Tallies, JobType, JobRecord
<1>16. Cleared'
  BY <1>1, <1>2, <1>5 DEF Cleared
<1>17. Recorded'
  BY <1>1, <1>2 DEF Recorded, SendSelf, OnRecord, Reviewing, Pause, Ask
<1>18. Misses'
  BY <1>1, <1>2
     DEF Misses, SendSelf, Accounted, Tallies, JobType, Reports, Answers,
         Sends, Counters, Revising, Branch, Idle, Off, Pause, Ask, NoSelf
<1>19. Waiting' /\ Onward'
  BY <1>1, <1>2 DEF Waiting, Onward, Reviews, Place, SendSelf, Revising, Pause
<1>20. QED
  BY <1>7, <1>8, <1>9, <1>10, <1>11, <1>12, <1>13, <1>14, <1>15, <1>16, <1>17,
     <1>18, <1>19 DEF SpecInv

LEMMA ReportRead ==
  ASSUME SpecInv, Reported
  PROVE  SpecInv'
<1>1. UNCHANGED <<opts, rev, limit, rr, entries, proposals, feedback, plan,
        busy, drafts, text, given, cleared, inbox, faults, cmds, mode, cli, allowed>>
  BY DEF Reported
<1>2. Place /\ Revisions /\ Requests /\ Entries /\ JobType /\ SelfType /\
        FeedbackType /\ PlanType /\ TickType /\ InboxType /\ Tallies /\
        Waiting /\ Counted /\ Onward /\ Running /\ Texts /\ Cleared /\ Recorded /\ Misses
  BY DEF SpecInv
<1>3. /\ job.report # "none" /\ job' = [job EXCEPT !.report = "none"]
      /\ self.answer = "none" /\ self.draft = 0 /\ ~self.sent
  <2>1. Branch = "reported" /\ self \in SelfRecord  BY <1>2 DEF Reported, Revising, SelfType
  <2>2. job' = [job EXCEPT !.report = "none"]  BY DEF Reported
  <2>3. job.report # "none" /\ self.answer = "none" /\ self.draft = 0  BY <2>1 DEF Branch
  <2>4. QED  BY <1>2, <2>2, <2>3 DEF SelfType
<1>4. job' \in JobRecord /\ job'.retries = job.retries /\ job'.report = "none"
      /\ job'.tries = job.tries /\ job'.sent = job.sent
  BY <1>2, <1>3 DEF JobType, JobRecord
<1>5. drafts # 0 /\ drafts \in 0..DraftBound
  BY <1>2, <1>3 DEF Texts, Tallies
<1>6. \/ self' = self /\ tick' = Off
      \/ self' = [NoSelf EXCEPT !.sent = TRUE, !.draft = drafts, !.about = drafts] /\ Ask("draft", {Impl}, drafts)
  BY DEF Reported
<1>7. /\ self' \in SelfRecord /\ self'.answer = "none"
      /\ self' = self \/ self'.about = self'.draft
      /\ \/ self'.draft = drafts
         \/ self'.draft = 0 /\ ~self'.sent
  <2>1. CASE self' = self  BY <1>2, <1>3, <2>1 DEF SelfType
  <2>2. CASE self' = [NoSelf EXCEPT !.sent = TRUE, !.draft = drafts, !.about = drafts]
    <3>1. self' \in SelfRecord  BY <1>5, <2>2, NewSelf
    <3>2. self'.answer = "none" /\ self'.draft = drafts /\ self'.about = drafts  BY <2>2 DEF NoSelf
    <3>3. QED  BY <3>1, <3>2
  <2>3. QED  BY <1>6, <2>1, <2>2
<1>8. Off \in TickRecord /\ Off.what = "none" /\ "draft" \in Sends
  BY SpecAssumption DEF Off, TickRecord, Sends, SpecAssumption
<1>9. Revisions' /\ Requests' /\ Entries' /\ FeedbackType' /\ PlanType' /\
        InboxType'
  BY <1>1, <1>2 DEF Revisions, Requests, Entries, FeedbackType, PlanType, InboxType
<1>10. Place'
  BY <1>1, <1>2 DEF Place, Reported, States, Waits, Revising, Off, Pause
<1>11. JobType'
  BY <1>4 DEF JobType
<1>12. SelfType'
  BY <1>5, <1>7 DEF SelfType
<1>13. TickType'
  <2>1. CASE tick' = Off  BY <1>8, <2>1 DEF TickType
  <2>2. CASE Ask("draft", {Impl}, drafts)  BY <1>2, <1>5, <1>8, <2>2, Asked
  <2>3. QED  BY <1>6, <2>1, <2>2
<1>14. Tallies'  BY <1>1, <1>2 DEF Tallies, Reported
<1>15. Counted'
  BY <1>1, <1>2
     DEF Counted, Reported, PlanRecord, Place, States, Waits, PlanStates,
         Flags, Revising, Branch, Idle, Off, Onward, Reviews, Waiting
<1>16. Running'  BY <1>1, <1>2 DEF Running, Reported, Revising, Pause, Onward, Reviews, Waiting
<1>17. Texts'
  BY <1>1, <1>2, <1>4, <1>5, <1>7 DEF Texts, Tallies
<1>18. Cleared'
  BY <1>1, <1>2, <1>7 DEF Cleared
<1>19. Recorded'
  BY <1>1, <1>2 DEF Recorded, Reported, OnRecord, Reviewing, Pause, Ask
<1>20. Misses'
  BY <1>1, <1>2
     DEF Misses, Reported, Accounted, Tallies, JobType, Reports, Answers,
         Sends, Counters, Revising, Branch, Idle, Off, Pause, Ask, NoSelf
<1>21. Waiting' /\ Onward'
  BY <1>1, <1>2 DEF Waiting, Onward, Reviews, Place, Reported, Revising, Pause
<1>22. QED
  BY <1>9, <1>10, <1>11, <1>12, <1>13, <1>14, <1>15, <1>16, <1>17, <1>18,
     <1>19, <1>20, <1>21 DEF SpecInv

LEMMA RevisionAsked ==
  ASSUME SpecInv, AskRevise
  PROVE  SpecInv'
<1>1. UNCHANGED <<opts, rev, limit, rr, entries, proposals, self, feedback,
        plan, drafts, text, given, cleared, inbox, faults, cmds, mode, cli, allowed>>
  BY DEF AskRevise
<1>2. Place /\ Revisions /\ Requests /\ Entries /\ JobType /\ SelfType /\
        FeedbackType /\ PlanType /\ TickType /\ InboxType /\ Tallies /\
        Waiting /\ Counted /\ Onward /\ Running /\ Texts /\ Cleared /\ Recorded /\ Misses
  BY DEF SpecInv
<1>3. job \in JobRecord /\ job.report = "none"
  <2>1. Branch = "unasked" /\ job \in JobRecord  BY <1>2 DEF AskRevise, Revising, JobType
  <2>2. QED  BY <2>1 DEF Branch
<1>4. \/ job' = [job EXCEPT !.tries = 0] /\ tick' = Off /\ misses' = [misses EXCEPT !["revise"] = 0]
      \/ /\ job.tries < MaxRetries /\ misses' = misses
         /\ job' = [job EXCEPT !.sent = TRUE, !.tries = @ + 1]
         /\ Ask("revise", {Impl}, drafts)
  BY <1>3, SpecAssumption DEF AskRevise, JobRecord, SpecAssumption
<1>5. /\ job' \in JobRecord /\ job'.retries = job.retries /\ job'.report = "none"
      /\ \/ job'.tries = 0 /\ tick' = Off
         \/ job'.tries = job.tries + 1 /\ job'.sent /\ Ask("revise", {Impl}, drafts)
  <2>1. job.tries \in Nat /\ MaxRetries \in Nat
    BY <1>3, SpecAssumption DEF JobRecord, SpecAssumption
  <2>2. CASE job' = [job EXCEPT !.tries = 0] /\ tick' = Off
    BY <1>3, <2>1, <2>2 DEF JobRecord
  <2>3. CASE /\ job.tries < MaxRetries /\ Ask("revise", {Impl}, drafts)
             /\ job' = [job EXCEPT !.sent = TRUE, !.tries = @ + 1]
    <3>1. job.tries + 1 \in 0..MaxRetries  BY <2>1, <2>3
    <3>2. QED  BY <1>3, <2>3, <3>1 DEF JobRecord
  <2>4. QED  BY <1>4, <2>2, <2>3
<1>6. Off \in TickRecord /\ Off.what = "none" /\ "revise" \in Sends
  BY SpecAssumption DEF Off, TickRecord, Sends, Counters, SpecAssumption
<1>7. drafts \in 0..DraftBound  BY <1>2 DEF Tallies
<1>8. Ask("revise", {Impl}, drafts) => TickType' /\ tick'.what = "revise"
  BY <1>2, <1>6, <1>7, Asked DEF Ask
<1>9. Revisions' /\ Requests' /\ Entries' /\ SelfType' /\ FeedbackType' /\
        PlanType'
  BY <1>1, <1>2 DEF Revisions, Requests, Entries, SelfType, FeedbackType, PlanType
<1>10. InboxType' /\ Cleared'
  BY <1>1, <1>2 DEF InboxType, Cleared
<1>11. Place'
  BY <1>1, <1>2 DEF Place, AskRevise, States, Waits, Revising, Off, Pause
<1>12. JobType'
  BY <1>5 DEF JobType
<1>13. TickType'
  BY <1>5, <1>6, <1>8 DEF TickType
<1>14. Tallies'  BY <1>1, <1>2 DEF Tallies, AskRevise
<1>15. Counted'
  <2>1. from' = from \/ (from' = "SPEC_REVISE" /\ from = "none")
    BY <1>2 DEF AskRevise, Pause, Revising, Onward, Reviews
  <2>2. QED  BY <1>1, <1>2, <1>5, <2>1 DEF Counted, PlanStates
<1>16. Running'  BY <1>1, <1>2 DEF Running, AskRevise, Revising, Pause,
         Onward, Reviews, Waiting
<1>17. Texts'
  BY <1>1, <1>2, <1>5 DEF Texts
<1>18. Recorded'
  BY <1>1, <1>2 DEF Recorded, AskRevise, OnRecord, Reviewing, Pause, Ask
<1>19. Misses'
  <2>1. tick = Off /\ job.tries \in Nat /\ misses \in [Counters -> Nat]
    BY <1>2, <1>3 DEF AskRevise, Revising, Idle, JobRecord, Tallies
  <2>2. state' # "IDLE"  BY DEF AskRevise, Pause, Revising
  <2>3. CASE allowed \cap {"crash", "owner"} = {}
    <3>1. job.tries <= misses["revise"] /\ feedback.tries <= misses["feedback"]
      BY <1>2, <1>6, <2>1, <2>3 DEF Misses, Accounted
    <3>2. misses'["feedback"] = misses["feedback"]  BY <1>4, <2>1 DEF Counters
    <3>3. CASE job'.tries = 0 /\ tick' = Off
      BY <1>1, <1>4, <1>6, <2>1, <2>2, <3>1, <3>2, <3>3 DEF Misses, Accounted, Counters
    <3>4. CASE job'.tries = job.tries + 1 /\ job'.sent /\ Ask("revise", {Impl}, drafts)
      <4>1. /\ tick'.what = "revise"
            /\ misses' = misses \/ misses' = [misses EXCEPT !["revise"] = 0]
        BY <1>4, <1>8, <3>4
      <4>2. misses' = misses
        BY <1>3, <1>4, <1>6, <1>8, <3>4 DEF JobRecord
      <4>3. QED
        BY <1>1, <1>8, <2>1, <2>2, <3>1, <3>4, <4>2 DEF Misses, Accounted, Counters
    <3>5. QED  BY <1>5, <3>3, <3>4
  <2>4. QED  BY <1>1, <2>3 DEF Misses
<1>20. Waiting' /\ Onward'
  BY <1>1, <1>2 DEF Waiting, Onward, Reviews, Place, AskRevise, Revising, Pause
<1>21. QED
  BY <1>9, <1>10, <1>11, <1>12, <1>13, <1>14, <1>15, <1>16, <1>17, <1>18,
     <1>19, <1>20 DEF SpecInv

LEMMA RevisionLate ==
  ASSUME SpecInv, ReviseLate
  PROVE  SpecInv'
<1>1. UNCHANGED <<opts, rev, limit, rr, entries, proposals, self, feedback,
        plan, busy, drafts, text, given, cleared, misses, tick, inbox, faults,
        cmds, mode, cli, allowed>>
  BY DEF ReviseLate
<1>2. Place /\ Revisions /\ Requests /\ Entries /\ JobType /\ SelfType /\
        FeedbackType /\ PlanType /\ TickType /\ InboxType /\ Tallies /\
        Waiting /\ Counted /\ Onward /\ Running /\ Texts /\ Cleared /\ Recorded /\ Misses
  BY DEF SpecInv
<1>3. Revisions' /\ Requests' /\ Entries' /\ SelfType' /\ FeedbackType' /\
        PlanType'
  BY <1>1, <1>2 DEF Revisions, Requests, Entries, SelfType, FeedbackType, PlanType
<1>4. TickType' /\ InboxType' /\ Tallies' /\ Cleared'
  BY <1>1, <1>2 DEF TickType, InboxType, Tallies, Cleared
<1>5. Place'
  BY <1>1, <1>2 DEF Place, ReviseLate, States, Waits, Revising, Off, Pause
<1>6. JobType'
  <2>1. job \in JobRecord /\ job.retries + 1 \in 0..MaxRetries + 1
    BY <1>2, SpecAssumption DEF JobType, JobRecord, Counted, ReviseLate, Revising, Onward, Reviews, SpecAssumption
  <2>2. job' = [job EXCEPT !.retries = job.retries + 1]  BY DEF ReviseLate
  <2>3. QED  BY <2>1, <2>2 DEF JobType, JobRecord
<1>7. Counted'
  BY <1>1, <1>2, SpecAssumption
     DEF Counted, ReviseLate, JobRecord, JobType, PlanType, PlanRecord, Place,
         SpecAssumption, States, Waits, PlanStates, Answers, Sends, Counters,
         Revising, Branch, Idle, Off, Pause, Ask
<1>8. Running'  BY <1>1, <1>2 DEF Running, ReviseLate, Revising, Pause,
         Onward, Reviews, Waiting
<1>9. Texts'  BY <1>1, <1>2 DEF Texts, ReviseLate
<1>10. Recorded'
  BY <1>1, <1>2 DEF Recorded, ReviseLate, OnRecord, Reviewing, Pause, Ask
<1>11. Misses'  BY <1>1, <1>2 DEF Misses, ReviseLate, Accounted, Pause, Ask
<1>12. Waiting' /\ Onward'
  BY <1>1, <1>2 DEF Waiting, Onward, Reviews, Place, ReviseLate, Revising, Pause
<1>13. QED
  BY <1>3, <1>4, <1>5, <1>6, <1>7, <1>8, <1>9, <1>10, <1>11, <1>12 DEF SpecInv

LEMMA ApprovedLeft ==
  ASSUME SpecInv, ApprovedTick
  PROVE  SpecInv'
<1>1. UNCHANGED <<from, opts, rev, limit, entries, proposals, job, self,
        feedback, plan, busy, drafts, text, given, cleared, misses, tick,
        inbox, faults, cmds, mode, cli, allowed>>
  BY DEF ApprovedTick
<1>2. Place /\ Revisions /\ Requests /\ Entries /\ JobType /\ SelfType /\
        FeedbackType /\ PlanType /\ TickType /\ InboxType /\ Tallies /\
        Waiting /\ Counted /\ Onward /\ Running /\ Texts /\ Cleared /\ Recorded /\ Misses
  BY DEF SpecInv
<1>3. Revisions' /\ Entries' /\ JobType' /\ SelfType' /\ FeedbackType' /\
        PlanType'
  BY <1>1, <1>2 DEF Revisions, Entries, JobType, SelfType, FeedbackType, PlanType
<1>4. TickType' /\ InboxType' /\ Tallies' /\ Counted' /\ Texts' /\ Cleared'
  BY <1>1, <1>2 DEF TickType, InboxType, Tallies, Counted, Texts, Cleared
<1>5. Place'  BY <1>1, <1>2 DEF Place, ApprovedTick, States
<1>6. Requests'
  <2>1. rr' = rr \/ rr' = [r \in DOMAIN rr |-> Unasked]  BY DEF ApprovedTick, AllUnasked
  <2>2. Unasked \in [status : Statuses, sent : BOOLEAN]  BY DEF Unasked, Statuses
  <2>3. QED  BY <1>2, <2>1, <2>2 DEF Requests
<1>7. Running'  BY <1>1, <1>2 DEF Running, ApprovedTick, AllUnasked, Onward, Reviews, Waiting
<1>8. Recorded'
  BY <1>1, <1>2
     DEF Recorded, ApprovedTick, Reviewing, Running, Place, AllUnasked,
         Unasked, Onward, Reviews, Waiting
<1>9. Misses'  BY <1>1, <1>2 DEF Misses, ApprovedTick, Accounted
<1>10. Waiting' /\ Onward'
  BY <1>1, <1>2 DEF Waiting, Onward, Reviews, Place, ApprovedTick
<1>11. QED
  BY <1>3, <1>4, <1>5, <1>6, <1>7, <1>8, <1>9, <1>10 DEF SpecInv

LEMMA SuggestionTicks ==
  ASSUME SpecInv, NEW late \in SUBSET Pending, SuggestionTick(late)
  PROVE  SpecInv'
<1>1. UNCHANGED <<opts, rev, limit, entries, job, self, feedback, plan,
        busy, drafts, text, given, cleared, misses, inbox, faults, cmds,
        mode, cli, allowed>>
  BY DEF SuggestionTick
<1>2. Place /\ Revisions /\ Requests /\ Entries /\ JobType /\ SelfType /\
        FeedbackType /\ PlanType /\ TickType /\ InboxType /\ Tallies /\
        Waiting /\ Counted /\ Onward /\ Running /\ Texts /\ Cleared /\ Recorded /\ Misses
  BY DEF SpecInv
<1>3. Revisions' /\ JobType' /\ SelfType' /\ FeedbackType' /\ PlanType' /\
        InboxType'
  BY <1>1, <1>2 DEF Revisions, JobType, SelfType, FeedbackType, PlanType, InboxType
<1>4. Tallies' /\ Texts' /\ Cleared'
  BY <1>1, <1>2 DEF Tallies, Texts, Cleared
<1>5. Place'
  BY <1>1, <1>2
     DEF Place, SuggestionTick, States, Waits, PlanStates, Flags, Valid, Pause
<1>6. Requests'
  BY <1>1, <1>2
     DEF Requests, SuggestionTick, Flags, Statuses, AllUnasked, Unasked,
         Received
<1>7. Entries'
  <2>1. proposals' \subseteq proposals \cup Pending  BY DEF SuggestionTick
  <2>2. Pending \subseteq Reviewers  BY <1>2 DEF Pending, Requests
  <2>3. QED  BY <1>1, <1>2, <2>1, <2>2 DEF Entries
<1>8. TickType'
  <2>1. Unsent \in SUBSET (Reviewers \cup {Impl}) /\ drafts \in 0..DraftBound
    BY <1>2 DEF Requests, Tallies, Unsent
  <2>2. Ask("suggestion", Unsent, drafts)  BY DEF SuggestionTick
  <2>3. "suggestion" \in Sends /\ "suggestion" \notin {"self", "draft"}  BY DEF Sends, Counters, PlanStates
  <2>4. QED  BY <1>2, <2>1, <2>2, <2>3, Asked
<1>9. Counted'
  BY <1>1, <1>2 DEF Counted, SuggestionTick, Place, States, Waits, PlanStates,
         Onward, Reviews, Waiting
<1>10. Running'
  BY <1>1, <1>2 DEF Running, SuggestionTick, AllUnasked, Valid, Pause, Onward, Reviews, Waiting
<1>11. Recorded'
  BY <1>1, <1>2
     DEF Recorded, SuggestionTick, OnRecord, Reviewing, Requests, Place,
         AllUnasked, Unasked, Received, Valid, Pause, Onward, Reviews, Waiting
<1>12. Misses'
  BY <1>1, <1>2
     DEF Misses, SuggestionTick, Accounted, Tallies, Idle, Off, Ask, Unsent,
         Pending
<1>13. Waiting' /\ Onward'
  BY <1>1, <1>2 DEF Waiting, Onward, Reviews, Place, SuggestionTick, Pause, PlanStates
<1>14. QED
  BY <1>3, <1>4, <1>5, <1>6, <1>7, <1>8, <1>9, <1>10, <1>11, <1>12, <1>13 DEF SpecInv

LEMMA PlanEnds ==
  ASSUME SpecInv, NEW p \in PlanStates, PlanDone(p)
  PROVE  SpecInv'
<1>1. UNCHANGED <<from, opts, rev, limit, rr, entries, proposals, job, self,
        feedback, busy, drafts, text, given, cleared, misses, tick, inbox,
        faults, cmds, mode, cli, allowed>>
  BY DEF PlanDone
<1>2. Place /\ Revisions /\ Requests /\ Entries /\ JobType /\ SelfType /\
        FeedbackType /\ PlanType /\ TickType /\ InboxType /\ Tallies /\
        Waiting /\ Counted /\ Onward /\ Running /\ Texts /\ Cleared /\ Recorded /\ Misses
  BY DEF SpecInv
<1>3. Revisions' /\ Requests' /\ Entries' /\ JobType' /\ SelfType' /\
        FeedbackType'
  BY <1>1, <1>2 DEF Revisions, Requests, Entries, JobType, SelfType, FeedbackType
<1>4. TickType' /\ InboxType' /\ Tallies' /\ Texts' /\ Cleared'
  BY <1>1, <1>2 DEF TickType, InboxType, Tallies, Texts, Cleared
<1>5. Place'  BY <1>1, <1>2 DEF Place, PlanDone, States, PlanStates
<1>6. PlanType'
  <2>1. plan' = [plan EXCEPT ![p] = [plan[p] EXCEPT !.done = FALSE, !.sent = FALSE]]  BY DEF PlanDone
  <2>2. [plan[p] EXCEPT !.done = FALSE, !.sent = FALSE] \in PlanRecord  BY <1>2 DEF PlanType, PlanRecord
  <2>3. QED  BY <1>2, <2>1, <2>2 DEF PlanType
<1>7. Counted'  BY <1>1, <1>2 DEF Counted, PlanDone, PlanType
<1>8. Running'  BY <1>1, <1>2 DEF Running, PlanDone, PlanStates, Onward, Reviews, Waiting
<1>9. Recorded'  BY <1>1, <1>2 DEF Recorded, PlanDone, OnRecord, Reviewing
<1>10. Misses'  BY <1>1, <1>2 DEF Misses, PlanDone, Accounted
<1>11. Waiting' /\ Onward'
  BY <1>1, <1>2 DEF Waiting, Onward, Reviews, Place, PlanDone, PlanStates
<1>12. QED
  BY <1>3, <1>4, <1>5, <1>6, <1>7, <1>8, <1>9, <1>10, <1>11 DEF SpecInv

LEMMA PlanAsked ==
  ASSUME SpecInv, NEW p \in PlanStates, AskPlan(p)
  PROVE  SpecInv'
<1>1. UNCHANGED <<state, from, opts, rev, limit, rr, entries, proposals,
        job, self, feedback, busy, drafts, text, given, cleared, misses,
        inbox, faults, cmds, mode, cli, allowed>>
  BY DEF AskPlan
<1>2. Place /\ Revisions /\ Requests /\ Entries /\ JobType /\ SelfType /\
        FeedbackType /\ PlanType /\ TickType /\ InboxType /\ Tallies /\
        Waiting /\ Counted /\ Onward /\ Running /\ Texts /\ Cleared /\ Recorded /\ Misses
  BY DEF SpecInv
<1>3. Place' /\ Revisions' /\ Requests' /\ Entries' /\ JobType' /\ SelfType'
  BY <1>1, <1>2 DEF Place, Revisions, Requests, Entries, JobType, SelfType
<1>4. FeedbackType' /\ InboxType' /\ Tallies' /\ Running' /\ Texts' /\
        Cleared'
  BY <1>1, <1>2 DEF FeedbackType, InboxType, Tallies, Running, Texts, Cleared
<1>5. Recorded'
  BY <1>1, <1>2 DEF Recorded, OnRecord, Reviewing
<1>6. PlanType'
  <2>1. plan' = [plan EXCEPT ![p] = [plan[p] EXCEPT !.sent = TRUE]]  BY DEF AskPlan
  <2>2. [plan[p] EXCEPT !.sent = TRUE] \in PlanRecord  BY <1>2 DEF PlanType, PlanRecord
  <2>3. QED  BY <1>2, <2>1, <2>2 DEF PlanType
<1>7. TickType'
  BY <1>1, <1>2, SpecAssumption
     DEF TickType, AskPlan, TickRecord, Ask, Off, Revisions, Tallies, Texts,
         SpecAssumption, States, Waits, PlanStates, Sends, Counters, Idle
<1>8. Counted'  BY <1>1, <1>2 DEF Counted, AskPlan
<1>9. Misses'
  BY <1>1, <1>2
     DEF Misses, AskPlan, Accounted, Tallies, JobType, Waits, PlanStates,
         Flags, Idle, Off, Pause, Ask, AllUnasked, Unasked
<1>10. Waiting' /\ Onward'  BY <1>1, <1>2 DEF Waiting, Onward
<1>11. QED
  BY <1>3, <1>4, <1>5, <1>6, <1>7, <1>8, <1>9, <1>10 DEF SpecInv

LEMMA PlanRepeats ==
  ASSUME SpecInv, NEW p \in PlanStates, PlanLate(p)
  PROVE  SpecInv'
<1>1. UNCHANGED <<opts, rev, limit, rr, entries, proposals, job, self,
        feedback, busy, drafts, text, given, cleared, misses, tick, inbox,
        faults, cmds, mode, cli, allowed>>
  BY DEF PlanLate
<1>2. Place /\ Revisions /\ Requests /\ Entries /\ JobType /\ SelfType /\
        FeedbackType /\ PlanType /\ TickType /\ InboxType /\ Tallies /\
        Waiting /\ Counted /\ Onward /\ Running /\ Texts /\ Cleared /\ Recorded /\ Misses
  BY DEF SpecInv
<1>3. Revisions' /\ Requests' /\ Entries' /\ JobType' /\ SelfType' /\
        FeedbackType'
  BY <1>1, <1>2 DEF Revisions, Requests, Entries, JobType, SelfType, FeedbackType
<1>4. TickType' /\ InboxType' /\ Tallies' /\ Texts' /\ Cleared'
  BY <1>1, <1>2 DEF TickType, InboxType, Tallies, Texts, Cleared
<1>5. Place'
  BY <1>1, <1>2 DEF Place, PlanLate, States, Waits, PlanStates, Off, Pause
<1>6. PlanType'
  <2>1. PICK again \in BOOLEAN :
          plan' = [plan EXCEPT ![p] = [plan[p] EXCEPT !.retries = plan[p].retries + 1,
                                                      !.sent = again]]
    <3>1. (plan[p].retries >= MaxRetries) \in BOOLEAN  OBVIOUS
    <3>2. QED  BY <3>1 DEF PlanLate
  <2>2. plan[p] \in PlanRecord /\ plan[p].retries + 1 \in Nat
    BY <1>2 DEF PlanType, PlanRecord
  <2>3. [plan[p] EXCEPT !.retries = plan[p].retries + 1, !.sent = again] \in PlanRecord
    BY <2>1, <2>2 DEF PlanRecord
  <2>4. QED  BY <1>2, <2>1, <2>3 DEF PlanType
<1>7. Counted'
  BY <1>1, <1>2
     DEF Counted, PlanLate, PlanType, PlanRecord, Place, States, Waits,
         PlanStates, Idle, Off, Pause, Onward, Reviews, Waiting
<1>8. Running'
  BY <1>1, <1>2 DEF Running, PlanLate, PlanStates, Flags, Pause, Ask, Onward, Reviews, Waiting
<1>9. Recorded'
  BY <1>1, <1>2 DEF Recorded, PlanLate, OnRecord, Reviewing, Pause
<1>10. Misses'  BY <1>1, <1>2 DEF Misses, PlanLate, Accounted, Pause
<1>11. Waiting' /\ Onward'
  BY <1>1, <1>2 DEF Waiting, Onward, Reviews, Place, PlanLate, Pause, PlanStates
<1>12. QED
  BY <1>3, <1>4, <1>5, <1>6, <1>7, <1>8, <1>9, <1>10, <1>11 DEF SpecInv

LEMMA Left ==
  ASSUME SpecInv, DoneTick
  PROVE  SpecInv'
<1>1. UNCHANGED <<tick, inbox, faults, cmds, cli, allowed>>
  BY DEF DoneTick
<1>2. Place /\ Revisions /\ Requests /\ Entries /\ JobType /\ SelfType /\
        FeedbackType /\ PlanType /\ TickType /\ InboxType /\ Tallies /\
        Waiting /\ Counted /\ Onward /\ Running /\ Texts /\ Cleared /\ Recorded /\ Misses
  BY DEF SpecInv
<1>3. TickType' /\ InboxType'
  BY <1>1, <1>2 DEF TickType, InboxType
<1>4. Place'
  BY <1>1, <1>2
     DEF Place, DoneTick, States, Waits, Leave, Command, NewConfig, NoEntries
<1>5. Revisions'
  BY <1>1, <1>2, SpecAssumption
     DEF Revisions, DoneTick, SpecAssumption, Leave, Command, NewConfig
<1>6. Requests'  BY <1>1, <1>2 DEF Requests, DoneTick, Leave
<1>7. Entries'
  BY <1>1, <1>2, SpecAssumption
     DEF Entries, DoneTick, SpecAssumption, Idle, Off, Leave, Command,
         NewConfig, NoEntries, NoJob, NoPlan, NoneGiven, NoMisses
<1>8. JobType'
  BY <1>1, <1>2, SpecAssumption
     DEF JobType, DoneTick, JobRecord, Counted, SpecAssumption, Leave,
         Command, NewConfig, NoEntries, NoJob, NoSelf
<1>9. SelfType'
  BY <1>1, <1>2, SpecAssumption
     DEF SelfType, DoneTick, SelfRecord, Texts, SpecAssumption, Leave,
         Command, NewConfig, NoEntries, NoJob, NoSelf
<1>10. FeedbackType'
  BY <1>1, <1>2, SpecAssumption
     DEF FeedbackType, DoneTick, FeedbackRecord, SpecAssumption, Idle, Off,
         Leave, Command, NewConfig, NoFeedback, NoPlan
<1>11. PlanType'
  BY <1>1, <1>2, SpecAssumption
     DEF PlanType, DoneTick, Counted, PlanRecord, SpecAssumption, Idle, Off,
         Leave, Command, NewConfig, NoEntries, NoJob, NoPlan, NoneGiven,
         NoMisses
<1>12. Tallies'
  BY <1>1, <1>2, SpecAssumption
     DEF Tallies, DoneTick, SpecAssumption, Off, Leave, NewConfig, NoEntries,
         NoneGiven, NoMisses
<1>13. Counted'
  BY <1>1, <1>2, SpecAssumption
     DEF Counted, DoneTick, Place, SpecAssumption, Leave, Command, NewConfig,
         NoEntries, NoJob, NoPlan, NoneGiven, NoMisses
<1>14. Running'
  BY <1>1, <1>2 DEF Running, DoneTick, Leave, Command, NewConfig, Onward, Reviews, Waiting
<1>15. Texts'
  BY <1>1, <1>2
     DEF Texts, DoneTick, Off, Leave, Command, NewConfig, NoEntries, NoJob,
         NoSelf, NoFeedback
<1>16. Cleared'
  BY <1>1, <1>2
     DEF Cleared, DoneTick, Leave, Command, NewConfig, NoJob, NoSelf
<1>17. Recorded'
  BY <1>1, <1>2 DEF Recorded, DoneTick, Leave, NewConfig, NoEntries
<1>18. Misses'
  BY <1>1, <1>2
     DEF Misses, DoneTick, Accounted, Tallies, JobType, Answers, Sends,
         Counters, Idle, Off, Leave, Command, NewConfig, NoEntries, NoJob,
         NoSelf, NoFeedback, NoPlan, NoneGiven, NoMisses
<1>19. Waiting' /\ Onward'
  BY <1>1, <1>2 DEF Waiting, Onward, Reviews, Place, DoneTick, Leave, NewConfig, Command, Write
<1>20. QED
  BY <1>3, <1>4, <1>5, <1>6, <1>7, <1>8, <1>9, <1>10, <1>11, <1>12, <1>13,
     <1>14, <1>15, <1>16, <1>17, <1>18, <1>19 DEF SpecInv

LEMMA Closed ==
  ASSUME SpecInv, Done
  PROVE  SpecInv'
<1>1. UNCHANGED <<tick, inbox, faults, cmds, allowed>>
  BY DEF Done
<1>2. Place /\ Revisions /\ Requests /\ Entries /\ JobType /\ SelfType /\
        FeedbackType /\ PlanType /\ TickType /\ InboxType /\ Tallies /\
        Waiting /\ Counted /\ Onward /\ Running /\ Texts /\ Cleared /\ Recorded /\ Misses
  BY DEF SpecInv
<1>3. TickType' /\ InboxType'
  BY <1>1, <1>2 DEF TickType, InboxType
<1>4. Place'
  BY <1>1, <1>2
     DEF Place, Done, States, Waits, Leave, Write, NewConfig, NoEntries
<1>5. Revisions'
  BY <1>1, <1>2, SpecAssumption
     DEF Revisions, Done, SpecAssumption, Leave, Write, NewConfig
<1>6. Requests'  BY <1>1, <1>2 DEF Requests, Done, Leave
<1>7. Entries'
  BY <1>1, <1>2, SpecAssumption
     DEF Entries, Done, SpecAssumption, Idle, Off, Leave, Write, NewConfig,
         NoEntries, NoJob, NoPlan, NoneGiven, NoMisses
<1>8. JobType'
  BY <1>1, <1>2, SpecAssumption
     DEF JobType, Done, JobRecord, Counted, SpecAssumption, Leave, Write,
         NewConfig, NoEntries, NoJob, NoSelf
<1>9. SelfType'
  BY <1>1, <1>2, SpecAssumption
     DEF SelfType, Done, SelfRecord, Texts, SpecAssumption, Leave, Write,
         NewConfig, NoEntries, NoJob, NoSelf
<1>10. FeedbackType'
  BY <1>1, <1>2, SpecAssumption
     DEF FeedbackType, Done, FeedbackRecord, SpecAssumption, Idle, Off, Leave,
         Write, NewConfig, NoFeedback, NoPlan
<1>11. PlanType'
  BY <1>1, <1>2, SpecAssumption
     DEF PlanType, Done, Counted, PlanRecord, SpecAssumption, Idle, Off,
         Leave, Write, NewConfig, NoEntries, NoJob, NoPlan, NoneGiven,
         NoMisses
<1>12. Tallies'
  BY <1>1, <1>2, SpecAssumption
     DEF Tallies, Done, SpecAssumption, Off, Leave, Write, NewConfig,
         NoEntries, NoneGiven, NoMisses
<1>13. Counted'
  BY <1>1, <1>2, SpecAssumption
     DEF Counted, Done, Place, SpecAssumption, Leave, Write, NewConfig,
         NoEntries, NoJob, NoPlan, NoneGiven, NoMisses
<1>14. Running'  BY <1>1, <1>2 DEF Running, Done, Leave, Write, NewConfig,
         Onward, Reviews, Waiting
<1>15. Texts'
  BY <1>1, <1>2
     DEF Texts, Done, Off, Leave, Write, NewConfig, NoEntries, NoJob,
         NoSelf, NoFeedback
<1>16. Cleared'
  BY <1>1, <1>2 DEF Cleared, Done, Leave, Write, NewConfig, NoJob, NoSelf
<1>17. Recorded'
  BY <1>1, <1>2 DEF Recorded, Done, Leave, NewConfig, NoEntries
<1>18. Misses'  BY <1>1, <1>2 DEF Misses, Done, Write, Onward, Reviews, Waiting
<1>19. Waiting' /\ Onward'
  BY <1>1, <1>2 DEF Waiting, Onward, Reviews, Place, Done, Leave, NewConfig, Write, Write
<1>20. QED
  BY <1>3, <1>4, <1>5, <1>6, <1>7, <1>8, <1>9, <1>10, <1>11, <1>12, <1>13,
     <1>14, <1>15, <1>16, <1>17, <1>18, <1>19 DEF SpecInv

LEMMA Stopped ==
  ASSUME SpecInv, Stop
  PROVE  SpecInv'
<1>1. UNCHANGED <<tick, inbox, faults, cli, allowed>>
  BY DEF Stop
<1>2. Place /\ Revisions /\ Requests /\ Entries /\ JobType /\ SelfType /\
        FeedbackType /\ PlanType /\ TickType /\ InboxType /\ Tallies /\
        Waiting /\ Counted /\ Onward /\ Running /\ Texts /\ Cleared /\ Recorded /\ Misses
  BY DEF SpecInv
<1>3. TickType' /\ InboxType'
  BY <1>1, <1>2 DEF TickType, InboxType
<1>4. Place'
  BY <1>1, <1>2
     DEF Place, Stop, States, Waits, Leave, Command, NewConfig, NoEntries
<1>5. Revisions'
  BY <1>1, <1>2, SpecAssumption
     DEF Revisions, Stop, SpecAssumption, Leave, Command, NewConfig
<1>6. Requests'  BY <1>1, <1>2 DEF Requests, Stop, Leave
<1>7. Entries'
  BY <1>1, <1>2, SpecAssumption
     DEF Entries, Stop, SpecAssumption, Idle, Off, Leave, Command, NewConfig,
         NoEntries, NoJob, NoPlan, NoneGiven, NoMisses
<1>8. JobType'
  BY <1>1, <1>2, SpecAssumption
     DEF JobType, Stop, JobRecord, Counted, SpecAssumption, Leave, Command,
         NewConfig, NoEntries, NoJob, NoSelf
<1>9. SelfType'
  BY <1>1, <1>2, SpecAssumption
     DEF SelfType, Stop, SelfRecord, Texts, SpecAssumption, Leave, Command,
         NewConfig, NoEntries, NoJob, NoSelf
<1>10. FeedbackType'
  BY <1>1, <1>2, SpecAssumption
     DEF FeedbackType, Stop, FeedbackRecord, SpecAssumption, Idle, Off, Leave,
         Command, NewConfig, NoFeedback, NoPlan
<1>11. PlanType'
  BY <1>1, <1>2, SpecAssumption
     DEF PlanType, Stop, Counted, PlanRecord, SpecAssumption, Idle, Off,
         Leave, Command, NewConfig, NoEntries, NoJob, NoPlan, NoneGiven,
         NoMisses
<1>12. Tallies'
  BY <1>1, <1>2, SpecAssumption
     DEF Tallies, Stop, SpecAssumption, Off, Leave, Command, NewConfig,
         NoEntries, NoneGiven, NoMisses
<1>13. Counted'
  BY <1>1, <1>2, SpecAssumption
     DEF Counted, Stop, Place, SpecAssumption, Leave, Command, NewConfig,
         NoEntries, NoJob, NoPlan, NoneGiven, NoMisses
<1>14. Running'  BY <1>1, <1>2 DEF Running, Stop, Leave, Command, NewConfig,
         Onward, Reviews, Waiting
<1>15. Texts'
  BY <1>1, <1>2
     DEF Texts, Stop, Off, Leave, Command, NewConfig, NoEntries, NoJob,
         NoSelf, NoFeedback
<1>16. Cleared'
  BY <1>1, <1>2 DEF Cleared, Stop, Leave, Command, NewConfig, NoJob, NoSelf
<1>17. Recorded'
  BY <1>1, <1>2 DEF Recorded, Stop, Leave, NewConfig, NoEntries
<1>18. Misses'  BY <1>1, <1>2 DEF Misses, Stop, Command
<1>19. Waiting' /\ Onward'
  BY <1>1, <1>2 DEF Waiting, Onward, Reviews, Place, Stop, Leave, NewConfig, Command, Write
<1>20. QED
  BY <1>3, <1>4, <1>5, <1>6, <1>7, <1>8, <1>9, <1>10, <1>11, <1>12, <1>13,
     <1>14, <1>15, <1>16, <1>17, <1>18, <1>19 DEF SpecInv

LEMMA Sent ==
  ASSUME SpecInv, Send
  PROVE  SpecInv'
<1>1. UNCHANGED <<state, from, opts, rev, limit, rr, entries, proposals,
        job, self, feedback, plan, drafts, text, given, cleared, cmds,
        mode, cli, allowed>>
  BY DEF Send
<1>2. Place /\ Revisions /\ Requests /\ Entries /\ JobType /\ SelfType /\
        FeedbackType /\ PlanType /\ TickType /\ InboxType /\ Tallies /\
        Waiting /\ Counted /\ Onward /\ Running /\ Texts /\ Cleared /\ Recorded /\ Misses
  BY DEF SpecInv
<1>3. tick \in TickRecord /\ tick.what # "none" /\ ~tick.bounced
  BY <1>2 DEF Send, TickType
<1>4. PICK failed \in SUBSET tick.to, atWork \in SUBSET tick.to, tooLong \in BOOLEAN :
        /\ inbox' = inbox \cup {[to |-> a, what |-> Message(tick.what), rev |-> tick.rev,
                                 draft |-> tick.draft] : a \in tick.to \ (failed \cup atWork)}
        /\ IF failed \cup atWork = {}
           THEN /\ tick' = Off /\ busy' = busy \ {tick.what} /\ faults' = faults
                /\ misses' = IF tick.what \in {"revise", "feedback"}
                             THEN [misses EXCEPT ![tick.what] = @ + 1] ELSE misses
           ELSE /\ tick' = [tick EXCEPT !.to = failed \cup atWork, !.bounced = TRUE,
                                        !.busy = atWork # {} /\ ~tooLong]
                /\ faults' = faults + 1 /\ UNCHANGED <<busy, misses>>
  BY DEF Send
<1>5. /\ tick' \in TickRecord
      /\ \/ tick' = Off
         \/ tick'.what = tick.what /\ tick'.draft = tick.draft /\ misses' = misses
  <2>1. Off \in TickRecord  BY SpecAssumption DEF Off, TickRecord, Sends, SpecAssumption
  <2>2. CASE failed \cup atWork = {}  BY <1>4, <2>1, <2>2
  <2>3. CASE failed \cup atWork # {}
    <3>1. failed \cup atWork \in SUBSET (Reviewers \cup {Impl})  BY <1>3 DEF TickRecord
    <3>2. (atWork # {} /\ ~tooLong) \in BOOLEAN  OBVIOUS
    <3>3. QED  BY <1>3, <1>4, <2>3, <3>1, <3>2 DEF TickRecord
  <2>4. QED  BY <2>2, <2>3
<1>6. Place' /\ Revisions' /\ Requests' /\ Entries' /\ JobType' /\ SelfType'
  BY <1>1, <1>2 DEF Place, Revisions, Requests, Entries, JobType, SelfType
<1>7. FeedbackType' /\ PlanType' /\ Counted' /\ Running' /\ Texts' /\
        Cleared'
  BY <1>1, <1>2 DEF FeedbackType, PlanType, Counted, Running, Texts, Cleared
<1>8. Recorded'
  BY <1>1, <1>2 DEF Recorded, OnRecord, Reviewing
<1>9. TickType'
  BY <1>2, <1>5 DEF TickType, Off
<1>10. InboxType'
  <2>1. Message(tick.what) \in {"review", "suggestion", "revise", "self"} \cup PlanStates
    BY <1>3 DEF Message, TickRecord, Sends, Counters
  <2>3. ASSUME NEW a \in tick.to
        PROVE  [to |-> a, what |-> Message(tick.what), rev |-> tick.rev, draft |-> tick.draft]
                 \in MessageRecord
    BY <1>3, <2>1 DEF TickRecord, MessageRecord
  <2>4. QED  BY <1>2, <1>4, <2>3 DEF InboxType
<1>11. Tallies'  BY <1>1, <1>2 DEF Tallies, Send
<1>12. Misses'
  <2>1. CASE allowed \cap {"crash", "owner"} = {}
    <3>1. /\ Accounted("revise", job.tries) /\ Accounted("feedback", feedback.tries)
          /\ tick.what = "revise" => job.sent
          /\ state # "IDLE"
      BY <1>2, <1>3, <2>1 DEF Misses, Off
    <3>2. misses \in [Counters -> Nat] /\ job.tries \in Nat /\ feedback.tries \in Nat
      BY <1>2, SpecAssumption
         DEF Tallies, JobType, JobRecord, FeedbackType, FeedbackRecord, SpecAssumption
    <3>3. CASE tick' = Off /\ misses' = IF tick.what \in {"revise", "feedback"}
                             THEN [misses EXCEPT ![tick.what] = @ + 1] ELSE misses
      BY <1>1, <3>1, <3>2, <3>3 DEF Misses, Accounted, Off, Counters
    <3>4. CASE tick'.what = tick.what /\ misses' = misses
      BY <1>1, <3>1, <3>4 DEF Misses, Accounted
    <3>5. failed \cup atWork # {} => tick'.what = tick.what
      BY <1>3, <1>4 DEF TickRecord
    <3>6. QED  BY <1>4, <3>3, <3>4, <3>5
  <2>2. QED  BY <1>1, <2>1 DEF Misses
<1>13. Waiting' /\ Onward'  BY <1>1, <1>2 DEF Waiting, Onward
<1>14. QED
  BY <1>6, <1>7, <1>8, <1>9, <1>10, <1>11, <1>12, <1>13 DEF SpecInv

LEMMA RolledBack ==
  ASSUME SpecInv, Rollback
  PROVE  SpecInv'
<1>1. UNCHANGED <<state, from, opts, rev, limit, entries, proposals, plan,
        drafts, text, given, cleared, inbox, faults, cmds, mode, cli, allowed>>
  BY DEF Rollback
<1>2. Place /\ Revisions /\ Requests /\ Entries /\ JobType /\ SelfType /\
        FeedbackType /\ PlanType /\ TickType /\ InboxType /\ Tallies /\
        Waiting /\ Counted /\ Onward /\ Running /\ Texts /\ Cleared /\ Recorded /\ Misses
  BY DEF SpecInv
<1>3. tick \in TickRecord /\ job \in JobRecord /\ self \in SelfRecord /\ feedback \in FeedbackRecord
  BY <1>2 DEF TickType, JobType, SelfType, FeedbackType
<1>4. /\ MaxRetries \in Nat /\ job.tries \in 0..MaxRetries /\ feedback.tries \in 0..MaxRetries
      /\ Passes \in Nat /\ self.pass \in 0..Passes
  BY <1>3, SpecAssumption DEF JobRecord, SelfRecord, FeedbackRecord, SpecAssumption
<1>5. /\ Spared(job.tries) \in 0..MaxRetries /\ Spared(feedback.tries) \in 0..MaxRetries
      /\ Spared(self.pass) \in 0..Passes
  BY <1>4, SparedType
<1>6. job' = IF tick.what = "revise"
             THEN [job EXCEPT !.sent = FALSE, !.tries = Spared(job.tries)] ELSE job
  BY DEF Rollback
<1>7. job' \in JobRecord /\ job'.retries = job.retries /\ job'.report = job.report
  BY <1>3, <1>5, <1>6, JobUpdate DEF JobRecord
<1>8. self' = CASE tick.what = "self" -> [self EXCEPT !.sent = FALSE, !.pass = Spared(self.pass)]
                [] tick.what = "draft" -> [self EXCEPT !.sent = FALSE]
                [] OTHER -> self
  BY DEF Rollback
<1>9. /\ self' \in SelfRecord /\ self'.draft = self.draft /\ self'.answer = self.answer
      /\ self'.sent => self.sent
      /\ self'.about = self.about
  <2>1. CASE tick.what = "self"  BY <1>3, <1>5, <1>8, <2>1, SelfUpdate DEF SelfRecord
  <2>2. CASE tick.what = "draft"  BY <1>3, <1>8, <2>2 DEF SelfRecord
  <2>3. CASE tick.what \notin {"self", "draft"}  BY <1>3, <1>8, <2>3
  <2>4. QED  BY <2>1, <2>2, <2>3
<1>10. feedback' = CASE tick.what = "feedback" -> [due |-> TRUE, tries |-> Spared(feedback.tries)]
                     [] tick.what = "issues" -> [feedback EXCEPT !.due = TRUE]
                     [] OTHER -> feedback
  BY DEF Rollback
<1>11. /\ feedback' \in FeedbackRecord
       /\ feedback'.tries = IF tick.what = "feedback" THEN Spared(feedback.tries) ELSE feedback.tries
  BY <1>3, <1>5, <1>10 DEF FeedbackRecord
<1>12. Place' /\ Revisions' /\ Entries' /\ PlanType' /\ InboxType'
  BY <1>1, <1>2 DEF Place, Revisions, Entries, PlanType, InboxType
<1>13. Requests'
  <2>1. \/ rr' = rr
        \/ rr' = [r \in DOMAIN rr |-> IF r \in tick.to THEN [rr[r] EXCEPT !.sent = FALSE] ELSE rr[r]]
    BY DEF Rollback
  <2>2. \A r \in DOMAIN rr : [rr[r] EXCEPT !.sent = FALSE] \in [status : Statuses, sent : BOOLEAN]
    BY <1>2 DEF Requests
  <2>3. QED  BY <1>2, <2>1, <2>2 DEF Requests
<1>14. JobType'
  BY <1>7 DEF JobType
<1>15. SelfType'
  BY <1>2, <1>9 DEF SelfType
<1>16. FeedbackType'
  BY <1>11 DEF FeedbackType
<1>17. TickType'
  BY <1>1, <1>2, SpecAssumption
     DEF TickType, Rollback, TickRecord, Ask, Off, Revisions, Tallies, Texts,
         SpecAssumption, Sends, Counters, Spared
<1>18. Tallies'  BY <1>1, <1>2 DEF Tallies, Rollback, Counters
<1>19. Counted'
  BY <1>1, <1>2, <1>7 DEF Counted
<1>20. Running'  BY <1>1, <1>2 DEF Running, Rollback
<1>21. Texts'
  BY <1>1, <1>2, <1>7, <1>9 DEF Texts
<1>22. Cleared'
  BY <1>1, <1>2, <1>9 DEF Cleared
<1>23. Recorded'  BY <1>1, <1>2 DEF Recorded, Rollback, OnRecord, Reviewing
<1>24. Misses'
  BY <1>1, <1>2
     DEF Misses, Rollback, Accounted, Tallies, JobType, Sends, Counters, Off,
         Spared
<1>25. Waiting' /\ Onward'  BY <1>1, <1>2 DEF Waiting, Onward
<1>26. QED
  BY <1>12, <1>13, <1>14, <1>15, <1>16, <1>17, <1>18, <1>19, <1>20, <1>21,
     <1>22, <1>23, <1>24, <1>25 DEF SpecInv

LEMMA Crashed ==
  ASSUME SpecInv, Crash
  PROVE  SpecInv'
<1>1. UNCHANGED <<state, from, opts, rev, limit, rr, entries, proposals,
        job, self, feedback, plan, busy, drafts, text, given, cleared, misses,
        inbox, cmds, mode, cli, allowed>>
  BY DEF Crash, specVars
<1>2. Place /\ Revisions /\ Requests /\ Entries /\ JobType /\ SelfType /\
        FeedbackType /\ PlanType /\ TickType /\ InboxType /\ Tallies /\
        Waiting /\ Counted /\ Onward /\ Running /\ Texts /\ Cleared /\ Recorded /\ Misses
  BY DEF SpecInv
<1>3. Place' /\ Revisions' /\ Requests' /\ Entries' /\ JobType' /\ SelfType'
  BY <1>1, <1>2 DEF Place, Revisions, Requests, Entries, JobType, SelfType
<1>4. FeedbackType' /\ PlanType' /\ InboxType' /\ Counted' /\ Running' /\
        Texts'
  BY <1>1, <1>2 DEF FeedbackType, PlanType, InboxType, Counted, Running, Texts
<1>5. Cleared' /\ Recorded'
  BY <1>1, <1>2 DEF Cleared, Recorded, OnRecord, Reviewing
<1>6. TickType'
  BY <1>1, <1>2, SpecAssumption
     DEF TickType, Crash, TickRecord, Ask, Off, Revisions, SpecAssumption,
         States, Answers, Sends, Counters
<1>7. Tallies'  BY <1>1, <1>2 DEF Tallies, Crash
<1>8. Misses'  BY <1>1, <1>2 DEF Misses, Crash
<1>9. Waiting' /\ Onward'  BY <1>1, <1>2 DEF Waiting, Onward
<1>10. QED
  BY <1>3, <1>4, <1>5, <1>6, <1>7, <1>8, <1>9 DEF SpecInv

-----------------------------------------------------------------------------
(* Evidence of an approval *)

(* What ApprovedOnEvidence asks of an approval by the watchdog.            *)
Evidence ==
  /\ \E r \in DOMAIN rr : Approving(r, {rev})
  /\ \A r \in DOMAIN rr : given[r].rev = rev => Approving(r, {rev})
  /\ Cardinality({r \in DOMAIN rr : Approving(r, {rev - 1, rev})}) >= MinOverride

LEMMA SomeQuorum == SpecInv /\ DOMAIN rr # {} => MinOverride \in Nat /\ MinOverride >= 1
<1> SUFFICES ASSUME SpecInv, DOMAIN rr # {}
             PROVE  MinOverride \in Nat /\ MinOverride >= 1
  OBVIOUS
<1>1. DOMAIN rr \in SUBSET Reviewers /\ DOMAIN rr # {}
  BY DEF SpecInv, Requests
<1>2. IsFiniteSet(Reviewers) /\ MinValid \in 1..Cardinality(Reviewers)
  BY SpecAssumption DEF SpecAssumption
<1>3. IsFiniteSet(DOMAIN rr)  BY <1>1, <1>2, FS_Subset
<1>4. Cardinality(DOMAIN rr) \in Nat /\ Cardinality(DOMAIN rr) # 0
  BY <1>1, <1>3, FS_CardinalityType, FS_EmptySet
<1>5. Cardinality(Reviewers) \in Nat  BY <1>2, FS_CardinalityType
<1>6. QED  BY <1>2, <1>4, <1>5 DEF MinOverride

LEMMA EvidenceFound ==
  ASSUME SpecInv, NEW late \in SUBSET Pending, ReviewTick(late),
         "late" \notin allowed, state' = "SPEC_APPROVED"
  PROVE  Evidence
<1>1. PICK es : es = [r \in Reviewers |-> IF r \in late THEN "timeout" ELSE entries[r]]
  OBVIOUS
<1>2. state = "SPEC_REVIEW" /\ Outcome(es) = "SPEC_APPROVED" /\ DOMAIN rr # {}
  BY <1>1 DEF ReviewTick
<1>3. /\ DOMAIN rr \in SUBSET Reviewers /\ IsFiniteSet(Reviewers)
      /\ rev \in Nat /\ \A r \in Reviewers : given[r].rev \in Nat
  BY SpecAssumption DEF SpecInv, Requests, Entries, Revisions, SpecAssumption
<1>4. \A r \in DOMAIN rr : OnRecord(r)
  BY <1>2 DEF SpecInv, Recorded, Reviewing
<1>5. \A r \in Reviewers : entries[r] # "none" => r \in DOMAIN rr
  BY DEF SpecInv, Recorded
<1>6. PICK received : received = {r \in Reviewers : Valid(es[r])}  OBVIOUS
<1>7. PICK prior : prior = {r \in DOMAIN rr : rr[r].status = "approved_prior" /\ es[r] = "none"}
  OBVIOUS
<1>8. PICK counted : counted = IF received = {} THEN {} ELSE received \cup prior  OBVIOUS
<1>9. ~(Cardinality(counted) < MinOverride) /\ \A r \in received : es[r] = "APPROVE"
  BY <1>2, <1>6, <1>7, <1>8 DEF Outcome
<1>10. \A r \in received : r \in DOMAIN rr /\ Approving(r, {rev})
  <2> TAKE r \in received
  <2>1. r \in Reviewers /\ r \notin late /\ entries[r] = "APPROVE"
    BY <1>1, <1>6, <1>9
  <2>2. r \in DOMAIN rr  BY <1>5, <2>1
  <2>3. given[r] = [verdict |-> "APPROVE", rev |-> rev]
    BY <1>4, <2>1, <2>2 DEF OnRecord, Verdicts
  <2>4. QED  BY <2>2, <2>3 DEF Approving
<1>11. \A r \in prior : r \in DOMAIN rr /\ Approving(r, {rev - 1, rev})
  <2> TAKE r \in prior
  <2>1. r \in DOMAIN rr /\ rr[r].status = "approved_prior" /\ OnRecord(r)  BY <1>4, <1>7
  <2>2. given[r].verdict = "APPROVE" /\ given[r].rev \in {rev - 1, rev}
    BY <1>3, <2>1 DEF OnRecord
  <2>3. QED  BY <2>1, <2>2 DEF Approving
<1> DEFINE Voices == {r \in DOMAIN rr : Approving(r, {rev - 1, rev})}
<1>12. IsFiniteSet(Voices) /\ Cardinality(counted) <= Cardinality(Voices)
       /\ Cardinality(counted) \in Nat /\ Cardinality(Voices) \in Nat
  <2>1. Voices \in SUBSET Reviewers  BY <1>3
  <2>2. IsFiniteSet(Voices)  BY <1>3, <2>1, FS_Subset
  <2>3. counted \in SUBSET Voices  BY <1>8, <1>10, <1>11 DEF Approving
  <2>4. IsFiniteSet(counted)  BY <2>2, <2>3, FS_Subset
  <2>5. QED  BY <2>2, <2>3, <2>4, FS_Subset, FS_CardinalityType
<1>13. MinOverride \in Nat /\ MinOverride >= 1  BY <1>2, SomeQuorum
<1>14. counted # {}
  <2>1. Cardinality({}) = 0  BY FS_EmptySet
  <2>2. ~(0 < MinOverride) => FALSE  BY <1>13
  <2>3. QED  BY <1>9, <2>1, <2>2
<1>15. \E r \in DOMAIN rr : Approving(r, {rev})  BY <1>8, <1>10, <1>14
<1>16. \A r \in DOMAIN rr : given[r].rev = rev => Approving(r, {rev})
  <2> SUFFICES ASSUME NEW r \in DOMAIN rr, given[r].rev = rev PROVE Approving(r, {rev})
    OBVIOUS
  <2>1. entries[r] \in Verdicts /\ rr[r].status # "pending"  BY <1>4 DEF OnRecord
  <2>2. r \in Reviewers /\ r \notin late  BY <1>3, <2>1 DEF Pending
  <2>3. r \in received  BY <1>1, <1>6, <2>1, <2>2 DEF Valid
  <2>4. QED  BY <1>10, <2>3
<1>17. Cardinality(Voices) >= MinOverride  BY <1>9, <1>12, <1>13
<1>18. QED  BY <1>15, <1>16, <1>17 DEF Evidence

-----------------------------------------------------------------------------
(* Theorems *)

LEMMA SpecInit == Init => SpecInv
<1> SUFFICES ASSUME Init PROVE SpecInv  OBVIOUS
<1>1. /\ mode = FALSE /\ cli = "none"
      /\ state = "IDLE" /\ from = "none" /\ opts = {} /\ rev = 0 /\ limit = 0
      /\ rr = [r \in {} |-> Unasked] /\ entries = NoEntries /\ proposals = {}
      /\ job = NoJob /\ self = NoSelf /\ feedback = NoFeedback /\ plan = NoPlan
      /\ busy = {} /\ drafts = 0 /\ text = 0
      /\ given = NoneGiven /\ cleared = {} /\ misses = NoMisses
      /\ tick = Off /\ inbox = {} /\ faults = 0 /\ cmds = 0
      /\ allowed \in Environments
  BY DEF Init
<1>2. /\ RevBound \in Nat /\ DraftBound \in Nat /\ MaxRetries \in Nat /\ Passes \in Nat
      /\ Environments \subseteq SUBSET Disturbances
  BY SpecAssumption DEF SpecAssumption
<1>3. Place  BY <1>1 DEF Place, States, Flags
<1>4. Revisions  BY <1>1, <1>2 DEF Revisions
<1>5. Requests  BY <1>1 DEF Requests
<1>6. Entries  BY <1>1, <1>2 DEF Entries, NoEntries, NoneGiven
<1>7. JobType  BY <1>1, <1>2 DEF JobType, JobRecord, NoJob
<1>8. SelfType  BY <1>1, <1>2 DEF SelfType, SelfRecord, NoSelf
<1>9. FeedbackType  BY <1>1, <1>2 DEF FeedbackType, FeedbackRecord, NoFeedback
<1>10. PlanType  BY <1>1, <1>2 DEF PlanType, PlanRecord, NoPlan
<1>11. TickType  BY <1>1, <1>2 DEF TickType, TickRecord, Off, Sends
<1>12. InboxType  BY <1>1 DEF InboxType
<1>13. Tallies  BY <1>1, <1>2 DEF Tallies, NoMisses
<1>14. Counted  BY <1>1, <1>2 DEF Counted, NoJob, NoPlan
<1>15. Running  BY <1>1 DEF Running, Onward, Reviews, Waiting
<1>16. Texts /\ Cleared  BY <1>1 DEF Texts, Cleared, NoSelf, NoJob
<1>17. Recorded  BY <1>1 DEF Recorded, NoEntries
<1>18. Misses
  BY <1>1 DEF Misses, Accounted, NoJob, NoFeedback, NoMisses, Off, Counters
<1>19. Waiting /\ Onward  BY <1>1 DEF Waiting, Onward, Reviews
<1>20. QED
  BY <1>3, <1>4, <1>5, <1>6, <1>7, <1>8, <1>9, <1>10, <1>11, <1>12, <1>13, <1>14, <1>15,
     <1>16, <1>17, <1>18, <1>19
     DEF SpecInv

LEMMA SpecStep == SpecInv /\ [Next]_vars => SpecInv'
<1> SUFFICES ASSUME SpecInv, [Next]_vars PROVE SpecInv'  OBVIOUS
<1>1. CASE Start  BY <1>1, Started
<1>2. CASE Owner
  BY <1>2, Approved, Looked, Continued, Closed, Stopped, Retried, Resumed, Extended DEF Owner
<1>3. CASE Agents
  BY <1>3, Reviewed, Revised, SelfReviewed, Proposed, Planned DEF Agents
<1>4. CASE Prompt
  <2>1. ReviewTick({}) \/ SuggestionTick({}) => SpecInv'
    BY ReviewTicks, SuggestionTicks
  <2>2. SelfJunk => SpecInv'  BY SelfRepeats DEF SelfJunk
  <2>3. SelfClean \/ SelfIssues \/ SendFeedback \/ SendSelf \/ Reported \/ AskRevise => SpecInv'
    BY CleanPasses, IssuesReturn, FeedbackSent, SelfSent, ReportRead, RevisionAsked
  <2>4. ApprovedTick \/ DoneTick \/ (\E p \in PlanStates : PlanDone(p) \/ AskPlan(p)) => SpecInv'
    BY ApprovedLeft, Left, PlanEnds, PlanAsked
  <2>5. QED  BY <1>4, <2>1, <2>2, <2>3, <2>4 DEF Prompt
<1>5. CASE Send \/ Rollback \/ Crash  BY <1>5, Sent, RolledBack, Crashed
<1>6. ASSUME NEW late \in SUBSET Pending, Expired(late) PROVE SpecInv'
  <2>1. SelfLate => SpecInv'  BY SelfRepeats DEF SelfLate
  <2>2. QED
    BY <1>6, <2>1, ReviewTicks, SuggestionTicks, RevisionLate, PlanRepeats DEF Expired
<1>7. CASE UNCHANGED vars
  <2>1. UNCHANGED <<state, from, opts, rev, limit, rr, entries, proposals, job, self,
                    feedback, plan, busy, drafts, text, given, cleared, misses, tick,
                    inbox, faults, cmds, mode, cli, allowed>>
    BY <1>7 DEF vars, specVars
  <2>2. /\ Place' /\ Revisions' /\ Requests' /\ Entries' /\ JobType' /\ SelfType'
        /\ FeedbackType' /\ PlanType' /\ TickType' /\ InboxType' /\ Tallies'
    BY <2>1 DEF SpecInv, Place, Revisions, Requests, Entries, JobType, SelfType, FeedbackType,
                PlanType, TickType, InboxType, Tallies
  <2>3. /\ Waiting' /\ Counted' /\ Onward' /\ Running' /\ Texts' /\ Cleared'
        /\ Recorded' /\ Misses'
    BY <2>1 DEF SpecInv, Waiting, Counted, Onward, Running, Texts, Cleared, Recorded, Reviewing, OnRecord,
                Misses, Accounted
  <2>4. QED  BY <2>2, <2>3 DEF SpecInv
<1>8. QED  BY <1>1, <1>2, <1>3, <1>4, <1>5, <1>6, <1>7 DEF Next

(* Every reachable state of spec mode is well-typed: no counter of its     *)
(* messages exceeds its limit, a paused project has a state to resume, and *)
(* retry, resume and extend still find the wait they have looked for when  *)
(* they write, although they do not look again.                            *)
THEOREM SpecTyped == Spec => []TypeOK
<1>1. SpecInv => TypeOK  BY TypeParts DEF SpecInv, Parts
<1>2. QED  BY <1>1, SpecInit, SpecStep, PTL DEF Spec

(* A revision goes to the reviewers only when its author has found clean   *)
(* the text it was last asked about, this one or the one before, whatever  *)
(* is lost, repeated, unreadable or resumed.                               *)
THEOREM SelfReviewFirst == Spec => CheckedBeforeReview
<1> DEFINE Resubmits ==
      state = "SPEC_REVISE" /\ state' = "SPEC_REVIEW" /\ "late" \notin allowed
<1>1. SpecInv /\ [Next]_vars => [Resubmits => self.about \in cleared \cap {text, text'}]_vars
  <2> SUFFICES ASSUME SpecInv, Next, Resubmits PROVE self.about \in cleared \cap {text, text'}
    OBVIOUS
  <2>1. Waiting /\ Onward /\ Cleared  BY DEF SpecInv
  <2>2. ~Start /\ ~Owner
    BY <2>1 DEF Start, Owner, Approve, Look, specVars, Continue, Done, Stop, Leave, Retry,
                Resume, Extend, Write, Waiting
  <2>3. ~Agents
    BY DEF Agents, SubmitReview, SubmitRevise, SubmitSelf, SubmitProposal, SubmitPlan
  <2>4. ~Send /\ ~Rollback /\ ~Crash  BY DEF Send, Rollback, Crash
  <2>5. ASSUME NEW late \in SUBSET Pending PROVE ~Expired(late)
    BY DEF Expired, ReviewTick, SuggestionTick, SelfLate, SelfFails, ReviseLate, PlanLate,
           PlanStates, Pause
  <2>6. Prompt => SelfClean
    BY DEF Prompt, ReviewTick, SelfIssues, SelfJunk, SelfFails, SendFeedback, SendSelf,
           Reported, AskRevise, ApprovedTick, SuggestionTick, DoneTick, PlanDone, AskPlan,
           PlanStates, Pause
  <2>7. SelfClean  BY <2>2, <2>3, <2>4, <2>5, <2>6 DEF Next
  <2>8. self.answer = "clean" /\ text' = self.draft  BY <2>7 DEF SelfClean
  <2>9. QED  BY <2>1, <2>8 DEF Cleared
<1>2. QED
  BY <1>1, SpecInit, SpecStep, PTL DEF Spec, CheckedBeforeReview

(* An agent found at work costs none of the sends of a request.            *)
THEOREM BusyIsFree == Spec => []OnlyFailuresCount
<1>1. SpecInv => OnlyFailuresCount
  BY DEF SpecInv, Misses, Accounted, OnlyFailuresCount, Idle, Off
<1>2. QED  BY <1>1, SpecInit, SpecStep, PTL DEF Spec

(* The watchdog approves a revision only on the word of enough reviewers,  *)
(* one about this revision at least, and none against it.                  *)
THEOREM ApprovalOnEvidence == Spec => ApprovedOnEvidence
<1> DEFINE Approves ==
      state = "SPEC_REVIEW" /\ state' = "SPEC_APPROVED" /\ cmds' = cmds
        /\ "late" \notin allowed
<1>1. SpecInv /\ [Next]_vars => [Approves => Evidence]_vars
  <2> SUFFICES ASSUME SpecInv, Next, Approves PROVE Evidence  OBVIOUS
  <2>1. cmds \in Nat  BY DEF SpecInv, Tallies
  <2>0. Waiting /\ Onward  BY DEF SpecInv
  <2>2. ~Start /\ ~Owner
    BY <2>0, <2>1 DEF Start, Owner, Approve, Look, specVars, Continue, Done, Stop, Leave,
                      Retry, Resume, Extend, Write, Waiting, Command
  <2>3. ~Agents
    BY DEF Agents, SubmitReview, SubmitRevise, SubmitSelf, SubmitProposal, SubmitPlan
  <2>4. ~Send /\ ~Rollback /\ ~Crash  BY DEF Send, Rollback, Crash
  <2>5. ASSUME NEW late \in SUBSET Pending, Expired(late) PROVE ReviewTick(late)
    BY <2>5 DEF Expired, SuggestionTick, SelfLate, ReviseLate, Revising, PlanLate, PlanStates
  <2>6. Prompt => ReviewTick({})
    BY DEF Prompt, SelfClean, SelfIssues, SelfJunk, SendFeedback, SendSelf, Reported,
           AskRevise, Revising, ApprovedTick, SuggestionTick, DoneTick, PlanDone, AskPlan,
           PlanStates
  <2>7. PICK late \in SUBSET Pending : ReviewTick(late)
    BY <2>2, <2>3, <2>4, <2>5, <2>6 DEF Next
  <2>8. QED  BY <2>7, EvidenceFound
<1>2. QED
  BY <1>1, SpecInit, SpecStep, PTL DEF Spec, ApprovedOnEvidence, Evidence
=============================================================================
