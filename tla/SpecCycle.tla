------------------------------ MODULE SpecCycle ------------------------------
(***************************************************************************)
(* Spec mode: a specification is reviewed, revised, reviewed again and cut   *)
(* into issues.  The watchdog's tick decides and records under the pipeline  *)
(* lock, then sends what it has recorded as sent, and takes the record back  *)
(* in another transaction when a send failed.  Reviewers and implementer     *)
(* answer by commands, in any order and at any time, and the owner starts,   *)
(* stops, approves, retries, resumes and extends.                            *)
(*                                                                           *)
(* A timer is a choice of the tick: a tick that sees it expired acts on it.  *)
(* Left out: reminders, which change nothing but the time of the last one,   *)
(* Discord's notices and the files of old reviews.                           *)
(***************************************************************************)
EXTENDS Integers, FiniteSets

CONSTANTS
  Reviewers,
  Impl,          \* the implementer, who also reviews its own revision
  MinValid,      \* get_min_reviews of the review mode
  StartRevs,     \* revisions a review may start with, by --rev or file name
  MaxCycles,     \* max_revise_cycles at the start
  Passes,        \* SPEC_REVISE_SELF_REVIEW_PASSES
  MaxRetries,    \* MAX_SPEC_RETRIES
  Options,       \* sets of options of gokrax spec start
  Environments,  \* sets of faults and commands a behaviour may meet
  RevBound,      \* bound: the limit is not extended beyond
  DraftBound,    \* bound: reports of the implementer
  FaultBound,    \* bound: failed sends, crashes and commands of the owner
  CmdBound       \* bound: commands among them

Flags == {"skip_review", "review_only", "no_queue", "auto_continue"}
Disturbances ==
  {"fail",     \* a send fails
   "busy",     \* ... because the agent is at work
   "crash",    \* the watchdog dies between record and send
   "owner",    \* approve, continue, stop, done, retry, resume, extend
   "late"}     \* an agent answers an older request than its latest

ASSUME SpecAssumption ==
  /\ IsFiniteSet(Reviewers) /\ Reviewers # {} /\ Impl \notin Reviewers
  /\ MinValid \in 1..Cardinality(Reviewers)
  /\ StartRevs \subseteq Nat \ {0}
  /\ Passes \in Nat \ {0} /\ MaxRetries \in Nat \ {0}
  /\ Options \subseteq SUBSET Flags
  /\ Environments \subseteq SUBSET Disturbances
  /\ RevBound \in Nat /\ MaxCycles \in 1..RevBound /\ DraftBound \in Nat
  /\ FaultBound \in Nat /\ CmdBound \in Nat

VARIABLES
  mode,      \* spec_mode and enabled
  state,
  from,      \* paused_from
  opts,
  rev,       \* current_rev, rev_index
  limit,     \* max_revise_cycles
  rr,        \* review_requests of those who were not excluded
  entries,   \* current_reviews.entries
  proposals, \* issue_suggestions: who made a usable one
  job,       \* the request to the implementer and its report
  self,      \* the review of the revision by its author
  feedback,  \* what that review found, not yet delivered
  plan,      \* the requests of ISSUE_PLAN and QUEUE_PLAN
  busy,      \* the counters with a *_busy_since
  tick,      \* what the watchdog's tick is sending
  cli,       \* the owner's command that has passed its check and not written
  inbox,     \* requests the agents have received
  drafts,    \* reports so far; the latest one is the text in the repository
  text,      \* last_commit: the report the current revision came with
  given,     \* history: each reviewer's last review, and of which revision
  cleared,   \* history: reports whose author said they are clean
  misses,    \* history: what may count since a counter was reset: failures,
             \* and for the implementer's messages the deliveries as well
  faults,    \* bound
  cmds,      \* bound
  allowed    \* what this behaviour may meet, one of Environments

specVars == <<from, opts, rev, limit, rr, entries, proposals, job, self,
              feedback, plan, busy, drafts, text, given, cleared, misses>>
vars == <<state, specVars, tick, inbox, faults, mode, cli, cmds, allowed>>

PlanStates == {"ISSUE_PLAN", "QUEUE_PLAN"}
Waits == {"SPEC_STALLED", "SPEC_REVIEW_FAILED", "SPEC_PAUSED"}
States == {"IDLE", "SPEC_REVIEW", "SPEC_REVISE", "SPEC_APPROVED",
           "ISSUE_SUGGESTION", "SPEC_DONE"} \cup PlanStates \cup Waits
Verdicts == {"APPROVE", "P1"}   \* P0 counts as P1 does
Reports == {"done", "nochange"}   \* what a report of a revision is read as
Answers == {"clean", "issues", "junk"}   \* what a self review is read as
Statuses == {"pending", "received", "timeout", "parse_failed", "approved_prior"}
Counters == {"revise", "feedback", "self"}
Sends == Counters \cup PlanStates
           \cup {"none", "review", "suggestion", "issues", "draft"}

Unasked == [status |-> "pending", sent |-> FALSE]
NoJob == [sent |-> FALSE, tries |-> 0, retries |-> 0, report |-> "none"]
NoSelf == [sent |-> FALSE, pass |-> 0, answer |-> "none", draft |-> 0, about |-> 0]
NoFeedback == [due |-> FALSE, tries |-> 0]
NoPlan == [p \in PlanStates |-> [sent |-> FALSE, done |-> FALSE, retries |-> 0]]
NoEntries == [r \in Reviewers |-> "none"]
NoneGiven == [r \in Reviewers |-> [verdict |-> "none", rev |-> 0]]
NoMisses == [c \in Counters |-> 0]

(* The commands that look at the state on a copy and write later, and what   *)
(* they look for.                                                            *)
Checked == [continue |-> "SPEC_APPROVED", done |-> "SPEC_DONE", resume |-> "SPEC_PAUSED",
            retry |-> "SPEC_REVIEW_FAILED", extend |-> "SPEC_STALLED"]

Off == [what |-> "none", to |-> {}, rev |-> 0, draft |-> 0,
        bounced |-> FALSE, busy |-> FALSE]

TypeOK ==
  /\ state \in States
  /\ from \in {"none", "SPEC_REVIEW", "SPEC_REVISE", "ISSUE_SUGGESTION"} \cup PlanStates
  /\ state = "SPEC_PAUSED" => from # "none"
  /\ mode \in BOOLEAN /\ cli \in DOMAIN Checked \cup {"none"}
  /\ cli \in {"retry", "resume", "extend"} => state = Checked[cli]
  /\ opts \in SUBSET Flags
  /\ rev \in Nat /\ limit \in 0..RevBound
  /\ DOMAIN rr \subseteq Reviewers
  /\ rr \in [DOMAIN rr -> [status : Statuses, sent : BOOLEAN]]
  /\ entries \in [Reviewers -> Verdicts \cup {"none", "timeout", "proposal"}]
  /\ proposals \subseteq Reviewers
  /\ job \in [sent : BOOLEAN, tries : 0..MaxRetries, retries : 0..MaxRetries + 1,
              report : Reports \cup {"none"}]
  /\ self \in [sent : BOOLEAN, pass : 0..Passes, draft : 0..DraftBound,
               about : 0..DraftBound, answer : Answers \cup {"none"}]
  /\ self.sent \/ self.answer # "none" => self.draft # 0
  /\ feedback \in [due : BOOLEAN, tries : 0..MaxRetries]
  /\ plan \in [PlanStates -> [sent : BOOLEAN, done : BOOLEAN, retries : Nat]]
  /\ busy \subseteq Counters
  /\ tick \in [what : Sends, to : SUBSET (Reviewers \cup {Impl}), rev : Nat,
               draft : 0..DraftBound, bounced : BOOLEAN, busy : BOOLEAN]
  /\ inbox \subseteq [to : Reviewers \cup {Impl}, rev : Nat, draft : 0..DraftBound,
                      what : {"review", "suggestion", "revise", "self"} \cup PlanStates]
  /\ drafts \in 0..DraftBound /\ text \in 0..DraftBound
  /\ given \in [Reviewers -> [verdict : Verdicts \cup {"none"}, rev : Nat]]
  /\ cleared \subseteq 0..DraftBound
  /\ misses \in [Counters -> Nat]
  /\ faults \in Nat /\ cmds \in Nat
  /\ allowed \subseteq Disturbances

Init ==
  /\ mode = FALSE /\ cli = "none"
  /\ state = "IDLE" /\ from = "none" /\ opts = {} /\ rev = 0 /\ limit = 0
  /\ rr = [r \in {} |-> Unasked] /\ entries = NoEntries /\ proposals = {}
  /\ job = NoJob /\ self = NoSelf /\ feedback = NoFeedback /\ plan = NoPlan
  /\ busy = {} /\ drafts = 0 /\ text = 0
  /\ given = NoneGiven /\ cleared = {} /\ misses = NoMisses
  /\ tick = Off /\ inbox = {} /\ faults = 0 /\ cmds = 0
  /\ allowed \in Environments

-----------------------------------------------------------------------------
(* The owner's commands *)

(* --skip-review implies --auto-continue, --review-only the opposite.        *)
Normal(o) ==
  IF "review_only" \in o THEN (o \ {"auto_continue"}) \cup {"no_queue"}
  ELSE IF "skip_review" \in o THEN o \cup {"auto_continue"} ELSE o

(* A spec_config with nothing asked yet                                      *)
NewConfig(r, cycles) ==
  /\ rev' = r /\ limit' = cycles /\ from' = "none"
  /\ entries' = NoEntries /\ proposals' = {}
  /\ job' = NoJob /\ self' = NoSelf /\ feedback' = NoFeedback /\ plan' = NoPlan
  /\ busy' = {} /\ drafts' = 0 /\ text' = 0
  /\ given' = NoneGiven /\ cleared' = {} /\ misses' = NoMisses

(* gokrax spec start: reviewers whose session cannot be reset are left out,  *)
(* even if nobody is left, and the sessions of all others begin anew,        *)
(* without old requests.  The first revision need not be within the limit.   *)
Start ==
  /\ cli = "none" /\ state = "IDLE" /\ ~mode /\ mode' = TRUE
  /\ \E o \in Options, panel \in SUBSET Reviewers :
       /\ ~({"skip_review", "review_only"} \subseteq o)
       /\ "skip_review" \in o => panel = Reviewers
       /\ opts' = Normal(o)
       /\ rr' = [r \in panel |-> Unasked]
       /\ state' = IF "skip_review" \in o THEN "SPEC_APPROVED" ELSE "SPEC_REVIEW"
  /\ \E r \in StartRevs : NewConfig(r, MaxCycles)
  /\ inbox' = {}
  /\ UNCHANGED <<tick, faults, cmds, cli, allowed>>

(* The owner gives one command at a time.                                    *)
Command ==
  /\ "owner" \in allowed /\ cli = "none"
  /\ cmds < CmdBound /\ faults + cmds < FaultBound /\ cmds' = cmds + 1

(* The check of a command whose write comes later; the watchdog and the      *)
(* agents go on in between.                                                  *)
Look(c) ==
  /\ Command /\ state = Checked[c]
  /\ cli' = c
  /\ UNCHANGED <<state, specVars, tick, inbox, faults, mode, allowed>>

(* Its write, which checks nothing again                                     *)
Write(c) == cli = c /\ cli' = "none"

(* gokrax spec approve; without --force the reviews stay where they are.     *)
Approve(force) ==
  /\ Command /\ mode /\ state \in {"SPEC_REVIEW", "SPEC_STALLED", "SPEC_REVISE"}
  /\ force \/ \A r \in Reviewers : entries[r] # "P1"
  /\ state' = "SPEC_APPROVED"
  /\ entries' = IF force THEN NoEntries ELSE entries
  /\ UNCHANGED <<from, opts, rev, limit, rr, proposals, job, self, feedback, plan, busy,
                 drafts, text, given, cleared, misses, tick, inbox, faults, mode, cli,
                 allowed>>

AllUnasked == [r \in DOMAIN rr |-> Unasked]

(* gokrax spec continue, wherever the watchdog has taken the project since   *)
Continue ==
  /\ Write("continue")
  /\ state' = "ISSUE_SUGGESTION" /\ rr' = AllUnasked
  /\ UNCHANGED <<from, opts, rev, limit, entries, proposals, job, self, feedback, plan, busy,
                 drafts, text, given, cleared, misses, tick, inbox, faults, cmds, mode,
                 allowed>>

(* What spec done, spec stop and the watchdog's SPEC_DONE leave behind.      *)
Leave ==
  /\ state' = "IDLE" /\ opts' = {} /\ rr' = [r \in {} |-> Unasked]
  /\ mode' = FALSE /\ NewConfig(0, 0)

Done == Write("done") /\ Leave /\ UNCHANGED <<tick, inbox, faults, cmds, allowed>>

(* What spec stop checks can only turn into what it writes.                  *)
Stop == Command /\ mode /\ Leave /\ UNCHANGED <<tick, inbox, faults, cli, allowed>>

(* gokrax spec retry: a new round of the same revision *)
Retry ==
  /\ Write("retry")
  /\ state' = "SPEC_REVIEW" /\ rr' = AllUnasked /\ entries' = NoEntries
  /\ given' = NoneGiven
  /\ UNCHANGED <<from, opts, rev, limit, proposals, job, self, feedback, plan, busy, drafts,
                 text, cleared, misses, tick, inbox, faults, cmds, mode, allowed>>

(* gokrax spec resume: back to where it was paused, with new timers and a    *)
(* retry count of 0.                                                         *)
Resume ==
  /\ Write("resume")
  /\ state' = from /\ from' = "none"
  /\ rr' = IF from = "SPEC_REVIEW" THEN AllUnasked ELSE rr
  /\ entries' = IF from = "SPEC_REVIEW" THEN NoEntries ELSE entries
  /\ job' = IF from = "SPEC_REVISE" THEN [job EXCEPT !.retries = 0] ELSE job
  /\ plan' = IF from \in PlanStates THEN [plan EXCEPT ![from].retries = 0] ELSE plan
  /\ UNCHANGED <<opts, rev, limit, proposals, self, feedback, busy, drafts, text, given,
                 cleared, misses, tick, inbox, faults, cmds, mode, allowed>>

(* gokrax spec extend *)
Extend ==
  /\ Write("extend") /\ limit < RevBound
  /\ limit' = limit + 1 /\ state' = "SPEC_REVISE"
  /\ UNCHANGED <<from, opts, rev, rr, entries, proposals, job, self, feedback, plan, busy,
                 drafts, text, given, cleared, misses, tick, inbox, faults, cmds, mode,
                 allowed>>

Owner ==
  \/ \E force \in BOOLEAN : Approve(force)
  \/ \E c \in DOMAIN Checked : Look(c)
  \/ Continue \/ Done \/ Stop \/ Retry \/ Resume \/ Extend

-----------------------------------------------------------------------------
(* The agents' commands *)

(* The requests an agent may answer: the one the pipeline is waiting for the *)
(* answer to, or one of the others, if "late".                               *)
Held(a, what, r, d) ==
  {m \in inbox : /\ m.to = a /\ m.what = what
                 /\ "late" \in allowed \/ <<m.rev, m.draft>> = <<r, d>>}

Valid(e) == e \in Verdicts
Received(e) == Valid(e) \/ e = "proposal"

(* gokrax spec review-submit: it says nothing of the revision it is about.   *)
SubmitReview(r, v) ==
  /\ state = "SPEC_REVIEW" /\ r \in DOMAIN rr
  /\ ~Received(entries[r])
  /\ \E m \in Held(r, "review", rev, drafts) :
       given' = [given EXCEPT ![r] = [verdict |-> v, rev |-> m.rev]]
  /\ entries' = [entries EXCEPT ![r] = v]
  /\ rr' = [rr EXCEPT ![r].status = "received"]
  /\ UNCHANGED <<state, from, opts, rev, limit, proposals, job, self, feedback, plan, busy,
                 drafts, text, cleared, misses, tick, inbox, faults, cmds, mode, cli, allowed>>

(* gokrax spec revise-submit, for the revision after the current one.        *)
SubmitRevise(report) ==
  /\ state = "SPEC_REVISE" /\ job.report = "none"
  /\ \E m \in Held(Impl, "revise", rev, drafts) : m.rev = rev
  /\ drafts < DraftBound /\ drafts' = drafts + 1
  /\ job' = [job EXCEPT !.report = report]
  /\ UNCHANGED <<state, from, opts, rev, limit, rr, entries, proposals, self, feedback, plan,
                 busy, text, given, cleared, misses, tick, inbox, faults, cmds, mode, cli,
                 allowed>>

(* gokrax spec self-review-submit: an unreadable answer is stored as well.   *)
SubmitSelf(answer) ==
  /\ state = "SPEC_REVISE" /\ self.sent /\ self.answer = "none"
  /\ \E m \in Held(Impl, "self", rev, self.about) :
       cleared' = IF answer = "clean" THEN cleared \cup {m.draft}
                  ELSE IF answer = "issues" THEN cleared \ {m.draft} ELSE cleared
  /\ self' = [self EXCEPT !.answer = answer]
  /\ UNCHANGED <<state, from, opts, rev, limit, rr, entries, proposals, job, feedback, plan,
                 busy, drafts, text, given, misses, tick, inbox, faults, cmds, mode, cli,
                 allowed>>

(* gokrax spec suggestion-submit *)
SubmitProposal(r) ==
  /\ state = "ISSUE_SUGGESTION" /\ r \in DOMAIN rr /\ rr[r].sent
  /\ ~Received(entries[r])
  /\ Held(r, "suggestion", rev, drafts) # {}
  /\ entries' = [entries EXCEPT ![r] = "proposal"]
  /\ UNCHANGED <<state, from, opts, rev, limit, rr, proposals, job, self, feedback, plan, busy,
                 drafts, text, given, cleared, misses, tick, inbox, faults, cmds, mode, cli,
                 allowed>>

(* gokrax spec issue-submit, gokrax spec queue-submit *)
SubmitPlan(p) ==
  /\ state = p /\ ~plan[p].done
  /\ Held(Impl, p, rev, drafts) # {}
  /\ plan' = [plan EXCEPT ![p].done = TRUE]
  /\ UNCHANGED <<state, from, opts, rev, limit, rr, entries, proposals, job, self, feedback,
                 busy, drafts, text, given, cleared, misses, tick, inbox, faults, cmds, mode,
                 cli, allowed>>

Agents ==
  \/ \E r \in Reviewers, v \in Verdicts : SubmitReview(r, v)
  \/ \E report \in Reports : SubmitRevise(report)
  \/ \E answer \in Answers : SubmitSelf(answer)
  \/ \E r \in Reviewers : SubmitProposal(r)
  \/ \E p \in PlanStates : SubmitPlan(p)

-----------------------------------------------------------------------------
(* The watchdog's tick: decide and record *)

Idle == mode /\ tick = Off

(* What is to be sent once the record is written.                            *)
Ask(what, to, draft) ==
  tick' = IF to = {} THEN Off
          ELSE [what |-> what, to |-> to, rev |-> rev, draft |-> draft,
                bounced |-> FALSE, busy |-> FALSE]

(* Mutant of Pause: where the project was is not recorded.                   *)
MutantPause == state' = "SPEC_PAUSED" /\ from' = from

Pause == state' = "SPEC_PAUSED" /\ from' = state

MinOverride == IF Cardinality(DOMAIN rr) < MinValid THEN Cardinality(DOMAIN rr) ELSE MinValid

(* should_continue_review.  Who approved the revision before counts as       *)
(* approving, once anybody has looked at this one.                           *)
Outcome(es) ==
  LET received == {r \in Reviewers : Valid(es[r])}
      unusable == {r \in Reviewers : es[r] = "proposal"}
      prior == {r \in DOMAIN rr : rr[r].status = "approved_prior" /\ es[r] = "none"}
      counted == IF received = {} THEN {} ELSE received \cup prior
  IN  IF Cardinality(counted) < MinOverride
        THEN IF unusable # {} THEN "SPEC_PAUSED" ELSE "SPEC_REVIEW_FAILED"
      ELSE IF \A r \in received : es[r] = "APPROVE" THEN "SPEC_APPROVED"
      ELSE IF rev >= limit THEN "SPEC_STALLED" ELSE "SPEC_REVISE"

Unsent == {r \in DOMAIN rr : rr[r].status = "pending" /\ ~rr[r].sent}
Pending == {r \in DOMAIN rr : rr[r].status = "pending" /\ rr[r].sent}

(* SPEC_REVIEW: ask who was not asked, give up who is late, and decide once  *)
(* nobody is pending; an empty panel decides nothing.                        *)
ReviewTick(late) ==
  /\ Idle /\ state = "SPEC_REVIEW"
  /\ LET es == [r \in Reviewers |-> IF r \in late THEN "timeout" ELSE entries[r]]
         decided == DOMAIN rr # {} /\ Unsent = {} /\ Pending \subseteq late
         next == Outcome(es)
     IN  /\ rr' = [r \in DOMAIN rr |->
                     IF r \in late THEN [rr[r] EXCEPT !.status = "timeout"]
                     ELSE IF r \in Unsent THEN [rr[r] EXCEPT !.sent = TRUE] ELSE rr[r]]
         /\ state' = IF decided THEN next ELSE state
         /\ entries' = IF decided /\ next = "SPEC_APPROVED" THEN NoEntries ELSE es
         /\ from' = IF decided /\ next = "SPEC_PAUSED" THEN state ELSE from
  /\ UNCHANGED <<opts, rev, limit, proposals, job, self, feedback, plan, busy, drafts, text,
                 given, cleared, misses, inbox, faults, cmds, mode, cli, allowed>>
  /\ Ask("review", Unsent, drafts)

(* The branches of SPEC_REVISE, in their order *)
Branch ==
  IF self.answer # "none" THEN "answered"
  ELSE IF feedback.due THEN "feedback"
  ELSE IF self.draft # 0 THEN IF self.sent THEN "reviewing" ELSE "unsent"
  ELSE IF job.report # "none" THEN "reported"
  ELSE IF ~job.sent /\ \E r \in Reviewers : Valid(entries[r]) THEN "unasked"
  ELSE "working"

Revising(branch) == Idle /\ state = "SPEC_REVISE" /\ Branch = branch

(* Mutant of Carried: who approved once is not asked again.                     *)
MutantCarried(r) ==
  IF entries[r] = "APPROVE" \/ rr[r].status = "approved_prior"
  THEN [Unasked EXCEPT !.status = "approved_prior"] ELSE Unasked

(* Who approved this revision is not asked about the next one                *)
(* (build_revise_completion_updates).                                        *)
Carried(r) ==
  IF entries[r] = "APPROVE" THEN [Unasked EXCEPT !.status = "approved_prior"] ELSE Unasked

(* Mutant of SelfClean: an unreadable answer passes for a clean one.         *)
MutantSelfClean ==
  /\ Revising("answered") /\ self.answer # "issues"
  /\ state' = "SPEC_REVIEW" /\ rev' = rev + 1 /\ text' = self.draft
  /\ rr' = [r \in DOMAIN rr |-> Carried(r)]
  /\ entries' = NoEntries
  /\ job' = [NoJob EXCEPT !.retries = job.retries]
  /\ self' = NoSelf /\ feedback' = NoFeedback /\ busy' = {} /\ misses' = NoMisses
  /\ UNCHANGED <<from, opts, limit, proposals, plan, drafts, given, cleared, tick, inbox,
                 faults, cmds, mode, cli, allowed>>

(* The author finds its revision clean: the next revision is reviewed.       *)
SelfClean ==
  /\ Revising("answered") /\ self.answer = "clean"
  /\ state' = "SPEC_REVIEW" /\ rev' = rev + 1 /\ text' = self.draft
  /\ rr' = [r \in DOMAIN rr |-> Carried(r)]
  /\ entries' = NoEntries
  /\ job' = [NoJob EXCEPT !.retries = job.retries]
  /\ self' = NoSelf /\ feedback' = NoFeedback /\ busy' = {} /\ misses' = NoMisses
  /\ UNCHANGED <<from, opts, limit, proposals, plan, drafts, given, cleared, tick, inbox,
                 faults, cmds, mode, cli, allowed>>

(* It finds something: the implementer is told, and reports again.           *)
SelfIssues ==
  /\ Revising("answered") /\ self.answer = "issues"
  /\ self' = NoSelf
  /\ job' = [job EXCEPT !.sent = TRUE, !.report = "none"]
  /\ misses' = [misses EXCEPT !["self"] = 0]
  /\ UNCHANGED <<state, from, opts, rev, limit, rr, entries, proposals, feedback, plan, busy,
                 drafts, text, given, cleared, inbox, faults, cmds, mode, cli, allowed>>
  /\ Ask("issues", {Impl}, drafts)

(* A self review that fails, unreadable or late, is asked for again until    *)
(* its passes are used up; the draft stays for a resume.  The new request is *)
(* made without the pending updates: it is about the revision before.        *)
SelfFails ==
  /\ IF self.pass + 1 >= Passes
     THEN /\ Pause /\ tick' = Off
          /\ self' = [NoSelf EXCEPT !.draft = self.draft, !.about = self.about]
          /\ busy' = busy \ {"self"} /\ misses' = [misses EXCEPT !["self"] = 0]
     ELSE /\ self' = [self EXCEPT !.sent = TRUE, !.answer = "none", !.pass = @ + 1,
                                   !.about = text]
          /\ misses' = [misses EXCEPT !["self"] = @ + 1]
          /\ Ask("self", {Impl}, text)
          /\ UNCHANGED <<state, from, busy>>
  /\ UNCHANGED <<opts, rev, limit, rr, entries, proposals, job, feedback, plan, drafts, text,
                 given, cleared, inbox, faults, cmds, mode, cli, allowed>>

SelfJunk == Revising("answered") /\ self.answer = "junk" /\ SelfFails

SelfLate == Revising("reviewing") /\ SelfFails

(* What the author found could not be delivered: again, or give up.          *)
SendFeedback ==
  /\ Revising("feedback")
  /\ feedback' = [due |-> FALSE,
                  tries |-> IF feedback.tries >= MaxRetries THEN 0 ELSE feedback.tries + 1]
  /\ IF feedback.tries >= MaxRetries
     THEN /\ Pause /\ busy' = busy \ {"feedback"} /\ tick' = Off
          /\ misses' = [misses EXCEPT !["feedback"] = 0]
     ELSE Ask("feedback", {Impl}, drafts) /\ UNCHANGED <<state, from, busy, misses>>
  /\ UNCHANGED <<opts, rev, limit, rr, entries, proposals, job, self, plan, drafts, text,
                 given, cleared, inbox, faults, cmds, mode, cli, allowed>>

(* The request for a self review could not be delivered: again, or give up   *)
(* and forget the draft.                                                     *)
SendSelf ==
  /\ Revising("unsent")
  /\ IF self.pass >= Passes
     THEN /\ Pause /\ self' = NoSelf /\ busy' = busy \ {"self"} /\ tick' = Off
          /\ misses' = [misses EXCEPT !["self"] = 0]
     ELSE /\ self' = [self EXCEPT !.sent = TRUE, !.pass = @ + 1, !.about = self.draft]
          /\ Ask("self", {Impl}, self.draft)
          /\ UNCHANGED <<state, from, busy, misses>>
  /\ UNCHANGED <<opts, rev, limit, rr, entries, proposals, job, feedback, plan, drafts, text,
                 given, cleared, inbox, faults, cmds, mode, cli, allowed>>

(* The implementer's report: its author reviews it first, if it changed      *)
(* anything.                                                                 *)
Reported ==
  /\ Revising("reported")
  /\ job' = [job EXCEPT !.report = "none"]
  /\ IF job.report = "nochange"
     THEN Pause /\ tick' = Off /\ UNCHANGED <<self, misses>>
     ELSE /\ self' = [NoSelf EXCEPT !.sent = TRUE, !.draft = drafts, !.about = drafts]
          /\ misses' = [misses EXCEPT !["self"] = 0]
          /\ Ask("draft", {Impl}, drafts)
          /\ UNCHANGED <<state, from>>
  /\ UNCHANGED <<opts, rev, limit, rr, entries, proposals, feedback, plan, busy, drafts, text,
                 given, cleared, inbox, faults, cmds, mode, cli, allowed>>

(* The implementer is asked for a revision, or was in vain too often.        *)
AskRevise ==
  /\ Revising("unasked")
  /\ IF job.tries >= MaxRetries
     THEN /\ Pause /\ tick' = Off
          /\ job' = [job EXCEPT !.tries = 0] /\ busy' = busy \ {"revise"}
          /\ misses' = [misses EXCEPT !["revise"] = 0]
     ELSE /\ job' = [job EXCEPT !.sent = TRUE, !.tries = @ + 1]
          /\ Ask("revise", {Impl}, drafts)
          /\ UNCHANGED <<state, from, busy, misses>>
  /\ UNCHANGED <<opts, rev, limit, rr, entries, proposals, self, feedback, plan, drafts, text,
                 given, cleared, inbox, faults, cmds, mode, cli, allowed>>

(* The implementer is late: count it, or give up.  Nothing is sent again.    *)
ReviseLate ==
  /\ Revising("working")
  /\ job' = [job EXCEPT !.retries = @ + 1]
  /\ IF job.retries >= MaxRetries THEN Pause ELSE UNCHANGED <<state, from>>
  /\ UNCHANGED <<opts, rev, limit, rr, entries, proposals, self, feedback, plan, busy, drafts,
                 text, given, cleared, misses, tick, inbox, faults, cmds, mode, cli, allowed>>

(* SPEC_APPROVED: to the end or on to the issues, if not to wait for M.      *)
ApprovedTick ==
  /\ Idle /\ state = "SPEC_APPROVED" /\ opts \cap {"review_only", "auto_continue"} # {}
  /\ IF "review_only" \in opts THEN state' = "SPEC_DONE" /\ rr' = rr
     ELSE state' = "ISSUE_SUGGESTION" /\ rr' = AllUnasked
  /\ UNCHANGED <<from, opts, rev, limit, entries, proposals, job, self, feedback, plan, busy,
                 drafts, text, given, cleared, misses, tick, inbox, faults, cmds, mode, cli,
                 allowed>>

(* ISSUE_SUGGESTION: an answer that came in is read whether late or not;     *)
(* one that is no suggestion, like a review left in its place, is unusable.  *)
SuggestionTick(late) ==
  /\ Idle /\ state = "ISSUE_SUGGESTION"
  /\ LET in == {r \in Pending : Received(entries[r])}
         usable == {r \in in : entries[r] = "proposal"}
         decided == DOMAIN rr # {} /\ Unsent = {} /\ Pending \subseteq late \cup in
         status(r) == IF r \in usable THEN "received"
                      ELSE IF r \in in THEN "parse_failed"
                      ELSE IF r \in late THEN "timeout" ELSE rr[r].status
     IN  /\ proposals' = proposals \cup usable
         /\ rr' = IF decided /\ proposals' # {} THEN AllUnasked
                  ELSE [r \in DOMAIN rr |-> [status |-> status(r),
                                             sent |-> rr[r].sent \/ r \in Unsent]]
         /\ IF ~decided THEN UNCHANGED <<state, from>>
            ELSE IF proposals' = {} THEN Pause
            ELSE state' = "ISSUE_PLAN" /\ from' = from
  /\ UNCHANGED <<opts, rev, limit, entries, job, self, feedback, plan, busy, drafts, text,
                 given, cleared, misses, inbox, faults, cmds, mode, cli, allowed>>
  /\ Ask("suggestion", Unsent, drafts)

(* ISSUE_PLAN and QUEUE_PLAN *)
PlanDone(p) ==
  /\ Idle /\ state = p /\ plan[p].done
  /\ plan' = [plan EXCEPT ![p].done = FALSE, ![p].sent = FALSE]
  /\ state' = IF p = "ISSUE_PLAN" /\ "no_queue" \notin opts THEN "QUEUE_PLAN"
              ELSE "SPEC_DONE"
  /\ UNCHANGED <<from, opts, rev, limit, rr, entries, proposals, job, self, feedback, busy,
                 drafts, text, given, cleared, misses, tick, inbox, faults, cmds, mode, cli,
                 allowed>>

AskPlan(p) ==
  /\ Idle /\ state = p /\ ~plan[p].done /\ ~plan[p].sent
  /\ plan' = [plan EXCEPT ![p].sent = TRUE]
  /\ UNCHANGED <<state, from, opts, rev, limit, rr, entries, proposals, job, self, feedback,
                 busy, drafts, text, given, cleared, misses, inbox, faults, cmds, mode, cli,
                 allowed>>
  /\ Ask(p, {Impl}, drafts)

(* Mutant of PlanLate: the request is sent again without being counted.      *)
MutantPlanLate(p) ==
  /\ Idle /\ state = p /\ ~plan[p].done /\ plan[p].sent
  /\ plan' = [plan EXCEPT ![p].sent = plan[p].retries >= MaxRetries]
  /\ IF plan[p].retries >= MaxRetries THEN Pause ELSE UNCHANGED <<state, from>>
  /\ UNCHANGED <<opts, rev, limit, rr, entries, proposals, job, self, feedback, busy, drafts,
                 text, given, cleared, misses, tick, inbox, faults, cmds, mode, cli, allowed>>

(* The implementer is late: the request is sent again, up to a limit.        *)
PlanLate(p) ==
  /\ Idle /\ state = p /\ ~plan[p].done /\ plan[p].sent
  /\ plan' = [plan EXCEPT ![p].retries = @ + 1,
                          ![p].sent = plan[p].retries >= MaxRetries]
  /\ IF plan[p].retries >= MaxRetries THEN Pause ELSE UNCHANGED <<state, from>>
  /\ UNCHANGED <<opts, rev, limit, rr, entries, proposals, job, self, feedback, busy, drafts,
                 text, given, cleared, misses, tick, inbox, faults, cmds, mode, cli, allowed>>

DoneTick ==
  /\ Idle /\ state = "SPEC_DONE" /\ Leave
  /\ UNCHANGED <<tick, inbox, faults, cmds, cli, allowed>>

Prompt ==
  \/ ReviewTick({}) \/ SelfClean \/ SelfIssues \/ SelfJunk
  \/ SendFeedback \/ SendSelf \/ Reported \/ AskRevise \/ ApprovedTick
  \/ SuggestionTick({}) \/ DoneTick
  \/ \E p \in PlanStates : PlanDone(p) \/ AskPlan(p)

(* A tick that sees timers expired; the slowest one sees all of them.        *)
Expired(late) ==
  \/ ReviewTick(late) \/ SuggestionTick(late)
  \/ SelfLate \/ ReviseLate \/ \E p \in PlanStates : PlanLate(p)

-----------------------------------------------------------------------------
(* The watchdog's tick: send, and take back what could not be sent *)

Message(what) ==
  CASE what \in {"revise", "issues", "feedback"} -> "revise"
    [] what \in {"draft", "self"} -> "self"
    [] OTHER -> what

(* Each agent takes its message, is busy or fails.  Being busy for too long  *)
(* is a failure.                                                             *)
Send ==
  /\ tick.what # "none" /\ ~tick.bounced
  /\ \E failed \in SUBSET tick.to : \E atWork \in SUBSET (tick.to \ failed), tooLong \in BOOLEAN :
       /\ failed # {} => "fail" \in allowed
       /\ atWork # {} => "busy" \in allowed
       /\ tooLong => atWork # {} /\ tick.what \in busy
       /\ failed \cup atWork # {} => faults + cmds < FaultBound
       /\ inbox' = inbox \cup {[to |-> a, what |-> Message(tick.what), rev |-> tick.rev,
                                 draft |-> tick.draft] : a \in tick.to \ (failed \cup atWork)}
       /\ IF failed \cup atWork = {}
          THEN /\ tick' = Off /\ busy' = busy \ {tick.what} /\ faults' = faults
               /\ misses' = IF tick.what \in {"revise", "feedback"}
                            THEN [misses EXCEPT ![tick.what] = @ + 1] ELSE misses
          ELSE /\ tick' = [tick EXCEPT !.to = failed \cup atWork, !.bounced = TRUE,
                                       !.busy = atWork # {} /\ ~tooLong]
               /\ faults' = faults + 1 /\ UNCHANGED <<busy, misses>>
  /\ UNCHANGED <<state, from, opts, rev, limit, rr, entries, proposals, job, self, feedback,
                 plan, drafts, text, given, cleared, cmds, mode, cli, allowed>>

(* Mutant of Spared: an agent at work is a failed one.                       *)
MutantSpared(n) == n

(* One less, if the agent was only busy *)
Spared(n) == IF tick.busy /\ n > 0 THEN n - 1 ELSE n

(* The record of the request is taken back, in whatever state the pipeline   *)
(* is by now.                                                                *)
Rollback ==
  /\ tick.bounced
  /\ LET w == tick.what IN
     /\ job' = IF w = "revise" THEN [job EXCEPT !.sent = FALSE, !.tries = Spared(@)] ELSE job
     /\ self' = CASE w = "self" -> [self EXCEPT !.sent = FALSE, !.pass = Spared(@)]
                  [] w = "draft" -> [self EXCEPT !.sent = FALSE]
                  [] OTHER -> self
     /\ feedback' = CASE w = "feedback" -> [due |-> TRUE, tries |-> Spared(feedback.tries)]
                      [] w = "issues" -> [feedback EXCEPT !.due = TRUE]
                      [] OTHER -> feedback
     /\ rr' = IF w \in {"review", "suggestion"}
              THEN [r \in DOMAIN rr |-> IF r \in tick.to THEN [rr[r] EXCEPT !.sent = FALSE]
                                        ELSE rr[r]]
              ELSE rr
     /\ busy' = IF w \in Counters /\ tick.busy THEN busy \cup {w} ELSE busy \ {w}
     /\ misses' = IF w \in Counters /\ ~tick.busy THEN [misses EXCEPT ![w] = @ + 1]
                  ELSE IF w = "draft" /\ ~tick.busy THEN [misses EXCEPT !["self"] = @ + 1]
                  ELSE misses
  /\ tick' = Off
  /\ UNCHANGED <<state, from, opts, rev, limit, entries, proposals, plan, drafts, text, given,
                 cleared, inbox, faults, cmds, mode, cli, allowed>>

(* The watchdog dies with its messages unsent or its record not taken back.  *)
Crash ==
  /\ "crash" \in allowed /\ tick # Off /\ faults + cmds < FaultBound
  /\ tick' = Off /\ faults' = faults + 1
  /\ UNCHANGED <<state, specVars, inbox, cmds, mode, cli, allowed>>

-----------------------------------------------------------------------------
Next ==
  \/ Start \/ Owner \/ Agents \/ Prompt \/ Send \/ Rollback \/ Crash
  \/ \E late \in SUBSET Pending : Expired(late)

Spec == Init /\ [][Next]_vars

(* The watchdog keeps ticking, and every timer expires.                      *)
FairSpec ==
  /\ Spec
  /\ WF_vars(Prompt) /\ WF_vars(Send) /\ WF_vars(Rollback)
  /\ WF_vars(Expired(Pending))

-----------------------------------------------------------------------------
(* Properties *)

(* A revision that was made here is reviewed only after its author has found *)
(* clean the text it was last asked about, whatever was sent twice, answered *)
(* unreadably, timed out or resumed before: this very text, or, when it was  *)
(* asked again after an unreadable or a late answer, the one before, which   *)
(* that request names.  Unless agents answer older requests.                 *)
CheckedBeforeReview ==
  [][state = "SPEC_REVISE" /\ state' = "SPEC_REVIEW" /\ "late" \notin allowed =>
       self.about \in cleared \cap {text, text'}]_vars

(* The watchdog approves a revision on the word of enough reviewers, each    *)
(* about this revision or the one before it, with one about this revision at *)
(* least and none against it; unless reviewers answer older requests.        *)
Approving(r, n) == given[r].verdict = "APPROVE" /\ given[r].rev \in n
ApprovedOnEvidence ==
  [][state = "SPEC_REVIEW" /\ state' = "SPEC_APPROVED" /\ cmds' = cmds
       /\ "late" \notin allowed =>
       /\ \E r \in DOMAIN rr : Approving(r, {rev})
       /\ \A r \in DOMAIN rr : given[r].rev = rev => Approving(r, {rev})
       /\ Cardinality({r \in DOMAIN rr : Approving(r, {rev - 1, rev})}) >= MinOverride]_vars

(* Finding the agent at work uses up none of the sends of a request: while   *)
(* it waits to be sent again, its counter does not exceed the sends that     *)
(* failed or arrived since it was reset.  A rollback lost in a crash, or one *)
(* that comes after stop and a new start, may count otherwise.               *)
OnlyFailuresCount ==
  Idle /\ allowed \cap {"crash", "owner"} = {} =>
    /\ ~job.sent => job.tries <= misses["revise"]
    /\ feedback.due => feedback.tries <= misses["feedback"]

(* Left to the watchdog, spec mode comes to rest: it ends, or waits for the  *)
(* owner.  No lost request, dead agent or crash keeps it waiting for ever,   *)
(* save where a panel without reviewers is asked: after a start none of      *)
(* whose reviewers could be reset, and after a continue that was overtaken   *)
(* by the end of spec mode.  There it does wait for ever.  FairSpec.         *)
Resting ==
  \/ state \in Waits \cup {"IDLE"}
  \/ state = "SPEC_APPROVED" /\ opts \cap {"review_only", "auto_continue"} = {}
Deserted == state \in {"SPEC_REVIEW", "ISSUE_SUGGESTION"} /\ DOMAIN rr = {}
SpecEnds == []<>(Resting \/ Deserted)
=============================================================================
