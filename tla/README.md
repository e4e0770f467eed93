# gokrax in TLA+

gokrax drives batches of issues through design, implementation and code review
with AI agents as reviewers and implementers. Its state is one JSON file per
project; a *watchdog* reads it every ten seconds and moves it on, and reviewers,
implementers and the owner change it with the `gokrax` command. This directory
holds a formal model of it: TLA+ modules translated from the Python sources,
TLC configurations that check them on small instances, and theorems that the
TLA+ proof system checks for every instance.

- [The system](#the-system): inventory of components
- [The modules](#the-modules): which models what, and how they compose
- [The review cycle](#the-review-cycle), [The test gate](#the-test-gate),
  [The pipeline of a batch](#the-pipeline-of-a-batch), [The task queue](#the-task-queue),
  [Spec mode](#spec-mode), [The outbox](#the-outbox), [The agents' sessions](#the-agents-sessions):
  what is modelled and how it reads
- [Runs](#runs), [Proofs](#proofs), [Where code and documentation differ](#where-code-and-documentation-differ),
  [What is left out](#what-is-left-out), [What comes next](#what-comes-next)

## The system

**Review cycle of a phase** (`engine/fsm.py`, `engine/reviewer.py`,
`watchdog.py`, `commands/dev/review.py`, `commands/dev/lifecycle.py`).
*State*: the phase's part of the pipeline: `state`, `design_reviews` /
`code_reviews` per issue, `design_revised`, `flags`, `disputes`,
`excluded_reviewers`, `min_reviews_override`, `design_revise_count`,
`max_design_revise_cycles`, `_npass_target_reviewers`,
`design_min_reviews_met_at`, `blocked_reason`. *Operations*: `review`,
`dispute`, `flag`, `design-revise`, `code-revise`, `exclude`, `transition`
with `--force` and `--resume`, and `check_transition` with the effects of
`do_transition`. *Hard*: commands that arrive rounds late, reviewers that stay
silent or answer in part, disputes that outlive rounds, the grace period, the
owner's interference at any point. *Correct when*: nothing is approved over a
blocking verdict or an open dispute, or without a quorum; no stale verdict
counts; no approval is lost; every phase ends.

**Development pipeline** (`engine/fsm.py`, `watchdog.py`,
`commands/dev/lifecycle.py`, `engine/cleanup.py`). *State*: `state` from IDLE
over INITIALIZE, DESIGN_*, ASSESSMENT, IMPLEMENTATION, CODE_* to
MERGE_SUMMARY_SENT and DONE; batch, review mode, options. *Operations*:
`start`, `plan-done`, `assess-done`, `commit`, `reset`, `transition`, ticks.
*Hard*: side effects after the lock is released, a reviewer reset that takes
minutes between the transition and the storing of its outcome. *Correct when*
every watchdog step follows an edge of `VALID_TRANSITIONS`, the design phase is
over before code is reviewed, IDLE leaves nothing of the last batch.

**Pipeline store** (`pipeline_io.py`). *State*: the JSON and its lock file.
*Operations*: `load_pipeline`, `update_pipeline`, `save_pipeline`. *Hard*:
crash between temporary file and rename, readers without the lock. *Correct
when* updates are serialised and a reader sees a whole version.

**Pending notifications** (`pipeline_io.py`, `engine/fsm.py`, `notify.py`).
*State*: `_pending_notifications`, a map from a key to what has to be sent.
*Operations*: merge within a transaction, send, clear, recover, prune what is
stale. *Hard*: crashes between sending and clearing, the same key stored again
meanwhile, recovery from a snapshot. *Correct when* every stored notification
is sent at least once or its state is over.

**Code test loop** (`engine/cc.py`, `watchdog.py`, `engine/fsm.py`). *State*:
`_code_test`, `test_result`, `test_retry_count`, `cc_pid`, a test process with
its exit file, a fixing agent. *Operations*: start, poll, kill, fix, retry,
clean up. *Hard*: both processes are detached and known by a pid that a crash
between start and record loses; the poll reads and saves in two steps; a record
outlives BLOCKED and resume. *Correct when* only code whose own test passed
goes to review, fixes are bounded and answer the failure on record, tests and
agents do not overlap, and the gate is always left.

**Merge gate** (`engine/fsm.py`, `engine/cc.py`, `watchdog.py`,
`commands/dev/lifecycle.py`). *State*: `summary_message_id`, `automerge`,
state. *Operations*: post the summary, await the owner's reply or `ok`,
automerge, push and close. *Hard*: roll back after a failed post. *Correct
when* nothing is pushed without approval or automerge.

**Task queue** (`task_queue.py`, `commands/dev/queue.py`, `watchdog.py`).
*State*: the queue file's lines, active or done, and a wait file. *Operations*:
pop, mark done, restore, append, replace, delete, wait, qrun. *Hard*: choice
without the lock, lock refused to the restorer, commands executed twice after a
crash. *Correct when* no entry starts twice or disappears unstarted.

**Timeouts, nudges, extensions** (`engine/fsm.py`,
`commands/dev/lifecycle.py`). *State*: time of entry, `timeout_extension`,
`extend_count`, notice marks. *Hard*: an extension racing the timeout.
*Correct when* the total extension is bounded and none is granted after the
deadline.

**Watchdog loop** (`watchdog.py`, `watchdog-loop.sh`, `gokrax.py`). *State*:
lock file, pid file, child group, error counts. *Hard*: start and stop from
several commands. *Correct when* there is one loop, and one whenever a project
is enabled.

**Spec mode** (`engine/fsm_spec.py`, `commands/spec.py`, `spec_review.py`,
`spec_revise.py`, `spec_issue.py`). *State*: `SPEC_*` states and `spec_config`
with requests per reviewer, retries, self-review passes. *Hard*: busy agents,
messages sent after the lock with a roll-back of the bookkeeping, timeouts
racing answers. *Correct when* every request is answered, retried or given up
within its bounds.

**Agent backends and quota fallback** (`engine/backend*.py`,
`engine/*_quota.py`, `engine/fallback_cache.py`, `engine/cci_runner.py`).
*State*: per agent and backend a session id, a process record, a marker, a lock;
per provider a cache that says until when sends go to the fallback backend.
*Operations*: `send`, `is_inactive`, `soft_reap`, `reset_session`,
`should_fallback`. *Hard*: an agent is shared by projects, by the watchdog and
by commands; its process outlives them all and may hang, die or resist being
killed; the fallback period may begin or end between a reset and the send after
it. *Correct when* one process at a time writes a session, a reset is not undone
by a later send, and every request is answered in the end.

**Messages, configuration, GitLab access, progress, boost, set-up**: texts,
constants and calls of other programs; no concurrent state of their own.

*Interaction.* All actors meet in the pipeline file: a command is one
`update_pipeline` transaction; a watchdog tick first evaluates
`check_transition` on an unlocked copy and, if that asks for something, takes
the lock, checks that the state's name is unchanged, evaluates again on the
locked data and applies the outcome. Messages, process starts and GitLab notes
follow after the lock, recorded as pending within it.

## The modules

| Module | Content | Promise |
|---|---|---|
| `ReviewRules`, `ReviewCycle` | review cycle of one phase | implements `Phase` |
| `CodeTest` | test process, poll, timeout, fix, retries | implements `Gate` |
| `DevPipeline` | a batch from IDLE to IDLE; built from `Phase` (twice) and `Gate` | implements `BatchLife` |
| `TaskQueue` | queue file, runners, Discord, wait, the watchdog loop | implements `Fifo` |
| `SpecCycle` | spec mode: review, revise, self-review, plans | |
| `Delivery` | outbox, recovery, nudges, commands by hand | |
| `AgentSessions` | one agent's processes and sessions on all backends | |
| `Phase`, `Gate`, `BatchLife`, `Fifo` | the abstract specifications | |
| `CodeTestClaims`, `DevPipelineClaims` | what documents say and the code does not do | |
| `MC*` | instances for TLC | |
| `*_proofs` | theorems and lemmas | |

The composition is by contract. `ReviewCycle` is too large to be put twice into
a pipeline, so TLC shows that it implements `Phase` (`PhaseImplemented`), and
`DevPipeline` uses the actions of `Phase` for both of its phases; in the same
way `CodeTest` implements `Gate` (`GateImplemented`), which is `DevPipeline`'s
test gate. `Fifo` is what the queue promises the owner, `BatchLife` what a
batch promises: delivered at most once, after consent, before the next begins.

## The review cycle

`ReviewRules` holds the pure functions of a phase: the effective members, the
quorum with its overrides, what counts as reviewed, the outcome of a complete
review, what a finished revision wipes. `ReviewCycle` is the state machine.
`MCReviewCycle` gives instances.

The state names drop their prefix: `REVIEW` is `DESIGN_REVIEW` or `CODE_REVIEW`.
Every variable is a field of the pipeline file, listed with its comment in the
module; these are less obvious:

- `reviews[i][r].pass` is capped at the reviewer's target, the only value it is
  compared with. `fresh` stands for "`at` is later than the entry into the
  N-pass state", `late` marks an entry written by a command of an ended round.
- `filed` and `accepted` are the `disputes` of an issue: the verdict under a
  pending one, and the pairs with one accepted for a verdict other than
  APPROVE, which is all `_awaiting_dispute_re_review` distinguishes.
- `metAt` is `*_min_reviews_met_at`: absent, set, or set longer than
  `grace_period_sec` ago. `overdue` says that the state's timer, extensions
  included, has run out.
- `blocked` is what resume reads: where the last move to BLOCKED in the history
  came from, and whether `blocked_reason` is a timeout.
- `prompted` and `spent` are history: who holds a review command of the round
  in progress and who holds one of an ended round, with its number. They make
  "a late command" something an invariant can speak of.

| Action | Code |
|---|---|
| `ReviewArrives`, `DisputeAnswered` | `cmd_review` in the review states and in REVISE |
| `Dispute`, `Revise`, `Flag`, `Exclude` | the commands of these names |
| `Resume`, `ForceReview`, `Transition` | `cmd_transition` with `--resume`, with `--force`, along an edge |
| `FlagEndsReview`, `StartGrace`, `EnterNpass`, `Decide`, `ReviewTimeout`, `Nudge` | the REVIEW branch of `check_transition` and what `do_transition` adds to it |
| `NextPass`, `NpassDecide`, `NpassEarly` | the NPASS branch |
| `ReReview`, `ReviseTimeout` | the REVISE branch |
| `TimerExpires`, `GraceExpires` | time |

A watchdog action is one whole locked evaluation: the transition, the counter,
the exclusion of silent reviewers with the new override, the targets, the wipe.
The unlocked first look decides only whether the lock is taken at all, and the
locked evaluation does not use its result, so it is not a step of its own.

`Commands` selects the owner's commands a behaviour may contain. Each property
names the commands under which it holds; the runs and the theorems restrict
`Commands` in the same way.

`PhaseImplemented` maps it to `Phase`: `mode` is the state, `objected` says that
some issue has a P0, P1 or REJECT, `left` is what the limit leaves of the cycles.
Everything else, quorum, passes, grace, targets, is hidden by it. It holds under
`exclude` and `resume`; a flag, a force or a manual transition breaks the promise
by intent.

An operator named `Mutant...` in front of a definition, in this and every other
module, is that definition with a slip a programmer could make; no specification
uses it. Replacing the definition by it violates one of the properties, which
shows that the property depends on that piece of the code.

## The test gate

`CodeTest` models CODE_TEST and CODE_TEST_FIX, between an implementation or
revision (`IMPLEMENT`) and CODE_REVIEW. Here a watchdog tick is not atomic:
`wd` says where in its tick the watchdog is and `job` what it carries along.

| Steps of a tick (`wd`) | Code |
|---|---|
| idle → save → idle: `PollCollect` or `PollTimeout`, then `PollSave` | `_poll_code_test` reads the record and the files, kills or removes, then saves the result |
| idle → launch → record → idle: `ImplementDone` or `FixDone`, `Launch`, `RecordTest` | transition to CODE_TEST, `Popen` in `_start_code_test`, `_save_code_test` |
| idle → launchFix → recordFix → idle: `TestFailed`, `LaunchFix`, `RecordFix` | transition to CODE_TEST_FIX, `Popen` in `_start_cc_test_fix`, `_save_cc_info` |
| `LaunchFails`, `LaunchFixFails` | the exception handlers around them, which force BLOCKED |
| `TestPassed`, `TestStalled`, `FixStalled` | the remaining branches of `check_transition` |

`Crash` loses a tick anywhere between two of its steps; a process it has started
and not recorded becomes a `stray`. `test` is the `_code_test` record with the
process and the exit file it names: the process runs, has the exit file open
(the shell creates it before it writes the code, so a poll can read it empty:
`int('')` fails and the result is a failure), has written it, or is gone.
`cc` is `cc_pid`, with the retry its agent was started for. `code` is a version
of the working tree, raised by the implementer's and the agents' commits; a test
belongs to the version it is started on. `passed` is history: the version of
the last passing test collected. `allowed`, chosen at the start, is the set of
disturbances a behaviour may meet, so one run compares several.

What `FixBeforeRetest` and `FixWithinLimit` say holds in every environment.
`ReviewedIsTested` and `Apart` need that the owner neither resumes nor resets:
both leave a fixing agent running, unknown to the next batch or revision, and
resume keeps an old `_code_test` record (see `claim_test_gate`).
`GateImplemented` maps the module to `Gate` and holds in every environment:
which code was tested is not part of the promise.

Assumed: the implementer commits before he reports, and his own agent changes
nothing afterwards; whoever reads the working tree reads one version. The
implementer's report and the review are environment; `ReviewCycle` has them.

## The pipeline of a batch

`DevPipeline` takes a batch from `gokrax start` over INITIALIZE, the design
phase, ASSESSMENT, IMPLEMENTATION, the test gate, the code phase and the merge
to DONE and the clean-up. A tick is a transaction followed by work outside the
lock: `wd` says what the tick is at (`reset`, `start`, `record`, `post`, `save`,
`rollback`, `push`, `close`), `job` what it has in hand; the second transaction
is written whatever has happened since. `own` is an owner's command between
reading and writing (`merge-summary`, `reset`).

| Actions | Code |
|---|---|
| `Start`, `Initialize`, `SaveRoster` | `cmd_start`, INITIALIZE in `process`, `_reset_reviewers` and its result |
| `PlanDone`, `DesignPlanned`, `DesignApproved`, `AssessDone`, `Assessed`, `AllTooRisky`, `TooRisky` | `plan-done`, `assess-done` and the branches of `check_transition`; the risk filter |
| `StartAgent`, `NoStart`, `RecordAgent`, `AgentCommits`, `AgentGivesUp`, `AgentDies`, `HandCommit` | `_start_cc`, `_save_cc_info`, the agent's script, `commit` |
| `ReviewDecides`, `DesignRevised`, `CodeRevised`, `Speak` | actions of `Phase` under the pipeline's states |
| `TestReports`, `TestDecides` | actions of `Gate` |
| `SummaryDue`, `PostSummary`, `SaveSummaryId`, `Rollback`, `Merge`, `DirtyBlock`, `Push`, `Finish` | the merge: `do_transition` and the CODE_APPROVED / MERGE_SUMMARY_SENT branches |
| `Ok`, `Reply`, `SummaryRead`/`Write`, `ResetRead`/`Write`, `Block`, `Switch`, `Resume` | the owner's commands and his reply on Discord |
| `StateTimer`, `DirtyTimer`, `DesignTimeout`, `ImplementationTimeout`, `Tree`, `Crash` | time, a dirty working tree, a dying watchdog |

`stray` are live agents that no record names; `roster` is the batch that
`reviewer_number_map` was drawn for. `overtaken` (history) is set when an owner's
command writes over a tick that is at work, or the other way round: what the
properties say is said short of that; the list of
[differences](#where-code-and-documentation-differ) has what happens then. `allowed` is the set of disturbances a behaviour may meet; the run
compares four such sets, chosen so that each pair that interacts is in one.

## The task queue

In `TaskQueue` two runners go through the steps of a run: find a line (no lock),
look its issues up, mark it done, start (checks, triage, set-up, transition,
loop), store the entry's options, and on failure undo, restore, clean up. `tick`
is the watchdog's runner (Discord in its own process, `gokrax qrun` as a child
that it waits for), `hand` is the owner's. `loop` is the watchdog loop, which
every command that disables the last project stops, killing the tick in the
middle of what it does; `Cron` starts it again. History: `served`, the entries
whose start succeeded, `passed`, those found not worth starting, and `dropped`,
those a runner had marked and not yet started when it was killed (`Crash`, or a stop of
the loop it runs under) or found the file locked when it wanted to restore them.
`NothingLost` holds in every environment: a line that is done is in one of the
three or in a runner's hands, so a fault costs the entry it hits and no other.
`FifoImplemented` maps the lines still wanted and the entries served to `Fifo`:
whatever is restored or skipped, a lane is served in its order and an entry once.
It is stated short of a lock refused, a crash, a second starter, a loop that
cannot be started and edits of the file, which change the order itself.

## Spec mode

`SpecCycle` has the states from SPEC_REVIEW to QUEUE_PLAN and back to IDLE. A
tick decides and records what it is going to send (`Prompt`), sends (`Send`) and
takes the record back when a send failed (`Rollback`), as `_apply_spec_action`
does; `Crash` loses what is left of it. `inbox` holds the requests the agents
have received, and answers may come at any time afterwards, also to requests long
superseded (`late`). `rr`, `entries`, `job`, `self`, `feedback` and `plan` are the
fields of `spec_config`; `drafts` numbers the texts. History: `given` (each
reviewer's last word, with the revision it is about), `cleared` (texts whose
author found them clean), `misses` (sends that may count). A timer is a choice
of the tick: it may find any request expired or not.

`spec start` takes any first revision (`StartRevs`; `--rev` is not compared with
the limit) and any panel, an empty one included, as a reviewer whose session cannot be
reset is dropped. `mode` is `spec_mode` with `enabled`. The owner gives one
command at a time. `continue`, `done`, `retry`, `resume` and `extend` look at the
state on a copy (`Look`, then `cli`) and write later without looking again
(`Write`); `stop` and `approve` are one step, because what the second finds under the lock is
checked again and what the first finds can only be stopped. `self.about` is the
text that the last request for a self-review names: when the answer was unreadable or
late the request is made from the old `spec_config`, so it names the revision
before, `text`, and not the draft. `CheckedBeforeReview` is about the text named.

## The outbox

`Delivery` has `_pending_notifications` of one review phase: a transition merges
its requests into it under the lock, and the watchdog, a command typed by hand
or the review command sends them and clears them one by one. A tick that finds
the outbox not empty recovers it from an unlocked snapshot and does nothing else.
An entry is the state and the *epoch* (number of the entry into a state) it was made for.
Recovery compares the text of an entry before it clears it, and two entries of
the same state may have the same text, so `SameText` is then a choice. What is
lost in the end is made up for by the nudges (`Hold`, `Nudge`), which are part of
the same ticks. `AskReviewers` includes the BLOCKED that `notify_reviewers`
forces, through a command of its own, when it reaches nobody.

## The agents' sessions

`AgentSessions` is one agent that two projects share. `files` are the session
files per backend, `procs` the processes started so far; their numbers are the
model's clock, and a conversation is named after the process that began it.
A send is `Route` (`should_fallback`, the choice of the backend), `Check` (lock,
live owner, reap or refuse, session id) and `Spawn` (Popen and record), or one of
its failures; where the backend has a lock it is held from `Check` to `Spawn`.
`StartPhase` is the reset before a phase, `NextRound` the soft reap before a later
round. `setup` chooses the home backend, the fallback and what may happen. The
backends differ in what they do with a live or hung process, which file names
the process, and when a new conversation begins; each difference is one operator
(`Recorded`, `OfSession`, `Refuses`, `Resumed`, `Harvested`, `Reapable`,
`ReapsOnSend`, `Persisted`, ...).

A process that its session files do not name is a *stray*. It comes about in
two ways: `Killed`, the sender dies between `Popen` and the record of the process
(environment "kill"; `HalfRecorded` says what is on disk by then), and `PersistFails`, the record
fails and the termination that follows does too ("persist" with "stubborn"). A
sender killed before `Popen` only gives back the lock.

## Runs

| Run | Instance | Shows | States |
|---|---|---|---|
| `review_batch` | 2 issues, 2 interchangeable reviewers, `min_reviews` 1, grace, resume | `CountedAreEffective`, `ApprovedByQuorum`, `ReviewersRemain`, `PhaseImplemented` | 156 k |
| `review_by_hand` | 1 issue, 1 reviewer with 2 passes, p2_fix, grace, every command | `TypeOK`, `ApprovalsSurvive` | 300 k |
| `review_ends` | 1 issue, 2 reviewers with 2 passes each, p2_fix, 2 cycles, exclude | `CycleBudget`, `PhaseEnds` (fair) | 352 k |
| `review_owner` | 1 issue, 2 reviewers, p2_fix, grace, flag, exclude, resume | `ApprovedClean`, `NoLateVerdict`, `SettledBeforeApproval` | 760 k |
| `code_test` | 3 retries, 2 versions, 2 crashes, four environments | `TypeOK`, `FixWithinLimit`, `Apart`, `ReviewedIsTested`, `GateImplemented`, `GateEnds` (fair) | 382 k |
| `dev_pipeline` | 2 issues, 2 batches, 3 sets of options, 1 cycle, 1 resume, 1 crash, four environments | `TypeOK`, `ReviewedIsCommitted`, `FreshBatch`, `OneAgent`, `ConsentForThisCode`, `LifeImplemented`, `BatchEnds` (fair) | 665 k |
| `task_queue` | 2 projects, 4 entries of which one is a wait, 2 runs by hand or from Discord, 1 crash, fourteen environments | `TypeOK`, `NothingLost`, `OneEntryABatch`, `OptionsBeforeWork`, `FifoImplemented`, `QueueDrains` (fair) | 128 k |
| `spec_cycle` | 2 reviewers on any panel, first revision 1 or 3, limit 2, extended once, 2 passes of self-review, 1 retry, 2 reports, 2 faults, four environments | `TypeOK`, `CheckedBeforeReview`, `OnlyFailuresCount`, `ApprovedOnEvidence`, `SpecEnds` (fair) | 1.83 M |
| `agent_sessions` | 2 projects, 2 or 3 requests, 16 set-ups over the 7 backends, 1 fault | `OneWriter`, `FreshAfterReset`, `RequestServed` (fair) | 434 k |
| `delivery` | 2 reviewers, 4 entries of states, forced REVISE, 1 fault | `RecoveryKeepsNewer`, `DeliveredInTheEnd` (fair) | 2.23 M |
| `claim_test_gate`, `claim_consent` | see below | a disagreement with a document each | |

*Bounds.* Two reviewers and a quorum of one are the least for a grace period, a
silent reviewer and a reviewer that is late while the other decides; two issues
the least for a partly reviewed batch; two passes the least for NPASS and its
self-transition; `RoundBound` 2 the least for a command that is two rounds old.
`RoundBound` stops the owner's `resume`, `flag` and `transition`, which could
otherwise raise the round number and the cycle budget for ever; the watchdog's
own steps are not bounded by it. `MaxCycles` is 1 or 2 in place of 4: the
counter is only compared with it, and both sides of the comparison are reached.
Nothing is left to do in APPROVED (the next state is outside the phase) and
BLOCKED (the watchdog is disabled), so the runs do not look for deadlock;
`PhaseEnds` shows that nothing else stops.
For the test gate three retries make two fixes before the limit, so that an
agent can be mistaken for an earlier one; two versions tell a result of old code
from one of new; two crashes hit a start and the poll, or the same poll twice.
`RetryBound` stops the owner's resume: resuming keeps the counter, which would
grow for ever.

In `dev_pipeline` the second batch is what a first one can leak into, two issues
make a batch that is implemented or committed in part, and one crash is enough
because the clean-up it skips is not repeated. In `task_queue` two entries of one
project show an order and a second project a lane of its own; the environments
are small sets because each fault multiplies the states, and pairs that interact
are together in one. In `spec_cycle` the third revision is the first that can be
given up at the limit after one was reviewed twice; two faults are one in a send
and one in its repetition. The first revision 3 of `spec_cycle` is above its
limit 2, and the empty panel is one of the four. `LaunchBound` 8 of `agent_sessions` is
reached in one set-up only (agy, "hand", "stubborn"), when no request waits and no send is under
way. Four epochs of `delivery` give two entries
of the same state that can be mistaken for each other, with a state in between.

*Fairness.* `WF_vars(Watchdog)` (`Tick`, `RunStep`, `Prompt`, ...), because
`watchdog-loop.sh` runs a tick every ten seconds for ever and cron starts a loop
that has died, and `WF_vars(Clock)`, because time passes. Nothing is assumed of
reviewers, implementer and owner in `PhaseEnds`, `GateEnds` and `SpecEnds`: all
end even if none of them ever acts. `PhaseEnds` is checked with the owner's
`exclude` only; with `flag` or `resume` he can keep a phase alive by his own
commands. `GateEnds` is checked where the owner leaves the gate alone.
`BatchEnds` ends in IDLE, in BLOCKED or in a wait for the owner. `QueueDrains`
assumes that a run once started goes on (`RunStep`) and that a project's batch
ends. `RequestServed` assumes that an agent that works is done some day
(`Submit`, `End`) and that the watchdog's send is tried again and again
(`SF_vars(Route)`, strong because the agent is inactive only now and then); it is stated
for agents whose hung process a send may end. `DeliveredInTheEnd` assumes that a
command that does not die ends. Crashes, failed sends and the owner's commands
are finitely many in every run: what dies in every tick never gets anywhere.

## Proofs

`ReviewRules_proofs` has lemmas about the rules (updates of the review table
keep its type, the quorum is positive, a wiped table has no blocking verdict),
`ReviewCycle_proofs` the theorems. Each is for every finite set of issues and
members, every quorum, pass targets, cycle limit and round bound that satisfy
`BatchAssumption` and `CycleAssumption`.

| Theorem | Property | Commands | Inductive invariant |
|---|---|---|---|
| `TypeCorrect` | `TypeOK` | any | itself |
| `NoLateVerdicts` | `NoLateVerdict` | all but force | `LateInv` |
| `ApprovalIsClean` | `ApprovedClean` | flag, exclude, resume | none but types: the deciding step tallies and changes no review |
| `DisputesSettled` | `SettledBeforeApproval` | flag, exclude, resume | `DisputeInv` |
| `ApprovalsKept` | `ApprovalsSurvive` | any | none but types |
| `GraceIsFresh` | `GraceStartsAfresh` | flag, exclude, resume | none but types |
| `BudgetKept` | `CycleBudget` | exclude | `BudgetInv` |
| `QuorumReached` | `ApprovedByQuorum` | flag, resume | `QuorumInv` |
| `CountedStayEffective` | `CountedAreEffective` | resume | `EffInv` |
| `ReviewersStay` | `ReviewersRemain` | resume | `EffInv` |
| `PhaseAsPromised` | `PhaseImplemented` | exclude, resume | `PromiseInv`: types, and no flag where none can be raised |

- `LateInv`: every round number in `spent` is below the current one (or at most
  it, while no round is in progress), so the `--round` check refuses what is
  left of an ended round. A step that ends a round and one that increments the
  counter have to agree, which is what resume after a timeout is about.
- `DisputeInv`: within NPASS no effective reviewer is awaited. NPASS is entered
  only without one; there only new reviews, exclusions and flags happen, a
  dispute needs REVISE, and a readmitted reviewer has to be considered too.
- `QuorumInv`: the override is zero or at least the smaller of `min_reviews` and
  the effective members, and in NPASS the quorum that opened it still stands.
- `EffInv`: reviews, disputes and review commands are of effective reviewers
  only, and a review state is decided only after somebody has answered, so
  dropping the silent ones leaves that reviewer.

`CodeTest_proofs` does the same for the test gate, for every `MaxRetry` and any
number of versions, crashes and resumes:

| Theorem | Property | Environment | Inductive invariant |
|---|---|---|---|
| `GateTypeCorrect` | `TypeOK` | any | itself |
| `FixesWithinLimit` | `FixWithinLimit` | any | `FixInv` |
| `RetestAfterItsFix` | `FixBeforeRetest` | any | `FixInv` |
| `TestsAndFixesApart` | `Apart` | crash, block | `GateInv` |
| `GateKept` | `ReviewedIsTested` | crash, block | `GateInv` |
| `GateAsPromised` | `GateImplemented` | any | none but types |

- `FixInv`: a result on record excludes a recorded test and a save in progress,
  so during a fix nothing moves the retry counter, and the agent on record, or
  about to be recorded, was started for it.
- `GateInv`: tests live in CODE_TEST and agents in CODE_TEST_FIX only; in
  CODE_TEST every record, save and result is of the current code; an orphan of
  a crash is alone, with no record and no result, so only the state's timer goes
  on, to BLOCKED. The orphan is what makes the invariant necessary: without it
  nothing says that the state it was left in cannot start a second process.

`AgentSessions_proofs` is about the agent that projects share, for any set of
projects, any set-ups (home backend, fallback, environment) and any number of
requests, starts and faults:

| Theorem | Property | Environment | Inductive invariant |
|---|---|---|---|
| `SessionsTyped` | `TypeOK` | any | `Types`, which bounds numbers by the processes started so far |
| `OneWriterEver` | `OneWriter` | any | `WriterInv` |
| `ResetsAreFinal` | `FreshAfterReset` | any; home backend other than pi | `FreshInv` |

- `WriterInv`: a live process of codex or agy is the recorded one, and so is one of
  cc while the files name its session (`Tracked`), strays of cc and agy apart; a send that has looked
  and is about to start its process has no live process of its conversation beside
  it other than such a stray (`Undisturbed`), and nobody else is that far (`Exclusive`, the lock). The
  two facts hold each other up: the look finds every writer because writers are
  on record, and they are because whoever ends or clears a record has ended its
  process, or has made the session another one. `Joined` is the lemma both ways
  of starting a process rest on, `FewerKeeps` the one for all that end some.
- `FreshInv`: a backend is `Ahead` of time *n* when its files name no session of
  before *n*, no output from which one could be read, and no send about to start
  its process has read one. The home backend is ahead of the last complete reset; a
  target is while its fallback period can be used without resetting it
  (`Renewable`), and for every send under way to it since it was picked. `AheadKeeps`
  says that no step of anybody takes this away. It needs the lock: a reset waits
  for a send that has read the session, so no session read before the reset is
  written back after it. It needs `SettledPeriod` too: without the settlement an
  expired period of codex is renewed with the target as it was left. An agy that has
  ever had a stray is left out (`Contaminated`): it continues whatever is latest in
  its directory, which the stray may change at any time.

`OneWriter` allows a second writer on cc and agy only when one of the two is a
stray, in an environment that makes them, and never on codex. `FreshAfterReset` needs
no exception for cc, which continues the session its file names, whoever else is alive.

`SpecCycle_proofs` is about spec mode, for every panel of reviewers, quorum, limit of
passes, retries and revisions, every combination of options and any number of
faults and commands:

| Theorem | Property | Environment | Inductive invariant |
|---|---|---|---|
| `SpecTyped` | `TypeOK` | any | `SpecInv`, its type parts with `Counted`, `Running` and `Waiting` |
| `SelfReviewFirst` | `CheckedBeforeReview` | no late answers | `Cleared`, `Waiting`, `Onward` |
| `BusyIsFree` | `OnlyFailuresCount` | neither crash nor owner | `Misses` |
| `ApprovalOnEvidence` | `ApprovedOnEvidence` | no late answers | `Recorded` |

- `Cleared`: what the author was asked about last is the text of the revision or the
  draft, and a stored "clean" is about it. Resume and the rollback of a request keep
  the draft, so they are the steps that could make the two disagree.
- `Waiting`: SPEC_REVIEW_FAILED, SPEC_PAUSED and SPEC_STALLED are left by the owner only, so
  a `retry`, `resume` or `extend` still finds what it has looked for, although it
  does not look again; `TypeOK` says so, and that a paused project knows where from.
- `Recorded`: what is on record of a reviewer is its last review of this revision,
  or an approval of the one before. The commit of a revision wipes the entries and
  carries approvals over (`approved_prior`) in the same step; that is the step
  where the two kinds meet.
- `Misses`: the tries on record are at most the sends that may count so far, plus
  the one that is on its way; the rollback takes that one off again.

`DevPipeline_proofs` is about the batch, for every set of issues, every set of options
that `DevAssumption` allows, and any number of batches, cycles, retries, resumes
and crashes. One invariant, `DevInv`, is kept by every action:

| Theorem | Property | Environment | Part of `DevInv` |
|---|---|---|---|
| `DevTypes` | `TypeOK` | any | `TypeOK` |
| `ReviewsCommitted` | `ReviewedIsCommitted` | any | `Committed` |
| `StartsFresh` | `FreshBatch` | any | `Clean` |
| `AgentsOneByOne` | `OneAgent` | neither crash nor reset | `OneByOne` |
| `MergesWithConsent` | `ConsentForThisCode` | no resume of a batch blocked in its merge | `Consenting` |
| `LivesAsPromised` | `LifeImplemented` | the same | `Once` |

All but the first are stated short of `overtaken`, as the properties are.

- `Numbers` ties tick and command to the batch in progress: a tick works for a
  batch that has begun, and `INITIALIZE` has no tick of its own batch yet.
- `Committed` also speaks of a BLOCKED that came from a committed state: resume
  goes back there.
- `OneByOne`: what a live agent, or one about to be started, is to implement is not
  committed yet, so IMPLEMENTATION is not left while it lives. This is why two
  agents cannot meet: whichever way the state is left, the batch is committed.
- `Consenting`: an answer that counts is of the batch in progress and was given to
  its summary. `Once`: once the push has begun no state leads back into the batch.

`LivesAsPromised` has one lemma per group of actions: each step is `Begin`, `Agree`,
`Deliver`, `Halt`, `Resume`, `End` or `Lose` of `BatchLife`, or a stutter. The theorems
`GateAsPromised` and `PhaseAsPromised` close the composition: what `DevPipeline` uses of
its phases and its gate is what `ReviewCycle` and `CodeTest` have been proved to do.

`TaskQueue_proofs` is about the queue, for any projects, any queue file of different
entries and any number of runs:

| Theorem | Property | Environment | Part of `QueueInv` |
|---|---|---|---|
| `QueueTypes` | `TypeOK` | any | `TypeOK` |
| `NoEntryLost` | `NothingLost` | any | itself |
| `BatchesHaveOneEntry` | `OneEntryABatch` | no crash, no second starter; starts fail by the watchdog's runs only | `Batches` |
| `OptionsInTime` | `OptionsBeforeWork` | no crash, no second starter | `QueueMode` |

None of the three is inductive alone. `NoEntryLost` follows one line at a time: what
takes it out of a runner's hands serves it, passes it over, restores it, or is a kill or a
refused lock, and then `dropped` has it (`KilledDrops` for the kills). `Carrying` says what a runner holds at each of
its steps; `Alone` that where owner and watchdog take turns one of them is off and
the project the other has found idle stays so until it is changed by that runner;
`Batches` what the batch of an idle project may still hold and which runner will
empty it; `QueueMode` who will store the options or take the queue's mode back;
`Distinct` that no entry has two lines, so that marking or restoring the first line
of an entry is marking the entry. `Least` (a set of numbers has a least one) is
what stands for the code's loop over the lines.

`Delivery_proofs` is about the outbox, for any finite set of reviewers, any forced
states and any number of entries and faults:

| Theorem | Property | Environment | Inductive invariant |
|---|---|---|---|
| `RecoveryIsCareful` | `RecoveryKeepsNewer` | any | `OutboxInv` (its `Shapes`) |
| `OwedStaysStored` | `OwedIsStored` | any | `OutboxInv` |

- `OwedIsStored`, stated in this module, is the safety half of `DeliveredInTheEnd`: what is owed
  is still in the outbox, whoever dies between sending and clearing. `Held` says that
  the snapshot a tick works on has nothing of a state to come and the report of
  this BLOCKED, `Sending` that what is about to be cleared is owed no more, `Past`
  that nobody has reviewed in a state to come. Together they make the clearing by
  key safe although the snapshot was read without the lock.

*What the proof attempts found.* An invariant that TLC had found on the run's
instance was false for other constants in these cases, which were then stated as
they are: `OneAgent` needs that no command overtakes a tick; a resume is only made
without an answer on record unless `leftover` is allowed; `BatchLife` may end a
batch from `halted` and `agreed`, and not from `none`; `FreshAfterReset` is false for the target
of pi, whose expired period a reset does not settle (*docs/spec.md:358*; codex's
it does, *docs/spec.md:366*); reviewers are not called what the implementer or a
report is called (`AgentsAssumption`); a home backend has only the fallbacks the
quota modules accept (`Fallbacks`).

*What is not proved.* Liveness (`PhaseEnds`, `GateEnds`, `BatchEnds`, `QueueDrains`,
`SpecEnds`, `RequestServed`, `DeliveredInTheEnd`), because the proof system does not reason about
fairness and ENABLED; the claims, which are false; and `FifoImplemented`: it maps the
file to a sequence with `SelectSeq`, of which no facts are installed and whose
recursion cannot be unfolded for files of any length. These stay with TLC.

## Where code and documentation differ

Each of these is a run in which TLC finds the behaviour:

- `claim_test_gate`: *README.md:486* says tests pass before CODE_REVIEW, after a
  CODE_REVISE too. A test recorded before a BLOCKED survives the resume; if the
  watchdog dies after entering CODE_TEST and before recording the new test, the
  old one's result, of the older code, is taken for it.
- `claim_consent`: the comment at *watchdog.py:571* says what a batch blocked over a
  dirty tree leaves behind cannot matter, as a resume is unreachable from there.
  `transition --resume` accepts it, and the revised code is pushed on the owner's
  answer to the summary of the code before.

Met while reading and modelling, without a run of their own. In a review phase:

- *CLI.md:210* says flags can be used in any state and *engine/fsm.py:758* that a
  P0 flag means REVISE at once; the NPASS branch (`engine/fsm.py:910`) does not
  look at flags, and a phase in NPASS is approved over one.
- *docs/spec.md:248* lets a P0 or P1 of any reviewer end NPASS at once; the code
  (`engine/fsm.py:953`) looks at the verdict on the first issue only.
- *commands/dev/review.py:176* rejects reviews of earlier cycles by number; a
  forced return to REVIEW (`lifecycle.py:771`) restarts the numbers and they are accepted.
- Flags open further cycles beyond the maximum of *docs/spec.md:207*
  (`engine/fsm.py:759-774` compares no counter); hence `CycleBudget` is stated
  without `flag`.
- A flag in a REVIEW nobody has answered yet excludes every reviewer as silent
  (`watchdog.py:862-897`); hence `ReviewersRemain` is stated without it. The
  REVISE it leads to sends the implementer nothing until the first nudge.
- A REVISE that times out into BLOCKED is wiped as if it had been revised
  (`watchdog.py:823`), so a resumed revision has nothing left to revise.
- NPASS entered by `transition` has no targets and ends only by another command
  (`engine/fsm.py:914`), although *docs/spec.md:258-259* gives it a timeout.
- Reviews of excluded reviewers count for "everybody has reviewed"
  (`engine/fsm.py:794`).

In the test gate and around the implementer's agent:

- A poll that reads an exit file just created and not yet written takes a
  passing test for a failed one (`engine/cc.py:695`); *docs/spec.md:652* sends
  a passing test to CODE_REVIEW.
- Resume does not reset `test_retry_count` (`commands/dev/lifecycle.py:800`):
  after the limit of *README.md:513* a failing test of a resumed revision is
  blocked at once, without a fix.
- A crash between the start of the implementer's agent and its record
  (`engine/cc.py:345-357`) leaves it at work while the next tick starts another beside
  it; so do a reset and a command that overtakes the tick. `OneAgent` is
  stated short of the three.
- A fixing agent is never stopped, not by the timeout of CODE_TEST_FIX, BLOCKED
  or reset, and may commit into a later batch (`engine/cleanup.py:75`).
- The timeout of IMPLEMENTATION (*README.md:489-511*) does not fire while an agent
  that dies or cannot be started is started again in every tick
  (`engine/fsm.py:1173-1195`).

In the pipeline, its commands and the merge:

- While the send of a stored implementer message or report keeps failing, every
  tick ends after the recovery (`watchdog.py:298-312`): no deadline is looked at,
  although *README.md:509* blocks on "Timeout exceeded".
- A forced transition drops review notes not yet posted (`lifecycle.py:850-857`),
  which *engine/fsm.py:1437* calls independent of the state and at-least-once.
- The repeated request of NPASS is not repeated by a nudge when its send failed,
  although the comment at *watchdog.py:1965* says so.
- A reset or `merge-summary` that overlaps a tick writes over it (`overtaken`);
  `merge-summary` sets MERGE_SUMMARY_SENT whatever the state is by then, `commit`
  asks for no state at all.
- A summary that cannot be posted for ever is tried for ever.
- A force out of BLOCKED, or a resume to a state other than a REVISE, leaves the
  project disabled.

In the queue:

- After an entry whose issues turn out to be closed nothing goes on to the next,
  although *docs/architecture.md:508* loops until a non-skip result: the skipping
  `qrun` rolls back (`commands/dev/queue.py:231`), stops the watchdog loop
  (`gokrax.py:95`) and with it the watchdog that waits for it.
- A `qrun` or `start` that fails after another start of the same project has
  succeeded rolls that one back to IDLE.
- A runner's entry stays done though it was not started when the loop's stop kills
  the runner with the loop, and when the file is locked as it is restored
  (`task_queue.py:575`); nothing but these loses an entry (`NothingLost`).
- A start that dies before it stores the entry's options leaves the default
  `automerge`; a `reset` and BLOCKED do not continue the queue.

In spec mode:

- A self-review whose first send finds the agent busy costs a pass
  (*docs/spec_mode_spec.md:1033*); `_issues_found_send_retries` counts deliveries
  as well as failures.
- *docs/spec_mode_spec.md:1081* sends again after a timeout of SPEC_REVISE; nothing is sent.
- A resume out of ISSUE_SUGGESTION pauses again in the next tick; a late review of
  an older revision counts for the current one (`engine/fsm_spec.py:315`).
- A reviewer whose every send fails keeps SPEC_REVIEW waiting.
- A self-review asked for again after an unreadable or late answer names the old
  revision: its prompt is made from `spec_config` without the pending updates
  (*engine/fsm_spec.py:393-394, 521-522, 559-560*), those of the other requests
  with them (*480-481, 624-625*). "Clean" then releases a text nobody has read again.
- `spec start` goes on when the reset of every reviewer failed
  (*commands/spec.py:171-221*); with nobody asked SPEC_REVIEW waits for ever
  (*engine/fsm_spec.py:132-135*).
- What `continue`, `done`, `retry`, `resume` and `extend` look at is not looked at again
  under the lock (*commands/spec.py:310, 338, 397, 415, 458*). A late `continue` overwrites
  what the watchdog has done since, even the end of the project, and leaves
  it in ISSUE_SUGGESTION with spec mode off, where `start` and `stop` both refuse.
- `--rev` may be above the limit of revise cycles; such a review ends in
  SPEC_STALLED at the first objection.
- SPEC_TRANSITIONS (*config/states.py:181*) lacks SPEC_REVISE → SPEC_APPROVED.

In the agents' backends:

- kimi, gemini and pi start a second process beside a live one; the session they
  continue ("latest") may be an orphan's of before the reset. Hence `OneWriter`
  and `FreshAfterReset` are stated for cc, codex and agy.
- pi with a fallback to cc continues the context of before a reset
  (`engine/backend.py:318-327`); no set-up of the run has it.
- A send that picked the fallback target before a reset may continue the
  target's session of before it; `FreshAfterReset` counts it from the pick.
- A hung process of cc, cci, kimi or gemini keeps its agent active, so nobody
  nudges it until the phase's timeout.
- A sender that dies between `Popen` and the record leaves a live process that no
  file names (*engine/backend_cc.py:540-574*, *engine/backend_agy.py:773-787*), and so
  does an agy whose record and termination both fail (*backend_agy.py:784-803*). The
  next send of cc or agy continues the conversation beside it; codex's run holds
  its output locked and is found.
- A soft reap may end the process of another project
  (`engine/backend_cc.py:909`), whose request is then nudged again.

## What is left out

Of the review cycle: `review_mode` skip and `min_reviews` 0 (the phase is
passed at once); the detour of a CODE_REVISE through CODE_TEST on its way to
CODE_REVIEW, which is in `CodeTest` and `DevPipeline`; a corrupt timestamp;
moves by `transition --force` to a state outside the phase; the `enabled` switch, which
lets the watchdog pause (its fairness assumes it is on outside BLOCKED); the
text of notes, prompts and summaries.

Of the test gate: projects without tests and `skip_test`, which avoid it; a
manual transition to CODE_TEST, which starts no test and keeps the last result;
nudges and time extensions, which only move the deadline; pids used again by
another process; the last few instructions of a poll between looking for the
exit file and killing a late test, in which a test can still end.

Of the pipeline: the reviewers' work itself (`Phase`), the texts of plans and
summaries, boosts, the lists a reset merges (`ReviewCycle` takes its outcome),
extensions of a deadline (a deadline may pass at any moment), the Git
operations of a push beyond its success.

Of the queue: comments and options of a line other than as one value, the pid
and lock files of the loop, a Discord command executed twice after a kill.

Of spec mode: reminders, Discord's notices, the archived files of old reviews, and
what the parsers accept beyond a usable or unusable answer.

Of the outbox: the text of messages, other keys than those of a review phase
(they are cleared in the same way), GitLab notes posted in several parts.

Of the agents: the openclaw gateway, the ping, the parsing of the programs'
output, the profile directories, pids used again.

Not modelled at all: GitLab access, messages and configuration, progress, boost
and agent data. They are input and output around the state modelled here. Where a
file is written, the operating system's lock and atomic rename are taken to work.

## What comes next

The order of service in the queue as a theorem about lines in place of sequences (an
entry is served only when no earlier line of its lane is still wanted, and only
once), which is what `FifoImplemented` says short of the mapping; and the safety halves
of the liveness properties (a request that waits has an actor that will
make up for it), as `OwedStaysStored` is of `DeliveredInTheEnd`.
