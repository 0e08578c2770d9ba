# A TLA+ development of pmrunner

pmrunner drives coding agents against a set of repositories. Tasks are Markdown
notes in a git repository (the vault); a daemon claims notes that are ready,
runs an engine on a branch of the target repository, writes the result back
into the note, and may review and merge the pull request. This directory models
the parts of it where order, failure and restarts matter, checks them with TLC
and proves the central facts with TLAPS.

All paths below are relative to `src/`.

## 1. The system

| Component | State it keeps | Operations | Correct when |
|---|---|---|---|
| Worker pool, `internal/worker` | per repository: a queue under a mutex, a wake channel of capacity 1, the current task; one channel of global slots | `Enqueue`, `Wake`, `popNextRunnable`, `Run`, `runOne`, `CurrentTask` | no job is lost, doubled or left under a sleeping worker; slots count running tasks |
| Engine pause, `internal/pause` | per engine: paused, reset time, notes blocked by the limit | `Trip`, `AddBlockedNote`, `Clear`, `IsPaused` | every pause and every blocked note is reached by a later resume |
| Auto-resume timers, `cmd/pmrunner/resume_timer.go` | per engine: a timer, whether the "unknown reset" message went out | `handleTrip`, the timer's function, `cancel` | an engine with a known reset time resumes on its own |
| HTTP API, `internal/httpapi` | none of its own | `POST /dispatch`, `POST /resume`, status and log reads | a resume reaches every note it has taken on |
| Vault, `internal/vaultgit` | one clone and its mutex; the bare repository people push to | `Sync`, `WriteNote`, `ReadNote` | a write is at origin or reported; a lost race is retried |
| Dispatch and daemon, `internal/dispatch`, `internal/daemon` | the dispatch wake channel | dispatch pass (stamp, claim, enqueue), boot (sync, reconcile) | one job per claim, none lost at a restart |
| Task pipeline, `internal/runner/runner.go`, `crashfallback.go`, `setupfallback.go`, `blockpreserve.go` | the note, the task branch, the note copy | `ProcessTask` | a task ends done or blocked, its work kept |
| Unit loop, `internal/runner/unitloop.go`, `unitreview.go`, `multiunit.go` | units, `current_unit`, round counts in the note | coding round, verify, review, finish | plan order, capped rounds, every commit reviewed, a pull request only over finished units |
| Planner and plan review, `planner.go`, `internal/planpoll` | plan, plan round, message id | planner rounds, stop for review, reaction poll | one decision per round, by the person who saw that round |
| Plan gate, `internal/plangate` | none | hard rules, decision by scores | pure functions |
| Merge gate, `mergegate.go`, `mergegate_gh.go` | the round of one loop; GitHub holds the rest | open check, review, CI wait, feedback session, second check, merge, report | merges only what was reviewed and green; says so when it does not merge; ends |
| Notifier, watcher: `internal/notify`, `internal/watcher`, `runner_mode.go`, `watcher_mode.go` | lines in the Runner Log, the alert debouncer | send with one retry and a record, health poll, stale tasks, scan for unnotified notes | what the log says was sent was sent; a lost message, an outage and a hanging gate are noticed |
| Engine sessions: `invokeEngine`, `runReviewPrompt`, `internal/engine` | a process group, an idle and a startup timer, what its lines told | start, scan, watchdog, wait, classify | a silent session ends and leaves nothing behind; a reported limit is never taken for a hang |
| Note format, configuration, jev client, CLI | - | parsing, one request | unit-tested, sequential |

How they interact. A person pushes a note to the bare repository; its hook
calls `POST /dispatch`, which puts one signal into a channel of size one. The
dispatch goroutine syncs the clone, scans it, claims each claimable note with a
vault write (`queued`) and enqueues a job with the worker of the note's
repository. That worker takes a global slot and runs `ProcessTask`, which writes
the note again at the start and at the end, and between the two owns the clone
of the target repository. A usage limit trips the pause of one engine; the
worker's scan skips its jobs; a timer goroutine or `POST /resume` clears the
pause, flips the blocked notes to `blocker_resolved`, wakes dispatch and all
workers. When a task is done or blocked a goroutine of its own tells Discord and
then records in the note that it did; a task with `auto_merge` first goes
through the merge gate, still on its worker and under its slot. The watcher is a
second process: it shares the clone on disk (reading only), polls the runner's
status endpoint and asks it over HTTP to append its own records. The goroutines share the vault clone (mutex), the pause state (mutex),
the worker queues (mutex per worker), the slot channel and the timer manager
(mutex). The process may be killed at any point; only the notes and the task
branches survive.

What is hard about it: signals that must not be lost between a drain and a
sleep; three-step sequences (trip, record, arm) with a clear between any two;
a clone that is ahead of, behind or in conflict with origin while jobs already
depend on what it says; restarts that rebuild the queue from the notes; an
error path per vault write; two processes that judge by a record which one of
them writes late; a process group whose members may outlive, leave or hang it;
GitHub, CI and people acting between any two calls of a loop that remembers
nothing but a round number. `PROJECT.json` lists these as hazards at their
lines, with the property that covers each or the reason none does yet.

## 2. The modules

| Module | Models | State and actions |
|---|---|---|
| `RepoWorker` | `worker.go`, `adapter.go`, the pause flag and `Resume` as the pool sees them | one action per lock hold, channel operation or flag read. `EnqueueAppend`/`EnqueueSignal` are the two halves of `Enqueue`; `ScanSkip`/`ScanPop`/`ScanEnd` the steps of `popNextRunnable` (mutex held while `pos > 1`); `AcquireSlot`, `SetTask`, `ProcessEnds`, `ClearTask`, `ReleaseSlot` are `runOne` with its defers, a panic included (it takes the same path) |
| `JobPool` | what the pool promises: each job waits, runs once, ends; one at a time per repository; at most `Slots` in all | abstract specification, implemented by `RepoWorker` |
| `UsageLimit` | `pause.go`, `resume_timer.go`, `Resume` of `httpapi.go`, the end of a task in `runner.go` and `crashfallback.go` | a task goes `running`, `tripped`, `written`, `recorded`, `off`; a timer `armed`, `fired`, `resuming`; each `Resume` call `next`, `clear`, `flip`. `Faults` switches on failing writes, people editing blocked notes, reset times already past and the review engine's limit |
| `UnitLoop` | `unitloop.go`, `unitreview.go`, entry and finish in `multiunit.go` | the note's units, the branch (`tip`, `dirty`), the run's place `pc`. A commit is a number, a unit's `base_sha`/`head_sha` are such numbers. Steps are one invocation or one vault write |
| `Vault` | `vaultgit.go` | operators: a write that lands (at once or after the rebase), stays unpushed, stops in a conflict, is refused by a rebase in progress, or is stuck in an unmerged tree; `Sync`; a person's `Push`. Tracks which statuses the clone has changed and not pushed (`ahead`) and which origin has changed since (`behind`) |
| `TaskPipeline` | `dispatch.go`, `daemon.go`, `ProcessTask` with its setup failures, crash fallback, merge-back and preserve push, over `Vault` | `pass` is the dispatch pass, `queue` the jobs, `run` the task being processed, `branch` what exists of a task branch and where; `Crash`, `Boot` and people's `Edit`s |
| `TaskLifecycle` | the status of a note as seen at origin: who may move it from where to where | abstract specification, implemented by `TaskPipeline` |
| `PlanGate` | `plangate.go` | operators: `DecideTriage`, `HardRules`, `DecideGate` over scores in hundredths |
| `PlanReview` | `planner.go`, `planpoll.go`, the entry in `multiunit.go`, over `PlanGate` | `note` with its plan (a number), plan round, message id, rounds with a heading and with text under it; `thread` the posted plans and people's reactions; `run` and `poll` the two goroutines. Steps are one invocation, post, fetch or vault write |
| `MergeGate` | `mergegate.go`, `mergegate_gh.go`, `runMergeGateForTask` | `at` is the place in `RunMergeGateLoop`, one action per call of gh, git or an engine; `pr`, `author` (who pushed each commit) and `runs` are GitHub's; the resumed session and people push, merge and close between any two calls |
| `Notifications` | `notify.go`, the terminal handlers of `runner_mode.go`, `watcher.go`, `watcher_mode.go`, the runner-log endpoint | `sends` holds every message on its way (`post`, `retry`, `record`), of both processes; `disk` and `pushed` the notes in the clone and at origin; `cycle`, `streak` the watch loop |
| `EngineSession` | `invokeEngine` with its watchdog goroutine, `runReviewPrompt`, `ClassifyExit` of both engines | `alive`, `holds` the processes and who keeps the output open; `idle`, `startup` the timers (`sent` is a value in the channel nobody has taken); `dog` the watchdog |
| `*_proofs` | - | the theorems of section 5 |
| `MC*` | - | constants of the TLC instances |

The eight state machines look at the same program from eight sides. What one needs of another it has in its smallest form:
`UsageLimit.Start` is the claim and the pop, guarded by the pause flag;
`TaskPipeline.queue` is a counter per task, its order and wake-ups being the
business of `RepoWorker`; a usage limit inside `TaskPipeline` is a crash of the
engine like any other; `PlanReview.AutoResume` is what `UsageLimit` promises and
`PlanReview.Code` the whole of `UnitLoop`. `Notifications` has a task as the
word `session` and the gate as `gate`; that a session ends and that a resumed
one does, which `MergeGate` assumes, is `SilentSessionEnds` of `EngineSession`
with the exception that property names.

Definitions called "Mutant" in a comment are not part of any specification.
Each is a plausible bug in the definition that follows it, and the run of the
property it is paired with in `PROJECT.json` fails when it takes the
definition's place.

### Abstractions worth knowing

* A note is its status, `session_id` present or not, `ready_at` present or not
  (and, in `UnitLoop`, its units). Text, log lines and the fields nothing
  decides on are left out, so a write that only appends a log line is left out
  too: the notifier's `notified` line and the claim post's thread id.
* `blocker_resolved`, `plan_approved` and `plan_rejected` are one status
  `resolved` in `TaskPipeline`; `failed` is folded into `done`: all are treated
  alike by the code modelled there.
* In `PlanReview` the vault is one copy, and a write that fails has or has not
  changed the note. What that leaves out of `Vault` is the order of a person's
  push and a write of the runner; what it keeps is that the poller and the
  dispatcher act on a note that has changed since they read it.
* A plan is a number, new each time the planner writes one, and the planner may
  leave the one it found. Whether a plan is fit for the gate is the choice
  between `PlanWritten` and `PlanUnusable`. An unreachable Jev is an empty
  answer set: both stop the gate and make triage say one unit.
* People see the newest plan message and the newest of the round at hand, and
  may react either way, both ways, and write feedback with either. They take no
  reaction back.
* In `UsageLimit` `broken` says which faults a run may meet, none, only people's
  edits, or all of `Faults`, so that one instance serves the properties that
  hold under faults and those that only hold without them. A resume's write of a
  note that is no longer blocked is no fault of its own: it follows from the
  edit, and mostly fails (`ResumeFails`), for git refuses an empty commit; only
  when `note.Bytes` lays the edited note out anew is there something to commit
  (`ResumeSkips`). No instance joins the other faults with a person calling
  `POST /resume`: their paths end in states a person must resolve by definition.
* In `UnitLoop` a session leaves work in the clone or does not, however it ended,
  and so does a verify command: nothing in the code looks. A block commits
  whatever lies there, unless git fails. `met` records the four things that take
  a commit out of every review, where they happen.
* In `MergeGate` a commit is its number on the branch. A review reads a prefix
  of the branch: `FetchDiff` notes the tip. (`IntegrationCheck` gets only the
  diff's stat and the body in its prompt and reads the code in the clone; the
  model takes both for reading the tip.) An answer is what its first line
  amounts to, `refusal` being one that has the word APPROVE in it and means the
  opposite; what counts is how the code reads it (`Verdict`), section 6.
  `gh pr merge` on a pull request somebody has merged says so and exits with 0.
* In `Notifications` a note's Runner Log is the set of the two kinds of line the
  watcher looks for. The runner's write may fail with its commit in the clone or
  with nothing written. Time is two facts: `old`, the note's file was
  written an idle timeout ago, and `quiet`, the gate has not been heard of for an
  idle timeout. What the runner has to do about a note it has just written takes
  it less than that delay (`Age`); `MaxFaults` says how often something fails.
* In `EngineSession` the timers may fire at any moment: a timer is armed, has
  sent, or is off, and how long the silence was is not told. The scan of a line
  and its handling, which stops the startup timer and resets the other, are two
  steps, and so are the watchdog's taking of a timer, its flag and its kill. A process is the
  leader, a child in its group, or one that left the group; each may hold the
  output open.
* Two commits conflict when both change the status of one note. `ready_at` is
  stamped several lines further down and merges with a status edit.
* The claim order (`ready_at`, then `created`) is any order; the pipeline's
  repository is known to the daemon (an unknown one is dropped in
  `RepoWorker`).
* Only people's pushes fire the hook, and a hook fired while the runner is down
  is lost: booting syncs and reconciles queued notes and runs no dispatch pass,
  so a note made ready meanwhile waits for the next push.
* A person edits a note in the ways the notes are meant to be edited: publish
  and withdraw, resolve a block, send a task round again that nobody runs.
  Nobody edits a note to `queued`.

## 3. The runs

| Run | Instance | Shows | States |
|---|---|---|---|
| `worker_runs` | 2 repositories and an unknown one, 1 slot, 4 jobs, 2 of them of different engines in one queue; one engine trips and is resumed at will | no job lost or doubled, slots counted, no wake-up lost, `JobPool` implemented; a job whose engine stays unpaused leaves its queue, also the second one of a queue, under a signal already spent or behind a paused engine's job | 0.14 M |
| `limit_covered` | 2 notes, 2 timers, people resuming one engine or all; with people editing blocked notes and without | a pause with a known reset time has a resume still to come; while nobody edits, so has every note it blocked, and no resume meets a note another one has moved on | 2.1 M |
| `limit_live` | 2 notes, 1 timer, nobody helps; no fault, edits, or every fault | the timer referred to has still to do its work, whatever fails; the pause ends, also under edits; without edits both notes become claimable | 0.16 M |
| `units_runs` | 2 units, 3 commits, any number of runs, all faults, work left uncommitted at will | plan order, no commit unreviewed but by the four faults, early pull requests only after the review engine's limit, runs end | 1.3 M |
| `pipeline_runs` | 2 tasks, one a draft; 3 edits, 1 lost push, 1 crash, 1 setup failure | one job per claim, no queued note stranded by a crash, withdrawn drafts stay out, a resumable task's commits are not dropped, `TaskLifecycle` implemented, claimable notes are claimed | 0.32 M |
| `plan_runs` | 2 planner rounds; 1 crash, 1 failed write, 1 engine failure, 1 edit by hand, 1 Discord failure; replies with parts missing, of the wrong kind, on either side of each threshold, with a close second place in any position | units and plan never part, a round is put once, units come from a cleared plan unless something fails, one job unless a person edits, a plan runs unseen only on clear answers, reviews are settled | 0.60 M |
| `gate_runs` | 3 rounds, 3 commits (1 of them a person's), with CI and without, every call failing, 1 crash | nothing is merged unread or before CI was green; silence means that what is merged was checked, and that no session merged it; the gate ends | 0.21 M |
| `notify_runs` | 1 note ending twice, 1 fault, 1 restart of the watcher, late requests at will, threshold 2 | a `notified` line is true, nobody is told twice without a fault, an outage is one alert, a first status is told or tried, a hanging gate is reported | 0.39 M |
| `session_runs` | both engines and a reviewer, 2 lines, a child and a detached process | no orphan of a killed group, a reported limit wins, a kill is returned as one, the startup timer is taken before the first line is handled, a silent session ends | 0.62 M |
| `plan_uncleared`, `gate_green`, `limit_skips` | small | one disagreement each, section 6 | - |

The types of the modules are not among a run's properties: they are theorems
where section 5 says so, and were checked with the same instances elsewhere.

Why the bounds are enough. Two repositories and one slot give both kinds of
contention; a queue of two jobs for two engines lets the scan skip one and pop
the other, and lets the drain loop find a second job after the first. Only one
of the engines meets limits (`Limited`), so that the other's job shows that it
passes. Two timers of one engine are a timer whose function is running next
to one armed since. Two units have a first, a last and a next; three commits are
a session's, one preserved from what it left, and one of a resume or of the other
unit. In the pipeline the conflict needs one edit
against one write, being refused by the unfinished rebase a second, and a
withdrawal during a pass a third. In the review two rounds are a first, whose
rejection replans, and a last, whose rejection blocks; `maxPlanRounds` is three,
and the middle round does what the first does (`plan_uncleared` has three). In the gate three rounds are a first, a middle and
the last, and three commits the task's, a session's and a stray or a second fix;
with one workflow every order of runs and commits occurs, and a merge that is not
green is one of an older commit's run. One note suffices in `Notifications`, whose messages about different notes
never meet; its second ending is what an old line may mask; a threshold of two
has failed checks below, at and past the alert, with a restart at any of them. Two lines in
`EngineSession` are a first, which stops the startup timer, and one after it,
and every order of a long line and a limit.
`Budget` bounds only what people and the
outside do; the program's own steps are unbounded. `MaxCommits` bounds how far
a branch grows; work that would pass it stays unmade. `TimerIds` bounds the
timers alive at once.

`CHECK_DEADLOCK FALSE` everywhere: each of these systems may come to rest, with
every job finished, every task done, every budget spent, the session over or
nobody at work.

Symmetry is used in `limit_covered` only (tasks of one engine are alike, timers
are alike), a run with invariants and no liveness property.

## 4. Fairness

* `RepoWorker`: weak fairness of each worker's steps and of what an `Enqueue`
  or a `Resume` has begun; strong fairness of taking a slot, since senders
  blocked on a Go channel are served in order. `Process` is assumed to return:
  every invocation has an idle timer, gh and git do return. That holds up to the
  exceptions of `SilentSessionEnds` (a process that left its group, or one a
  killed reviewer started, keeps the output open) and as long as gh and git do
  not hang in the gate, which only the watcher notices; then the slot is kept for
  good, and `RunnableJobLeavesQueue` says nothing. No fairness of `Trip`, of
  dispatch or of people.
* `UsageLimit`: weak fairness of the end of a task, of a timer with its resume,
  and of a `POST /resume` once begun. Nobody need call it.
* `UnitLoop`: weak fairness of a run as a whole, with the same exceptions. It never forces a verdict:
  verify may fail and the reviewer complain for ever, and `RunEnds` holds
  because of the cap.
* `PlanReview`: weak fairness of the claim, of the run, of the poller (a ticker),
  of the boot, and of people answering a plan that is put to them, which is what
  a review waits for; which answer they give is free. Auto-resume and edits of a
  status may never come.
* `MergeGate`: weak fairness of the gate's own step. Every call it makes returns:
  gh and git do or fail, the wait for CI gives up after thirty minutes, a
  silent session is killed and a reviewer after five, again up to the exceptions of
  `SilentSessionEnds`. Which answer comes is free, and nobody else need act.
* `Notifications`: weak fairness of the watcher's loop with its messages, of the
  runner's messages, and of files getting old. Discord may refuse for ever, a
  session or a gate need not end and a stopped runner need not come back.
* `EngineSession`: weak fairness of the runner's goroutines and of each timer's
  expiry. No process need print, read or exit.
* `TaskPipeline`: weak fairness of the dispatch goroutine, of the worker and of
  the boot (the service manager restarts the process). No fairness of people,
  crashes or failures.

## 5. What is proved

For every value of the constants the assumptions allow, with `tlapm`:

* `RepoWorker_proofs!TypeCorrect`: `Spec => [](TypeOK /\ WorkerShape)`. A
  worker has a job in hand exactly at the places that have one.
* `RepoWorker_proofs!WakeupsNotLost`: `Spec => []NoLostWakeup`. A worker asleep
  with no signal pending has only jobs that somebody has still to come back
  for. This is not inductive: a worker goes to sleep at the end of a scan, so
  one must know about what the scan skipped. `SkippedCovered` says it of the
  part of the queue before `pos`, and the conjunction with the type invariant
  is inductive. The steps that need thought are the append (the new job is
  covered by its own signal on the way), the removal from the middle, and the
  resume, whose engine moves from `paused` through `flipping` to `toWake` with
  no step in between uncovered.
* `RepoWorker_proofs!BooksHold`: `Spec => []PoolBooks`, and
  `RepoWorker_proofs!PoolImplemented`: `Spec => ImplementsPool`, the refinement
  of `JobPool`. The invariant, `JobsKept`, says of every job in a queue or a
  hand that it is at the worker of its own repository: that is why no two
  workers have the same job and why at most one job of a repository runs.
  `RemoveAtDistinct` is what the refinement needs of the removal from the middle
  of the slice, and `TaskShown` gives the reports: a task is shown only between
  `SetTask` and `ClearTask`. The append is `Submit`, the slot is `Start`, its
  release is `Finish`; every other step, the pop included, is none of
  `JobPool`'s.
* `UnitLoop_proofs!TypeCorrect`: `Spec => []TypeOK`, for any number of units
  and commits.
* `UnitLoop_proofs!PlanOrderAndCap`:
  `Spec => [](UnitsInOrder /\ RoundsBelowCap)`, over any number of runs.
* `UnitLoop_proofs!ReviewedAndFinished`:
  `Spec => [](ReviewReadsTheTip /\ FinishedUnlessLimited)`. Neither is inductive.
  `Reviewed` adds, until the review engine meets its limit or a block at a review
  is not written, that a run that is coding, recording, verifying or blocking the
  task is not at a unit that waits for review and that a unit at verify has the
  tip as its head; `FinishInv`, until that limit, that a run is past the loop, or
  the pull request open, only with no current unit. With `UnitsInOrder` the last
  gives `AllUnitsDone`.
* `UnitLoop_proofs!CommitsReviewed`: `Spec => []EveryCommitReviewed`. The
  invariant, `Covered`, splits the branch at the current unit's base: what is
  before it has been read, and as long as the unit has no session of its own the
  whole branch has. `BuildFresh` may therefore take the tip for its base, the one
  step at which commits could drop out of every diff; work a session left and a
  block preserves, and commits of a later resume, lie after the base, and the
  approving review reads from the base to the tip (`ReviewReadsTheTip`). It
  assumes nothing about how clean a session leaves the clone. The four members of
  `Faults` are the steps at which the invariant fails, and each does put an unread
  commit into a pull request.
* `UnitLoop_proofs!BudgetIsSlack`: `Spec => []BudgetNeverDecides`, which says that
  a check of the code is dead, against what its comment and its test say (section
  6). A unit that is
  not at its cap has spent at most one round and every other at most two, so one
  more stays within `2 * N`; with a budget of `2 * N - 1` the proof fails. The
  budget compares a sum over the units, which is a fold: `NatSetInduction` is
  induction over the numbers stated for a set instead of a predicate, which the
  provers can use, `SumExists` and `TotalIsSum` unfold the fold with it and
  `SumIsBounded` bounds the sum by its parts.
* `UnitLoop_proofs!RunIsFinite`: `Left`, made of the units, the rounds and the
  places still before a run, is a natural number of at most `40 * N + 38`, and
  every step of a run, a failure included, lowers it. This is `RunEnds` without
  its fairness: no reviewer and no verify makes a run go round for ever.
* `MergeGate_proofs`: `TypeCorrect`; `BudgetIsShared` (at most
  `MaxMergeGateRounds` sessions, and the gate gives up after exactly so many);
  `MergedWasReviewed`: `Spec => []MergedWasChecked`; `SilenceIsChecked`:
  `Spec => []SilenceMeansChecked`; and `GateIsFinite`, a `Left`
  of the gate's loop, which each of its steps lowers and nothing else touches, as
  `GateSettles` needs. The invariant of the others says of each
  place after a review what has been established there: from `reading` to
  `merge` every commit of the task and of a session is read (`AllRead`), which
  no step disturbs because a session is alive only at `coding` or after the
  gate is over; from `ci` on the answer counts as an approval; from `recheck` on
  some run was green, and a green run stays so; and from the second look on
  nobody but a person can have merged, since a session is alive only at `coding`.
* `EngineSession_proofs`: `TypeCorrect`; `NoOrphanIsLeft`:
  `Spec => []WatchdogLeavesNoOrphan`; `LimitIsReturned`:
  `Spec => []ReportedLimitWins`; `KillIsTold`: `Spec => []KillIsReported`;
  `StartupTimerIsFirst`: `Spec => []StartupTakenBeforeFirstLine`, which is about the
  moment the timer is taken and not about the kill (section 6). For the limit the invariant relates what
  was printed to what was read and what is still in the pipe, and says that a
  scan that is over without a long line at its head has read everything. For the
  kill, `DogInv` has the flag set before the group is killed and `ReportInv` the
  leader reaped once `Wait` is over, so no kill comes after the flag is read.
* `Notifications_proofs`: `TypeCorrect` and `NotifiedIsNoLie`:
  `Spec => []NotifiedIsTrue`. The invariant carries the claim through the
  message's record, the request the watcher gave up on, and both copies of the
  note: whoever may yet write "notified" about a note has got through.
* `Notifications_proofs!ToldOnce`: `Spec => []ToldTwiceOnlyAfterFault`. `OnceInv`
  holds as long as no fault and no restart of the watcher has been spent. It is
  seven facts that need one another: every write is at origin (`Aired`); only the
  runner reports how a task ended (`Reporting`), because a note whose report is
  still to come or on its way is not old (`Fresh`) and a terminal note without
  one has its line (`Marked`), so the watcher's scan finds nothing
  (`NoneUnnotified`); and an end is reported once (`Unsent`, `Alone`) and not
  again after it got through (`Counted`). `OneAlertPerStreak` says of the health
  alert that it has gone out exactly when the streak has reached the threshold:
  once per streak, as `watcher_mode.go:35` has it.
* `UsageLimit_proofs`: `TypeCorrect`; `ReferenceIsGood`:
  `Spec => []ReferencedTimerWillCollect`; `PauseIsCovered`:
  `Spec => []KnownPauseIsCovered`; `NoteIsCovered`:
  `Spec => []RecordedNoteIsCovered`. None is inductive alone. `TimerCalls` says
  that a timer's call is about its own engine and begins only after the timer
  has fired, so no other goroutine takes its engine from it; `Flagged`, that a
  known reset time means a pause, so that an engine whose reset time becomes
  known was tripped by a task that has `handleTrip` still before it. Cover is
  handed on: from that task to the timer the engine refers to or gets, from a
  timer to its call or to the call that cancels it, and a call keeps it until
  its `Clear`. For the notes `Noted` begins where `Record` ends, one step before
  `handleTrip`, and needs that a decision is in the note before it is recorded
  (`Decided`). With the reference kept by `cancel`, the notes dropped by `Clear`
  or `handleTrip` silenced by `unknownSent` the proofs fail at that step.
  `WhatResumesHoldIsBlocked`: `Spec => []CollectedIsBlocked`. `Owned` says, while
  nobody edits blocked notes, that a note in the pause state or in a call is
  blocked and its task at rest, and in only one place; so a flip, which makes the
  note claimable, takes it from the only one that had it, and no other resume
  meets it as the empty commit that would end it. `NoteIsCovered` rests on that:
  no resume fails on the way.
* `PlanReview_proofs`: `TypeCorrect`; `UnitsStayWithPlan`:
  `Spec => []UnitsArePlan`; `NoRoundAskedTwice`: `Spec => []RoundAskedOnce`;
  `PoolHasTaskOnce`: `Spec => []OneJob`. The invariant of the first two, `Sound`,
  relates the note and the run: a note has units only from its plan, a plan only
  when triage said "yes", headings only with a plan and up to its round, which is
  why a fresh run finds neither; and a run between the planner and the seeding
  works on the note's round and, from the gate on, on its plan. Every round
  begins one past all headings, however its write ended. For the third the pool
  has the task only while its note is queued or in progress and the poller only
  while it is in review, until a person writes a status: `HandsOff` turns the
  history of hand edits into that case split.
* `PlanReview_proofs!OnlyClearedPlans`: `Spec => []OnlyClearedPlansRun`. `ClearInv`
  holds until something is spent, and ties the poller to the plan its verdict is
  about: a note in review shows the message of its last plan (`Shown`), the
  poller is about that message, feedback it has read is in the note, and from the
  poller's verdict through the claim to the seeding the note is `Accounted` for:
  it has no plan, a plan let through, or the feedback that rejects it. With the
  plan read at the round after, or seeded past the gate, the proofs fail.
  `UnseenPlanIsClear`: what `UnseenPlanIsSure` says of the hard rules, the scores
  and the choices, from what the gate decided when it let the plan go
  (`GateInv`). That the best option leads every other by the gap is a fold over
  the probabilities (`TopTwo`) and is left to `plan_runs`.
* `TaskPipeline_proofs`: `TypeCorrect`; `PoolHoldsTaskOnce`:
  `Spec => []OneJobPerTask`; `WithdrawnIsNotRun`: `Spec => []WithdrawnStaysOut`;
  `QueuedIsServed`: `Spec => []QueuedIsInPool`; `InProgressIsServed`:
  `Spec => []InProgressIsRunning`; `WorkIsKept`: `Spec => SessionWorkIsKept`; and
  `LifecycleImplemented`: `Spec => ImplementsLifecycle`, the refinement of
  `TaskLifecycle`. `WriteEffect` says once, note by note, what a write leaves in
  the clone and at origin whichever of its six ways it went, and `WriteActions`
  that every write of the runner is a stamp, a claim, a start or an end. Three
  invariants rest on them. `PoolInv`: a task in the pool is held (queued or in
  progress) in both copies of its note and untouched at origin, which is why a
  claim that lands finds it out of the pool. `VaultInv`: without a conflict in
  the tree the clone is at most one step of the runner ahead of origin (`Lag`) in
  every note people have left alone; it has every session origin has; and a fresh
  run has none, so the branch it deletes holds no session's work. A late push
  therefore moves origin by one legal step. `HistInv`: a note of which no write
  failed is the same in the clone and at origin, and queued only in the pool.

Assumptions: `WorkerAssumption` (finitely many repositories, a natural number
of slots, engines of jobs are engines), `UnitAssumption` (at least one unit),
`GateAssumption` (at least one round), `SessionAssumption`,
`NotificationsAssumption` (a positive alert threshold), `UsageAssumption`
(engines of notes are engines, and nothing else is called like a timer),
`PlanAssumption` (at least one round, a natural number of each kind of fault),
`PipelineAssumption` (the same of faults) and `VaultAssumption` (no task is
`None`). TLC evaluates them in the passing runs.

Only model-checked: liveness (`RunnableJobLeavesQueue`, `EngineResumesOnItsOwn`,
`BlockedNoteIsFlipped`, `RunEnds`, `ClaimableIsClaimed`, `ReviewIsSettled`,
`GateSettles`, `SilentSessionEnds`, `OutageIsReported`, `FirstStatusIsTried`,
`WedgedGateIsReported`), which rests on fairness and `ENABLED` and is beyond the
provers here, and of `UnseenPlanIsSure` the lead of the best option. Every other
invariant and every action property of the passing runs is a theorem.

## 6. Where the code and what it says of itself disagree

With a run that shows it:

* `plan_uncleared`: a planner that meets its usage limit after a rejection leaves
  the rejected plan in the note under a round that has no review text; the
  auto-resume sends the note round, and the plan's units are seeded and run
  (`planner.go:368`, `planner.go:385`).
* `gate_green`: the gate takes the newest CI run of the branch for the run of
  its head. Right after a fix is pushed that is the completed run of the commit
  before, whose success merges the fix (`mergegate_gh.go:346`). A repository with
  two workflows has the same on a single commit: either's run will do.
* `limit_skips`: `Resume` writes every note it collected, also one a person has
  edited since, which its mutation leaves alone. `WriteNote` commits
  unconditionally, git refuses the empty commit, and `Resume` returns there
  (`httpapi.go:339-351`, `vaultgit.go:142`): the notes behind it stay blocked,
  `Clear` having dropped the list, and nobody is woken. `httpapi.go:315-318` says
  that such a note "is deliberately skipped, not forced".

Met while modelling; the models take these steps, and the property in question
makes the exception by name:

* A claim whose push fails leaves its commit in the clone; the next write that
  succeeds pushes it. Origin then says `queued` and no job exists until a
  restart (`dispatch.go:185-188`; `QueuedIsInPool` excludes tasks whose write
  failed).
* When the review engine meets its usage limit the unit loop returns nil
  (`unitloop.go:463`), and its caller takes that for "every unit done" and opens
  the pull request (`multiunit.go:141-142`; `FinishedUnlessLimited` names the
  case).
* A conflict leaves the clone inside a rebase that no `Sync` ends, and inside it
  a push that was merely rejected is not retried (`vaultgit.go:151`, against
  `vaultgit.go:108-111`; the models of the vault take the step).
* A fresh setup that fails deletes the task branch, that of a run killed in its
  first session included (`setupfallback.go:190`; `SessionWorkIsKept` holds for
  tasks that have a `session_id`).
* A vault write that fails after a trip, a reset time that has passed by the
  time `handleTrip` looks at it, and the review engine's limit each leave an
  engine paused with no timer (`crashfallback.go:362`, `resume_timer.go:97`,
  `unitloop.go:458`; `EngineResumesOnItsOwn` is about runs without them). A
  resume that fails leaves the notes it had not reached blocked, with their
  entry deleted (`httpapi.go:340-349`).
* A timer whose function has started survives `cancel` and resumes the engine
  again; its tail drops the reference to a timer armed since
  (`resume_timer.go:118-123`).
* A resume in the middle of a scan lets a later job of an engine pass an
  earlier one (`worker.go:157`), and a resume that fails wakes nobody
  (`httpapi.go:349`; `RunnableJobLeavesQueue` excludes such engines).
* A run that stops after a unit's first session committed and before the write
  of its id takes a new `base_sha` next time, and those commits are in no
  review (`unitloop.go:374`; `EveryCommitReviewed` names it, "unrecorded").
* Nothing looks whether a session that ended well, or a verify command, left the
  clone clean. What a done unit left lies there until a block commits it
  (`blockpreserve.go:50`): as part of the next unit, if that has a session by
  then, and otherwise below its `base_sha`; or, when opening the pull request
  fails, behind the last review (`multiunit.go:222`; "leftover"). A block at a
  review whose vault write fails leaves the unit at review under a preserve
  commit, and the next run reviews up to its old `head_sha` ("unwritten").
* A unit may spend two review rounds where the cap is three, and the task-wide
  budget never refuses anything (`unitloop.go:118-119`; the theorem
  `BudgetIsSlack`). The comment at `unitloop.go:105-109` has it block next to the
  unit's own cap, and `TestUnitLoopTaskBudgetBlocks` (`unitloop_test.go:431-487`)
  shows it blocking a unit that has spent none, from a note in which another has
  spent four, which no run of the code writes.
* After a crash between opening the pull request and recording it, every later
  run tries to open it again, which gh refuses, and blocks
  (`multiunit.go:222`; `UnitLoop` has the step, no property is about it).
* Everything else that ends a run between `plan_round` or the plan being written
  and the stop being written has the effect of `plan_uncleared`: a crash, a
  failed write, a planner that blocks and is resolved. The next run takes the
  plan for approved (`OnlyClearedPlansRun` excludes them).
* When the post of a later round fails, the note keeps the earlier round's
  message id (`planner.go:333`) and the poller never posts again. The review
  waits for reactions to an old message; a tick still on it, from a round that
  was approved on a tick and replanned because of its feedback, approves a plan
  nobody was shown (`OnlyClearedPlansRun` and `ReviewIsSettled` exclude it).
* A tick with feedback written is an approval for the poller
  (`planpoll.go:47`) and a rejection for the reclaim (`planner.go:368`), which
  `planner.go:355-356` calls the identical rule.
* The poller writes its verdict over whatever the status has become
  (`planpoll.go:157`): next to a verdict by hand the task is claimed twice, and
  the second job takes a fresh stop for an approval (`OneJob` excludes edits).
* A planner's usage limit in the first round blocks a note that has neither a
  session nor a plan, so the auto-resume starts a fresh run, which fails because
  the branch exists (`runner.go:812`) and blocks again; the limit after that
  finds no branch.
* A person's feedback reaches only the round right after it: when that round's
  plan is unusable, the next prompt says so and drops the feedback
  (`planner.go:55-61`).
* A fresh run killed by a crash leaves its note at `in_progress` until a person
  edits it (`InProgressIsRunning` excludes crashes).
* `taskmeta.go:27-28` says a note never leaves a terminal status once it has
  reached it; `blocked` is one, and every resume leaves it
  (`Notifications.Reclaim`).
* A pull request the resumed session has merged in the last round is announced
  as "still open" by the round limit, whose message does not look
  (`mergegate.go:9-10`), and so is one GitHub merged though gh reported an error.
* `parseReviewVerdict` takes any first line with APPROVE in it for an approval,
  "DISAPPROVE" included (the answer `refusal`; `MergedWasChecked` speaks of the
  verdict as it was read).
* A person who merges between the gate's second look and its merge makes `gh pr
  merge` exit with 0, and the merge is logged as the gate's own, with no message
  to anybody (`mergegate_gh.go:378-381`, `mergegate.go:103`; `MergeAlreadyDone`,
  which `SilenceMeansChecked` allows for a person). What a person pushes in that
  gap is merged unread (`MergedWasChecked` is about the others' commits).
* `runner.go:1043-1044` has the first line mean that the engine is alive. Between
  the watchdog's taking of the startup timer and its kill, and between the scan of
  that line and the stop of the timer, a line may still be printed or read; the
  engine is then killed and reported as one that hung at its start
  (`StartupTakenBeforeFirstLine` says only that no line had been handled).
* `DecideGate` looks at the confidence of an answer to a planner's question and at
  whether its choice is "none"; an answer that has a confidence and no choice at
  all would pass. Jev's answers have either both or neither, and so do the inputs
  of `plan_runs`.
* The gate hands its feedback to a session whose usage limit never trips the
  pause: `ResumeWithFeedback` does not look for it.
* A crash during the gate leaves a done note with an open pull request; nothing
  takes the gate up again, and no message is sent.
* A review that takes too long has only its own process killed, and the call
  then waits for whoever holds the output (`mergegate_gh.go:188-190`,
  `mergegate_gh.go:226-228`), such as a test run the integration prompt asks for
  (`mergegate_gh.go:278`). A process that left the group holds up `invokeEngine`
  in the same way (`SilentSessionEnds` names both).
* Of a pi session that failed once and then recovered by its own retry the first
  failure is what counts.
* A `notified` line of an earlier event masks a later message that was lost
  (`watcher.go:189`; `FirstStatusIsTried` is about the first).
* The health alert is sent once, without a record or a further try
  (`watcher_mode.go:44`); a stale task is reported anew each minute for as long
  as its gate is quiet, though `watcher.go:91-94` takes stale for about to be
  killed.
* A merge-back whose vault write fails returns before its message is sent, so
  nobody is told of that end unless the write before it reached the clone
  (`FirstStatusIsTried` says what the watcher makes of it).

## 7. What is not modelled

* The Discord claim post and the thread id it writes into a note, and the
  poller's one alert after ten failed reposts: messages nothing reads.
* Note parsing and printing, configuration and engine resolution, the engines'
  command lines, the shape of a reset time, the jev client: sequential code of
  one call, for which unit tests are the right tool.
* Torn reads: the watcher, the dispatch scan and the API read notes in the clone
  outside the vault's mutex, and may find one half written; a read is one step in
  every module. `ready_at` is stamped or not; that a note may hold the field with
  an empty value is left to the parser's tests.
* In `TaskPipeline` the skip of a paused engine's notes (it is the guard of
  `UsageLimit.Start`) and the order of claims; in `RepoWorker` what
  `SetStage` and `TouchActivity` show on the status page.

## 8. Plan

What is left to prove is the part of the liveness properties that is safety, as
`RunIsFinite` and `GateIsFinite` do for the two loops: that a resume flips its
notes in finitely many steps (`BlockedNoteIsFlipped`), and that a job covered by
a signal stays so until it leaves its queue (`RunnableJobLeavesQueue`).
