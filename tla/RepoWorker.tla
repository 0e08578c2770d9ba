----------------------------- MODULE RepoWorker -----------------------------
(***************************************************************************)
(* The worker pool of internal/worker: one goroutine per repository, each  *)
(* with a mutex-guarded queue and a wake channel of capacity one, all      *)
(* sharing one channel of global slots.  The per-engine pause flag of      *)
(* internal/pause is read while a worker scans its queue; the resume path  *)
(* of internal/httpapi clears it and later wakes every worker.  Atomic     *)
(* steps are the code's: one lock hold, one channel operation, one read of *)
(* the pause flag.                                                         *)
(***************************************************************************)
EXTENDS Integers, FiniteSets, SequencesExt

CONSTANTS Repos,     \* the configured repositories: one RepoWorker each
          Engines,   \* engine names, the keys of the pause state
          Jobs,      \* the claims dispatch makes; each is enqueued at most once
          RepoOf,    \* the repository key of a job, maybe not a configured one
          EngineOf,  \* the engine of a job
          Slots,     \* capacity of the global slot channel
          Limited,   \* bound: the engines whose usage limit may be met
          NoJob      \* no job: an idle enqueuer, a worker with nothing in hand

ASSUME WorkerAssumption ==
  /\ IsFiniteSet(Repos)
  /\ Slots \in Nat
  /\ Limited \subseteq Engines
  /\ NoJob \notin Jobs
  /\ EngineOf \in [Jobs -> Engines]
  /\ DOMAIN RepoOf = Jobs

VARIABLES
  queue,      \* queue[r]: RepoWorker.queue
  wake,       \* wake[r]: whether the wake channel holds its one signal
  pc,         \* pc[r]: where the goroutine of r is
  pos,        \* pos[r]: the queue index popNextRunnable looks at next;
              \*   r holds its w.mu exactly when pos[r] > 1
  hand,       \* hand[r]: the job popped and not yet let go
  task,       \* task[r]: RepoWorker.currentTask, what CurrentTask reports
  slotsUsed,  \* how many values sit in the slot channel
  paused,     \* engines whose pause entry says paused
  enqueuing,  \* the job whose Enqueue has appended but not yet signalled
  unsent,     \* jobs dispatch has not handed over yet
  dropped,    \* jobs of an unknown repository, dropped with a log line
  finished,   \* jobs whose runOne is over
  flipping,   \* engines a Resume has cleared and whose notes it is rewriting
  toWake,     \* toWake[e]: workers the Resume of e has still to wake
  abandoned   \* engines whose Resume returned early, before any wake

poolState == <<queue, wake, pc, pos, hand, task, slotsUsed, finished>>
resumeState == <<paused, flipping, toWake, abandoned>>
feedState == <<enqueuing, unsent, dropped>>
vars == <<poolState, resumeState, feedState>>

Places == {"asleep", "drain", "slot", "starting", "running", "returned", "cleared"}
Holding == {"starting", "running", "returned", "cleared"}

Init ==
  /\ queue = [r \in Repos |-> <<>>]
  /\ wake = [r \in Repos |-> FALSE]
  /\ pc = [r \in Repos |-> "asleep"]
  /\ pos = [r \in Repos |-> 1]
  /\ hand = [r \in Repos |-> NoJob]
  /\ task = [r \in Repos |-> NoJob]
  /\ slotsUsed = 0
  /\ paused = {}
  /\ enqueuing = NoJob
  /\ unsent = Jobs
  /\ dropped = {}
  /\ finished = {}
  /\ flipping = {}
  /\ toWake = [e \in Engines |-> {}]
  /\ abandoned = {}
-----------------------------------------------------------------------------
\* Mutant: the append is skipped when the queue already holds a job.
EnqueueAppendLost(j) ==
  /\ enqueuing = NoJob /\ j \in unsent
  /\ RepoOf[j] \in Repos /\ pos[RepoOf[j]] = 1
  /\ queue' = [queue EXCEPT ![RepoOf[j]] = <<j>>]
  /\ enqueuing' = j
  /\ unsent' = unsent \ {j}
  /\ UNCHANGED <<wake, pc, pos, hand, task, slotsUsed, finished, dropped, resumeState>>

\* Enqueue, first half: append under w.mu, so not during a scan.
EnqueueAppend(j) ==
  /\ enqueuing = NoJob /\ j \in unsent
  /\ RepoOf[j] \in Repos /\ pos[RepoOf[j]] = 1
  /\ queue' = [queue EXCEPT ![RepoOf[j]] = Append(@, j)]
  /\ enqueuing' = j
  /\ unsent' = unsent \ {j}
  /\ UNCHANGED <<wake, pc, pos, hand, task, slotsUsed, finished, dropped, resumeState>>

\* Mutant: no signal unless the queue was empty before.
EnqueueSignalIfAlone ==
  /\ enqueuing # NoJob
  /\ wake' = [wake EXCEPT ![RepoOf[enqueuing]] = @ \/ Len(queue[RepoOf[enqueuing]]) = 1]
  /\ enqueuing' = NoJob
  /\ UNCHANGED <<queue, pc, pos, hand, task, slotsUsed, finished, unsent, dropped, resumeState>>

\* Enqueue, second half: the non-blocking send; a full channel swallows it.
EnqueueSignal ==
  /\ enqueuing # NoJob
  /\ wake' = [wake EXCEPT ![RepoOf[enqueuing]] = TRUE]
  /\ enqueuing' = NoJob
  /\ UNCHANGED <<queue, pc, pos, hand, task, slotsUsed, finished, unsent, dropped, resumeState>>

\* Workers.Enqueue with a repository nobody serves: logged and dropped.
EnqueueUnknown(j) ==
  /\ enqueuing = NoJob /\ j \in unsent /\ RepoOf[j] \notin Repos
  /\ unsent' = unsent \ {j}
  /\ dropped' = dropped \cup {j}
  /\ UNCHANGED <<enqueuing, poolState, resumeState>>
-----------------------------------------------------------------------------
\* Run: the goroutine receives the wake signal.
TakeWake(r) ==
  /\ pc[r] = "asleep" /\ wake[r]
  /\ wake' = [wake EXCEPT ![r] = FALSE]
  /\ pc' = [pc EXCEPT ![r] = "drain"]
  /\ UNCHANGED <<queue, pos, hand, task, slotsUsed, finished, resumeState, feedState>>

Scanned(r) == queue[r][pos[r]]

\* popNextRunnable reads the pause flag of one queued job and skips the job.
ScanSkip(r) ==
  /\ pc[r] = "drain" /\ pos[r] <= Len(queue[r])
  /\ EngineOf[Scanned(r)] \in paused
  /\ pos' = [pos EXCEPT ![r] = @ + 1]
  /\ UNCHANGED <<queue, wake, pc, hand, task, slotsUsed, finished, resumeState, feedState>>

\* Mutant: the removal keeps the popped job and drops the one behind it.
ScanPopOffByOne(r) ==
  /\ pc[r] = "drain" /\ pos[r] <= Len(queue[r])
  /\ EngineOf[Scanned(r)] \notin paused
  /\ hand' = [hand EXCEPT ![r] = Scanned(r)]
  /\ queue' = [queue EXCEPT ![r] =
                 IF pos[r] < Len(@) THEN RemoveAt(@, pos[r] + 1) ELSE RemoveAt(@, pos[r])]
  /\ pos' = [pos EXCEPT ![r] = 1]
  /\ pc' = [pc EXCEPT ![r] = "slot"]
  /\ UNCHANGED <<wake, task, slotsUsed, finished, resumeState, feedState>>

\* popNextRunnable finds a job whose engine is not paused and removes it.
ScanPop(r) ==
  /\ pc[r] = "drain" /\ pos[r] <= Len(queue[r])
  /\ EngineOf[Scanned(r)] \notin paused
  /\ hand' = [hand EXCEPT ![r] = Scanned(r)]
  /\ queue' = [queue EXCEPT ![r] = RemoveAt(@, pos[r])]
  /\ pos' = [pos EXCEPT ![r] = 1]
  /\ pc' = [pc EXCEPT ![r] = "slot"]
  /\ UNCHANGED <<wake, task, slotsUsed, finished, resumeState, feedState>>

\* popNextRunnable reaches the end of the queue; Run goes back to its channel.
ScanEnd(r) ==
  /\ pc[r] = "drain" /\ pos[r] > Len(queue[r])
  /\ pos' = [pos EXCEPT ![r] = 1]
  /\ pc' = [pc EXCEPT ![r] = "asleep"]
  /\ UNCHANGED <<queue, wake, hand, task, slotsUsed, finished, resumeState, feedState>>

\* runOne: the send on the slot channel goes through.
AcquireSlot(r) ==
  /\ pc[r] = "slot" /\ slotsUsed < Slots
  /\ slotsUsed' = slotsUsed + 1
  /\ pc' = [pc EXCEPT ![r] = "starting"]
  /\ UNCHANGED <<queue, wake, pos, hand, task, finished, resumeState, feedState>>

SetTask(r) ==
  /\ pc[r] = "starting"
  /\ task' = [task EXCEPT ![r] = hand[r]]
  /\ pc' = [pc EXCEPT ![r] = "running"]
  /\ UNCHANGED <<queue, wake, pos, hand, slotsUsed, finished, resumeState, feedState>>

\* Process returns nil or an error, or panics into the deferred recover:
\* OnError and OnPanic touch no state of the pool.
ProcessEnds(r) ==
  /\ pc[r] = "running"
  /\ pc' = [pc EXCEPT ![r] = "returned"]
  /\ UNCHANGED <<queue, wake, pos, hand, task, slotsUsed, finished, resumeState, feedState>>

\* The deferred calls run last in, first out: currentTask, then the slot.
ClearTask(r) ==
  /\ pc[r] = "returned"
  /\ task' = [task EXCEPT ![r] = NoJob]
  /\ pc' = [pc EXCEPT ![r] = "cleared"]
  /\ UNCHANGED <<queue, wake, pos, hand, slotsUsed, finished, resumeState, feedState>>

\* Mutant: a worker runs one job per signal instead of draining its queue.
ReleaseSlotOneJob(r) ==
  /\ pc[r] = "cleared"
  /\ slotsUsed' = slotsUsed - 1
  /\ finished' = finished \cup {hand[r]}
  /\ hand' = [hand EXCEPT ![r] = NoJob]
  /\ pc' = [pc EXCEPT ![r] = "asleep"]
  /\ UNCHANGED <<queue, wake, pos, task, resumeState, feedState>>

\* After the last of them Run looks at its queue again.
ReleaseSlot(r) ==
  /\ pc[r] = "cleared"
  /\ slotsUsed' = slotsUsed - 1
  /\ finished' = finished \cup {hand[r]}
  /\ hand' = [hand EXCEPT ![r] = NoJob]
  /\ pc' = [pc EXCEPT ![r] = "drain"]
  /\ UNCHANGED <<queue, wake, pos, task, resumeState, feedState>>
-----------------------------------------------------------------------------
\* A running task hits a usage limit of the coding, review or plan engine.
Trip(e) ==
  /\ e \in Limited /\ \E r \in Repos : pc[r] = "running"
  /\ paused' = paused \cup {e}
  /\ UNCHANGED <<flipping, toWake, abandoned, poolState, feedState>>

\* Resume (timer or HTTP) clears the engine, then rewrites its blocked notes.
ResumeClear(e) ==
  /\ e \in Limited /\ e \notin flipping /\ toWake[e] = {}
  /\ paused' = paused \ {e}
  /\ flipping' = flipping \cup {e}
  /\ UNCHANGED <<toWake, abandoned, poolState, feedState>>

\* A vault write of the rewrite fails: Resume returns before waking anybody.
ResumeFails(e) ==
  /\ e \in flipping
  /\ flipping' = flipping \ {e}
  /\ abandoned' = abandoned \cup {e}
  /\ UNCHANGED <<paused, toWake, poolState, feedState>>

\* The rewrite is over: what is left of Resume is to wake every worker.
ResumeFlipped(e) ==
  /\ e \in flipping
  /\ flipping' = flipping \ {e}
  /\ toWake' = [toWake EXCEPT ![e] = Repos]
  /\ abandoned' = {}
  /\ UNCHANGED <<paused, poolState, feedState>>

ResumeWake(e, r) ==
  /\ r \in toWake[e]
  /\ wake' = [wake EXCEPT ![r] = TRUE]
  /\ toWake' = [toWake EXCEPT ![e] = @ \ {r}]
  /\ UNCHANGED <<queue, pc, pos, hand, task, slotsUsed, finished,
                 paused, flipping, abandoned, feedState>>
-----------------------------------------------------------------------------
Scan(r) == ScanSkip(r) \/ ScanPop(r) \/ ScanEnd(r)

RunOne(r) == SetTask(r) \/ ProcessEnds(r) \/ ClearTask(r) \/ ReleaseSlot(r)

Worker(r) == TakeWake(r) \/ Scan(r) \/ AcquireSlot(r) \/ RunOne(r)

Dispatcher == EnqueueSignal \/ \E j \in Jobs : EnqueueAppend(j) \/ EnqueueUnknown(j)

Resumer(e) == ResumeClear(e) \/ ResumeFails(e) \/ ResumeFlipped(e)
              \/ \E r \in Repos : ResumeWake(e, r)

Next == \/ Dispatcher
        \/ \E r \in Repos : Worker(r)
        \/ \E e \in Engines : Trip(e) \/ Resumer(e)

\* Goroutines are scheduled and Process returns; senders blocked on a Go
\* channel are served first come, first served, which is strong fairness of
\* the slot.  Nothing is assumed of Trip, nor that dispatch sends a job or that
\* anybody resumes an engine.
Fairness ==
  /\ WF_vars(EnqueueSignal)
  /\ \A r \in Repos : /\ WF_vars(TakeWake(r) \/ Scan(r) \/ RunOne(r))
                      /\ SF_vars(AcquireSlot(r))
  /\ \A e \in Engines :
       WF_vars(ResumeFails(e) \/ ResumeFlipped(e) \/ \E r \in Repos : ResumeWake(e, r))

Spec == Init /\ [][Next]_vars

FairSpec == Spec /\ Fairness
-----------------------------------------------------------------------------
QueuedIn(r) == {queue[r][i] : i \in 1..Len(queue[r])}
Queued == UNION {QueuedIn(r) : r \in Repos}
Busy == {r \in Repos : hand[r] # NoJob}
InHand == {hand[r] : r \in Busy}
Holders == {r \in Repos : pc[r] \in Holding}

TypeOK ==
  /\ queue \in [Repos -> Seq(Jobs)]
  /\ wake \in [Repos -> BOOLEAN]
  /\ pc \in [Repos -> Places]
  /\ pos \in [Repos -> Nat \ {0}]
  /\ hand \in [Repos -> Jobs \cup {NoJob}]
  /\ task \in [Repos -> Jobs \cup {NoJob}]
  /\ slotsUsed \in Int
  /\ paused \subseteq Engines /\ flipping \subseteq Engines /\ abandoned \subseteq Engines
  /\ enqueuing \in Jobs \cup {NoJob}
  /\ unsent \subseteq Jobs /\ dropped \subseteq Jobs /\ finished \subseteq Jobs
  /\ toWake \in [Engines -> SUBSET Repos]

\* A worker has a job in hand exactly from the pop to the release, and its
\* scan position is back at the front whenever it is not scanning.
WorkerShape ==
  \A r \in Repos : /\ hand[r] = NoJob <=> pc[r] \in {"asleep", "drain"}
                   /\ pc[r] # "drain" => pos[r] = 1

\* No queue holds a job twice, no two workers hold the same job.
NoDuplicates ==
  /\ \A r \in Repos : IsInjective(queue[r])
  /\ \A r, s \in Busy : hand[r] = hand[s] => r = s

\* A claim handed to the pool is never lost and never run twice: it is not
\* yet sent, dropped for want of a worker, in exactly one queue position, in
\* one worker's hand or finished, whatever the races of Enqueue, the scan
\* that skips paused engines and the removal from the middle of the slice.
NoJobLostOrDoubled ==
  /\ Jobs = unsent \cup dropped \cup Queued \cup InHand \cup finished
  /\ Queued \cap (InHand \cup finished) = {}
  /\ InHand \cap finished = {}
  /\ unsent \cap (dropped \cup Queued \cup InHand \cup finished) = {}
  /\ NoDuplicates

\* The slot channel counts the workers inside runOne exactly, so a panic
\* neither leaks a slot nor frees one twice, and the cap is global.
SlotsCountHolders ==
  /\ slotsUsed = Cardinality(Holders)
  /\ slotsUsed <= Slots

\* What the status endpoint reads off the pool at any instant is a task its
\* worker really has in hand under a slot, and at most Slots tasks in all.
ReportedTasksRun ==
  /\ \A r \in Repos : task[r] # NoJob => r \in Holders /\ task[r] = hand[r]
  /\ Cardinality({r \in Repos : task[r] # NoJob}) <= Slots

\* The pool's books agree with what its goroutines do: every claim is in one
\* place, the slot channel counts the workers that hold one, and what the
\* status endpoint reports runs under one.
PoolBooks == NoJobLostOrDoubled /\ SlotsCountHolders /\ ReportedTasksRun

\* Somebody has still to do something before job j of r must run.
Covered(r, j) ==
  \/ EngineOf[j] \in paused \cup flipping \cup abandoned
  \/ enqueuing # NoJob /\ RepoOf[enqueuing] = r
  \/ \E e \in Engines : r \in toWake[e]

\* No lost wake-up: a worker asleep with no signal waiting has in its queue
\* only jobs of engines that are paused, that are being resumed or whose
\* resume failed, unless a signal for this worker is on its way.
NoLostWakeup ==
  \A r \in Repos : pc[r] = "asleep" /\ ~wake[r] =>
    \A i \in 1..Len(queue[r]) : Covered(r, queue[r][i])

\* The same for the jobs the current scan has already skipped: what makes
\* NoLostWakeup inductive.
SkippedCovered ==
  \A r \in Repos : pc[r] = "drain" /\ ~wake[r] =>
    \A i \in 1..Len(queue[r]) : i < pos[r] => Covered(r, queue[r][i])

\* A queued job whose engine stays unpaused, and whose engine's resume did not
\* fail, leaves the queue: a signal swallowed by a full channel, a job skipped
\* for its engine and a lost race for the slot are all made good by the drain
\* loop and by the wakes of a resume.
RunnableJobLeavesQueue ==
  \A j \in Jobs : []<>~(j \in Queued /\ EngineOf[j] \notin paused \cup abandoned)

\* The pool as its callers see it: the queue's order, the wake signals and
\* the pause flag disappear.
InSlot == {r \in Repos : pc[r] = "slot"}
Waiting == Queued \cup {hand[r] : r \in InSlot}
Running == {hand[r] : r \in Holders}
Pool == INSTANCE JobPool WITH waiting <- Waiting, running <- Running

\* The pool runs each job once, one per repository and at most Slots at once.
ImplementsPool == Pool!PoolSpec
=============================================================================
