----------------------------- MODULE UsageLimit -----------------------------
(***************************************************************************)
(* A usage limit from the moment a task hits it to the moment its note is  *)
(* claimable again: the pause flag of internal/pause, the auto-resume      *)
(* timers of cmd/pmrunner/resume_timer.go, Resume of internal/httpapi (run *)
(* by a timer goroutine or by POST /resume) and the end of a task in       *)
(* internal/runner.  One step is one lock hold or one vault write.         *)
(***************************************************************************)
EXTENDS Naturals, FiniteSets

CONSTANTS Engines,   \* engine names
          Notes,     \* task notes
          EngineOf,  \* the coding engine of a note
          TimerIds,  \* bound: timers that may be live at once, per engine
          Manual,    \* the goroutine serving POST /resume
          None,      \* no timer, no engine
          Scopes,    \* the calls people make: "one" engine named, or "all" paused
          Faults     \* the faults below that a run of this instance may meet

\* "write":  a vault write fails (push rejected twice, rebase conflict).
\* "hand":   people edit notes a limit has blocked.
\* "late":   a reset time has passed by the time handleTrip looks at it.
\* "review": the review engine of the unit loop meets its limit.
FaultKinds == {"write", "hand", "late", "review"}

ASSUME UsageAssumption ==
  /\ EngineOf \in [Notes -> Engines]
  /\ Faults \subseteq FaultKinds
  /\ Scopes \subseteq {"one", "all"}
  /\ None \notin Engines \cup TimerIds
  /\ Manual \notin Engines \X TimerIds

Timers == Engines \X TimerIds
Resumers == Timers \cup {Manual}
Clear == [paused |-> FALSE, resets |-> FALSE, notes |-> {}]
Off == [at |-> "off", todo |-> {}, eng |-> None, notes |-> {}]

VARIABLES
  entry,   \* pause.State: paused, whether resetsAt is known, blockedNotes
  status,  \* the note's status; "claimable" stands for blocker_resolved and ready
  task,    \* where the task of a note is
  known,   \* whether the limit the task hit came with a reset time
  out,     \* the status the task decided on, a local of ProcessTask
  ref,     \* engineResumeState.timer
  sent,    \* engineResumeState.unknownSent
  timer,   \* what each timer goroutine is doing
  resume,  \* each Resume call in progress
  broken   \* the faults this run may meet: none, people's edits, or all of Faults

taskVars == <<task, known, out>>
timerVars == <<ref, sent, timer>>
vars == <<entry, status, taskVars, timerVars, resume>>

Init ==
  /\ entry = [e \in Engines |-> Clear]
  /\ status = [n \in Notes |-> "claimable"]
  /\ task = [n \in Notes |-> "off"]
  /\ known = [n \in Notes |-> FALSE]
  /\ out = [n \in Notes |-> "done"]
  /\ ref = [e \in Engines |-> None]
  /\ sent = [e \in Engines |-> FALSE]
  /\ timer = [t \in Timers |-> "none"]
  /\ resume = [p \in Resumers |-> Off]
  /\ broken \in {{}, Faults \cap {"hand"}, Faults}
-----------------------------------------------------------------------------
\* Dispatch claims a claimable note and its worker pops the job: both look at
\* the pause flag of its engine first.
Start(n) ==
  /\ status[n] = "claimable" /\ task[n] = "off" /\ ~entry[EngineOf[n]].paused
  /\ status' = [status EXCEPT ![n] = "claimed"]
  /\ task' = [task EXCEPT ![n] = "running"]
  /\ known' = [known EXCEPT ![n] = FALSE]
  /\ UNCHANGED <<entry, out, timerVars, resume>>

\* The task ends without meeting a limit.
Finish(n) ==
  /\ task[n] = "running"
  /\ task' = [task EXCEPT ![n] = "off"]
  /\ status' = [status EXCEPT ![n] = "done"]
  /\ UNCHANGED <<entry, known, out, timerVars, resume>>

\* Pause.Trip: a nil reset time never erases a known one.
Tripped(e, k) == [entry EXCEPT ![e].paused = TRUE, ![e].resets = @ \/ k]

\* invokeEngine reports the limit; s is the status the read-back decides on.
HitLimit(n, k, s) ==
  /\ task[n] = "running"
  /\ entry' = Tripped(EngineOf[n], k)
  /\ task' = [task EXCEPT ![n] = "tripped"]
  /\ known' = [known EXCEPT ![n] = k]
  /\ out' = [out EXCEPT ![n] = s]
  /\ UNCHANGED <<status, timerVars, resume>>

\* The review engine meets its limit inside the unit loop, which trips the
\* pause and returns nil: no note is recorded and handleTrip is not called.
ReviewLimit(n, e, k) ==
  /\ "review" \in broken /\ task[n] = "running"
  /\ entry' = Tripped(e, k)
  /\ UNCHANGED <<status, taskVars, timerVars, resume>>

\* The vault write of the outcome, in handleCrashFallback or the merge-back.
WriteOutcome(n) ==
  /\ task[n] = "tripped"
  /\ status' = [status EXCEPT ![n] = out[n]]
  /\ task' = [task EXCEPT ![n] = "written"]
  /\ UNCHANGED <<entry, known, out, timerVars, resume>>

\* That write fails: the task returns an error and skips all that follows.
WriteOutcomeFails(n) ==
  /\ "write" \in broken /\ task[n] = "tripped"
  /\ status' = [status EXCEPT ![n] = "stuck"]
  /\ task' = [task EXCEPT ![n] = "off"]
  /\ out' = [out EXCEPT ![n] = "done"]
  /\ UNCHANGED <<entry, known, timerVars, resume>>

\* Pause.AddBlockedNote, for a blocked task only; it makes an unpaused entry
\* when a resume has cleared the engine meanwhile.
Record(n) ==
  /\ task[n] = "written"
  /\ entry' = IF out[n] = "blocked"
                THEN [entry EXCEPT ![EngineOf[n]].notes = @ \cup {n}] ELSE entry
  /\ task' = [task EXCEPT ![n] = "recorded"]
  /\ UNCHANGED <<status, known, out, timerVars, resume>>

Late(n) == known[n] /\ "late" \in broken

\* Mutant: once the unknown message is out, later trips are all ignored.
HandleTripQuietIfSent(n) ==
  LET e == EngineOf[n] IN
  /\ task[n] = "recorded"
  /\ ref[e] # None \/ ~known[n] \/ Late(n) \/ sent[e]
  /\ task' = [task EXCEPT ![n] = "off"]
  /\ out' = [out EXCEPT ![n] = "done"]
  /\ sent' = [sent EXCEPT ![e] = @ \/ ref[e] = None]
  /\ UNCHANGED <<entry, status, known, ref, timer, resume>>

\* handleTrip, from OnBlocked or OnTerminal, when no timer gets armed: one is
\* already, or the reset time is unknown or past.
HandleTripQuiet(n) ==
  LET e == EngineOf[n] IN
  /\ task[n] = "recorded"
  /\ ref[e] # None \/ ~known[n] \/ Late(n)
  /\ task' = [task EXCEPT ![n] = "off"]
  /\ out' = [out EXCEPT ![n] = "done"]
  /\ sent' = [sent EXCEPT ![e] = @ \/ ref[e] = None]
  /\ UNCHANGED <<entry, status, known, ref, timer, resume>>

\* handleTrip arms a timer for a known reset time.
HandleTripArms(n) ==
  LET e == EngineOf[n] IN
  /\ task[n] = "recorded" /\ ref[e] = None /\ known[n]
  /\ \E i \in TimerIds :
       /\ timer[<<e, i>>] = "none"
       /\ timer' = [timer EXCEPT ![<<e, i>>] = "armed"]
       /\ ref' = [ref EXCEPT ![e] = i]
  /\ sent' = [sent EXCEPT ![e] = FALSE]
  /\ task' = [task EXCEPT ![n] = "off"]
  /\ out' = [out EXCEPT ![n] = "done"]
  /\ UNCHANGED <<entry, status, known, resume>>
-----------------------------------------------------------------------------
\* The timer's function starts; it first sends its Discord message.
Fire(t) ==
  /\ timer[t] = "armed"
  /\ timer' = [timer EXCEPT ![t] = "fired"]
  /\ UNCHANGED <<entry, status, taskVars, ref, sent, resume>>

\* The timer's function calls doResume for its engine.
FireResumes(t) ==
  /\ timer[t] = "fired"
  /\ timer' = [timer EXCEPT ![t] = "resuming"]
  /\ resume' = [resume EXCEPT ![t].at = "next", ![t].todo = {t[1]}]
  /\ UNCHANGED <<entry, status, taskVars, ref, sent>>

\* After doResume: the function forgets whatever timer the engine has now.
Tail(t) ==
  /\ timer[t] = "resuming" /\ resume[t].at = "off"
  /\ timer' = [timer EXCEPT ![t] = "none"]
  /\ ref' = [ref EXCEPT ![t[1]] = None]
  /\ sent' = [sent EXCEPT ![t[1]] = FALSE]
  /\ UNCHANGED <<entry, status, taskVars, resume>>
-----------------------------------------------------------------------------
\* POST /resume for one engine, or for every engine paused at that moment.
ManualResume ==
  /\ resume[Manual].at = "off"
  /\ \E E \in SUBSET Engines :
       /\ \/ "one" \in Scopes /\ \E e \in Engines : E = {e}
          \/ "all" \in Scopes /\ E = {e \in Engines : entry[e].paused}
       /\ resume' = [resume EXCEPT ![Manual].at = "next", ![Manual].todo = E]
  /\ UNCHANGED <<entry, status, taskVars, timerVars>>

\* Mutant: cancel stops the timer but leaves the reference to it.
ResumeCancelsKeepingRef(p, e) ==
  /\ resume[p].at = "next" /\ e \in resume[p].todo
  /\ resume' = [resume EXCEPT ![p].at = "clear", ![p].eng = e, ![p].todo = @ \ {e}]
  /\ timer' = [t \in Timers |->
                 IF t = <<e, ref[e]>> /\ timer[t] = "armed" THEN "none" ELSE timer[t]]
  /\ sent' = [sent EXCEPT ![e] = FALSE]
  /\ UNCHANGED <<entry, status, taskVars, ref>>

\* cancel: stop the timer the engine refers to, unless it has fired.
ResumeCancels(p, e) ==
  /\ resume[p].at = "next" /\ e \in resume[p].todo
  /\ resume' = [resume EXCEPT ![p].at = "clear", ![p].eng = e, ![p].todo = @ \ {e}]
  /\ timer' = [t \in Timers |->
                 IF t = <<e, ref[e]>> /\ timer[t] = "armed" THEN "none" ELSE timer[t]]
  /\ ref' = [ref EXCEPT ![e] = None]
  /\ sent' = [sent EXCEPT ![e] = FALSE]
  /\ UNCHANGED <<entry, status, taskVars>>

\* The call goes on to its next engine once notes is empty.
Flipping(p, notes) ==
  [resume EXCEPT ![p].at = IF notes = {} THEN "next" ELSE "flip", ![p].notes = notes,
                 ![p].eng = None]

\* Mutant: the entry is deleted before its notes are read.
ResumeClearsFirst(p) ==
  LET e == resume[p].eng IN
  /\ resume[p].at = "clear"
  /\ resume' = Flipping(p, {})
  /\ entry' = [entry EXCEPT ![e] = Clear]
  /\ UNCHANGED <<status, taskVars, timerVars>>

\* Mutant: the entry loses its flag but keeps its notes.
ResumeClearsKeepingNotes(p) ==
  LET e == resume[p].eng IN
  /\ resume[p].at = "clear"
  /\ resume' = Flipping(p, entry[e].notes)
  /\ entry' = [entry EXCEPT ![e].paused = FALSE, ![e].resets = FALSE]
  /\ UNCHANGED <<status, taskVars, timerVars>>

\* Pause.Clear: the entry is deleted, its notes are this call's to flip.
ResumeClears(p) ==
  LET e == resume[p].eng IN
  /\ resume[p].at = "clear"
  /\ resume' = Flipping(p, entry[e].notes)
  /\ entry' = [entry EXCEPT ![e] = Clear]
  /\ UNCHANGED <<status, taskVars, timerVars>>

\* One WriteNote: blocked becomes blocker_resolved.
ResumeFlips(p, n) ==
  /\ resume[p].at = "flip" /\ n \in resume[p].notes /\ status[n] = "blocked"
  /\ resume' = Flipping(p, resume[p].notes \ {n})
  /\ status' = [status EXCEPT ![n] = "claimable"]
  /\ UNCHANGED <<entry, taskVars, timerVars>>

\* The note is no longer blocked, and is left so.  Only when note.Bytes lays it
\* out otherwise than the hand that edited it is there anything to commit.
ResumeSkips(p, n) ==
  /\ resume[p].at = "flip" /\ n \in resume[p].notes /\ status[n] # "blocked"
  /\ resume' = Flipping(p, resume[p].notes \ {n})
  /\ UNCHANGED <<entry, status, taskVars, timerVars>>

\* That WriteNote fails: Resume returns at once, the notes it had still to
\* flip forgotten and nobody woken.  A note that is no longer blocked is
\* written back as it was, and git refuses the empty commit.
ResumeFails(p, n) ==
  /\ resume[p].at = "flip" /\ n \in resume[p].notes
  /\ "write" \in broken \/ status[n] # "blocked"
  /\ resume' = [resume EXCEPT ![p] = Off]
  /\ UNCHANGED <<entry, status, taskVars, timerVars>>

\* No engine left: dispatch and the workers are woken, Resume returns.
ResumeReturns(p) ==
  /\ resume[p].at = "next" /\ resume[p].todo = {}
  /\ resume' = [resume EXCEPT ![p] = Off]
  /\ UNCHANGED <<entry, status, taskVars, timerVars>>

\* A person edits a blocked note: finished by hand, or claimable again.
HandResolve(n, s) ==
  /\ "hand" \in broken /\ status[n] = "blocked" /\ s \in {"done", "claimable"}
  /\ status' = [status EXCEPT ![n] = s]
  /\ UNCHANGED <<entry, taskVars, timerVars, resume>>
-----------------------------------------------------------------------------
HandleTrip(n) == HandleTripQuiet(n) \/ HandleTripArms(n)

TaskEnds(n) == WriteOutcome(n) \/ WriteOutcomeFails(n) \/ Record(n) \/ HandleTrip(n)

TimerRuns(t) == Fire(t) \/ FireResumes(t) \/ Tail(t)

ResumeRuns(p) ==
  \/ \E e \in Engines : ResumeCancels(p, e)
  \/ ResumeClears(p) \/ ResumeReturns(p)
  \/ \E n \in Notes : ResumeFlips(p, n) \/ ResumeSkips(p, n) \/ ResumeFails(p, n)

Steps ==
  \/ \E n \in Notes :
       \/ Start(n) \/ Finish(n) \/ TaskEnds(n)
       \/ \E k \in BOOLEAN, s \in {"blocked", "done"} : HitLimit(n, k, s)
       \/ \E k \in BOOLEAN, e \in Engines : ReviewLimit(n, e, k)
       \/ \E s \in {"done", "claimable"} : HandResolve(n, s)
  \/ \E t \in Timers : TimerRuns(t)
  \/ ManualResume
  \/ \E p \in Resumers : ResumeRuns(p)

Next == Steps /\ UNCHANGED broken

\* Goroutines run and timers go off.  No assumption on people: nobody need
\* ever call POST /resume or edit a note, and no task need meet a limit.
Fairness ==
  /\ \A n \in Notes : WF_vars(TaskEnds(n))
  /\ \A t \in Timers : WF_vars(TimerRuns(t) \/ ResumeRuns(t))
  /\ WF_vars(ResumeRuns(Manual))

Spec == Init /\ [][Next]_<<vars, broken>>

FairSpec == Spec /\ Fairness
-----------------------------------------------------------------------------
Statuses == {"claimable", "claimed", "blocked", "done", "stuck"}

TypeOK ==
  /\ entry \in [Engines -> [paused : BOOLEAN, resets : BOOLEAN, notes : SUBSET Notes]]
  /\ status \in [Notes -> Statuses]
  /\ task \in [Notes -> {"off", "running", "tripped", "written", "recorded"}]
  /\ known \in [Notes -> BOOLEAN]
  /\ out \in [Notes -> {"blocked", "done"}]
  /\ ref \in [Engines -> TimerIds \cup {None}]
  /\ sent \in [Engines -> BOOLEAN]
  /\ timer \in [Timers -> {"none", "armed", "fired", "resuming"}]
  /\ resume \in [Resumers -> [at : {"off", "next", "clear", "flip"}, todo : SUBSET Engines,
                              eng : Engines \cup {None}, notes : SUBSET Notes]]
  /\ broken \subseteq Faults

\* Timer t has still to go through its engine's Clear.
WillCollect(t) == timer[t] \in {"armed", "fired"} \/ t[1] \in resume[t].todo

\* The timer an engine refers to has not begun its Resume, so handleTrip may
\* rely on it: whatever the caller recorded before, that timer's Clear will
\* still collect (resume_timer.go:94-96).
ReferencedTimerWillCollect ==
  \A e \in Engines : ref[e] # None => WillCollect(<<e, ref[e]>>)

\* Somebody is going to clear engine e: a timer not past its Clear, a Resume
\* about to clear it, or a task that has still to call handleTrip.  A Resume of
\* several engines that has e before it is not enough: it may fail on the way.
WillClear(e) ==
  \/ \E i \in TimerIds : WillCollect(<<e, i>>)
  \/ \E p \in Resumers : resume[p].at = "clear" /\ resume[p].eng = e
  \/ \E n \in Notes : EngineOf[n] = e /\ task[n] \in {"tripped", "written", "recorded"} /\ known[n]

\* Whatever people edit, and with no other fault, an engine paused with a known
\* reset time is always going to be resumed without anybody's help, whatever
\* the order of trips, timers and resumes.
KnownPauseIsCovered ==
  broken \subseteq {"hand"} => \A e \in Engines : entry[e].paused /\ entry[e].resets => WillClear(e)

\* Without a fault, and with nobody editing the notes a limit has blocked, such
\* a note with a known reset time is always in reach: of a resume still to
\* come, or of the one that is flipping it now.
RecordedNoteIsCovered ==
  broken = {} =>
    \A n \in Notes : status[n] = "blocked" /\ known[n] /\ task[n] = "off" =>
      \/ n \in entry[EngineOf[n]].notes /\ WillClear(EngineOf[n])
      \/ \E p \in Resumers : n \in resume[p].notes

\* Resume's write of a note that is no longer blocked commits nothing, fails and
\* takes the other notes with it (httpapi.go:339-351, vaultgit.go:142).  The
\* runner never brings that about by itself: however trips, timers and people's
\* resumes interleave, what a Resume collected is blocked until that very
\* Resume flips it, so no two of them hold one note, nor one a note whose task
\* runs again.
CollectedIsBlocked ==
  "hand" \notin broken => \A p \in Resumers : \A n \in resume[p].notes : status[n] = "blocked"

\* "that engine must resume on its own once its limit resets either way"
\* (runner_mode.go:261-262): a pause with a known reset time ends, whatever
\* people edit meanwhile.
EngineResumesOnItsOwn ==
  \A e \in Engines :
    broken \subseteq {"hand"} /\ entry[e].paused /\ entry[e].resets ~> ~entry[e].paused

\* A note a limit with a known reset time blocked becomes claimable in the end
\* (httpapi.go:306-309), as long as nobody edits a blocked note.
BlockedNoteIsFlipped ==
  \A n \in Notes : broken = {} /\ status[n] = "blocked" /\ known[n] ~> status[n] # "blocked"

\* "Flipping a note that isn't currently "blocked" is deliberately skipped"
\* (httpapi.go:315): a Resume that is done with the notes it collected has left
\* none of them blocked, whoever edited which of them meanwhile.
SkipsOnlyTheEdited ==
  [][\A p \in Resumers : resume[p].at = "flip" /\ resume'[p].at # "flip" =>
       \A n \in resume[p].notes : status'[n] # "blocked"]_vars
=============================================================================
