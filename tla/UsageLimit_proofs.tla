-------------------------- MODULE UsageLimit_proofs --------------------------
(***************************************************************************)
(* What is proved of UsageLimit for any engines, notes and timers: every   *)
(* pause with a known reset time, and every note it blocked, is in reach   *)
(* of a resume still to come, and what a resume collects is blocked until  *)
(* it flips it.                                                            *)
(***************************************************************************)
EXTENDS UsageLimit, TLAPS

Call == [at : {"off", "next", "clear", "flip"}, todo : SUBSET Engines,
         eng : Engines \cup {None}, notes : SUBSET Notes]

\* What the records hold.
Entries == [Engines -> [paused : BOOLEAN, resets : BOOLEAN, notes : SUBSET Notes]]
Shapes ==
  /\ entry \in Entries
  /\ resume \in [Resumers -> Call]

\* What the rest holds.
Places ==
  /\ status \in [Notes -> Statuses]
  /\ task \in [Notes -> {"off", "running", "tripped", "written", "recorded"}]
  /\ known \in [Notes -> BOOLEAN]
  /\ out \in [Notes -> {"blocked", "done"}]
  /\ ref \in [Engines -> TimerIds \cup {None}]
  /\ sent \in [Engines -> BOOLEAN]
  /\ timer \in [Timers -> {"none", "armed", "fired", "resuming"}]
  /\ broken \subseteq Faults

\* Where a call is says what it carries.
Calls ==
  \A p \in Resumers :
    /\ resume[p].at = "off" => resume[p].todo = {}
    /\ resume[p].at # "flip" => resume[p].notes = {}
    /\ resume[p].at = "clear" => resume[p].eng \in Engines

\* A timer's call is about its own engine, and there is none before it fires.
TimerCalls ==
  \A t \in Timers :
    /\ timer[t] # "resuming" => resume[t].at = "off"
    /\ resume[t].todo # {} => resume[t].at = "next"
    /\ resume[t].todo \subseteq {t[1]}
    /\ resume[t].at = "clear" => resume[t].eng = t[1]

\* Call p is where at says, about eng, with todo and notes; the others stay.
Becomes(p, at, todo, eng, notes) ==
  /\ resume' \in [Resumers -> Call]
  /\ resume'[p].at = at /\ resume'[p].todo = todo /\ resume'[p].eng = eng /\ resume'[p].notes = notes
  /\ \A q \in Resumers \ {p} : resume'[q] = resume[q]

\* A call that begins.
LEMMA CallBegins ==
  ASSUME Shapes, NEW p \in Resumers, NEW E \in SUBSET Engines,
         resume' = [resume EXCEPT ![p].at = "next", ![p].todo = E]
  PROVE  Becomes(p, "next", E, resume[p].eng, resume[p].notes)
BY DEF Shapes, Call, Becomes

\* A call that takes its next engine.
LEMMA CallCancels ==
  ASSUME Shapes, NEW p \in Resumers, NEW e \in Engines, ResumeCancels(p, e)
  PROVE  Becomes(p, "clear", resume[p].todo \ {e}, e, resume[p].notes)
BY DEF Shapes, Call, Becomes, ResumeCancels

\* A call that has notes to flip, or none.
LEMMA CallFlips ==
  ASSUME Shapes, NEW p \in Resumers, NEW notes \in SUBSET Notes, resume' = Flipping(p, notes)
  PROVE  Becomes(p, IF notes = {} THEN "next" ELSE "flip", resume[p].todo, None, notes)
<1>1. CASE notes = {}
  BY <1>1 DEF Flipping, Shapes, Call, Becomes
<1>2. CASE notes # {}
  BY <1>2 DEF Flipping, Shapes, Call, Becomes
<1> QED BY <1>1, <1>2

\* A call that is over.
LEMMA CallEnds ==
  ASSUME Shapes, NEW p \in Resumers, resume' = [resume EXCEPT ![p] = Off]
  PROVE  Becomes(p, "off", {}, None, {})
BY DEF Shapes, Call, Becomes, Off
-----------------------------------------------------------------------------
\* Pause.Trip sets one engine's flag and keeps its notes.
LEMMA TripSets ==
  ASSUME Shapes, NEW e \in Engines, NEW k \in BOOLEAN, entry' = Tripped(e, k)
  PROVE  /\ entry' \in Entries
         /\ entry'[e].paused /\ entry'[e].notes = entry[e].notes
         /\ entry'[e].resets => entry[e].resets \/ k
         /\ \A d \in Engines \ {e} : entry'[d] = entry[d]
<1>1. entry[e].resets \/ k \in BOOLEAN
  OBVIOUS
<1> QED BY <1>1 DEF Tripped, Shapes, Entries

\* Pause.AddBlockedNote adds one note.
LEMMA RecordSets ==
  ASSUME Shapes, Places, UsageAssumption, NEW n \in Notes, Record(n)
  PROVE  /\ entry' \in Entries
         /\ \A e \in Engines : /\ entry'[e].paused = entry[e].paused /\ entry'[e].resets = entry[e].resets
                               /\ entry[e].notes \subseteq entry'[e].notes
         /\ out[n] = "blocked" => n \in entry'[EngineOf[n]].notes
<1>1. EngineOf[n] \in Engines
  BY DEF UsageAssumption
<1>2. CASE out[n] = "blocked"
  BY <1>1, <1>2 DEF Record, Shapes, Entries
<1>3. CASE out[n] # "blocked"
  BY <1>3 DEF Record, Shapes, Entries
<1> QED BY <1>2, <1>3

\* Pause.Clear deletes one entry.
LEMMA ClearSets ==
  ASSUME Shapes, NEW e \in Engines, entry' = [entry EXCEPT ![e] = Clear]
  PROVE  /\ entry' \in Entries /\ ~entry'[e].paused /\ ~entry'[e].resets
         /\ \A d \in Engines \ {e} : entry'[d] = entry[d]
BY DEF Shapes, Entries, Clear

\* What every step of a call does to it.
LEMMA CallSteps ==
  ASSUME Shapes, Places, Calls, UsageAssumption, NEW p \in Resumers
  PROVE  /\ \A e \in Engines : ResumeCancels(p, e) => Becomes(p, "clear", resume[p].todo \ {e}, e, {})
         /\ ResumeClears(p) => LET notes == entry[resume[p].eng].notes IN
              Becomes(p, IF notes = {} THEN "next" ELSE "flip", resume[p].todo, None, notes)
         /\ \A n \in Notes : ResumeFlips(p, n) \/ ResumeSkips(p, n) => LET notes == resume[p].notes \ {n} IN
              Becomes(p, IF notes = {} THEN "next" ELSE "flip", resume[p].todo, None, notes)
         /\ (ResumeReturns(p) \/ \E n \in Notes : ResumeFails(p, n)) => Becomes(p, "off", {}, None, {})
<1>1. resume[p] \in Call
  BY DEF Shapes
<1>2. ASSUME NEW e \in Engines, ResumeCancels(p, e) PROVE Becomes(p, "clear", resume[p].todo \ {e}, e, {})
  <2>1. resume[p].notes = {}
    BY <1>2 DEF ResumeCancels, Calls
  <2> QED BY <1>2, <2>1, CallCancels
<1>3. ASSUME ResumeClears(p) PROVE LET notes == entry[resume[p].eng].notes IN
              Becomes(p, IF notes = {} THEN "next" ELSE "flip", resume[p].todo, None, notes)
  <2>1. entry[resume[p].eng].notes \in SUBSET Notes
    BY <1>3 DEF ResumeClears, Calls, Shapes, Entries
  <2>2. resume' = Flipping(p, entry[resume[p].eng].notes)
    BY <1>3 DEF ResumeClears
  <2> QED BY <2>1, <2>2, CallFlips
<1>4. ASSUME NEW n \in Notes, ResumeFlips(p, n) \/ ResumeSkips(p, n) PROVE LET notes == resume[p].notes \ {n} IN
              Becomes(p, IF notes = {} THEN "next" ELSE "flip", resume[p].todo, None, notes)
  <2>1. resume[p].notes \ {n} \in SUBSET Notes
    BY <1>1 DEF Call
  <2>2. resume' = Flipping(p, resume[p].notes \ {n})
    BY <1>4 DEF ResumeFlips, ResumeSkips
  <2> QED BY <2>1, <2>2, CallFlips
<1>5. ASSUME ResumeReturns(p) \/ \E n \in Notes : ResumeFails(p, n) PROVE Becomes(p, "off", {}, None, {})
  <2>1. resume' = [resume EXCEPT ![p] = Off]
    BY <1>5 DEF ResumeReturns, ResumeFails
  <2> QED BY <2>1, CallEnds
<1> QED BY <1>2, <1>3, <1>4, <1>5

\* A timer's call, and a person's, begin where none is under way.
LEMMA CallStarts ==
  ASSUME Shapes, Calls, TimerCalls
  PROVE  /\ \A t \in Timers : FireResumes(t) => /\ resume[t].at = "off"
                                                /\ Becomes(t, "next", {t[1]}, resume[t].eng, {})
         /\ ManualResume => /\ resume[Manual].at = "off"
                            /\ \E E \in SUBSET Engines : Becomes(Manual, "next", E, resume[Manual].eng, {})
<1>1. ASSUME NEW t \in Timers, FireResumes(t)
      PROVE  resume[t].at = "off" /\ Becomes(t, "next", {t[1]}, resume[t].eng, {})
  <2>1. t \in Resumers /\ {t[1]} \in SUBSET Engines
    BY DEF Resumers, Timers
  <2>2. resume[t].at = "off"
    BY <1>1 DEF TimerCalls, FireResumes
  <2>3. resume[t].notes = {}
    BY <2>1, <2>2 DEF Calls
  <2>4. resume' = [resume EXCEPT ![t].at = "next", ![t].todo = {t[1]}]
    BY <1>1 DEF FireResumes
  <2> QED BY <2>1, <2>2, <2>3, <2>4, CallBegins
<1>2. ASSUME ManualResume
      PROVE  /\ resume[Manual].at = "off"
             /\ \E E \in SUBSET Engines : Becomes(Manual, "next", E, resume[Manual].eng, {})
  <2>1. Manual \in Resumers /\ resume[Manual].at = "off"
    BY <1>2 DEF Resumers, ManualResume
  <2>2. resume[Manual].notes = {}
    BY <2>1 DEF Calls
  <2>3. PICK E \in SUBSET Engines : resume' = [resume EXCEPT ![Manual].at = "next", ![Manual].todo = E]
    BY <1>2 DEF ManualResume
  <2> QED BY <2>1, <2>2, <2>3, CallBegins
<1> QED BY <1>1, <1>2
-----------------------------------------------------------------------------
\* handleTrip's message may only add to sent, which keeps its type.
LEMMA QuietKeeps ==
  ASSUME Places, UsageAssumption, NEW n \in Notes, HandleTripQuiet(n)
  PROVE  sent' \in [Engines -> BOOLEAN]
<1> DEFINE e == EngineOf[n]
           b == sent[e] \/ ref[e] = None
<1>1. b \in BOOLEAN
  BY Zenon
<1>2. sent' = [sent EXCEPT ![e] = b]
  BY DEF HandleTripQuiet
<1> HIDE DEF e, b
<1> QED BY <1>1, <1>2 DEF Places

\* The variables other than entry and resume keep their types.
LEMMA PlacesStep ==
  ASSUME Shapes, Places, Calls, UsageAssumption, [Next]_<<vars, broken>>
  PROVE  Places'
<1> USE DEF Places, Statuses
<1>1. \A n \in Notes : EngineOf[n] \in Engines
  BY DEF UsageAssumption
<1>2. CASE UNCHANGED <<vars, broken>>
  BY <1>2 DEF vars, taskVars, timerVars
<1>3. ASSUME NEW n \in Notes, Start(n) \/ Finish(n) \/ WriteOutcome(n) \/ WriteOutcomeFails(n), UNCHANGED broken
      PROVE  Places'
  <2>1. CASE Start(n)
    BY <1>3, <2>1 DEF Start, timerVars
  <2>2. CASE Finish(n)
    BY <1>3, <2>2 DEF Finish, timerVars
  <2>3. CASE WriteOutcome(n)
    <3>1. out[n] \in Statuses
      OBVIOUS
    <3>2. status' \in [Notes -> Statuses]
      BY <2>3, <3>1 DEF WriteOutcome
    <3> QED BY <1>3, <2>3, <3>2 DEF WriteOutcome, timerVars
  <2>4. CASE WriteOutcomeFails(n)
    BY <1>3, <2>4 DEF WriteOutcomeFails, timerVars
  <2> QED BY <1>3, <2>1, <2>2, <2>3, <2>4
<1>4. ASSUME NEW n \in Notes, NEW k \in BOOLEAN, NEW s \in {"blocked", "done"}, HitLimit(n, k, s),
             UNCHANGED broken
      PROVE  Places'
  BY <1>4 DEF HitLimit, timerVars
<1>5. ASSUME NEW n \in Notes, NEW e, NEW k, NEW s \in {"done", "claimable"}, UNCHANGED broken,
             Record(n) \/ ReviewLimit(n, e, k) \/ HandResolve(n, s)
      PROVE  Places'
  <2>1. CASE Record(n)
    BY <1>5, <2>1 DEF Record, timerVars
  <2>2. CASE ReviewLimit(n, e, k)
    BY <1>5, <2>2 DEF ReviewLimit, taskVars, timerVars
  <2>3. CASE HandResolve(n, s)
    BY <1>5, <2>3 DEF HandResolve, taskVars, timerVars
  <2> QED BY <1>5, <2>1, <2>2, <2>3
<1>6. ASSUME NEW n \in Notes, HandleTripQuiet(n), UNCHANGED broken PROVE Places'
  <2>1. sent' \in [Engines -> BOOLEAN]
    BY <1>6, QuietKeeps
  <2> QED BY <1>6, <2>1 DEF HandleTripQuiet
<1>7. ASSUME NEW n \in Notes, HandleTripArms(n), UNCHANGED broken PROVE Places'
  <2> DEFINE e == EngineOf[n]
  <2>1. PICK i \in TimerIds : /\ timer' = [timer EXCEPT ![<<e, i>>] = "armed"]
                              /\ ref' = [ref EXCEPT ![e] = i]
    BY <1>7 DEF HandleTripArms
  <2>2. /\ sent' = [sent EXCEPT ![e] = FALSE] /\ task' = [task EXCEPT ![n] = "off"]
        /\ out' = [out EXCEPT ![n] = "done"] /\ UNCHANGED <<status, known>>
    BY <1>7 DEF HandleTripArms
  <2> HIDE DEF e
  <2> QED BY <1>7, <2>1, <2>2
<1>8. ASSUME NEW t \in Timers, Fire(t) \/ FireResumes(t) \/ Tail(t), UNCHANGED broken PROVE Places'
  <2>1. t[1] \in Engines
    BY DEF Timers
  <2>2. CASE Fire(t)
    BY <1>8, <2>2 DEF Fire, taskVars
  <2>3. CASE FireResumes(t)
    BY <1>8, <2>3 DEF FireResumes, taskVars
  <2>4. CASE Tail(t)
    BY <1>8, <2>1, <2>4 DEF Tail, taskVars
  <2> QED BY <1>8, <2>2, <2>3, <2>4
<1>9. ASSUME ManualResume, UNCHANGED broken PROVE Places'
  BY <1>9 DEF ManualResume, taskVars, timerVars
<1>10. ASSUME NEW p \in Resumers, NEW e \in Engines, ResumeCancels(p, e), UNCHANGED broken PROVE Places'
  <2>1. timer' \in [Timers -> {"none", "armed", "fired", "resuming"}]
    BY <1>10 DEF ResumeCancels
  <2> QED BY <1>10, <2>1 DEF ResumeCancels, taskVars
<1>11. ASSUME NEW p \in Resumers, NEW n \in Notes, UNCHANGED broken,
              ResumeFlips(p, n) \/ ResumeSkips(p, n) \/ ResumeFails(p, n)
       PROVE  Places'
  <2>1. CASE ResumeFlips(p, n)
    BY <1>11, <2>1 DEF ResumeFlips, taskVars, timerVars
  <2>2. CASE ResumeSkips(p, n) \/ ResumeFails(p, n)
    BY <1>11, <2>2 DEF ResumeSkips, ResumeFails, taskVars, timerVars
  <2> QED BY <1>11, <2>1, <2>2
<1>12. ASSUME NEW p \in Resumers, ResumeClears(p) \/ ResumeReturns(p), UNCHANGED broken PROVE Places'
  BY <1>12 DEF ResumeClears, ResumeReturns, taskVars, timerVars
<1> QED
  BY <1>2, <1>3, <1>4, <1>5, <1>6, <1>7, <1>8, <1>9, <1>10, <1>11, <1>12
  DEF Next, Steps, TaskEnds, HandleTrip, TimerRuns, ResumeRuns
-----------------------------------------------------------------------------
Shaped == Shapes /\ Places /\ Calls /\ TimerCalls

\* What a step does to the pause state.
LEMMA EntrySteps ==
  ASSUME [Next]_<<vars, broken>>
  PROVE  \/ UNCHANGED entry
         \/ \E n \in Notes, k \in BOOLEAN, s \in {"blocked", "done"} : HitLimit(n, k, s)
         \/ \E n \in Notes, e \in Engines, k \in BOOLEAN : ReviewLimit(n, e, k)
         \/ \E n \in Notes : Record(n)
         \/ \E p \in Resumers : ResumeClears(p)
BY DEF Next, Steps, vars, Start, Finish, TaskEnds, WriteOutcome, WriteOutcomeFails, HandleTrip, HandleTripQuiet,
       HandleTripArms, HandResolve, TimerRuns, Fire, FireResumes, Tail, ManualResume, ResumeRuns, ResumeCancels,
       ResumeReturns, ResumeFlips, ResumeSkips, ResumeFails

\* An entry that knows a reset time has its flag set: Record, which may make an
\* entry without the flag, knows none.
Flagged == \A e \in Engines : entry[e].resets => entry[e].paused

\* The pause state keeps its shape, whatever step is taken.
LEMMA EntryStep ==
  ASSUME Shaped, Flagged, UsageAssumption, [Next]_<<vars, broken>>
  PROVE  entry' \in Entries /\ Flagged'
<1> USE DEF Shaped
<1>1. CASE UNCHANGED entry
  BY <1>1 DEF Shapes, Flagged
<1>2. ASSUME NEW e \in Engines, NEW k \in BOOLEAN, entry' = Tripped(e, k) PROVE entry' \in Entries /\ Flagged'
  BY <1>2, TripSets DEF Flagged
<1>3. ASSUME NEW n \in Notes, Record(n) PROVE entry' \in Entries /\ Flagged'
  BY <1>3, RecordSets DEF Flagged
<1>4. ASSUME NEW p \in Resumers, ResumeClears(p) PROVE entry' \in Entries /\ Flagged'
  <2>1. resume[p].eng \in Engines /\ entry' = [entry EXCEPT ![resume[p].eng] = Clear]
    BY <1>4 DEF ResumeClears, Calls
  <2> QED BY <2>1, ClearSets DEF Flagged
<1>5. ASSUME NEW n \in Notes, NEW e, NEW k \in BOOLEAN, NEW s, HitLimit(n, k, s) \/ (e \in Engines /\ ReviewLimit(n, e, k))
      PROVE  \E d \in Engines : entry' = Tripped(d, k)
  BY <1>5 DEF HitLimit, ReviewLimit, UsageAssumption
<1> QED BY <1>1, <1>2, <1>3, <1>4, <1>5, EntrySteps

\* What a step does to the calls and to the timers.
LEMMA CallOrTimerSteps ==
  ASSUME [Next]_<<vars, broken>>
  PROVE  \/ UNCHANGED <<resume, timer>>
         \/ UNCHANGED resume /\ \E n \in Notes : HandleTripArms(n)
         \/ \E t \in Timers : Fire(t) \/ FireResumes(t) \/ Tail(t)
         \/ ManualResume
         \/ \E p \in Resumers : ResumeRuns(p)
BY DEF Next, Steps, vars, timerVars, Start, Finish, TaskEnds, WriteOutcome, WriteOutcomeFails, Record, HandleTrip,
       HandleTripQuiet, HandleTripArms, HandResolve, HitLimit, ReviewLimit, TimerRuns

\* A step of call p, whose timer if it has one is running it, keeps both.
LEMMA BecomesKeeps ==
  ASSUME Shaped, NEW p \in Resumers, NEW at, NEW todo, NEW eng, NEW notes,
         Becomes(p, at, todo, eng, notes),
         at = "off" => todo = {},
         at # "flip" => notes = {},
         at = "clear" => eng \in Engines,
         p \in Timers => /\ timer'[p] # "resuming" => at = "off"
                         /\ todo # {} => at = "next"
                         /\ todo \subseteq {p[1]}
                         /\ at = "clear" => eng = p[1],
         \A t \in Timers \ {p} : timer'[t] # "resuming" => timer[t] # "resuming"
  PROVE  Calls' /\ TimerCalls'
<1>1. \A t \in Timers : t \in Resumers
  BY DEF Resumers
<1>2. Calls'
  BY DEF Shaped, Calls, Becomes
<1>3. TimerCalls'
  BY <1>1 DEF Shaped, TimerCalls, Becomes
<1> QED BY <1>2, <1>3

\* A call under way at a timer is run by it.
LEMMA Running ==
  ASSUME Shaped, NEW p \in Timers, resume[p].at # "off"
  PROVE  timer[p] = "resuming"
BY DEF Shaped, TimerCalls

\* Calls and timers keep to their order.
LEMMA CallsStep ==
  ASSUME Shaped, UsageAssumption, [Next]_<<vars, broken>>
  PROVE  resume' \in [Resumers -> Call] /\ Calls' /\ TimerCalls'
<1>1. \A t \in Timers : t \in Resumers
  BY DEF Resumers
<1>2. CASE UNCHANGED resume /\ (\A t \in Timers : timer'[t] # "resuming" => timer[t] # "resuming" \/ resume[t].at = "off")
  BY <1>2 DEF Shaped, Shapes, Calls, TimerCalls
<1>3. CASE UNCHANGED <<resume, timer>>
  BY <1>2, <1>3
<1>4. ASSUME NEW n \in Notes, HandleTripArms(n), UNCHANGED resume PROVE resume' \in [Resumers -> Call] /\ Calls' /\ TimerCalls'
  <2>1. PICK i \in TimerIds : /\ timer[<<EngineOf[n], i>>] = "none"
                              /\ timer' = [timer EXCEPT ![<<EngineOf[n], i>>] = "armed"]
    BY <1>4 DEF HandleTripArms
  <2>2. \A t \in Timers : timer'[t] # "resuming" => timer[t] # "resuming"
    BY <2>1 DEF Shaped, Places
  <2> QED BY <1>2, <1>4, <2>2
<1>5. ASSUME NEW t \in Timers, Fire(t) \/ Tail(t) PROVE resume' \in [Resumers -> Call] /\ Calls' /\ TimerCalls'
  <2>1. UNCHANGED resume /\ \A u \in Timers : timer'[u] # "resuming" => timer[u] # "resuming" \/ resume[u].at = "off"
    BY <1>5 DEF Fire, Tail, Shaped, Places
  <2> QED BY <1>2, <2>1
<1>6. ASSUME NEW t \in Timers, FireResumes(t) PROVE resume' \in [Resumers -> Call] /\ Calls' /\ TimerCalls'
  <2>1. Becomes(t, "next", {t[1]}, resume[t].eng, {}) /\ timer' = [timer EXCEPT ![t] = "resuming"]
    BY <1>6, CallStarts DEF FireResumes, Shaped
  <2>2. \A u \in Timers : u # t => timer'[u] = timer[u]
    BY <2>1 DEF Shaped, Places
  <2>3. timer'[t] = "resuming"
    BY <2>1 DEF Shaped, Places
  <2> QED BY <1>1, <2>1, <2>2, <2>3, BecomesKeeps DEF Becomes
<1>7. CASE ManualResume
  <2>1. PICK E \in SUBSET Engines : Becomes(Manual, "next", E, resume[Manual].eng, {})
    BY <1>7, CallStarts DEF Shaped
  <2>2. UNCHANGED timer /\ Manual \in Resumers /\ Manual \notin Timers
    BY <1>7 DEF ManualResume, timerVars, Resumers, Timers, UsageAssumption
  <2> QED BY <2>1, <2>2, BecomesKeeps DEF Becomes
<1>8. ASSUME NEW p \in Resumers, NEW e \in Engines, ResumeCancels(p, e)
      PROVE  resume' \in [Resumers -> Call] /\ Calls' /\ TimerCalls'
  <2>1. Becomes(p, "clear", resume[p].todo \ {e}, e, {})
    BY <1>8, CallSteps DEF Shaped
  <2>2. \A t \in Timers : timer'[t] # "resuming" => timer[t] # "resuming"
    BY <1>8 DEF ResumeCancels, Shaped, Places
  <2>3. \A t \in Timers : timer[t] = "resuming" => timer'[t] = "resuming"
    BY <1>8 DEF ResumeCancels, Shaped, Places
  <2>4. p \in Timers => timer[p] = "resuming" /\ e = p[1] /\ resume[p].todo \ {e} = {}
    BY <1>8, Running DEF ResumeCancels, Shaped, TimerCalls
  <2> QED BY <2>1, <2>2, <2>3, <2>4, BecomesKeeps DEF Becomes
<1>9. ASSUME NEW p \in Resumers, ResumeClears(p) PROVE resume' \in [Resumers -> Call] /\ Calls' /\ TimerCalls'
  <2> DEFINE notes == entry[resume[p].eng].notes
             to == IF notes = {} THEN "next" ELSE "flip"
  <2>1. Becomes(p, to, resume[p].todo, None, notes)
    BY <1>9, CallSteps DEF Shaped
  <2>2. UNCHANGED timer /\ (p \in Timers => timer[p] = "resuming" /\ resume[p].todo = {})
    BY <1>9, Running DEF ResumeClears, timerVars, Shaped, TimerCalls
  <2>3. to \in {"next", "flip"} /\ (to # "flip" => notes = {})
    OBVIOUS
  <2> HIDE DEF notes, to
  <2> QED BY <2>1, <2>2, <2>3, BecomesKeeps DEF Becomes
<1>10. ASSUME NEW p \in Resumers, NEW n \in Notes, ResumeFlips(p, n) \/ ResumeSkips(p, n)
       PROVE  resume' \in [Resumers -> Call] /\ Calls' /\ TimerCalls'
  <2> DEFINE notes == resume[p].notes \ {n}
             to == IF notes = {} THEN "next" ELSE "flip"
  <2>1. Becomes(p, to, resume[p].todo, None, notes)
    BY <1>10, CallSteps DEF Shaped
  <2>2. UNCHANGED timer /\ (p \in Timers => timer[p] = "resuming" /\ resume[p].todo = {})
    BY <1>10, Running DEF ResumeFlips, ResumeSkips, timerVars, Shaped, TimerCalls
  <2>3. to \in {"next", "flip"} /\ (to # "flip" => notes = {})
    OBVIOUS
  <2> HIDE DEF notes, to
  <2> QED BY <2>1, <2>2, <2>3, BecomesKeeps DEF Becomes
<1>11. ASSUME NEW p \in Resumers, ResumeReturns(p) \/ \E n \in Notes : ResumeFails(p, n)
       PROVE  resume' \in [Resumers -> Call] /\ Calls' /\ TimerCalls'
  <2>1. Becomes(p, "off", {}, None, {})
    BY <1>11, CallSteps DEF Shaped
  <2>2. UNCHANGED timer
    BY <1>11 DEF ResumeReturns, ResumeFails, timerVars
  <2> QED BY <2>1, <2>2, BecomesKeeps DEF Becomes
<1> QED BY <1>3, <1>4, <1>5, <1>6, <1>7, <1>8, <1>9, <1>10, <1>11, CallOrTimerSteps DEF ResumeRuns
-----------------------------------------------------------------------------
\* A timer whose Clear is to come keeps that until some call takes its engine.
LEMMA CollectStays ==
  ASSUME Shaped, UsageAssumption, [Next]_<<vars, broken>>, NEW t \in Timers, WillCollect(t)
  PROVE  WillCollect(t)' \/ \E p \in Resumers : ResumeCancels(p, t[1])
<1> USE DEF WillCollect
<1>1. t \in Resumers /\ t[1] \in Engines
  BY DEF Resumers, Timers
<1>2. CASE UNCHANGED <<resume, timer>>
  BY <1>2
<1>3. CASE UNCHANGED resume /\ \E n \in Notes : HandleTripArms(n)
  <2>1. timer'[t] = timer[t] \/ timer'[t] = "armed"
    BY <1>3 DEF HandleTripArms, Shaped, Places
  <2> QED BY <1>3, <2>1
<1>4. ASSUME NEW u \in Timers, Fire(u) PROVE WillCollect(t)'
  BY <1>4 DEF Fire, Shaped, Places
<1>5. ASSUME NEW u \in Timers, FireResumes(u) PROVE WillCollect(t)'
  <2>1. Becomes(u, "next", {u[1]}, resume[u].eng, {}) /\ timer' = [timer EXCEPT ![u] = "resuming"]
    BY <1>5, CallStarts DEF FireResumes, Shaped
  <2>2. CASE u = t
    BY <2>1, <2>2 DEF Becomes
  <2>3. CASE u # t
    BY <1>1, <2>1, <2>3 DEF Becomes, Shaped, Places
  <2> QED BY <2>2, <2>3
<1>6. ASSUME NEW u \in Timers, Tail(u) PROVE WillCollect(t)'
  <2>1. u # t
    BY <1>1, <1>6 DEF Tail, Shaped, Calls
  <2> QED BY <1>6, <2>1 DEF Tail, Shaped, Places
<1>7. CASE ManualResume
  <2>1. \E E \in SUBSET Engines : Becomes(Manual, "next", E, resume[Manual].eng, {})
    BY <1>7, CallStarts DEF Shaped
  <2>2. UNCHANGED timer /\ t # Manual
    BY <1>7 DEF ManualResume, timerVars, Timers, UsageAssumption
  <2> QED BY <1>1, <2>1, <2>2 DEF Becomes
<1>8. ASSUME NEW p \in Resumers, NEW e \in Engines, ResumeCancels(p, e), e # t[1] PROVE WillCollect(t)'
  <2>1. Becomes(p, "clear", resume[p].todo \ {e}, e, {})
    BY <1>8, CallSteps DEF Shaped
  <2>2. t # <<e, ref[e]>>
    BY <1>8
  <2>3. timer'[t] = timer[t]
    BY <1>8, <2>2 DEF ResumeCancels
  <2>4. p # t
    BY <1>8 DEF ResumeCancels, Shaped, TimerCalls
  <2> QED BY <1>1, <2>1, <2>3, <2>4 DEF Becomes
<1>9. ASSUME NEW p \in Resumers, ResumeClears(p) \/ ResumeReturns(p)
                              \/ \E n \in Notes : ResumeFlips(p, n) \/ ResumeSkips(p, n) \/ ResumeFails(p, n)
      PROVE  WillCollect(t)'
  <2>1. UNCHANGED timer /\ resume[p].at # "off" /\ (resume[p].at = "next" => resume[p].todo = {})
    BY <1>9 DEF ResumeClears, ResumeReturns, ResumeFlips, ResumeSkips, ResumeFails, timerVars
  <2>2. p # t
    <3> SUFFICES ASSUME p = t PROVE FALSE
      OBVIOUS
    <3>1. timer[t] = "resuming"
      BY <2>1, Running
    <3>2. resume[t].todo = {}
      BY <2>1 DEF Shaped, TimerCalls
    <3> QED BY <3>1, <3>2
  <2>3. resume'[t] = resume[t]
    BY <1>1, <1>9, <2>2, CallSteps DEF Becomes, Shaped
  <2> QED BY <2>1, <2>3
<1> QED BY <1>2, <1>3, <1>4, <1>5, <1>6, <1>7, <1>8, <1>9, CallOrTimerSteps DEF ResumeRuns

\* An engine's reference is to a timer that has still to clear it.
LEMMA RefStep ==
  ASSUME Shaped, ReferencedTimerWillCollect, UsageAssumption, [Next]_<<vars, broken>>
  PROVE  ReferencedTimerWillCollect'
<1> SUFFICES ASSUME NEW e \in Engines, ref'[e] # None PROVE WillCollect(<<e, ref[e]>>)'
  BY DEF ReferencedTimerWillCollect
<1>1. ASSUME NEW n \in Notes, HandleTripArms(n) PROVE ref'[e] = ref[e] \/ WillCollect(<<e, ref[e]>>)'
  <2>1. PICK i \in TimerIds : /\ timer' = [timer EXCEPT ![<<EngineOf[n], i>>] = "armed"]
                              /\ ref' = [ref EXCEPT ![EngineOf[n]] = i]
    BY <1>1 DEF HandleTripArms
  <2>2. CASE e = EngineOf[n]
    <3>1. ref'[e] = i
      BY <2>1, <2>2 DEF Shaped, Places
    <3>2. timer'[<<e, i>>] = "armed"
      BY <2>1, <2>2 DEF Shaped, Places, Timers
    <3> QED BY <3>1, <3>2 DEF WillCollect
  <2>3. CASE e # EngineOf[n]
    BY <2>1, <2>3 DEF Shaped, Places
  <2> QED BY <2>2, <2>3
<1>2. ref'[e] = ref[e] \/ WillCollect(<<e, ref[e]>>)'
  <2>1. \/ UNCHANGED ref
        \/ \E n \in Notes : HandleTripArms(n)
        \/ \E t \in Timers : Tail(t)
        \/ \E p \in Resumers, d \in Engines : ResumeCancels(p, d)
    BY DEF Next, Steps, vars, timerVars, Start, Finish, TaskEnds, WriteOutcome, WriteOutcomeFails, Record, HandleTrip,
       HandleTripQuiet, HandResolve, HitLimit, ReviewLimit, TimerRuns, Fire, FireResumes, ManualResume,
       ResumeRuns, ResumeClears, ResumeReturns, ResumeFlips, ResumeSkips, ResumeFails
  <2>2. ASSUME NEW t \in Timers, Tail(t) PROVE ref'[e] = ref[e]
    BY <2>2 DEF Tail, Shaped, Places
  <2>3. ASSUME NEW p \in Resumers, NEW d \in Engines, ResumeCancels(p, d) PROVE ref'[e] = ref[e]
    BY <2>3 DEF ResumeCancels, Shaped, Places
  <2> QED BY <1>1, <2>1, <2>2, <2>3
<1>3. CASE ref'[e] = ref[e]
  <2> DEFINE t == <<e, ref[e]>>
  <2>1. t \in Timers /\ t[1] = e /\ WillCollect(t)
    BY <1>3 DEF Shaped, Places, Timers, ReferencedTimerWillCollect
  <2>2. ~ \E p \in Resumers : ResumeCancels(p, e)
    BY DEF ResumeCancels, Shaped, Places
  <2>3. t' = t
    BY <1>3
  <2> HIDE DEF t
  <2>4. timer'[t] \in {"armed", "fired"} \/ t[1] \in resume'[t].todo
    BY <2>1, <2>2, CollectStays DEF WillCollect
  <2> QED BY <2>3, <2>4 DEF t, WillCollect
<1> QED BY <1>2, <1>3
-----------------------------------------------------------------------------
\* The three ways in which an engine will be cleared.
ByCall == {e \in Engines : \E p \in Resumers : resume[p].at = "clear" /\ resume[p].eng = e}
ByTask ==
  {e \in Engines : \E n \in Notes : EngineOf[n] = e /\ task[n] \in {"tripped", "written", "recorded"} /\ known[n]}
ByTimer == {e \in Engines : \E i \in TimerIds : WillCollect(<<e, i>>)}

\* A call that has cancelled an engine's timer clears that engine next.
LEMMA ByCallStays ==
  ASSUME Shaped, UsageAssumption, [Next]_<<vars, broken>>, NEW e \in Engines, e \in ByCall
  PROVE  e \in ByCall' \/ \E p \in Resumers : ResumeClears(p) /\ resume[p].eng = e
<1>1. PICK p \in Resumers : resume[p].at = "clear" /\ resume[p].eng = e
  BY DEF ByCall
<1>2. \A at, todo, eng, notes : \A q \in Resumers : q # p /\ Becomes(q, at, todo, eng, notes) => e \in ByCall'
  BY <1>1 DEF Becomes, ByCall
<1>3. ASSUME UNCHANGED resume PROVE e \in ByCall'
  BY <1>1, <1>3 DEF ByCall
<1>4. ASSUME NEW t \in Timers, Fire(t) \/ FireResumes(t) \/ Tail(t) PROVE e \in ByCall'
  <2>1. CASE UNCHANGED resume
    BY <1>3, <2>1
  <2>2. CASE FireResumes(t)
    <3>1. t \in Resumers /\ t # p /\ Becomes(t, "next", {t[1]}, resume[t].eng, {})
      BY <1>1, <2>2, CallStarts DEF Shaped, Resumers
    <3> QED BY <1>2, <3>1
  <2> QED BY <1>4, <2>1, <2>2 DEF Fire, Tail
<1>5. CASE ManualResume
  <2>1. Manual \in Resumers /\ Manual # p /\ \E E \in SUBSET Engines : Becomes(Manual, "next", E, resume[Manual].eng, {})
    BY <1>1, <1>5, CallStarts DEF Shaped, Resumers
  <2> QED BY <1>2, <2>1
<1>6. ASSUME NEW q \in Resumers, ResumeClears(q), ~(resume[q].eng = e) PROVE e \in ByCall'
  <2>1. q # p /\ \E at, todo, eng, notes : Becomes(q, at, todo, eng, notes)
    BY <1>1, <1>6, CallSteps DEF Shaped
  <2> QED BY <1>2, <2>1
<1>7. ASSUME NEW q \in Resumers, NEW d \in Engines, ResumeCancels(q, d) PROVE e \in ByCall'
  <2>1. q # p /\ Becomes(q, "clear", resume[q].todo \ {d}, d, {})
    BY <1>1, <1>7, CallSteps DEF Shaped, ResumeCancels
  <2> QED BY <1>2, <2>1
<1>8. ASSUME NEW q \in Resumers, NEW n \in Notes, ResumeFlips(q, n) \/ ResumeSkips(q, n) PROVE e \in ByCall'
  <2>1. q # p /\ \E at, todo, eng, notes : Becomes(q, at, todo, eng, notes)
    BY <1>1, <1>8, CallSteps DEF Shaped, ResumeFlips, ResumeSkips
  <2> QED BY <1>2, <2>1
<1>9. ASSUME NEW q \in Resumers, ResumeReturns(q) \/ \E n \in Notes : ResumeFails(q, n) PROVE e \in ByCall'
  <2>1. q # p /\ Becomes(q, "off", {}, None, {})
    BY <1>1, <1>9, CallSteps DEF Shaped, ResumeReturns, ResumeFails
  <2> QED BY <1>2, <2>1
<1> QED BY <1>3, <1>4, <1>5, <1>6, <1>7, <1>8, <1>9, CallOrTimerSteps DEF ResumeRuns

\* A task that tripped the engine with a known reset time keeps it in reach
\* until its handleTrip hands it to a timer.
LEMMA ByTaskStays ==
  ASSUME Shaped, ReferencedTimerWillCollect, UsageAssumption, broken \subseteq {"hand"}, [Next]_<<vars, broken>>,
         NEW e \in Engines, e \in ByTask
  PROVE  e \in ByTask' \/ e \in ByTimer'
<1>1. PICK n \in Notes : EngineOf[n] = e /\ task[n] \in {"tripped", "written", "recorded"} /\ known[n]
  BY DEF ByTask
<1>2. ASSUME task'[n] \in {"tripped", "written", "recorded"}, known'[n] = known[n] PROVE e \in ByTask'
  BY <1>1, <1>2 DEF ByTask
<1>3. CASE UNCHANGED <<task, known>>
  BY <1>1, <1>2, <1>3
<1>4. ASSUME NEW m \in Notes, NEW k \in BOOLEAN, NEW s, Start(m) \/ Finish(m) \/ HitLimit(m, k, s) PROVE e \in ByTask'
  <2>1. task'[n] = task[n] /\ known'[n] = known[n]
    BY <1>1, <1>4 DEF Start, Finish, HitLimit, Shaped, Places
  <2> QED BY <1>1, <1>2, <2>1
<1>5. ASSUME NEW m \in Notes, WriteOutcome(m) \/ Record(m) PROVE e \in ByTask'
  <2>1. task'[n] \in {"tripped", "written", "recorded"} /\ known'[n] = known[n]
    BY <1>1, <1>5 DEF WriteOutcome, Record, Shaped, Places
  <2> QED BY <1>2, <2>1
<1>6. ASSUME NEW m \in Notes, HandleTripQuiet(m) PROVE e \in ByTask' \/ e \in ByTimer'
  <2>1. CASE m # n
    <3>1. task'[n] = task[n] /\ known'[n] = known[n]
      BY <1>6, <2>1 DEF HandleTripQuiet, Shaped, Places
    <3> QED BY <1>1, <1>2, <3>1
  <2>2. CASE m = n
    <3>1. ref[e] # None /\ UNCHANGED <<timer, resume, ref>>
      BY <1>1, <1>6, <2>2 DEF HandleTripQuiet, Late
    <3>2. ref[e] \in TimerIds /\ WillCollect(<<e, ref[e]>>)
      BY <3>1 DEF ReferencedTimerWillCollect, Shaped, Places
    <3>3. e \in ByTimer
      BY <3>2 DEF ByTimer
    <3> QED BY <3>1, <3>3 DEF ByTimer, WillCollect
  <2> QED BY <2>1, <2>2
<1>7. ASSUME NEW m \in Notes, HandleTripArms(m) PROVE e \in ByTask' \/ e \in ByTimer'
  <2>1. CASE m # n
    <3>1. task'[n] = task[n] /\ known'[n] = known[n]
      BY <1>7, <2>1 DEF HandleTripArms, Shaped, Places
    <3> QED BY <1>1, <1>2, <3>1
  <2>2. CASE m = n
    <3>1. PICK i \in TimerIds : timer' = [timer EXCEPT ![<<e, i>>] = "armed"]
      BY <1>1, <1>7, <2>2 DEF HandleTripArms
    <3>2. timer'[<<e, i>>] = "armed"
      BY <3>1 DEF Shaped, Places, Timers
    <3> QED BY <3>2 DEF ByTimer, WillCollect
  <2> QED BY <2>1, <2>2
<1>8. \/ UNCHANGED <<task, known>>
      \/ \E m \in Notes, k \in BOOLEAN, s \in {"blocked", "done"} : Start(m) \/ Finish(m) \/ HitLimit(m, k, s)
      \/ \E m \in Notes : WriteOutcome(m) \/ Record(m) \/ HandleTripQuiet(m) \/ HandleTripArms(m)
  <2>1. \A m \in Notes : ~WriteOutcomeFails(m)
    BY DEF WriteOutcomeFails
  <2> QED BY <2>1 DEF Next, Steps, vars, taskVars, TaskEnds, HandleTrip, HandResolve, ReviewLimit, TimerRuns, Fire, FireResumes,
       Tail, ManualResume, ResumeRuns, ResumeCancels, ResumeClears, ResumeReturns, ResumeFlips, ResumeSkips, ResumeFails
<1> QED BY <1>3, <1>4, <1>5, <1>6, <1>7, <1>8

\* Without a fault an engine stays in reach until it is cleared.
LEMMA CoverStays ==
  ASSUME Shaped, ReferencedTimerWillCollect, UsageAssumption, broken \subseteq {"hand"}, [Next]_<<vars, broken>>,
         NEW e \in Engines, WillClear(e)
  PROVE  WillClear(e)' \/ \E p \in Resumers : ResumeClears(p) /\ resume[p].eng = e
<1>1. WillClear(e) <=> e \in ByTimer \/ e \in ByCall \/ e \in ByTask
  BY DEF WillClear, ByTimer, ByCall, ByTask
<1>2. WillClear(e)' <=> e \in ByTimer' \/ e \in ByCall' \/ e \in ByTask'
  BY DEF WillClear, ByTimer, ByCall, ByTask
<1>3. CASE e \in ByTimer
  <2>1. PICK i \in TimerIds : WillCollect(<<e, i>>)
    BY <1>3 DEF ByTimer
  <2> DEFINE t == <<e, i>>
  <2>2. t \in Timers /\ t[1] = e /\ WillCollect(t)
    BY <2>1 DEF Timers
  <2>3. CASE WillCollect(t)'
    BY <1>2, <2>3 DEF ByTimer
  <2>4. ASSUME NEW p \in Resumers, ResumeCancels(p, e) PROVE e \in ByCall'
    <3>1. Becomes(p, "clear", resume[p].todo \ {e}, e, {})
      BY <2>4, CallSteps DEF Shaped
    <3> QED BY <3>1 DEF Becomes, ByCall
  <2> HIDE DEF t
  <2> QED BY <1>2, <2>2, <2>3, <2>4, CollectStays
<1>4. CASE e \in ByCall
  BY <1>2, <1>4, ByCallStays
<1>5. CASE e \in ByTask
  BY <1>2, <1>5, ByTaskStays
<1> QED BY <1>1, <1>3, <1>4, <1>5
-----------------------------------------------------------------------------
\* A trip with a known reset time brings its own task along.
LEMMA KnownStep ==
  ASSUME Shaped, Flagged, ReferencedTimerWillCollect, KnownPauseIsCovered, UsageAssumption, broken \subseteq {"hand"},
         [Next]_<<vars, broken>>, NEW e \in Engines, entry'[e].paused, entry'[e].resets
  PROVE  WillClear(e)'
<1>1. CASE entry[e].resets
  <2>1. WillClear(e)
    BY <1>1 DEF Flagged, KnownPauseIsCovered
  <2>2. ASSUME NEW p \in Resumers, ResumeClears(p), resume[p].eng = e PROVE FALSE
    <3>1. entry' = [entry EXCEPT ![e] = Clear]
      BY <2>2 DEF ResumeClears
    <3> QED BY <3>1, ClearSets DEF Shaped
  <2> QED BY <2>1, <2>2, CoverStays
<1>2. CASE ~entry[e].resets
  <2>1. ASSUME NEW n \in Notes, NEW k \in BOOLEAN, NEW s \in {"blocked", "done"}, HitLimit(n, k, s)
        PROVE  WillClear(e)'
    <3>1. EngineOf[n] \in Engines /\ entry' = Tripped(EngineOf[n], k)
      BY <2>1 DEF HitLimit, UsageAssumption
    <3>2. EngineOf[n] = e /\ k
      BY <1>2, <3>1, TripSets DEF Shaped
    <3>3. task'[n] = "tripped" /\ known'[n]
      BY <2>1, <3>2 DEF HitLimit, Shaped, Places
    <3> QED BY <3>2, <3>3 DEF WillClear
  <2>2. CASE UNCHANGED entry
    BY <1>2, <2>2
  <2>3. ASSUME NEW n \in Notes, Record(n) PROVE FALSE
    BY <1>2, <2>3, RecordSets DEF Shaped
  <2>4. ASSUME NEW p \in Resumers, ResumeClears(p) PROVE FALSE
    <3>1. resume[p].eng \in Engines /\ entry' = [entry EXCEPT ![resume[p].eng] = Clear]
      BY <2>4 DEF ResumeClears, Shaped, Calls
    <3> QED BY <1>2, <3>1, ClearSets DEF Shaped
  <2>5. \A n \in Notes, d \in Engines, k \in BOOLEAN : ~ReviewLimit(n, d, k)
    BY DEF ReviewLimit
  <2> QED BY <2>1, <2>2, <2>3, <2>4, <2>5, EntrySteps
<1> QED BY <1>1, <1>2
-----------------------------------------------------------------------------
\* A task's decision is in its note until its write is over.
Decided == \A n \in Notes : task[n] = "written" /\ status[n] = "blocked" => out[n] = "blocked"

\* No step makes a note blocked that its task's decision does not call blocked.
LEMMA DecidedStep ==
  ASSUME Shaped, Decided, [Next]_<<vars, broken>>
  PROVE  Decided'
<1> SUFFICES ASSUME NEW n \in Notes, task'[n] = "written", status'[n] = "blocked" PROVE out'[n] = "blocked"
  BY DEF Decided
<1> USE DEF Shaped, Places
<1>1. ASSUME NEW m \in Notes, WriteOutcome(m) PROVE out'[n] = "blocked"
  BY <1>1 DEF WriteOutcome, Decided
<1>2. ASSUME task[n] = "written", out'[n] = out[n], status'[n] = "blocked" => status[n] = "blocked"
      PROVE  out'[n] = "blocked"
  BY <1>2 DEF Decided
<1>3. CASE UNCHANGED <<task, out>> /\ (status'[n] = "blocked" => status[n] = "blocked")
  BY <1>2, <1>3
<1>4. ASSUME NEW m \in Notes, NEW k \in BOOLEAN, NEW s \in {"blocked", "done"},
             Start(m) \/ Finish(m) \/ HitLimit(m, k, s) \/ WriteOutcomeFails(m)
      PROVE  out'[n] = "blocked"
  <2>1. n # m /\ task[n] = "written" /\ out'[n] = out[n] /\ status'[n] = status[n]
    BY <1>4 DEF Start, Finish, HitLimit, WriteOutcomeFails
  <2> QED BY <1>2, <2>1
<1>5. ASSUME NEW m \in Notes, Record(m) \/ HandleTripQuiet(m) \/ HandleTripArms(m) PROVE out'[n] = "blocked"
  <2>1. n # m /\ task[n] = "written" /\ out'[n] = out[n] /\ status'[n] = status[n]
    BY <1>5 DEF Record, HandleTripQuiet, HandleTripArms
  <2> QED BY <1>2, <2>1
<1>6. ASSUME NEW p \in Resumers, NEW m \in Notes, ResumeFlips(p, m) PROVE out'[n] = "blocked"
  <2>1. UNCHANGED <<task, out>> /\ (status'[n] = "blocked" => status[n] = "blocked")
    BY <1>6 DEF ResumeFlips, taskVars
  <2> QED BY <1>3, <2>1
<1>7. ASSUME NEW m \in Notes, NEW s \in {"done", "claimable"}, HandResolve(m, s) PROVE out'[n] = "blocked"
  <2>1. UNCHANGED <<task, out>> /\ (status'[n] = "blocked" => status[n] = "blocked")
    BY <1>7 DEF HandResolve, taskVars
  <2> QED BY <1>3, <2>1
<1>8. CASE UNCHANGED <<task, out, status>>
  BY <1>3, <1>8
<1> QED
  BY <1>1, <1>4, <1>5, <1>6, <1>7, <1>8
  DEF Next, Steps, vars, taskVars, TaskEnds, HandleTrip, ReviewLimit, TimerRuns, Fire, FireResumes, Tail,
      ManualResume, ResumeRuns, ResumeCancels, ResumeClears, ResumeReturns, ResumeSkips, ResumeFails

\* Of all notes one that is blocked, with its record made, was so before, or
\* its record is what the step makes.
LEMMA BlockedBefore ==
  ASSUME Shaped, [Next]_<<vars, broken>>, NEW n \in Notes,
         status'[n] = "blocked", known'[n], task'[n] \in {"recorded", "off"}
  PROVE  /\ status[n] = "blocked" /\ known[n]
         /\ task[n] \in {"recorded", "off"} \/ Record(n)
<1> USE DEF Shaped, Places
<1> DEFINE Goal == status[n] = "blocked" /\ known[n] /\ (task[n] \in {"recorded", "off"} \/ Record(n))
<1>1. ASSUME NEW m \in Notes, NEW k \in BOOLEAN, NEW s \in {"blocked", "done"},
             Start(m) \/ Finish(m) \/ HitLimit(m, k, s) \/ WriteOutcome(m) \/ WriteOutcomeFails(m)
      PROVE  Goal
  BY <1>1 DEF Start, Finish, HitLimit, WriteOutcome, WriteOutcomeFails
<1>2. ASSUME NEW m \in Notes, Record(m) PROVE Goal
  <2>1. UNCHANGED <<status, known>> /\ (m # n => task'[n] = task[n])
    BY <1>2 DEF Record
  <2> QED BY <1>2, <2>1
<1>3. ASSUME NEW m \in Notes, HandleTripQuiet(m) \/ HandleTripArms(m) PROVE Goal
  <2>1. UNCHANGED <<status, known>> /\ (m # n => task'[n] = task[n]) /\ task[m] = "recorded"
    BY <1>3 DEF HandleTripQuiet, HandleTripArms
  <2> QED BY <2>1
<1>4. ASSUME NEW p \in Resumers, NEW m \in Notes, ResumeFlips(p, m) PROVE Goal
  BY <1>4 DEF ResumeFlips, taskVars
<1>5. ASSUME NEW m \in Notes, NEW s \in {"done", "claimable"}, HandResolve(m, s) PROVE Goal
  BY <1>5 DEF HandResolve, taskVars
<1>6. ASSUME UNCHANGED <<task, known, status>> PROVE Goal
  BY <1>6
<1> HIDE DEF Goal
<1>7. Goal
  BY <1>1, <1>2, <1>3, <1>4, <1>5, <1>6
  DEF Next, Steps, vars, taskVars, TaskEnds, HandleTrip, ReviewLimit, TimerRuns, Fire, FireResumes, Tail,
      ManualResume, ResumeRuns, ResumeCancels, ResumeClears, ResumeReturns, ResumeSkips, ResumeFails
<1> QED BY <1>7 DEF Goal

\* The notes of the pause state stay until a call clears their engine, and the
\* notes of a call until it flips them.
LEMMA EntryNotesStay ==
  ASSUME Shaped, UsageAssumption, [Next]_<<vars, broken>>, NEW n \in Notes, NEW e \in Engines, n \in entry[e].notes
  PROVE  \/ n \in entry'[e].notes
         \/ \E p \in Resumers : ResumeClears(p) /\ resume[p].eng = e
<1>1. ASSUME NEW d \in Engines, NEW k \in BOOLEAN, entry' = Tripped(d, k) PROVE n \in entry'[e].notes
  BY <1>1, TripSets DEF Shaped
<1>2. ASSUME NEW m \in Notes, NEW k \in BOOLEAN, NEW s, HitLimit(m, k, s) PROVE n \in entry'[e].notes
  BY <1>1, <1>2 DEF HitLimit, UsageAssumption
<1>3. ASSUME NEW m \in Notes, NEW k \in BOOLEAN, NEW d \in Engines, ReviewLimit(m, d, k) PROVE n \in entry'[e].notes
  BY <1>1, <1>3 DEF ReviewLimit
<1>4. ASSUME NEW m \in Notes, Record(m) PROVE n \in entry'[e].notes
  BY <1>4, RecordSets DEF Shaped
<1>5. ASSUME NEW p \in Resumers, ResumeClears(p), resume[p].eng # e PROVE n \in entry'[e].notes
  <2>1. resume[p].eng \in Engines /\ entry' = [entry EXCEPT ![resume[p].eng] = Clear]
    BY <1>5 DEF ResumeClears, Shaped, Calls
  <2> QED BY <1>5, <2>1, ClearSets DEF Shaped
<1> QED BY <1>2, <1>3, <1>4, <1>5, EntrySteps

-----------------------------------------------------------------------------
\* A note blocked by a limit whose task has left it alone since.
Settled(n) == status[n] = "blocked" /\ task[n] \in {"recorded", "off"}

\* While nobody edits blocked notes, every note the pause state or a call holds
\* is settled and held once, and a task that has written its outcome finds it.
Owned ==
  /\ \A e \in Engines : \A n \in entry[e].notes : EngineOf[n] = e /\ Settled(n)
  /\ \A p \in Resumers : \A n \in resume[p].notes : Settled(n) /\ n \notin entry[EngineOf[n]].notes
  /\ \A p, q \in Resumers : p # q => resume[p].notes \cap resume[q].notes = {}
Written == \A n \in Notes : task[n] = "written" => status[n] = out[n]
Kept == "hand" \notin broken => Owned /\ Written

\* A settled note is moved by the resume that flips it only.
LEMMA SettledStays ==
  ASSUME Shaped, "hand" \notin broken, [Next]_<<vars, broken>>, NEW n \in Notes, Settled(n)
  PROVE  Settled(n)' \/ \E p \in Resumers : ResumeFlips(p, n)
<1> USE DEF Shaped, Places, Settled
<1>1. ASSUME NEW m \in Notes, NEW k \in BOOLEAN, NEW s \in {"blocked", "done"},
             Start(m) \/ Finish(m) \/ HitLimit(m, k, s) \/ WriteOutcome(m) \/ WriteOutcomeFails(m)
      PROVE  Settled(n)'
  BY <1>1 DEF Start, Finish, HitLimit, WriteOutcome, WriteOutcomeFails
<1>2. ASSUME NEW m \in Notes, Record(m) PROVE Settled(n)'
  BY <1>2 DEF Record
<1>3. ASSUME NEW m \in Notes, HandleTripQuiet(m) \/ HandleTripArms(m) PROVE Settled(n)'
  <2>1. UNCHANGED status /\ task' = [task EXCEPT ![m] = "off"]
    BY <1>3 DEF HandleTripQuiet, HandleTripArms
  <2> QED BY <2>1
<1>4. ASSUME NEW p \in Resumers, NEW m \in Notes, ResumeFlips(p, m), m # n PROVE Settled(n)'
  BY <1>4 DEF ResumeFlips, taskVars
<1>5. ASSUME NEW m \in Notes, NEW s, HandResolve(m, s) PROVE FALSE
  BY <1>5 DEF HandResolve
<1>6. CASE UNCHANGED <<task, status>>
  BY <1>6
<1> QED
  BY <1>1, <1>2, <1>3, <1>4, <1>5, <1>6
  DEF Next, Steps, vars, taskVars, TaskEnds, HandleTrip, ReviewLimit, TimerRuns, Fire, FireResumes, Tail,
      ManualResume, ResumeRuns, ResumeCancels, ResumeClears, ResumeReturns, ResumeSkips, ResumeFails

\* A task that has written its outcome finds it until its record is made.
LEMMA WrittenStep ==
  ASSUME Shaped, "hand" \notin broken, Owned, Written, [Next]_<<vars, broken>>
  PROVE  Written'
<1> SUFFICES ASSUME NEW n \in Notes, task'[n] = "written" PROVE status'[n] = out'[n]
  BY DEF Written
<1> USE DEF Shaped, Places
<1>1. ASSUME NEW m \in Notes, WriteOutcome(m) PROVE status'[n] = out'[n]
  BY <1>1 DEF WriteOutcome, Written
<1>2. ASSUME task[n] = "written", out'[n] = out[n], status'[n] = status[n]
      PROVE  status'[n] = out'[n]
  BY <1>2 DEF Written
<1>3. ASSUME NEW m \in Notes, NEW k \in BOOLEAN, NEW s \in {"blocked", "done"},
             Start(m) \/ Finish(m) \/ HitLimit(m, k, s) \/ WriteOutcomeFails(m)
      PROVE  status'[n] = out'[n]
  <2>1. n # m /\ task[n] = "written" /\ out'[n] = out[n] /\ status'[n] = status[n]
    BY <1>3 DEF Start, Finish, HitLimit, WriteOutcomeFails
  <2> QED BY <1>2, <2>1
<1>4. ASSUME NEW m \in Notes, Record(m) \/ HandleTripQuiet(m) \/ HandleTripArms(m) PROVE status'[n] = out'[n]
  <2>1. n # m /\ task[n] = "written" /\ out'[n] = out[n] /\ status'[n] = status[n]
    BY <1>4 DEF Record, HandleTripQuiet, HandleTripArms
  <2> QED BY <1>2, <2>1
<1>5. ASSUME NEW p \in Resumers, NEW m \in Notes, ResumeFlips(p, m) PROVE status'[n] = out'[n]
  <2>1. task[m] # "written" /\ UNCHANGED <<task, out>>
    BY <1>5 DEF ResumeFlips, taskVars, Owned, Settled
  <2>2. n # m /\ status'[n] = status[n]
    BY <1>5, <2>1 DEF ResumeFlips
  <2> QED BY <1>2, <2>1, <2>2
<1>6. ASSUME NEW m \in Notes, NEW s, HandResolve(m, s) PROVE FALSE
  BY <1>6 DEF HandResolve
<1>7. CASE UNCHANGED <<task, out, status>>
  BY <1>2, <1>7
<1> QED
  BY <1>1, <1>3, <1>4, <1>5, <1>6, <1>7
  DEF Next, Steps, vars, taskVars, TaskEnds, HandleTrip, ReviewLimit, TimerRuns, Fire, FireResumes, Tail,
      ManualResume, ResumeRuns, ResumeCancels, ResumeClears, ResumeReturns, ResumeSkips, ResumeFails

\* Nobody holds a note he did not hold, and what is held stays settled.
LEMMA OwnedShrinks ==
  ASSUME Shaped, Owned, UsageAssumption,
         \A e \in Engines : entry'[e].notes \subseteq entry[e].notes,
         \A p \in Resumers : resume'[p].notes \subseteq resume[p].notes,
         \A e \in Engines : \A n \in entry'[e].notes : Settled(n)',
         \A p \in Resumers : \A n \in resume'[p].notes : Settled(n)'
  PROVE  Owned'
<1>1. \A n \in Notes : EngineOf[n] \in Engines
  BY DEF UsageAssumption
<1>2. \A e \in Engines : \A n \in entry'[e].notes : EngineOf[n] = e /\ Settled(n)'
  BY DEF Owned
<1>3. \A p \in Resumers : \A n \in resume'[p].notes : Settled(n)' /\ n \notin entry'[EngineOf[n]].notes
  BY <1>1 DEF Owned, Shaped, Shapes, Call
<1>4. \A p, q \in Resumers : p # q => resume'[p].notes \cap resume'[q].notes = {}
  BY DEF Owned
<1> QED BY <1>2, <1>3, <1>4 DEF Owned

\* What the calls hold after a step that is no Clear was theirs before it, less
\* the note that is flipped.
LEMMA CallsShrink ==
  ASSUME Shaped, UsageAssumption, [Next]_<<vars, broken>>, ~ \E p \in Resumers : ResumeClears(p),
         NEW p \in Resumers
  PROVE  /\ resume'[p].notes \subseteq resume[p].notes
         /\ \A n \in Notes : ResumeFlips(p, n) => n \notin resume'[p].notes
<1>1. \A at, todo, eng, notes : \A q \in Resumers : q # p /\ Becomes(q, at, todo, eng, notes) => resume'[p] = resume[p]
  BY DEF Becomes
<1>2. \A at, todo, eng, notes : Becomes(p, at, todo, eng, notes) => resume'[p].notes = notes
  BY DEF Becomes
<1>3. ASSUME NEW n \in Notes, ResumeFlips(p, n) \/ ResumeSkips(p, n) PROVE resume'[p].notes = resume[p].notes \ {n}
  BY <1>2, <1>3, CallSteps DEF Shaped
<1>4. resume'[p].notes \subseteq resume[p].notes
  <2>1. CASE UNCHANGED resume
    BY <2>1
  <2>2. ASSUME NEW t \in Timers, FireResumes(t) PROVE resume'[p].notes \subseteq resume[p].notes
    <3>1. t \in Resumers /\ Becomes(t, "next", {t[1]}, resume[t].eng, {})
      BY <2>2, CallStarts DEF Shaped, Resumers
    <3> QED BY <1>1, <1>2, <3>1
  <2>3. CASE ManualResume
    <3>1. Manual \in Resumers /\ \E E \in SUBSET Engines : Becomes(Manual, "next", E, resume[Manual].eng, {})
      BY <2>3, CallStarts DEF Shaped, Resumers
    <3> QED BY <1>1, <1>2, <3>1
  <2>4. ASSUME NEW q \in Resumers, ResumeReturns(q) \/ \E n \in Notes : ResumeFails(q, n)
        PROVE  resume'[p].notes \subseteq resume[p].notes
    <3>1. Becomes(q, "off", {}, None, {})
      BY <2>4, CallSteps DEF Shaped
    <3> QED BY <1>1, <1>2, <3>1
  <2>5. ASSUME NEW q \in Resumers, NEW e \in Engines, ResumeCancels(q, e)
        PROVE  resume'[p].notes \subseteq resume[p].notes
    <3>1. Becomes(q, "clear", resume[q].todo \ {e}, e, {})
      BY <2>5, CallSteps DEF Shaped
    <3> QED BY <1>1, <1>2, <3>1
  <2>6. ASSUME NEW q \in Resumers, NEW n \in Notes, ResumeFlips(q, n) \/ ResumeSkips(q, n)
        PROVE  resume'[p].notes \subseteq resume[p].notes
    <3>1. \E at : Becomes(q, at, resume[q].todo, None, resume[q].notes \ {n})
      BY <2>6, CallSteps DEF Shaped
    <3> QED BY <1>1, <1>3, <2>6, <3>1
  <2> QED BY <2>1, <2>2, <2>3, <2>4, <2>5, <2>6, CallOrTimerSteps DEF ResumeRuns, Fire, Tail
<1> QED BY <1>3, <1>4

\* The pause state and the calls pass notes on without sharing them.
LEMMA OwnedStep ==
  ASSUME Shaped, "hand" \notin broken, Owned, Written, UsageAssumption, [Next]_<<vars, broken>>
  PROVE  Owned'
<1>1. \A n \in Notes : EngineOf[n] \in Engines
  BY DEF UsageAssumption
<1>2. \A e \in Engines : entry[e].notes \subseteq Notes
  BY DEF Shaped, Shapes, Entries
<1>3. \A p \in Resumers : resume[p].notes \subseteq Notes
  BY DEF Shaped, Shapes, Call
<1>4. \A e \in Engines : \A n \in entry[e].notes : Settled(n)'
  <2> SUFFICES ASSUME NEW e \in Engines, NEW n \in entry[e].notes PROVE Settled(n)'
    OBVIOUS
  <2>1. Settled(n) /\ \A p \in Resumers : ~ResumeFlips(p, n)
    BY DEF Owned, ResumeFlips
  <2> QED BY <1>2, <2>1, SettledStays
<1>5. CASE ~(\E p \in Resumers : ResumeClears(p)) /\ ~(\E n \in Notes : Record(n))
  <2>1. \A e \in Engines : entry'[e].notes = entry[e].notes
    <3>1. ASSUME NEW d \in Engines, NEW k \in BOOLEAN, entry' = Tripped(d, k), NEW e \in Engines
          PROVE  entry'[e].notes = entry[e].notes
      BY <3>1, TripSets DEF Shaped
    <3>2. ASSUME NEW m \in Notes, NEW k \in BOOLEAN, NEW s, HitLimit(m, k, s), NEW e \in Engines
          PROVE  entry'[e].notes = entry[e].notes
      BY <1>1, <3>1, <3>2 DEF HitLimit
    <3>3. ASSUME NEW m \in Notes, NEW k \in BOOLEAN, NEW d \in Engines, ReviewLimit(m, d, k), NEW e \in Engines
          PROVE  entry'[e].notes = entry[e].notes
      BY <3>1, <3>3 DEF ReviewLimit
    <3> QED BY <1>5, <3>2, <3>3, EntrySteps
  <2>2. \A p \in Resumers : resume'[p].notes \subseteq resume[p].notes
    BY <1>5, CallsShrink
  <2>3. \A p \in Resumers : \A n \in resume'[p].notes : Settled(n)'
    <3> SUFFICES ASSUME NEW p \in Resumers, NEW n \in resume'[p].notes PROVE Settled(n)'
      OBVIOUS
    <3>1. n \in Notes /\ Settled(n) /\ n \in resume[p].notes
      BY <1>3, <2>2 DEF Owned
    <3>2. ~ResumeFlips(p, n)
      BY <1>5, <3>1, CallsShrink
    <3>3. \A q \in Resumers : q # p => ~ResumeFlips(q, n)
      BY <3>1 DEF Owned, ResumeFlips
    <3> QED BY <3>1, <3>2, <3>3, SettledStays
  <2> QED BY <1>4, <2>1, <2>2, <2>3, OwnedShrinks
<1>6. ASSUME NEW m \in Notes, Record(m) PROVE Owned'
  <2>1. /\ task[m] = "written" /\ UNCHANGED resume
        /\ task' = [task EXCEPT ![m] = "recorded"] /\ UNCHANGED status
        /\ entry' = IF out[m] = "blocked" THEN [entry EXCEPT ![EngineOf[m]].notes = @ \cup {m}] ELSE entry
    BY <1>6 DEF Record, timerVars
  <2>2. \A p \in Resumers : \A n \in resume'[p].notes : n # m /\ Settled(n)'
    BY <1>3, <2>1 DEF Owned, Settled, Shaped, Places
  <2>3. CASE out[m] # "blocked"
    <3>1. UNCHANGED entry
      BY <2>1, <2>3
    <3> QED BY <1>4, <2>1, <2>2, <3>1, OwnedShrinks
  <2>4. CASE out[m] = "blocked"
    <3>1. status[m] = "blocked"
      BY <2>1, <2>4 DEF Written
    <3>2. Settled(m)'
      BY <2>1, <3>1 DEF Settled, Shaped, Places
    <3>3. entry' = [entry EXCEPT ![EngineOf[m]].notes = @ \cup {m}]
      BY <2>1, <2>4
    <3>4. \A e \in Engines : entry'[e].notes = IF e = EngineOf[m] THEN entry[e].notes \cup {m} ELSE entry[e].notes
      BY <1>1, <3>3 DEF Shaped, Shapes, Entries
    <3>5. \A e \in Engines : \A n \in entry'[e].notes : EngineOf[n] = e /\ Settled(n)'
      <4> SUFFICES ASSUME NEW e \in Engines, NEW n \in entry'[e].notes PROVE EngineOf[n] = e /\ Settled(n)'
        OBVIOUS
      <4>1. CASE n \in entry[e].notes
        BY <1>4, <4>1 DEF Owned
      <4>2. CASE n \notin entry[e].notes
        <5>1. n = m /\ EngineOf[m] = e
          BY <3>4, <4>2
        <5> QED BY <3>2, <5>1 DEF Settled
      <4> QED BY <4>1, <4>2
    <3>6. \A p \in Resumers : \A n \in resume'[p].notes : n \notin entry'[EngineOf[n]].notes
      BY <1>1, <1>3, <2>1, <2>2, <3>4 DEF Owned
    <3>7. \A p, q \in Resumers : p # q => resume'[p].notes \cap resume'[q].notes = {}
      BY <2>1 DEF Owned
    <3> QED BY <2>2, <3>5, <3>6, <3>7 DEF Owned
  <2> QED BY <2>3, <2>4
<1>7. ASSUME NEW p \in Resumers, ResumeClears(p) PROVE Owned'
  <2> DEFINE e == resume[p].eng
  <2>1. e \in Engines /\ resume[p].notes = {} /\ entry' = [entry EXCEPT ![e] = Clear] /\ resume[p].at = "clear"
    BY <1>7 DEF ResumeClears, Shaped, Calls
  <2>2. \E at : Becomes(p, at, resume[p].todo, None, entry[e].notes)
    BY <1>7, CallSteps DEF Shaped
  <2> HIDE DEF e
  <2>3. resume'[p].notes = entry[e].notes /\ \A q \in Resumers : q # p => resume'[q].notes = resume[q].notes
    BY <2>2 DEF Becomes
  <2>4. entry'[e].notes = {} /\ \A d \in Engines : d # e => entry'[d].notes = entry[d].notes
    BY <2>1 DEF Shaped, Shapes, Entries, Clear
  <2>5. \A d \in Engines : \A n \in entry'[d].notes : EngineOf[n] = d /\ Settled(n)'
    BY <1>4, <2>4 DEF Owned
  <2>6. \A q \in Resumers : \A n \in resume'[q].notes : n \notin entry'[EngineOf[n]].notes
    <3>1. \A n \in entry[e].notes : EngineOf[n] = e
      BY <2>1 DEF Owned
    <3>2. \A n \in resume'[p].notes : n \notin entry'[EngineOf[n]].notes
      BY <2>3, <2>4, <3>1
    <3>3. \A d \in Engines : entry'[d].notes \subseteq entry[d].notes
      BY <2>4
    <3>4. \A q \in Resumers : q # p => \A n \in resume'[q].notes : n \notin entry'[EngineOf[n]].notes
      BY <1>1, <1>3, <2>3, <3>3 DEF Owned
    <3> QED BY <3>2, <3>4
  <2>7. \A q \in Resumers : \A n \in resume'[q].notes : Settled(n)'
    <3> SUFFICES ASSUME NEW q \in Resumers, q # p, NEW n \in resume[q].notes PROVE Settled(n)'
      BY <1>4, <2>1, <2>3
    <3>1. \A r \in Resumers : ~ResumeFlips(r, n)
      <4>1. ASSUME NEW r \in Resumers, ResumeFlips(r, n) PROVE FALSE
        <5>1. n \in Notes /\ status[n] = "blocked" /\ status' = [status EXCEPT ![n] = "claimable"]
          BY <1>3, <4>1 DEF ResumeFlips
        <5>2. UNCHANGED status
          BY <1>7 DEF ResumeClears
        <5> QED BY <5>1, <5>2 DEF Shaped, Places
      <4> QED BY <4>1
    <3>2. n \in Notes /\ Settled(n)
      BY <1>3 DEF Owned
    <3> QED BY <3>1, <3>2, SettledStays
  <2>8. \A q, r \in Resumers : q # r => resume'[q].notes \cap resume'[r].notes = {}
    <3>1. \A q \in Resumers : q # p => resume[q].notes \cap entry[e].notes = {}
      BY <2>1 DEF Owned
    <3> QED BY <2>3, <3>1 DEF Owned
  <2> QED BY <2>5, <2>6, <2>7, <2>8 DEF Owned
<1> QED BY <1>5, <1>6, <1>7

\* Without a fault no Resume fails.
LEMMA NoResumeFails ==
  ASSUME broken = {}, Kept
  PROVE  ~ \E p \in Resumers, n \in Notes : ResumeFails(p, n) \/ ResumeSkips(p, n)
BY DEF Kept, Owned, Settled, ResumeFails, ResumeSkips

\* Without a fault a call loses a note only by flipping it.
LEMMA CallNotesStay ==
  ASSUME Shaped, Kept, UsageAssumption, broken = {}, [Next]_<<vars, broken>>,
         NEW n \in Notes, NEW p \in Resumers, n \in resume[p].notes, status'[n] = "blocked"
  PROVE  n \in resume'[p].notes
<1>1. resume[p].at = "flip"
  BY DEF Shaped, Calls
<1>2. \A at, todo, eng, notes : \A q \in Resumers : q # p /\ Becomes(q, at, todo, eng, notes) => n \in resume'[p].notes
  BY DEF Becomes
<1>3. ASSUME NEW t \in Timers, Fire(t) \/ FireResumes(t) \/ Tail(t) PROVE n \in resume'[p].notes
  <2>1. CASE FireResumes(t)
    <3>1. t \in Resumers /\ t # p /\ Becomes(t, "next", {t[1]}, resume[t].eng, {})
      BY <1>1, <2>1, CallStarts DEF Shaped, Resumers
    <3> QED BY <1>2, <3>1
  <2> QED BY <1>3, <2>1 DEF Fire, Tail
<1>4. CASE ManualResume
  <2>1. Manual \in Resumers /\ Manual # p /\ \E E \in SUBSET Engines : Becomes(Manual, "next", E, resume[Manual].eng, {})
    BY <1>1, <1>4, CallStarts DEF Shaped, Resumers
  <2> QED BY <1>2, <2>1
<1>5. ASSUME NEW q \in Resumers, (\E e \in Engines : ResumeCancels(q, e)) \/ ResumeClears(q) \/ ResumeReturns(q)
      PROVE  n \in resume'[p].notes
  <2>1. q # p /\ \E at, todo, eng, notes : Becomes(q, at, todo, eng, notes)
    BY <1>1, <1>5, CallSteps DEF Shaped, ResumeCancels, ResumeClears, ResumeReturns
  <2> QED BY <1>2, <2>1
<1>6. ASSUME NEW q \in Resumers, NEW m \in Notes, ResumeFlips(q, m) PROVE n \in resume'[p].notes
  <2>1. \E at : Becomes(q, at, resume[q].todo, None, resume[q].notes \ {m})
    BY <1>6, CallSteps DEF Shaped
  <2>2. m # n
    BY <1>6 DEF ResumeFlips, Shaped, Places
  <2>3. CASE q # p
    BY <1>2, <2>1, <2>3
  <2>4. CASE q = p
    <3>1. resume'[p].notes = resume[p].notes \ {m}
      BY <2>1, <2>4 DEF Becomes
    <3> QED BY <2>2, <3>1
  <2> QED BY <2>3, <2>4
<1>7. \A q \in Resumers, m \in Notes : ~ResumeFails(q, m) /\ ~ResumeSkips(q, m)
  BY NoResumeFails
<1> QED BY <1>3, <1>4, <1>5, <1>6, <1>7, CallOrTimerSteps DEF ResumeRuns

\* A note a limit blocked, from the moment it is recorded: in the pause state
\* of an engine in reach, or in the hands of a call.
InReach(n) ==
  \/ n \in entry[EngineOf[n]].notes /\ WillClear(EngineOf[n])
  \/ \E p \in Resumers : n \in resume[p].notes
Noted ==
  broken = {} =>
    \A n \in Notes : status[n] = "blocked" /\ known[n] /\ task[n] \in {"recorded", "off"} => InReach(n)

\* A recorded note stays in reach through every step.
LEMMA NotedStep ==
  ASSUME Shaped, ReferencedTimerWillCollect, Decided, Kept, Noted, UsageAssumption, [Next]_<<vars, broken>>
  PROVE  Noted'
<1>1. broken' = broken
  BY DEF Next, vars
<1> SUFFICES ASSUME broken = {}, NEW n \in Notes, status'[n] = "blocked", known'[n], task'[n] \in {"recorded", "off"}
             PROVE  InReach(n)'
  BY <1>1 DEF Noted
<1> DEFINE e == EngineOf[n]
<1>2. e \in Engines
  BY DEF UsageAssumption
<1>3. status[n] = "blocked" /\ known[n] /\ (task[n] \in {"recorded", "off"} \/ Record(n))
  BY BlockedBefore
<1>4. InReach(n)' <=> (n \in entry'[e].notes /\ WillClear(e)') \/ \E p \in Resumers : n \in resume'[p].notes
  BY DEF InReach
<1> HIDE DEF e
<1>5. ASSUME NEW p \in Resumers, n \in resume[p].notes PROVE InReach(n)'
  BY <1>4, <1>5, CallNotesStay
<1>6. ASSUME n \in entry[e].notes, WillClear(e) PROVE InReach(n)'
  <2>1. ASSUME NEW p \in Resumers, ResumeClears(p), resume[p].eng = e PROVE InReach(n)'
    <3>1. resume'[p].notes = entry[e].notes
      BY <2>1, CallSteps DEF Becomes, Shaped
    <3> QED BY <1>4, <1>6, <3>1
  <2>2. CASE n \in entry'[e].notes /\ WillClear(e)'
    BY <1>4, <2>2
  <2> QED BY <1>2, <1>6, <2>1, <2>2, EntryNotesStay, CoverStays
<1>7. CASE Record(n)
  <2>1. task[n] = "written"
    BY <1>7 DEF Record
  <2>2. out[n] = "blocked"
    BY <1>3, <2>1 DEF Decided
  <2>3. n \in entry'[e].notes
    BY <1>7, <2>2, RecordSets DEF Shaped, e
  <2>4. task'[n] = "recorded"
    BY <1>7 DEF Record, Shaped, Places
  <2>5. WillClear(e)'
    BY <2>4 DEF WillClear, e
  <2> QED BY <1>4, <2>3, <2>5
<1>8. CASE task[n] \in {"recorded", "off"}
  <2>1. InReach(n)
    BY <1>3, <1>8 DEF Noted
  <2> QED BY <1>5, <1>6, <2>1 DEF InReach, e
<1> QED BY <1>3, <1>7, <1>8
-----------------------------------------------------------------------------
IInv == Shaped /\ Flagged /\ ReferencedTimerWillCollect /\ KnownPauseIsCovered /\ Decided /\ Kept /\ Noted

\* All of it holds at the start, and every step keeps it.
LEMMA Invariant == Spec => []IInv
<1>1. Init => IInv
  <2> SUFFICES ASSUME Init PROVE IInv
    OBVIOUS
  <2>1. Places
    BY DEF Init, Places, Statuses
  <2>2. entry \in Entries /\ \A e \in Engines : ~entry[e].paused /\ ~entry[e].resets
    BY DEF Init, Clear, Entries
  <2>3. Off \in Call /\ Off.at = "off" /\ Off.todo = {} /\ Off.notes = {}
    BY DEF Off, Call
  <2>4. resume = [p \in Resumers |-> Off] /\ \A t \in Timers : t \in Resumers
    BY DEF Init, Resumers
  <2>5. Shapes /\ Calls /\ TimerCalls
    BY <2>2, <2>3, <2>4 DEF Shapes, Calls, TimerCalls
  <2>6. ReferencedTimerWillCollect /\ Decided /\ Noted
    BY DEF Init, ReferencedTimerWillCollect, Decided, Noted
  <2>7. Flagged /\ KnownPauseIsCovered
    BY <2>2 DEF Flagged, KnownPauseIsCovered
  <2>8. Kept
    <3>1. \A e \in Engines : entry[e].notes = {}
      BY DEF Init, Clear
    <3>2. \A n \in Notes : task[n] # "written"
      BY DEF Init
    <3> QED BY <2>3, <2>4, <3>1, <3>2 DEF Kept, Owned, Written
  <2> QED BY <2>1, <2>5, <2>6, <2>7, <2>8 DEF IInv, Shaped
<1>2. IInv /\ [Next]_<<vars, broken>> => IInv'
  <2> SUFFICES ASSUME IInv, [Next]_<<vars, broken>> PROVE IInv'
    OBVIOUS
  <2> USE UsageAssumption DEF IInv
  <2>1. Places'
    BY PlacesStep DEF Shaped
  <2>2. entry' \in Entries /\ Flagged'
    BY EntryStep
  <2>3. resume' \in [Resumers -> Call] /\ Calls' /\ TimerCalls'
    BY CallsStep
  <2>4. Shaped'
    BY <2>1, <2>2, <2>3 DEF Shaped, Shapes
  <2>5. ReferencedTimerWillCollect'
    BY RefStep
  <2>6. KnownPauseIsCovered'
    <3>1. broken' = broken
      BY DEF Next, vars
    <3> SUFFICES ASSUME broken \subseteq {"hand"}, NEW e \in Engines, entry'[e].paused, entry'[e].resets PROVE WillClear(e)'
      BY <3>1 DEF KnownPauseIsCovered
    <3> QED BY KnownStep
  <2>7. Decided'
    BY DecidedStep
  <2>8. Noted'
    BY NotedStep
  <2>9. Kept'
    <3>1. broken' = broken
      BY DEF Next, vars
    <3> QED BY <3>1, OwnedStep, WrittenStep DEF Kept
  <2> QED BY <2>2, <2>4, <2>5, <2>6, <2>7, <2>8, <2>9
<1> QED BY <1>1, <1>2, PTL DEF Spec

\* Every variable stays of its type.
THEOREM TypeCorrect == Spec => []TypeOK
<1>1. IInv => TypeOK
  BY DEF IInv, Shaped, Shapes, Places, TypeOK, Entries, Call
<1> QED BY <1>1, Invariant, PTL

\* handleTrip may rely on the timer an engine refers to, whatever fails.
THEOREM ReferenceIsGood == Spec => []ReferencedTimerWillCollect
<1>1. IInv => ReferencedTimerWillCollect
  BY DEF IInv
<1> QED BY <1>1, Invariant, PTL

\* Whatever people edit, and without another fault, no order of trips, timers and
\* resumes leaves an engine paused with a known reset time and nobody to resume
\* it.
THEOREM PauseIsCovered == Spec => []KnownPauseIsCovered
<1>1. IInv => KnownPauseIsCovered
  BY DEF IInv
<1> QED BY <1>1, Invariant, PTL

\* Nor, while nobody edits blocked notes, does it leave a note such a limit
\* blocked out of every resume's reach.
THEOREM NoteIsCovered == Spec => []RecordedNoteIsCovered
<1>1. IInv => RecordedNoteIsCovered
  BY DEF IInv, Noted, InReach, RecordedNoteIsCovered
<1> QED BY <1>1, Invariant, PTL

\* The runner never makes a Resume write a note that is not blocked any more,
\* the write whose failure would take the other notes along.
THEOREM WhatResumesHoldIsBlocked == Spec => []CollectedIsBlocked
<1>1. IInv => CollectedIsBlocked
  BY DEF IInv, Kept, Owned, Settled, CollectedIsBlocked
<1> QED BY <1>1, Invariant, PTL
=============================================================================
