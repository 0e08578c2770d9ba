------------------------ MODULE Notifications_proofs ------------------------
(***************************************************************************)
(* What is proved of Notifications for any notes, thresholds and faults:   *)
(* the types, that a "notified" line is never a lie, that nobody is told   *)
(* twice how a task ended unless something failed in between, and that an  *)
(* outage is alerted once.                                                 *)
(***************************************************************************)
EXTENDS Notifications, TLAPS

\* A terminal note has had a terminal status written.
Good == {x \in Note : x.status = "terminal" => x.episode >= 1}

Vaulted == disk \in [Notes -> Good] /\ pushed \in [Notes -> Good]

\* Whoever has a message to send about a note has seen a terminal status of it.
Working ==
  /\ job \in [Notes -> {"idle", "session", "done", "blocked", "gate"}]
  /\ ended \in [Notes -> 0..MaxEpisodes]
  /\ \A n \in Notes : job[n] \in {"done", "blocked", "gate"} => ended[n] >= 1

\* A message with a record is about a terminal status of a note.
Proper(s) ==
  /\ s \in Message
  /\ Recorded(s) => s.note \in Notes /\ s.episode \in 1..MaxEpisodes
  /\ s.at = "record" => Recorded(s) /\ s.event # "none"
Sending ==
  /\ \A s \in sends : Proper(s)
  /\ late \subseteq [note : Notes, event : {"notified", "notify_failed"}]

\* The watcher's count of failed checks, and of alerts.
Watching ==
  /\ cycle \in {"asleep", "scan"}
  /\ streak \in 0..HealthAlertThreshold + 1 /\ alerts \in 0..2
  /\ restarts \in 0..MaxRestarts /\ faults \in 0..MaxFaults

\* The histories.
Remembered ==
  tried \subseteq Episodes /\ told \in [Episodes -> 0..2]

\* What is recorded, or about to be, as notified got through.
Heard ==
  /\ \A n \in Notes : "notified" \in disk[n].log \cup pushed[n].log => n \in heard
  /\ \A s \in sends : s.at = "record" /\ s.event = "notified" => s.note \in heard
  /\ \A r \in late : r.event = "notified" => r.note \in heard

\* A write of a good note, whatever becomes of it, leaves good notes.
LEMMA WriteKeeps ==
  ASSUME Vaulted, faults \in 0..MaxFaults, NotificationsAssumption,
         NEW n \in Notes, NEW new \in Good, NEW how, WriteNote(n, new, how)
  PROVE  Vaulted' /\ faults' \in 0..MaxFaults
<1>1. [disk EXCEPT ![n] = new] \in [Notes -> Good]
  BY DEF Vaulted
<1>2. disk' \in [Notes -> Good] /\ pushed' \in [Notes -> Good]
  BY <1>1 DEF WriteNote, Vaulted
<1>3. faults' \in 0..MaxFaults
  BY DEF WriteNote, Spend, NotificationsAssumption
<1> QED BY <1>2, <1>3 DEF Vaulted

\* It adds no line but its own to any note.
LEMMA WriteLogs ==
  ASSUME Vaulted, NEW n \in Notes, NEW new \in Good, NEW how, WriteNote(n, new, how)
  PROVE  \A m \in Notes : disk'[m].log \cup pushed'[m].log
           \subseteq disk[m].log \cup pushed[m].log \cup (IF m = n THEN new.log ELSE {})
<1>1. \A m \in Notes : [disk EXCEPT ![n] = new][m] = IF m = n THEN new ELSE disk[m]
  BY DEF Vaulted
<1> QED BY <1>1 DEF WriteNote

\* A line appended to a good note, and a terminal status, make a good note.
LEMMA GoodNotes ==
  ASSUME NEW x \in Good, NotificationsAssumption
  PROVE  /\ \A event \in {"notified", "notify_failed"} :
              LET y == [x EXCEPT !.log = @ \cup {event}] IN y \in Good /\ y.log = x.log \cup {event}
         /\ \A e \in 1..MaxEpisodes :
              LET y == [x EXCEPT !.status = "terminal", !.episode = e] IN y \in Good /\ y.log = x.log
         /\ LET y == [x EXCEPT !.status = "open"] IN y \in Good /\ y.log = x.log
<1>1. /\ x \in [status : {"open", "terminal"}, episode : 0..MaxEpisodes,
                log : SUBSET {"notified", "notify_failed"}]
      /\ x.status = "terminal" => x.episode >= 1
  BY DEF Good, Note
<1>2. ASSUME NEW event \in {"notified", "notify_failed"}
      PROVE  LET y == [x EXCEPT !.log = @ \cup {event}] IN y \in Good /\ y.log = x.log \cup {event}
  <2>1. x.log \cup {event} \in SUBSET {"notified", "notify_failed"}
    BY <1>1
  <2>2. \A L \in SUBSET {"notified", "notify_failed"} :
          [x EXCEPT !.log = L] \in Good /\ [x EXCEPT !.log = L].log = L
    BY <1>1 DEF Good, Note
  <2> QED BY <2>1, <2>2
<1>3. ASSUME NEW e \in 1..MaxEpisodes
      PROVE  LET y == [x EXCEPT !.status = "terminal", !.episode = e] IN y \in Good /\ y.log = x.log
  <2>1. e \in 0..MaxEpisodes /\ e >= 1
    BY DEF NotificationsAssumption
  <2> QED BY <1>1, <2>1 DEF Good, Note
<1>4. LET y == [x EXCEPT !.status = "open"] IN y \in Good /\ y.log = x.log
  BY <1>1 DEF Good, Note
<1> QED BY <1>2, <1>3, <1>4

\* A record is an append of one line.
LEMMA AppendKeeps ==
  ASSUME Vaulted, faults \in 0..MaxFaults, NEW n \in Notes,
         NEW event \in {"notified", "notify_failed"}, NEW how, AppendRunnerLog(n, event, how)
  PROVE  /\ Vaulted' /\ faults' \in 0..MaxFaults
         /\ \A m \in Notes : disk'[m].log \cup pushed'[m].log
              \subseteq disk[m].log \cup pushed[m].log \cup (IF m = n THEN {event} ELSE {})
<1>1. disk[n] \in Good
  BY DEF Vaulted
<1> DEFINE new == [disk[n] EXCEPT !.log = @ \cup {event}]
<1>2. new \in Good /\ new.log = disk[n].log \cup {event}
  BY <1>1, GoodNotes, NotificationsAssumption
<1>3. WriteNote(n, new, how)
  BY DEF AppendRunnerLog
<1> HIDE DEF new
<1>4. Vaulted' /\ faults' \in 0..MaxFaults
  BY <1>2, <1>3, WriteKeeps, NotificationsAssumption
<1>5. \A m \in Notes : disk'[m].log \cup pushed'[m].log
        \subseteq disk[m].log \cup pushed[m].log \cup (IF m = n THEN new.log ELSE {})
  BY <1>2, <1>3, WriteLogs
<1> QED BY <1>2, <1>4, <1>5

\* The parts of the invariant that a message, or a write, can disturb.
IInv == Vaulted /\ Working /\ Sending /\ Watching /\ Remembered /\ Heard

\* A message that comes to its record has one kind of outcome, and says
\* "notified" only when it got through.
LEMMA Posts ==
  ASSUME Sending, Remembered, Heard, NEW s \in sends, NEW new,
         \/ new = {}
         \/ new = {[s EXCEPT !.at = "retry"]}
         \/ Recorded(s) /\ new = {[s EXCEPT !.at = "record", !.event = "notify_failed"]}
         \/ Recorded(s) /\ s.note \in heard' /\ new = {[s EXCEPT !.at = "record", !.event = "notified"]},
         Becomes(s, new), heard \subseteq heard', UNCHANGED late
  PROVE  /\ Sending'
         /\ \A q \in sends' : q.at = "record" /\ q.event = "notified" => q.note \in heard'
<1>1. s \in Message /\ (Recorded(s) => s.note \in Notes /\ s.episode \in 1..MaxEpisodes)
  BY DEF Sending, Proper
<1>2. \A q \in new : Proper(q) /\ (q.at = "record" /\ q.event = "notified" => q.note \in heard')
  <2>1. Proper([s EXCEPT !.at = "retry"]) /\ [s EXCEPT !.at = "retry"].at = "retry"
    BY <1>1 DEF Proper, Message, Recorded
  <2>2. ASSUME Recorded(s), NEW e \in {"notified", "notify_failed"}
        PROVE  LET q == [s EXCEPT !.at = "record", !.event = e] IN
                 Proper(q) /\ q.event = e /\ q.note = s.note
    BY <1>1, <2>2 DEF Proper, Message, Recorded
  <2> QED BY <2>1, <2>2
<1>3. \A q \in sends' : q \in sends \/ q \in new
  BY DEF Becomes
<1>4. Sending'
  BY <1>2, <1>3 DEF Sending, Proper, Recorded
<1> QED BY <1>2, <1>3, <1>4 DEF Heard

\* The histories keep their types.
LEMMA Histories ==
  ASSUME Sending, Remembered, NEW s \in sends
  PROVE  Tried(s) \subseteq Episodes /\ Told(s) \in [Episodes -> 0..2]
<1>1. Recorded(s) => <<s.note, s.episode>> \in Episodes
  BY DEF Sending, Proper, Episodes
<1>2. Tried(s) \subseteq Episodes
  BY <1>1 DEF Tried, Remembered
<1>3. s.what = "status" => Recorded(s)
  BY DEF Recorded
<1>4. ASSUME NEW x \in Episodes PROVE [told EXCEPT ![x] = IF @ = 2 THEN 2 ELSE @ + 1] \in [Episodes -> 0..2]
  <2>1. (IF told[x] = 2 THEN 2 ELSE told[x] + 1) \in 0..2
    BY DEF Remembered
  <2> QED BY <2>1 DEF Remembered
<1>5. Told(s) \in [Episodes -> 0..2]
  BY <1>1, <1>3, <1>4 DEF Told, Remembered
<1> QED BY <1>2, <1>5

\* A post of a message, with whatever answer.
LEMMA PostStep ==
  ASSUME IInv, NEW s \in sends, PostSucceeds(s) \/ PostFails(s) \/ PostAnswerLost(s)
  PROVE  IInv'
<1> USE DEF IInv
<1>1. UNCHANGED <<vault, runner, watcher, ended, late>>
  BY DEF PostSucceeds, PostFails, PostAnswerLost
<1>2. heard \subseteq heard' /\ (PostSucceeds(s) /\ Recorded(s) => s.note \in heard')
  BY DEF PostSucceeds, PostFails, PostAnswerLost, Delivered, Undelivered
<1>3. Remembered'
  BY Histories DEF PostSucceeds, PostFails, PostAnswerLost, Delivered, Undelivered, Remembered
<1>4. /\ Sending'
      /\ \A q \in sends' : q.at = "record" /\ q.event = "notified" => q.note \in heard'
  <2>1. UNCHANGED late
    BY <1>1
  <2>2. CASE Becomes(s, {[s EXCEPT !.at = "retry"]})
    BY <1>2, <2>1, <2>2, Posts
  <2>3. CASE Posted(s, "notify_failed")
    BY <1>2, <2>1, <2>3, Posts DEF Posted
  <2>4. CASE Posted(s, "notified") /\ (Recorded(s) => s.note \in heard')
    BY <1>2, <2>1, <2>4, Posts DEF Posted
  <2> QED BY <1>2, <2>2, <2>3, <2>4 DEF PostSucceeds, PostFails, PostAnswerLost
<1>5. faults' \in 0..MaxFaults
  BY NotificationsAssumption DEF PostSucceeds, PostFails, PostAnswerLost, Spend, Watching
<1>6. Vaulted' /\ Working'
  BY <1>1 DEF Vaulted, Working, vault, runner
<1>7. Watching'
  BY <1>1, <1>5 DEF Watching, watcher
<1>8. Heard'
  BY <1>1, <1>2, <1>4 DEF Heard, vault
<1> QED BY <1>3, <1>4, <1>6, <1>7, <1>8

\* A record, by whichever process, in time or late or not at all.
LEMMA RecordStep ==
  ASSUME IInv,
         \/ \E s \in sends : \/ PostRunnerLogRefused(s) \/ PostRunnerLogTimesOut(s)
                             \/ \E how \in Outcomes : Record(s, how) \/ PostRunnerLog(s, how)
         \/ \E r \in late, how \in Outcomes : HandleRunnerLogLate(r, how)
  PROVE  IInv'
<1> USE DEF IInv
<1>1. UNCHANGED <<runner, watcher, history, ended>>
  BY DEF PostRunnerLogRefused, PostRunnerLogTimesOut, Record, PostRunnerLog, HandleRunnerLogLate
<1>2. Working' /\ Remembered' /\ UNCHANGED heard
  BY <1>1 DEF Working, Remembered, runner, history
<1>3. sends' \subseteq sends
  BY DEF PostRunnerLogRefused, PostRunnerLogTimesOut, Record, PostRunnerLog, HandleRunnerLogLate, Becomes
<1>4. /\ late' \subseteq [note : Notes, event : {"notified", "notify_failed"}]
      /\ \A r \in late' : r.event = "notified" => r.note \in heard
  <2>1. late' \subseteq late \/ \E s \in sends : PostRunnerLogTimesOut(s)
    BY DEF PostRunnerLogRefused, Record, PostRunnerLog, HandleRunnerLogLate
  <2>2. ASSUME NEW s \in sends, s.at = "record"
        PROVE  /\ [note |-> s.note, event |-> s.event] \in [note : Notes, event : {"notified", "notify_failed"}]
               /\ s.event = "notified" => s.note \in heard
    BY <2>2 DEF Sending, Proper, Message, Heard
  <2> QED BY <2>1, <2>2 DEF PostRunnerLogTimesOut, Sending, Heard
<1>5. /\ Vaulted' /\ faults' \in 0..MaxFaults
      /\ \A m \in Notes : "notified" \in disk'[m].log \cup pushed'[m].log => m \in heard
  <2>1. CASE \E s \in sends : PostRunnerLogRefused(s) \/ PostRunnerLogTimesOut(s)
    BY <2>1, NotificationsAssumption DEF PostRunnerLogRefused, PostRunnerLogTimesOut, vault, Spend, Vaulted,
       Watching, Heard
  <2>2. ASSUME NEW n \in Notes, NEW event \in {"notified", "notify_failed"}, NEW how,
               AppendRunnerLog(n, event, how), event = "notified" => n \in heard
        PROVE  /\ Vaulted' /\ faults' \in 0..MaxFaults
               /\ \A m \in Notes : "notified" \in disk'[m].log \cup pushed'[m].log => m \in heard
    <3>1. faults \in 0..MaxFaults
      BY DEF Watching
    <3> QED BY <2>2, <3>1, AppendKeeps DEF Heard
  <2>3. ASSUME NEW s \in sends, NEW how, Record(s, how) \/ PostRunnerLog(s, how)
        PROVE  /\ s.note \in Notes /\ s.event \in {"notified", "notify_failed"}
               /\ AppendRunnerLog(s.note, s.event, how) /\ (s.event = "notified" => s.note \in heard)
    BY <2>3 DEF Record, PostRunnerLog, Sending, Proper, Message, Heard
  <2>4. ASSUME NEW r \in late, NEW how, HandleRunnerLogLate(r, how)
        PROVE  /\ r.note \in Notes /\ r.event \in {"notified", "notify_failed"}
               /\ AppendRunnerLog(r.note, r.event, how) /\ (r.event = "notified" => r.note \in heard)
    BY <2>4 DEF HandleRunnerLogLate, Sending, Heard
  <2>5. ASSUME NEW s \in sends, NEW how, Record(s, how) \/ PostRunnerLog(s, how)
        PROVE  /\ Vaulted' /\ faults' \in 0..MaxFaults
               /\ \A m \in Notes : "notified" \in disk'[m].log \cup pushed'[m].log => m \in heard
    BY <2>3, <2>5, <2>2
  <2>6. ASSUME NEW r \in late, NEW how, HandleRunnerLogLate(r, how)
        PROVE  /\ Vaulted' /\ faults' \in 0..MaxFaults
               /\ \A m \in Notes : "notified" \in disk'[m].log \cup pushed'[m].log => m \in heard
    BY <2>4, <2>6, <2>2
  <2> QED BY <2>1, <2>5, <2>6
<1>6. Watching'
  BY <1>1, <1>5 DEF Watching, watcher
<1>7. Sending'
  BY <1>3, <1>4 DEF Sending, Proper, Recorded
<1>8. Heard'
  BY <1>2, <1>3, <1>4, <1>5 DEF Heard
<1> QED BY <1>2, <1>5, <1>6, <1>7, <1>8

\* A new message, at its first post, is proper when what it is about is.
LEMMA NewSends ==
  ASSUME Sending, Heard, NEW S, sends' \subseteq sends \cup S, UNCHANGED <<late, heard>>,
         \A s \in S : Proper(s) /\ s.at = "post"
  PROVE  /\ Sending'
         /\ \A s \in sends' : s.at = "record" /\ s.event = "notified" => s.note \in heard
         /\ \A r \in late' : r.event = "notified" => r.note \in heard
<1>1. \A s \in sends' : s \in sends \/ (Proper(s) /\ s.at = "post")
  OBVIOUS
<1> QED BY <1>1 DEF Sending, Proper, Recorded, Heard

\* What the runner and the watcher start with.
LEMMA StartedIsProper ==
  ASSUME NEW by \in {"runner", "watcher"}, NEW what \in {"status", "gate", "stale", "health"},
         NEW n \in Notes \cup {"none"}, NEW e \in 0..MaxEpisodes,
         what \in {"status", "gate"} => n \in Notes /\ e >= 1, NotificationsAssumption
  PROVE  Proper(Started(by, what, n, e)) /\ Started(by, what, n, e).at = "post"
BY DEF Started, Proper, Message, Recorded, NotificationsAssumption

\* The end of a task: the write of its status, its message and its gate.
LEMMA TaskStep ==
  ASSUME IInv, NEW n \in Notes,
         (\E how \in Outcomes : Finish(n, how)) \/ Tell(n) \/ GateEnds(n)
  PROVE  IInv'
<1> USE DEF IInv
<1>1. ASSUME NEW how, Finish(n, how) PROVE IInv'
  <2> DEFINE e == ended[n] + 1
             new == [disk[n] EXCEPT !.status = "terminal", !.episode = e]
  <2>1. e \in 1..MaxEpisodes /\ ended' = [ended EXCEPT ![n] = e] /\ ended' \in [Notes -> 0..MaxEpisodes]
    BY <1>1, NotificationsAssumption DEF Finish, Working
  <2>2. disk[n] \in Good
    BY DEF Vaulted
  <2>3. new \in Good /\ new.log = disk[n].log
    BY <2>1, <2>2, GoodNotes, NotificationsAssumption
  <2>4. WriteNote(n, new, how)
    <3>1. ended'[n] = e
      BY <2>1 DEF Working
    <3> QED BY <1>1, <3>1 DEF Finish
  <2>5. UNCHANGED <<up, quiet, watcher, history, sends, late>>
    BY <1>1 DEF Finish
  <2> HIDE DEF new
  <2>6. faults \in 0..MaxFaults
    BY DEF Watching
  <2>7. Vaulted' /\ faults' \in 0..MaxFaults
    BY <2>3, <2>4, <2>6, WriteKeeps, NotificationsAssumption
  <2>8. \A m \in Notes : disk'[m].log \cup pushed'[m].log
          \subseteq disk[m].log \cup pushed[m].log \cup (IF m = n THEN disk[n].log ELSE {})
    BY <2>3, <2>4, WriteLogs
  <2>9. Working'
    <3>1. PICK j \in {"idle", "done", "blocked"} : job' = [job EXCEPT ![n] = j]
      BY <1>1 DEF Finish
    <3> HIDE DEF e
    <3> QED BY <2>1, <3>1 DEF Working
  <2>10. Sending' /\ Remembered' /\ Watching'
    BY <2>5, <2>7 DEF Sending, Proper, Recorded, Remembered, Watching, watcher, history
  <2>11. Heard'
    BY <2>5, <2>8 DEF Heard, history
  <2> QED BY <2>7, <2>9, <2>10, <2>11
<1>2. CASE Tell(n)
  <2> DEFINE S == {Started("runner", "status", n, ended[n])}
  <2>1. \A s \in S : Proper(s) /\ s.at = "post"
    <3>1. Proper(Started("runner", "status", n, ended[n])) /\ Started("runner", "status", n, ended[n]).at = "post"
      BY <1>2, StartedIsProper, NotificationsAssumption DEF Tell, Working
    <3> QED BY <3>1
  <2>2. /\ sends' = sends \cup S
        /\ UNCHANGED <<vault, up, quiet, watcher, history, late, ended, faults>>
    BY <1>2 DEF Tell
  <2>3. UNCHANGED <<late, heard>>
    BY <2>2 DEF history
  <2> HIDE DEF S
  <2>4. /\ Sending'
        /\ \A s \in sends' : s.at = "record" /\ s.event = "notified" => s.note \in heard
        /\ \A r \in late' : r.event = "notified" => r.note \in heard
    BY <2>1, <2>2, <2>3, NewSends
  <2>5. Working'
    BY <1>2, <2>2 DEF Tell, Working
  <2> QED BY <2>2, <2>4, <2>5 DEF Vaulted, Watching, Remembered, Heard, vault, watcher, history
<1>3. CASE GateEnds(n)
  <2> DEFINE S == {Started("runner", "gate", n, ended[n])}
  <2>1. \A s \in S : Proper(s) /\ s.at = "post"
    <3>1. Proper(Started("runner", "gate", n, ended[n])) /\ Started("runner", "gate", n, ended[n]).at = "post"
      BY <1>3, StartedIsProper, NotificationsAssumption DEF GateEnds, Working
    <3> QED BY <3>1
  <2>2. /\ sends' \subseteq sends \cup S
        /\ UNCHANGED <<vault, up, watcher, history, late, ended, faults>>
    BY <1>3 DEF GateEnds
  <2>3. UNCHANGED <<late, heard>>
    BY <2>2 DEF history
  <2> HIDE DEF S
  <2>4. /\ Sending'
        /\ \A s \in sends' : s.at = "record" /\ s.event = "notified" => s.note \in heard
        /\ \A r \in late' : r.event = "notified" => r.note \in heard
    BY <2>1, <2>2, <2>3, NewSends
  <2>5. Working'
    BY <1>3, <2>2 DEF GateEnds, Working
  <2> QED BY <2>2, <2>4, <2>5 DEF Vaulted, Watching, Remembered, Heard, vault, watcher, history
<1> QED BY <1>1, <1>2, <1>3

\* The rest of the runner: a new claim, an empty pass, time, a crash, a boot.
LEMMA RunnerStep ==
  ASSUME IInv, \/ \E n \in Notes : FallQuiet(n) \/ Reclaim(n) \/ Age(n)
               \/ Dispatch \/ Crash \/ Boot \/ UNCHANGED vars
  PROVE  IInv'
<1> USE DEF IInv
<1>1. ASSUME NEW n \in Notes, Reclaim(n) PROVE IInv'
  <2> DEFINE new == [pushed[n] EXCEPT !.status = "open"]
  <2>1. pushed[n] \in Good
    BY DEF Vaulted
  <2>2. new \in Good /\ new.log = pushed[n].log
    BY <2>1, GoodNotes, NotificationsAssumption
  <2>3. disk' = [pushed EXCEPT ![n] = new] /\ pushed' = disk'
    BY <1>1 DEF Reclaim
  <2> HIDE DEF new
  <2>4. Vaulted' /\ \A m \in Notes : disk'[m].log = pushed[m].log
    BY <2>2, <2>3 DEF Vaulted
  <2>5. Working' /\ UNCHANGED <<watcher, history, sends, late, faults>>
    BY <1>1 DEF Reclaim, Working
  <2>6. Heard'
    BY <2>3, <2>4, <2>5 DEF Heard, history
  <2> QED BY <2>4, <2>5, <2>6 DEF Sending, Proper, Recorded, Watching, Remembered, watcher, history
<1>2. CASE Dispatch \/ Boot
  <2>1. disk' = pushed /\ pushed' = pushed
    BY <1>2 DEF Dispatch, Boot, Sync
  <2>2. UNCHANGED <<job, watcher, history, sends, late, ended, faults>>
    BY <1>2 DEF Dispatch, Boot, runner
  <2> QED BY <2>1, <2>2 DEF Vaulted, Working, Sending, Proper, Recorded, Watching, Remembered, Heard,
             watcher, history
<1>3. CASE (\E n \in Notes : FallQuiet(n) \/ Age(n)) \/ UNCHANGED vars
  <2>1. UNCHANGED <<disk, pushed, job, watcher, history, sends, late, ended, faults>>
    BY <1>3 DEF FallQuiet, Age, vars, vault, runner
  <2> QED BY <2>1 DEF Vaulted, Working, Sending, Proper, Recorded, Watching, Remembered, Heard,
             watcher, history
<1>4. CASE Crash
  <2>1. /\ UNCHANGED <<disk, pushed, watcher, history, ended>>
        /\ job' = [n \in Notes |-> "idle"] /\ sends' \subseteq sends /\ late' = {}
    BY <1>4 DEF Crash, vault, SendsBy
  <2>2. faults' \in 0..MaxFaults
    BY <1>4, NotificationsAssumption DEF Crash, Spend, Watching
  <2> QED BY <2>1, <2>2 DEF Vaulted, Working, Sending, Proper, Recorded, Watching, Remembered, Heard,
             watcher, history
<1> QED BY <1>1, <1>2, <1>3, <1>4

\* The watcher's cycle, and its restart.
LEMMA WatcherStep ==
  ASSUME IInv, (\E ok \in BOOLEAN : CheckHealth(ok)) \/ Scan \/ WatcherRestart
  PROVE  IInv'
<1> USE DEF IInv
<1>1. ASSUME NEW ok \in BOOLEAN, CheckHealth(ok) PROVE IInv'
  <2> DEFINE S == {Started("watcher", "stale", n, 0) : n \in Stale(ok)}
                    \cup {Started("watcher", "health", "none", 0) : x \in {y \in {alerts'} : y > alerts}}
  <2>1. sends' = sends \cup S
    BY <1>1 DEF CheckHealth
  <2>2. UNCHANGED <<vault, runner, restarts, history, late, ended>> /\ cycle' = "scan"
    BY <1>1 DEF CheckHealth
  <2>3. \A s \in S : Proper(s) /\ s.at = "post"
    <3>1. \A n \in Notes \cup {"none"}, what \in {"stale", "health"} :
            Proper(Started("watcher", what, n, 0)) /\ Started("watcher", what, n, 0).at = "post"
      BY StartedIsProper, NotificationsAssumption DEF NotificationsAssumption
    <3> QED BY <3>1 DEF Stale
  <2>4. faults' \in 0..MaxFaults
    BY <1>1, NotificationsAssumption DEF CheckHealth, Spend, Watching
  <2>5. streak' \in 0..HealthAlertThreshold + 1 /\ alerts' \in 0..2
    <3>1. Observe(ok) /\ HealthAlertThreshold \in Nat \ {0}
      BY <1>1, NotificationsAssumption DEF CheckHealth, NotificationsAssumption
    <3> QED BY <3>1 DEF Observe, Watching
  <2> HIDE DEF S
  <2>6. UNCHANGED <<late, heard>>
    BY <2>2 DEF history
  <2>7. /\ Sending'
        /\ \A s \in sends' : s.at = "record" /\ s.event = "notified" => s.note \in heard
        /\ \A r \in late' : r.event = "notified" => r.note \in heard
    BY <2>1, <2>3, <2>6, NewSends
  <2> QED BY <2>2, <2>4, <2>5, <2>7 DEF Vaulted, Working, Watching, Remembered, Heard, vault, runner, history
<1>2. CASE Scan
  <2> DEFINE S == {Started("watcher", "status", n, disk[n].episode) : n \in Unnotified}
  <2>1. sends' = sends \cup S /\ cycle' = "asleep"
        /\ UNCHANGED <<vault, runner, streak, alerts, restarts, history, late, ended, faults>>
    BY <1>2 DEF Scan
  <2>2. \A n \in Unnotified : n \in Notes /\ disk[n].episode \in 0..MaxEpisodes /\ disk[n].episode >= 1
    BY DEF Unnotified, Vaulted, Good, Note
  <2>3. \A s \in S : Proper(s) /\ s.at = "post"
    BY <2>2, StartedIsProper, NotificationsAssumption
  <2> HIDE DEF S
  <2>4. UNCHANGED <<late, heard>>
    BY <2>1 DEF history
  <2>5. /\ Sending'
        /\ \A s \in sends' : s.at = "record" /\ s.event = "notified" => s.note \in heard
        /\ \A r \in late' : r.event = "notified" => r.note \in heard
    BY <2>1, <2>3, <2>4, NewSends
  <2> QED BY <2>1, <2>5 DEF Vaulted, Working, Watching, Remembered, Heard, vault, runner, history
<1>3. CASE WatcherRestart
  <2>1. /\ UNCHANGED <<vault, runner, history, late, ended, faults>> /\ sends' \subseteq sends
        /\ cycle' = "asleep" /\ streak' = 0 /\ alerts' = 0 /\ restarts' \in 0..MaxRestarts
    BY <1>3, NotificationsAssumption DEF WatcherRestart, SendsBy, Watching, NotificationsAssumption
  <2> QED BY <2>1, NotificationsAssumption DEF NotificationsAssumption, Vaulted, Working, Sending, Proper,
             Recorded, Watching, Remembered, Heard, vault, runner, history
<1> QED BY <1>1, <1>2, <1>3

\* Who listens, what is old and what is quiet are truth values.
Flags == up \in BOOLEAN /\ old \in [Notes -> BOOLEAN] /\ quiet \in [Notes -> BOOLEAN]

\* They stay so.
LEMMA FlagsStep ==
  ASSUME Flags, Sending, [Next]_vars
  PROVE  Flags'
<1>1. \A n \in Notes, b \in BOOLEAN : /\ [old EXCEPT ![n] = b] \in [Notes -> BOOLEAN]
                                    /\ [quiet EXCEPT ![n] = b] \in [Notes -> BOOLEAN]
  BY DEF Flags
<1>2. [n \in Notes |-> old[n] /\ disk[n] = pushed[n]] \in [Notes -> BOOLEAN]
  BY Zenon
<1>3. ASSUME NEW n \in Notes, NEW new, NEW how, WriteNote(n, new, how) PROVE old' \in [Notes -> BOOLEAN]
  <2>1. old' = old \/ old' = [old EXCEPT ![n] = FALSE]
    BY <1>3 DEF WriteNote
  <2> QED BY <1>1, <2>1 DEF Flags
<1>4. ASSUME NEW n \in Notes, NEW event, NEW how, AppendRunnerLog(n, event, how)
      PROVE  old' \in [Notes -> BOOLEAN]
  BY <1>3, <1>4 DEF AppendRunnerLog
<1>5. CASE UNCHANGED <<old, up, quiet>>
  BY <1>5 DEF Flags
<1>6. ASSUME NEW n \in Notes, NEW how, Finish(n, how) PROVE Flags'
  BY <1>3, <1>6 DEF Finish, Flags
<1>7. ASSUME NEW s \in sends, NEW how, Record(s, how) \/ PostRunnerLog(s, how), s.note \in Notes PROVE Flags'
  BY <1>4, <1>7 DEF Record, PostRunnerLog, Flags, runner
<1>8. ASSUME NEW r \in late, NEW how, HandleRunnerLogLate(r, how), r.note \in Notes PROVE Flags'
  BY <1>4, <1>8 DEF HandleRunnerLogLate, Flags, runner
<1>9. ASSUME NEW n \in Notes, Reclaim(n) PROVE Flags'
  <2>1. \A m \in Notes : (m # n /\ old[m] /\ disk[m] = pushed[m]) \in BOOLEAN
    BY Zenon
  <2>2. old' = [m \in Notes |-> m # n /\ old[m] /\ disk[m] = pushed[m]] /\ UNCHANGED <<up, quiet>>
    BY <1>9 DEF Reclaim
  <2>3. old' \in [Notes -> BOOLEAN]
    BY <2>1, <2>2, Zenon
  <2> QED BY <2>2, <2>3 DEF Flags
<1>10. ASSUME Sync, UNCHANGED quiet, up' \in BOOLEAN PROVE Flags'
  <2>1. old' \in [Notes -> BOOLEAN]
    BY <1>2, <1>10, Zenon DEF Sync
  <2> QED BY <1>10, <2>1, Zenon DEF Flags
<1>11. CASE Dispatch \/ Boot
  <2>1. Sync /\ UNCHANGED quiet /\ up' \in BOOLEAN
    BY <1>11 DEF Dispatch, Boot, runner, Flags
  <2> QED BY <1>10, <2>1
<1>12. ASSUME NEW n \in Notes, GateEnds(n) \/ FallQuiet(n) \/ Age(n) PROVE Flags'
  BY <1>1, <1>12 DEF GateEnds, FallQuiet, Age, vault, runner, Flags
<1>13. CASE Crash
  BY <1>13 DEF Crash, vault, Flags
<1>14. ASSUME NEW s \in sends, PostSucceeds(s) \/ PostFails(s) \/ PostAnswerLost(s)
                \/ PostRunnerLogRefused(s) \/ PostRunnerLogTimesOut(s)
       PROVE UNCHANGED <<old, up, quiet>>
  BY <1>14 DEF PostSucceeds, PostFails, PostAnswerLost, PostRunnerLogRefused, PostRunnerLogTimesOut,
               vault, runner
<1>15. ASSUME NEW ok, CheckHealth(ok) PROVE UNCHANGED <<old, up, quiet>>
  BY <1>15 DEF CheckHealth, vault, runner
<1>16. CASE Scan \/ WatcherRestart \/ (\E n \in Notes : Tell(n)) \/ UNCHANGED vars
  BY <1>5, <1>16 DEF Scan, WatcherRestart, Tell, vars, vault, runner
<1>17. \A s \in sends : s.at = "record" => s.note \in Notes
  BY DEF Sending, Proper
<1>18. \A r \in late : r.note \in Notes
  BY DEF Sending
<1>19. ASSUME NEW s \in sends, NEW how \in Outcomes, Record(s, how) \/ PostRunnerLog(s, how) PROVE Flags'
  <2>1. s.note \in Notes
    BY <1>17, <1>19 DEF Record, PostRunnerLog
  <2> QED BY <1>7, <1>19, <2>1
<1>20. ASSUME NEW s \in sends, Proceeds(s) \/ PostAnswerLost(s) \/ PostRunnerLogTimesOut(s) PROVE Flags'
  BY <1>5, <1>14, <1>19, <1>20 DEF Proceeds
<1>21. ASSUME NEW r \in late, NEW how \in Outcomes, HandleRunnerLogLate(r, how) PROVE Flags'
  BY <1>8, <1>18, <1>21
<1>22. ASSUME NEW n \in Notes, \/ \E how \in Outcomes : Finish(n, how)
                               \/ Tell(n) \/ GateEnds(n) \/ FallQuiet(n) \/ Reclaim(n) \/ Age(n)
       PROVE Flags'
  BY <1>6, <1>9, <1>12, <1>16, <1>22
<1>23. CASE \E ok \in BOOLEAN : CheckHealth(ok)
  BY <1>5, <1>15, <1>23
<1> QED BY <1>11, <1>13, <1>16, <1>20, <1>21, <1>22, <1>23 DEF Next

\* All of it together is an invariant.
LEMMA Invariant == Spec => []IInv
<1>1. Init => IInv
  <2> SUFFICES ASSUME Init PROVE IInv
    OBVIOUS
  <2> DEFINE blank == [status |-> "open", episode |-> 0, log |-> {}]
  <2>1. blank \in Good /\ blank.log = {}
    BY NotificationsAssumption DEF Good, Note, NotificationsAssumption
  <2>2. disk = [n \in Notes |-> blank] /\ pushed = disk
    BY DEF Init
  <2> HIDE DEF blank
  <2>3. Vaulted /\ \A n \in Notes : disk[n].log = {} /\ pushed[n].log = {}
    BY <2>1, <2>2 DEF Vaulted
  <2>4. sends = {} /\ late = {} /\ Heard
    BY <2>3 DEF Init, Heard
  <2>5. Working /\ Watching /\ Remembered
    BY NotificationsAssumption DEF Init, Working, Watching, Remembered, NotificationsAssumption
  <2> QED BY <2>3, <2>4, <2>5 DEF IInv, Sending
<1>2. IInv /\ [Next]_vars => IInv'
  <2> SUFFICES ASSUME IInv, [Next]_vars PROVE IInv'
    OBVIOUS
  <2>1. CASE \E s \in sends : PostSucceeds(s) \/ PostFails(s) \/ PostAnswerLost(s)
    BY <2>1, PostStep
  <2>2. CASE \/ \E s \in sends : \/ PostRunnerLogRefused(s) \/ PostRunnerLogTimesOut(s)
                                \/ \E how \in Outcomes : Record(s, how) \/ PostRunnerLog(s, how)
             \/ \E r \in late, how \in Outcomes : HandleRunnerLogLate(r, how)
    BY <2>2, RecordStep
  <2>3. CASE \E n \in Notes : (\E how \in Outcomes : Finish(n, how)) \/ Tell(n) \/ GateEnds(n)
    BY <2>3, TaskStep
  <2>4. CASE \/ \E n \in Notes : FallQuiet(n) \/ Reclaim(n) \/ Age(n)
             \/ Dispatch \/ Crash \/ Boot \/ UNCHANGED vars
    BY <2>4, RunnerStep
  <2>5. CASE (\E ok \in BOOLEAN : CheckHealth(ok)) \/ Scan \/ WatcherRestart
    BY <2>5, WatcherStep
  <2> QED BY <2>1, <2>2, <2>3, <2>4, <2>5, Zenon DEF Next, Proceeds
<1> QED BY <1>1, <1>2, PTL DEF Spec

\* A "notified" line in any note, at origin or in the clone, tells of a message
\* that got through, whatever was lost, crashed, timed out or came late.
THEOREM NotifiedIsNoLie == Spec => []NotifiedIsTrue
<1>1. IInv => NotifiedIsTrue
  BY DEF IInv, Heard, NotifiedIsTrue
<1> QED BY <1>1, Invariant, PTL

\* Every variable stays of its type, the records of the messages included.
THEOREM TypeCorrect == Spec => []TypeOK
<1>1. Init => Flags
  BY DEF Init, Flags
<1>2. Flags /\ IInv /\ [Next]_vars => Flags'
  BY FlagsStep DEF IInv
<1>3. IInv /\ Flags => TypeOK
  BY DEF IInv, Flags, TypeOK, Vaulted, Good, Working, Sending, Proper, Watching, Remembered
<1> QED BY <1>1, <1>2, <1>3, Invariant, PTL DEF Spec
-----------------------------------------------------------------------------
(* Nobody is told twice unless something fails.                             *)

\* The messages about a terminal status, and the notes whose task has ended but
\* not yet sent one.
Reports == {s \in sends : s.what = "status"}
Telling(n) == job[n] \in {"done", "blocked"}

\* As long as nothing failed and the watcher was not restarted.  Every write has
\* been pushed.  Only the runner reports: until its report is recorded the note
\* is not old, and a terminal note without a report on its way has its line, so
\* the watcher finds none to report.  A status is told once: its report comes
\* once, and not again after it got through.
Aired == disk = pushed
Reporting == \A s \in Reports : s.by = "runner" /\ s.episode <= ended[s.note]
Fresh == \A n \in Notes : Telling(n) \/ (\E s \in Reports : s.note = n) => ~old[n]
Marked == \A n \in Notes : disk[n].status = "terminal" =>
            Telling(n) \/ (\E s \in Reports : s.note = n) \/ disk[n].log # {}
Unsent == \A n \in Notes : Telling(n) => \A s \in Reports : s.note = n => s.episode # ended[n]
Alone == \A s, q \in Reports : s.note = q.note /\ s.episode = q.episode => s = q
Counted == \A n \in Notes, e \in 1 .. MaxEpisodes :
             \/ told[<<n, e>>] = 0
             \/ /\ told[<<n, e>>] = 1 /\ e <= ended[n]
                /\ Telling(n) => e # ended[n]
                /\ \A s \in Reports : s.note = n /\ s.episode = e => s.at = "record"
Once == Aired /\ Reporting /\ Fresh /\ Marked /\ Unsent /\ Alone /\ Counted

OnceInv == faults + restarts = 0 => Once

\* Nothing has failed by the end of a step: nothing had before, nor does in it.
LEMMA FaultFree ==
  ASSUME IInv, NotificationsAssumption, [Next]_vars, faults' + restarts' = 0
  PROVE  faults + restarts = 0 /\ ~Spend /\ ~WatcherRestart
<1>1. faults \in Nat /\ restarts \in Nat
  BY DEF IInv, Watching, NotificationsAssumption
<1>2. (faults' = faults \/ Spend) /\ (restarts' = restarts \/ restarts' = restarts + 1)
  BY DEF Next, vars, watcher, Proceeds, PostSucceeds, PostFails, PostAnswerLost, PostRunnerLogRefused, PostRunnerLogTimesOut,
         Record, PostRunnerLog, HandleRunnerLogLate, AppendRunnerLog, WriteNote, Finish, Tell, GateEnds, FallQuiet,
         Reclaim, Age, Dispatch, CheckHealth, Scan, Crash, Boot, WatcherRestart
<1>3. (faults' = faults \/ faults' = faults + 1) /\ (restarts' = restarts \/ restarts' = restarts + 1)
  BY <1>2 DEF Spend
<1>4. faults = 0 /\ restarts = 0 /\ faults' = 0 /\ restarts' = 0
  BY <1>1, <1>3
<1>5. ~Spend /\ ~WatcherRestart
  BY <1>1, <1>4 DEF Spend, WatcherRestart
<1> QED BY <1>4, <1>5

\* Nothing that is reported, written or told changes.
LEMMA OnceFrame ==
  ASSUME Once, UNCHANGED <<disk, pushed, ended, told>>, Reports' = Reports,
         \A n \in Notes : Telling(n)' <=> Telling(n),
         \A n \in Notes : old'[n] => old[n] \/ (~Telling(n) /\ \A s \in Reports : s.note # n)
  PROVE  Once'
<1>1. Aired' /\ Reporting' /\ Alone'
  BY DEF Once, Aired, Reporting, Alone
<1>2. Fresh'
  BY DEF Once, Fresh
<1>3. Marked' /\ Unsent'
  BY DEF Once, Marked, Unsent
<1>4. Counted'
  BY DEF Once, Counted
<1> QED BY <1>1, <1>2, <1>3, <1>4 DEF Once

\* A write that does not fail is pushed.
LEMMA WriteAired ==
  ASSUME ~Spend, Vaulted, Flags, NEW n \in Notes, NEW new, NEW how, WriteNote(n, new, how)
  PROVE  /\ how = "pushed" /\ pushed' = disk' /\ disk'[n] = new /\ ~old'[n]
         /\ \A m \in Notes \ {n} : disk'[m] = disk[m] /\ old'[m] = old[m]
<1>1. how = "pushed"
  BY DEF WriteNote
<1>2. disk' = [disk EXCEPT ![n] = new] /\ pushed' = disk' /\ old' = [old EXCEPT ![n] = FALSE]
  BY <1>1 DEF WriteNote
<1>3. DOMAIN disk = Notes /\ DOMAIN old = Notes
  BY DEF Vaulted, Flags
<1> QED BY <1>1, <1>2, <1>3

\* A line is appended, and perhaps a report about this note is over with it.
LEMMA OnceAppend ==
  ASSUME Once, ~Spend, Vaulted, Flags, NEW n \in Notes, NEW event, NEW how,
         event \in {"notified", "notify_failed"}, AppendRunnerLog(n, event, how),
         UNCHANGED <<job, ended, told>>, Reports' \subseteq Reports,
         \A s \in Reports : s \in Reports' \/ s.note = n
  PROVE  Once'
<1> DEFINE new == [disk[n] EXCEPT !.log = @ \cup {event}]
<1>1. WriteNote(n, new, how)
  BY DEF AppendRunnerLog
<1>2. new.log # {}
  <2>1. disk[n] \in Good
    BY DEF Vaulted
  <2>2. new.log = disk[n].log \cup {event}
    BY <2>1, GoodNotes, NotificationsAssumption
  <2> HIDE DEF new
  <2> QED BY <2>2
<1> HIDE DEF new
<1>3. /\ pushed' = disk' /\ disk'[n] = new /\ ~old'[n]
      /\ \A m \in Notes \ {n} : disk'[m] = disk[m] /\ old'[m] = old[m]
  BY <1>1, WriteAired
<1>4. \A m \in Notes : Telling(m)' <=> Telling(m)
  BY DEF Telling
<1>5. Aired' /\ Reporting' /\ Alone'
  BY <1>3 DEF Once, Aired, Reporting, Alone
<1>6. Fresh'
  BY <1>3, <1>4 DEF Once, Fresh
<1>7. Marked'
  BY <1>2, <1>3, <1>4 DEF Once, Marked
<1>8. Unsent' /\ Counted'
  BY <1>4 DEF Once, Unsent, Counted
<1> QED BY <1>5, <1>6, <1>7, <1>8 DEF Once

\* A report comes on, a post of it having failed or got through.
LEMMA OncePost ==
  ASSUME Once, Remembered, Sending, NEW s \in Reports, NEW q, s.at # "record",
         q.what = "status", q.by = s.by, q.note = s.note, q.episode = s.episode,
         Becomes(s, {q}), UNCHANGED <<disk, pushed, old, job, ended>>,
         told' = told \/ (q.at = "record" /\ told' = Told(s))
  PROVE  Once'
<1>1. Reports' = (Reports \ {s}) \cup {q}
  BY DEF Reports, Becomes
<1>2. \A m \in Notes : Telling(m)' <=> Telling(m)
  BY DEF Telling
<1>3. s.what = "status" /\ s \in sends
  BY DEF Reports
<1>4. s.note \in Notes /\ s.episode \in 1..MaxEpisodes
  BY <1>3 DEF Sending, Proper, Recorded
<1>5. Aired' /\ Reporting'
  BY <1>1 DEF Once, Aired, Reporting
<1>6. Alone'
  BY <1>1 DEF Once, Alone
<1>7. Fresh'
  BY <1>1, <1>2 DEF Once, Fresh
<1>8. Marked'
  BY <1>1, <1>2 DEF Once, Marked
<1>9. Unsent'
  BY <1>1, <1>2 DEF Once, Unsent
<1>10. told[<<s.note, s.episode>>] = 0
  BY <1>4 DEF Once, Counted
<1>11. s.episode <= ended[s.note] /\ (Telling(s.note) => s.episode # ended[s.note])
  BY <1>4 DEF Once, Reporting, Unsent
<1>12. \A r \in Reports' : r.note = s.note /\ r.episode = s.episode => r = q
  BY <1>1, <1>6 DEF Alone
<1>13. Counted'
  <2>1. CASE told' = told
    <3>1. ASSUME NEW n \in Notes, NEW e \in 1..MaxEpisodes, told[<<n, e>>] # 0
          PROVE  <<n, e>> # <<s.note, s.episode>>
      BY <1>10, <3>1
    <3>2. ASSUME NEW n \in Notes, NEW e \in 1..MaxEpisodes, told[<<n, e>>] # 0
          PROVE  \A r \in Reports' : r.note = n /\ r.episode = e => r.at = "record"
      BY <1>1, <3>1, <3>2 DEF Once, Counted
    <3> QED BY <1>2, <2>1, <3>2 DEF Once, Counted
  <2>2. CASE q.at = "record" /\ told' = Told(s)
    <3>1. told' = [told EXCEPT ![<<s.note, s.episode>>] = IF @ = 2 THEN 2 ELSE @ + 1]
      BY <1>3, <2>2 DEF Told
    <3>2. <<s.note, s.episode>> \in Episodes /\ DOMAIN told = Episodes
      BY <1>4 DEF Episodes, Remembered
    <3>3. told'[<<s.note, s.episode>>] = 1
      BY <1>10, <3>1, <3>2
    <3>4. \A x \in Episodes : x # <<s.note, s.episode>> => told'[x] = told[x]
      BY <3>1, <3>2
    <3>5. ASSUME NEW n \in Notes, NEW e \in 1..MaxEpisodes, n # s.note \/ e # s.episode
          PROVE  told'[<<n, e>>] = told[<<n, e>>]
      BY <3>4, <3>5 DEF Episodes
    <3>6. ASSUME NEW n \in Notes, NEW e \in 1..MaxEpisodes, n # s.note \/ e # s.episode
          PROVE  \/ told'[<<n, e>>] = 0
                 \/ /\ told'[<<n, e>>] = 1 /\ e <= ended[n] /\ (Telling(n) => e # ended[n])
                    /\ \A r \in Reports' : r.note = n /\ r.episode = e => r.at = "record"
      BY <1>1, <3>5, <3>6 DEF Once, Counted
    <3>7. ASSUME NEW n \in Notes, NEW e \in 1..MaxEpisodes, n = s.note, e = s.episode
          PROVE  /\ told'[<<n, e>>] = 1 /\ e <= ended[n] /\ (Telling(n) => e # ended[n])
                 /\ \A r \in Reports' : r.note = n /\ r.episode = e => r.at = "record"
      BY <1>11, <1>12, <2>2, <3>3, <3>7
    <3>8. ended' = ended
      OBVIOUS
    <3>9. ASSUME NEW n \in Notes, NEW e \in 1..MaxEpisodes, told'[<<n, e>>] # 0
          PROVE  /\ told'[<<n, e>>] = 1 /\ e <= ended'[n] /\ (Telling(n)' => e # ended'[n])
                 /\ \A r \in Reports' : r.note = n /\ r.episode = e => r.at = "record"
      <4>1. CASE n = s.note /\ e = s.episode
        BY <1>2, <3>7, <3>8, <4>1
      <4>2. CASE n # s.note \/ e # s.episode
        BY <1>2, <3>6, <3>8, <3>9, <4>2
      <4> QED BY <4>1, <4>2
    <3> QED BY <3>9 DEF Counted
  <2> QED BY <2>1, <2>2
<1> QED BY <1>5, <1>6, <1>7, <1>8, <1>9, <1>13 DEF Once

\* A task ends, and nothing about this end has been reported.
LEMMA OnceFinish ==
  ASSUME Once, IInv, Flags, ~Spend, NEW n \in Notes, NEW how, Finish(n, how)
  PROVE  Once'
<1> DEFINE e == ended[n] + 1
           new == [disk[n] EXCEPT !.status = "terminal", !.episode = e]
<1>1. ended' = [ended EXCEPT ![n] = e] /\ ended[n] \in Nat /\ ended' \in [Notes -> Nat]
  BY NotificationsAssumption DEF Finish, IInv, Working
<1>2. WriteNote(n, new, how)
  <2>1. ended'[n] = e
    BY <1>1 DEF IInv, Working
  <2> QED BY <2>1 DEF Finish
<1> HIDE DEF new
<1>3. /\ how = "pushed" /\ pushed' = disk' /\ ~old'[n]
      /\ \A m \in Notes \ {n} : disk'[m] = disk[m] /\ old'[m] = old[m]
  BY <1>2, WriteAired DEF IInv
<1>4. PICK j \in {"done", "blocked"} : job' = [job EXCEPT ![n] = j]
  BY <1>3 DEF Finish
<1>5. Telling(n)' /\ ~Telling(n) /\ \A m \in Notes \ {n} : Telling(m)' <=> Telling(m)
  BY <1>4 DEF Telling, Finish, IInv, Working
<1>6. ended'[n] = ended[n] + 1 /\ \A m \in Notes \ {n} : ended'[m] = ended[m]
  BY <1>1 DEF IInv, Working
<1>7. Reports' = Reports /\ UNCHANGED told
  BY DEF Finish, Reports, history
<1>8. \A s \in Reports : s.note \in Notes /\ s.episode \in Nat
  BY NotificationsAssumption DEF Reports, IInv, Sending, Proper, Recorded
<1> HIDE DEF e
<1>9. Aired' /\ Alone'
  BY <1>3, <1>7 DEF Once, Aired, Alone
<1>10. Reporting'
  <2>1. ASSUME NEW s \in Reports PROVE s.by = "runner" /\ s.episode <= ended'[s.note]
    <3>1. s.by = "runner" /\ s.episode <= ended[s.note]
      BY DEF Once, Reporting
    <3>2. CASE s.note = n
      BY <1>1, <1>6, <1>8, <3>1, <3>2
    <3>3. CASE s.note # n
      BY <1>6, <1>8, <3>1, <3>3
    <3> QED BY <3>2, <3>3
  <2> QED BY <1>7, <2>1 DEF Reporting
<1>11. Fresh'
  BY <1>3, <1>5, <1>7 DEF Once, Fresh
<1>12. Marked'
  BY <1>3, <1>5, <1>7 DEF Once, Marked
<1>13. Unsent'
  <2>1. ASSUME NEW s \in Reports, s.note = n PROVE s.episode # ended'[n]
    <3>1. s.episode <= ended[n]
      BY <2>1 DEF Once, Reporting
    <3> QED BY <1>1, <1>6, <1>8, <3>1
  <2> QED BY <1>5, <1>6, <1>7, <2>1 DEF Once, Unsent
<1>14. Counted'
  <2>1. ASSUME NEW d \in 1..MaxEpisodes, told[<<n, d>>] # 0
        PROVE  /\ told[<<n, d>>] = 1 /\ d <= ended'[n] /\ d # ended'[n]
               /\ \A s \in Reports : s.note = n /\ s.episode = d => s.at = "record"
    <3>1. /\ told[<<n, d>>] = 1 /\ d <= ended[n]
          /\ \A s \in Reports : s.note = n /\ s.episode = d => s.at = "record"
      BY <2>1 DEF Once, Counted
    <3>2. d \in Nat
      BY NotificationsAssumption DEF NotificationsAssumption
    <3> QED BY <1>1, <1>6, <3>1, <3>2
  <2>2. ASSUME NEW m \in Notes, NEW d \in 1..MaxEpisodes, told[<<m, d>>] # 0
        PROVE  /\ told[<<m, d>>] = 1 /\ d <= ended'[m] /\ (Telling(m)' => d # ended'[m])
               /\ \A s \in Reports : s.note = m /\ s.episode = d => s.at = "record"
    BY <1>5, <1>6, <2>1, <2>2 DEF Once, Counted
  <2> QED BY <1>7, <2>2 DEF Counted
<1> QED BY <1>9, <1>10, <1>11, <1>12, <1>13, <1>14 DEF Once

\* It is reported, for the first time.
LEMMA OnceTell ==
  ASSUME Once, IInv, NEW n \in Notes, Tell(n)
  PROVE  Once'
<1> DEFINE q == Started("runner", "status", n, ended[n])
<1>1. q.by = "runner" /\ q.what = "status" /\ q.note = n /\ q.episode = ended[n]
  BY DEF Started
<1>2. sends' = sends \cup {q}
  BY DEF Tell
<1> HIDE DEF q
<1>3. Reports' = Reports \cup {q}
  BY <1>1, <1>2 DEF Reports
<1>4. Telling(n) /\ ~Telling(n)' /\ \A m \in Notes \ {n} : Telling(m)' <=> Telling(m)
  <2>1. PICK j \in {"idle", "gate"} : job' = [job EXCEPT ![n] = j]
    BY DEF Tell
  <2> QED BY <2>1 DEF Telling, Tell, IInv, Working
<1>5. UNCHANGED <<disk, pushed, old, ended, told>>
  BY DEF Tell, vault, history
<1>6. ended[n] \in Nat
  BY NotificationsAssumption DEF IInv, Working, NotificationsAssumption
<1>7. \A s \in Reports : s.note = n => s.episode # ended[n]
  BY <1>4 DEF Once, Unsent
<1>8. Aired' /\ Reporting'
  BY <1>1, <1>3, <1>5, <1>6 DEF Once, Aired, Reporting
<1>9. Fresh' /\ Marked'
  BY <1>1, <1>3, <1>4, <1>5 DEF Once, Fresh, Marked
<1>10. Unsent'
  BY <1>1, <1>3, <1>4, <1>5 DEF Once, Unsent
<1>11. Alone'
  BY <1>1, <1>3, <1>7 DEF Once, Alone
<1>12. Counted'
  <2>1. ASSUME NEW m \in Notes, NEW d \in 1..MaxEpisodes, told[<<m, d>>] # 0
        PROVE  /\ told[<<m, d>>] = 1 /\ d <= ended[m] /\ (Telling(m)' => d # ended[m])
               /\ \A s \in Reports' : s.note = m /\ s.episode = d => s.at = "record"
    <3>1. /\ told[<<m, d>>] = 1 /\ d <= ended[m] /\ (Telling(m) => d # ended[m])
          /\ \A s \in Reports : s.note = m /\ s.episode = d => s.at = "record"
      BY <2>1 DEF Once, Counted
    <3>2. ~(q.note = m /\ q.episode = d)
      BY <1>1, <1>4, <3>1
    <3> QED BY <1>3, <1>4, <3>1, <3>2
  <2> QED BY <1>5, <2>1 DEF Counted
<1> QED BY <1>8, <1>9, <1>10, <1>11, <1>12 DEF Once

\* The note goes round again: nobody is still to be told of it by this task.
LEMMA OnceReclaim ==
  ASSUME Once, IInv, Flags, NEW n \in Notes, Reclaim(n)
  PROVE  Once'
<1> DEFINE new == [pushed[n] EXCEPT !.status = "open"]
<1>1. disk' = [pushed EXCEPT ![n] = new] /\ pushed' = disk'
  BY DEF Reclaim
<1>2. new.status = "open"
  BY DEF IInv, Vaulted, Good, Note
<1> HIDE DEF new
<1>3. disk'[n].status = "open" /\ \A m \in Notes \ {n} : disk'[m] = disk[m]
  BY <1>1, <1>2 DEF Once, Aired, IInv, Vaulted
<1>4. \A m \in Notes : old'[m] => old[m]
  <2>1. old' = [m \in Notes |-> m # n /\ old[m] /\ disk[m] = pushed[m]]
    BY DEF Reclaim
  <2> QED BY <2>1, Zenon
<1>5. \A m \in Notes : Telling(m)' <=> Telling(m)
  BY DEF Telling, Reclaim, IInv, Working
<1>6. Reports' = Reports /\ UNCHANGED <<ended, told>>
  BY DEF Reclaim, Reports, history
<1>7. Aired' /\ Reporting' /\ Alone'
  BY <1>1, <1>6 DEF Once, Aired, Reporting, Alone
<1>8. Fresh'
  BY <1>4, <1>5, <1>6 DEF Once, Fresh
<1>9. Marked'
  <2>1. ASSUME NEW m \in Notes, disk'[m].status = "terminal" PROVE disk'[m] = disk[m]
    BY <1>3, <2>1
  <2> QED BY <1>5, <1>6, <2>1 DEF Once, Marked
<1>10. Unsent' /\ Counted'
  BY <1>5, <1>6 DEF Once, Unsent, Counted
<1> QED BY <1>7, <1>8, <1>9, <1>10 DEF Once

\* The watcher finds no note to report.
LEMMA NoneUnnotified ==
  ASSUME Once
  PROVE  Unnotified = {}
BY DEF Once, Fresh, Marked, Unnotified

\* Messages that are not reports come and go, and Unnotified notes do not come.
LEMMA OnceCycle ==
  ASSUME Once, NEW ok \in BOOLEAN, CheckHealth(ok) \/ Scan
  PROVE  Once'
<1>1. UNCHANGED <<vault, runner, history, ended>>
  BY DEF CheckHealth, Scan
<1>2. Reports' = Reports
  <2>1. CASE CheckHealth(ok)
    BY <2>1 DEF CheckHealth, Reports, Started
  <2>2. CASE Scan
    BY <2>2, NoneUnnotified DEF Scan, Reports
  <2> QED BY <2>1, <2>2
<1>3. UNCHANGED <<disk, pushed, ended, told, old, job>>
  BY <1>1 DEF vault, runner, history
<1>4. \A m \in Notes : Telling(m)' <=> Telling(m)
  BY <1>3 DEF Telling
<1> QED BY <1>2, <1>3, <1>4, OnceFrame

\* The runner goes on with other things, or the vault is synced, or a file
\* about which the runner has nothing left to say gets old.
LEMMA OnceRunner ==
  ASSUME Once, IInv, Flags, \/ \E n \in Notes : GateEnds(n) \/ FallQuiet(n) \/ Age(n)
                            \/ Dispatch \/ Boot
  PROVE  Once'
<1>1. ASSUME NEW n \in Notes, GateEnds(n) PROVE Once'
  <2>1. Reports' = Reports
    BY <1>1 DEF GateEnds, Reports, Started
  <2>2. UNCHANGED <<disk, pushed, ended, told, old>>
    BY <1>1 DEF GateEnds, vault, history
  <2>3. \A m \in Notes : Telling(m)' <=> Telling(m)
    BY <1>1 DEF GateEnds, Telling, IInv, Working
  <2> QED BY <2>1, <2>2, <2>3, OnceFrame
<1>2. ASSUME NEW n \in Notes, FallQuiet(n) PROVE Once'
  <2>1. UNCHANGED <<disk, pushed, ended, told, old, job, sends>>
    BY <1>2 DEF FallQuiet, vault, history
  <2>2. (\A m \in Notes : Telling(m)' <=> Telling(m)) /\ Reports' = Reports
    BY <2>1 DEF Telling, Reports
  <2> QED BY <2>1, <2>2, OnceFrame
<1>3. ASSUME NEW n \in Notes, Age(n) PROVE Once'
  <2>1. UNCHANGED <<disk, pushed, ended, told, job, sends>>
    BY <1>3 DEF Age, runner, history
  <2>2. ~Telling(n) /\ \A s \in Reports : s.note # n
    BY <1>3 DEF Age, Telling, Once, Reporting, Reports, SendsBy
  <2>3. \A m \in Notes \ {n} : old'[m] = old[m]
    BY <1>3 DEF Age, Flags
  <2>4. \A m \in Notes : Telling(m)' <=> Telling(m)
    BY <2>1 DEF Telling
  <2>5. Reports' = Reports
    BY <2>1 DEF Reports
  <2> QED BY <2>1, <2>2, <2>3, <2>4, <2>5, OnceFrame
<1>4. CASE Dispatch \/ Boot
  <2>1. UNCHANGED <<pushed, ended, told, job, sends>> /\ Sync
    BY <1>4 DEF Dispatch, Boot, runner, history, Sync
  <2>2. disk' = disk
    BY <2>1 DEF Sync, Once, Aired
  <2>3. \A m \in Notes : old'[m] => old[m]
    <3>1. old' = [m \in Notes |-> old[m] /\ disk[m] = pushed[m]]
      BY <2>1 DEF Sync
    <3> QED BY <3>1, Zenon
  <2>4. (\A m \in Notes : Telling(m)' <=> Telling(m)) /\ Reports' = Reports
    BY <2>1 DEF Telling, Reports
  <2> QED BY <2>1, <2>2, <2>3, <2>4, OnceFrame
<1> QED BY <1>1, <1>2, <1>3, <1>4

\* A post, with an answer that arrives.
LEMMA OncePosts ==
  ASSUME Once, IInv, NEW s \in sends, PostSucceeds(s) \/ PostFails(s)
  PROVE  Once'
<1>1. UNCHANGED <<disk, pushed, old, job, ended>> /\ s.at # "record"
  BY DEF PostSucceeds, PostFails, vault, runner
<1>2. s \in Message
  BY DEF IInv, Sending, Proper
<1>3. CASE s.what # "status"
  <2>1. \A a \in {"retry", "record"}, e \in {"notified", "notify_failed"} :
          [s EXCEPT !.at = a].what # "status" /\ [s EXCEPT !.at = a, !.event = e].what # "status"
    BY <1>2, <1>3 DEF Message
  <2>2. Reports' = Reports
    BY <1>3, <2>1 DEF PostSucceeds, PostFails, Posted, Becomes, Reports
  <2>3. told' = told
    BY <1>3 DEF PostSucceeds, PostFails, Delivered, Undelivered, Told
  <2>4. \A m \in Notes : Telling(m)' <=> Telling(m)
    BY <1>1 DEF Telling
  <2> QED BY <1>1, <2>2, <2>3, <2>4, OnceFrame
<1>4. CASE s.what = "status"
  <2> DEFINE again == [s EXCEPT !.at = "retry"]
             done == [s EXCEPT !.at = "record", !.event = "notified"]
             failed == [s EXCEPT !.at = "record", !.event = "notify_failed"]
  <2>1. \A q \in {again, done, failed} :
          q.what = "status" /\ q.by = s.by /\ q.note = s.note /\ q.episode = s.episode
    BY <1>2, <1>4 DEF Message
  <2>2. done.at = "record"
    BY <1>2 DEF Message
  <2>3. Recorded(s) /\ s \in Reports
    BY <1>4 DEF Recorded, Reports
  <2>4. \/ Becomes(s, {again}) /\ told' = told
        \/ Becomes(s, {failed}) /\ told' = told
        \/ Becomes(s, {done}) /\ told' = Told(s)
    BY <2>3 DEF PostSucceeds, PostFails, Posted, Delivered, Undelivered
  <2> HIDE DEF again, done, failed
  <2>5. PICK q \in {again, done, failed} :
          Becomes(s, {q}) /\ (told' = told \/ (q.at = "record" /\ told' = Told(s)))
    BY <2>2, <2>4
  <2>6. q.what = "status" /\ q.by = s.by /\ q.note = s.note /\ q.episode = s.episode
    BY <2>1
  <2> QED BY <1>1, <2>3, <2>5, <2>6, OncePost DEF IInv
<1> QED BY <1>3, <1>4

\* A record, one that is made or one that is not.
LEMMA OnceRecords ==
  ASSUME Once, IInv, Flags, ~Spend,
         \/ \E s \in sends : \/ PostRunnerLogRefused(s) \/ PostRunnerLogTimesOut(s)
                             \/ \E how \in Outcomes : Record(s, how) \/ PostRunnerLog(s, how)
         \/ \E r \in late, how \in Outcomes : HandleRunnerLogLate(r, how)
  PROVE  Once'
<1>1. UNCHANGED <<job, ended, told>>
  BY DEF PostRunnerLogRefused, PostRunnerLogTimesOut, Record, PostRunnerLog, HandleRunnerLogLate, runner, history
<1>2. Vaulted
  BY DEF IInv
<1>3. ASSUME NEW s \in sends, PostRunnerLogRefused(s) \/ PostRunnerLogTimesOut(s) PROVE Once'
  <2>1. UNCHANGED <<disk, pushed, old>> /\ Becomes(s, {}) /\ s.by # "runner"
    BY <1>3 DEF PostRunnerLogRefused, PostRunnerLogTimesOut, vault
  <2>2. Reports' = Reports
    BY <2>1 DEF Once, Reporting, Reports, Becomes
  <2>3. \A m \in Notes : Telling(m)' <=> Telling(m)
    BY <1>1 DEF Telling
  <2> QED BY <1>1, <2>1, <2>2, <2>3, OnceFrame
<1>4. ASSUME NEW s \in sends, NEW how, Record(s, how) \/ PostRunnerLog(s, how) PROVE Once'
  <2>1. AppendRunnerLog(s.note, s.event, how) /\ Becomes(s, {}) /\ s.at = "record"
    BY <1>4 DEF Record, PostRunnerLog
  <2>2. s.note \in Notes /\ s.event \in {"notified", "notify_failed"}
    BY <2>1 DEF IInv, Sending, Proper, Message, Recorded
  <2>3. Reports' = Reports \ {s}
    BY <2>1 DEF Reports, Becomes
  <2>4. Reports' \subseteq Reports /\ \A q \in Reports : q \in Reports' \/ q.note = s.note
    BY <2>3
  <2> QED BY <1>1, <1>2, <2>1, <2>2, <2>4, OnceAppend
<1>5. ASSUME NEW r \in late, NEW how, HandleRunnerLogLate(r, how) PROVE Once'
  <2>1. AppendRunnerLog(r.note, r.event, how) /\ UNCHANGED sends
    BY <1>5 DEF HandleRunnerLogLate
  <2>2. r.note \in Notes /\ r.event \in {"notified", "notify_failed"}
    BY DEF IInv, Sending
  <2>3. Reports' = Reports
    BY <2>1 DEF Reports
  <2>4. Reports' \subseteq Reports /\ \A q \in Reports : q \in Reports' \/ q.note = r.note
    BY <2>3
  <2> QED BY <1>1, <1>2, <2>1, <2>2, <2>4, OnceAppend
<1> QED BY <1>3, <1>4, <1>5

\* Nothing told twice: every step that is no fault keeps that.
LEMMA OnceInvariant == Spec => [](IInv /\ Flags /\ OnceInv)
<1>1. Init => OnceInv
  <2> SUFFICES ASSUME Init PROVE Once
    BY DEF OnceInv
  <2> DEFINE blank == [status |-> "open", episode |-> 0, log |-> {}]
  <2>1. \A n \in Notes : disk[n].status # "terminal"
    <3>1. disk = [n \in Notes |-> blank] /\ blank.status = "open"
      BY DEF Init
    <3> QED BY <3>1
  <2>2. sends = {} /\ pushed = disk /\ \A n \in Notes : ~Telling(n)
    BY DEF Init, Telling
  <2>3. \A n \in Notes, e \in 1..MaxEpisodes : told[<<n, e>>] = 0
    BY DEF Init, Episodes
  <2> QED BY <2>1, <2>2, <2>3 DEF Once, Aired, Reporting, Reports, Fresh, Marked, Unsent, Alone, Counted
<1>2. IInv /\ Flags /\ OnceInv /\ [Next]_vars => OnceInv'
  <2> SUFFICES ASSUME IInv, Flags, OnceInv, [Next]_vars, faults' + restarts' = 0 PROVE Once'
    BY DEF OnceInv
  <2>1. Once /\ ~Spend /\ ~WatcherRestart
    BY FaultFree, NotificationsAssumption DEF OnceInv
  <2>2. CASE UNCHANGED vars
    <3>1. UNCHANGED <<disk, pushed, ended, told, old, job, sends>>
      BY <2>2 DEF vars, vault, runner, history
    <3>2. (\A m \in Notes : Telling(m)' <=> Telling(m)) /\ Reports' = Reports
      BY <3>1 DEF Telling, Reports
    <3> QED BY <2>1, <3>1, <3>2, OnceFrame
  <2>3. CASE \E s \in sends : PostSucceeds(s) \/ PostFails(s)
    BY <2>1, <2>3, OncePosts
  <2>4. ~\E s \in sends : PostAnswerLost(s)
    BY <2>1 DEF PostAnswerLost
  <2>5. CASE \/ \E s \in sends : \/ PostRunnerLogRefused(s) \/ PostRunnerLogTimesOut(s)
                                \/ \E how \in Outcomes : Record(s, how) \/ PostRunnerLog(s, how)
             \/ \E r \in late, how \in Outcomes : HandleRunnerLogLate(r, how)
    BY <2>1, <2>5, OnceRecords
  <2>6. CASE \E n \in Notes : (\E how \in Outcomes : Finish(n, how)) \/ Tell(n) \/ Reclaim(n)
    BY <2>1, <2>6, OnceFinish, OnceTell, OnceReclaim
  <2>7. CASE (\E n \in Notes : GateEnds(n) \/ FallQuiet(n) \/ Age(n)) \/ Dispatch \/ Boot
    BY <2>1, <2>7, OnceRunner
  <2>8. CASE (\E ok \in BOOLEAN : CheckHealth(ok)) \/ Scan
    BY <2>1, <2>8, OnceCycle
  <2>9. ~Crash
    BY <2>1 DEF Crash
  <2> QED BY <2>1, <2>2, <2>3, <2>4, <2>5, <2>6, <2>7, <2>8, <2>9, Zenon DEF Next, Proceeds
<1>3. Init => Flags
  BY DEF Init, Flags
<1>4. Flags /\ IInv /\ [Next]_vars => Flags'
  BY FlagsStep DEF IInv
<1> QED BY <1>1, <1>2, <1>3, <1>4, Invariant, PTL DEF Spec

\* The runner and the watcher between them tell how a task ended at most once,
\* over any number of tasks, rounds of a note, failed posts and time-outs of
\* the watcher's request, until a process, a write or an answer is lost.
THEOREM ToldOnce == Spec => []ToldTwiceOnlyAfterFault
<1>1. IInv /\ OnceInv => ToldTwiceOnlyAfterFault
  <2> SUFFICES ASSUME IInv, Once, NEW x \in Episodes PROVE told[x] <= 1
    BY DEF OnceInv, ToldTwiceOnlyAfterFault
  <2>1. PICK n \in Notes, e \in 1..MaxEpisodes : x = <<n, e>>
    BY DEF Episodes
  <2>2. told[<<n, e>>] = 0 \/ told[<<n, e>>] = 1
    BY DEF Once, Counted
  <2> QED BY <2>1, <2>2
<1> QED BY <1>1, OnceInvariant, PTL
-----------------------------------------------------------------------------
(* The health alert.                                                        *)

\* Failed checks since the last good one or the restart, and alerts since then.
AlertInv == streak \in Nat /\ alerts = IF streak >= HealthAlertThreshold THEN 1 ELSE 0

\* The watcher alerts "exactly once per failure streak" (watcher_mode.go:35):
\* at the failure that reaches the threshold, never before it, and never again
\* until a check succeeds or the watcher is restarted.
THEOREM OneAlertPerStreak == Spec => [](alerts = IF streak >= HealthAlertThreshold THEN 1 ELSE 0)
<1> USE NotificationsAssumption DEF NotificationsAssumption, AlertInv
<1>1. Init => AlertInv
  BY DEF Init
<1>2. AlertInv /\ [Next]_vars => AlertInv'
  <2> SUFFICES ASSUME AlertInv, [Next]_vars PROVE AlertInv'
    OBVIOUS
  <2>1. ASSUME NEW ok \in BOOLEAN, CheckHealth(ok) PROVE AlertInv'
    <3>1. Observe(ok)
      BY <2>1 DEF CheckHealth
    <3>2. CASE ok BY <3>1, <3>2 DEF Observe
    <3>3. CASE ~ok BY <3>1, <3>3 DEF Observe
    <3> QED BY <3>2, <3>3
  <2>2. CASE WatcherRestart BY <2>2 DEF WatcherRestart
  <2>3. CASE Scan BY <2>3 DEF Scan
  <2>4. CASE UNCHANGED <<streak, alerts>> BY <2>4
  <2>5. \/ \E ok \in BOOLEAN : CheckHealth(ok)
        \/ Scan \/ WatcherRestart \/ UNCHANGED <<streak, alerts>>
    BY DEF Next, vars, watcher, Proceeds, PostSucceeds, PostFails, PostAnswerLost, PostRunnerLogRefused,
           PostRunnerLogTimesOut, Record, PostRunnerLog, HandleRunnerLogLate, Finish, Tell, GateEnds,
           FallQuiet, Reclaim, Age, Dispatch, Crash, Boot
  <2> QED BY <2>1, <2>2, <2>3, <2>4, <2>5
<1> QED BY <1>1, <1>2, PTL DEF Spec
=============================================================================
