---------------------------- MODULE Notifications ----------------------------
(***************************************************************************)
(* Who is told how a task ended: the runner's own message on Discord       *)
(* (internal/notify, the handlers of cmd/pmrunner/runner_mode.go), and the *)
(* watcher, a process of its own that looks every minute whether the       *)
(* runner answers, whether a task is wedged and whether a note reached a   *)
(* terminal status without a message (internal/watcher, watcher_mode.go).  *)
(* The record both go by is a line in the note's Runner Log.  A message    *)
(* lives in a goroutine of its own, between its posts and its record.      *)
(***************************************************************************)
EXTENDS Naturals, FiniteSets

CONSTANTS Notes,                 \* task notes
          HealthAlertThreshold,  \* failed health checks before an alert
          MaxEpisodes,           \* bound: terminal statuses one note reaches
          MaxFaults,             \* bound: the faults below, together
          MaxRestarts            \* bound: restarts of the watcher

ASSUME NotificationsAssumption ==
  /\ HealthAlertThreshold \in Nat \ {0}
  /\ MaxEpisodes \in Nat \ {0} /\ MaxFaults \in Nat /\ MaxRestarts \in Nat

VARIABLES
  disk,      \* the notes in the vault clone, which the watcher reads as well
  pushed,    \* the notes at origin
  old,       \* whether a note's file was last written an idle timeout ago
  up,        \* whether the runner listens
  job,       \* what the runner does for a note
  quiet,     \* whether the gate's last_activity_at is an idle timeout back
  sends,     \* the messages on their way, of both processes
  late,      \* runner-log requests whose client has given up waiting
  cycle,     \* where the watch cycle is
  streak,    \* consecutiveFailures, counted no further than past the threshold
  ended,     \* history: how many terminal statuses the note was to get
  tried,     \* history: the terminal statuses a message about which was tried
  told,      \* history: how often each was told, 2 for more
  heard,     \* history: the notes some recorded message about got through
  alerts,    \* history: health alerts of this streak, 2 for more
  faults,    \* history: crashes, failed writes and lost answers so far
  restarts   \* history: restarts of the watcher so far

vault == <<disk, pushed, old>>
runner == <<up, job, quiet>>
watcher == <<cycle, streak, alerts, restarts>>
history == <<tried, told, heard>>
vars == <<vault, runner, watcher, history, sends, late, ended, faults>>

Episodes == Notes \X (1..MaxEpisodes)

\* "open" is any status that is not terminal; episode counts the terminal ones.
Note == [status : {"open", "terminal"}, episode : 0..MaxEpisodes,
         log : SUBSET {"notified", "notify_failed"}]

\* "health" and "stale" go to no note and leave no record.
Message == [by : {"runner", "watcher"}, what : {"status", "gate", "stale", "health"},
            note : Notes \cup {"none"}, episode : 0..MaxEpisodes,
            at : {"post", "retry", "record"}, event : {"none", "notified", "notify_failed"}]

Started(by, what, n, e) ==
  [by |-> by, what |-> what, note |-> n, episode |-> e, at |-> "post", event |-> "none"]

SendsBy(by) == {s \in sends : s.by = by}

Spend == faults < MaxFaults /\ faults' = faults + 1

Init ==
  /\ disk = [n \in Notes |-> [status |-> "open", episode |-> 0, log |-> {}]]
  /\ pushed = disk
  /\ old = [n \in Notes |-> FALSE]
  /\ up = TRUE
  /\ job = [n \in Notes |-> "session"]
  /\ quiet = [n \in Notes |-> FALSE]
  /\ sends = {} /\ late = {}
  /\ cycle = "asleep" /\ streak = 0 /\ alerts = 0
  /\ ended = [n \in Notes |-> 0]
  /\ tried = {} /\ told = [x \in Episodes |-> 0] /\ heard = {}
  /\ faults = 0 /\ restarts = 0
-----------------------------------------------------------------------------
\* WriteNote succeeds and takes along what an earlier one could not push, or it
\* returns an error: with its commit in the clone, or with nothing written.
WriteNote(n, new, how) ==
  /\ disk' = IF how = "nothing" THEN disk ELSE [disk EXCEPT ![n] = new]
  /\ pushed' = IF how = "pushed" THEN disk' ELSE pushed
  /\ old' = IF how = "nothing" THEN old ELSE [old EXCEPT ![n] = FALSE]
  /\ IF how = "pushed" THEN UNCHANGED faults ELSE Spend

Outcomes == {"pushed", "local", "nothing"}

AppendRunnerLog(n, event, how) ==
  WriteNote(n, [disk[n] EXCEPT !.log = @ \cup {event}], how)

\* fetch and reset --hard: only files that change are written.
Sync ==
  /\ disk' = pushed
  /\ old' = [n \in Notes |-> old[n] /\ disk[n] = pushed[n]]
  /\ UNCHANGED pushed

\* The runner writes the terminal status of a task whose session is over: a
\* merge-back or crash fallback whose write fails returns without a message, a
\* setup failure or a panic gets its message all the same.
Finish(n, how) ==
  /\ job[n] = "session" /\ ended[n] < MaxEpisodes
  /\ ended' = [ended EXCEPT ![n] = @ + 1]
  /\ WriteNote(n, [disk[n] EXCEPT !.status = "terminal", !.episode = ended'[n]], how)
  /\ \E j \in (IF how = "pushed" THEN {"done", "blocked"} ELSE {"idle", "blocked"}) :
       job' = [job EXCEPT ![n] = j]
  /\ UNCHANGED <<up, quiet, watcher, history, sends, late>>

\* OnTerminal or OnBlocked sends, and the merge gate of a done task may follow.
Tell(n) ==
  /\ job[n] \in {"done", "blocked"}
  /\ sends' = sends \cup {Started("runner", "status", n, ended[n])}
  /\ \E j \in (IF job[n] = "done" THEN {"idle", "gate"} ELSE {"idle"}) :
       job' = [job EXCEPT ![n] = j]
  /\ UNCHANGED <<vault, up, quiet, watcher, history, late, ended, faults>>

\* The gate is through: it merged, or says why not.
GateEnds(n) ==
  /\ job[n] = "gate"
  /\ job' = [job EXCEPT ![n] = "idle"]
  /\ quiet' = [quiet EXCEPT ![n] = FALSE]
  /\ \/ UNCHANGED sends
     \/ sends' = sends \cup {Started("runner", "gate", n, ended[n])}
  /\ UNCHANGED <<vault, up, watcher, history, late, ended, faults>>

\* Nothing stamps last_activity_at for an idle timeout.  The gate does that
\* once, as it begins; a session that long silent is killed by its watchdog.
FallQuiet(n) ==
  /\ job[n] = "gate" /\ ~quiet[n]
  /\ quiet' = [quiet EXCEPT ![n] = TRUE]
  /\ UNCHANGED <<vault, up, job, watcher, history, sends, late, ended, faults>>

\* A person sends the note round again; a dispatch pass syncs and claims it.
\* The lines of its Runner Log stay.
Reclaim(n) ==
  /\ up /\ job[n] = "idle" /\ ended[n] < MaxEpisodes
  /\ disk' = [pushed EXCEPT ![n].status = "open"]
  /\ pushed' = disk'
  /\ old' = [m \in Notes |-> m # n /\ old[m] /\ disk[m] = pushed[m]]
  /\ job' = [job EXCEPT ![n] = "session"]
  /\ UNCHANGED <<up, quiet, watcher, history, sends, late, ended, faults>>

\* A dispatch pass that claims nothing.
Dispatch ==
  /\ up /\ Sync
  /\ UNCHANGED <<runner, watcher, history, sends, late, ended, faults>>

\* The file gets old.  Bound on speed: what the runner still has to do about
\* a note it has just written takes it less than the idle timeout.
Age(n) ==
  /\ ~old[n]
  /\ job[n] \notin {"done", "blocked"}
  /\ \A s \in SendsBy("runner") : s.note # n
  /\ old' = [old EXCEPT ![n] = TRUE]
  /\ UNCHANGED <<disk, pushed, runner, watcher, history, sends, late, ended, faults>>
-----------------------------------------------------------------------------
\* A message with a record, one that is about a note.
Recorded(s) == s.what \in {"status", "gate"}

Tried(s) == IF Recorded(s) THEN tried \cup {<<s.note, s.episode>>} ELSE tried

Told(s) ==
  IF s.what = "status"
    THEN [told EXCEPT ![<<s.note, s.episode>>] = IF @ = 2 THEN 2 ELSE @ + 1] ELSE told

Delivered(s) ==
  /\ tried' = Tried(s) /\ told' = Told(s)
  /\ heard' = IF Recorded(s) THEN heard \cup {s.note} ELSE heard

Undelivered(s) == tried' = Tried(s) /\ UNCHANGED <<told, heard>>

Becomes(s, rest) == sends' = (sends \ {s}) \cup rest

\* What sendSync does once its posts are over.
Posted(s, event) ==
  Becomes(s, IF Recorded(s) THEN {[s EXCEPT !.at = "record", !.event = event]} ELSE {})

\* Mutant: the second failure is not looked at.
PostFailsUnseen(s) ==
  /\ s.at \in {"post", "retry"}
  /\ Undelivered(s)
  /\ IF s.at = "post" THEN Becomes(s, {[s EXCEPT !.at = "retry"]}) ELSE Posted(s, "notified")
  /\ UNCHANGED <<vault, runner, watcher, late, ended, faults>>

\* postDiscordAlert succeeds.
PostSucceeds(s) ==
  /\ s.at \in {"post", "retry"}
  /\ Delivered(s)
  /\ Posted(s, "notified")
  /\ UNCHANGED <<vault, runner, watcher, late, ended, faults>>

\* It fails: once is retried, twice is notify_failed.
PostFails(s) ==
  /\ s.at \in {"post", "retry"}
  /\ Undelivered(s)
  /\ IF s.at = "post" THEN Becomes(s, {[s EXCEPT !.at = "retry"]}) ELSE Posted(s, "notify_failed")
  /\ UNCHANGED <<vault, runner, watcher, late, ended, faults>>

\* Its answer gets lost after Discord has posted the message.
PostAnswerLost(s) ==
  /\ s.at \in {"post", "retry"}
  /\ Spend
  /\ Delivered(s)
  /\ IF s.at = "post" THEN Becomes(s, {[s EXCEPT !.at = "retry"]}) ELSE Posted(s, "notify_failed")
  /\ UNCHANGED <<vault, runner, watcher, late, ended>>

\* The runner records the outcome.  When that fails one more message says so.
Record(s, how) ==
  /\ s.at = "record" /\ s.by = "runner"
  /\ AppendRunnerLog(s.note, s.event, how)
  /\ Becomes(s, {})
  /\ UNCHANGED <<runner, watcher, history, late, ended>>

\* postRunnerLog: the watcher asks the runner to.
PostRunnerLog(s, how) ==
  /\ s.at = "record" /\ s.by = "watcher" /\ up
  /\ AppendRunnerLog(s.note, s.event, how)
  /\ Becomes(s, {})
  /\ UNCHANGED <<runner, watcher, history, late, ended>>

\* Nobody listens: the outcome is dropped.
PostRunnerLogRefused(s) ==
  /\ s.at = "record" /\ s.by = "watcher" /\ ~up
  /\ Becomes(s, {})
  /\ UNCHANGED <<vault, runner, watcher, history, late, ended, faults>>

\* The vault is locked for the ten seconds the watcher waits; handleRunnerLog
\* goes on regardless.
PostRunnerLogTimesOut(s) ==
  /\ s.at = "record" /\ s.by = "watcher" /\ up
  /\ late' = late \cup {[note |-> s.note, event |-> s.event]}
  /\ Becomes(s, {})
  /\ UNCHANGED <<vault, runner, watcher, history, ended, faults>>

\* handleRunnerLog appends its line after all.
HandleRunnerLogLate(r, how) ==
  /\ r \in late /\ up
  /\ AppendRunnerLog(r.note, r.event, how)
  /\ late' = late \ {r}
  /\ UNCHANGED <<runner, watcher, history, sends, ended>>
-----------------------------------------------------------------------------
\* Mutant: the count is not kept.
ObserveForgetful(ok) ==
  /\ streak' = 0
  /\ alerts' = IF ok THEN 0 ELSE IF HealthAlertThreshold = 1 /\ alerts < 2 THEN alerts + 1 ELSE alerts

\* healthAlertDebouncer.Observe: the alert comes with the failure that reaches
\* the threshold.
Observe(ok) ==
  IF ok THEN streak' = 0 /\ alerts' = 0
  ELSE /\ streak' = IF streak > HealthAlertThreshold THEN streak ELSE streak + 1
       /\ alerts' = IF streak + 1 = HealthAlertThreshold /\ alerts < 2 THEN alerts + 1 ELSE alerts

\* Mutant: the second tier is asked when the first one fails.
StaleIfDown(ok) == {n \in Notes : ~ok /\ quiet[n]}

\* CheckStatusTasks, asked only when the runner answers.
Stale(ok) == {n \in Notes : ok /\ quiet[n]}

\* The first two checks of a cycle.  The messages of the cycle before are over
\* by then: 15 + 15 + 10 + 15 seconds at most.
CheckHealth(ok) ==
  /\ cycle = "asleep" /\ SendsBy("watcher") = {}
  /\ IF ok = up THEN UNCHANGED faults ELSE up /\ Spend
  /\ Observe(ok)
  /\ sends' = sends
       \cup {Started("watcher", "stale", n, 0) : n \in Stale(ok)}
       \cup {Started("watcher", "health", "none", 0) : x \in {y \in {alerts'} : y > alerts}}
  /\ cycle' = "scan"
  /\ UNCHANGED <<vault, runner, restarts, history, late, ended>>

\* Mutants: the scan takes a note as soon as it is terminal, or only while the
\* runner is down.
UnnotifiedAtOnce == {n \in Notes : disk[n].status = "terminal" /\ disk[n].log = {}}
UnnotifiedIfDown == {n \in Notes : ~up /\ disk[n].status = "terminal" /\ disk[n].log = {} /\ old[n]}

\* ScanForUnnotified: terminal, without either line, and old.
Unnotified == {n \in Notes : disk[n].status = "terminal" /\ disk[n].log = {} /\ old[n]}

Scan ==
  /\ cycle = "scan"
  /\ sends' = sends \cup {Started("watcher", "status", n, disk[n].episode) : n \in Unnotified}
  /\ cycle' = "asleep"
  /\ UNCHANGED <<vault, runner, streak, alerts, restarts, history, late, ended, faults>>
-----------------------------------------------------------------------------
\* The runner stops: what its goroutines were about is gone.
Crash ==
  /\ up /\ Spend
  /\ up' = FALSE
  /\ job' = [n \in Notes |-> "idle"] /\ quiet' = [n \in Notes |-> FALSE]
  /\ sends' = SendsBy("watcher") /\ late' = {}
  /\ UNCHANGED <<vault, watcher, history, ended>>

\* Boot syncs the vault.
Boot ==
  /\ ~up /\ up' = TRUE
  /\ Sync
  /\ UNCHANGED <<job, quiet, watcher, history, sends, late, ended, faults>>

\* The watcher is restarted: its messages and its count are gone.
WatcherRestart ==
  /\ restarts < MaxRestarts /\ restarts' = restarts + 1
  /\ sends' = SendsBy("runner")
  /\ cycle' = "asleep" /\ streak' = 0 /\ alerts' = 0
  /\ UNCHANGED <<vault, runner, history, late, ended, faults>>
-----------------------------------------------------------------------------
\* A message gets on, whether its posts succeed or not.
Proceeds(s) ==
  \/ PostSucceeds(s) \/ PostFails(s)
  \/ PostRunnerLogRefused(s)
  \/ \E how \in Outcomes : Record(s, how) \/ PostRunnerLog(s, how)

Next ==
  \/ \E s \in sends : Proceeds(s) \/ PostAnswerLost(s) \/ PostRunnerLogTimesOut(s)
  \/ \E r \in late, how \in Outcomes : HandleRunnerLogLate(r, how)
  \/ \E n \in Notes :
       \/ \E how \in Outcomes : Finish(n, how)
       \/ Tell(n) \/ GateEnds(n) \/ FallQuiet(n) \/ Reclaim(n) \/ Age(n)
  \/ Dispatch
  \/ \E ok \in BOOLEAN : CheckHealth(ok)
  \/ Scan
  \/ Crash \/ Boot \/ WatcherRestart

Spec == Init /\ [][Next]_vars

\* What the two processes do unless something stops them.
WatcherSteps == CheckHealth(up) \/ Scan \/ \E s \in SendsBy("watcher") : Proceeds(s)
RunnerSteps == (\E n \in Notes : Tell(n)) \/ \E s \in SendsBy("runner") : Proceeds(s)

\* The watcher's loop and every message get on, a task that ended gets to its
\* message, files get old.  A session or a gate need not end, Discord need not
\* answer, and a runner that stopped need not come back.
FairSpec ==
  /\ Spec
  /\ WF_vars(WatcherSteps) /\ WF_vars(RunnerSteps)
  /\ \A n \in Notes : WF_vars(Age(n))
-----------------------------------------------------------------------------
TypeOK ==
  /\ disk \in [Notes -> Note] /\ pushed \in [Notes -> Note]
  /\ old \in [Notes -> BOOLEAN]
  /\ up \in BOOLEAN
  /\ job \in [Notes -> {"idle", "session", "done", "blocked", "gate"}]
  /\ quiet \in [Notes -> BOOLEAN]
  /\ sends \subseteq Message
  /\ late \subseteq [note : Notes, event : {"notified", "notify_failed"}]
  /\ cycle \in {"asleep", "scan"}
  /\ streak \in 0..HealthAlertThreshold + 1 /\ alerts \in 0..2
  /\ ended \in [Notes -> 0..MaxEpisodes]
  /\ tried \subseteq Episodes /\ told \in [Episodes -> 0..2]
  /\ faults \in 0..MaxFaults /\ restarts \in 0..MaxRestarts

\* A "notified" line is never a lie: a message about this note got through, on
\* the first attempt or the second, whoever sent and whoever recorded it.
NotifiedIsTrue ==
  \A n \in Notes : "notified" \in disk[n].log \cup pushed[n].log => n \in heard

\* The watcher never repeats what the runner has said, nor itself, unless
\* something failed in between: a crash, a write to the vault, an answer.
ToldTwiceOnlyAfterFault == faults + restarts = 0 => \A x \in Episodes : told[x] <= 1

\* A runner that stays down is reported whenever the watcher is restarted, and
\* "exactly once per failure streak" (watcher_mode.go:35), however long it lasts.
OutageIsReported == <>[]~up => <>[](alerts = 1)

\* "covering three gaps a dead runner daemon can hide" (watcher.go:2-5), the third: the
\* first terminal status of a note is told by somebody, whatever write,
\* message or process was lost, or else the vault has lost that status too.
FirstStatusIsTried ==
  \A n \in Notes :
    disk[n].status = "terminal" /\ disk[n].episode = 1
      ~> <<n, 1>> \in tried \/ disk[n].status = "open" \/ disk[n].episode # 1

\* The second gap: a gate that hangs, on a gh without a timeout say, is
\* reported by the only one who can, while it hangs.
WedgedGateIsReported ==
  \A n \in Notes :
    job[n] = "gate" /\ quiet[n]
      ~> job[n] # "gate" \/ \E s \in sends : s.what = "stale" /\ s.note = n
=============================================================================
