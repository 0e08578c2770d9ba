---------------------------- MODULE EngineSession ----------------------------
(***************************************************************************)
(* One invocation of an engine's CLI.  invokeEngine (internal/runner)      *)
(* starts a coding session in a process group of its own, reads its lines, *)
(* and a watchdog goroutine kills the group after too long a silence;      *)
(* runReviewPrompt collects the output of a reviewer and kills it after a  *)
(* timeout.  The engines of internal/engine read the lines and classify    *)
(* the exit.  The CLI's process may start others, which inherit its output *)
(* or not, and stay in its group or leave it.                              *)
(***************************************************************************)
EXTENDS Sequences, Naturals

CONSTANTS Invocations,  \* which of "coding" and "review" there are
          Descendants,  \* which of "child" and "detached" the CLI may start
          MaxLines      \* bound: lines printed

ASSUME SessionAssumption ==
  /\ Invocations \subseteq {"coding", "review"}
  /\ Descendants \subseteq {"child", "detached"}
  /\ MaxLines \in Nat

\* "limit": a line that tells of the usage limit.  "failure": one of pi's failed
\* responses.  "long": longer than the ten megabytes of the scanner's buffer.
Lines(e) == {"plain", "long"} \cup (IF e = "claude" THEN {"limit"} ELSE {"failure"})

VARIABLES
  invocation,  \* "coding" or "review"
  engine,      \* "claude" or "pi", which alone has a startup timeout
  alive,       \* the processes that live
  started,     \* those that were ever started
  holds,       \* the ones that hold the output open
  exit,        \* how the CLI's own process ended
  pipe,        \* lines printed and not handled
  printed,     \* history: every line the CLI's own process printed
  muttered,    \* whether its stderr reads like a usage limit
  at,          \* where the goroutine that called is
  seen,        \* RunState: the kinds of the lines parsed
  reads,       \* history: how many lines were handled
  idle,        \* the idle timer, or the review's timeout
  startup,     \* the startup timer
  dog,         \* the watchdog goroutine
  fired,       \* which of its two flags is set
  early,       \* history: how many lines were handled when it took a timer
  result       \* what the call returned

session == <<alive, started, holds, exit, printed, muttered>>
reader == <<at, seen, reads, result>>
watchdog == <<idle, startup, dog, fired, early>>
vars == <<invocation, engine, session, pipe, reader, watchdog>>

Group == {"leader", "child"}

Init ==
  /\ invocation \in Invocations /\ engine \in {"claude", "pi"}
  /\ alive = {"leader"} /\ started = {"leader"} /\ holds = {"leader"} /\ exit = "none"
  /\ pipe = <<>> /\ printed = <<>> /\ muttered = FALSE
  /\ at = IF invocation = "coding" THEN "scanning" ELSE "waiting"
  /\ seen = {} /\ reads = 0 /\ result = "none"
  /\ idle = "armed"
  /\ startup = IF invocation = "coding" /\ engine = "pi" THEN "armed" ELSE "off"
  /\ dog = IF invocation = "coding" THEN "waiting" ELSE "done"
  /\ fired = "none" /\ early = 0
-----------------------------------------------------------------------------
\* The CLI's own process prints a line, or a descendant does to its output.
PrintLine(l) ==
  /\ "leader" \in alive /\ Len(printed) < MaxLines
  /\ printed' = Append(printed, l)
  /\ pipe' = Append(pipe, l)
  /\ UNCHANGED <<invocation, engine, alive, started, holds, exit, muttered, reader, watchdog>>

PrintDescendant(p) ==
  /\ p \in holds \ {"leader"} /\ Len(pipe) + reads < MaxLines
  /\ pipe' = Append(pipe, "plain")
  /\ UNCHANGED <<invocation, engine, session, reader, watchdog>>

\* Its stderr gets words like "usage limit".
Mutter ==
  /\ "leader" \in alive /\ ~muttered
  /\ muttered' = TRUE
  /\ UNCHANGED <<invocation, engine, alive, started, holds, exit, printed, pipe, reader, watchdog>>

\* It starts a process, with its output or with that redirected.
StartProcess(p) ==
  /\ "leader" \in alive /\ p \notin started
  /\ started' = started \cup {p} /\ alive' = alive \cup {p}
  /\ holds' \in {holds, holds \cup {p}}
  /\ UNCHANGED <<invocation, engine, exit, printed, muttered, pipe, reader, watchdog>>

Dies(killed) ==
  /\ alive' = alive \ killed /\ holds' = holds \ killed
  /\ UNCHANGED <<started, printed, muttered>>

\* A process ends by itself.
ExitProcess(p, e) ==
  /\ p \in alive
  /\ Dies({p})
  /\ exit' = IF p = "leader" THEN e ELSE exit
  /\ UNCHANGED <<invocation, engine, pipe, reader, watchdog>>
-----------------------------------------------------------------------------
\* scanner.Scan returns with a line it can hold.
Scan ==
  /\ at = "scanning" /\ pipe # <<>> /\ Head(pipe) # "long"
  /\ at' = "handling"
  /\ UNCHANGED <<invocation, engine, session, pipe, seen, reads, result, watchdog>>

\* Mutant: the first line does not stop the startup timer.
HandleLineStartupArmed ==
  /\ at = "handling"
  /\ at' = "scanning" /\ pipe' = Tail(pipe)
  /\ idle' = "armed"
  /\ seen' = seen \cup {Head(pipe)} /\ reads' = reads + 1
  /\ UNCHANGED <<invocation, engine, session, result, startup, dog, fired, early>>

\* The first line stops the startup timer, every line resets the idle timer; a
\* value the timer has sent and nobody has taken is dropped.
HandleLine ==
  /\ at = "handling"
  /\ at' = "scanning" /\ pipe' = Tail(pipe)
  /\ startup' = "off" /\ idle' = "armed"
  /\ seen' = seen \cup {Head(pipe)} /\ reads' = reads + 1
  /\ UNCHANGED <<invocation, engine, session, result, dog, fired, early>>

\* It ends at the end of the output, or at a line it cannot hold.
ScanEnds ==
  /\ at = "scanning"
  /\ \/ pipe = <<>> /\ holds = {}
     \/ pipe # <<>> /\ Head(pipe) = "long"
  /\ at' = "waiting"
  /\ UNCHANGED <<invocation, engine, session, pipe, seen, reads, result, watchdog>>

\* cmd.Wait reaps the process, and waits for the end of what it copies, too.
WaitReturns ==
  /\ invocation = "coding" /\ at = "waiting" /\ holds = {}
  /\ at' = "waited"
  /\ UNCHANGED <<invocation, engine, session, pipe, seen, reads, result, watchdog>>

CloseKillDone ==
  /\ at = "waited"
  /\ at' = "closed"
  /\ UNCHANGED <<invocation, engine, session, pipe, seen, reads, result, watchdog>>

\* ClassifyExit of claude and of pi.
ClassifyExit ==
  CASE engine = "claude" /\ "limit" \in seen -> "limit"
    [] engine = "claude" /\ "limit" \notin seen /\ exit # "ok" /\ muttered -> "limit"
    [] engine = "pi" /\ "failure" \in seen -> "failed"
    [] OTHER -> IF exit = "ok" THEN "ok" ELSE "error"

\* Mutant: the watchdog's flags are looked at before the usage limit.
OutcomeFlagsFirst == IF fired # "none" THEN fired ELSE ClassifyExit

\* A usage limit the CLI told of wins over the watchdog that killed it then.
Outcome == IF "limit" \notin seen /\ fired # "none" THEN fired ELSE ClassifyExit

\* invokeEngine returns; its timers are stopped.
Return ==
  /\ at = "closed"
  /\ at' = "returned" /\ result' = Outcome
  /\ idle' = "off" /\ startup' = "off"
  /\ UNCHANGED <<invocation, engine, session, pipe, seen, reads, dog, fired, early>>
-----------------------------------------------------------------------------
IdleFires ==
  /\ idle = "armed"
  /\ idle' = "sent"
  /\ UNCHANGED <<invocation, engine, session, pipe, reader, startup, dog, fired, early>>

StartupFires ==
  /\ startup = "armed"
  /\ startup' = "sent"
  /\ UNCHANGED <<invocation, engine, session, pipe, reader, idle, dog, fired, early>>

\* The watchdog's select takes one of the two, once.
Takes(which) ==
  /\ dog = "waiting"
  /\ dog' = which /\ early' = reads
  /\ UNCHANGED <<invocation, engine, session, pipe, reader, fired>>

TakeIdle == idle = "sent" /\ idle' = "off" /\ UNCHANGED startup /\ Takes("idle")
TakeStartup == startup = "sent" /\ startup' = "off" /\ UNCHANGED idle /\ Takes("startup")

TakeKillDone ==
  /\ dog = "waiting" /\ at \in {"closed", "returned"}
  /\ dog' = "done"
  /\ UNCHANGED <<invocation, engine, session, pipe, reader, idle, startup, fired, early>>

\* It sets the flag of the timer it took before it kills.
SetFlag ==
  /\ dog \in {"idle", "startup"}
  /\ fired' = dog /\ dog' = "biting"
  /\ UNCHANGED <<invocation, engine, session, pipe, reader, idle, startup, early>>

\* Mutant: the signal goes to the CLI's own process.
KillGroupLeaderOnly ==
  /\ dog = "biting"
  /\ Dies({"leader"})
  /\ exit' = IF "leader" \in alive THEN "killed" ELSE exit
  /\ dog' = "done"
  /\ UNCHANGED <<invocation, engine, pipe, reader, idle, startup, fired, early>>

\* Mutant: the kill does not wait for the flag.
KillGroupUnflagged ==
  /\ dog \in {"idle", "startup", "biting"}
  /\ Dies(Group)
  /\ exit' = IF "leader" \in alive THEN "killed" ELSE exit
  /\ dog' = IF dog = "biting" THEN "done" ELSE dog
  /\ UNCHANGED <<invocation, engine, pipe, reader, idle, startup, fired, early>>

\* SIGKILL to the group.
KillGroup ==
  /\ dog = "biting"
  /\ Dies(Group)
  /\ exit' = IF "leader" \in alive THEN "killed" ELSE exit
  /\ dog' = "done"
  /\ UNCHANGED <<invocation, engine, pipe, reader, idle, startup, fired, early>>
-----------------------------------------------------------------------------
\* Mutant: the review's timeout is not acted on.
ReviewTimesOutIdly ==
  /\ invocation = "review" /\ at = "waiting" /\ idle = "sent"
  /\ idle' = "off"
  /\ UNCHANGED <<invocation, engine, session, pipe, reader, startup, dog, fired, early>>

\* runReviewPrompt: the timeout kills the reviewer, but not its group.
ReviewTimesOut ==
  /\ invocation = "review" /\ at = "waiting" /\ idle = "sent"
  /\ Dies({"leader"})
  /\ exit' = IF "leader" \in alive THEN "killed" ELSE exit
  /\ idle' = "off"
  /\ at' = "killed"
  /\ UNCHANGED <<invocation, engine, pipe, seen, reads, result, startup, dog, fired, early>>

\* waitDone: the process is reaped and the copying of its output has ended.
ReviewReturns ==
  /\ invocation = "review" /\ at \in {"waiting", "killed"} /\ holds = {}
  /\ result' = IF at = "killed" THEN "timeout" ELSE IF exit = "ok" THEN "ok" ELSE "error"
  /\ at' = "returned"
  /\ UNCHANGED <<invocation, engine, session, pipe, seen, reads, watchdog>>
-----------------------------------------------------------------------------
\* The runner's goroutines and timers.
Runner ==
  \/ Scan \/ HandleLine \/ ScanEnds \/ WaitReturns \/ CloseKillDone \/ Return
  \/ TakeIdle \/ TakeStartup \/ TakeKillDone \/ SetFlag \/ KillGroup
  \/ ReviewTimesOut \/ ReviewReturns

Processes ==
  \/ \E l \in Lines(engine) : PrintLine(l)
  \/ \E p \in Descendants : PrintDescendant(p) \/ StartProcess(p)
  \/ Mutter
  \/ \E p \in alive, e \in {"ok", "error"} : ExitProcess(p, e)

Next == Runner \/ IdleFires \/ StartupFires \/ Processes

Spec == Init /\ [][Next]_vars

\* Goroutines are scheduled and timers expire; no process need ever end.
FairSpec == Spec /\ WF_vars(Runner) /\ WF_vars(IdleFires) /\ WF_vars(StartupFires)
-----------------------------------------------------------------------------
Kinds == {"plain", "long", "limit", "failure"}
Processed == {"leader"} \cup Descendants

TypeOK ==
  /\ invocation \in Invocations /\ engine \in {"claude", "pi"}
  /\ alive \subseteq started /\ started \subseteq Processed /\ holds \subseteq alive
  /\ exit \in {"none", "ok", "error", "killed"}
  /\ pipe \in Seq(Kinds) /\ printed \in Seq(Kinds) /\ muttered \in BOOLEAN
  /\ at \in {"scanning", "handling", "waiting", "waited", "closed", "killed", "returned"}
  /\ seen \subseteq Kinds /\ reads \in Nat /\ early \in Nat
  /\ idle \in {"armed", "sent", "off"} /\ startup \in {"armed", "sent", "off"}
  /\ dog \in {"waiting", "idle", "startup", "biting", "done"} /\ fired \in {"none", "idle", "startup"}
  /\ result \in {"none", "ok", "error", "failed", "limit", "idle", "startup", "timeout"}

\* "killing the whole process group ... so a Bash-tool-spawned child the engine's CLI
\* started can't survive as an orphan" (runner.go:961-963): once the watchdog
\* has killed, nothing of the group lives, whichever of the two had ended
\* before, and nothing starts again.
WatchdogLeavesNoOrphan == dog = "done" /\ fired # "none" => alive \cap Group = {}

\* "the engine's CLI can report the limit and then hang ... that real signal must win"
\* (runner.go:1074-1076): a usage limit claude reported is what the call
\* returns, also when the line was read only after the kill; only a line too
\* long to be read can hide it.  A session of pi is never taken for one.
ReportedLimitWins ==
  invocation = "coding" /\ at = "returned" =>
    /\ (\E i \in 1..Len(printed) : printed[i] = "limit" /\ \A j \in 1..i : printed[j] # "long")
         => result = "limit"
    /\ result = "limit" => engine = "claude"

\* "Set before killing, not after ... so ordering it first here means it's never
\* observed as still false" (runner.go:1020-1023): a CLI the watchdog killed is
\* never taken for one that crashed, or for one whose stderr alone told of a
\* limit, whenever the reader, Wait and the watchdog get to run; the call
\* returns the timeout, or the limit read from the output.
KillIsReported ==
  invocation = "coding" /\ at = "returned" /\ exit = "killed" =>
    \/ result \in {"idle", "startup"}
    \/ result = "limit" /\ "limit" \in seen

\* The startup timer is for a CLI that shows nothing: the watchdog takes it only
\* while the reader has handled no line, so a later silence is never reported as
\* a hang at startup.  It does not say that nothing was printed: a line may be
\* printed or already scanned, and not handled, when the watchdog takes the
\* timer, and more may follow before it kills.
StartupTakenBeforeFirstLine == fired = "startup" => early = 0

\* A session that falls silent is over some day, though its CLI hangs, and
\* though it has left a process of its group behind that keeps the output
\* open; only a process that left the group can hold invokeEngine up for good.
\* runReviewPrompt kills no group, so any process holds it up.
SilentSessionEnds ==
  \/ <>(at = "returned")
  \/ <>[](holds \cap (IF invocation = "coding" THEN {"detached"} ELSE {"child", "detached"}) # {})
=============================================================================
