------------------------ MODULE EngineSession_proofs ------------------------
(***************************************************************************)
(* What is proved of EngineSession for any descendants and any number of   *)
(* lines: the types, and the four safety properties session_runs checks.   *)
(***************************************************************************)
EXTENDS EngineSession, SequenceTheorems, TLAPS

\* What the engines write and what the output holds.
Written ==
  /\ pipe \in Seq(Lines(engine)) /\ printed \in Seq(Lines(engine))
  /\ seen \subseteq Lines(engine)
  /\ reads \in Nat /\ early \in Nat
  /\ at = "handling" => pipe # <<>>

\* Who lives and who holds the output open.
Living ==
  /\ invocation \in Invocations /\ engine \in {"claude", "pi"}
  /\ alive \subseteq started /\ started \subseteq Processed /\ holds \subseteq alive
  /\ exit \in {"none", "ok", "error", "killed"}
  /\ "leader" \in alive => "leader" \in holds

\* Where the goroutines and the timers are.
Places ==
  /\ at \in {"scanning", "handling", "waiting", "waited", "closed", "killed", "returned"}
  /\ idle \in {"armed", "sent", "off"} /\ startup \in {"armed", "sent", "off"}
  /\ dog \in {"waiting", "idle", "startup", "biting", "done"} /\ fired \in {"none", "idle", "startup"}
  /\ result \in {"none", "ok", "error", "failed", "limit", "idle", "startup", "timeout"}

\* The watchdog has fired at most once, kills what it fired at, and nobody else
\* kills the process of a coding session.
DogInv ==
  /\ dog \in {"waiting", "idle", "startup"} => fired = "none"
  /\ dog = "biting" => fired # "none"
  /\ invocation = "coding" /\ exit = "killed" => fired # "none"
  /\ dog = "done" /\ fired # "none" => alive \cap Group = {}

\* The startup timer is off once a line was handled.
StartupInv ==
  /\ startup # "off" => reads = 0
  /\ dog = "startup" => early = 0
  /\ fired = "startup" => early = 0

\* Every kind of line is one of Kinds, and a plain one is written by both engines.
LEMMA LineKinds ==
  /\ \A e : Lines(e) \subseteq Kinds /\ "plain" \in Lines(e)
  /\ "limit" \notin Lines("pi")
BY DEF Lines, Kinds

\* The initial state satisfies all of these.
LEMMA TypeInit == Init => Written /\ Living /\ Places /\ DogInv /\ StartupInv
<1> SUFFICES ASSUME Init PROVE Written /\ Living /\ Places /\ DogInv /\ StartupInv
  OBVIOUS
<1>1. Written
  BY DEF Init, Written
<1>2. Living
  BY DEF Init, Living, Processed
<1>3. /\ at \in {"scanning", "waiting"} /\ idle = "armed" /\ startup \in {"armed", "off"}
      /\ dog \in {"waiting", "done"} /\ fired = "none" /\ result = "none" /\ exit = "none"
      /\ reads = 0 /\ early = 0
  BY DEF Init
<1> QED BY <1>1, <1>2, <1>3 DEF Places, DogInv, StartupInv

\* The processes keep to their lines, and only the living hold anything.
LEMMA WrittenStep ==
  ASSUME Written, [Next]_vars
  PROVE  Written'
<1> USE DEF Written
<1>1. ASSUME NEW l \in Lines(engine), PrintLine(l) PROVE Written'
  <2>1. /\ Append(printed, l) \in Seq(Lines(engine)) /\ Append(pipe, l) \in Seq(Lines(engine))
        /\ Append(pipe, l) # <<>>
    BY AppendProperties
  <2> QED BY <1>1, <2>1 DEF PrintLine, reader, watchdog
<1>2. ASSUME NEW p, PrintDescendant(p) PROVE Written'
  <2>1. Append(pipe, "plain") \in Seq(Lines(engine)) /\ Append(pipe, "plain") # <<>>
    BY AppendProperties, LineKinds
  <2> QED BY <1>2, <2>1 DEF PrintDescendant, session, reader, watchdog
<1>3. CASE Mutter \/ (\E p : StartProcess(p)) \/ (\E p, e : ExitProcess(p, e))
  BY <1>3 DEF Mutter, StartProcess, ExitProcess, Dies, reader, watchdog
<1>4. CASE HandleLine
  <2>1. Tail(pipe) \in Seq(Lines(engine)) /\ Head(pipe) \in Lines(engine)
    BY <1>4, HeadTailProperties DEF HandleLine
  <2> QED BY <1>4, <2>1 DEF HandleLine, session
<1>5. CASE Scan \/ ScanEnds \/ WaitReturns \/ CloseKillDone \/ Return
  BY <1>5 DEF Scan, ScanEnds, WaitReturns, CloseKillDone, Return, session, watchdog
<1>6. CASE TakeIdle \/ TakeStartup \/ TakeKillDone \/ SetFlag \/ KillGroup
  BY <1>6 DEF TakeIdle, TakeStartup, TakeKillDone, SetFlag, KillGroup, Takes, Dies, session, reader
<1>7. CASE ReviewTimesOut \/ ReviewReturns \/ IdleFires \/ StartupFires
  BY <1>7 DEF ReviewTimesOut, ReviewReturns, IdleFires, StartupFires, Dies, session, reader, watchdog
<1>8. CASE UNCHANGED vars
  BY <1>8 DEF vars, session, reader, watchdog
<1> QED BY <1>1, <1>2, <1>3, <1>4, <1>5, <1>6, <1>7, <1>8 DEF Next, Runner, Processes

\* Nothing of a process outlives it.
LEMMA LivingStep ==
  ASSUME Living, [Next]_vars
  PROVE  Living'
<1> USE DEF Living
<1>1. CASE (\E l : PrintLine(l)) \/ (\E p : PrintDescendant(p)) \/ Mutter
  BY <1>1 DEF PrintLine, PrintDescendant, Mutter, session
<1>2. ASSUME NEW p \in Descendants, StartProcess(p) PROVE Living'
  BY <1>2 DEF StartProcess, Processed
<1>3. ASSUME NEW p \in alive, NEW e \in {"ok", "error"}, ExitProcess(p, e) PROVE Living'
  BY <1>3 DEF ExitProcess, Dies
<1>4. CASE KillGroup \/ ReviewTimesOut
  BY <1>4 DEF KillGroup, ReviewTimesOut, Dies, Group
<1>5. CASE Scan \/ HandleLine \/ ScanEnds \/ WaitReturns \/ CloseKillDone \/ Return
  BY <1>5 DEF Scan, HandleLine, ScanEnds, WaitReturns, CloseKillDone, Return, session
<1>6. CASE TakeIdle \/ TakeStartup \/ TakeKillDone \/ SetFlag \/ ReviewReturns \/ IdleFires \/ StartupFires
  BY <1>6 DEF TakeIdle, TakeStartup, TakeKillDone, SetFlag, ReviewReturns, IdleFires, StartupFires, Takes, session
<1>7. CASE UNCHANGED vars
  BY <1>7 DEF vars, session
<1> QED BY <1>1, <1>2, <1>3, <1>4, <1>5, <1>6, <1>7 DEF Next, Runner, Processes

\* An invocation ends in one of the ways the caller tells apart.
LEMMA OutcomeKinds ==
  ASSUME Living, Places
  PROVE  /\ Outcome \in {"ok", "error", "failed", "limit", "idle", "startup"}
         /\ "limit" \in seen /\ engine = "claude" => Outcome = "limit"
         /\ Outcome = "limit" => engine = "claude"
BY DEF Outcome, ClassifyExit, Living, Places

\* The goroutines and timers stay in their places.
LEMMA PlacesStep ==
  ASSUME Living, Places, [Next]_vars
  PROVE  Places'
<1>1. CASE Processes
  <2>1. UNCHANGED <<reader, watchdog>>
    BY <1>1 DEF Processes, PrintLine, PrintDescendant, Mutter, StartProcess, ExitProcess
  <2> QED BY <2>1 DEF Places, reader, watchdog
<1>2. CASE Scan \/ HandleLine \/ ScanEnds \/ WaitReturns \/ CloseKillDone
  BY <1>2 DEF Scan, HandleLine, ScanEnds, WaitReturns, CloseKillDone, Places, watchdog
<1>3. CASE Return
  BY <1>3, OutcomeKinds DEF Return, Places
<1>4. CASE TakeIdle \/ TakeStartup \/ TakeKillDone \/ SetFlag \/ KillGroup \/ IdleFires \/ StartupFires
  BY <1>4 DEF TakeIdle, TakeStartup, TakeKillDone, SetFlag, KillGroup, IdleFires, StartupFires, Takes, Places, reader
<1>5. CASE ReviewTimesOut \/ ReviewReturns
  BY <1>5 DEF ReviewTimesOut, ReviewReturns, Places, watchdog
<1>6. CASE UNCHANGED vars
  BY <1>6 DEF vars, Places, reader, watchdog
<1> QED BY <1>1, <1>2, <1>3, <1>4, <1>5, <1>6 DEF Next, Runner

\* Once the group is dead it stays so, as only its leader starts processes.
LEMMA DogStep ==
  ASSUME Living, DogInv, [Next]_vars
  PROVE  DogInv'
<1> USE DEF DogInv, Group
<1>1. CASE (\E l : PrintLine(l)) \/ (\E p : PrintDescendant(p)) \/ Mutter
  BY <1>1 DEF PrintLine, PrintDescendant, Mutter, session, watchdog
<1>2. ASSUME NEW p, StartProcess(p) PROVE DogInv'
  BY <1>2 DEF StartProcess, watchdog
<1>3. ASSUME NEW p, NEW e \in {"ok", "error"}, ExitProcess(p, e) PROVE DogInv'
  BY <1>3 DEF ExitProcess, Dies, watchdog
<1>4. CASE Scan \/ HandleLine \/ ScanEnds \/ WaitReturns \/ CloseKillDone \/ Return
  BY <1>4 DEF Scan, HandleLine, ScanEnds, WaitReturns, CloseKillDone, Return, session, watchdog
<1>5. CASE TakeIdle \/ TakeStartup \/ TakeKillDone \/ SetFlag
  BY <1>5 DEF TakeIdle, TakeStartup, TakeKillDone, SetFlag, Takes, session
<1>6. CASE KillGroup
  BY <1>6 DEF KillGroup, Dies
<1>7. CASE ReviewTimesOut \/ ReviewReturns \/ IdleFires \/ StartupFires
  BY <1>7 DEF ReviewTimesOut, ReviewReturns, IdleFires, StartupFires, Dies, session, watchdog
<1>8. CASE UNCHANGED vars
  BY <1>8 DEF vars, session, watchdog
<1> QED BY <1>1, <1>2, <1>3, <1>4, <1>5, <1>6, <1>7, <1>8 DEF Next, Runner, Processes

\* The first line read turns the startup timer off, for good.
LEMMA StartupStep ==
  ASSUME DogInv, StartupInv, [Next]_vars
  PROVE  StartupInv'
<1> USE DEF StartupInv
<1>0. dog = "waiting" => fired = "none"
  BY DEF DogInv
<1>1. CASE Processes
  BY <1>1 DEF Processes, PrintLine, PrintDescendant, Mutter, StartProcess, ExitProcess, reader, watchdog
<1>2. CASE Scan \/ HandleLine \/ ScanEnds \/ WaitReturns \/ CloseKillDone \/ Return
  BY <1>2 DEF Scan, HandleLine, ScanEnds, WaitReturns, CloseKillDone, Return, watchdog
<1>3. CASE TakeIdle \/ TakeKillDone \/ KillGroup
  BY <1>0, <1>3 DEF TakeIdle, TakeKillDone, KillGroup, Takes, reader
<1>6. CASE TakeStartup
  BY <1>0, <1>6 DEF TakeStartup, Takes, reader
<1>7. CASE SetFlag
  BY <1>7 DEF SetFlag, reader
<1>4. CASE IdleFires \/ StartupFires \/ ReviewTimesOut \/ ReviewReturns
  BY <1>4 DEF IdleFires, StartupFires, ReviewTimesOut, ReviewReturns, reader, watchdog
<1>5. CASE UNCHANGED vars
  BY <1>5 DEF vars, reader, watchdog
<1> QED BY <1>1, <1>2, <1>3, <1>4, <1>5, <1>6, <1>7 DEF Next, Runner
-----------------------------------------------------------------------------
\* The CLI has told of its limit in a line that can be read: none before it, of
\* those it printed or of those the output still holds, is too long.
Told == \E i \in 1..Len(printed) : printed[i] = "limit" /\ \A j \in 1..i : printed[j] # "long"
Readable == \E i \in 1..Len(pipe) : pipe[i] = "limit" /\ \A j \in 1..i : pipe[j] # "long"

HasLong(lines) == \E i \in 1..Len(lines) : lines[i] = "long"

\* Such a line has been read, or can be and the scan goes on.  The scan ends only
\* when the CLI's own process is dead or its next line is too long.
LimitInv ==
  /\ HasLong(pipe) => HasLong(printed)
  /\ Told => "limit" \in seen \/ Readable
  /\ at = "handling" => pipe # <<>> /\ Head(pipe) # "long"
  /\ invocation = "coding" /\ at \notin {"scanning", "handling"} =>
       /\ "leader" \notin alive \/ (pipe # <<>> /\ Head(pipe) = "long")
       /\ Told => "limit" \in seen
  /\ invocation = "coding" /\ at = "returned" =>
       /\ "limit" \in seen => result = "limit"
       /\ result = "limit" => engine = "claude"

\* A line printed behind all others is told or readable only with no long one before.
LEMMA PrintedLast ==
  ASSUME Written, NEW l \in Lines(engine)
  PROVE  /\ HasLong(Append(pipe, l)) => HasLong(pipe) \/ l = "long"
         /\ HasLong(printed) \/ l = "long" => HasLong(Append(printed, l))
         /\ Readable => \E i \in 1..Len(Append(pipe, l)) :
              Append(pipe, l)[i] = "limit" /\ \A j \in 1..i : Append(pipe, l)[j] # "long"
         /\ l = "limit" /\ ~HasLong(pipe) => \E i \in 1..Len(Append(pipe, l)) :
              Append(pipe, l)[i] = "limit" /\ \A j \in 1..i : Append(pipe, l)[j] # "long"
         /\ (\E i \in 1..Len(Append(printed, l)) :
              Append(printed, l)[i] = "limit" /\ \A j \in 1..i : Append(printed, l)[j] # "long")
            => Told \/ (l = "limit" /\ ~HasLong(printed))
         /\ pipe # <<>> => Append(pipe, l) # <<>> /\ Head(Append(pipe, l)) = Head(pipe)
<1>1. /\ Len(Append(pipe, l)) = Len(pipe) + 1 /\ Append(pipe, l)[Len(pipe) + 1] = l
      /\ \A i \in 1..Len(pipe) : Append(pipe, l)[i] = pipe[i]
      /\ Len(pipe) \in Nat
  BY AppendProperties DEF Written
<1>2. /\ Len(Append(printed, l)) = Len(printed) + 1 /\ Append(printed, l)[Len(printed) + 1] = l
      /\ \A i \in 1..Len(printed) : Append(printed, l)[i] = printed[i]
      /\ Len(printed) \in Nat
  BY AppendProperties DEF Written
<1>3. HasLong(Append(pipe, l)) => HasLong(pipe) \/ l = "long"
  BY <1>1 DEF HasLong
<1>4. HasLong(printed) \/ l = "long" => HasLong(Append(printed, l))
  BY <1>2 DEF HasLong
<1>5. Readable => \E i \in 1..Len(Append(pipe, l)) :
        Append(pipe, l)[i] = "limit" /\ \A j \in 1..i : Append(pipe, l)[j] # "long"
  BY <1>1 DEF Readable
<1>6. l = "limit" /\ ~HasLong(pipe) => \E i \in 1..Len(Append(pipe, l)) :
        Append(pipe, l)[i] = "limit" /\ \A j \in 1..i : Append(pipe, l)[j] # "long"
  <2> SUFFICES ASSUME l = "limit", ~HasLong(pipe)
               PROVE  \A j \in 1..(Len(pipe) + 1) : Append(pipe, l)[j] # "long"
    BY <1>1
  <2> QED BY <1>1 DEF HasLong
<1>7. (\E i \in 1..Len(Append(printed, l)) :
        Append(printed, l)[i] = "limit" /\ \A j \in 1..i : Append(printed, l)[j] # "long")
      => Told \/ (l = "limit" /\ ~HasLong(printed))
  BY <1>2 DEF Told, HasLong
<1>8. pipe # <<>> => Append(pipe, l) # <<>> /\ Head(Append(pipe, l)) = Head(pipe)
  BY <1>1, AppendProperties DEF Written
<1> QED BY <1>3, <1>4, <1>5, <1>6, <1>7, <1>8

\* A line that has been read is no longer in the output, and was not too long.
LEMMA ReadFirst ==
  ASSUME Written, pipe # <<>>, Head(pipe) # "long"
  PROVE  /\ HasLong(Tail(pipe)) => HasLong(pipe)
         /\ Readable => Head(pipe) = "limit" \/ \E i \in 1..Len(Tail(pipe)) :
              Tail(pipe)[i] = "limit" /\ \A j \in 1..i : Tail(pipe)[j] # "long"
<1>1. /\ Len(Tail(pipe)) = Len(pipe) - 1 /\ Head(pipe) = pipe[1] /\ Len(pipe) \in Nat \ {0}
      /\ \A i \in 1..Len(Tail(pipe)) : Tail(pipe)[i] = pipe[i + 1]
  BY HeadTailProperties, EmptySeq DEF Written
<1>2. HasLong(Tail(pipe)) => HasLong(pipe)
  BY <1>1 DEF HasLong
<1>3. ASSUME Readable, Head(pipe) # "limit"
      PROVE  \E i \in 1..Len(Tail(pipe)) : Tail(pipe)[i] = "limit" /\ \A j \in 1..i : Tail(pipe)[j] # "long"
  <2>1. PICK i \in 1..Len(pipe) : pipe[i] = "limit" /\ \A j \in 1..i : pipe[j] # "long"
    BY <1>3 DEF Readable
  <2>2. i # 1 /\ i - 1 \in 1..Len(Tail(pipe)) /\ Tail(pipe)[i - 1] = pipe[i]
    BY <1>1, <1>3, <2>1
  <2>3. \A j \in 1..(i - 1) : Tail(pipe)[j] # "long"
    BY <1>1, <2>1, <2>2
  <2> QED BY <2>1, <2>2, <2>3
<1> QED BY <1>2, <1>3

\* The strengthening about limits is inductive.
LEMMA LimitStep ==
  ASSUME Written, Living, Places, LimitInv, [Next]_vars
  PROVE  LimitInv'
<1> USE DEF LimitInv
<1>0. UNCHANGED <<printed, pipe>> => /\ UNCHANGED <<Told, Readable>>
                                   /\ UNCHANGED <<HasLong(pipe), HasLong(printed)>>
  BY DEF Told, Readable, HasLong
<1>1. ASSUME NEW l \in Lines(engine), PrintLine(l) PROVE LimitInv'
  <2>1. /\ "leader" \in alive /\ printed' = Append(printed, l) /\ pipe' = Append(pipe, l)
        /\ UNCHANGED <<invocation, engine, alive, at, seen, result>>
    BY <1>1 DEF PrintLine, reader
  <2>2. (HasLong(pipe) => HasLong(printed))'
    BY <2>1, PrintedLast DEF HasLong
  <2>3. Told' => Told \/ (l = "limit" /\ ~HasLong(printed))
    BY <2>1, PrintedLast DEF Told
  <2>4. Readable \/ (l = "limit" /\ ~HasLong(pipe)) => Readable'
    BY <2>1, PrintedLast DEF Readable
  <2>5. invocation = "coding" /\ at \notin {"scanning", "handling"} /\ "leader" \in alive => HasLong(printed)
    <3> SUFFICES ASSUME invocation = "coding", at \notin {"scanning", "handling"} PROVE HasLong(pipe)
      OBVIOUS
    <3> QED BY <2>1, EmptySeq, HeadTailProperties DEF HasLong, Written
  <2>6. pipe # <<>> => pipe' # <<>> /\ Head(pipe') = Head(pipe)
    BY <2>1, PrintedLast
  <2> QED BY <2>1, <2>2, <2>3, <2>4, <2>5, <2>6
<1>2. ASSUME NEW p, PrintDescendant(p) PROVE LimitInv'
  <2>1. /\ pipe' = Append(pipe, "plain")
        /\ UNCHANGED <<invocation, engine, printed, alive, at, seen, result>>
    BY <1>2 DEF PrintDescendant, session, reader
  <2>2. (HasLong(pipe) => HasLong(printed))'
    BY <2>1, PrintedLast, LineKinds DEF HasLong
  <2>3. Told' = Told
    BY <2>1 DEF Told
  <2>4. Readable => Readable'
    BY <2>1, PrintedLast, LineKinds DEF Readable
  <2>5. pipe # <<>> => pipe' # <<>> /\ Head(pipe') = Head(pipe)
    BY <2>1, PrintedLast, LineKinds
  <2> QED BY <2>1, <2>2, <2>3, <2>4, <2>5
<1>3. CASE Mutter
  BY <1>0, <1>3 DEF Mutter, reader
<1>4. ASSUME NEW p, StartProcess(p) PROVE LimitInv'
  BY <1>0, <1>4 DEF StartProcess, reader
<1>5. ASSUME NEW p, NEW e, ExitProcess(p, e) PROVE LimitInv'
  BY <1>0, <1>5 DEF ExitProcess, Dies, reader
<1>6. CASE HandleLine
  <2>1. /\ pipe # <<>> /\ Head(pipe) # "long" /\ pipe' = Tail(pipe)
        /\ at' = "scanning" /\ seen' = seen \cup {Head(pipe)}
        /\ UNCHANGED <<invocation, printed>>
    BY <1>6 DEF HandleLine, session
  <2>2. (HasLong(pipe) => HasLong(printed))'
    BY <2>1, ReadFirst DEF HasLong
  <2>3. Told' = Told
    BY <2>1 DEF Told
  <2>4. Readable => Head(pipe) = "limit" \/ Readable'
    BY <2>1, ReadFirst DEF Readable
  <2> QED BY <2>1, <2>2, <2>3, <2>4
<1>7. CASE ScanEnds
  <2>1. ~Readable
    <3>1. pipe = <<>> \/ Head(pipe) = "long"
      BY <1>7 DEF ScanEnds
    <3>2. pipe # <<>> => Head(pipe) = pipe[1]
      BY HeadTailProperties DEF Written
    <3> QED BY <3>1, <3>2 DEF Readable
  <2>2. "leader" \notin alive \/ (pipe # <<>> /\ Head(pipe) = "long")
    BY <1>7 DEF ScanEnds, Living
  <2>3. at' = "waiting" /\ UNCHANGED <<invocation, engine, pipe, printed, alive, seen, result>>
    BY <1>7 DEF ScanEnds, session
  <2> QED BY <1>0, <2>1, <2>2, <2>3
<1>8. CASE WaitReturns \/ CloseKillDone
  BY <1>0, <1>8 DEF WaitReturns, CloseKillDone, session
<1>9. CASE Return
  <2>1. /\ at = "closed" /\ at' = "returned" /\ result' = Outcome
        /\ UNCHANGED <<invocation, engine, pipe, printed, alive, seen>>
    BY <1>9 DEF Return, session
  <2>2. "limit" \in seen => engine = "claude"
    BY LineKinds DEF Written, Living
  <2> QED BY <1>0, <2>1, <2>2, OutcomeKinds
<1>10. CASE TakeIdle \/ TakeStartup \/ TakeKillDone \/ SetFlag \/ IdleFires \/ StartupFires
  BY <1>0, <1>10 DEF TakeIdle, TakeStartup, TakeKillDone, SetFlag, IdleFires, StartupFires, Takes, session, reader
<1>11. CASE KillGroup
  BY <1>0, <1>11 DEF KillGroup, Dies, reader
<1>12. CASE ReviewTimesOut \/ ReviewReturns
  BY <1>0, <1>12 DEF ReviewTimesOut, ReviewReturns, Dies, session
<1>13. CASE UNCHANGED vars
  BY <1>0, <1>13 DEF vars, session, reader
<1>14. CASE Scan
  BY <1>0, <1>14 DEF Scan, session
<1> QED
  BY <1>1, <1>2, <1>3, <1>4, <1>5, <1>6, <1>7, <1>8, <1>9, <1>10, <1>11, <1>12, <1>13, <1>14
     DEF Next, Runner, Processes

\* Wait has reaped the process of a coding session that is past it, and what
\* the call returned of a killed one is a timeout or the limit that was read.
ReportInv ==
  invocation = "coding" =>
    /\ at \in {"waited", "closed", "returned"} => "leader" \notin alive
    /\ at = "returned" /\ exit = "killed" =>
         result \in {"idle", "startup"} \/ (result = "limit" /\ "limit" \in seen)

\* A killed session returns its flag, or the limit it told of in its output.
LEMMA KilledOutcome ==
  ASSUME Written, Living, Places, fired # "none"
  PROVE  Outcome \in {"idle", "startup"} \/ (Outcome = "limit" /\ "limit" \in seen)
<1>1. CASE "limit" \notin seen
  BY <1>1 DEF Outcome, Places
<1>2. CASE "limit" \in seen
  <2>1. engine = "claude"
    BY <1>2, LineKinds DEF Written, Living
  <2> QED BY <1>2, <2>1, OutcomeKinds
<1> QED BY <1>1, <1>2

\* No kill comes after Wait, and the flag was set before the one that did.
LEMMA ReportStep ==
  ASSUME Written, Living, Places, DogInv, ReportInv, [Next]_vars
  PROVE  ReportInv'
<1> USE DEF ReportInv
<1>1. CASE (\E l : PrintLine(l)) \/ (\E p : PrintDescendant(p)) \/ Mutter
  BY <1>1 DEF PrintLine, PrintDescendant, Mutter, session, reader
<1>2. ASSUME NEW p, StartProcess(p) PROVE ReportInv'
  BY <1>2 DEF StartProcess, reader
<1>3. ASSUME NEW p, NEW e, ExitProcess(p, e), p \in alive PROVE ReportInv'
  BY <1>3 DEF ExitProcess, Dies, reader
<1>4. CASE Scan \/ HandleLine \/ ScanEnds \/ CloseKillDone
  BY <1>4 DEF Scan, HandleLine, ScanEnds, CloseKillDone, session
<1>5. CASE WaitReturns
  BY <1>5 DEF WaitReturns, session, Living
<1>6. CASE Return
  <2>1. at = "closed" /\ result' = Outcome /\ UNCHANGED <<invocation, alive, exit, seen>>
    BY <1>6 DEF Return, session
  <2>2. invocation = "coding" /\ exit = "killed" => fired # "none"
    BY DEF DogInv
  <2> QED BY <2>1, <2>2, KilledOutcome
<1>7. CASE TakeIdle \/ TakeStartup \/ TakeKillDone \/ SetFlag \/ IdleFires \/ StartupFires
  BY <1>7 DEF TakeIdle, TakeStartup, TakeKillDone, SetFlag, IdleFires, StartupFires, Takes, session, reader
<1>8. CASE KillGroup
  BY <1>8 DEF KillGroup, Dies, reader
<1>9. CASE ReviewTimesOut \/ ReviewReturns
  BY <1>9 DEF ReviewTimesOut, ReviewReturns, Dies, session
<1>10. CASE UNCHANGED vars
  BY <1>10 DEF vars, session, reader
<1> QED BY <1>1, <1>2, <1>3, <1>4, <1>5, <1>6, <1>7, <1>8, <1>9, <1>10 DEF Next, Runner, Processes

\* The stderr's flag stays a truth value.
LEMMA MutteredStep ==
  ASSUME muttered \in BOOLEAN, [Next]_vars
  PROVE  muttered' \in BOOLEAN
<1>1. CASE UNCHANGED muttered
  BY <1>1, Zenon
<1>2. CASE muttered' = TRUE
  BY <1>2, Zenon
<1>3. Next => UNCHANGED muttered \/ muttered' = TRUE
  BY DEF Next, Runner, Processes, PrintLine, PrintDescendant, Mutter, StartProcess, ExitProcess, Dies,
    Scan, HandleLine, ScanEnds, WaitReturns, CloseKillDone, Return, TakeIdle, TakeStartup, TakeKillDone, SetFlag, KillGroup,
    ReviewTimesOut, ReviewReturns, IdleFires, StartupFires, Takes, session
<1>4. UNCHANGED vars => UNCHANGED muttered
  BY DEF vars, session
<1> QED BY <1>1, <1>2, <1>3, <1>4, Zenon

\* All of it together is an invariant.
LEMMA Invariant ==
  Spec => [](Written /\ Living /\ Places /\ DogInv /\ StartupInv /\ LimitInv /\ ReportInv /\ muttered \in BOOLEAN)
<1>1. Init => Written /\ Living /\ Places /\ DogInv /\ StartupInv /\ LimitInv /\ ReportInv /\ muttered \in BOOLEAN
  <2> SUFFICES ASSUME Init PROVE LimitInv /\ ReportInv /\ muttered \in BOOLEAN
    BY TypeInit
  <2>1. /\ pipe = <<>> /\ printed = <<>>
        /\ invocation = "coding" => at = "scanning"
    BY DEF Init
  <2>3. at \in {"scanning", "waiting"}
    BY DEF Init
  <2>2. muttered \in BOOLEAN
    BY Zenon DEF Init
  <2> QED BY <2>1, <2>2, <2>3 DEF LimitInv, ReportInv, Told, HasLong
<1>2. Written /\ Living /\ Places /\ DogInv /\ StartupInv /\ LimitInv /\ ReportInv /\ muttered \in BOOLEAN /\ [Next]_vars
      => (Written /\ Living /\ Places /\ DogInv /\ StartupInv /\ LimitInv /\ ReportInv /\ muttered \in BOOLEAN)'
  BY WrittenStep, LivingStep, PlacesStep, DogStep, StartupStep, LimitStep, ReportStep, MutteredStep
<1> QED BY <1>1, <1>2, PTL DEF Spec

\* What an invocation keeps has its types, whoever it starts and however much
\* is written.
THEOREM TypeCorrect == Spec => []TypeOK
<1>1. Written /\ Living /\ Places /\ muttered \in BOOLEAN => TypeOK
  <2> SUFFICES ASSUME Written, Living, Places, muttered \in BOOLEAN PROVE TypeOK
    OBVIOUS
  <2>1. pipe \in Seq(Kinds) /\ printed \in Seq(Kinds) /\ seen \subseteq Kinds
    BY LineKinds DEF Written
  <2> QED BY <2>1, Zenon DEF Written, Living, Places, TypeOK
<1> QED BY <1>1, Invariant, PTL

\* Once the watchdog has fired and killed, nothing of the CLI's group lives.
THEOREM NoOrphanIsLeft == Spec => []WatchdogLeavesNoOrphan
<1>1. DogInv => WatchdogLeavesNoOrphan
  BY DEF DogInv, WatchdogLeavesNoOrphan
<1> QED BY <1>1, Invariant, PTL

\* A usage limit claude told of in a line that could be read is what the call
\* returns, whoever killed it and when; a session of pi never returns one.
THEOREM LimitIsReturned == Spec => []ReportedLimitWins
<1>1. LimitInv => ReportedLimitWins
  BY DEF LimitInv, Told, ReportedLimitWins
<1> QED BY <1>1, Invariant, PTL

\* A session the watchdog killed returns the timeout, or the limit read from its
\* output: never a crash, whenever the reader, Wait and the watchdog run.
THEOREM KillIsTold == Spec => []KillIsReported
<1>1. ReportInv => KillIsReported
  BY DEF ReportInv, KillIsReported
<1> QED BY <1>1, Invariant, PTL

\* The watchdog takes the startup timer only while no line has been handled.
THEOREM StartupTimerIsFirst == Spec => []StartupTakenBeforeFirstLine
<1>1. StartupInv => StartupTakenBeforeFirstLine
  BY DEF StartupInv, StartupTakenBeforeFirstLine
<1> QED BY <1>1, Invariant, PTL
=============================================================================
