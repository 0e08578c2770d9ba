-------------------------- MODULE PlanReview_proofs --------------------------
(***************************************************************************)
(* What is proved of PlanReview for any number of rounds, plans and        *)
(* answers, whatever fails, crashes and is edited by hand: units and plan  *)
(* never part, a round is asked once, a plan runs with nobody asked only   *)
(* on clear and sure answers; as long as nobody decides by hand, the task is  *)
(* in the pool once; and as long as nothing fails, crashes or is edited,   *)
(* only a plan that was let through becomes units.                         *)
(***************************************************************************)
EXTENDS PlanReview, TLAPS

Statuses == Claimable \cup {"queued", "in_progress", "plan_review", "blocked", "done"}
Note == [status : Statuses, multi : {"unset", "yes", "no"}, plan : Nat, round : 0 .. MaxPlanRounds,
         units : Nat, msg : Nat, heads : SUBSET Rounds, text : SUBSET Rounds]
Message == [plan : Nat, round : Rounds, marks : SUBSET {"yes", "no"}]
Places == {"off", "planner", "replan", "gate", "seed", "approve", "bump", "post", "stop",
           "stopUnposted", "block", "limit", "code"}
Run == [at : Places, round : Rounds, plan : Nat, asked : SUBSET {"question"},
        judged : Plans \cup {[units |-> 0, touches |-> FALSE]}, reply : Replies \cup {[q \in {} |-> 0]}]
Poller == [at : {"idle", "fetch", "write", "repost", "record"}, msg : Nat, plan : Nat,
           round : Rounds, feedback : BOOLEAN, verdict : {"none", "plan_approved", "plan_rejected"}]

\* What every variable holds.
Shapes ==
  /\ note \in Note /\ thread \in Seq(Message) /\ run \in Run /\ poll \in Poller
  /\ up \in BOOLEAN /\ jobs \in Nat /\ branch \in BOOLEAN /\ limited \in BOOLEAN
  /\ cleared \in SUBSET Nat /\ planned \in Nat
  /\ left \in [Kinds -> Nat] /\ \A kind \in Kinds : left[kind] <= Budget[kind]

\* The messages a note and the poller refer to have been posted, a verdict to be
\* written is one, and a rejection has a round left.
Refers ==
  /\ note.msg <= Len(thread)
  /\ poll.at = "write" => poll.verdict # "none"
  /\ poll.at \in {"fetch", "record"} => poll.msg \in 1 .. Len(thread)
  /\ run.at = "bump" => run.round < MaxPlanRounds

ShapeInv == Shapes /\ Refers

\* WriteNote has done its write when it says so, and has done it or not when not.
LEMMA Writes ==
  ASSUME NEW new, NEW ok, Write(new, ok)
  PROVE  /\ note' \in {note, new} /\ (ok => note' = new)
         /\ left' = left \/ Spend("net")
BY DEF Write

\* A budget only shrinks.
LEMMA Spending ==
  ASSUME Shapes, PlanAssumption, NEW kind \in Kinds, Spend(kind)
  PROVE  /\ left' \in [Kinds -> Nat] /\ \A k \in Kinds : left'[k] <= Budget[k]
         /\ left'[kind] < Budget[kind]
         /\ \A k \in Kinds : k # kind => left'[k] = left[k]
BY DEF Shapes, Spend, PlanAssumption

\* Every step leaves the budget as it is or spends of one kind, of "hand" only
\* when a person edits.
LEMMA LeftSteps ==
  ASSUME [Next]_vars
  PROVE  \/ UNCHANGED left
         \/ \E kind \in Kinds \ {"hand"} : Spend(kind)
         \/ Spend("hand")
BY DEF Next, vars, Claim, Process, BeginFresh, BeginResumed, Rejected, NextRound, PlanUnusable, PlanWritten, Gate,
       SeedUnits, Post, StopForPlanReview, Block, BlockAtLimit, Code, WriteThen, PlannerFails, ApprovedPlanBroken,
       Poll, Scan, FetchReactions, WriteVerdict, Repost, RecordMessage, Answer, React, WriteFeedback, AutoResume,
       Crash, Boot, Edit, Write, Kinds
-----------------------------------------------------------------------------
\* The record Off is a run, Idle a poller.
LEMMA Resting ==
  ASSUME PlanAssumption
  PROVE  /\ Off \in Run /\ Off.at = "off"
         /\ Idle \in Poller /\ Idle.at = "idle"
<1>1. 1 \in Rounds
  BY DEF PlanAssumption, Rounds
<1> QED BY <1>1 DEF Off, Run, Places, Idle, Poller

\* The round of the note is a round.
LEMMA RoundType ==
  ASSUME PlanAssumption, note \in Note
  PROVE  Round \in Rounds
BY DEF PlanAssumption, Note, Round, Rounds

\* The messages, and what refers to them, keep their shape.
LEMMA ThreadStep ==
  ASSUME ShapeInv, PlanAssumption, [Next]_vars
  PROVE  /\ thread' \in Seq(Message) /\ Len(thread) <= Len(thread')
         /\ Len(thread) \in Nat /\ Len(thread') \in Nat
<1> USE DEF ShapeInv, Shapes
<1>1. CASE UNCHANGED thread
  BY <1>1
<1>2. ASSUME NEW plan \in Nat, NEW round \in Rounds, thread' = Posted(plan, round)
      PROVE  thread' \in Seq(Message) /\ Len(thread) <= Len(thread')
  <2>1. [plan |-> plan, round |-> round, marks |-> {}] \in Message
    BY DEF Message
  <2> QED BY <1>2, <2>1 DEF Posted
<1>3. ASSUME NEW m \in DOMAIN thread, NEW mark \in {"yes", "no"}, thread' = [thread EXCEPT ![m].marks = @ \cup {mark}]
      PROVE  thread' \in Seq(Message) /\ Len(thread) <= Len(thread')
  <2>1. thread[m] \in Message /\ m \in 1 .. Len(thread)
    OBVIOUS
  <2>2. [thread[m] EXCEPT !.marks = @ \cup {mark}] \in Message
    BY <2>1 DEF Message
  <2>3. thread' = [thread EXCEPT ![m] = [thread[m] EXCEPT !.marks = @ \cup {mark}]]
    BY <1>3
  <2> QED BY <2>1, <2>2, <2>3
<1>4. ASSUME Post PROVE UNCHANGED thread \/ \E plan \in Nat, round \in Rounds : thread' = Posted(plan, round)
  BY <1>4 DEF Post, Run
<1>5. ASSUME Repost PROVE UNCHANGED thread \/ \E plan \in Nat, round \in Rounds : thread' = Posted(plan, round)
  BY <1>5 DEF Repost, Poller
<1>6. ASSUME Answer PROVE \/ UNCHANGED thread
                          \/ \E m \in DOMAIN thread, mark \in {"yes", "no"} :
                               thread' = [thread EXCEPT ![m].marks = @ \cup {mark}]
  BY <1>6 DEF Answer, Answerable, React, WriteFeedback
<1> HIDE DEF ShapeInv, Shapes
<1>7. Post \/ Repost \/ Answer \/ UNCHANGED thread
  BY DEF Next, vars, Claim, Process, BeginFresh, BeginResumed, Rejected, NextRound, PlanUnusable, PlanWritten, Gate,
         SeedUnits, StopForPlanReview, Block, BlockAtLimit, Code, WriteThen, PlannerFails, ApprovedPlanBroken,
         Poll, Scan, FetchReactions, WriteVerdict, RecordMessage, AutoResume, Crash, Boot, Edit
<1> QED BY <1>1, <1>2, <1>3, <1>4, <1>5, <1>6, <1>7

\* The run keeps its shape, and bumps only a round it may.
LEMMA RunStep ==
  ASSUME ShapeInv, PlanAssumption, [Next]_vars
  PROVE  run' \in Run /\ (run'.at = "bump" => run'.round < MaxPlanRounds)
<1> USE DEF ShapeInv, Shapes, Refers
<1> DEFINE Good(r) == r \in Run /\ (r.at = "bump" => r.round < MaxPlanRounds)
<1>1. Good(run) /\ Good(Off)
  BY Resting
<1>2. \A place \in Places \ {"bump"} : Good([run EXCEPT !.at = place]) /\ Good([Off EXCEPT !.at = place])
  BY Resting DEF Run
<1>3. ASSUME BeginFresh PROVE Good(run')
  <2>1. PICK place \in Places \ {"bump"} : run' = [Off EXCEPT !.round = Round, !.at = place]
    BY <1>3 DEF BeginFresh, Places
  <2> QED BY <2>1, Resting, RoundType DEF Run
<1>4. ASSUME BeginResumed PROVE Good(run')
  <2>1. run' = [Off EXCEPT !.at = AfterPlan, !.round = Round, !.plan = note.plan]
    BY <1>4 DEF BeginResumed
  <2>2. AfterPlan \in Places /\ (AfterPlan = "bump" => Round < MaxPlanRounds)
    BY RoundType DEF AfterPlan, Places, Rounds, PlanAssumption
  <2>3. note.plan \in Nat
    BY DEF Note
  <2> QED BY <2>1, <2>2, <2>3, Resting, RoundType DEF Run
<1>5. ASSUME NEW place \in Places \ {"bump"}, run.round < MaxPlanRounds PROVE Good([run EXCEPT !.at = place, !.round = @ + 1])
  <2>1. run.round + 1 \in Rounds
    BY <1>5 DEF Run, Rounds, PlanAssumption
  <2> DEFINE r == [run EXCEPT !.at = place, !.round = @ + 1]
  <2>2. r \in Run /\ r.at = place
    BY <2>1 DEF Run
  <2> QED BY <2>2
<1>6. ASSUME Rejected PROVE Good(run')
  <2>1. run.round < MaxPlanRounds
    BY <1>6 DEF Rejected, At
  <2>2. run' \in {Off, [run EXCEPT !.at = "planner", !.round = @ + 1]}
    BY <1>6 DEF Rejected, NextRound, WriteThen
  <2>3. Good([run EXCEPT !.at = "planner", !.round = @ + 1])
    BY <1>5, <2>1 DEF Places
  <2> HIDE DEF Good
  <2> QED BY <1>1, <2>2, <2>3
<1>7. ASSUME PlanUnusable PROVE Good(run')
  <2>1. CASE run.round < MaxPlanRounds /\ NextRound("replan")
    BY <1>1, <1>5, <2>1 DEF NextRound, WriteThen, Places
  <2>2. CASE Goto("block")
    BY <1>2, <2>2 DEF Goto, Places
  <2> QED BY <1>7, <2>1, <2>2 DEF PlanUnusable
<1>8. ASSUME PlanWritten PROVE Good(run')
  <2>1. PICK plan \in Nat : run' \in {[run EXCEPT !.at = "gate", !.plan = plan], Off}
    <3>1. PICK plan \in {planned + 1} \cup ({note.plan} \ {0}) :
            WriteThen([note EXCEPT !.plan = plan], [run EXCEPT !.at = "gate", !.plan = plan])
      BY <1>8 DEF PlanWritten
    <3>2. plan \in Nat
      BY DEF Note
    <3> QED BY <3>1, <3>2 DEF WriteThen
  <2> QED BY <1>1, <2>1 DEF Run, Places
<1>9. ASSUME Gate PROVE Good(run')
  <2> DEFINE Through == \E plan \in Plans, reply \in Replies, asked \in {{}, {"question"}} :
                          run' = [run EXCEPT !.at = "seed", !.asked = asked, !.judged = plan, !.reply = reply]
  <2>1. Goto("post") \/ Through
    BY <1>9 DEF Gate
  <2>2. ASSUME NEW plan \in Plans, NEW reply \in Replies, NEW asked \in {{}, {"question"}}
        PROVE  Good([run EXCEPT !.at = "seed", !.asked = asked, !.judged = plan, !.reply = reply])
    BY DEF Run, Places
  <2>3. CASE Goto("post")
    BY <1>2, <2>3 DEF Goto, Places
  <2>4. ASSUME Through PROVE Good(run')
    <3>1. PICK plan \in Plans, reply \in Replies, asked \in {{}, {"question"}} :
            run' = [run EXCEPT !.at = "seed", !.asked = asked, !.judged = plan, !.reply = reply]
      BY <2>4
    <3> HIDE DEF Good
    <3> QED BY <2>2, <3>1, Zenon
  <2> HIDE DEF Good, Through
  <2> QED BY <2>1, <2>3, <2>4
<1>10. ASSUME SeedUnits \/ Post \/ StopForPlanReview \/ Block \/ BlockAtLimit \/ Code \/ PlannerFails
              \/ ApprovedPlanBroken
       PROVE  Good(run')
  <2>1. \/ run' = Off
        \/ \E place \in Places \ {"bump"} : run' \in {[run EXCEPT !.at = place], [Off EXCEPT !.at = place]}
    BY <1>10 DEF SeedUnits, Post, StopForPlanReview, Block, BlockAtLimit, Code, PlannerFails, ApprovedPlanBroken,
                 WriteThen, Goto, Places
  <2> QED BY <1>1, <1>2, <2>1
<1>11. ASSUME Claim \/ Poll \/ Answer \/ AutoResume \/ Crash \/ Boot \/ (\E status \in Claimable : Edit(status))
              \/ UNCHANGED vars
       PROVE  run' \in {run, Off}
  BY <1>11 DEF Claim, Poll, Scan, FetchReactions, WriteVerdict, Repost, RecordMessage, Answer, React, WriteFeedback,
               AutoResume, Crash, Boot, Edit, vars
<1> HIDE DEF Good
<1>12. Good(run')
  BY <1>1, <1>3, <1>4, <1>6, <1>7, <1>8, <1>9, <1>10, <1>11 DEF Next, Process
<1> QED BY <1>12 DEF Good

\* The poller keeps its shape, and refers to messages there are.
LEMMA PollStep ==
  ASSUME ShapeInv, PlanAssumption, [Next]_vars
  PROVE  /\ poll' \in Poller
         /\ poll'.at \in {"fetch", "record"} => poll'.msg \in 1 .. Len(thread')
         /\ poll'.at = "write" => poll'.verdict # "none"
<1> USE DEF ShapeInv, Shapes, Refers
<1> DEFINE Good == /\ poll' \in Poller
                   /\ poll'.at \in {"fetch", "record"} => poll'.msg \in 1 .. Len(thread')
                   /\ poll'.at = "write" => poll'.verdict # "none"
<1>1. Len(thread) \in Nat /\ Len(thread') \in Nat /\ Len(thread) <= Len(thread')
  BY ThreadStep
<1>2. CASE poll' \in {poll, Idle}
  BY <1>1, <1>2, Resting DEF Poller
<1>3. CASE Scan
  <2>1. poll' = [Idle EXCEPT !.at = IF note.msg = 0 THEN "repost" ELSE "fetch",
                             !.msg = note.msg, !.plan = note.plan, !.round = Round, !.feedback = Feedback(Round)]
    BY <1>3 DEF Scan
  <2>2. Feedback(Round) \in BOOLEAN /\ note.msg \in Nat /\ note.plan \in Nat
    BY DEF Feedback, Note
  <2>3. poll' \in Poller /\ poll'.msg = note.msg /\ (poll'.at = "fetch" => note.msg # 0)
        /\ poll'.at \notin {"record", "write"}
    <3> DEFINE at == IF note.msg = 0 THEN "repost" ELSE "fetch"
               feedback == Feedback(Round)
    <3>1. at \in {"repost", "fetch"} /\ (at = "fetch" => note.msg # 0)
      OBVIOUS
    <3>2. poll' = [Idle EXCEPT !.at = at, !.msg = note.msg, !.plan = note.plan, !.round = Round, !.feedback = feedback]
      BY <2>1
    <3>3. feedback \in BOOLEAN
      BY <2>2
    <3> HIDE DEF at, feedback
    <3> QED BY <2>2, <3>1, <3>2, <3>3, Resting, RoundType DEF Poller
  <2> QED BY <1>1, <2>2, <2>3
<1>4. CASE FetchReactions
  <2>1. \/ poll' = Idle
        \/ LET verdict == Decide(thread[poll.msg].marks, poll.feedback) IN
             verdict # "none" /\ poll' = [poll EXCEPT !.at = "write", !.verdict = verdict]
    BY <1>4 DEF FetchReactions, PollIdle
  <2>2. Decide(thread[poll.msg].marks, poll.feedback) \in {"none", "plan_approved", "plan_rejected"}
    BY DEF Decide
  <2>3. ASSUME NEW verdict \in {"plan_approved", "plan_rejected"},
               poll' = [poll EXCEPT !.at = "write", !.verdict = verdict]
        PROVE  Good
    BY <2>3 DEF Poller
  <2> QED BY <1>2, <2>1, <2>2, <2>3
<1>5. CASE Repost
  <2>1. CASE poll' = Idle
    BY <1>2, <2>1
  <2>2. CASE thread' = Posted(poll.plan, poll.round) /\ poll' = [poll EXCEPT !.at = "record", !.msg = Len(thread) + 1]
    <3>1. Len(thread') = Len(thread) + 1
      BY <2>2 DEF Posted
    <3>2. poll' \in Poller /\ poll'.msg = Len(thread) + 1 /\ poll'.at = "record"
      <4> DEFINE m == Len(thread) + 1
      <4>1. m \in Nat /\ poll' = [poll EXCEPT !.at = "record", !.msg = m]
        BY <1>1, <2>2
      <4> HIDE DEF m
      <4>2. poll' \in Poller /\ poll'.msg = m /\ poll'.at = "record"
        BY <4>1 DEF Poller
      <4> QED BY <4>2 DEF m
    <3> QED BY <1>1, <3>1, <3>2
  <2> QED BY <1>5, <2>1, <2>2 DEF Repost, PollIdle
<1>6. Scan \/ FetchReactions \/ Repost \/ poll' \in {poll, Idle}
  BY DEF Next, vars, Claim, Process, BeginFresh, BeginResumed, Rejected, NextRound, PlanUnusable, PlanWritten, Gate,
         SeedUnits, Post, StopForPlanReview, Block, BlockAtLimit, Code, WriteThen, PlannerFails, ApprovedPlanBroken,
         Poll, WriteVerdict, RecordMessage, Answer, React, WriteFeedback, AutoResume, Crash, Boot, Edit, PollIdle
<1> QED BY <1>2, <1>3, <1>4, <1>5, <1>6

\* Who writes the note, and what.
StatusWrites == \E status \in Statuses : note' \in {note, WithStatus(status)}

\* What a step does to the note.
LEMMA NoteSteps ==
  ASSUME ShapeInv, [Next]_vars
  PROVE  \/ StatusWrites
         \/ BeginFresh \/ Rejected \/ PlanUnusable \/ PlanWritten \/ SeedUnits \/ StopForPlanReview
         \/ RecordMessage
         \/ \E round \in Rounds : note' = [note EXCEPT !.text = @ \cup {round}]
<1> USE DEF ShapeInv, Shapes
<1>1. note = WithStatus(note.status) /\ note.status \in Statuses
  BY DEF WithStatus, Note
<1>2. CASE note' = note
  BY <1>1, <1>2 DEF StatusWrites
<1>3. CASE Claim \/ Block \/ BlockAtLimit \/ Code \/ WriteVerdict \/ AutoResume \/ \E status \in Claimable : Edit(status)
  <2>2. CASE Claim \/ Block \/ BlockAtLimit
    BY <2>2 DEF Claim, Block, BlockAtLimit, Write, StatusWrites, Statuses
  <2>3. CASE Code
    BY <2>3 DEF Code, WriteThen, Write, StatusWrites, Statuses
  <2>4. CASE WriteVerdict
    <3>1. note' \in {note, WithStatus(poll.verdict)}
      BY <2>4 DEF WriteVerdict, Write
    <3>2. poll.verdict \in Statuses
      BY <2>4 DEF WriteVerdict, Refers, Poller, Statuses, Claimable
    <3> QED BY <3>1, <3>2 DEF StatusWrites
  <2>5. CASE AutoResume
    BY <2>5 DEF AutoResume, StatusWrites, Statuses, Claimable
  <2>6. CASE \E status \in Claimable : Edit(status)
    BY <2>6 DEF Edit, StatusWrites, Statuses
  <2> QED BY <1>3, <2>2, <2>3, <2>4, <2>5, <2>6
<1>4. CASE Answer
  <2>1. note' = note \/ \E round \in note.heads : note' = [note EXCEPT !.text = @ \cup {round}]
    BY <1>4 DEF Answer, React, WriteFeedback
  <2>2. note.heads \subseteq Rounds
    BY DEF Note
  <2> QED BY <1>2, <2>1, <2>2
<1> QED
  BY <1>2, <1>3, <1>4
  DEF Next, vars, Process, BeginResumed, Gate, Post, PlannerFails, ApprovedPlanBroken, Poll, Scan, FetchReactions,
      Repost, Crash, Boot

\* The note keeps its shape, and refers to a message there is.
LEMMA NoteStep ==
  ASSUME ShapeInv, PlanAssumption, [Next]_vars
  PROVE  note' \in Note /\ note'.msg <= Len(thread')
<1> USE DEF ShapeInv, Shapes, Refers
<1> DEFINE Good(new) == new \in Note /\ new.msg <= Len(thread')
<1>1. /\ Len(thread) \in Nat /\ Len(thread') \in Nat /\ Len(thread) <= Len(thread')
      /\ note.msg \in Nat /\ note.msg <= Len(thread')
  <2>1. note.msg \in Nat
    BY DEF Note
  <2> QED BY <2>1, ThreadStep
<1>2. Good(note)
  BY <1>1
<1>3. ASSUME StatusWrites PROVE Good(note')
  BY <1>1, <1>3 DEF StatusWrites, WithStatus, Note
<1>4. ASSUME BeginFresh PROVE Good(note')
  <2>1. PICK multi \in Triaged : note' \in {note, [note EXCEPT !.status = "in_progress", !.multi = multi]}
    BY <1>4 DEF BeginFresh, Write
  <2>2. multi \in {"unset", "yes", "no"}
    BY <2>1 DEF Triaged, Note
  <2> QED BY <1>1, <2>1, <2>2 DEF Note, Statuses
<1>5. ASSUME Rejected \/ PlanUnusable PROVE Good(note')
  <2>1. note' = note \/ (run.round < MaxPlanRounds /\ note' = [note EXCEPT !.round = run.round + 1])
    BY <1>5 DEF Rejected, At, PlanUnusable, NextRound, WriteThen, Write
  <2>2. ASSUME run.round < MaxPlanRounds PROVE run.round + 1 \in 0 .. MaxPlanRounds
    BY <2>2 DEF Run, Rounds, PlanAssumption
  <2>3. ASSUME NEW round \in 0 .. MaxPlanRounds, note' = [note EXCEPT !.round = round] PROVE Good(note')
    BY <1>1, <2>3 DEF Note
  <2> QED BY <1>2, <2>1, <2>2, <2>3
<1>6. ASSUME PlanWritten PROVE Good(note')
  <2>1. PICK plan \in Nat : note' \in {note, [note EXCEPT !.plan = plan]}
    <3>1. PICK plan \in {planned + 1} \cup ({note.plan} \ {0}) : note' \in {note, [note EXCEPT !.plan = plan]}
      BY <1>6 DEF PlanWritten, WriteThen, Write
    <3>2. plan \in Nat
      BY DEF Note
    <3> QED BY <3>1, <3>2
  <2> QED BY <1>1, <2>1 DEF Note
<1>7. ASSUME SeedUnits PROVE Good(note')
  BY <1>1, <1>7 DEF SeedUnits, WriteThen, Write, Run, Note
<1>8. ASSUME StopForPlanReview PROVE Good(note')
  <2> DEFINE msg == IF At("stop") THEN Len(thread) ELSE note.msg
             heads == note.heads \cup {run.round}
  <2>1. note' \in {note, [note EXCEPT !.status = "plan_review", !.heads = heads, !.msg = msg]}
    BY <1>8 DEF StopForPlanReview, WriteThen, Write
  <2>2. msg \in Nat /\ msg <= Len(thread') /\ heads \in SUBSET Rounds
    BY <1>1 DEF Note, Run
  <2> HIDE DEF msg, heads
  <2>3. ASSUME note' = [note EXCEPT !.status = "plan_review", !.heads = heads, !.msg = msg]
        PROVE  note' \in Note /\ note'.msg = msg
    BY <2>2, <2>3 DEF Note, Statuses
  <2> QED BY <1>2, <2>1, <2>2, <2>3
<1>9. ASSUME RecordMessage PROVE Good(note')
  <2>1. note' \in {note, [note EXCEPT !.msg = poll.msg]} /\ poll.msg \in 1 .. Len(thread)
    BY <1>9 DEF RecordMessage, Write
  <2>2. poll.msg \in Nat /\ poll.msg <= Len(thread')
    BY <1>1, <2>1
  <2>3. ASSUME note' = [note EXCEPT !.msg = poll.msg]
        PROVE  note' \in Note /\ note'.msg = poll.msg
    BY <2>2, <2>3 DEF Note
  <2> QED BY <1>2, <2>1, <2>2, <2>3
<1>10. ASSUME NEW round \in Rounds, note' = [note EXCEPT !.text = @ \cup {round}] PROVE Good(note')
  BY <1>1, <1>10 DEF Note
<1> HIDE DEF Good
<1>11. Good(note')
  BY <1>3, <1>4, <1>5, <1>6, <1>7, <1>8, <1>9, <1>10, NoteSteps
<1> QED BY <1>11 DEF Good

\* The switches and the counters keep their shape.
LEMMA RestStep ==
  ASSUME ShapeInv, PlanAssumption, [Next]_vars
  PROVE  /\ up' \in BOOLEAN /\ jobs' \in Nat /\ branch' \in BOOLEAN /\ limited' \in BOOLEAN
         /\ cleared' \in SUBSET Nat /\ planned' \in Nat
         /\ left' \in [Kinds -> Nat] /\ \A kind \in Kinds : left'[kind] <= Budget[kind]
<1> USE DEF ShapeInv, Shapes
<1>1. left' \in [Kinds -> Nat] /\ \A kind \in Kinds : left'[kind] <= Budget[kind]
  BY LeftSteps, Spending DEF Kinds
<1>2. up' \in BOOLEAN /\ jobs' \in Nat
  <2>1. jobs' \in {jobs, jobs + 1, 0, 1} \/ (jobs > 0 /\ jobs' = jobs - 1)
    BY DEF Next, vars, Claim, Process, BeginFresh, Taken, BeginResumed, Rejected, NextRound, PlanUnusable,
       PlanWritten, Gate, SeedUnits, Post, StopForPlanReview, Block, BlockAtLimit, Code, WriteThen, PlannerFails,
       ApprovedPlanBroken, Poll, Scan, FetchReactions, WriteVerdict, Repost, RecordMessage, Answer, React,
       WriteFeedback, AutoResume, Crash, Boot, Edit
  <2>2. up' \in {up, TRUE, FALSE}
    BY DEF Next, vars, Claim, Process, BeginFresh, BeginResumed, Rejected, NextRound, PlanUnusable, PlanWritten,
       Gate, SeedUnits, Post, StopForPlanReview, Block, BlockAtLimit, Code, WriteThen, PlannerFails,
       ApprovedPlanBroken, Poll, Scan, FetchReactions, WriteVerdict, Repost, RecordMessage, Answer, React,
       WriteFeedback, AutoResume, Crash, Boot, Edit
  <2>3. ASSUME jobs' \in {jobs, jobs + 1, 0, 1} PROVE jobs' \in Nat
    BY <2>3
  <2>4. ASSUME jobs > 0, jobs' = jobs - 1 PROVE jobs' \in Nat
    BY <2>4
  <2>5. jobs' \in Nat
    BY <2>1, <2>3, <2>4
  <2>6. up' \in BOOLEAN
    BY <2>2, Zenon
  <2> QED BY <2>5, <2>6
<1>3. branch' \in BOOLEAN
  <2>1. CASE BeginFresh
    BY <2>1 DEF BeginFresh
  <2>2. BeginFresh \/ UNCHANGED branch
    BY DEF Next, vars, Claim, Process, BeginResumed, Rejected, NextRound, PlanUnusable, PlanWritten,
       Gate, SeedUnits, Post, StopForPlanReview, Block, BlockAtLimit, Code, WriteThen, PlannerFails,
       ApprovedPlanBroken, Poll, Scan, FetchReactions, WriteVerdict, Repost, RecordMessage, Answer, React,
       WriteFeedback, AutoResume, Crash, Boot, Edit
  <2> QED BY <2>1, <2>2
<1>4. limited' \in BOOLEAN
  <2>1. CASE BlockAtLimit
    BY <2>1 DEF BlockAtLimit
  <2>2. BlockAtLimit \/ limited' \in {limited, FALSE}
    BY DEF Next, vars, Claim, Process, BeginFresh, BeginResumed, Rejected, NextRound, PlanUnusable, PlanWritten,
       Gate, SeedUnits, Post, StopForPlanReview, Block, Code, WriteThen, PlannerFails,
       ApprovedPlanBroken, Poll, Scan, FetchReactions, WriteVerdict, Repost, RecordMessage, Answer, React,
       WriteFeedback, AutoResume, Crash, Boot, Edit
  <2> QED BY <2>1, <2>2
<1>5. cleared' \in SUBSET Nat
  <2>1. ASSUME NEW verdict, NEW plan \in Nat, cleared' = Judged(verdict, plan) PROVE cleared' \in SUBSET Nat
    BY <2>1 DEF Judged
  <2>2. CASE FetchReactions
    <3>1. poll.msg \in 1 .. Len(thread)
      BY <2>2 DEF FetchReactions, Refers
    <3>2. thread[poll.msg] \in Message
      BY <3>1
    <3>3. thread[poll.msg].plan \in Nat
      BY <3>2 DEF Message
    <3> QED BY <2>1, <2>2, <3>3 DEF FetchReactions
  <2>3. CASE Gate
    BY <2>3 DEF Gate, Run
  <2>4. CASE \E status \in Claimable : Edit(status)
    <3>1. note.plan \in Nat
      BY DEF Note
    <3> QED BY <2>1, <2>4, <3>1 DEF Edit
  <2>5. FetchReactions \/ Gate \/ (\E status \in Claimable : Edit(status)) \/ UNCHANGED cleared
    BY DEF Next, vars, Claim, Process, BeginFresh, BeginResumed, Rejected, NextRound, PlanUnusable, PlanWritten,
       SeedUnits, Post, StopForPlanReview, Block, BlockAtLimit, Code, WriteThen, PlannerFails,
       ApprovedPlanBroken, Poll, Scan, WriteVerdict, Repost, RecordMessage, Answer, React,
       WriteFeedback, AutoResume, Crash, Boot
  <2> QED BY <2>2, <2>3, <2>4, <2>5
<1>6. planned' \in Nat
  <2>1. CASE PlanWritten
    <3>1. PICK plan \in {planned + 1} \cup ({note.plan} \ {0}) : planned' = IF plan > planned THEN plan ELSE planned
      BY <2>1 DEF PlanWritten
    <3>2. plan \in Nat
      BY DEF Note
    <3> QED BY <3>1, <3>2
  <2>2. PlanWritten \/ UNCHANGED planned
    BY DEF Next, vars, Claim, Process, BeginFresh, BeginResumed, Rejected, NextRound, PlanUnusable,
       Gate, SeedUnits, Post, StopForPlanReview, Block, BlockAtLimit, Code, WriteThen, PlannerFails,
       ApprovedPlanBroken, Poll, Scan, FetchReactions, WriteVerdict, Repost, RecordMessage, Answer, React,
       WriteFeedback, AutoResume, Crash, Boot, Edit
  <2> QED BY <2>1, <2>2
<1> QED BY <1>1, <1>2, <1>3, <1>4, <1>5, <1>6

\* Every variable stays of its type.
LEMMA ShapeInvariant == Spec => []ShapeInv
<1> USE PlanAssumption
<1>1. Init => ShapeInv
  <2> SUFFICES ASSUME Init PROVE ShapeInv
    OBVIOUS
  <2>1. note \in Note /\ note.msg = 0
    BY DEF Init, Note, Statuses, Claimable, PlanAssumption
  <2>2. thread \in Seq(Message) /\ Len(thread) = 0
    BY DEF Init
  <2>3. run = Off /\ poll = Idle
    BY DEF Init
  <2>4. left \in [Kinds -> Nat] /\ \A kind \in Kinds : left[kind] <= Budget[kind]
    BY DEF Init, PlanAssumption
  <2>5. /\ up \in BOOLEAN /\ jobs \in Nat /\ branch \in BOOLEAN /\ limited \in BOOLEAN
        /\ cleared \in SUBSET Nat /\ planned \in Nat
    BY DEF Init
  <2> QED BY <2>1, <2>2, <2>3, <2>4, <2>5, Resting DEF ShapeInv, Shapes, Refers
<1>2. ShapeInv /\ [Next]_vars => ShapeInv'
  BY ThreadStep, RunStep, PollStep, NoteStep, RestStep DEF ShapeInv, Shapes, Refers
<1> QED BY <1>1, <1>2, PTL DEF Spec

\* The theorem's form of it.
THEOREM TypeCorrect == Spec => []TypeOK
<1>1. ShapeInv => TypeOK
  BY DEF ShapeInv, Shapes, TypeOK, Note, Statuses, Message, Run, Places, Poller
<1> QED BY <1>1, ShapeInvariant, PTL
-----------------------------------------------------------------------------
(* Units and plan, and the rounds that have been asked.                     *)

\* Round, of any note.
RoundOf(n) == IF n.round = 0 THEN 1 ELSE n.round

\* The run is between the planner and the seeding of units; it holds the plan
\* that the note has; it has yet to ask about its round.
Planner == {"planner", "replan"}
Holding == {"gate", "post", "stop", "stopUnposted", "seed", "approve"}
Working == Planner \cup Holding \cup {"bump"}
Unasked == Planner \cup {"gate", "post"}

\* The inductive invariant of a note n and a run r.  A note has units only from
\* its plan, a plan only when triage said "yes" and headings only with a plan, up
\* to its round; a run that has yet to seed units works on the note's round, and
\* on its plan.
Sound(n, r) ==
  /\ n.units # 0 => n.units = n.plan
  /\ n.plan # 0 => n.multi = "yes"
  /\ n.heads # {} => n.plan # 0
  /\ \A h \in n.heads : h <= RoundOf(n)
  /\ r.at \in Working => n.units = 0 /\ n.multi = "yes" /\ r.round = RoundOf(n)
  /\ r.at \in Holding => r.plan = n.plan /\ n.plan # 0
  /\ r.at \in Unasked => r.round \notin n.heads

\* Another note says the same of units, plan and rounds.
Alike(n, m) ==
  n.units = m.units /\ n.plan = m.plan /\ n.multi = m.multi /\ n.round = m.round /\ n.heads = m.heads

\* A run that has left the plan behind, or has not moved, keeps the invariant.
LEMMA Frame ==
  ASSUME NEW n, NEW m, NEW r, NEW s, Sound(n, r), Alike(m, n), s = r \/ s.at \notin Working
  PROVE  Sound(m, s)
BY DEF Sound, Alike, RoundOf, Working, Holding, Unasked, Planner

\* The next round has not been asked, whoever begins it.
LEMMA NextRoundStep ==
  ASSUME ShapeInv, PlanAssumption, Sound(note, run), NEW place \in {"planner", "replan"},
         NextRound(place), At("bump") \/ Planning
  PROVE  Sound(note', run')
<1> USE DEF ShapeInv, Shapes
<1> DEFINE n == [note EXCEPT !.round = run.round + 1]
           r == [run EXCEPT !.at = place, !.round = @ + 1]
<1>1. note' \in {note, n} /\ run' \in {r, Off} /\ (run' = r => note' = n)
  <2>1. PICK ok \in BOOLEAN : Write(n, ok) /\ run' = IF ok THEN r ELSE Off
    BY DEF NextRound, WriteThen
  <2>2. note' \in {note, n} /\ (ok => note' = n)
    BY <2>1, Writes
  <2>3. run' \in {r, Off} /\ (ok \/ run' = Off)
    BY <2>1
  <2>4. Off # r
    BY Resting DEF Run
  <2> QED BY <2>1, <2>2, <2>3, <2>4
<1>2. /\ run.at \in Working /\ run.round \in Nat /\ run.round >= 1 /\ run.round = RoundOf(note)
      /\ note.units = 0 /\ note.multi = "yes"
  BY DEF At, Planning, Working, Planner, Sound, Run, Rounds
<1>3. /\ n.units = note.units /\ n.plan = note.plan /\ n.multi = note.multi /\ n.heads = note.heads
      /\ n.round = run.round + 1
  BY DEF Note
<1>4. r.at = place /\ r.round = run.round + 1
  BY DEF Run
<1>5. note.heads \subseteq Nat /\ \A h \in note.heads : h <= run.round
  BY <1>2 DEF Sound, Note, Rounds
<1>6. RoundOf(n) = run.round + 1
  BY <1>2, <1>3 DEF RoundOf
<1> HIDE DEF n, r
<1>7. Sound(n, r)
  <2>1. run.round + 1 \notin note.heads /\ \A h \in note.heads : h <= run.round + 1
    BY <1>2, <1>5
  <2> QED BY <1>2, <1>3, <1>4, <1>6, <2>1 DEF Sound, Working, Holding, Unasked, Planner
<1>8. Sound(n, Off)
  BY <1>7, Resting, Frame DEF Alike, Working, Planner, Holding
<1>9. Sound(note, Off)
  BY Resting, Frame DEF Alike, Working, Planner, Holding
<1> QED BY <1>1, <1>7, <1>8, <1>9

\* What the steps of the run that write plan, units and headings leave.
LEMMA PlanSteps ==
  ASSUME ShapeInv, PlanAssumption, Sound(note, run), PlanWritten \/ SeedUnits \/ StopForPlanReview
  PROVE  Sound(note', run')
<1> USE DEF ShapeInv, Shapes
<1>0. Off.at \notin Working
  BY Resting DEF Working, Planner, Holding
<1>1. CASE PlanWritten
  <2>1. PICK plan \in {planned + 1} \cup ({note.plan} \ {0}) :
          WriteThen([note EXCEPT !.plan = plan], [run EXCEPT !.at = "gate", !.plan = plan])
    BY <1>1 DEF PlanWritten
  <2> DEFINE n == [note EXCEPT !.plan = plan]
             r == [run EXCEPT !.at = "gate", !.plan = plan]
  <2>2. note' \in {note, n} /\ run' \in {r, Off} /\ (run' = r => note' = n)
    <3>1. PICK ok \in BOOLEAN : Write(n, ok) /\ run' = IF ok THEN r ELSE Off
      BY <2>1 DEF WriteThen
    <3>2. note' \in {note, n} /\ (ok => note' = n)
      BY <3>1, Writes
    <3>3. Off # r
      BY Resting DEF Run
    <3> QED BY <3>1, <3>2, <3>3
  <2>3. plan # 0 /\ plan \in Nat
    BY DEF Note
  <2>4. /\ n.units = note.units /\ n.plan = plan /\ n.multi = note.multi /\ n.heads = note.heads
        /\ n.round = note.round /\ r.at = "gate" /\ r.plan = plan /\ r.round = run.round
    BY DEF Note, Run
  <2>5. run.at \in Planner
    BY <1>1 DEF PlanWritten, Planning, At, Planner
  <2> HIDE DEF n, r
  <2>6. Sound(n, r)
    BY <2>3, <2>4, <2>5 DEF Sound, Working, Holding, Unasked, Planner, RoundOf
  <2>7. Sound(n, Off)
    BY <1>0, <2>6, Frame DEF Alike
  <2>8. Sound(note, Off)
    BY <1>0, Frame DEF Alike
  <2> QED BY <2>2, <2>6, <2>7, <2>8
<1>2. CASE SeedUnits
  <2> DEFINE n == [note EXCEPT !.units = run.plan]
  <2>1. note' \in {note, n} /\ run'.at \in {"off", "code"}
    <3>1. PICK ok \in BOOLEAN : Write(n, ok) /\ run' = IF ok THEN [Off EXCEPT !.at = "code"] ELSE Off
      BY <1>2 DEF SeedUnits, WriteThen
    <3> QED BY <3>1, Writes, Resting DEF Run
  <2>2. run.at \in Holding
    BY <1>2 DEF SeedUnits, At, Holding
  <2>3. /\ n.units = run.plan /\ n.plan = note.plan /\ n.multi = note.multi /\ n.heads = note.heads
        /\ n.round = note.round
    BY DEF Note
  <2>4. run'.at \notin Working
    BY <2>1 DEF Working, Planner, Holding
  <2> HIDE DEF n
  <2>5. Sound(n, run')
    BY <2>2, <2>3, <2>4 DEF Sound, Working, Holding, Unasked, Planner, RoundOf
  <2>6. Sound(note, run')
    BY <2>4, Frame DEF Alike
  <2> QED BY <2>1, <2>5, <2>6
<1>3. CASE StopForPlanReview
  <2> DEFINE msg == IF At("stop") THEN Len(thread) ELSE note.msg
             heads == note.heads \cup {run.round}
             n == [note EXCEPT !.status = "plan_review", !.heads = heads, !.msg = msg]
  <2>1. note' \in {note, n} /\ run' = Off
    BY <1>3 DEF StopForPlanReview, WriteThen, Write
  <2>2. run.at \in Holding \cap Working
    BY <1>3 DEF StopForPlanReview, At, Holding, Working
  <2>3. /\ n.units = note.units /\ n.plan = note.plan /\ n.multi = note.multi /\ n.heads = heads
        /\ n.round = note.round
    BY DEF Note
  <2>4. run.round = RoundOf(note) /\ run.round \in Nat /\ note.plan # 0
    BY <2>2 DEF Sound, Run, Rounds
  <2>5. \A h \in heads : h <= RoundOf(note)
    BY <2>4 DEF Sound
  <2> HIDE DEF n, heads, msg
  <2>6. Sound(n, Off)
    BY <1>0, <2>3, <2>4, <2>5 DEF Sound, Working, Holding, Unasked, Planner, RoundOf
  <2>7. Sound(note, Off)
    BY <1>0, Frame DEF Alike
  <2> QED BY <2>1, <2>6, <2>7
<1> QED BY <1>1, <1>2, <1>3

\* The beginning of a run.
LEMMA BeginSteps ==
  ASSUME ShapeInv, PlanAssumption, Sound(note, run), BeginFresh \/ BeginResumed
  PROVE  Sound(note', run')
<1> USE DEF ShapeInv, Shapes
<1>1. CASE BeginFresh
  <2>1. note.plan = 0 /\ note.units = 0 /\ note.heads = {}
    BY <1>1 DEF BeginFresh, Continuing, Sound
  <2>2. PICK multi \in Triaged, ok \in BOOLEAN :
          /\ Write([note EXCEPT !.status = "in_progress", !.multi = multi], ok)
          /\ run' = [Off EXCEPT !.round = Round,
                                !.at = CASE ~ok \/ branch -> "block"
                                         [] ok /\ ~branch -> IF multi = "yes" THEN "planner" ELSE "code"]
    BY <1>1 DEF BeginFresh
  <2> DEFINE n == [note EXCEPT !.status = "in_progress", !.multi = multi]
  <2>3. note' \in {note, n} /\ (ok => note' = n)
    BY <2>2, Writes
  <2>4. /\ n.units = note.units /\ n.plan = note.plan /\ n.multi = multi /\ n.heads = note.heads
        /\ n.round = note.round
    BY DEF Note
  <2>5. run'.round = RoundOf(note) /\ run'.at \in {"block", "code", "planner"}
        /\ (run'.at = "planner" => ok /\ multi = "yes")
    BY <2>2, Resting DEF Run, Round, RoundOf
  <2> HIDE DEF n
  <2>6. CASE run'.at = "planner"
    <3>1. note' = n /\ multi = "yes"
      BY <2>3, <2>5, <2>6
    <3> QED BY <2>1, <2>4, <2>5, <2>6, <3>1 DEF Sound, Working, Holding, Unasked, Planner, RoundOf
  <2>7. CASE run'.at \in {"block", "code"}
    <3>1. note'.units = 0 /\ note'.plan = 0 /\ note'.heads = {}
      BY <2>1, <2>3, <2>4
    <3> QED BY <2>7, <3>1 DEF Sound, Working, Holding, Unasked, Planner
  <2> QED BY <2>5, <2>6, <2>7
<1>2. CASE BeginResumed
  <2>1. note' = note /\ note.multi = "yes" /\ note.plan # 0
    BY <1>2 DEF BeginResumed, Continuing
  <2>2. run'.at = AfterPlan /\ run'.round = RoundOf(note) /\ run'.plan = note.plan
    BY <1>2, Resting DEF BeginResumed, Run, Round, RoundOf
  <2>3. AfterPlan \in {"code", "approve", "block", "bump"} /\ (AfterPlan \in {"approve", "bump"} => note.units = 0)
    BY DEF AfterPlan, Note
  <2> QED BY <2>1, <2>2, <2>3 DEF Sound, Working, Holding, Unasked, Planner
<1> QED BY <1>1, <1>2

\* The steps of the run between that write none of it.
LEMMA PlaceSteps ==
  ASSUME ShapeInv, Sound(note, run), Gate \/ Post
  PROVE  Sound(note', run')
<1> USE DEF ShapeInv, Shapes
<1>1. note' = note /\ run'.round = run.round /\ run'.plan = run.plan
  BY DEF Gate, Post, Goto, Run
<1>2. CASE Gate
  <2>1. run.at = "gate" /\ run'.at \in {"seed", "post"}
    BY <1>2 DEF Gate, At, Goto, Run
  <2> QED BY <1>1, <2>1 DEF Sound, Working, Holding, Unasked, Planner
<1>3. CASE Post
  <2>1. run.at = "post" /\ run'.at \in {"stop", "stopUnposted"}
    BY <1>3 DEF Post, At, Goto, Run
  <2> QED BY <1>1, <2>1 DEF Sound, Working, Holding, Unasked, Planner
<1> QED BY <1>2, <1>3

\* Every other step leaves the run where it is or behind the plan.
LEMMA OtherSteps ==
  ASSUME ShapeInv, PlanAssumption,
         Claim \/ Block \/ BlockAtLimit \/ Code \/ PlannerFails \/ ApprovedPlanBroken \/ Poll \/ Answer \/ AutoResume
         \/ Crash \/ Boot \/ (\E status \in Claimable : Edit(status)) \/ UNCHANGED vars
  PROVE  Alike(note', note) /\ (run' = run \/ run'.at \notin Working)
<1> USE DEF ShapeInv, Shapes
<1>1. run' = run \/ run' = Off \/ Goto("block") \/ Goto("limit")
  BY DEF Claim, Block, BlockAtLimit, Code, WriteThen, PlannerFails, ApprovedPlanBroken, Poll, Scan, FetchReactions,
         WriteVerdict, Repost, RecordMessage, Answer, React, WriteFeedback, AutoResume, Crash, Boot, Edit, vars
<1>2. run' = run \/ run'.at \notin Working
  BY <1>1, Resting DEF Goto, Run, Working, Planner, Holding
<1>3. \/ note' = note \/ (\E status : note' = WithStatus(status)) \/ note' = [note EXCEPT !.msg = poll.msg]
      \/ \E round : note' = [note EXCEPT !.text = @ \cup {round}]
  BY DEF Claim, Block, BlockAtLimit, Code, WriteThen, PlannerFails, ApprovedPlanBroken, Poll, Scan, FetchReactions,
         WriteVerdict, Repost, RecordMessage, Answer, React, WriteFeedback, AutoResume, Crash, Boot, Edit, vars, Write
<1>4. Alike(note', note)
  BY <1>3 DEF Alike, WithStatus, Note
<1> QED BY <1>2, <1>4

PlanInv == Sound(note, run)

\* It holds in every state.
LEMMA PlanInvariant == Spec => []PlanInv
<1> USE PlanAssumption
<1>1. Init => PlanInv
  BY Resting DEF Init, PlanInv, Sound, RoundOf, Working, Holding, Unasked, Planner
<1>2. ShapeInv /\ PlanInv /\ [Next]_vars => PlanInv'
  <2> SUFFICES ASSUME ShapeInv, PlanInv, [Next]_vars PROVE PlanInv'
    OBVIOUS
  <2> USE DEF PlanInv
  <2>1. CASE BeginFresh \/ BeginResumed
    BY <2>1, BeginSteps
  <2>2. CASE Rejected
    BY <2>2, NextRoundStep DEF Rejected
  <2>3. CASE PlanUnusable
    <3>1. CASE NextRound("replan")
      BY <2>3, <3>1, NextRoundStep DEF PlanUnusable
    <3>2. CASE Goto("block") /\ UNCHANGED note
      <4>1. run'.at \notin Working
        BY <3>2 DEF Goto, ShapeInv, Shapes, Run, Working, Planner, Holding
      <4> QED BY <3>2, <4>1, Frame DEF Alike
    <3> QED BY <2>3, <3>1, <3>2 DEF PlanUnusable
  <2>4. CASE PlanWritten \/ SeedUnits \/ StopForPlanReview
    BY <2>4, PlanSteps
  <2>5. CASE Gate \/ Post
    BY <2>5, PlaceSteps
  <2>6. CASE Claim \/ Block \/ BlockAtLimit \/ Code \/ PlannerFails \/ ApprovedPlanBroken \/ Poll \/ Answer \/ AutoResume
             \/ Crash \/ Boot \/ (\E status \in Claimable : Edit(status)) \/ UNCHANGED vars
    BY <2>6, OtherSteps, Frame
  <2> QED BY <2>1, <2>2, <2>3, <2>4, <2>5, <2>6 DEF Next, Process
<1> QED BY <1>1, <1>2, ShapeInvariant, PTL DEF Spec

\* The units of a note are of the plan it has, whatever blocks, resumes, crashes
\* and late reactions come between (seedUnits, multiUnitContinuing).
THEOREM UnitsStayWithPlan == Spec => []UnitsArePlan
<1>1. PlanInv => UnitsArePlan
  BY DEF PlanInv, Sound, UnitsArePlan
<1> QED BY <1>1, PlanInvariant, PTL

\* No round is put to people twice, however often its write fails or the runner
\* dies (resolvePlanReview, stopForPlanReview, CurrentRoundReview).
THEOREM NoRoundAskedTwice == Spec => []RoundAskedOnce
<1>1. PlanInv => RoundAskedOnce
  BY DEF PlanInv, Sound, RoundAskedOnce, At, Unasked
<1> QED BY <1>1, PlanInvariant, PTL
-----------------------------------------------------------------------------
(* The task is in the pool once.                                            *)

\* What the runner holds is gone when it is down.
DownIsEmpty == ~up => At("off") /\ jobs = 0 /\ poll.at = "idle"

\* Who has the task: the pool, whose note is queued or in progress, or the poller,
\* whose note is in review.
Single ==
  /\ jobs + (IF At("off") THEN 0 ELSE 1) <= 1
  /\ jobs # 0 \/ ~At("off") => note.status \in {"queued", "in_progress"}
  /\ poll.at # "idle" => note.status = "plan_review"

JobInv == DownIsEmpty /\ (left["hand"] = Budget["hand"] => Single)

\* Nothing has been done by hand: then nothing had been before the step.
LEMMA HandsOff ==
  ASSUME ShapeInv, PlanAssumption, [Next]_vars, left'["hand"] = Budget["hand"]
  PROVE  left["hand"] = Budget["hand"] /\ ~Spend("hand")
<1>1. /\ left["hand"] \in Nat /\ Budget["hand"] \in Nat /\ left["hand"] <= Budget["hand"]
      /\ Shapes
  BY DEF ShapeInv, Shapes, PlanAssumption, Kinds
<1>2. ~Spend("hand")
  BY <1>1, Spending DEF Kinds
<1>3. CASE UNCHANGED left
  BY <1>2, <1>3
<1>4. CASE \E kind \in Kinds \ {"hand"} : Spend(kind)
  <2>1. PICK kind \in Kinds \ {"hand"} : Spend(kind)
    BY <1>4
  <2>2. left'["hand"] = left["hand"]
    BY <1>1, <2>1, Spending DEF Kinds
  <2> QED BY <1>2, <2>2
<1> QED BY <1>2, <1>3, <1>4, LeftSteps

\* A crash leaves nothing, and only a start brings anything back.
LEMMA DownStep ==
  ASSUME ShapeInv, PlanAssumption, DownIsEmpty, [Next]_vars
  PROVE  DownIsEmpty'
<1> USE DEF DownIsEmpty, At
<1>1. CASE up
  <2>1. up' = up \/ Crash
    BY <1>1 DEF Next, vars, Claim, Process, BeginFresh, BeginResumed, Rejected, NextRound, PlanUnusable, PlanWritten,
       Gate, SeedUnits, Post, StopForPlanReview, Block, BlockAtLimit, Code, WriteThen, PlannerFails,
       ApprovedPlanBroken, Poll, Scan, FetchReactions, WriteVerdict, Repost, RecordMessage, Answer, React,
       WriteFeedback, AutoResume, Boot, Edit
  <2>2. CASE Crash
    BY <2>2, Resting DEF Crash
  <2> QED BY <1>1, <2>1, <2>2
<1>2. CASE ~up
  <2>1. Boot \/ UNCHANGED <<run, jobs, poll>>
    BY <1>2 DEF Next, vars, Claim, Process, BeginFresh, BeginResumed, Taken, Rejected, Planning, PlanUnusable, PlanWritten,
       Gate, SeedUnits, Post, StopForPlanReview, Block, BlockAtLimit, Code, PlannerFails,
       ApprovedPlanBroken, Poll, Scan, FetchReactions, WriteVerdict, Repost, RecordMessage, Answer, React,
       WriteFeedback, AutoResume, Crash, Edit
  <2> QED BY <1>2, <2>1 DEF Boot
<1> QED BY <1>1, <1>2

\* A dispatch, and the worker that takes the job from the queue.
LEMMA TakeSteps ==
  ASSUME ShapeInv, PlanAssumption, Single, Claim \/ BeginFresh \/ BeginResumed
  PROVE  Single'
<1> USE DEF ShapeInv, Shapes, Single, At
<1>1. CASE Claim
  <2>1. note.status \in Claimable /\ run' = run /\ poll' = poll /\ jobs' \in {jobs, jobs + 1}
        /\ note' \in {note, WithStatus("queued")} /\ (jobs' = jobs + 1 => note' = WithStatus("queued"))
    <3>1. PICK ok \in BOOLEAN : Write(WithStatus("queued"), ok) /\ jobs' = IF ok THEN jobs + 1 ELSE jobs
      BY <1>1 DEF Claim
    <3>2. jobs + 1 # jobs
      OBVIOUS
    <3> QED BY <1>1, <3>1, <3>2, Writes DEF Claim
  <2>2. jobs = 0 /\ run.at = "off" /\ poll.at = "idle"
    BY <2>1 DEF Claimable
  <2>3. WithStatus("queued").status = "queued"
    BY DEF WithStatus, Note
  <2>4. run'.at = "off" /\ poll'.at = "idle" /\ jobs' \in {0, 1}
    BY <2>1, <2>2
  <2>5. jobs' # 0 => note'.status = "queued"
    BY <2>1, <2>2, <2>3
  <2>6. (IF run'.at = "off" THEN 0 ELSE 1) = 0
    BY <2>4
  <2> HIDE DEF ShapeInv, Shapes, Single, At
  <2>7. jobs' + 0 <= 1
    <3>1. ASSUME jobs' = 0 PROVE jobs' + 0 <= 1
      BY <3>1
    <3>2. ASSUME jobs' = 1 PROVE jobs' + 0 <= 1
      BY <3>2
    <3> QED BY <2>4, <3>1, <3>2
  <2>8. jobs' + (IF run'.at = "off" THEN 0 ELSE 1) <= 1
    BY <2>6, <2>7
  <2> QED BY <2>4, <2>5, <2>8 DEF Single, At
<1>2. CASE BeginFresh \/ BeginResumed
  <2>1. run.at = "off" /\ jobs > 0 /\ jobs' = jobs - 1 /\ poll' = poll
    BY <1>2 DEF BeginFresh, BeginResumed, Taken
  <2>2. jobs = 1 /\ jobs' = 0 /\ note.status \in {"queued", "in_progress"} /\ poll.at = "idle"
    BY <2>1
  <2>3. note'.status \in {note.status, "in_progress"}
    <3>1. CASE BeginFresh
      <4>1. PICK multi \in Triaged : note' \in {note, [note EXCEPT !.status = "in_progress", !.multi = multi]}
        BY <3>1 DEF BeginFresh, Write
      <4> QED BY <4>1 DEF Note
    <3> QED BY <1>2, <3>1 DEF BeginResumed
  <2> QED BY <2>1, <2>2, <2>3
<1> QED BY <1>1, <1>2

\* A run that goes on keeps the job, one that ends has none.
LEMMA RunSteps ==
  ASSUME ShapeInv, PlanAssumption, Single,
         \/ Rejected \/ PlanUnusable \/ PlanWritten \/ Gate \/ SeedUnits \/ Post \/ PlannerFails
         \/ StopForPlanReview \/ Block \/ BlockAtLimit \/ Code
  PROVE  Single'
<1> USE DEF ShapeInv, Shapes, Single
<1>1. run.at # "off" /\ jobs' = jobs /\ poll' = poll
  BY DEF Rejected, NextRound, PlanUnusable, Planning, PlanWritten, WriteThen, Gate, SeedUnits, Post, PlannerFails,
         StopForPlanReview, Block, BlockAtLimit, Code, At
<1>2. jobs = 0 /\ poll.at = "idle" /\ note.status \in {"queued", "in_progress"}
  BY <1>1 DEF At
<1>3. CASE StopForPlanReview \/ Block \/ BlockAtLimit \/ Code
  <2>1. run'.at = "off"
    BY <1>3, Resting DEF StopForPlanReview, Block, BlockAtLimit, Code, WriteThen
  <2> QED BY <1>1, <1>2, <2>1 DEF At
<1>4. CASE Rejected \/ PlanUnusable \/ PlanWritten \/ Gate \/ SeedUnits \/ Post \/ PlannerFails
  <2>1. note' = note \/ (\E round : note' = [note EXCEPT !.round = round])
        \/ (\E plan : note' = [note EXCEPT !.plan = plan]) \/ (\E units : note' = [note EXCEPT !.units = units])
    BY <1>4 DEF Rejected, NextRound, PlanUnusable, PlanWritten, WriteThen, Gate, SeedUnits, Post, PlannerFails, Write
  <2>2. note'.status = note.status
    BY <2>1 DEF Note
  <2> QED BY <1>1, <1>2, <2>2 DEF At
<1> QED BY <1>3, <1>4

\* The poller looks at a task in review and writes one, as nobody took it since.
LEMMA PollSteps ==
  ASSUME ShapeInv, PlanAssumption, Single, Poll
  PROVE  Single'
<1> USE DEF ShapeInv, Shapes, Single, At
<1>1. run' = run /\ jobs' = jobs /\ note.status = "plan_review"
  BY DEF Poll, Scan, FetchReactions, WriteVerdict, Repost, RecordMessage
<1>2. jobs = 0 /\ run.at = "off"
  BY <1>1
<1>3. CASE Scan \/ FetchReactions \/ Repost
  BY <1>1, <1>2, <1>3 DEF Scan, FetchReactions, Repost
<1>4. CASE WriteVerdict \/ RecordMessage
  BY <1>1, <1>2, <1>4, Resting DEF WriteVerdict, RecordMessage, PollIdle
<1> QED BY <1>3, <1>4 DEF Poll

\* People who answer, timers, crashes and starts.
LEMMA OutsideSteps ==
  ASSUME ShapeInv, PlanAssumption, Single, DownIsEmpty,
         Answer \/ AutoResume \/ Crash \/ Boot \/ UNCHANGED vars
  PROVE  Single'
<1> USE DEF ShapeInv, Shapes, Single, At
<1>1. CASE Answer
  <2>1. note' = note \/ \E round : note' = [note EXCEPT !.text = @ \cup {round}]
    BY <1>1 DEF Answer, React, WriteFeedback
  <2>2. note'.status = note.status
    BY <2>1 DEF Note
  <2>3. UNCHANGED <<jobs, run, poll>>
    BY <1>1 DEF Answer, React, WriteFeedback
  <2> QED BY <2>2, <2>3
<1>2. CASE AutoResume
  <2>1. UNCHANGED <<jobs, run, poll>> /\ (note' = note \/ note.status = "blocked")
    BY <1>2 DEF AutoResume
  <2>2. CASE note' = note
    BY <2>1, <2>2
  <2>3. CASE note.status = "blocked"
    BY <2>1, <2>3
  <2> QED BY <2>1, <2>2, <2>3
<1>3. CASE Crash
  BY <1>3, Resting DEF Crash
<1>4. CASE Boot
  BY <1>4 DEF Boot, DownIsEmpty
<1>5. CASE UNCHANGED vars
  BY <1>5 DEF vars
<1> QED BY <1>1, <1>2, <1>3, <1>4, <1>5

\* It holds in every state.
LEMMA JobInvariant == Spec => []JobInv
<1> USE PlanAssumption
<1>1. Init => JobInv
  BY Resting DEF Init, JobInv, DownIsEmpty, Single, At
<1>2. ShapeInv /\ JobInv /\ [Next]_vars => JobInv'
  <2> SUFFICES ASSUME ShapeInv, JobInv, [Next]_vars PROVE JobInv'
    OBVIOUS
  <2>1. DownIsEmpty /\ DownIsEmpty'
    BY DownStep DEF JobInv
  <2>2. ASSUME (left["hand"] = Budget["hand"])' PROVE Single'
    <3>1. Single /\ ~Spend("hand")
      BY <2>2, HandsOff DEF JobInv
    <3>2. CASE Claim \/ BeginFresh \/ BeginResumed
      BY <3>1, <3>2, TakeSteps
    <3>3. CASE \/ Rejected \/ PlanUnusable \/ PlanWritten \/ Gate \/ SeedUnits \/ Post \/ PlannerFails
               \/ StopForPlanReview \/ Block \/ BlockAtLimit \/ Code
      BY <3>1, <3>3, RunSteps
    <3>4. CASE Poll
      BY <3>1, <3>4, PollSteps
    <3>5. CASE Answer \/ AutoResume \/ Crash \/ Boot \/ UNCHANGED vars
      BY <2>1, <3>1, <3>5, OutsideSteps
    <3>6. ~ApprovedPlanBroken /\ ~ \E status \in Claimable : Edit(status)
      BY <3>1 DEF ApprovedPlanBroken, Edit
    <3> QED BY <3>2, <3>3, <3>4, <3>5, <3>6 DEF Next, Process
  <2> QED BY <2>1, <2>2 DEF JobInv
<1> QED BY <1>1, <1>2, ShapeInvariant, PTL DEF Spec

\* The pool has the task at most once while nobody decides by hand, though the
\* poller writes on what it read before it asked Discord (planpoll's tick).
THEOREM PoolHasTaskOnce == Spec => []OneJob
<1>1. JobInv => OneJob
  BY DEF JobInv, Single, OneJob, Untouched
<1> QED BY <1>1, JobInvariant, PTL
-----------------------------------------------------------------------------
(* Only plans that were let through become units.                           *)

\* A message that has been posted, about the plan the note has.
Shown(m) == m \in DOMAIN thread /\ thread[m].plan = note.plan

\* A note that the dispatcher may take: it has no plan, one that was let through,
\* or feedback that makes the run plan anew.
Accounted == note.plan = 0 \/ note.plan \in cleared \/ Feedback(Round)

\* As long as nothing was cut short, failed or was edited.  The poller's verdict is
\* about the plan in the note, as the review is about it, and whoever takes the
\* task next finds that plan answered for.
Clear ==
  /\ up /\ ~limited
  /\ run.at \notin {"limit", "stopUnposted"}
  /\ run.at = "stop" => Shown(Len(thread))
  /\ note.status = "plan_review" => Shown(note.msg) /\ note.units = 0
  /\ poll.at # "idle" => /\ poll.at \in {"fetch", "write"} /\ poll.msg = note.msg
                         /\ poll.feedback => Feedback(Round)
  /\ poll.at = "write" => Accounted
  /\ note.status \in Claimable \/ jobs # 0 => Accounted /\ note.units = 0
  /\ run.at \in {"seed", "approve"} => run.plan \in cleared
  /\ note.units # 0 => note.units \in cleared

ClearInv == left = Budget => Clear

\* What a step may rely on when nothing has been spent by its end.
Whole == ShapeInv /\ Sound(note, run) /\ Single /\ Clear

\* Nothing was spent by the end of a step: nothing was before, nor in it.
LEMMA Unspent ==
  ASSUME ShapeInv, PlanAssumption, [Next]_vars, left' = Budget
  PROVE  left = Budget /\ \A kind \in Kinds : ~Spend(kind)
<1>1. /\ left \in [Kinds -> Nat] /\ Budget \in [Kinds -> Nat]
      /\ \A k \in Kinds : left[k] <= Budget[k] /\ left[k] \in Nat /\ Budget[k] \in Nat
  BY DEF ShapeInv, Shapes, PlanAssumption
<1>2. ASSUME NEW kind \in Kinds, Spend(kind) PROVE FALSE
  <2>1. left'[kind] < left[kind]
    BY <1>1, <1>2 DEF Spend
  <2>2. left'[kind] = Budget[kind]
    OBVIOUS
  <2> QED BY <1>1, <2>1, <2>2
<1>3. UNCHANGED left
  BY <1>2, LeftSteps DEF Kinds
<1> QED BY <1>2, <1>3

\* Then a write does what it is to do.
LEMMA WritesDone ==
  ASSUME \A kind \in Kinds : ~Spend(kind), NEW new, NEW ok, Write(new, ok)
  PROVE  ok /\ note' = new
BY DEF Write, Kinds

\* A step that leaves the thread, the plan, the round and what was let through
\* keeps what has been shown and answered.
LEMMA AccountedStays ==
  ASSUME Accounted, note'.plan = note.plan, note'.round = note.round, cleared \subseteq cleared',
         note.heads \subseteq note'.heads, note.text \subseteq note'.text
  PROVE  Accounted'
<1>1. Round' = Round
  BY DEF Round
<1> QED BY <1>1 DEF Accounted, Feedback
-----------------------------------------------------------------------------
\* A dispatch, and the run that begins.
LEMMA ClearTakes ==
  ASSUME Whole, PlanAssumption, \A kind \in Kinds : ~Spend(kind), Claim \/ BeginFresh \/ BeginResumed
  PROVE  Clear'
<1> USE DEF Whole, ShapeInv, Shapes
<1>1. CASE Claim
  <2>1. PICK ok \in BOOLEAN : Write(WithStatus("queued"), ok) /\ jobs' = IF ok THEN jobs + 1 ELSE jobs
    BY <1>1 DEF Claim
  <2>2. note' = WithStatus("queued") /\ note.status \in Claimable
    BY <1>1, <2>1, WritesDone DEF Claim
  <2>3. /\ note'.status = "queued" /\ note'.plan = note.plan /\ note'.round = note.round /\ note'.units = note.units
        /\ note'.heads = note.heads /\ note'.text = note.text
    BY <2>2 DEF WithStatus, Note
  <2>4. UNCHANGED <<thread, up, run, poll, limited, cleared>>
    BY <1>1 DEF Claim
  <2>5. Accounted' /\ note.units = 0
    BY <2>2, <2>3, <2>4, AccountedStays DEF Clear
  <2>6. run.at = "off" /\ poll.at = "idle"
    BY <2>2 DEF Single, At, Claimable
  <2> QED BY <2>3, <2>4, <2>5, <2>6 DEF Clear, Claimable
<1>2. CASE BeginFresh \/ BeginResumed
  <2>1. jobs # 0 /\ run.at = "off" /\ jobs' = 0
    <3>1. run.at = "off" /\ jobs > 0 /\ jobs' = jobs - 1
      BY <1>2 DEF BeginFresh, BeginResumed, Taken, At
    <3>2. jobs = 1
      BY <3>1 DEF Single, At
    <3> QED BY <3>1, <3>2
  <2>2. /\ poll.at = "idle" /\ Accounted /\ note.units = 0 /\ note.status \in {"queued", "in_progress"}
        /\ UNCHANGED <<thread, up, poll, limited, cleared>>
    BY <1>2, <2>1 DEF BeginFresh, BeginResumed, Clear, Single, At, Claimable
  <2>3. CASE BeginFresh
    <3>1. PICK multi \in Triaged, ok \in BOOLEAN :
            /\ Write([note EXCEPT !.status = "in_progress", !.multi = multi], ok)
            /\ run' = [Off EXCEPT !.round = Round,
                                  !.at = CASE ~ok \/ branch -> "block"
                                           [] ok /\ ~branch -> IF multi = "yes" THEN "planner" ELSE "code"]
      BY <2>3 DEF BeginFresh
    <3>2. note'.status = "in_progress" /\ note'.units = 0
      <4> DEFINE n == [note EXCEPT !.status = "in_progress", !.multi = multi]
      <4>1. n.status = "in_progress" /\ n.units = note.units
        BY DEF Note
      <4>2. Write(n, ok)
        BY <3>1
      <4> HIDE DEF n
      <4>3. note' = n
        BY <4>2, WritesDone
      <4> QED BY <2>2, <4>1, <4>3
    <3>3. run'.at \in {"block", "planner", "code"}
      BY <3>1, Resting DEF Run
    <3> QED BY <2>1, <2>2, <3>2, <3>3 DEF Clear, Claimable
  <2>4. CASE BeginResumed
    <3>1. /\ note' = note /\ note.plan # 0
          /\ run' = [Off EXCEPT !.at = AfterPlan, !.round = Round, !.plan = note.plan]
      BY <2>4 DEF BeginResumed, Continuing
    <3>2. run'.at = AfterPlan /\ run'.plan = note.plan
      BY <3>1, Resting DEF Run
    <3>3. AfterPlan \in {"code", "approve", "block", "bump"} /\ (AfterPlan = "approve" => ~Feedback(Round))
      BY DEF AfterPlan
    <3>4. run'.at = "approve" => run'.plan \in cleared
      BY <2>2, <3>1, <3>2, <3>3 DEF Accounted
    <3> QED BY <2>1, <2>2, <3>1, <3>2, <3>3, <3>4 DEF Clear, Claimable
  <2> QED BY <1>2, <2>3, <2>4
<1> QED BY <1>1, <1>2

\* Within a run nothing is in review or queued, and the poller is at rest.
LEMMA InRun ==
  ASSUME Whole, ~At("off")
  PROVE  /\ jobs = 0 /\ poll.at = "idle" /\ note.status \in {"queued", "in_progress"}
         /\ note.status \notin Claimable
BY DEF Whole, ShapeInv, Shapes, Single, Claimable

\* A write of the run that ends well leaves the new note and the next place.
LEMMA WriteThenDone ==
  ASSUME \A kind \in Kinds : ~Spend(kind), NEW new, NEW next, WriteThen(new, next)
  PROVE  note' = new /\ run' = next /\ UNCHANGED <<thread, up, jobs, poll, limited, cleared>>
BY WritesDone DEF WriteThen

\* A run that goes on: it neither puts the task in review nor in the queue.
LEMMA GoesOn ==
  ASSUME Whole, ~At("off"), UNCHANGED <<thread, up, jobs, poll, limited>>,
         note'.status = note.status \/ note'.status \notin Claimable \cup {"plan_review"},
         run'.at \notin {"limit", "stopUnposted", "stop"},
         run'.at \in {"seed", "approve"} => run'.plan \in cleared',
         note'.units # 0 => note'.units \in cleared'
  PROVE  Clear'
<1>1. /\ jobs = 0 /\ poll.at = "idle" /\ note.status \in {"queued", "in_progress"}
      /\ note.status \notin Claimable
  BY InRun
<1>2. note'.status \notin Claimable \cup {"plan_review"}
  BY <1>1
<1> QED BY <1>1, <1>2 DEF Clear, Whole

\* The planner, the gate, the units and the ends of a run other than a review.
LEMMA ClearRuns ==
  ASSUME Whole, PlanAssumption, \A kind \in Kinds : ~Spend(kind),
         Rejected \/ PlanUnusable \/ PlanWritten \/ Gate \/ SeedUnits \/ Block \/ BlockAtLimit \/ Code
  PROVE  Clear'
<1> USE DEF Whole, ShapeInv, Shapes
<1>0. ~At("off") /\ jobs = 0 /\ poll.at = "idle" /\ note.status \notin Claimable \cup {"plan_review"}
  <2>1. ~At("off")
    BY DEF Rejected, NextRound, PlanUnusable, Planning, PlanWritten, Gate, SeedUnits, Block, BlockAtLimit, Code, At
  <2> QED BY <2>1, InRun
<1>1. ASSUME NEW place \in {"planner", "replan"}, NextRound(place) PROVE Clear'
  <2>1. /\ note' = [note EXCEPT !.round = run.round + 1]
        /\ run' = [run EXCEPT !.at = place, !.round = @ + 1]
        /\ UNCHANGED <<thread, up, jobs, poll, limited, cleared>>
    BY <1>1, WriteThenDone DEF NextRound
  <2>2. note'.status = note.status /\ note'.units = note.units /\ run'.at = place
    BY <2>1 DEF Note, Run
  <2>3. note.units # 0 => note.units \in cleared
    BY DEF Clear
  <2> HIDE DEF Whole, ShapeInv, Shapes
  <2> QED BY <1>0, <2>1, <2>2, <2>3, GoesOn
<1>2. CASE Goto("block") /\ UNCHANGED <<note, thread, up, jobs, poll, limited, cleared>>
  <2>1. run'.at = "block"
    BY <1>2 DEF Goto, Run
  <2>2. note.units # 0 => note.units \in cleared
    BY DEF Clear
  <2> HIDE DEF Whole, ShapeInv, Shapes
  <2> QED BY <1>0, <1>2, <2>1, <2>2, GoesOn
<1>3. CASE PlanWritten
  <2>1. PICK plan : WriteThen([note EXCEPT !.plan = plan], [run EXCEPT !.at = "gate", !.plan = plan])
    BY <1>3 DEF PlanWritten
  <2>2. /\ note' = [note EXCEPT !.plan = plan] /\ run' = [run EXCEPT !.at = "gate", !.plan = plan]
        /\ UNCHANGED <<thread, up, jobs, poll, limited, cleared>>
    BY <2>1, WriteThenDone
  <2>3. note'.status = note.status /\ note'.units = note.units /\ run'.at = "gate"
    BY <2>2 DEF Note, Run
  <2>4. note.units # 0 => note.units \in cleared
    BY DEF Clear
  <2> HIDE DEF Whole, ShapeInv, Shapes
  <2> QED BY <1>0, <2>2, <2>3, <2>4, GoesOn
<1>4. CASE Gate
  <2>1. UNCHANGED <<note, thread, up, jobs, poll, limited>> /\ cleared \subseteq cleared'
    BY <1>4 DEF Gate
  <2>2. \/ run'.at = "post"
        \/ run'.at = "seed" /\ run'.plan = run.plan /\ cleared' = cleared \cup {run.plan}
    BY <1>4 DEF Gate, Goto, Run
  <2>3. note.units # 0 => note.units \in cleared
    BY DEF Clear
  <2> HIDE DEF Whole, ShapeInv, Shapes
  <2> QED BY <1>0, <2>1, <2>2, <2>3, GoesOn
<1>5. CASE SeedUnits
  <2>1. /\ note' = [note EXCEPT !.units = run.plan] /\ run' = [Off EXCEPT !.at = "code"]
        /\ UNCHANGED <<thread, up, jobs, poll, limited, cleared>>
    BY <1>5, WriteThenDone DEF SeedUnits
  <2>2. note'.status = note.status /\ note'.units = run.plan /\ run'.at = "code"
    BY <2>1, Resting DEF Note, Run
  <2>3. run.plan \in cleared
    BY <1>5 DEF SeedUnits, At, Clear
  <2> HIDE DEF Whole, ShapeInv, Shapes
  <2> QED BY <1>0, <2>1, <2>2, <2>3, GoesOn
<1>6. CASE Block \/ BlockAtLimit \/ Code
  <2>1. ~BlockAtLimit
    BY DEF BlockAtLimit, At, Clear
  <2>2. run' = Off /\ UNCHANGED <<thread, up, jobs, poll, limited, cleared>>
        /\ \E end \in {"done", "blocked"} : note' = WithStatus(end)
    <3>1. CASE Block
      BY <3>1, WritesDone DEF Block
    <3>2. CASE Code
      BY <3>2, WriteThenDone DEF Code
    <3> QED BY <1>6, <2>1, <3>1, <3>2
  <2>3. note'.status \in {"done", "blocked"} /\ note'.units = note.units /\ run'.at = "off"
    BY <2>2, Resting DEF WithStatus, Note
  <2>4. note.units # 0 => note.units \in cleared
    BY DEF Clear
  <2>5. note'.status \notin Claimable \cup {"plan_review"}
    BY <2>3 DEF Claimable
  <2> HIDE DEF Whole, ShapeInv, Shapes
  <2> QED BY <1>0, <2>2, <2>3, <2>4, <2>5, GoesOn
<1>7. PlanUnusable =>
        NextRound("replan") \/ (Goto("block") /\ UNCHANGED <<note, thread, up, jobs, poll, limited, cleared>>)
  BY DEF PlanUnusable
<1> QED BY <1>1, <1>2, <1>3, <1>4, <1>5, <1>6, <1>7 DEF Rejected

\* The plan is posted, and put up for review under the message that shows it.
LEMMA ClearReviews ==
  ASSUME Whole, PlanAssumption, \A kind \in Kinds : ~Spend(kind), Post \/ StopForPlanReview
  PROVE  Clear'
<1> USE DEF Whole, ShapeInv, Shapes
<1>0. /\ ~At("off") /\ jobs = 0 /\ poll.at = "idle" /\ note.status \notin Claimable \cup {"plan_review"}
      /\ run.plan = note.plan /\ note.units = 0
  <2>1. ~At("off")
    BY DEF Post, StopForPlanReview, At
  <2>2. run.at \in Holding \cap Working
    BY DEF Post, StopForPlanReview, At, Holding, Working
  <2>3. run.plan = note.plan /\ note.units = 0
    BY <2>2 DEF Sound
  <2> HIDE DEF Whole, ShapeInv, Shapes
  <2> QED BY <2>1, <2>3, InRun
<1>1. CASE Post
  <2>1. thread' = Posted(run.plan, run.round) /\ run'.at = "stop"
    BY <1>1 DEF Post, Kinds, Goto, Run
  <2>2. UNCHANGED <<note, up, jobs, poll, limited, cleared>>
    BY <1>1 DEF Post
  <2> DEFINE message == [plan |-> run.plan, round |-> run.round, marks |-> {}]
  <2>3. message \in Message /\ message.plan = run.plan
    BY DEF Run, Message
  <2>4. thread' = Append(thread, message)
    BY <2>1 DEF Posted
  <2> HIDE DEF message
  <2>5. Len(thread') \in DOMAIN thread' /\ thread'[Len(thread')] = message
    BY <2>3, <2>4
  <2> QED BY <1>0, <2>1, <2>2, <2>3, <2>5 DEF Clear, Shown
<1>2. CASE StopForPlanReview
  <2>1. run.at = "stop" /\ Shown(Len(thread))
    BY <1>2 DEF StopForPlanReview, At, Clear
  <2> DEFINE heads == note.heads \cup {run.round}
             msg == IF At("stop") THEN Len(thread) ELSE note.msg
             n == [note EXCEPT !.status = "plan_review", !.heads = heads, !.msg = msg]
  <2>2. n.status = "plan_review" /\ n.plan = note.plan /\ n.units = note.units /\ n.msg = msg
    BY DEF Note
  <2>3. WriteThen(n, Off)
    BY <1>2 DEF StopForPlanReview
  <2>4. msg = Len(thread)
    BY <2>1 DEF At
  <2> HIDE DEF n, msg
  <2>5. note' = n /\ run' = Off /\ UNCHANGED <<thread, up, jobs, poll, limited, cleared>>
    BY <2>3, WriteThenDone
  <2>6. note'.units = 0 /\ run'.at = "off" /\ note'.status = "plan_review"
    BY <1>0, <2>2, <2>5, Resting
  <2>7. note'.msg = Len(thread) /\ note'.plan = note.plan /\ thread' = thread
    BY <2>2, <2>4, <2>5
  <2>8. Shown(note.msg)'
    BY <2>1, <2>7 DEF Shown
  <2> QED BY <1>0, <2>5, <2>6, <2>8 DEF Clear, Claimable
<1> QED BY <1>1, <1>2
-----------------------------------------------------------------------------
\* The poller decides on the plan in the note, and gives the note its verdict.
LEMMA ClearPolls ==
  ASSUME Whole, PlanAssumption, \A kind \in Kinds : ~Spend(kind), Poll
  PROVE  Clear'
<1> USE DEF Whole, ShapeInv, Shapes
<1>0. /\ note.status = "plan_review" /\ jobs = 0 /\ run.at = "off"
      /\ UNCHANGED <<up, jobs, run, limited>>
      /\ Shown(note.msg) /\ note.units = 0 /\ note.msg # 0
  <2>1. note.status = "plan_review" /\ UNCHANGED <<up, jobs, run, limited>>
    BY DEF Poll, Scan, FetchReactions, WriteVerdict, Repost, RecordMessage, Single
  <2>2. Shown(note.msg) /\ note.units = 0
    BY <2>1 DEF Clear
  <2>3. note.msg # 0
    BY <2>2 DEF Shown
  <2> QED BY <2>1, <2>2, <2>3 DEF Single, At
<1>1. CASE Scan
  <2> DEFINE feedback == Feedback(Round)
  <2>1. poll' = [Idle EXCEPT !.at = "fetch", !.msg = note.msg, !.plan = note.plan, !.round = Round,
                             !.feedback = feedback]
    BY <1>0, <1>1 DEF Scan
  <2> HIDE DEF feedback
  <2>2. poll'.at = "fetch" /\ poll'.msg = note.msg /\ poll'.feedback = feedback
    BY <2>1, Resting DEF Poller
  <2>3. UNCHANGED <<note, thread, cleared>>
    BY <1>1 DEF Scan
  <2> QED BY <1>0, <2>2, <2>3 DEF feedback, Clear, Feedback, Round, Shown, Claimable
<1>2. CASE FetchReactions
  <2> DEFINE verdict == Decide(thread[poll.msg].marks, poll.feedback)
  <2>1. poll.at = "fetch" /\ poll.msg = note.msg /\ thread[poll.msg].plan = note.plan
        /\ (poll.feedback => Feedback(Round))
    BY <1>0, <1>2 DEF FetchReactions, Clear, Shown
  <2>2. /\ poll' = IF verdict = "none" THEN Idle ELSE [poll EXCEPT !.at = "write", !.verdict = verdict]
        /\ cleared' = Judged(verdict, note.plan)
        /\ UNCHANGED <<note, thread>>
    BY <1>2, <2>1 DEF FetchReactions, Kinds
  <2>3. verdict \in {"none", "plan_approved", "plan_rejected"} /\ (verdict = "plan_rejected" => poll.feedback)
    BY DEF Decide
  <2> HIDE DEF verdict
  <2>4. CASE verdict = "none"
    BY <1>0, <2>2, <2>4, Resting DEF Clear, Shown, Claimable
  <2>5. CASE verdict # "none"
    <3>1. poll'.at = "write" /\ poll'.msg = note.msg /\ poll'.feedback = poll.feedback
      BY <2>1, <2>2, <2>5 DEF Poller
    <3>2. Feedback(Round)' = Feedback(Round)
      BY <2>2 DEF Feedback, Round
    <3>3. Accounted'
      BY <2>1, <2>2, <2>3, <2>5, <3>2 DEF Accounted, Judged
    <3> QED BY <1>0, <2>1, <2>2, <3>1, <3>2, <3>3 DEF Clear, Shown, Claimable
  <2> QED BY <2>4, <2>5
<1>3. CASE WriteVerdict
  <2>1. Accounted /\ note' = WithStatus(poll.verdict) /\ poll' = Idle /\ UNCHANGED <<thread, cleared>>
    BY <1>3, WritesDone DEF WriteVerdict, PollIdle, Clear
  <2>2. poll.verdict \in {"plan_approved", "plan_rejected"}
    BY <1>3 DEF WriteVerdict, Refers, Poller
  <2>3. /\ note'.status = poll.verdict /\ note'.plan = note.plan /\ note'.round = note.round
        /\ note'.units = note.units /\ note'.heads = note.heads /\ note'.text = note.text
    BY <2>1 DEF WithStatus, Note
  <2>4. Accounted'
    BY <2>1, <2>3, AccountedStays
  <2> QED BY <1>0, <2>1, <2>2, <2>3, <2>4, Resting DEF Clear
<1>4. ~Repost /\ ~RecordMessage
  BY DEF Repost, RecordMessage, Clear
<1> QED BY <1>1, <1>2, <1>3, <1>4 DEF Poll

\* People answer: a mark leaves the messages what they show, feedback is answer enough.
LEMMA ClearAnswers ==
  ASSUME Whole, PlanAssumption, Answer
  PROVE  Clear'
<1> USE DEF Whole, ShapeInv, Shapes
<1>0. UNCHANGED <<up, jobs, run, poll, limited, cleared>>
  BY DEF Answer, React, WriteFeedback
<1>1. PICK m \in DOMAIN thread : WriteFeedback(thread[m].round) \/ \E mark \in {"yes", "no"} : React(m, mark)
  BY DEF Answer, Answerable
<1>2. CASE \E mark \in {"yes", "no"} : React(m, mark)
  <2>1. PICK mark : thread' = [thread EXCEPT ![m].marks = @ \cup {mark}] /\ UNCHANGED note
    BY <1>2 DEF React
  <2>2. DOMAIN thread' = DOMAIN thread /\ Len(thread') = Len(thread)
    BY <2>1
  <2>3. \A k \in DOMAIN thread : thread'[k].plan = thread[k].plan
    <3>1. \A k \in DOMAIN thread : thread[k] \in Message
      OBVIOUS
    <3> QED BY <2>1, <3>1 DEF Message
  <2>4. \A k : Shown(k) => Shown(k)'
    BY <2>1, <2>2, <2>3 DEF Shown
  <2>5. Accounted => Accounted'
    BY <1>0, <2>1 DEF Accounted, Feedback, Round
  <2>6. Feedback(Round)' = Feedback(Round)
    BY <2>1 DEF Feedback, Round
  <2>7. (Len(thread))' = Len(thread)
    BY <2>2
  <2> QED BY <1>0, <2>1, <2>4, <2>5, <2>6, <2>7 DEF Clear
<1>3. CASE WriteFeedback(thread[m].round)
  <2>1. /\ note' = [note EXCEPT !.text = @ \cup {thread[m].round}] /\ UNCHANGED thread
    BY <1>3 DEF WriteFeedback
  <2>2. /\ note'.status = note.status /\ note'.plan = note.plan /\ note'.round = note.round /\ note'.msg = note.msg
        /\ note'.units = note.units /\ note'.heads = note.heads /\ note.text \subseteq note'.text
    BY <2>1 DEF Note
  <2>3. Feedback(Round) => Feedback(Round)'
    BY <2>2 DEF Feedback, Round
  <2>4. Accounted => Accounted'
    BY <1>0, <2>2, AccountedStays
  <2>5. \A k : Shown(k) => Shown(k)'
    BY <2>1, <2>2 DEF Shown
  <2>6. (Len(thread))' = Len(thread)
    BY <2>1
  <2> QED BY <1>0, <2>2, <2>3, <2>4, <2>5, <2>6 DEF Clear
<1> QED BY <1>1, <1>2, <1>3

\* It holds in every state.
LEMMA ClearInvariant == Spec => []ClearInv
<1> USE PlanAssumption
<1>1. Init => ClearInv
  BY Resting DEF Init, ClearInv, Clear, Accounted
<1>2. ShapeInv /\ PlanInv /\ JobInv /\ ClearInv /\ [Next]_vars => ClearInv'
  <2> SUFFICES ASSUME ShapeInv, PlanInv, JobInv, ClearInv, [Next]_vars, left' = Budget PROVE Clear'
    BY DEF ClearInv, PlanAssumption
  <2>1. left = Budget /\ \A kind \in Kinds : ~Spend(kind)
    BY Unspent
  <2>2. Whole
    BY <2>1 DEF Whole, PlanInv, JobInv, ClearInv
  <2>3. CASE Claim \/ BeginFresh \/ BeginResumed
    BY <2>1, <2>2, <2>3, ClearTakes
  <2>4. CASE Rejected \/ PlanUnusable \/ PlanWritten \/ Gate \/ SeedUnits \/ Block \/ BlockAtLimit \/ Code
    BY <2>1, <2>2, <2>4, ClearRuns
  <2>5. CASE Post \/ StopForPlanReview
    BY <2>1, <2>2, <2>5, ClearReviews
  <2>6. CASE Poll
    BY <2>1, <2>2, <2>6, ClearPolls
  <2>7. CASE Answer
    BY <2>2, <2>7, ClearAnswers
  <2>8. ~PlannerFails /\ ~ApprovedPlanBroken /\ ~Crash /\ ~ \E status \in Claimable : Edit(status)
    BY <2>1 DEF PlannerFails, ApprovedPlanBroken, Crash, Edit, Kinds
  <2>9. ~AutoResume /\ ~Boot
    BY <2>2 DEF AutoResume, Boot, Whole, Clear
  <2>10. CASE UNCHANGED vars
    BY <2>2, <2>10 DEF Whole, vars, Clear, Shown, Accounted, Feedback, Round
  <2> QED BY <2>3, <2>4, <2>5, <2>6, <2>7, <2>8, <2>9, <2>10 DEF Next, Process
<1> QED BY <1>1, <1>2, ShapeInvariant, PlanInvariant, JobInvariant, PTL DEF Spec

\* Units come only from a plan the gate or a person let through and nobody has
\* rejected since, in whatever order the poller, the dispatcher, the run and
\* people take their turns (runPlanGate, resolvePlanReview, planpoll's tick).
THEOREM OnlyClearedPlans == Spec => []OnlyClearedPlansRun
<1>1. ClearInv => OnlyClearedPlansRun
  BY DEF ClearInv, Clear, OnlyClearedPlansRun
<1> QED BY <1>1, ClearInvariant, PTL
-----------------------------------------------------------------------------
(* The gate's answers.                                                      *)

\* A plan the gate has sent on its way: it found no reason to stop.
GateInv == At("seed") => DecideGate(HardRules(run.judged), run.reply, run.asked) = {}

\* Only the gate sends a plan there, and nothing changes the answers on the way.
LEMMA SeedSteps ==
  ASSUME ShapeInv, PlanAssumption, [Next]_vars, run'.at = "seed"
  PROVE  run' = run \/ Gate
<1> USE DEF ShapeInv, Shapes
<1>1. Off.at # "seed" /\ \A place \in Places \ {"seed"} : [Off EXCEPT !.at = place].at # "seed"
  BY Resting DEF Run
<1>2. \A place \in Places \ {"seed"} : [run EXCEPT !.at = place].at # "seed"
  BY DEF Run
<1>3. ~BeginFresh
  <2>1. ASSUME BeginFresh PROVE run'.at # "seed"
    <3>1. PICK place \in Places \ {"seed"} : run' = [Off EXCEPT !.round = Round, !.at = place]
      BY <2>1 DEF BeginFresh, Places
    <3> QED BY <3>1, Resting DEF Run
  <2> QED BY <2>1
<1>4. ~BeginResumed
  <2>1. ASSUME BeginResumed PROVE run'.at # "seed"
    <3>1. run' = [Off EXCEPT !.at = AfterPlan, !.round = Round, !.plan = note.plan]
      BY <2>1 DEF BeginResumed
    <3>2. AfterPlan # "seed"
      BY DEF AfterPlan
    <3> QED BY <3>1, <3>2, Resting DEF Run
  <2> QED BY <2>1
<1>5. ~Rejected /\ ~PlanWritten /\ ~PlanUnusable
  <2>1. \A place \in {"planner", "replan"} : [run EXCEPT !.at = place, !.round = @ + 1].at # "seed"
    BY DEF Run
  <2>2. \A plan : [run EXCEPT !.at = "gate", !.plan = plan].at # "seed"
    BY DEF Run
  <2> QED BY <1>1, <1>2, <2>1, <2>2 DEF Rejected, NextRound, PlanWritten, PlanUnusable, WriteThen, Goto, Places
<1>6. /\ ~SeedUnits /\ ~Post /\ ~StopForPlanReview /\ ~Block /\ ~BlockAtLimit /\ ~Code
      /\ ~PlannerFails /\ ~ApprovedPlanBroken
  BY <1>1, <1>2 DEF SeedUnits, Post, StopForPlanReview, Block, BlockAtLimit, Code, PlannerFails,
     ApprovedPlanBroken, WriteThen, Goto, Places
<1>7. ASSUME Claim \/ Poll \/ Answer \/ AutoResume \/ Crash \/ Boot \/ (\E status \in Claimable : Edit(status))
             \/ UNCHANGED vars
      PROVE  run' \in {run, Off}
  BY <1>7 DEF Claim, Poll, Scan, FetchReactions, WriteVerdict, Repost, RecordMessage, Answer, React, WriteFeedback,
              AutoResume, Crash, Boot, Edit, vars
<1> QED BY <1>1, <1>3, <1>4, <1>5, <1>6, <1>7 DEF Next, Process

\* The gate that sends it there has found none.
LEMMA GateAnswers ==
  ASSUME ShapeInv, Gate, run'.at = "seed"
  PROVE  DecideGate(HardRules(run'.judged), run'.reply, run'.asked) = {}
<1>1. PICK plan \in Plans, reply \in Replies, asked \in {{}, {"question"}} :
        IF DecideGate(HardRules(plan), reply, asked) = {}
          THEN /\ run' = [run EXCEPT !.at = "seed", !.asked = asked, !.judged = plan, !.reply = reply]
               /\ cleared' = cleared \cup {run.plan}
          ELSE Goto("post") /\ UNCHANGED cleared
  BY DEF Gate
<1>2. ~Goto("post")
  BY DEF ShapeInv, Shapes, Run, Goto
<1>3. /\ DecideGate(HardRules(plan), reply, asked) = {}
      /\ run' = [run EXCEPT !.at = "seed", !.asked = asked, !.judged = plan, !.reply = reply]
  BY <1>1, <1>2
<1>4. run'.judged = plan /\ run'.reply = reply /\ run'.asked = asked
  BY <1>3 DEF ShapeInv, Shapes, Run
<1> QED BY <1>3, <1>4

\* It holds in every state.
LEMMA GateInvariant == Spec => [](ShapeInv /\ GateInv)
<1> USE PlanAssumption
<1>1. Init => GateInv
  BY Resting DEF Init, GateInv, At
<1>2. ShapeInv /\ GateInv /\ [Next]_vars => GateInv'
  BY SeedSteps, GateAnswers DEF GateInv, At
<1> QED BY <1>1, <1>2, ShapeInvariant, PTL DEF Spec

\* A plan that runs with nobody asked has no hard rule against it, a clear no to
\* both of the gate's questions, and a sure choice for each of the planner's,
\* whatever Jev replies (HardRules, DecideGate).  The lead of the best choice is
\* left to the run: it is computed by a fold.
THEOREM UnseenPlanIsClear == Spec => [](At("seed") => RulesSilent /\ ScoresClear /\ ChoicesSure)
<1>1. ASSUME ShapeInv, GateInv, At("seed") PROVE RulesSilent /\ ScoresClear /\ ChoicesSure
  <2>1. DecideGate(HardRules(run.judged), run.reply, run.asked) = {}
    BY <1>1 DEF GateInv
  <2>2. /\ HardRules(run.judged) = {}
        /\ \A id \in Nouls : ~NoulStops(run.reply, id)
        /\ \A id \in run.asked : ~ChoiceStops(run.reply, id)
    BY <2>1 DEF DecideGate
  <2>3. run.judged.units \in Nat /\ run.judged \in Plans \cup {[units |-> 0, touches |-> FALSE]}
    BY <1>1, GateInputs DEF ShapeInv, Shapes, Run
  <2>4. RulesSilent
    BY <2>2, <2>3 DEF HardRules, MaxUnitsWithoutReason, RulesSilent
  <2>5. \A id \in DOMAIN run.reply : run.reply[id].noul \subseteq Int /\ run.reply[id].confidence \in Int
    <3>1. run.reply \in Replies \/ run.reply = [q \in {} |-> 0]
      BY <1>1 DEF ShapeInv, Shapes, Run
    <3> QED BY <3>1, GateInputs
  <2>6. ScoresClear
    BY <2>2, <2>5 DEF NoulStops, ScoresClear
  <2>7. ChoicesSure
    BY <2>2, <2>5 DEF ChoiceStops, ChoicesSure
  <2> QED BY <2>4, <2>6, <2>7
<1> QED BY <1>1, GateInvariant, PTL
=============================================================================
