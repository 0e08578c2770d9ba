----------------------------- MODULE PlanReview -----------------------------
(***************************************************************************)
(* How a multi-unit task gets its plan: the planner's rounds and the gate  *)
(* of internal/runner, the stop for a person's review, and the poller of   *)
(* internal/planpoll that turns reactions into a status the dispatcher     *)
(* claims again.  One task.  The vault is one copy here (Vault has the     *)
(* clone and origin): a write that fails has or has not changed the note.  *)
(***************************************************************************)
EXTENDS PlanGate

CONSTANTS MaxPlanRounds,  \* maxPlanRounds
          Sizes,          \* the answers triage may get
          Replies,        \* the answers a gate may get
          Plans,          \* what a plan may be to HardRules
          Budget          \* bound: how often each kind of thing below may happen

\* "crash": the runner dies.  "net": a vault write fails.  "engine": the
\* planner's engine is unknown or at its usage limit.  "hand": a person edits a
\* status.  "discord": a post or a fetch of reactions fails.
Kinds == {"crash", "net", "engine", "hand", "discord"}

ASSUME PlanAssumption == MaxPlanRounds \in Nat \ {0} /\ Budget \in [Kinds -> Nat]

ASSUME GateInputs ==
  /\ \A plan \in Plans : plan.units \in Nat
  /\ \A reply \in Replies : \A id \in DOMAIN reply :
       reply[id].noul \subseteq Int /\ reply[id].confidence \in Int

VARIABLES
  note,     \* the task note
  thread,   \* the plans posted for review, each with people's reactions
  up,       \* whether the runner runs
  jobs,     \* jobs of this task in the worker's queue
  run,      \* ProcessTask: where it is, its round and its plan
  poll,     \* the poller: where it is, and what it saw of the note
  branch,   \* whether the clone has the task's branch
  limited,  \* whether the note waits for its engine's auto-resume
  cleared,  \* history: plans the gate or a person has let through
  planned,  \* history: how many plans the planner has written
  left      \* how much of Budget is left

vars == <<note, thread, up, jobs, run, poll, branch, limited, cleared, planned, left>>

Rounds == 1 .. MaxPlanRounds
Off == [at |-> "off", round |-> 1, plan |-> 0, asked |-> {},
        judged |-> [units |-> 0, touches |-> FALSE], reply |-> [q \in {} |-> 0]]
Idle == [at |-> "idle", msg |-> 0, plan |-> 0, round |-> 1, feedback |-> FALSE,
         verdict |-> "none"]

\* A plan is a number, 0 is none.  "heads" are the rounds with a heading under
\* Plan Review, "text" those with something written there.
Init ==
  /\ note = [status |-> "ready", multi |-> "unset", plan |-> 0, round |-> 0, units |-> 0,
             msg |-> 0, heads |-> {}, text |-> {}]
  /\ thread = <<>>
  /\ up = TRUE /\ jobs = 0 /\ run = Off /\ poll = Idle
  /\ branch = FALSE /\ limited = FALSE
  /\ cleared = {} /\ planned = 0
  /\ left = Budget

Spend(kind) == left[kind] > 0 /\ left' = [left EXCEPT ![kind] = @ - 1]

\* WriteNote, and whether it returned without error.
Write(new, ok) ==
  \/ ok /\ note' = new /\ UNCHANGED left
  \/ ~ok /\ note' \in {note, new} /\ Spend("net")

WithStatus(status) == [note EXCEPT !.status = status]

\* plan_round, absent in the first round, and CurrentRoundReview.
Round == IF note.round = 0 THEN 1 ELSE note.round
Feedback(round) == round \in note.heads \cap note.text

At(place) == run.at = place
Goto(place) == run' = [run EXCEPT !.at = place]
-----------------------------------------------------------------------------
(* The claim, and ProcessTask up to the planner, the review or the units.   *)

Claimable == {"ready", "plan_approved", "plan_rejected", "blocker_resolved"}

Claim ==
  /\ up /\ note.status \in Claimable
  /\ \E ok \in BOOLEAN : /\ Write(WithStatus("queued"), ok)
                         /\ jobs' = IF ok THEN jobs + 1 ELSE jobs
  /\ UNCHANGED <<thread, up, run, poll, branch, limited, cleared, planned>>

Taken == up /\ At("off") /\ jobs > 0 /\ jobs' = jobs - 1

\* multiUnitContinuing.
Continuing == note.multi = "yes" /\ note.plan # 0

\* triagePath: Jev is asked only when the author has not said.
Triaged ==
  IF note.multi # "unset" THEN {note.multi}
  ELSE {IF DecideTriage(size) THEN "yes" ELSE "no" : size \in Sizes}

\* A fresh run.  It makes the task's branch; the branch of an earlier one that
\* got this far makes the setup fail instead, and the cleanup deletes it.
BeginFresh ==
  /\ Taken /\ ~Continuing
  /\ \E multi \in Triaged, ok \in BOOLEAN :
       /\ Write([note EXCEPT !.status = "in_progress", !.multi = multi], ok)
       /\ run' = [Off EXCEPT !.round = Round,
                             !.at = CASE ~ok \/ branch -> "block"
                                      [] ok /\ ~branch -> IF multi = "yes" THEN "planner" ELSE "code"]
       /\ branch' = IF ok THEN ~branch ELSE branch
  /\ UNCHANGED <<thread, up, poll, limited, cleared, planned>>

\* Mutants: the units are not looked for, or the review of the next round is.
AfterPlanReplans ==
  CASE ~Feedback(Round) -> "approve"
    [] Feedback(Round) -> IF Round >= MaxPlanRounds THEN "block" ELSE "bump"
AfterPlanNextRound ==
  CASE note.units # 0 -> "code"
    [] note.units = 0 /\ ~Feedback(Round + 1) -> "approve"
    [] OTHER -> IF Round >= MaxPlanRounds THEN "block" ELSE "bump"

\* processMultiUnit with a plan: the units if there are any, else the decision
\* of resolvePlanReview, by what is written under this round.
AfterPlan ==
  CASE note.units # 0 -> "code"
    [] note.units = 0 /\ ~Feedback(Round) -> "approve"
    [] OTHER -> IF Round >= MaxPlanRounds THEN "block" ELSE "bump"

BeginResumed ==
  /\ Taken /\ Continuing
  /\ run' = [Off EXCEPT !.at = AfterPlan, !.round = Round, !.plan = note.plan]
  /\ UNCHANGED <<note, thread, up, poll, branch, limited, cleared, planned, left>>

\* The approved plan no longer parses: a person has been at it.
ApprovedPlanBroken ==
  /\ At("approve")
  /\ Spend("hand")
  /\ Goto("block")
  /\ UNCHANGED <<note, thread, up, jobs, poll, branch, limited, cleared, planned>>
-----------------------------------------------------------------------------
(* runPlanner, runPlanGate, stopForPlanReview.                              *)

\* A write inside the run, which ends without a word when the write fails.
WriteThen(new, next) ==
  /\ \E ok \in BOOLEAN : Write(new, ok) /\ run' = IF ok THEN next ELSE Off
  /\ UNCHANGED <<thread, up, jobs, poll, branch, limited, cleared>>

NextRound(place) == WriteThen([note EXCEPT !.round = run.round + 1],
                              [run EXCEPT !.at = place, !.round = @ + 1])

\* Mutant: the rejection is logged and plan_round left as it is.
RejectedUncounted ==
  /\ At("bump")
  /\ WriteThen(note, [run EXCEPT !.at = "planner"])
  /\ UNCHANGED planned

\* resolvePlanReview, of a rejection.
Rejected == At("bump") /\ NextRound("planner") /\ UNCHANGED planned

\* At the invocation of the planner, in the first round of this run or a later one.
Planning == At("planner") \/ At("replan")

\* The planner left no plan in the copy that parses and validates.
PlanUnusable ==
  /\ Planning
  /\ \/ run.round < MaxPlanRounds /\ NextRound("replan")
     \/ /\ run.round = MaxPlanRounds /\ Goto("block")
        /\ UNCHANGED <<note, thread, up, jobs, poll, branch, limited, cleared, left>>
  /\ UNCHANGED planned

\* It left a new one, or the one the note came with: how the planner ended is
\* not looked at.
PlanWritten ==
  /\ Planning
  /\ \E plan \in {planned + 1} \cup ({note.plan} \ {0}) :
       /\ WriteThen([note EXCEPT !.plan = plan], [run EXCEPT !.at = "gate", !.plan = plan])
       /\ planned' = IF plan > planned THEN plan ELSE planned

\* The engine's name is unknown, or it meets its usage limit.
PlannerFails ==
  /\ Planning /\ Spend("engine")
  /\ \/ At("planner") /\ Goto("block")
     \/ Goto("limit")
  /\ UNCHANGED <<note, thread, up, jobs, poll, branch, limited, cleared, planned>>

\* runPlanGate.
Gate ==
  /\ At("gate")
  /\ \E plan \in Plans, reply \in Replies, asked \in {{}, {"question"}} :
       IF DecideGate(HardRules(plan), reply, asked) = {}
         THEN /\ run' = [run EXCEPT !.at = "seed", !.asked = asked, !.judged = plan, !.reply = reply]
              /\ cleared' = cleared \cup {run.plan}
         ELSE Goto("post") /\ UNCHANGED cleared
  /\ UNCHANGED <<note, thread, up, jobs, poll, branch, limited, planned, left>>

\* seedUnits, of a plan let through by the gate or by a person.
SeedUnits ==
  /\ At("seed") \/ At("approve")
  /\ WriteThen([note EXCEPT !.units = run.plan], [Off EXCEPT !.at = "code"])
  /\ UNCHANGED planned

\* The plan as it is posted for review.
Posted(plan, round) == Append(thread, [plan |-> plan, round |-> round, marks |-> {}])

\* stopForPlanReview posts first; a post that fails only costs the message.
Post ==
  /\ At("post")
  /\ \/ thread' = Posted(run.plan, run.round) /\ Goto("stop") /\ UNCHANGED left
     \/ Spend("discord") /\ Goto("stopUnposted") /\ UNCHANGED thread
  /\ UNCHANGED <<note, up, jobs, poll, branch, limited, cleared, planned>>

\* plan_message_id keeps what it was when the post failed.
StopForPlanReview ==
  /\ At("stop") \/ At("stopUnposted")
  /\ WriteThen([note EXCEPT !.status = "plan_review",
                            !.heads = @ \cup {run.round},
                            !.msg = IF At("stop") THEN Len(thread) ELSE @], Off)
  /\ UNCHANGED planned

\* blockPlannerTask, handleSetupFailure.
Block ==
  /\ At("block")
  /\ \E ok \in BOOLEAN : Write(WithStatus("blocked"), ok)
  /\ run' = Off
  /\ UNCHANGED <<thread, up, jobs, poll, branch, limited, cleared, planned>>

\* handleCrashFallback at the planner's usage limit, with AddBlockedNote.
BlockAtLimit ==
  /\ At("limit")
  /\ \E ok \in BOOLEAN : Write(WithStatus("blocked"), ok) /\ limited' = (limited \/ ok)
  /\ run' = Off
  /\ UNCHANGED <<thread, up, jobs, poll, branch, cleared, planned>>

\* The unit loop (UnitLoop has it), or the one session of a one-unit task.
Code ==
  /\ At("code")
  /\ \E end \in {"done", "blocked"} :
       /\ end = "blocked" => note.units # 0
       /\ WriteThen(WithStatus(end), Off)
  /\ UNCHANGED planned
-----------------------------------------------------------------------------
(* planpoll: one pass over the note.                                        *)

PollIdle == poll' = Idle

\* Mutant: a pass takes up every note that has a message.
ScanAny ==
  /\ up /\ poll.at = "idle"
  /\ note.status = "plan_review" \/ note.msg # 0
  /\ poll' = [Idle EXCEPT !.at = IF note.msg = 0 THEN "repost" ELSE "fetch",
                          !.msg = note.msg, !.plan = note.plan, !.round = Round,
                          !.feedback = Feedback(Round)]
  /\ UNCHANGED <<note, thread, up, jobs, run, branch, limited, cleared, planned, left>>
ScanPosted ==
  /\ up /\ poll.at = "idle"
  /\ note.status = "plan_review" /\ note.msg # 0
  /\ poll' = [Idle EXCEPT !.at = "fetch",
                          !.msg = note.msg, !.plan = note.plan, !.round = Round,
                          !.feedback = Feedback(Round)]
  /\ UNCHANGED <<note, thread, up, jobs, run, branch, limited, cleared, planned, left>>

\* tick: the note is read here, and not again before it is written.
Scan ==
  /\ up /\ poll.at = "idle"
  /\ note.status = "plan_review"
  /\ poll' = [Idle EXCEPT !.at = IF note.msg = 0 THEN "repost" ELSE "fetch",
                          !.msg = note.msg, !.plan = note.plan, !.round = Round,
                          !.feedback = Feedback(Round)]
  /\ UNCHANGED <<note, thread, up, jobs, run, branch, limited, cleared, planned, left>>

\* A cross counts once its feedback is there, and before a tick.
Decide(marks, feedback) ==
  CASE "no" \in marks /\ feedback -> "plan_rejected"
    [] "no" \notin marks /\ "yes" \in marks -> "plan_approved"
    [] OTHER -> "none"

\* What a verdict says about the plan it was given for.
Judged(verdict, plan) ==
  CASE verdict = "plan_approved" -> cleared \cup {plan}
    [] verdict = "plan_rejected" -> cleared \ {plan}
    [] OTHER -> cleared

FetchReactions ==
  /\ poll.at = "fetch"
  /\ \/ LET verdict == Decide(thread[poll.msg].marks, poll.feedback) IN
          /\ poll' = IF verdict = "none" THEN Idle
                     ELSE [poll EXCEPT !.at = "write", !.verdict = verdict]
          /\ cleared' = Judged(verdict, thread[poll.msg].plan)
          /\ UNCHANGED left
     \/ Spend("discord") /\ PollIdle /\ UNCHANGED cleared
  /\ UNCHANGED <<note, thread, up, jobs, run, branch, limited, planned>>

\* The status is overwritten whatever it is by now.
WriteVerdict ==
  /\ poll.at = "write"
  /\ \E ok \in BOOLEAN : Write(WithStatus(poll.verdict), ok)
  /\ PollIdle
  /\ UNCHANGED <<thread, up, jobs, run, branch, limited, cleared, planned>>

\* retryMissingPlanMessage: the post, and the write of its id.
Repost ==
  /\ poll.at = "repost"
  /\ \/ /\ thread' = Posted(poll.plan, poll.round)
        /\ poll' = [poll EXCEPT !.at = "record", !.msg = Len(thread) + 1]
        /\ UNCHANGED left
     \/ Spend("discord") /\ PollIdle /\ UNCHANGED thread
  /\ UNCHANGED <<note, up, jobs, run, branch, limited, cleared, planned>>

RecordMessage ==
  /\ poll.at = "record"
  /\ \E ok \in BOOLEAN : Write([note EXCEPT !.msg = poll.msg], ok)
  /\ PollIdle
  /\ UNCHANGED <<thread, up, jobs, run, branch, limited, cleared, planned>>
-----------------------------------------------------------------------------
(* People, the auto-resume, crashes.                                        *)

\* People answer the newest message, and the newest about the round at hand.
Newest(m, rounds) ==
  thread[m].round \in rounds /\ \A k \in m + 1 .. Len(thread) : thread[k].round \notin rounds
Answerable == {m \in DOMAIN thread : Newest(m, Rounds) \/ Newest(m, {Round})}

React(m, mark) ==
  /\ mark \notin thread[m].marks
  /\ thread' = [thread EXCEPT ![m].marks = @ \cup {mark}]
  /\ UNCHANGED <<note, up, jobs, run, poll, branch, limited, cleared, planned, left>>

\* Feedback goes under the heading of the round a message names.
WriteFeedback(round) ==
  /\ round \in note.heads \ note.text
  /\ note' = [note EXCEPT !.text = @ \cup {round}]
  /\ UNCHANGED <<thread, up, jobs, run, poll, branch, limited, cleared, planned, left>>

\* A verdict by hand; a rejection without feedback is read as an approval.
\* A block resolved; a task sent round again that nobody runs.
Edit(status) ==
  /\ \/ note.status = "plan_review" /\ status \in {"plan_approved", "plan_rejected"}
     \/ note.status = "blocked" /\ status = "blocker_resolved"
     \/ note.status = "in_progress" /\ status = "ready" /\ At("off") /\ jobs = 0
  /\ Spend("hand")
  /\ note' = WithStatus(status)
  /\ cleared' = Judged(IF status = "plan_rejected" /\ ~Feedback(Round) THEN "plan_approved"
                       ELSE status, note.plan)
  /\ UNCHANGED <<thread, up, jobs, run, poll, branch, limited, planned>>

\* UsageLimit has how this comes about.
AutoResume ==
  /\ up /\ limited
  /\ limited' = FALSE
  /\ note' = IF note.status = "blocked" THEN WithStatus("blocker_resolved") ELSE note
  /\ UNCHANGED <<thread, up, jobs, run, poll, branch, cleared, planned, left>>

Crash ==
  /\ up /\ Spend("crash")
  /\ up' = FALSE /\ jobs' = 0
  /\ run' = Off /\ poll' = Idle /\ limited' = FALSE
  /\ UNCHANGED <<note, thread, branch, cleared, planned>>

\* ReconcileQueued.
Boot ==
  /\ ~up
  /\ up' = TRUE
  /\ jobs' = IF note.status = "queued" THEN 1 ELSE 0
  /\ UNCHANGED <<note, thread, run, poll, branch, limited, cleared, planned, left>>
-----------------------------------------------------------------------------
Process ==
  \/ BeginFresh \/ BeginResumed \/ Rejected \/ PlanUnusable \/ PlanWritten \/ Gate
  \/ SeedUnits \/ Post \/ StopForPlanReview \/ Block \/ BlockAtLimit \/ Code

Poll == Scan \/ FetchReactions \/ WriteVerdict \/ Repost \/ RecordMessage

Answer == \E m \in Answerable :
  WriteFeedback(thread[m].round) \/ \E mark \in {"yes", "no"} : React(m, mark)

Next ==
  \/ Claim \/ Process \/ PlannerFails \/ ApprovedPlanBroken \/ Poll
  \/ Answer \/ AutoResume \/ Crash \/ Boot
  \/ \E status \in Claimable : Edit(status)

Spec == Init /\ [][Next]_vars

\* The dispatcher, the worker and the poller go on, the runner is started again,
\* and people answer what is put to them.
FairSpec == Spec /\ WF_vars(Claim) /\ WF_vars(Process) /\ WF_vars(Poll)
                 /\ WF_vars(Answer) /\ WF_vars(Boot)
-----------------------------------------------------------------------------
(* What the review promises.                                                *)

TypeOK ==
  /\ note \in [status : Claimable \cup {"queued", "in_progress", "plan_review", "blocked", "done"},
               multi : {"unset", "yes", "no"}, plan : Nat, round : 0 .. MaxPlanRounds,
               units : Nat, msg : Nat, heads : SUBSET Rounds, text : SUBSET Rounds]
  /\ thread \in Seq([plan : Nat, round : Rounds, marks : SUBSET {"yes", "no"}])
  /\ up \in BOOLEAN /\ jobs \in Nat
  /\ run.at \in {"off", "planner", "replan", "gate", "seed", "approve", "bump", "post", "stop",
                 "stopUnposted", "block", "limit", "code"}
  /\ run.round \in Rounds /\ run.plan \in Nat /\ run.asked \subseteq {"question"}
  /\ poll \in [at : {"idle", "fetch", "write", "repost", "record"}, msg : Nat, plan : Nat,
               round : Rounds, feedback : BOOLEAN,
               verdict : {"none", "plan_approved", "plan_rejected"}]
  /\ branch \in BOOLEAN /\ limited \in BOOLEAN
  /\ cleared \subseteq Nat /\ planned \in Nat
  /\ left \in [Kinds -> Nat]

Untouched(kinds) == \A kind \in kinds : left[kind] = Budget[kind]

\* Once units are seeded the plan in the note is the one they came from, over
\* every later block, resume, restart and late reaction.
UnitsArePlan == note.units # 0 => note.units = note.plan

\* Each round is put to people once.  CurrentRoundReview reads the first heading
\* of a round, so a second one would be decided by the answer to the first plan.
RoundAskedOnce == At("post") => run.round \notin note.heads

\* Units come from a plan that the gate or a person let through and that nobody
\* has rejected since, as long as nothing is cut short, fails or is edited.
OnlyClearedPlansRun ==
  left = Budget => note.units \in cleared \cup {0}

\* The task is in the pool at most once, though the poller writes a status the
\* dispatcher claims and looks at it only before it asks Discord.  A person who
\* decides by hand in between breaks this.
OneJob == Untouched({"hand"}) => jobs + (IF At("off") THEN 0 ELSE 1) <= 1

\* What the gate let through, in the words of plangate.go: few units and no
\* hard-stop path, and "only a clear 'no' (< 0.35)" to both of its questions.
RulesSilent == run.judged.units <= 8 /\ ~run.judged.touches
ScoresClear == \A id \in Nouls :
  id \in DOMAIN run.reply /\ \E score \in run.reply[id].noul : score < 35

\* The planner's own questions are answered and surely so, and the best option
\* leads every other by the gap: "a close second place means Jev itself isn't sure".
ChoicesSure == \A id \in run.asked :
  /\ id \in DOMAIN run.reply /\ run.reply[id].choice # "none" /\ run.reply[id].confidence >= 60
Leads(probabilities, best) ==
  \A i \in DOMAIN probabilities \ {best} : probabilities[best] - probabilities[i] >= 15
ChoicesLead == \A id \in run.asked :
  LET probabilities == run.reply[id].probabilities
  IN  probabilities = <<>> \/ \E best \in DOMAIN probabilities : Leads(probabilities, best)

\* A plan runs with nobody asked only when the hard rules have nothing against it
\* and every question got a clear answer of its own kind, however Jev's reply is
\* made up (parts missing, a score for a choice or a choice for a score, the
\* probabilities in any order of the map, values at the thresholds).
UnseenPlanIsSure ==
  At("seed") => /\ RulesSilent /\ ScoresClear /\ ChoicesSure /\ ChoicesLead
                /\ \A id \in run.asked : run.reply[id].choice # ""

\* A message of an earlier round, which the note keeps when a post fails.
Stale == note.msg # 0 /\ thread[note.msg].round # Round

\* A task waiting for review is decided in the end: a message that could not be
\* posted is posted again.
ReviewIsSettled == note.status = "plan_review" ~> note.status # "plan_review" \/ Stale

\* "whether a valid plan can seed its units straight away or must wait for a
\* human" (planner.go:4-6): no third way to the units.
UnclearedPlansWait == note.units \in cleared \cup {0}
=============================================================================
