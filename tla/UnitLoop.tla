------------------------------ MODULE UnitLoop ------------------------------
(***************************************************************************)
(* The unit loop of a multi-unit task: internal/runner/unitloop.go with    *)
(* its entry and its finish in multiunit.go, over any number of runs of    *)
(* the same task.  The vault note is the only state that survives a run;   *)
(* the task's branch survives in the clone.  One step is one engine        *)
(* invocation or one vault write with what follows it up to the next.      *)
(***************************************************************************)
EXTENDS Integers, FiniteSetsExt

CONSTANTS N,          \* how many units the plan has
          MaxCommits  \* bound: commits made on the branch

\* What may go wrong in a run and matters to what is promised of it:
\* "unrecorded": a unit's first session did some work and is not in the note,
\*               for the runner stopped or the write that records it failed.
\* "unwritten":  the write of a block failed, and the work was preserved.
\* "leftover":   the work preserved is that of no unit with a session: a unit
\*               that is done left it, or a verify command.
\* "limit":      the review engine meets its usage limit.
Faults == {"unrecorded", "unwritten", "leftover", "limit"}

ASSUME UnitAssumption ==
  /\ N \in Nat \ {0}
  /\ MaxCommits \in Nat

Units == 1..N
UnitRoundCap == 3
TaskBudget == 2 * N
Pending == [status |-> "pending", session |-> FALSE, base |-> 0, head |-> 0, rounds |-> 0]
NoSession == [end |-> "over", id |-> FALSE]

VARIABLES
  units,    \* the note's units: in plan order
  current,  \* the note's current_unit, 0 for none
  status,   \* the note's status
  prURL,    \* whether the note's pr_url is set
  pc,       \* where the run is, "off" between runs
  session,  \* how the coding invocation ended and whether it reported an id
  tip,      \* commits on the task branch, numbered in order
  dirty,    \* work in the clone nobody has committed
  opened,   \* whether the pull request exists on GitHub
  read,     \* history: the commits some approving review had in its diff
  met       \* history: the faults met so far

noteVars == <<units, current, status, prURL>>
gitVars == <<tip, dirty, opened>>
history == <<read, met>>
vars == <<noteVars, pc, session, gitVars, history>>

\* seedUnits has written the plan's units and hands over to the loop.
Init ==
  /\ units = [u \in Units |-> Pending]
  /\ current = 1
  /\ status = "in_progress"
  /\ prURL = FALSE
  /\ pc = "top"
  /\ session = NoSession
  /\ tip = 0
  /\ dirty = FALSE
  /\ opened = FALSE
  /\ read = {}
  /\ met = {}

AllUnitsDone == \A u \in Units : units[u].status = "done"
TotalRounds == MapThenSumSet(LAMBDA u : units[u].rounds, Units)

\* checkUnitRoundCap: one more round would reach the unit's cap or pass the budget.
AtUnitCap == units[current].rounds + 1 >= UnitRoundCap
AtBudget == TotalRounds + 1 > TaskBudget
AtCap == AtUnitCap \/ AtBudget

\* Mutant: the next unit is skipped.
NextUnitSkips(u) == IF u + 1 < N THEN u + 2 ELSE 0

NextUnit(u) == IF u < N THEN u + 1 ELSE 0

-----------------------------------------------------------------------------
(* A run starts: claimed by the dispatcher, or found queued at a restart.   *)

\* Another task may have cleaned the clone meanwhile (pullAndBranch).
Begin ==
  /\ pc = "off" /\ status = "queued"
  /\ ~(AllUnitsDone /\ prURL)
  /\ pc' = IF AllUnitsDone THEN "finish" ELSE "top"
  /\ dirty' \in {dirty, FALSE}
  /\ UNCHANGED <<noteVars, session, tip, opened, history>>

\* A person, or an auto-resume, sends the note round again.
Resolve ==
  /\ pc = "off" /\ status \in {"blocked", "in_progress"}
  /\ status' = "queued"
  /\ UNCHANGED <<units, current, prURL, pc, session, gitVars, history>>

-----------------------------------------------------------------------------
(* The top of the loop and the building step.                               *)

LoopEnds ==
  /\ pc = "top" /\ current = 0
  /\ pc' = "finish"
  /\ UNCHANGED <<noteVars, session, gitVars, history>>

ReviewFirst ==
  /\ pc = "top" /\ current # 0
  /\ units[current].status = "review"
  /\ pc' = "review"
  /\ UNCHANGED <<noteVars, session, gitVars, history>>

\* A unit without a session gets its base_sha from the branch as it is now.
BuildFresh ==
  /\ pc = "top" /\ current # 0
  /\ units[current].status # "review" /\ ~units[current].session
  /\ units' = [units EXCEPT ![current].status = "building", ![current].base = tip]
  /\ pc' = "code"
  /\ UNCHANGED <<current, status, prURL, session, gitVars, history>>

BuildResumed ==
  /\ pc = "top" /\ current # 0
  /\ units[current].status # "review" /\ units[current].session
  /\ pc' = "code"
  /\ UNCHANGED <<noteVars, session, gitVars, history>>

-----------------------------------------------------------------------------
(* runCodingRound: the invocation, then the write that records it.          *)

\* A session ends at its usage limit, without a usable note-copy, blocked by
\* its own word, or in any other way: "over", of its own accord, killed or
\* crashed, which nothing tells apart.  Nobody asks whether it committed all
\* its work.  One that reported no id did nothing.
Code ==
  /\ pc = "code"
  /\ \E end \in {"over", "limit", "nocopy", "blocked"}, id \in BOOLEAN,
        t \in tip..MaxCommits, d \in BOOLEAN :
       /\ t <= tip + 1
       /\ ~id => t = tip /\ d = dirty
       /\ d => t < MaxCommits
       /\ session' = [end |-> end, id |-> id]
       /\ tip' = t
       /\ dirty' = d
  /\ pc' = "record"
  /\ UNCHANGED <<noteVars, opened, history>>

\* Mutant: the new head is not recorded.
RecordedOldHead == [units EXCEPT ![current].session = @ \/ session.id]

\* The session's id and the new head go to the note whatever the end was.
Recorded == [units EXCEPT ![current].session = @ \/ session.id, ![current].head = tip]

AfterRecord == CASE session.end = "over" -> "check"
                 [] session.end = "limit" -> "blockTask"
                 [] OTHER -> "blockUnit"

Record ==
  /\ pc = "record"
  /\ units' = Recorded
  /\ pc' = AfterRecord
  /\ session' = NoSession
  /\ UNCHANGED <<current, status, prURL, gitVars, history>>

\* The note stays without the unit's first session if that is not written now.
Unrecorded == IF pc = "record" /\ session.id /\ ~units[current].session THEN {"unrecorded"} ELSE {}

\* On a usage limit or a missing note-copy the write's error is discarded.
RecordDiscarded ==
  /\ pc = "record"
  /\ session.end \in {"limit", "nocopy"}
  /\ pc' = AfterRecord
  /\ session' = NoSession
  /\ met' = met \cup Unrecorded
  /\ UNCHANGED <<noteVars, gitVars, read>>

\* What the clone holds is committed on the branch, unless git fails (there is
\* room below the bound: see Code).
PreserveBlockedWork ==
  \/ dirty /\ tip' = tip + 1 /\ dirty' = FALSE
  \/ UNCHANGED <<tip, dirty>>

\* Whether the runner now commits what is no session's work to be reviewed.
LeftOver == IF tip' = tip \/ (current # 0 /\ units[current].session) THEN {} ELSE {"leftover"}

\* blockUnitTask: the note, then what the clone holds, then the alert; an
\* error of the first two is only logged.
Block ==
  /\ pc \in {"blockUnit", "blockTask"}
  /\ PreserveBlockedWork
  /\ \/ /\ status' = "blocked"
        /\ units' = IF pc = "blockUnit" THEN [units EXCEPT ![current].status = "blocked"] ELSE units
        /\ met' = met \cup LeftOver
     \/ /\ UNCHANGED <<status, units>>
        /\ met' = met \cup LeftOver \cup {"unwritten"}
  /\ pc' = "off"
  /\ UNCHANGED <<current, prURL, session, opened, read>>

-----------------------------------------------------------------------------
(* The verify and review cycle.                                             *)

\* The verify command may leave files in the clone.
RunUnitVerify == dirty' \in {dirty, tip < MaxCommits}

VerifyPasses ==
  /\ pc = "check" /\ units[current].status # "review"
  /\ RunUnitVerify
  /\ units' = [units EXCEPT ![current].status = "review"]
  /\ pc' = "review"
  /\ UNCHANGED <<current, status, prURL, session, tip, opened, history>>

VerifyFails ==
  /\ pc = "check" /\ units[current].status # "review"
  /\ ~AtCap
  /\ RunUnitVerify
  /\ units' = [units EXCEPT ![current].rounds = @ + 1]
  /\ pc' = "code"
  /\ UNCHANGED <<current, status, prURL, session, tip, opened, history>>

\* Mutant: the round is not counted.
ConcernsUncounted ==
  /\ pc = "review"
  /\ ~AtCap
  /\ units' = [units EXCEPT ![current].status = "building"]
  /\ pc' = "code"
  /\ UNCHANGED <<current, status, prURL, session, gitVars, history>>

Concerns ==
  /\ pc = "review"
  /\ ~AtCap
  /\ units' = [units EXCEPT ![current].rounds = @ + 1, ![current].status = "building"]
  /\ pc' = "code"
  /\ UNCHANGED <<current, status, prURL, session, gitVars, history>>

\* Either of the two above, with no round left to spend.
RoundRefused ==
  /\ \/ pc = "check" /\ RunUnitVerify
     \/ pc = "review" /\ UNCHANGED dirty
  /\ AtCap
  /\ pc' = "blockUnit"
  /\ UNCHANGED <<noteVars, session, tip, opened, history>>

\* The review read base_sha..head_sha of the unit.
Approve ==
  /\ pc = "review"
  /\ read' = read \cup (units[current].base + 1)..units[current].head
  /\ units' = [units EXCEPT ![current].status = "done"]
  /\ current' = NextUnit(current)
  /\ pc' = "top"
  /\ UNCHANGED <<status, prURL, session, gitVars, met>>

\* The loop returns nil, and its caller goes on to finish the task.
ReviewLimit ==
  /\ pc = "review"
  /\ pc' = "finish"
  /\ met' = met \cup {"limit"}
  /\ UNCHANGED <<noteVars, session, gitVars, read>>

\* A timeout or a failing reviewer: the error goes up, and no one is told.
ReviewFails ==
  /\ pc = "review"
  /\ pc' = "off"
  /\ UNCHANGED <<noteVars, session, gitVars, history>>

-----------------------------------------------------------------------------
(* finishMultiUnitTask and blockOpenPRFailure.                              *)

OpenTaskPR ==
  /\ pc = "finish" /\ ~opened
  /\ opened' = TRUE
  /\ pc' = "opened"
  /\ UNCHANGED <<noteVars, session, tip, dirty, history>>

\* The push or gh fails; gh refuses a second pull request for one branch.
OpenTaskPRFails ==
  /\ pc = "finish"
  /\ PreserveBlockedWork
  /\ status' \in {"blocked", status}
  /\ met' = met \cup LeftOver
  /\ pc' = "off"
  /\ UNCHANGED <<units, current, prURL, session, opened, read>>

WriteDone ==
  /\ pc = "opened"
  /\ status' = "done"
  /\ prURL' = TRUE
  /\ pc' = "off"
  /\ UNCHANGED <<units, current, session, gitVars, history>>

\* The runner stops, or a vault read or write fails: the run ends where it is
\* and leaves the note as it was.
Stop ==
  /\ pc # "off"
  /\ pc' = "off"
  /\ session' = NoSession
  /\ met' = met \cup Unrecorded
  /\ UNCHANGED <<noteVars, gitVars, read>>

-----------------------------------------------------------------------------
Build == LoopEnds \/ ReviewFirst \/ BuildFresh \/ BuildResumed
Round == Code \/ Record \/ RecordDiscarded \/ Block
Verdict == VerifyPasses \/ VerifyFails \/ Concerns \/ RoundRefused \/ Approve
             \/ ReviewLimit \/ ReviewFails
Finish == OpenTaskPR \/ OpenTaskPRFails \/ WriteDone

Next == Begin \/ Resolve \/ Build \/ Round \/ Verdict \/ Finish \/ Stop

Spec == Init /\ [][Next]_vars

\* A run goes on by itself: the idle watchdog ends the coding sessions, the
\* timeouts end verify and review, but for what EngineSession's SilentSessionEnds
\* excepts.  Nobody need start another.
FairSpec == Spec /\ WF_vars(Build \/ Round \/ Verdict \/ Finish)

-----------------------------------------------------------------------------
(* What the unit loop promises.                                             *)

Unit == [status : {"pending", "building", "review", "done", "blocked"},
         session : BOOLEAN, base : 0..MaxCommits, head : 0..MaxCommits, rounds : Nat]

Session == [end : {"over", "limit", "nocopy", "blocked"}, id : BOOLEAN]

\* Where a run is about one unit.
AtUnit == {"code", "record", "check", "review", "blockUnit", "blockTask"}

\* Types, and what each place of a run says of the current unit.
TypeOK ==
  /\ units \in [Units -> Unit]
  /\ current \in 0..N
  /\ status \in {"in_progress", "queued", "blocked", "done"}
  /\ prURL \in BOOLEAN /\ opened \in BOOLEAN /\ dirty \in BOOLEAN
  /\ pc \in AtUnit \cup {"off", "top", "finish", "opened"}
  /\ session \in Session
  /\ tip \in 0..MaxCommits
  /\ dirty => tip < MaxCommits
  /\ read \subseteq 1..MaxCommits /\ met \subseteq Faults
  /\ pc \in AtUnit => current # 0

\* Units are worked through in plan order, over any number of blocks, restarts
\* and resumes: those before current_unit are done, those after it untouched.
UnitsInOrder ==
  /\ \A u \in Units : units[u].status = "done" <=> (current = 0 \/ u < current)
  /\ \A u \in Units : current # 0 /\ u > current => units[u] = Pending

\* However often a task is resumed, a unit's review rounds stay below the cap:
\* a resume does not hand out new ones (checkUnitRoundCap reads the note).
RoundsBelowCap == \A u \in Units : units[u].rounds < UnitRoundCap

\* The task-wide budget refuses no round the unit's own cap would not refuse:
\* with the cap and the budget as they are, the second check decides nothing.
\* The comment of checkUnitRoundCap (unitloop.go:105-109) and
\* TestUnitLoopTaskBudgetBlocks (unitloop_test.go:431) have the budget block a
\* unit below its cap; the test starts from a note no run writes, with four
\* rounds spent by one unit.
BudgetNeverDecides == pc \in {"check", "review"} /\ AtBudget => AtUnitCap

\* A unit waiting for review, whichever run it waits for, has the tip of the
\* branch as its head_sha: nothing was committed behind the reviewer's back.
\* Two exceptions: a block at a review whose write failed leaves the unit at
\* review under a preserve commit, and after the review engine's limit the task
\* is finished with the unit still at review and may gain one.
ReviewReadsTheTip ==
  met \cap {"limit", "unwritten"} = {} =>
    \A u \in Units : units[u].status = "review" => units[u].head = tip

\* The pull request is opened only when every unit is done: "runs the unit
\* loop, then -- only if it returned nil because every unit reached done --
\* finishes the task" (multiunit.go:141-142).
FinishedMeansDone == opened => AllUnitsDone

\* Only the review engine's limit makes an exception to that: no crash, block
\* or resume opens a pull request over an unfinished unit.
FinishedUnlessLimited == "limit" \notin met => FinishedMeansDone

\* Every commit of the pull request was in the diff of an approving review,
\* however often the task stopped or blocked and was resumed, and though its
\* sessions leave work uncommitted: "Each unit's own diff was already reviewed
\* on its own merits" (mergegate_gh.go:278, what the integration reviewer is
\* told).  The faults make the exceptions, each of which puts an unread commit
\* in a pull request: a first session nobody recorded, whose commits end up
\* below the base_sha of the next; leftovers committed for a unit that has no
\* session, or for none when the pull request could not be opened; a block at a
\* review that was not written; and a pull request over an unfinished unit.
EveryCommitReviewed == opened /\ met = {} => 1..tip \subseteq read

\* A run comes to an end whatever verify and the reviewer say.
RunEnds == pc # "off" ~> pc = "off"
=============================================================================
