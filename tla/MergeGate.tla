------------------------------ MODULE MergeGate ------------------------------
(***************************************************************************)
(* The merge gate of internal/runner (mergegate.go, mergegate_gh.go): a    *)
(* fresh review and the branch's CI decide whether the runner merges the   *)
(* pull request of a done auto_merge task, and the coding session is       *)
(* resumed with what either found.  GitHub, CI, the resumed session and    *)
(* people act between any two calls of the gate.  One step is one call of  *)
(* gh, git or an engine.                                                   *)
(***************************************************************************)
EXTENDS Naturals, SequencesExt

CONSTANTS MaxMergeGateRounds,  \* rounds shared by concerns and CI failures
          Workflows,           \* the workflow files a repository may have
          MaxHead,             \* bound: commits the branch may get
          MaxStrays            \* bound: commits among them pushed by people

\* What a reviewer's first line may amount to.
\* "approve", "concerns": the two verdicts asked for.  "unclear": neither word.
\* "refusal": any other first line with APPROVE in it, "VERDICT: DISAPPROVE".
Answers == {"approve", "concerns", "unclear", "refusal"}

ASSUME GateAssumption ==
  /\ MaxMergeGateRounds \in Nat \ {0}
  /\ MaxHead \in Nat \ {0} /\ MaxStrays \in Nat

VARIABLES
  pr,        \* GitHub: the state of the pull request
  author,    \* GitHub: author[c] is who pushed commit c of the branch
  runs,      \* GitHub: the CI runs of the branch, newest last
  flows,     \* the workflow files in the clone, which the branch has too
  coding,    \* whether a resumed coding session is alive
  at,        \* where RunMergeGateLoop is
  round,     \* its round, from 0
  reviewed,  \* the commit whose diff the latest review read, 0 before any
  answer,    \* what that review answered
  result,    \* how the loop ended
  alert,     \* the message runMergeGateForTask had sent about it
  merger,    \* history: who merged the pull request
  sessions   \* history: how often the coding session was resumed

github == <<pr, author, runs, flows, merger>>
loop == <<at, round, reviewed, answer, result, alert, sessions>>
vars == <<github, coding, loop>>

Tip == Len(author)
CommitsBy(who) == {c \in 1..Tip : author[c] = who}

Init ==
  /\ pr = "open" /\ author = <<"task">> /\ runs = <<>> /\ merger = "nobody"
  /\ flows \in SUBSET Workflows
  /\ coding = FALSE
  /\ at = "start" /\ round = 0 /\ reviewed = 0 /\ answer = "none"
  /\ result = "none" /\ alert = "none" /\ sessions = 0
-----------------------------------------------------------------------------
\* The loop returns: with a nil error, or one of those the caller tells apart.
Ends(r) == at' = "ended" /\ result' = r

\* checkPROpen before the first review.
CheckOpen ==
  /\ at = "start"
  /\ IF pr = "open" THEN at' = "review" /\ UNCHANGED result ELSE Ends("outside")
  /\ UNCHANGED <<github, coding, round, reviewed, answer, alert, sessions>>

\* RunReview fetches the body and the branch afresh and starts the reviewer;
\* it does not look at the state of the pull request.
FetchDiff ==
  /\ at = "review"
  /\ at' = "reading"
  /\ reviewed' = Tip
  /\ UNCHANGED <<github, coding, round, answer, result, alert, sessions>>

\* parseReviewVerdict: APPROVE anywhere in the first line, else concerns.
Verdict(a) == IF a \in {"approve", "refusal"} THEN "APPROVE" ELSE "CONCERNS"

\* The reviewer answers; its verdict is posted and decides what comes next.
ReviewAnswers(a) ==
  /\ at = "reading"
  /\ answer' = a
  /\ at' = IF Verdict(a) = "APPROVE" THEN "ci" ELSE "resume"
  /\ UNCHANGED <<github, coding, round, reviewed, result, alert, sessions>>

Newest == runs[Len(runs)]

\* WaitForCI of a repository without workflow files.
NoCI ==
  /\ at = "ci" /\ flows = {}
  /\ at' = "recheck"
  /\ UNCHANGED <<github, coding, round, reviewed, answer, result, alert, sessions>>

\* WaitForCI finds the newest run of the branch completed: whichever workflow
\* and whichever commit it ran.
ReadCI ==
  /\ at = "ci" /\ flows # {} /\ runs # <<>> /\ Newest.status # "pending"
  /\ at' = IF Newest.status = "success" THEN "recheck" ELSE "resume"
  /\ UNCHANGED <<github, coding, round, reviewed, answer, result, alert, sessions>>

\* Mutant: the wait gives up on a run that does not end, not for want of one.
CITimesOutOnPending ==
  /\ at = "ci" /\ flows # {} /\ runs # <<>> /\ Newest.status = "pending"
  /\ Ends("error")
  /\ UNCHANGED <<github, coding, round, reviewed, answer, alert, sessions>>

\* Thirty minutes without a run, or with the newest one not completed.
CITimesOut ==
  /\ at = "ci" /\ flows # {}
  /\ runs # <<>> => Newest.status = "pending"
  /\ Ends("error")
  /\ UNCHANGED <<github, coding, round, reviewed, answer, alert, sessions>>

\* Mutant: the state is not looked at again.
RecheckSkipped ==
  /\ at = "recheck"
  /\ at' = "merge"
  /\ UNCHANGED <<github, coding, round, reviewed, answer, result, alert, sessions>>

\* checkPROpen right before the merge.
Recheck ==
  /\ at = "recheck"
  /\ IF pr = "open" THEN at' = "merge" /\ UNCHANGED result ELSE Ends("outside")
  /\ UNCHANGED <<github, coding, round, reviewed, answer, alert, sessions>>

\* gh pr merge --squash: GitHub merges whatever the head is by now.
Merge ==
  /\ at = "merge" /\ pr = "open"
  /\ pr' = "merged" /\ merger' = "gate"
  /\ Ends("merged")
  /\ UNCHANGED <<author, runs, flows, coding, round, reviewed, answer, alert, sessions>>

\* gh reports an error though GitHub has merged.
MergeAnswerLost ==
  /\ at = "merge" /\ pr = "open"
  /\ pr' = "merged" /\ merger' = "gate"
  /\ Ends("error")
  /\ UNCHANGED <<author, runs, flows, coding, round, reviewed, answer, alert, sessions>>

\* gh says that the pull request was already merged, and exits with 0.
MergeAlreadyDone ==
  /\ at = "merge" /\ pr = "merged"
  /\ Ends("merged")
  /\ UNCHANGED <<github, coding, round, reviewed, answer, alert, sessions>>

\* gh refuses to merge a pull request that is closed by now.
MergeRefused ==
  /\ at = "merge" /\ pr = "closed"
  /\ Ends("error")
  /\ UNCHANGED <<github, coding, round, reviewed, answer, alert, sessions>>

\* The reviewer exits with an error, or is killed after its five minutes.
ReviewFails ==
  /\ at = "reading"
  /\ Ends("error")
  /\ UNCHANGED <<github, coding, round, reviewed, answer, alert, sessions>>

\* A call of gh or git fails.
CallFails ==
  /\ at \in {"start", "review", "ci", "recheck", "merge"}
  /\ Ends("error")
  /\ UNCHANGED <<github, coding, round, reviewed, answer, alert, sessions>>
-----------------------------------------------------------------------------
\* ResumeWithFeedback starts the coding session again.
ResumeWithFeedback ==
  /\ at = "resume"
  /\ at' = "coding" /\ coding' = TRUE
  /\ sessions' = sessions + 1
  /\ UNCHANGED <<github, round, reviewed, answer, result, alert>>

\* Mutant: after its fix a session's work goes back to CI, not to review.
SessionReturnsToCI ==
  /\ at = "coding"
  /\ coding' = FALSE
  /\ round' = round + 1
  /\ IF round' < MaxMergeGateRounds
       THEN at' = (IF Verdict(answer) = "APPROVE" THEN "ci" ELSE "review") /\ UNCHANGED result
       ELSE Ends("limit")
  /\ UNCHANGED <<github, reviewed, answer, alert, sessions>>

\* The session ends well: the next round begins with a review, if one is left.
SessionReturns ==
  /\ at = "coding"
  /\ coding' = FALSE
  /\ round' = round + 1
  /\ IF round' < MaxMergeGateRounds THEN at' = "review" /\ UNCHANGED result ELSE Ends("limit")
  /\ UNCHANGED <<github, reviewed, answer, alert, sessions>>

\* It fails, or its idle watchdog kills it.
SessionFails ==
  /\ at = "coding"
  /\ coding' = FALSE
  /\ Ends("error")
  /\ UNCHANGED <<github, round, reviewed, answer, alert, sessions>>

\* runMergeGateForTask: a log line for a merge, its own or not, and a message
\* for anything else.
Report ==
  /\ at = "ended"
  /\ at' = "over"
  /\ alert' = IF result = "merged" THEN "none" ELSE result
  /\ UNCHANGED <<github, coding, round, reviewed, answer, result, sessions>>

\* The daemon stops.  The note is done already, so no boot takes the gate up
\* again; the session, in a process group of its own, may live on.
Crash ==
  /\ at # "over"
  /\ at' = "over" /\ result' = "lost"
  /\ UNCHANGED <<github, coding, round, reviewed, answer, alert, sessions>>
-----------------------------------------------------------------------------
\* A commit is pushed to the branch.
Push(who) ==
  /\ pr = "open" /\ Tip < MaxHead
  /\ author' = Append(author, who)
  /\ UNCHANGED <<pr, runs, flows, merger, coding, loop>>

\* The session pushes what it was told to fix.
SessionPushes == coding /\ Push("session")

\* A session or a person merges or closes the pull request past the gate.
ClosedOutside(who) ==
  /\ who = "session" => coding
  /\ pr = "open"
  /\ \/ pr' = "merged" /\ merger' = who
     \/ pr' = "closed" /\ UNCHANGED merger
  /\ UNCHANGED <<author, runs, flows, coding, loop>>

\* Somebody else pushes to the branch.
StrayPush == Len(SelectSeq(author, LAMBDA who : who = "person")) < MaxStrays /\ Push("person")

\* A session the daemon no longer waits for ends.
OrphanEnds ==
  /\ at # "coding" /\ coding
  /\ coding' = FALSE
  /\ UNCHANGED <<github, loop>>

\* GitHub creates the run of workflow w for commit c, some time after the push
\* and not after a run of a newer commit.
RunAppears(c, w) ==
  /\ \A i \in 1..Len(runs) : runs[i].commit <= c /\ <<runs[i].commit, runs[i].flow>> # <<c, w>>
  /\ runs' = Append(runs, [commit |-> c, flow |-> w, status |-> "pending"])
  /\ UNCHANGED <<pr, author, flows, merger, coding, loop>>

RunCompletes(i, s) ==
  /\ runs[i].status = "pending"
  /\ runs' = [runs EXCEPT ![i].status = s]
  /\ UNCHANGED <<pr, author, flows, merger, coding, loop>>
-----------------------------------------------------------------------------
\* What the gate does when gh and git answer.
Proceeds ==
  \/ CheckOpen \/ FetchDiff \/ NoCI \/ ReadCI \/ CITimesOut \/ Recheck
  \/ Merge \/ MergeAlreadyDone \/ MergeRefused \/ ReviewFails
  \/ \E a \in Answers : ReviewAnswers(a)
  \/ ResumeWithFeedback \/ SessionReturns \/ SessionFails \/ Report

Others ==
  \/ SessionPushes \/ StrayPush \/ OrphanEnds
  \/ \E who \in {"session", "person"} : ClosedOutside(who)
  \/ \E c \in 1..Tip, w \in flows : RunAppears(c, w)
  \/ \E i \in 1..Len(runs), s \in {"success", "failure"} : RunCompletes(i, s)

Next == Proceeds \/ MergeAnswerLost \/ CallFails \/ Others \/ Crash

Spec == Init /\ [][Next]_vars

\* gh and git return, the wait for CI gives up after thirty minutes, a session
\* that falls silent is killed, and a reviewer after five minutes; that the last
\* two come back then holds but for processes that leave their group, or that a
\* reviewer leaves behind (SilentSessionEnds of EngineSession).  Nothing is
\* assumed of GitHub, CI or people, nor that any call succeeds or fails.
FairSpec == Spec /\ WF_vars(Proceeds)
-----------------------------------------------------------------------------
Steps == {"start", "review", "reading", "ci", "recheck", "merge", "resume", "coding",
          "ended", "over"}

Run == [commit : 1..MaxHead, flow : Workflows, status : {"pending", "success", "failure"}]

TypeOK ==
  /\ pr \in {"open", "merged", "closed"}
  /\ author \in Seq({"task", "session", "person"}) /\ Tip \in 1..MaxHead
  /\ runs \in Seq(Run)
  /\ flows \subseteq Workflows
  /\ coding \in BOOLEAN
  /\ at \in Steps
  /\ round \in 0..MaxMergeGateRounds /\ sessions \in 0..MaxMergeGateRounds
  /\ reviewed \in 0..MaxHead
  /\ answer \in Answers \cup {"none"}
  /\ result \in {"none", "merged", "limit", "outside", "error", "lost"}
  /\ alert \in {"none", "limit", "outside", "error"}
  /\ merger \in {"nobody", "gate", "session", "person"}

\* "a fix for one thing could plausibly break something the reviewer would
\* catch" (mergegate.go:75-76): the gate merges no commit of the task or of a
\* resumed session before a review that read it said APPROVE and, in a
\* repository with CI, some run of the branch was green, whichever of the two
\* sent the session back and in whichever round.  What a person pushes between
\* that review and the merge is all that escapes it.
MergedWasChecked ==
  merger = "gate" =>
    /\ \A c \in CommitsBy("task") \cup CommitsBy("session") : c <= reviewed
    /\ Verdict(answer) = "APPROVE"
    /\ flows # {} => \E i \in 1..Len(runs) : runs[i].status = "success"

\* "the shared budget between review CONCERNS and CI failure" (mergegate.go:8): the
\* loop gives up after exactly that many resumed sessions, and never resumes
\* the session once more.
SharedBudget ==
  /\ sessions <= MaxMergeGateRounds
  /\ result = "limit" => sessions = MaxMergeGateRounds

\* No news is good news: when the gate is through without a crash and nobody
\* was sent a message, the pull request is merged, all that the task and its
\* sessions pushed had been approved and CI had been green.  Whoever merged it
\* between the gate's last look and its own attempt, which is then reported as
\* its own, was a person: that a session did it, as "the pi builder ran `gh pr
\* merge --auto` itself" (mergegate.go:70-71), does not go by in silence.
SilenceMeansChecked ==
  at = "over" /\ result # "lost" /\ alert = "none" =>
    /\ pr = "merged" /\ merger # "session"
    /\ \A c \in CommitsBy("task") \cup CommitsBy("session") : c <= reviewed
    /\ Verdict(answer) = "APPROVE"
    /\ flows # {} => \E i \in 1..Len(runs) : runs[i].status = "success"

\* "executed by the runner itself", gated by "real CI" (mergegate.go:1-3): the
\* gate merges only what every workflow passed on.  Right after a session has
\* pushed its fix the newest run may still be that of the commit before.
MergedIsGreen ==
  merger = "gate" /\ CommitsBy("person") = {} =>
    \A w \in flows : \E i \in 1..Len(runs) :
      runs[i] = [commit |-> Tip, flow |-> w, status |-> "success"]

\* The loop ends whatever GitHub, CI, the reviewer and people do.
GateSettles == <>(at = "over")
=============================================================================
