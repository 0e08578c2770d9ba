-------------------------- MODULE MergeGate_proofs --------------------------
(***************************************************************************)
(* What is proved of MergeGate for any budget of rounds, any workflows and *)
(* branches of any length: the types, the budget, every safety property    *)
(* gate_runs checks, and that the loop is finite.                          *)
(***************************************************************************)
EXTENDS MergeGate, SequenceTheorems, TLAPS

\* The initial state has the types.
LEMMA TypeInit == Init => TypeOK
<1> SUFFICES ASSUME Init PROVE TypeOK
  OBVIOUS
<1>1. author \in Seq({"task", "session", "person"}) /\ Tip \in 1..MaxHead
  BY GateAssumption DEF Init, Tip
<1>2. runs \in Seq(Run)
  BY DEF Init
<1>3. coding \in BOOLEAN
  BY Zenon DEF Init
<1>4. /\ pr \in {"open", "merged", "closed"} /\ flows \subseteq Workflows
      /\ at \in Steps /\ answer \in Answers \cup {"none"}
      /\ result \in {"none", "merged", "limit", "outside", "error", "lost"}
      /\ alert \in {"none", "limit", "outside", "error"}
      /\ merger \in {"nobody", "gate", "session", "person"}
  BY DEF Init, Steps
<1>5. /\ round \in 0..MaxMergeGateRounds /\ sessions \in 0..MaxMergeGateRounds
      /\ reviewed \in 0..MaxHead
  BY GateAssumption DEF Init
<1> QED BY <1>1, <1>2, <1>3, <1>4, <1>5 DEF TypeOK

\* Where RunMergeGateLoop is while a round has not resumed its session.
Before == {"start", "review", "reading", "ci", "recheck", "merge", "resume"}

\* Rounds and sessions run together, and what the loop ended with is known
\* exactly when it has ended.
BudgetInv ==
  /\ at \in Before => sessions = round /\ round < MaxMergeGateRounds
  /\ at = "coding" => sessions = round + 1 /\ round < MaxMergeGateRounds
  /\ result = "limit" => sessions = MaxMergeGateRounds
  /\ at = "ended" => result \in {"merged", "limit", "outside", "error"}
  /\ result = "none" <=> at \notin {"ended", "over"}

\* Every step keeps that count.
LEMMA BudgetStep ==
  ASSUME TypeOK, BudgetInv, [Next]_vars
  PROVE  BudgetInv' /\ round' \in 0..MaxMergeGateRounds /\ sessions' \in 0..MaxMergeGateRounds
<1> USE GateAssumption DEF BudgetInv, Before
<1>0. round \in 0..MaxMergeGateRounds /\ sessions \in 0..MaxMergeGateRounds
  BY DEF TypeOK
<1>1. CASE CheckOpen
  BY <1>0, <1>1 DEF CheckOpen, Ends
<1>2. CASE FetchDiff
  BY <1>0, <1>2 DEF FetchDiff
<1>3. CASE \E a \in Answers : ReviewAnswers(a)
  BY <1>0, <1>3 DEF ReviewAnswers
<1>4. CASE NoCI \/ ReadCI
  BY <1>0, <1>4 DEF NoCI, ReadCI
<1>5. CASE CITimesOut \/ ReviewFails \/ CallFails
  BY <1>0, <1>5 DEF CITimesOut, ReviewFails, CallFails, Ends
<1>6. CASE Recheck
  BY <1>0, <1>6 DEF Recheck, Ends
<1>7. CASE Merge \/ MergeAnswerLost \/ MergeAlreadyDone \/ MergeRefused
  BY <1>0, <1>7 DEF Merge, MergeAnswerLost, MergeAlreadyDone, MergeRefused, Ends
<1>8. CASE ResumeWithFeedback
  BY <1>0, <1>8 DEF ResumeWithFeedback
<1>9. CASE SessionReturns
  BY <1>0, <1>9 DEF SessionReturns, Ends
<1>10. CASE SessionFails
  BY <1>0, <1>10 DEF SessionFails, Ends
<1>11. CASE Report \/ Crash
  BY <1>0, <1>11 DEF Report, Crash
<1>12. CASE Others
  <2>1. UNCHANGED loop
    BY <1>12, Zenon DEF Others, SessionPushes, StrayPush, Push, OrphanEnds, ClosedOutside, RunAppears,
       RunCompletes
  <2> QED BY <1>0, <2>1 DEF loop
<1>13. CASE UNCHANGED vars
  BY <1>0, <1>13 DEF vars, loop
<1> QED
  BY <1>1, <1>2, <1>3, <1>4, <1>5, <1>6, <1>7, <1>8, <1>9, <1>10, <1>11, <1>12, <1>13
     DEF Next, Proceeds

\* What a push does to the branch.
LEMMA PushStays ==
  ASSUME TypeOK, NEW who \in {"session", "person"}, Push(who)
  PROVE  /\ author' \in Seq({"task", "session", "person"})
         /\ Tip' \in 1..MaxHead /\ Tip' = Tip + 1
         /\ \A c \in 1..Tip : author'[c] = author[c]
         /\ author'[Tip + 1] = who
<1>1. author \in Seq({"task", "session", "person"}) /\ Tip \in 1..MaxHead /\ Tip = Len(author)
  BY DEF TypeOK, Tip
<1>2. author' = Append(author, who) /\ Tip < MaxHead /\ who \in {"task", "session", "person"}
  BY DEF Push
<1>3. /\ author' \in Seq({"task", "session", "person"})
      /\ Len(author') = Len(author) + 1
      /\ \A c \in 1..Len(author) : author'[c] = author[c]
      /\ author'[Len(author) + 1] = who
  BY <1>1, <1>2, AppendProperties
<1> QED BY <1>1, <1>2, <1>3, GateAssumption DEF Tip

\* A CI run appears at the end and never loses a success.
LEMMA RunsStay ==
  ASSUME TypeOK, \/ \E c \in 1..Tip, w \in flows : RunAppears(c, w)
                 \/ \E i \in 1..Len(runs), s \in {"success", "failure"} : RunCompletes(i, s)
  PROVE  /\ runs' \in Seq(Run)
         /\ \A i \in 1..Len(runs) : 
              i \in 1..Len(runs') /\ (runs[i].status = "success" => runs'[i].status = "success")
<1>1. runs \in Seq(Run) /\ flows \subseteq Workflows /\ Tip \in 1..MaxHead
  BY DEF TypeOK
<1>2. ASSUME NEW c \in 1..Tip, NEW w \in flows, RunAppears(c, w)
      PROVE  runs' = Append(runs, [commit |-> c, flow |-> w, status |-> "pending"])
  BY <1>2 DEF RunAppears
<1>3. ASSUME NEW c \in 1..Tip, NEW w \in flows
      PROVE  [commit |-> c, flow |-> w, status |-> "pending"] \in Run
  BY <1>1, GateAssumption DEF Run
<1>4. CASE \E c \in 1..Tip, w \in flows : RunAppears(c, w)
  <2>1. PICK r \in Run : runs' = Append(runs, r)
    BY <1>2, <1>3, <1>4
  <2>2. runs' \in Seq(Run) /\ Len(runs') = Len(runs) + 1 /\ \A i \in 1..Len(runs) : runs'[i] = runs[i]
    BY <1>1, <2>1, AppendProperties
  <2>3. Len(runs) \in Nat
    BY <1>1
  <2> QED BY <2>2, <2>3
<1>5. CASE \E i \in 1..Len(runs), s \in {"success", "failure"} : RunCompletes(i, s)
  <2>1. PICK i \in 1..Len(runs), s \in {"success", "failure"} : RunCompletes(i, s)
    BY <1>5
  <2> DEFINE r == [runs[i] EXCEPT !.status = s]
  <2>2. runs' = [runs EXCEPT ![i] = r] /\ runs[i].status = "pending"
    BY <2>1, Zenon DEF RunCompletes
  <2>3. runs[i] \in Run
    BY <1>1
  <2>4. r \in Run
    BY <2>3 DEF Run
  <2> HIDE DEF r
  <2>5. /\ runs' \in Seq(Run) /\ Len(runs') = Len(runs)
        /\ \A j \in 1..Len(runs) : runs'[j] = IF j = i THEN r ELSE runs[j]
    BY <1>1, <2>2, <2>4, ExceptSeq
  <2> QED BY <2>2, <2>5
<1> QED BY <1>4, <1>5

\* The variables that only take one of a few values.
Places ==
  /\ pr \in {"open", "merged", "closed"} /\ flows \subseteq Workflows
  /\ at \in Steps /\ answer \in Answers \cup {"none"}
  /\ result \in {"none", "merged", "limit", "outside", "error", "lost"}
  /\ alert \in {"none", "limit", "outside", "error"}
  /\ merger \in {"nobody", "gate", "session", "person"}
  /\ reviewed \in 0..MaxHead
  /\ coding \in BOOLEAN

\* They keep to those values.
LEMMA PlacesStep ==
  ASSUME TypeOK, BudgetInv, [Next]_vars
  PROVE  Places'
<1> USE DEF Places
<1>0. Places /\ Tip \in 1..MaxHead
  BY DEF TypeOK
<1>1. CASE CheckOpen \/ Recheck
  BY <1>0, <1>1 DEF CheckOpen, Recheck, Ends, Steps, github
<1>2. CASE FetchDiff
  BY <1>0, <1>2, GateAssumption DEF FetchDiff, Steps, github
<1>3. CASE \E a \in Answers : ReviewAnswers(a)
  BY <1>0, <1>3 DEF ReviewAnswers, Steps, github
<1>4. CASE NoCI \/ ReadCI \/ CITimesOut
  BY <1>0, <1>4 DEF NoCI, ReadCI, CITimesOut, Ends, Steps, github
<1>5. CASE ReviewFails \/ CallFails
  BY <1>0, <1>5 DEF ReviewFails, CallFails, Ends, Steps, github
<1>6. CASE Merge \/ MergeAnswerLost \/ MergeAlreadyDone \/ MergeRefused
  BY <1>0, <1>6 DEF Merge, MergeAnswerLost, MergeAlreadyDone, MergeRefused, Ends, Steps, github
<1>7. CASE ResumeWithFeedback
  BY <1>0, <1>7 DEF ResumeWithFeedback, Steps, github
<1>8. CASE SessionReturns \/ SessionFails
  BY <1>0, <1>8 DEF SessionReturns, SessionFails, Ends, Steps, github
<1>9. CASE Report
  BY <1>0, <1>9 DEF BudgetInv, Report, Steps, github
<1>10. CASE Crash
  BY <1>0, <1>10 DEF Crash, Steps, github
<1>11. CASE SessionPushes \/ StrayPush
  BY <1>0, <1>11 DEF SessionPushes, StrayPush, Push, loop
<1>12. CASE OrphanEnds
  BY <1>0, <1>12 DEF OrphanEnds, loop, github
<1>13. CASE \E who \in {"session", "person"} : ClosedOutside(who)
  BY <1>0, <1>13 DEF ClosedOutside, loop
<1>14. CASE \/ \E c \in 1..Tip, w \in flows : RunAppears(c, w)
            \/ \E i \in 1..Len(runs), s \in {"success", "failure"} : RunCompletes(i, s)
  <2>1. UNCHANGED <<pr, flows, merger, coding, loop>>
    BY <1>14, Zenon DEF RunAppears, RunCompletes
  <2> QED BY <1>0, <2>1 DEF loop
<1>15. CASE UNCHANGED vars
  BY <1>0, <1>15 DEF vars, github, loop
<1> QED
  BY <1>1, <1>2, <1>3, <1>4, <1>5, <1>6, <1>7, <1>8, <1>9, <1>10, <1>11, <1>12, <1>13, <1>14, <1>15
     DEF Next, Proceeds, Others

\* What the branch and its runs become in any step.
LEMMA BranchStep ==
  ASSUME TypeOK, [Next]_vars
  PROVE  \/ UNCHANGED <<author, runs>>
         \/ UNCHANGED runs /\ UNCHANGED loop /\ (SessionPushes \/ StrayPush)
         \/ /\ UNCHANGED author /\ UNCHANGED <<pr, flows, merger, coding, loop>>
            /\ \/ \E c \in 1..Tip, w \in flows : RunAppears(c, w)
               \/ \E i \in 1..Len(runs), s \in {"success", "failure"} : RunCompletes(i, s)
<1>1. CASE Proceeds \/ MergeAnswerLost \/ CallFails \/ Crash
  BY <1>1 DEF Proceeds, CheckOpen, FetchDiff, NoCI, ReadCI, CITimesOut, Recheck, Merge, MergeAnswerLost,
    MergeAlreadyDone, MergeRefused, ReviewFails, ReviewAnswers, ResumeWithFeedback, SessionReturns, SessionFails, Report,
    CallFails, Crash, github
<1>2. CASE SessionPushes \/ StrayPush
  BY <1>2 DEF SessionPushes, StrayPush, Push
<1>3. CASE OrphanEnds \/ \E who \in {"session", "person"} : ClosedOutside(who)
  BY <1>3 DEF OrphanEnds, ClosedOutside, github
<1>4. CASE \/ \E c \in 1..Tip, w \in flows : RunAppears(c, w)
           \/ \E i \in 1..Len(runs), s \in {"success", "failure"} : RunCompletes(i, s)
  BY <1>4 DEF RunAppears, RunCompletes
<1>5. CASE UNCHANGED vars
  BY <1>5 DEF vars, github
<1> QED BY <1>1, <1>2, <1>3, <1>4, <1>5 DEF Next, Others

\* The types are kept.
LEMMA TypeStep ==
  ASSUME TypeOK, BudgetInv, [Next]_vars
  PROVE  TypeOK'
<1>1. author' \in Seq({"task", "session", "person"}) /\ Tip' \in 1..MaxHead
  <2>1. CASE UNCHANGED author
    BY <2>1 DEF TypeOK, Tip
  <2>2. CASE SessionPushes \/ StrayPush
    BY <2>2, PushStays DEF SessionPushes, StrayPush
  <2> QED BY <2>1, <2>2, BranchStep
<1>2. runs' \in Seq(Run)
  <2>1. CASE UNCHANGED runs
    BY <2>1 DEF TypeOK
  <2> QED BY <2>1, BranchStep, RunsStay
<1>3. Places'
  BY PlacesStep
<1>4. round' \in 0..MaxMergeGateRounds /\ sessions' \in 0..MaxMergeGateRounds
  BY BudgetStep
<1> QED BY <1>1, <1>2, <1>3, <1>4 DEF TypeOK, Places
-----------------------------------------------------------------------------
\* The loop has returned.
Past == {"ended", "over"}

\* The latest review has read all of the task's and the sessions' commits; some
\* run of the branch was green.
AllRead == \A c \in CommitsBy("task") \cup CommitsBy("session") : c <= reviewed
Green == flows # {} => \E i \in 1..Len(runs) : runs[i].status = "success"

Checked == AllRead /\ Verdict(answer) = "APPROVE" /\ Green

\* The strengthening, along the places of a round: no session is alive outside
\* its own place, a diff that has been read has every commit of the task and of
\* the sessions in it, CI is asked only about an approved one, and the merge
\* comes after both, of a pull request no session has merged.
GateInv ==
  /\ coding => at = "coding" \/ (at = "over" /\ result = "lost")
  /\ pr = "open" => merger = "nobody"
  /\ at \in {"reading", "ci", "recheck", "merge"} => AllRead
  /\ at \in {"ci", "recheck", "merge"} => Verdict(answer) = "APPROVE"
  /\ at \in {"recheck", "merge"} => Green
  /\ at = "merge" => merger # "session"
  /\ merger = "gate" \/ result = "merged" => pr = "merged" /\ at \in Past /\ Checked
  /\ result = "merged" => merger # "session"
  /\ at = "over" /\ result # "lost" => alert = IF result = "merged" THEN "none" ELSE result

\* A branch that was green once stays so.
LEMMA GreenStays ==
  ASSUME TypeOK, [Next]_vars, Green, UNCHANGED flows
  PROVE  Green'
<1>1. CASE UNCHANGED runs
  BY <1>1 DEF Green
<1>2. CASE \/ \E c \in 1..Tip, w \in flows : RunAppears(c, w)
           \/ \E i \in 1..Len(runs), s \in {"success", "failure"} : RunCompletes(i, s)
  BY <1>2, RunsStay DEF Green
<1> QED BY <1>1, <1>2, BranchStep

\* While no session lives nothing but a person's commit escapes the last review.
LEMMA AllReadStays ==
  ASSUME TypeOK, [Next]_vars, AllRead, UNCHANGED reviewed, ~coding
  PROVE  AllRead'
<1>1. CASE UNCHANGED author
  BY <1>1 DEF AllRead, CommitsBy, Tip
<1>2. CASE StrayPush
  <2>1. Push("person")
    BY <1>2 DEF StrayPush
  <2>2. /\ Tip' = Tip + 1 /\ Tip \in Nat
        /\ \A c \in 1..Tip : author'[c] = author[c]
        /\ author'[Tip + 1] = "person"
    BY <2>1, PushStays DEF TypeOK
  <2> QED BY <2>2 DEF AllRead, CommitsBy
<1>3. ~SessionPushes
  BY DEF SessionPushes
<1> QED BY <1>1, <1>2, <1>3, BranchStep

\* What GitHub, sessions and people do leaves the loop where it is; what is
\* merged stays as it is, and only a living session merges as one.
LEMMA OthersStep ==
  ASSUME Others
  PROVE  /\ UNCHANGED loop /\ (coding' => coding)
         /\ pr # "open" => UNCHANGED <<pr, author, merger>>
         /\ pr' = "open" => merger' = merger /\ pr = "open"
         /\ merger' # merger => merger' = "person" \/ (merger' = "session" /\ coding)
<1>1. ASSUME NEW who, Push(who)
      PROVE  UNCHANGED <<loop, coding, merger, pr>> /\ pr = "open"
  BY <1>1, Zenon DEF Push
<1>2. CASE SessionPushes \/ StrayPush
  <2>1. \E who : Push(who)
    BY <1>2 DEF SessionPushes, StrayPush
  <2>2. UNCHANGED <<loop, coding, merger, pr>> /\ pr = "open"
    BY <1>1, <2>1
  <2> QED BY <2>2, Zenon
<1>3. CASE OrphanEnds
  BY <1>3, Zenon DEF OrphanEnds, github
<1>4. CASE \E who \in {"session", "person"} : ClosedOutside(who)
  <2>1. PICK who \in {"session", "person"} : ClosedOutside(who)
    BY <1>4
  <2>2. UNCHANGED <<loop, coding>> /\ pr = "open" /\ pr' # "open"
    BY <2>1, Zenon DEF ClosedOutside
  <2>3. merger' # merger => merger' = who
    BY <2>1 DEF ClosedOutside
  <2>4. who = "session" => coding
    BY <2>1, Zenon DEF ClosedOutside
  <2> QED BY <2>2, <2>3, <2>4, Zenon
<1>5. CASE \/ \E c \in 1..Tip, w \in flows : RunAppears(c, w)
           \/ \E i \in 1..Len(runs), s \in {"success", "failure"} : RunCompletes(i, s)
  <2>1. UNCHANGED <<pr, author, merger, coding, loop>>
    BY <1>5, Zenon DEF RunAppears, RunCompletes
  <2> QED BY <2>1, Zenon
<1> QED BY <1>2, <1>3, <1>4, <1>5, Zenon DEF Others

\* The strengthening is inductive.
LEMMA GateStep ==
  ASSUME TypeOK, BudgetInv, GateInv, [Next]_vars
  PROVE  GateInv'
<1> USE DEF GateInv, Past
<1>0. flows' = flows
  BY DEF Next, Proceeds, CheckOpen, FetchDiff, NoCI, ReadCI, CITimesOut, Recheck, Merge, MergeAnswerLost,
    MergeAlreadyDone, MergeRefused, ReviewFails, ReviewAnswers, ResumeWithFeedback, SessionReturns,
    SessionFails, Report, CallFails, Crash, Others, SessionPushes, StrayPush, Push, OrphanEnds,
    ClosedOutside, RunAppears, RunCompletes, github, vars
<1>g. Green => Green'
  BY <1>0, GreenStays
<1>r. AllRead /\ UNCHANGED reviewed /\ ~coding => AllRead'
  BY AllReadStays
<1>s. AllRead /\ UNCHANGED <<author, reviewed>> => AllRead'
  BY DEF AllRead, CommitsBy, Tip
<1>c. Checked /\ UNCHANGED <<author, reviewed, answer>> => Checked'
  BY <1>g, <1>s DEF Checked
<1>1. CASE CheckOpen \/ Recheck
  <2>1. /\ UNCHANGED <<pr, author, runs, merger, coding, reviewed, answer>> /\ ~coding
        /\ result = "none" /\ at \notin Past
    BY <1>1 DEF CheckOpen, Recheck, github, BudgetInv
  <2>2. CASE CheckOpen
    BY <1>g, <1>r, <1>c, <2>1, <2>2 DEF CheckOpen, Ends
  <2>3. CASE Recheck
    BY <1>g, <1>r, <1>c, <2>1, <2>3 DEF Recheck, Ends
  <2> QED BY <1>1, <2>2, <2>3
<1>2. CASE FetchDiff
  <2>1. AllRead'
    BY <1>2 DEF FetchDiff, AllRead, CommitsBy, Tip, github, TypeOK
  <2> QED BY <1>2, <2>1, <1>g DEF FetchDiff, github
<1>3. CASE \E a \in Answers : ReviewAnswers(a)
  BY <1>3, <1>g, <1>r DEF ReviewAnswers, github
<1>4. CASE NoCI
  BY <1>4, <1>g, <1>r DEF NoCI, Green, github
<1>5. CASE ReadCI
  <2>1. Newest.status = "success" => Green
    BY <1>5 DEF ReadCI, Newest, Green, TypeOK
  <2> QED BY <1>5, <2>1, <1>g, <1>r DEF ReadCI, github
<1>6. CASE CITimesOut \/ ReviewFails \/ CallFails
  BY <1>6, <1>g, <1>r, <1>c DEF CITimesOut, ReviewFails, CallFails, Ends, github
<1>7. CASE Merge \/ MergeAnswerLost
  <2>1. Checked'
    BY <1>7, <1>g, <1>r DEF Merge, MergeAnswerLost, Ends, Checked
  <2> QED BY <1>7, <2>1 DEF Merge, MergeAnswerLost, Ends
<1>8. CASE MergeAlreadyDone \/ MergeRefused
  <2>1. Checked /\ Checked'
    BY <1>8, <1>c DEF MergeAlreadyDone, MergeRefused, Ends, github, Checked
  <2> QED BY <1>8, <2>1 DEF MergeAlreadyDone, MergeRefused, Ends, github
<1>9. CASE ResumeWithFeedback
  BY <1>9 DEF ResumeWithFeedback, github
<1>10. CASE SessionReturns \/ SessionFails
  BY <1>10 DEF SessionReturns, SessionFails, Ends, github
<1>11. CASE Report
  BY <1>11, <1>g, <1>r, <1>c DEF Report, github
<1>12. CASE Crash
  BY <1>12, <1>g, <1>r, <1>c DEF Crash, github, BudgetInv
<1>13. CASE Others
  <2>1. /\ UNCHANGED <<at, reviewed, answer, result, alert>> /\ (coding' => coding)
        /\ pr # "open" => UNCHANGED <<pr, author, merger>>
        /\ pr' = "open" => merger' = merger /\ pr = "open"
        /\ merger' # merger => merger' = "person" \/ (merger' = "session" /\ coding)
    BY <1>13, OthersStep, Zenon DEF loop
  <2>2. merger = "gate" \/ result = "merged" => UNCHANGED <<pr, author, merger>>
    BY <2>1
  <2>3. merger' = "gate" => merger = "gate"
    BY <2>1
  <2>4. AllRead /\ ~coding => AllRead'
    BY <2>1, <1>r
  <2> HIDE DEF GateInv
  <2>5. (at \in {"reading", "ci", "recheck", "merge"} => AllRead)'
    BY <2>1, <2>4 DEF GateInv
  <2>6. (merger = "gate" \/ result = "merged" => pr = "merged" /\ at \in Past /\ Checked)'
    BY <2>1, <2>2, <2>3, <1>c DEF GateInv
  <2>7. (at = "merge" => merger # "session")' /\ (result = "merged" => merger # "session")'
    BY <2>1, <2>2 DEF GateInv
  <2> QED BY <2>1, <2>5, <2>6, <2>7, <1>g DEF GateInv
<1>14. CASE UNCHANGED vars
  BY <1>14, <1>g, <1>s, <1>c DEF vars, github, loop
<1> QED
  BY <1>1, <1>2, <1>3, <1>4, <1>5, <1>6, <1>7, <1>8, <1>9, <1>10, <1>11, <1>12, <1>13, <1>14
     DEF Next, Proceeds

\* The three parts together are an invariant.
LEMMA Invariant == Spec => [](TypeOK /\ BudgetInv /\ GateInv)
<1>1. Init => TypeOK /\ BudgetInv /\ GateInv
  <2> SUFFICES ASSUME Init PROVE BudgetInv /\ GateInv
    BY TypeInit
  <2>1. BudgetInv
    BY GateAssumption DEF Init, BudgetInv, Before
  <2>2. ~coding /\ answer = "none" /\ at = "start" /\ merger = "nobody" /\ result = "none"
    BY Zenon DEF Init
  <2> QED BY <2>1, <2>2 DEF GateInv, Past
<1>2. TypeOK /\ BudgetInv /\ GateInv /\ [Next]_vars => (TypeOK /\ BudgetInv /\ GateInv)'
  BY TypeStep, BudgetStep, GateStep
<1> QED BY <1>1, <1>2, PTL DEF Spec

\* The types of the gate's state hold for any constants.
THEOREM TypeCorrect == Spec => []TypeOK
BY Invariant, PTL

\* The loop resumes the session no more often than the budget allows, and gives
\* up only when it is used up.
THEOREM BudgetIsShared == Spec => []SharedBudget
<1>1. TypeOK /\ BudgetInv => SharedBudget
  BY GateAssumption DEF TypeOK, BudgetInv, SharedBudget
<1> QED BY <1>1, Invariant, PTL

\* No commit of the task or of a resumed session is merged by the gate before a
\* review that had it in its diff said APPROVE, and none before CI was green.
THEOREM MergedWasReviewed == Spec => []MergedWasChecked
<1>1. GateInv => MergedWasChecked
  BY DEF GateInv, Checked, AllRead, Green, MergedWasChecked
<1> QED BY <1>1, Invariant, PTL

\* A gate that came to its end without a crash and without a message leaves a
\* pull request that is merged, by it or by a person, and had been approved with
\* all that the task and its sessions pushed; whatever else happened to it, a
\* merge by a session included, is told.
THEOREM SilenceIsChecked == Spec => []SilenceMeansChecked
<1>1. TypeOK /\ BudgetInv /\ GateInv => SilenceMeansChecked
  <2> SUFFICES ASSUME BudgetInv, GateInv, at = "over", result # "lost", alert = "none"
               PROVE  pr = "merged" /\ merger # "session" /\ Checked
    BY DEF SilenceMeansChecked, Checked, AllRead, Green
  <2>1. result = "merged"
    BY DEF GateInv, BudgetInv
  <2> QED BY <2>1 DEF GateInv
<1> QED BY <1>1, Invariant, PTL
-----------------------------------------------------------------------------
(* The loop is finite: what is left of it, counted.                         *)

StepsLeft == CASE at = "start" -> 8 [] at = "review" -> 7 [] at = "reading" -> 6 [] at = "ci" -> 5
               [] at = "recheck" -> 4 [] at \in {"merge", "resume"} -> 3 [] at = "coding" -> 2
               [] at = "ended" -> 1 [] OTHER -> 0

\* No round takes ten steps.
Left == 10 * (MaxMergeGateRounds - round) + StepsLeft

\* A step comes nearer the end or ends a round: in both cases less is left.
LEMMA LeftArithmetic ==
  ASSUME NEW m \in Int, NEW r \in Int, NEW q \in Int, NEW s \in 0..8, NEW t \in 0..8,
         \/ q = r /\ t < s
         \/ q = r + 1
  PROVE  10 * (m - q) + t < 10 * (m - r) + s
  OBVIOUS

\* The loop is finite: every step of it, the ones that fail included, takes
\* from a natural number, and nothing GitHub, CI, sessions or people do adds to
\* it: no reviewer and no CI keeps the gate going round for ever.
THEOREM GateIsFinite ==
  Spec => [](Left \in 0..(10 * MaxMergeGateRounds + 8)) /\ [][loop' # loop => Left' < Left]_vars
<1>1. TypeOK => Left \in 0..(10 * MaxMergeGateRounds + 8)
  <2> SUFFICES ASSUME TypeOK PROVE Left \in 0..(10 * MaxMergeGateRounds + 8)
    OBVIOUS
  <2>1. round \in 0..MaxMergeGateRounds /\ MaxMergeGateRounds \in Nat
    BY GateAssumption DEF TypeOK
  <2>2. StepsLeft \in 0..8
    BY DEF StepsLeft
  <2> HIDE DEF StepsLeft
  <2> QED BY <2>1, <2>2 DEF Left
<1>2. TypeOK /\ [Next]_vars => [loop' # loop => Left' < Left]_vars
  <2> SUFFICES ASSUME TypeOK, Next, loop' # loop PROVE Left' < Left
    BY DEF vars
  <2>0. round \in Int /\ MaxMergeGateRounds \in Int
    BY GateAssumption DEF TypeOK
  <2>1. ASSUME round' = round, StepsLeft' < StepsLeft PROVE Left' < Left
    <3>1. StepsLeft \in 0..8 /\ StepsLeft' \in 0..8
      BY DEF StepsLeft
    <3> HIDE DEF StepsLeft
    <3>2. 10 * (MaxMergeGateRounds - round') + StepsLeft' < 10 * (MaxMergeGateRounds - round) + StepsLeft
      BY <2>0, <2>1, <3>1, LeftArithmetic
    <3> QED BY <3>2 DEF Left
  <2>2. CASE CheckOpen
    BY <2>1, <2>2 DEF CheckOpen, Ends, StepsLeft
  <2>3. CASE FetchDiff
    BY <2>1, <2>3 DEF FetchDiff, StepsLeft
  <2>4. CASE \E a \in Answers : ReviewAnswers(a)
    BY <2>1, <2>4 DEF ReviewAnswers, StepsLeft
  <2>5. CASE NoCI \/ ReadCI
    BY <2>1, <2>5 DEF NoCI, ReadCI, StepsLeft
  <2>6. CASE \/ CITimesOut \/ Recheck \/ Merge \/ MergeAnswerLost \/ MergeAlreadyDone \/ MergeRefused
             \/ ReviewFails \/ CallFails
    BY <2>1, <2>6 DEF CITimesOut, Recheck, Merge, MergeAnswerLost, MergeAlreadyDone, MergeRefused, ReviewFails,
                      CallFails, Ends, StepsLeft
  <2>7. CASE ResumeWithFeedback
    BY <2>1, <2>7 DEF ResumeWithFeedback, StepsLeft
  <2>8. CASE SessionReturns
    <3>1. round' = round + 1 /\ round' \in Int
      BY <2>0, <2>8 DEF SessionReturns
    <3>2. StepsLeft \in 0..8 /\ StepsLeft' \in 0..8
      BY DEF StepsLeft
    <3> HIDE DEF StepsLeft
    <3>3. 10 * (MaxMergeGateRounds - round') + StepsLeft' < 10 * (MaxMergeGateRounds - round) + StepsLeft
      BY <2>0, <3>1, <3>2, LeftArithmetic
    <3> QED BY <3>3 DEF Left
  <2>9. CASE SessionFails
    BY <2>1, <2>9 DEF SessionFails, Ends, StepsLeft
  <2>10. CASE Report
    BY <2>1, <2>10 DEF Report, StepsLeft
  <2>11. CASE Crash
    <3>1. at \in Steps \ {"over"}
      BY <2>11 DEF Crash, TypeOK
    <3> QED BY <2>1, <2>11, <3>1 DEF Crash, Steps, StepsLeft
  <2>12. ~Others
    BY DEF Others, SessionPushes, StrayPush, Push, OrphanEnds, ClosedOutside, RunAppears, RunCompletes
  <2> QED BY <2>2, <2>3, <2>4, <2>5, <2>6, <2>7, <2>8, <2>9, <2>10, <2>11, <2>12 DEF Next, Proceeds
<1> QED BY <1>1, <1>2, TypeCorrect, PTL DEF Spec
=============================================================================
