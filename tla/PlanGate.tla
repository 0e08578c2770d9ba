------------------------------ MODULE PlanGate ------------------------------
(***************************************************************************)
(* The decisions of internal/plangate.  Scores and probabilities are       *)
(* hundredths.  An answer set is a function on the questions that were     *)
(* answered; a call that failed answered none, which stops a plan and      *)
(* leaves a task one unit just as its error does.  An answer is            *)
(* [noul, choice, confidence, probabilities] whatever was asked, as        *)
(* jev.Answer is: "noul" is empty or holds the score, "choice" is "" when  *)
(* absent, and the probabilities are in the order a range over the map     *)
(* gives them.  A stop's reasons are a set of names: only whether there is *)
(* one decides.                                                            *)
(***************************************************************************)
EXTENDS Integers, SequencesExt

\* The two questions every gate asks, to be answered with a score; the planner's
\* own are to be answered with a choice.
Nouls == {"risky", "ambiguous"}

\* DecideTriage: in doubt the task is one unit.
DecideTriage(answers) ==
  "size" \in DOMAIN answers /\ \E score \in answers["size"].noul : score >= 50

\* HardRules, for a plan of so many units that does or does not touch a
\* hard-stop path.
MaxUnitsWithoutReason == 8
HardRules(plan) == (IF plan.touches THEN {"path"} ELSE {})
                     \cup (IF plan.units > MaxUnitsWithoutReason THEN {"size"} ELSE {})

\* A score that is missing, a clear yes, or in the band of the unresolved ones.
NoulStops(answers, id) ==
  \/ id \notin DOMAIN answers
  \/ answers[id].noul = {}
  \/ \E score \in answers[id].noul : score >= 65 \/ (score >= 35 /\ score <= 65)

\* Mutant: a new best does not hand the old one down.
TopTwoForgets(top, p) ==
  CASE p > top[1] -> <<p, top[2]>>
    [] p <= top[1] /\ p > top[2] -> <<top[1], p>>
    [] OTHER -> top

\* topTwoGap's loop, which starts from -1 for both.
TopTwo(top, p) ==
  CASE p > top[1] -> <<p, top[1]>>
    [] p <= top[1] /\ p > top[2] -> <<top[1], p>>
    [] OTHER -> top

TopTwoGap(probabilities) ==
  LET top == FoldLeft(TopTwo, <<-100, -100>>, probabilities) IN top[1] - top[2]

\* An answer to a planner's question that is missing, declines, or is unsure.
ChoiceStops(answers, id) ==
  \/ id \notin DOMAIN answers
  \/ answers[id].choice = "none"
  \/ answers[id].confidence < 60
  \/ Len(answers[id].probabilities) >= 2 /\ TopTwoGap(answers[id].probabilities) < 15

\* DecideGate: the reasons to stop the plan for a person's review.
DecideGate(hard, answers, asked) ==
  hard \cup {id \in Nouls : NoulStops(answers, id)}
       \cup {id \in asked : ChoiceStops(answers, id)}
=============================================================================
