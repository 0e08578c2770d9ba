---------------------------- MODULE MCPlanReview ----------------------------
(***************************************************************************)
(* Instances of PlanReview: scores on either side of each threshold,       *)
(* answers missing or of the wrong kind, probabilities in several orders,  *)
(* a plan at the size limit and one over it.                               *)
(***************************************************************************)
EXTENDS PlanReview, TLC

Score(p) == [noul |-> {p}, choice |-> "", confidence |-> 0, probabilities |-> <<>>]
Choice(option, confidence, probabilities) ==
  [noul |-> {}, choice |-> option, confidence |-> confidence, probabilities |-> probabilities]
Sure == Choice("a", 60, <<60>>)

\* One question's possible answers, none among them.
One(id, answers) == {[q \in {} |-> 0]} \cup {[q \in {id} |-> a] : a \in answers}

Scores == {Score(34), Score(35), Score(65), Score(66), Sure}

ToQuestion == {Score(90), Sure, Choice("none", 100, <<100, 0>>), Choice("a", 59, <<59, 41>>)} \cup
           {Choice("a", 60, p) : p \in {<<57, 42>>, <<42, 57>>, <<43, 57>>, <<57, 43>>, <<50, 50>>,
                                        <<57, 1, 42>>, <<43, 0, 57>>, <<20, 35, 45>>}}

\* Every pair of scores beside a sure choice, every choice beside clear scores.
SomeReplies ==
  {risky @@ ambiguous @@ [q \in {"question"} |-> Sure] :
     risky \in One("risky", Scores), ambiguous \in One("ambiguous", Scores)} \cup
  {[q \in Nouls |-> Score(34)] @@ question : question \in One("question", ToQuestion)}

SomeSizes == One("size", {Score(49), Score(50), Sure})

SomePlans == {[units |-> 8, touches |-> FALSE], [units |-> 9, touches |-> FALSE],
              [units |-> 1, touches |-> TRUE]}

Most == [crash |-> 1, net |-> 1, engine |-> 1, hand |-> 1, discord |-> 1]
LimitOnly == [Most EXCEPT !["crash"] = 0, !["net"] = 0, !["hand"] = 0, !["discord"] = 0]
=============================================================================
