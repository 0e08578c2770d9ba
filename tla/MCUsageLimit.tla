---------------------------- MODULE MCUsageLimit ----------------------------
(***************************************************************************)
(* Instances of UsageLimit.                                                *)
(***************************************************************************)
EXTENDS UsageLimit, TLC

CONSTANTS e1, n1, n2, t1, t2

\* Two tasks of one engine.
OneEngine == (n1 :> e1) @@ (n2 :> e1)

\* Notes of one engine are alike, and so are timers.
Alike == Permutations({n1, n2}) \cup Permutations({t1, t2})
=============================================================================
