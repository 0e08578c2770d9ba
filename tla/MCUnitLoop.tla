----------------------------- MODULE MCUnitLoop -----------------------------
(***************************************************************************)
(* Instances of UnitLoop: N and MaxCommits are numbers of the .cfg files.  *)
(***************************************************************************)
EXTENDS UnitLoop
=============================================================================
