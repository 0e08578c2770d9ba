-------------------------- MODULE MCEngineSession --------------------------
(***************************************************************************)
(* Instances of EngineSession.                                             *)
(***************************************************************************)
EXTENDS EngineSession
=============================================================================
