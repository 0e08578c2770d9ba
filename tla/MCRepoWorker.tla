---------------------------- MODULE MCRepoWorker ----------------------------
(***************************************************************************)
(* Instances of the worker pool: two repositories contend for one slot.    *)
(***************************************************************************)
EXTENDS RepoWorker

CONSTANTS r1, r2, rx, e1, e2, j1, j2, j3, j4

\* Two jobs for different engines in one queue, a rival for the slot in the
\* other, and a job of a repository nobody serves.
MCRepoOf == (j1 :> r1) @@ (j2 :> r1) @@ (j3 :> r2) @@ (j4 :> rx)
MCEngineOf == (j1 :> e1) @@ (j2 :> e2) @@ (j3 :> e1) @@ (j4 :> e1)
=============================================================================
