------------------------------- MODULE JobPool -------------------------------
(***************************************************************************)
(* What the worker pool promises its callers, with no queue, no wake       *)
(* channel and no pause flag: a job handed in waits, runs once, and is     *)
(* finished; two jobs of one repository never run at the same time (they   *)
(* share one clone), and no more than Slots jobs run over all              *)
(* repositories.  Spec of RepoWorker implements this one.                  *)
(***************************************************************************)
EXTENDS Naturals, FiniteSets

CONSTANTS Jobs,     \* the jobs ever handed to the pool
          RepoOf,   \* the repository key each job names
          Repos,    \* the configured repositories
          Slots     \* the global concurrency cap

VARIABLES waiting, running, finished

poolVars == <<waiting, running, finished>>

PoolInit == waiting = {} /\ running = {} /\ finished = {}

\* A caller hands in a job of a configured repository.
Submit(j) ==
  /\ RepoOf[j] \in Repos
  /\ j \notin waiting \cup running \cup finished
  /\ waiting' = waiting \cup {j}
  /\ UNCHANGED <<running, finished>>

\* A waiting job starts: its repository is free and a slot is free.
Start(j) ==
  /\ j \in waiting
  /\ \A k \in running : RepoOf[k] # RepoOf[j]
  /\ Cardinality(running) < Slots
  /\ waiting' = waiting \ {j}
  /\ running' = running \cup {j}
  /\ UNCHANGED finished

\* A running job ends, however it ended.
Finish(j) ==
  /\ j \in running
  /\ running' = running \ {j}
  /\ finished' = finished \cup {j}
  /\ UNCHANGED waiting

PoolNext == \E j \in Jobs : Submit(j) \/ Start(j) \/ Finish(j)

PoolSpec == PoolInit /\ [][PoolNext]_poolVars
=============================================================================
