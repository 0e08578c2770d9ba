------------------------------- MODULE Vault --------------------------------
(***************************************************************************)
(* The vault of internal/vaultgit: one clone that every goroutine of the   *)
(* runner writes under a mutex, and the bare repository people push to.    *)
(* A note is the part of its frontmatter the runner decides on: its status *)
(* line with session_id, which people edit too, and further down ready_at, *)
(* which git merges with an edit of the status.  A write is one step: the  *)
(* mutex keeps the runner's other goroutines out, a person's push in the   *)
(* middle of it is one just before it or after it.                         *)
(***************************************************************************)
EXTENDS FiniteSets

CONSTANTS Tasks,  \* task notes
          None    \* no note

ASSUME VaultAssumption == None \notin Tasks

VARIABLES
  origin,    \* the notes in the bare repository
  disk,      \* the notes in the clone's working tree
  ahead,     \* notes whose status the clone has changed and never pushed
  behind,    \* notes people have changed at origin since the clone last looked
  unmerged,  \* the note a failed rebase left with conflict markers
  rebasing   \* whether that rebase was never ended: git refuses another one

vault == <<origin, disk, ahead, behind, unmerged, rebasing>>

\* The working tree after WriteFile, and what a push or a rebase then carries.
Written(n, new) == [disk EXCEPT ![n] = new]
Carried(n, new) == IF new.status = disk[n].status THEN ahead ELSE ahead \cup {n}

\* The clone's tree once what people pushed has come in.
Merged(n, new) ==
  [m \in Tasks |-> IF m \in behind
                     THEN [origin[m] EXCEPT !.stamped = @ \/ Written(n, new)[m].stamped]
                     ELSE Written(n, new)[m]]

\* Mutant: the retry forces its push over what people pushed.
WriteLandsForced(n, new) ==
  /\ unmerged = None
  /\ origin' = Written(n, new) /\ disk' = Written(n, new)
  /\ ahead' = {} /\ behind' = {}
  /\ UNCHANGED <<unmerged, rebasing>>

\* The push goes through, at once or after one `git pull --rebase`.  It takes
\* along every commit an earlier write could not push.
WriteLands(n, new) ==
  /\ unmerged = None
  /\ behind = {} \/ ~rebasing
  /\ Carried(n, new) \cap behind = {}
  /\ origin' = Merged(n, new) /\ disk' = Merged(n, new)
  /\ ahead' = {} /\ behind' = {}
  /\ UNCHANGED <<unmerged, rebasing>>

\* Push and pull both fail: the commit stays in the clone.
WriteUnpushed(n, new) ==
  /\ unmerged = None
  /\ disk' = Written(n, new)
  /\ ahead' = Carried(n, new)
  /\ UNCHANGED <<origin, behind, unmerged, rebasing>>

\* The rebase goes through and the second push is refused again.
WriteRebased(n, new) ==
  /\ unmerged = None /\ behind # {} /\ ~rebasing
  /\ Carried(n, new) \cap behind = {}
  /\ disk' = Merged(n, new)
  /\ ahead' = Carried(n, new) /\ behind' = {}
  /\ UNCHANGED <<origin, unmerged, rebasing>>

\* The push is rejected, and the rebase stops at a note somebody else changed,
\* with the commits before that one applied.
WriteConflicts(n, new) ==
  /\ unmerged = None /\ ~rebasing
  /\ \E m \in Carried(n, new) \cap behind, applied \in SUBSET (Carried(n, new) \ behind) :
       /\ unmerged' = m
       /\ disk' = [k \in Tasks |-> IF k \in applied THEN Written(n, new)[k] ELSE origin[k]]
       /\ ahead' = applied
  /\ rebasing' = TRUE
  /\ behind' = {}
  /\ UNCHANGED origin

\* The push is rejected, and git refuses to start a rebase inside another one.
WriteRefused(n, new) ==
  /\ rebasing /\ behind # {}
  /\ WriteUnpushed(n, new)

\* With a conflict in the tree git refuses to commit; the file is written all
\* the same, unless it is the one that no longer parses.
WriteStuck(n, new) ==
  /\ unmerged # None
  /\ disk' = IF n = unmerged THEN disk ELSE Written(n, new)
  /\ UNCHANGED <<origin, ahead, behind, unmerged, rebasing>>

\* What can go wrong with a write while the network does not.
WriteFails(n, new) == WriteConflicts(n, new) \/ WriteRefused(n, new) \/ WriteStuck(n, new)

\* Sync: fetch and reset --hard.  An unfinished rebase survives that.
Sync ==
  /\ disk' = origin
  /\ ahead' = {} /\ behind' = {}
  /\ unmerged' = None
  /\ UNCHANGED <<origin, rebasing>>

\* Somebody else pushes a change of one note.
Push(n, new) ==
  /\ origin' = [origin EXCEPT ![n] = new]
  /\ behind' = behind \cup {n}
  /\ UNCHANGED <<disk, ahead, unmerged, rebasing>>
=============================================================================
