---------------------------- MODULE TaskLifecycle ----------------------------
(***************************************************************************)
(* What the pipeline promises of a task note, seen by people who only look *)
(* at the bare repository: who may move its status from where to where.    *)
(* One push may carry steps of several notes.                              *)
(***************************************************************************)
CONSTANT Tasks

VARIABLE note  \* the status of each task and whether a session is recorded

Claimable == {"ready", "resolved"}

LifecycleInit ==
  \A n \in Tasks : note[n].status \in {"draft", "ready"} /\ ~note[n].session

\* Only a note that is ready or resolved at origin is ever claimed.
Claimed(n) == note[n].status \in Claimable /\ note'[n].status = "queued"

\* A task is started once; one with a session goes on from queued.
Started(n) ==
  note[n].status = "queued" /\ ~note[n].session /\ note'[n].status = "in_progress"

Ended(n) ==
  note[n].status \in {"queued", "in_progress"} /\ note'[n].status \in {"done", "blocked"}

\* People's edits.
Edited(n) ==
  \/ note[n].status = "draft" /\ note'[n].status = "ready"
  \/ note[n].status = "ready" /\ note'[n].status = "draft"
  \/ note[n].status = "blocked" /\ note'[n].status = "resolved"
  \/ note[n].status = "in_progress" /\ note'[n].status = "ready"

\* A recorded session is never dropped, and recorded only as a task ends.
SessionKept(n) == note'[n].session = note[n].session \/ (Ended(n) /\ note'[n].session)

LifecycleNext ==
  \A n \in Tasks : note'[n] # note[n] =>
    SessionKept(n)
      /\ (note'[n].status = note[n].status \/ Claimed(n) \/ Started(n) \/ Ended(n) \/ Edited(n))

LifecycleSpec == LifecycleInit /\ [][LifecycleNext]_note
=============================================================================
