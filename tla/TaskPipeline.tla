---------------------------- MODULE TaskPipeline ----------------------------
(***************************************************************************)
(* A task note from `ready` to its end: the dispatch pass of               *)
(* internal/dispatch, the boot of internal/daemon, ProcessTask of          *)
(* internal/runner with its setup failures, its crash fallback and its     *)
(* merge-back, over the vault of Vault, with people editing notes at       *)
(* origin and the runner crashing and booting again.  One repository: its  *)
(* worker runs one task at a time (RepoWorker has the pool itself).        *)
(***************************************************************************)
EXTENDS Vault, Integers

CONSTANTS Drafts,  \* tasks that start as drafts, the others start ready
          Budget   \* bound: how often each kind of thing below may happen

\* "edit": a person edits a note.  "net": origin is out of reach for one write.
\* "crash": the runner dies.  "setup": a step before the invocation fails.
Kinds == {"edit", "net", "crash", "setup"}

ASSUME PipelineAssumption == Budget \in [Kinds -> Nat]

VARIABLES
  up,      \* whether the runner runs
  hook,    \* whether the DispatchWake channel holds its one signal
  pass,    \* the dispatch pass: where it is, what is left to stamp and claim
  queue,   \* how many jobs of a task wait in the worker's queue
  run,     \* the task ProcessTask is at, where it is and what it found
  branch,  \* the task branch: "work" has commits only the clone has, "saved"
           \*   has them on origin too, "origin" is on origin only
  left,    \* how much of Budget is left
  failed   \* history: tasks of which some note write failed

poolVars == <<pass, queue, run>>
vars == <<vault, up, hook, poolVars, branch, left, failed>>

\* "resolved" stands for the three other claimable statuses (blocker_resolved,
\* plan_approved, plan_rejected), "done" for failed as well.
Claimable == {"ready", "resolved"}
Idle == [at |-> "idle", stamp |-> {}, claim |-> {}]
Off == [task |-> None, at |-> "off", session |-> FALSE, end |-> "done"]

Init ==
  /\ origin = [n \in Tasks |-> [status |-> IF n \in Drafts THEN "draft" ELSE "ready",
                                session |-> FALSE, stamped |-> FALSE]]
  /\ disk = origin /\ ahead = {} /\ behind = {}
  /\ unmerged = None /\ rebasing = FALSE
  /\ up = TRUE /\ hook = TRUE
  /\ pass = Idle /\ run = Off
  /\ queue = [n \in Tasks |-> 0]
  /\ branch = [n \in Tasks |-> "none"]
  /\ left = Budget
  /\ failed = {}

Spend(kind) == left[kind] > 0 /\ left' = [left EXCEPT ![kind] = @ - 1]

\* One WriteNote of a goroutine, and whether it returned without error.
Write(n, new, ok) ==
  \/ ok /\ WriteLands(n, new) /\ UNCHANGED <<left, failed>>
  \/ /\ ~ok /\ failed' = failed \cup {n}
     /\ \/ WriteFails(n, new) /\ UNCHANGED left
        \/ (WriteUnpushed(n, new) \/ WriteRebased(n, new)) /\ Spend("net")

With(n, status) == [disk[n] EXCEPT !.status = status]
-----------------------------------------------------------------------------
(* RunDispatchPass.                                                         *)

PassStarts ==
  /\ up /\ hook /\ pass.at = "idle"
  /\ hook' = FALSE
  /\ Sync
  /\ pass' = [pass EXCEPT !.at = "scan"]
  /\ UNCHANGED <<up, queue, run, branch, left, failed>>

\* scanTasks: a note that does not parse is skipped.
Scan ==
  /\ pass.at = "scan"
  /\ LET found == {n \in Tasks \ {unmerged} : disk[n].status \in Claimable} IN
       pass' = [at |-> "claim", claim |-> found, stamp |-> {n \in found : ~disk[n].stamped}]
  /\ UNCHANGED <<vault, up, hook, queue, run, branch, left, failed>>

\* ready_at is written first, for every candidate; one failure ends the pass.
Stamp(n) ==
  /\ n \in pass.stamp
  /\ \E ok \in BOOLEAN :
       /\ Write(n, [disk[n] EXCEPT !.stamped = TRUE], ok)
       /\ pass' = IF ok THEN [pass EXCEPT !.stamp = @ \ {n}] ELSE Idle
  /\ UNCHANGED <<up, hook, queue, run, branch>>

Claiming(n) == pass.at = "claim" /\ pass.stamp = {} /\ n \in pass.claim

Enqueued(n) == [queue EXCEPT ![n] = @ + 1]

\* Mutants: the claim trusts the scan, and enqueues whatever the write said.
ClaimUnchecked(n) ==
  /\ Claiming(n) /\ n # unmerged
  /\ \E ok \in BOOLEAN : /\ Write(n, With(n, "queued"), ok)
                         /\ queue' = IF ok THEN Enqueued(n) ELSE queue
  /\ pass' = [pass EXCEPT !.claim = @ \ {n}]
  /\ UNCHANGED <<up, hook, run, branch>>
ClaimAnyway(n) ==
  /\ Claiming(n) /\ n # unmerged /\ disk[n].status \in Claimable
  /\ \E ok \in BOOLEAN : Write(n, With(n, "queued"), ok)
  /\ queue' = Enqueued(n)
  /\ pass' = [pass EXCEPT !.claim = @ \ {n}]
  /\ UNCHANGED <<up, hook, run, branch>>

\* The claim looks at the note again, inside the write; a failed one is
\* logged and the pass goes on.
Claim(n) ==
  /\ Claiming(n) /\ n # unmerged /\ disk[n].status \in Claimable
  /\ \E ok \in BOOLEAN : /\ Write(n, With(n, "queued"), ok)
                         /\ queue' = IF ok THEN Enqueued(n) ELSE queue
  /\ pass' = [pass EXCEPT !.claim = @ \ {n}]
  /\ UNCHANGED <<up, hook, run, branch>>

ClaimRejected(n) ==
  /\ Claiming(n) /\ (n = unmerged \/ disk[n].status \notin Claimable)
  /\ pass' = [pass EXCEPT !.claim = @ \ {n}]
  /\ UNCHANGED <<vault, up, hook, queue, run, branch, left, failed>>

\* Mutant: the channel is drained when the pass is over.
PassEndsDraining ==
  /\ pass.at = "claim" /\ pass.claim = {}
  /\ pass' = Idle
  /\ hook' = FALSE
  /\ UNCHANGED <<vault, up, queue, run, branch, left, failed>>

PassEnds ==
  /\ pass.at = "claim" /\ pass.claim = {}
  /\ pass' = Idle
  /\ UNCHANGED <<vault, up, hook, queue, run, branch, left, failed>>
-----------------------------------------------------------------------------
(* ProcessTask, from the read of the note to the engine's invocation.       *)

At(place) == run.at = place

Goto(place) == run' = [run EXCEPT !.at = place]

\* The note is read off the clone's disk.  One with a session is resumed.
Pop(n) ==
  /\ up /\ At("off") /\ queue[n] > 0
  /\ queue' = [queue EXCEPT ![n] = @ - 1]
  /\ run' = IF n = unmerged THEN Off
            ELSE [Off EXCEPT !.task = n, !.at = IF disk[n].session THEN "checkout" ELSE "start"]
  /\ UNCHANGED <<vault, up, hook, pass, branch, left, failed>>

Start ==
  /\ At("start")
  /\ \E ok \in BOOLEAN : /\ Write(run.task, With(run.task, "in_progress"), ok)
                         /\ Goto(IF ok THEN "branch" ELSE "setup")
  /\ UNCHANGED <<up, hook, pass, queue, branch>>

\* restoreRepo of a fresh run: `git branch -D`.
Deleted(b) == CASE b \in {"saved", "origin"} -> "origin" [] OTHER -> "none"

\* pullAndBranch, by `git checkout -b`.
PullAndBranch ==
  /\ At("branch") /\ branch[run.task] \in {"none", "origin"}
  /\ branch' = [branch EXCEPT ![run.task] = "empty"]
  /\ Goto("invoke")
  /\ UNCHANGED <<vault, up, hook, pass, queue, left, failed>>

\* There is a branch of that name already: checkout -b fails, and the cleanup
\* deletes the branch.
BranchExists ==
  /\ At("branch") /\ branch[run.task] \notin {"none", "origin"}
  /\ branch' = [branch EXCEPT ![run.task] = Deleted(@)]
  /\ Goto("setup")
  /\ UNCHANGED <<vault, up, hook, pass, queue, left, failed>>

\* checkoutTaskBranch: from the clone, else from origin.
CheckoutTaskBranch ==
  /\ At("checkout")
  /\ branch' = [branch EXCEPT ![run.task] = IF @ = "origin" THEN "saved" ELSE @]
  /\ Goto(IF branch[run.task] = "none" THEN "setup" ELSE "invoke")
  /\ UNCHANGED <<vault, up, hook, pass, queue, left, failed>>

\* Mutant: the cleanup does not tell a resumed run from a fresh one.
SetupFailsCleansResumed ==
  /\ run.at \in {"start", "branch", "checkout"}
  /\ Spend("setup")
  /\ branch' = IF At("start") THEN branch ELSE [branch EXCEPT ![run.task] = Deleted(@)]
  /\ Goto("setup")
  /\ UNCHANGED <<vault, up, hook, pass, queue, failed>>

\* An unknown engine, a fetch or a checkout that fails, a note-copy that cannot
\* be written: a fresh run loses its branch, a resumed one keeps it.
SetupFails ==
  /\ run.at \in {"start", "branch", "checkout"}
  /\ Spend("setup")
  /\ branch' = IF At("branch") THEN [branch EXCEPT ![run.task] = Deleted(@)] ELSE branch
  /\ Goto("setup")
  /\ UNCHANGED <<vault, up, hook, pass, queue, failed>>

\* Mutant: nothing is written when the setup fails.
BlockSetupSilent ==
  /\ At("setup")
  /\ run' = Off
  /\ UNCHANGED <<vault, up, hook, pass, queue, branch, left, failed>>

\* handleSetupFailure: blocked, as far as the vault can be written.
BlockSetup ==
  /\ At("setup")
  /\ \E ok \in BOOLEAN : Write(run.task, With(run.task, "blocked"), ok)
  /\ run' = Off
  /\ UNCHANGED <<up, hook, pass, queue, branch>>

\* The invocation.  A session that reported no id did nothing.  "done" comes
\* with a pull request, so with a pushed branch.
Invoke ==
  /\ At("invoke")
  /\ \E id \in BOOLEAN, end \in {"done", "blocked", "crash"} :
       /\ ~id => end = "crash"
       /\ run' = [run EXCEPT !.at = IF end = "crash" THEN "crash" ELSE "merge",
                             !.session = id, !.end = end]
       /\ branch' = IF ~id THEN branch
                    ELSE [branch EXCEPT ![run.task] = IF end = "done" THEN "saved" ELSE "work"]
  /\ UNCHANGED <<vault, up, hook, pass, queue, left, failed>>
-----------------------------------------------------------------------------
(* ProcessTask, from the result to the end of the run.                      *)

Outcome(status) ==
  [With(run.task, status) EXCEPT !.session = @ \/ run.session]

\* The merge-back; when it fails the run ends and nobody is told.
MergeBack ==
  /\ At("merge")
  /\ \E ok \in BOOLEAN : /\ Write(run.task, Outcome(run.end), ok)
                         /\ run' = IF ok /\ run.end = "blocked"
                                     THEN [run EXCEPT !.at = "preserve"] ELSE Off
  /\ UNCHANGED <<up, hook, pass, queue, branch>>

\* handleCrashFallback.
CrashFallback ==
  /\ At("crash")
  /\ \E ok \in BOOLEAN : /\ Write(run.task, Outcome("blocked"), ok)
                         /\ run' = IF ok THEN [run EXCEPT !.at = "preserve"] ELSE Off
  /\ UNCHANGED <<up, hook, pass, queue, branch>>

\* preserveBlockedWork, whose push may fail.
Preserve ==
  /\ At("preserve")
  /\ \/ /\ branch' = [branch EXCEPT ![run.task] = "saved"]
        /\ UNCHANGED left
     \/ Spend("net") /\ UNCHANGED branch
  /\ run' = Off
  /\ UNCHANGED <<vault, up, hook, pass, queue, failed>>
-----------------------------------------------------------------------------
(* Crashes, boots, and people.                                              *)

\* The session may have committed before the runner took it down.
Crash ==
  /\ up /\ Spend("crash")
  /\ up' = FALSE /\ hook' = FALSE
  /\ pass' = Idle /\ run' = Off
  /\ queue' = [n \in Tasks |-> 0]
  /\ \/ UNCHANGED branch
     \/ At("invoke") /\ branch' = [branch EXCEPT ![run.task] = "work"]
  /\ UNCHANGED <<vault, failed>>

\* Mutants: the queued notes are looked up before the vault is synced, or not
\* at all.
BootStale ==
  /\ ~up
  /\ up' = TRUE
  /\ Sync
  /\ queue' = [n \in Tasks |-> IF disk[n].status = "queued" THEN 1 ELSE 0]
  /\ UNCHANGED <<hook, pass, run, branch, left, failed>>
BootForgets ==
  /\ ~up
  /\ up' = TRUE
  /\ Sync
  /\ UNCHANGED <<hook, pass, queue, run, branch, left, failed>>

\* Boot: Sync, then ReconcileQueued.
Boot ==
  /\ ~up
  /\ up' = TRUE
  /\ Sync
  /\ queue' = [n \in Tasks |-> IF origin[n].status = "queued" THEN 1 ELSE 0]
  /\ UNCHANGED <<hook, pass, run, branch, left, failed>>

\* People publish and withdraw drafts, resolve blocks, and send a task round
\* again that sits at in_progress while nobody runs it.  The hook of the bare
\* repository then calls POST /dispatch.
Edit(n, s) ==
  /\ \/ origin[n].status = "draft" /\ s = "ready"
     \/ origin[n].status = "ready" /\ s = "draft"
     \/ origin[n].status = "blocked" /\ s = "resolved"
     \/ origin[n].status = "in_progress" /\ s = "ready" /\ run.task # n
  /\ Spend("edit")
  /\ Push(n, [origin[n] EXCEPT !.status = s])
  /\ hook' = up
  /\ UNCHANGED <<up, poolVars, branch, failed>>
-----------------------------------------------------------------------------
Dispatch == PassStarts \/ Scan \/ PassEnds
              \/ \E n \in Tasks : Stamp(n) \/ Claim(n) \/ ClaimRejected(n)

Setup == Start \/ PullAndBranch \/ BranchExists \/ CheckoutTaskBranch \/ BlockSetup

Process == Setup \/ Invoke \/ MergeBack \/ CrashFallback \/ Preserve
             \/ \E n \in Tasks : Pop(n)

Next ==
  \/ Dispatch \/ Process \/ SetupFails \/ Crash \/ Boot
  \/ \E n \in Tasks, s \in {"draft", "ready", "resolved"} : Edit(n, s)

Spec == Init /\ [][Next]_vars

\* The dispatch goroutine and the worker go on, the engine's watchdog ends
\* every invocation, and somebody starts the runner again.
FairSpec == Spec /\ WF_vars(Dispatch) /\ WF_vars(Process) /\ WF_vars(Boot)
-----------------------------------------------------------------------------
(* What the pipeline promises.                                              *)

Note == [status : {"draft", "ready", "queued", "in_progress", "blocked", "resolved", "done"},
         session : BOOLEAN, stamped : BOOLEAN]

Places == {"off", "start", "branch", "checkout", "setup", "invoke", "merge", "crash", "preserve"}

TypeOK ==
  /\ origin \in [Tasks -> Note] /\ disk \in [Tasks -> Note]
  /\ ahead \subseteq Tasks /\ behind \subseteq Tasks /\ failed \subseteq Tasks
  /\ unmerged \in Tasks \cup {None} /\ rebasing \in BOOLEAN
  /\ up \in BOOLEAN /\ hook \in BOOLEAN
  /\ pass \in [at : {"idle", "scan", "claim"}, stamp : SUBSET Tasks, claim : SUBSET Tasks]
  /\ queue \in [Tasks -> Nat]
  /\ run \in [task : Tasks \cup {None}, at : Places, session : BOOLEAN,
              end : {"done", "blocked", "crash"}]
  /\ branch \in [Tasks -> {"none", "empty", "work", "saved", "origin"}]
  /\ left \in [Kinds -> Nat]

\* A run that has not written its outcome yet.
Running(n) == run.task = n /\ ~At("preserve")
Jobs(n) == queue[n] + IF Running(n) THEN 1 ELSE 0

\* No task is in the pool twice, whatever fails, crashes and is edited: the
\* claim under the vault's mutex and the reconciliation at boot between them
\* hand out one job per claim.
OneJobPerTask == \A n \in Tasks : Jobs(n) <= 1

\* A queued note is in the pool while the runner is up: no crash and no restart strands it, only a failed write of it can.
QueuedIsInPool ==
  up => \A n \in Tasks \ failed : origin[n].status = "queued" => Jobs(n) = 1

\* A note says in_progress only while it is being run, unless the runner has
\* crashed or a write of the note has failed.
InProgressIsRunning ==
  left["crash"] = Budget["crash"] =>
    \A n \in Tasks \ failed : origin[n].status = "in_progress" => Running(n)

\* A draft a person has withdrawn is not run, however the withdrawal races the
\* pass that claims the note: the claim's push settles it.
WithdrawnStaysOut == \A n \in Tasks : origin[n].status = "draft" => Jobs(n) = 0

\* What people see at origin is the lifecycle of TaskLifecycle, whatever
\* writes fail and however late their commits are pushed.
Lifecycle == INSTANCE TaskLifecycle WITH
  note <- [n \in Tasks |-> [status |-> origin[n].status, session |-> origin[n].session]]

ImplementsLifecycle == Lifecycle!LifecycleSpec

\* A note that is ready or resolved is claimed in the end, or withdrawn: the
\* wake channel of size one loses no edit, whatever conflicts the edits cause.
\* A pass cut short by the network and a crash wait for the next push.
ClaimableIsClaimed ==
  \A n \in Tasks : origin[n].status \in Claimable ~>
    \/ origin[n].status \notin Claimable
    \/ left["net"] < Budget["net"] \/ left["crash"] < Budget["crash"]

\* "cleanup must never delete that branch" when a session is resumed
\* (setupfallback.go:96-103): what a task with a session_id has committed is in
\* the clone until it is at origin, whatever fails, whoever edits the note and
\* however often the runner comes up again.  Without a session_id it is not: a
\* run killed in its first session left none, and the next run of the task
\* deletes the branch.
SessionWorkIsKept ==
  [][\A n \in Tasks : branch[n] = "work" /\ disk[n].session => branch'[n] \in {"work", "saved"}]_vars
=============================================================================
