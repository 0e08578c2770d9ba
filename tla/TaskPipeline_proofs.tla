------------------------- MODULE TaskPipeline_proofs -------------------------
(***************************************************************************)
(* What is proved of TaskPipeline and its Vault for any number of tasks,   *)
(* faults, edits and restarts: one job per task, no queued note stranded,  *)
(* no withdrawn note run, the work of a session kept, and that origin      *)
(* shows the lifecycle of TaskLifecycle.                                   *)
(***************************************************************************)
EXTENDS TaskPipeline, TLAPS

\* The two notes are the same but for ready_at.
Like(a, b) == a.status = b.status /\ a.session = b.session

\* The note of m after WriteFile of n.
Now(n, new, m) == IF m = n THEN new ELSE disk[m]

\* The part of the state that a write touches, and its types.
VaultTypes ==
  /\ origin \in [Tasks -> Note] /\ disk \in [Tasks -> Note]
  /\ ahead \in SUBSET Tasks /\ behind \in SUBSET Tasks /\ failed \in SUBSET Tasks
  /\ unmerged \in Tasks \cup {None} /\ rebasing \in BOOLEAN
  /\ left \in [Kinds -> Nat] /\ \A kind \in Kinds : left[kind] <= Budget[kind]

\* What a write does to the vault, whichever way it went, note by note.
Effect(n, new) ==
  /\ behind' \subseteq behind /\ ahead' \subseteq Carried(n, new)
  /\ unmerged' = unmerged \/ (unmerged' \in Carried(n, new) \cap behind)
  /\ \A m \in Tasks :
       \/ Like(origin'[m], origin[m])
       \/ /\ m \notin behind /\ unmerged = None
          /\ Like(origin'[m], Now(n, new, m)) /\ Like(disk'[m], origin'[m])
  /\ \A m \in Tasks : Like(disk'[m], origin[m]) \/ Like(disk'[m], disk[m]) \/ Like(disk'[m], Now(n, new, m))
  /\ \A m \in behind \ behind' : Like(disk'[m], origin'[m])
  /\ unmerged' = None => unmerged = None /\ \A m \in Tasks \ behind : Like(disk'[m], Now(n, new, m))

\* What a write that returned without error did.
Landed(n, new) ==
  /\ origin' = disk' /\ ahead' = {} /\ behind' = {} /\ unmerged' = None
  /\ new.status # disk[n].status => n \notin behind /\ Like(origin'[n], new)

\* The tree after WriteFile and after a merge, note by note.
LEMMA Trees ==
  ASSUME VaultTypes, NEW n \in Tasks, NEW new \in Note
  PROVE  /\ Written(n, new) \in [Tasks -> Note] /\ Merged(n, new) \in [Tasks -> Note]
         /\ \A m \in Tasks : Written(n, new)[m] = Now(n, new, m)
         /\ \A m \in Tasks \ behind : Merged(n, new)[m] = Now(n, new, m)
         /\ \A m \in behind : Like(Merged(n, new)[m], origin[m])
         /\ Carried(n, new) \subseteq Tasks
<1> USE DEF VaultTypes
<1>1. Written(n, new) \in [Tasks -> Note] /\ \A m \in Tasks : Written(n, new)[m] = Now(n, new, m)
  BY DEF Written, Now
<1>2. ASSUME NEW m \in behind
      PROVE  /\ [origin[m] EXCEPT !.stamped = @ \/ Written(n, new)[m].stamped] \in Note
             /\ Like([origin[m] EXCEPT !.stamped = @ \/ Written(n, new)[m].stamped], origin[m])
  <2>1. origin[m] \in Note /\ Written(n, new)[m] \in Note
    BY <1>1
  <2>2. origin[m].stamped \in BOOLEAN /\ Written(n, new)[m].stamped \in BOOLEAN
    BY <2>1 DEF Note
  <2>3. (origin[m].stamped \/ Written(n, new)[m].stamped) \in BOOLEAN
    BY <2>2, Zenon
  <2> DEFINE s == origin[m].stamped \/ Written(n, new)[m].stamped
  <2>4. [origin[m] EXCEPT !.stamped = @ \/ Written(n, new)[m].stamped] = [origin[m] EXCEPT !.stamped = s]
    OBVIOUS
  <2> HIDE DEF s
  <2>5. [origin[m] EXCEPT !.stamped = s] \in Note /\ Like([origin[m] EXCEPT !.stamped = s], origin[m])
    BY <2>1, <2>3 DEF Note, Like, s
  <2> QED BY <2>4, <2>5
<1>3. /\ Merged(n, new) \in [Tasks -> Note]
      /\ \A m \in Tasks \ behind : Merged(n, new)[m] = Now(n, new, m)
      /\ \A m \in behind : Like(Merged(n, new)[m], origin[m])
  <2>1. ASSUME NEW m \in Tasks
        PROVE  (IF m \in behind THEN [origin[m] EXCEPT !.stamped = @ \/ Written(n, new)[m].stamped]
                ELSE Written(n, new)[m]) \in Note
    BY <1>1, <1>2
  <2>2. Merged(n, new) \in [Tasks -> Note]
    BY <2>1, Zenon DEF Merged
  <2>3. \A m \in Tasks \ behind : Merged(n, new)[m] = Written(n, new)[m]
    BY Zenon DEF Merged
  <2>4. \A m \in behind : Merged(n, new)[m] = [origin[m] EXCEPT !.stamped = @ \/ Written(n, new)[m].stamped]
    <3>1. behind \subseteq Tasks
      OBVIOUS
    <3> QED BY <3>1, Zenon DEF Merged
  <2> QED BY <1>1, <1>2, <2>2, <2>3, <2>4
<1>4. Carried(n, new) \subseteq Tasks
  BY DEF Carried
<1> QED BY <1>1, <1>3, <1>4

\* Every way a write can go has that effect.
LEMMA WriteEffect ==
  ASSUME VaultTypes, PipelineAssumption, VaultAssumption, NEW n \in Tasks, NEW new \in Note, NEW ok \in BOOLEAN,
         Write(n, new, ok)
  PROVE  /\ VaultTypes' /\ Effect(n, new)
         /\ failed \subseteq failed' /\ failed' \subseteq failed \cup {n}
         /\ ok => Landed(n, new)
         /\ ~ok => n \in failed'
         /\ UNCHANGED left \/ Spend("net")
<1>0. PICK written, merged, carried :
        /\ written = Written(n, new) /\ merged = Merged(n, new) /\ carried = Carried(n, new)
  OBVIOUS
<1>t. /\ written \in [Tasks -> Note] /\ merged \in [Tasks -> Note]
      /\ \A m \in Tasks : written[m] = Now(n, new, m)
      /\ \A m \in Tasks \ behind : merged[m] = Now(n, new, m)
      /\ \A m \in behind : Like(merged[m], origin[m])
      /\ carried \in SUBSET Tasks
  BY <1>0, Trees
<1>l. /\ \A m \in Tasks : Like(origin[m], origin[m]) /\ Like(disk[m], disk[m]) /\ Like(Now(n, new, m), Now(n, new, m))
      /\ Now(n, new, n) = new /\ None \notin Tasks
  BY DEF Like, Now, VaultAssumption
<1>c. new.status # disk[n].status => n \in carried
  BY <1>0 DEF Carried
<1> DEFINE Types == /\ origin' \in [Tasks -> Note] /\ disk' \in [Tasks -> Note]
                    /\ ahead' \in SUBSET Tasks /\ behind' \in SUBSET Tasks
                    /\ unmerged' \in Tasks \cup {None} /\ rebasing' \in BOOLEAN
<1>1. ASSUME WriteLands(n, new) PROVE Types /\ Effect(n, new) /\ Landed(n, new)
  <2>1. /\ unmerged = None /\ unmerged' = None /\ rebasing' = rebasing
        /\ carried \cap behind = {} /\ origin' = merged /\ disk' = merged /\ ahead' = {} /\ behind' = {}
    BY <1>0, <1>1 DEF WriteLands
  <2>2. Types
    BY <1>t, <2>1 DEF VaultTypes
  <2>3. Effect(n, new)
    <3>1. \A m \in Tasks :
            \/ Like(origin'[m], origin[m])
            \/ /\ m \notin behind /\ unmerged = None
               /\ Like(origin'[m], Now(n, new, m)) /\ Like(disk'[m], origin'[m])
      BY <1>t, <1>l, <2>1 DEF Like
    <3>2. \A m \in Tasks : Like(disk'[m], origin[m]) \/ Like(disk'[m], disk[m]) \/ Like(disk'[m], Now(n, new, m))
      BY <1>t, <1>l, <2>1
    <3>3. \A m \in behind \ behind' : Like(disk'[m], origin'[m])
      BY <2>1 DEF Like
    <3>4. \A m \in Tasks \ behind : Like(disk'[m], Now(n, new, m))
      BY <1>t, <1>l, <2>1
    <3>5. behind' \subseteq behind /\ ahead' \subseteq Carried(n, new) /\ unmerged' = unmerged /\ unmerged = None
      BY <2>1
    <3> QED BY <3>1, <3>2, <3>3, <3>4, <3>5 DEF Effect
  <2>4. Landed(n, new)
    BY <1>t, <1>l, <1>c, <2>1 DEF Landed
  <2> QED BY <2>2, <2>3, <2>4
<1>2. ASSUME WriteUnpushed(n, new) PROVE Types /\ Effect(n, new)
  <2>1. /\ unmerged = None /\ unmerged' = unmerged /\ rebasing' = rebasing
        /\ origin' = origin /\ disk' = written /\ ahead' = carried /\ behind' = behind
    BY <1>0, <1>2 DEF WriteUnpushed
  <2>2. Types
    BY <1>t, <2>1 DEF VaultTypes
  <2>3. Effect(n, new)
    BY <1>0, <1>t, <1>l, <2>1 DEF Effect, VaultTypes
  <2> QED BY <2>2, <2>3
<1>3. ASSUME WriteRebased(n, new) PROVE Types /\ Effect(n, new)
  <2>1. /\ unmerged = None /\ unmerged' = unmerged /\ rebasing' = rebasing
        /\ origin' = origin /\ disk' = merged /\ ahead' = carried /\ behind' = {}
    BY <1>0, <1>3 DEF WriteRebased
  <2>2. Types
    BY <1>t, <2>1 DEF VaultTypes
  <2>3. Effect(n, new)
    BY <1>0, <1>t, <1>l, <2>1 DEF Effect, VaultTypes
  <2> QED BY <2>2, <2>3
<1>4. ASSUME WriteConflicts(n, new) PROVE Types /\ Effect(n, new)
  <2>1. PICK c \in carried \cap behind, applied \in SUBSET (carried \ behind) :
          /\ unmerged' = c
          /\ disk' = [k \in Tasks |-> IF k \in applied THEN written[k] ELSE origin[k]]
          /\ ahead' = applied
    BY <1>0, <1>4 DEF WriteConflicts
  <2>2. rebasing' = TRUE /\ behind' = {} /\ origin' = origin
    BY <1>4 DEF WriteConflicts
  <2>3. /\ disk' \in [Tasks -> Note]
        /\ \A m \in applied : disk'[m] = written[m]
        /\ \A m \in Tasks \ applied : disk'[m] = origin[m]
    BY <1>t, <2>1 DEF VaultTypes
  <2>4. Types
    BY <1>t, <2>1, <2>2, <2>3 DEF VaultTypes
  <2>5. \A m \in Tasks : Like(disk'[m], origin[m]) \/ Like(disk'[m], Now(n, new, m))
    BY <1>t, <1>l, <2>3
  <2>6. \A m \in behind \ behind' : Like(disk'[m], origin'[m])
    BY <1>l, <2>1, <2>2, <2>3 DEF VaultTypes
  <2>7. unmerged' # None
    BY <1>t, <1>l, <2>1
  <2>8. /\ behind' \subseteq behind /\ ahead' \subseteq Carried(n, new)
        /\ unmerged' \in Carried(n, new) \cap behind
    BY <1>0, <2>1, <2>2
  <2>9. \A m \in Tasks : Like(origin'[m], origin[m])
    BY <1>l, <2>2
  <2> QED BY <2>4, <2>5, <2>6, <2>7, <2>8, <2>9 DEF Effect
<1>5. ASSUME WriteStuck(n, new) PROVE Types /\ Effect(n, new)
  <2>1. /\ unmerged # None /\ disk' \in {disk, written}
        /\ origin' = origin /\ ahead' = ahead /\ behind' = behind /\ unmerged' = unmerged /\ rebasing' = rebasing
    BY <1>0, <1>5 DEF WriteStuck
  <2>2. Types
    BY <1>t, <2>1 DEF VaultTypes
  <2>3. ahead \subseteq carried
    BY <1>0 DEF Carried
  <2>4. Effect(n, new)
    BY <1>0, <1>t, <1>l, <2>1, <2>3 DEF Effect
  <2> QED BY <2>2, <2>4
<1>6. \/ ok /\ WriteLands(n, new) /\ UNCHANGED <<left, failed>>
      \/ /\ ~ok /\ failed' = failed \cup {n}
         /\ UNCHANGED left \/ Spend("net")
         /\ WriteUnpushed(n, new) \/ WriteRebased(n, new) \/ WriteConflicts(n, new) \/ WriteStuck(n, new)
  BY DEF Write, WriteFails, WriteRefused
<1>7. Types /\ Effect(n, new)
  <2> HIDE DEF Types
  <2> QED BY <1>1, <1>2, <1>3, <1>4, <1>5, <1>6
<1>8. failed' \in SUBSET Tasks
  BY <1>6 DEF VaultTypes
<1>9. left' \in [Kinds -> Nat] /\ \A kind \in Kinds : left'[kind] <= Budget[kind]
  BY <1>6 DEF VaultTypes, Spend, Kinds, PipelineAssumption
<1>10. VaultTypes'
  BY <1>7, <1>8, <1>9 DEF VaultTypes
<1> QED BY <1>1, <1>6, <1>7, <1>10
-----------------------------------------------------------------------------
(* Shapes, and the steps by what they do to the vault and the pool.         *)

Pass == [at : {"idle", "scan", "claim"}, stamp : SUBSET Tasks, claim : SUBSET Tasks]
Run == [task : Tasks \cup {None}, at : Places, session : BOOLEAN, end : {"done", "blocked", "crash"}]
Branches == {"none", "empty", "work", "saved", "origin"}

\* A run has a task, and an outcome when it merges one; a stopped runner has none.
Shapes ==
  /\ VaultTypes
  /\ up \in BOOLEAN /\ hook \in BOOLEAN /\ pass \in Pass
  /\ queue \in [Tasks -> Nat] /\ run \in Run /\ branch \in [Tasks -> Branches]
  /\ At("off") <=> run.task = None
  /\ At("merge") => run.end # "crash"
  /\ ~up => At("off")

\* What a write of note n is for: the stamp, the claim, the start of a run, its
\* end.
StampWrites(n, new) == Like(new, disk[n]) /\ queue' = queue /\ run' = run
ClaimWrites(n, new, ok) ==
  /\ disk[n].status \in Claimable /\ new.status = "queued" /\ new.session = disk[n].session
  /\ queue' = (IF ok THEN Enqueued(n) ELSE queue) /\ run' = run
StartWrites(n, new, ok) ==
  /\ At("start") /\ run.task = n
  /\ new.status = "in_progress" /\ new.session = disk[n].session
  /\ queue' = queue /\ Goto(IF ok THEN "branch" ELSE "setup")
EndWrites(n, new) ==
  /\ run.task = n /\ ~At("off") /\ ~At("preserve")
  /\ new.status \in {"done", "blocked"} /\ (disk[n].session => new.session)
  /\ queue' = queue /\ (run' = Off \/ Goto("preserve"))

Writes(n, new, ok) ==
  /\ Write(n, new, ok) /\ UNCHANGED <<up, branch>>
  /\ StampWrites(n, new) \/ ClaimWrites(n, new, ok) \/ StartWrites(n, new, ok) \/ EndWrites(n, new)

\* The run goes on in the task's branch and the engine.
RunMoves ==
  /\ UNCHANGED <<vault, up, queue, failed>>
  /\ ~At("off") /\ ~At("preserve")
  /\ run' \in Run /\ run'.task = run.task /\ run'.at \in {"invoke", "setup", "crash", "merge"}
  /\ run'.at = "merge" => run'.end # "crash"
  /\ UNCHANGED left \/ Spend("setup")

\* Off is a run without a task.
LEMMA OffIsRun == Off \in Run /\ Off.task = None /\ Off.at = "off"
BY DEF Off, Run, Places

\* The notes that the runner writes.
LEMMA WriteActions ==
  ASSUME Shapes,
         (\E n \in Tasks : Stamp(n) \/ Claim(n)) \/ Start \/ BlockSetup \/ MergeBack \/ CrashFallback
  PROVE  \E n \in Tasks, new \in Note, ok \in BOOLEAN : Writes(n, new, ok)
<1> USE DEF Shapes, VaultTypes
<1>0. ASSUME NEW n \in Tasks, NEW status \in {"queued", "in_progress", "done", "blocked"}
      PROVE  /\ With(n, status) \in Note /\ With(n, status).status = status
             /\ With(n, status).session = disk[n].session
  <2>1. disk[n] \in Note
    OBVIOUS
  <2> QED BY <2>1 DEF With, Note
<1>1. ASSUME NEW n \in Tasks, Stamp(n) PROVE \E new \in Note, ok \in BOOLEAN : Writes(n, new, ok)
  <2>1. PICK ok \in BOOLEAN : Write(n, [disk[n] EXCEPT !.stamped = TRUE], ok)
    BY <1>1 DEF Stamp
  <2>2. [disk[n] EXCEPT !.stamped = TRUE] \in Note /\ Like([disk[n] EXCEPT !.stamped = TRUE], disk[n])
    <3>1. disk[n] \in Note
      OBVIOUS
    <3> QED BY <3>1 DEF Note, Like
  <2>3. UNCHANGED <<up, branch, queue, run>>
    BY <1>1 DEF Stamp
  <2> QED BY <2>1, <2>2, <2>3 DEF Writes, StampWrites
<1>2. ASSUME NEW n \in Tasks, Claim(n) PROVE \E new \in Note, ok \in BOOLEAN : Writes(n, new, ok)
  <2>1. PICK ok \in BOOLEAN : Write(n, With(n, "queued"), ok) /\ queue' = IF ok THEN Enqueued(n) ELSE queue
    BY <1>2 DEF Claim
  <2>2. UNCHANGED <<up, branch, run>> /\ disk[n].status \in Claimable
    BY <1>2 DEF Claim
  <2> QED BY <1>0, <2>1, <2>2 DEF Writes, ClaimWrites
<1>3. ASSUME run.at # "off" PROVE run.task \in Tasks
  BY <1>3 DEF Run, At
<1>4. ASSUME Start PROVE \E n \in Tasks, new \in Note, ok \in BOOLEAN : Writes(n, new, ok)
  <2>1. PICK ok \in BOOLEAN : Write(run.task, With(run.task, "in_progress"), ok)
                              /\ Goto(IF ok THEN "branch" ELSE "setup")
    BY <1>4 DEF Start
  <2>2. UNCHANGED <<up, branch, queue>> /\ At("start") /\ run.task \in Tasks
    BY <1>3, <1>4 DEF Start, At
  <2> QED BY <1>0, <2>1, <2>2 DEF Writes, StartWrites
<1>5. ASSUME BlockSetup PROVE \E n \in Tasks, new \in Note, ok \in BOOLEAN : Writes(n, new, ok)
  <2>1. PICK ok \in BOOLEAN : Write(run.task, With(run.task, "blocked"), ok)
    BY <1>5 DEF BlockSetup
  <2>2. UNCHANGED <<up, branch, queue>> /\ ~At("off") /\ ~At("preserve") /\ run.task \in Tasks /\ run' = Off
    BY <1>3, <1>5 DEF BlockSetup, At
  <2> QED BY <1>0, <2>1, <2>2 DEF Writes, EndWrites
<1>6. ASSUME NEW status \in {"done", "blocked"}, run.task \in Tasks
      PROVE  /\ Outcome(status) \in Note /\ Outcome(status).status = status
             /\ disk[run.task].session => Outcome(status).session
  <2>1. PICK old : old = With(run.task, status)
    OBVIOUS
  <2>2. old \in Note /\ old.status = status /\ old.session = disk[run.task].session
    BY <1>0, <1>6, <2>1
  <2>3. PICK session \in BOOLEAN : session = (old.session \/ run.session)
    <3>1. old.session \in BOOLEAN /\ run.session \in BOOLEAN
      BY <2>2 DEF Note, Run
    <3> QED BY <3>1, Zenon
  <2>4. old.session => session
    BY <2>3, Zenon
  <2>5. Outcome(status) = [old EXCEPT !.session = session]
    BY <2>1, <2>3 DEF Outcome
  <2> QED BY <2>2, <2>4, <2>5 DEF Note
<1>7. ASSUME MergeBack PROVE \E n \in Tasks, new \in Note, ok \in BOOLEAN : Writes(n, new, ok)
  <2>1. PICK ok \in BOOLEAN : /\ Write(run.task, Outcome(run.end), ok)
                              /\ run' = IF ok /\ run.end = "blocked" THEN [run EXCEPT !.at = "preserve"] ELSE Off
    BY <1>7 DEF MergeBack
  <2>2. UNCHANGED <<up, branch, queue>> /\ ~At("off") /\ ~At("preserve") /\ run.task \in Tasks
    BY <1>3, <1>7 DEF MergeBack, At
  <2>3. run.end \in {"done", "blocked"}
    BY <1>7 DEF MergeBack, Run
  <2> QED BY <1>6, <2>1, <2>2, <2>3 DEF Writes, EndWrites, Goto
<1>8. ASSUME CrashFallback PROVE \E n \in Tasks, new \in Note, ok \in BOOLEAN : Writes(n, new, ok)
  <2>1. PICK ok \in BOOLEAN : /\ Write(run.task, Outcome("blocked"), ok)
                              /\ run' = IF ok THEN [run EXCEPT !.at = "preserve"] ELSE Off
    BY <1>8 DEF CrashFallback
  <2>2. UNCHANGED <<up, branch, queue>> /\ ~At("off") /\ ~At("preserve") /\ run.task \in Tasks
    BY <1>3, <1>8 DEF CrashFallback, At
  <2> QED BY <1>6, <2>1, <2>2 DEF Writes, EndWrites, Goto
<1> QED BY <1>1, <1>2, <1>4, <1>5, <1>7, <1>8

\* The steps inside the task's branch and the engine.
LEMMA MoveActions ==
  ASSUME Shapes, PullAndBranch \/ BranchExists \/ CheckoutTaskBranch \/ Invoke \/ SetupFails
  PROVE  RunMoves
<1> USE DEF Shapes
<1>1. CASE PullAndBranch \/ BranchExists \/ CheckoutTaskBranch \/ SetupFails
  <2>1. PICK place \in {"invoke", "setup"} : run' = [run EXCEPT !.at = place]
    BY <1>1 DEF PullAndBranch, BranchExists, CheckoutTaskBranch, SetupFails, Goto
  <2>2. run' \in Run /\ run'.task = run.task /\ run'.at = place
    BY <2>1 DEF Run, Places
  <2>3. run.at \in {"start", "branch", "checkout"}
    BY <1>1 DEF PullAndBranch, BranchExists, CheckoutTaskBranch, SetupFails, At
  <2>4. UNCHANGED <<vault, up, queue, failed>> /\ (UNCHANGED left \/ Spend("setup"))
    BY <1>1 DEF PullAndBranch, BranchExists, CheckoutTaskBranch, SetupFails
  <2> QED BY <2>2, <2>3, <2>4 DEF RunMoves, At
<1>2. CASE Invoke
  <2>1. PICK id \in BOOLEAN, end \in {"done", "blocked", "crash"} :
          run' = [run EXCEPT !.at = IF end = "crash" THEN "crash" ELSE "merge", !.session = id, !.end = end]
    BY <1>2 DEF Invoke
  <2>2. /\ run' \in Run /\ run'.task = run.task /\ run'.end = end
        /\ run'.at = IF end = "crash" THEN "crash" ELSE "merge"
    BY <2>1 DEF Run, Places
  <2> QED BY <1>2, <2>2 DEF Invoke, RunMoves, At
<1> QED BY <1>1, <1>2

\* Every step is one of these.
LEMMA Steps ==
  ASSUME Shapes, [Next]_vars
  PROVE  \/ \E n \in Tasks, new \in Note, ok \in BOOLEAN : Writes(n, new, ok)
         \/ RunMoves
         \/ \E n \in Tasks : Pop(n)
         \/ Preserve \/ Crash \/ Boot \/ PassStarts
         \/ \E n \in Tasks, status \in {"draft", "ready", "resolved"} : Edit(n, status)
         \/ UNCHANGED <<vault, up, queue, run, branch, left, failed>>
<1>1. CASE (\E n \in Tasks : Stamp(n) \/ Claim(n)) \/ Start \/ BlockSetup \/ MergeBack \/ CrashFallback
  BY <1>1, WriteActions
<1>2. CASE PullAndBranch \/ BranchExists \/ CheckoutTaskBranch \/ Invoke \/ SetupFails
  BY <1>2, MoveActions
<1>3. CASE Scan \/ PassEnds \/ (\E n \in Tasks : ClaimRejected(n)) \/ UNCHANGED vars
  BY <1>3 DEF Scan, PassEnds, ClaimRejected, vars, poolVars
<1> QED BY <1>1, <1>2, <1>3 DEF Next, Dispatch, Process, Setup

\* A bound on the budget survives spending.
LEMMA Spending ==
  ASSUME VaultTypes, PipelineAssumption, NEW kind \in Kinds, UNCHANGED left \/ Spend(kind)
  PROVE  /\ left' \in [Kinds -> Nat] /\ \A k \in Kinds : left'[k] <= Budget[k]
         /\ \A k \in Kinds \ {kind} : left'[k] = left[k]
         /\ Spend(kind) => left'[kind] < Budget[kind]
BY DEF VaultTypes, PipelineAssumption, Spend

\* People change a status at origin.
LEMMA EditEffect ==
  ASSUME Shapes, NEW n \in Tasks, NEW status \in {"draft", "ready", "resolved"}, Edit(n, status)
  PROVE  /\ origin' \in [Tasks -> Note] /\ behind' = behind \cup {n}
         /\ origin'[n].status = status /\ origin'[n].session = origin[n].session
         /\ \A m \in Tasks \ {n} : origin'[m] = origin[m]
         /\ UNCHANGED <<disk, ahead, unmerged, rebasing, up, queue, run, branch, failed>>
         /\ Spend("edit")
<1>1. origin \in [Tasks -> Note] /\ origin[n] \in Note
  BY DEF Shapes, VaultTypes
<1>2. PICK new : new = [origin[n] EXCEPT !.status = status]
  OBVIOUS
<1>3. new \in Note /\ new.status = status /\ new.session = origin[n].session
  BY <1>1, <1>2 DEF Note
<1>4. origin' = [origin EXCEPT ![n] = new] /\ behind' = behind \cup {n}
  BY <1>2 DEF Edit, Push
<1>5. UNCHANGED <<disk, ahead, unmerged, rebasing, up, queue, run, branch, failed>> /\ Spend("edit")
  BY DEF Edit, Push, poolVars
<1> QED BY <1>1, <1>3, <1>4, <1>5

\* The vault keeps its types.
LEMMA VaultStep ==
  ASSUME Shapes, PipelineAssumption, VaultAssumption, [Next]_vars
  PROVE  VaultTypes'
<1> USE DEF Shapes
<1>1. CASE \E n \in Tasks, new \in Note, ok \in BOOLEAN : Writes(n, new, ok)
  BY <1>1, WriteEffect DEF Writes
<1>2. CASE RunMoves
  BY <1>2, Spending DEF RunMoves, vault, VaultTypes, Kinds
<1>3. CASE (\E n \in Tasks : Pop(n)) \/ UNCHANGED <<vault, up, queue, run, branch, left, failed>>
  BY <1>3 DEF Pop, vault, VaultTypes
<1>4. CASE Preserve
  BY <1>4, Spending DEF Preserve, vault, VaultTypes, Kinds
<1>5. CASE Crash
  BY <1>5, Spending DEF Crash, vault, VaultTypes, Kinds
<1>6. CASE Boot \/ PassStarts
  BY <1>6 DEF Boot, PassStarts, Sync, VaultTypes
<1>7. CASE \E n \in Tasks, status \in {"draft", "ready", "resolved"} : Edit(n, status)
  <2>1. PICK n \in Tasks, status \in {"draft", "ready", "resolved"} : Edit(n, status)
    BY <1>7
  <2>2. left' \in [Kinds -> Nat] /\ \A k \in Kinds : left'[k] <= Budget[k]
    BY <2>1, EditEffect, Spending DEF Kinds
  <2>3. /\ origin' \in [Tasks -> Note] /\ behind' = behind \cup {n}
        /\ UNCHANGED <<disk, ahead, unmerged, rebasing, failed>>
    BY <2>1, EditEffect
  <2> QED BY <2>1, <2>2, <2>3 DEF VaultTypes
<1> QED BY <1>1, <1>2, <1>3, <1>4, <1>5, <1>6, <1>7, Steps

\* The pool keeps its types.
LEMMA PoolStep ==
  ASSUME Shapes, [Next]_vars
  PROVE  queue' \in [Tasks -> Nat] /\ up' \in BOOLEAN /\ hook' \in BOOLEAN /\ pass' \in Pass
<1> USE DEF Shapes
<1>1. queue' \in [Tasks -> Nat]
  <2>1. ASSUME NEW n \in Tasks, queue' \in {queue, Enqueued(n)} PROVE queue' \in [Tasks -> Nat]
    BY <2>1 DEF Enqueued
  <2>2. CASE \E n \in Tasks, new \in Note, ok \in BOOLEAN : Writes(n, new, ok)
    BY <2>1, <2>2 DEF Writes, StampWrites, ClaimWrites, StartWrites, EndWrites
  <2>3. CASE \E n \in Tasks : Pop(n)
    <3>1. PICK n \in Tasks : queue[n] > 0 /\ queue' = [queue EXCEPT ![n] = @ - 1]
      BY <2>3 DEF Pop
    <3>2. queue[n] - 1 \in Nat
      BY <3>1
    <3> QED BY <3>1, <3>2
  <2>4. CASE Crash \/ Boot
    BY <2>4 DEF Crash, Boot
  <2>5. CASE Preserve \/ PassStarts \/ RunMoves \/ UNCHANGED <<vault, up, queue, run, branch, left, failed>>
    BY <2>5 DEF Preserve, PassStarts, RunMoves
  <2>6. CASE \E n \in Tasks, status \in {"draft", "ready", "resolved"} : Edit(n, status)
    BY <2>6 DEF Edit, poolVars
  <2> QED BY <2>2, <2>3, <2>4, <2>5, <2>6, Steps
<1>2. up' \in BOOLEAN /\ hook' \in BOOLEAN
  BY DEF Next, Dispatch, Process, Setup, PassStarts, Scan, PassEnds, Stamp, Claim, ClaimRejected, Start,
         PullAndBranch, BranchExists, CheckoutTaskBranch, BlockSetup, Invoke, MergeBack, CrashFallback, Preserve,
         Pop, SetupFails, Crash, Boot, Edit, vars, poolVars
<1>3. pass' \in Pass
  <2>1. CASE PassStarts
    BY <2>1 DEF PassStarts, Pass
  <2>2. CASE Scan
    BY <2>2 DEF Scan, Pass
  <2>3. CASE PassEnds \/ Crash
    BY <2>3 DEF PassEnds, Crash, Idle, Pass
  <2>4. ASSUME NEW n \in Tasks, Stamp(n) PROVE pass' \in Pass
    <3>1. pass' = [pass EXCEPT !.stamp = @ \ {n}] \/ pass' = Idle
      BY <2>4 DEF Stamp
    <3> QED BY <3>1 DEF Idle, Pass
  <2>5. ASSUME NEW n \in Tasks, Claim(n) \/ ClaimRejected(n) PROVE pass' \in Pass
    <3>1. pass' = [pass EXCEPT !.claim = @ \ {n}]
      BY <2>5 DEF Claim, ClaimRejected
    <3> QED BY <3>1 DEF Pass
  <2>6. CASE Process \/ SetupFails \/ Boot \/ UNCHANGED vars
             \/ \E n \in Tasks, s \in {"draft", "ready", "resolved"} : Edit(n, s)
    BY <2>6 DEF Process, Setup, Start, PullAndBranch, BranchExists, CheckoutTaskBranch, BlockSetup, Invoke, MergeBack,
                CrashFallback, Preserve, Pop, SetupFails, Boot, Edit, vars, poolVars
  <2> QED BY <2>1, <2>2, <2>3, <2>4, <2>5, <2>6 DEF Next, Dispatch
<1> QED BY <1>1, <1>2, <1>3

\* The run keeps its shape.
LEMMA RunStep ==
  ASSUME Shapes, VaultAssumption, [Next]_vars
  PROVE  /\ run' \in Run /\ (At("off") <=> run.task = None)' /\ (At("merge") => run.end # "crash")'
         /\ (~up => At("off"))'
<1> USE DEF Shapes
<1> DEFINE Good == /\ run' \in Run /\ (run'.at = "off" <=> run'.task = None)
                   /\ run'.at = "merge" => run'.end # "crash"
                   /\ ~up' => run'.at = "off"
<1>1. ASSUME run' = Off PROVE Good
  BY <1>1, OffIsRun
<1>2. ASSUME UNCHANGED <<run, up>> PROVE Good
  BY <1>2 DEF At
<1>3. ASSUME NEW place \in Places \ {"off", "merge"}, run' = [run EXCEPT !.at = place], run.at # "off", up' = up PROVE Good
  BY <1>3 DEF Run, At
<1>4. ASSUME \E n \in Tasks, new \in Note, ok \in BOOLEAN : Writes(n, new, ok) PROVE Good
  <2>1. \/ UNCHANGED <<run, up>> \/ run' = Off
        \/ run.at # "off" /\ up' = up /\ \E place \in Places \ {"off", "merge"} : run' = [run EXCEPT !.at = place]
    BY <1>4 DEF Writes, StampWrites, ClaimWrites, StartWrites, EndWrites, Goto, At, Places
  <2> HIDE DEF Good
  <2> QED BY <1>1, <1>2, <1>3, <2>1
<1>5. ASSUME RunMoves PROVE Good
  BY <1>5 DEF RunMoves, At, Run
<1>6. ASSUME \E n \in Tasks : Pop(n) PROVE Good
  <2>1. PICK n \in Tasks : Pop(n)
    BY <1>6
  <2>2. run' = Off \/ \E place \in {"checkout", "start"} : run' = [Off EXCEPT !.task = n, !.at = place]
    BY <2>1 DEF Pop
  <2>3. up' = TRUE /\ n # None
    BY <2>1 DEF Pop, VaultAssumption
  <2>4. ASSUME NEW place \in {"checkout", "start"}, run' = [Off EXCEPT !.task = n, !.at = place] PROVE Good
    BY <2>3, <2>4, OffIsRun DEF Run, Places
  <2> QED BY <1>1, <2>2, <2>4
<1>7. ASSUME Preserve \/ Crash PROVE Good
  BY <1>1, <1>7 DEF Preserve, Crash
<1>8. ASSUME Boot PROVE Good
  BY <1>8 DEF Boot, At
<1>9. ASSUME PassStarts \/ (\E n \in Tasks, status \in {"draft", "ready", "resolved"} : Edit(n, status))
             \/ UNCHANGED <<vault, up, queue, run, branch, left, failed>>
      PROVE  Good
  <2>1. UNCHANGED <<run, up>>
    BY <1>9 DEF PassStarts, Edit, poolVars
  <2> QED BY <1>2, <2>1
<1> HIDE DEF Good
<1>10. Good
  BY <1>4, <1>5, <1>6, <1>7, <1>8, <1>9, Steps
<1> QED BY <1>10 DEF At, Good

\* The branches keep their type.
LEMMA BranchStep ==
  ASSUME Shapes, [Next]_vars
  PROVE  branch' \in [Tasks -> Branches]
<1> USE DEF Shapes
<1>1. UNCHANGED branch \/ \E n \in Tasks, b \in Branches : branch' = [branch EXCEPT ![n] = b]
  <2>0. run.at # "off" => run.task \in Tasks /\ branch[run.task] \in Branches
    BY DEF Run, At
  <2>1. CASE BranchExists \/ SetupFails
    <3>1. UNCHANGED branch \/ (run.at # "off" /\ branch' = [branch EXCEPT ![run.task] = Deleted(@)])
      BY <2>1 DEF BranchExists, SetupFails, At
    <3>2. Deleted(branch[run.task]) \in Branches
      BY DEF Deleted, Branches
    <3> QED BY <2>0, <3>1, <3>2
  <2>2. CASE CheckoutTaskBranch
    <3> DEFINE b == IF branch[run.task] = "origin" THEN "saved" ELSE branch[run.task]
    <3>1. run.at # "off" /\ branch' = [branch EXCEPT ![run.task] = b]
      BY <2>2 DEF CheckoutTaskBranch, At
    <3>2. b \in Branches
      BY <2>0, <3>1 DEF Branches
    <3> HIDE DEF b
    <3> QED BY <2>0, <3>1, <3>2
  <2>3. CASE PullAndBranch \/ Preserve \/ Invoke \/ Crash
    <3>1. \/ UNCHANGED branch
          \/ run.at # "off" /\ \E b \in {"empty", "saved", "work"} : branch' = [branch EXCEPT ![run.task] = b]
      BY <2>3 DEF PullAndBranch, Preserve, Invoke, Crash, At
    <3> QED BY <2>0, <3>1 DEF Branches
  <2>4. BranchExists \/ SetupFails \/ CheckoutTaskBranch \/ PullAndBranch \/ Preserve \/ Invoke \/ Crash
        \/ UNCHANGED branch
    BY DEF Next, Dispatch, Process, Setup, PassStarts, Scan, PassEnds, Stamp, Claim, ClaimRejected, Start,
           BlockSetup, MergeBack, CrashFallback, Pop, Boot, Edit, vars
  <2> QED BY <2>1, <2>2, <2>3, <2>4
<1> QED BY <1>1

\* Every variable stays of its type.
LEMMA ShapeInvariant == Spec => []Shapes
<1> USE PipelineAssumption, VaultAssumption
<1>1. Init => Shapes
  <2> SUFFICES ASSUME Init PROVE Shapes
    OBVIOUS
  <2>1. origin \in [Tasks -> Note] /\ disk = origin
    <3> DEFINE note(n) == [status |-> IF n \in Drafts THEN "draft" ELSE "ready", session |-> FALSE, stamped |-> FALSE]
    <3>1. \A n \in Tasks : note(n) \in Note
      BY DEF Note
    <3>2. origin = [n \in Tasks |-> note(n)] /\ disk = origin
      BY DEF Init
    <3> HIDE DEF note
    <3> QED BY <3>1, <3>2
  <2>2. VaultTypes
    <3>1. ahead = {} /\ behind = {} /\ failed = {} /\ unmerged = None /\ rebasing = FALSE /\ left = Budget
      BY DEF Init
    <3>2. \A kind \in Kinds : Budget[kind] <= Budget[kind]
      BY DEF PipelineAssumption
    <3>3. left \in [Kinds -> Nat] /\ \A kind \in Kinds : left[kind] <= Budget[kind]
      BY <3>1, <3>2 DEF PipelineAssumption
    <3> QED BY <2>1, <3>1, <3>3 DEF VaultTypes
  <2>3. run = Off /\ pass \in Pass /\ queue \in [Tasks -> Nat] /\ branch \in [Tasks -> Branches]
    BY DEF Init, Pass, Idle, Branches
  <2>4. up = TRUE /\ hook = TRUE
    BY DEF Init
  <2> QED BY <2>2, <2>3, <2>4, OffIsRun DEF Shapes, At
<1>2. Shapes /\ [Next]_vars => Shapes'
  BY VaultStep, PoolStep, RunStep, BranchStep DEF Shapes
<1> QED BY <1>1, <1>2, PTL DEF Spec

\* The theorem's form of it.
THEOREM TypeCorrect == Spec => []TypeOK
<1>1. Shapes => TypeOK
  BY DEF Shapes, VaultTypes, TypeOK, Pass, Run, Branches
<1> QED BY <1>1, ShapeInvariant, PTL
-----------------------------------------------------------------------------
(* One job per task.                                                        *)

Held == {"queued", "in_progress"}
InPool(n) == queue[n] # 0 \/ Running(n)

\* A task in the pool is there once, held in both copies of its note, queued as
\* long as its job is, and nobody has touched it at origin.
PoolInv ==
  \A n \in Tasks :
    /\ queue[n] \in {0, 1} /\ ~(queue[n] # 0 /\ Running(n))
    /\ InPool(n) => disk[n].status \in Held /\ origin[n].status \in Held /\ n \notin behind
    /\ queue[n] # 0 => disk[n].status = "queued" /\ origin[n].status = "queued"

\* A write keeps it: only a claim adds a job, and a claim finds the task out of
\* the pool.
LEMMA WriteKeepsPool ==
  ASSUME Shapes, PipelineAssumption, VaultAssumption, PoolInv,
         NEW n \in Tasks, NEW new \in Note, NEW ok \in BOOLEAN, Writes(n, new, ok), NEW m \in Tasks
  PROVE  /\ queue'[m] \in {0, 1} /\ ~(queue'[m] # 0 /\ Running(m)')
         /\ InPool(m)' => disk'[m].status \in Held /\ origin'[m].status \in Held /\ m \notin behind'
         /\ queue'[m] # 0 => disk'[m].status = "queued" /\ origin'[m].status = "queued"
<1>1. Effect(n, new) /\ (ok => Landed(n, new))
  BY WriteEffect DEF Shapes, Writes
<1>2. /\ queue[m] \in {0, 1} /\ ~(queue[m] # 0 /\ Running(m))
      /\ InPool(m) => disk[m].status \in Held /\ origin[m].status \in Held /\ m \notin behind
      /\ queue[m] # 0 => disk[m].status = "queued" /\ origin[m].status = "queued"
  BY DEF PoolInv
<1>3. ASSUME InPool(m), Now(n, new, m).status \in Held
      PROVE  disk'[m].status \in Held /\ origin'[m].status \in Held /\ m \notin behind'
  BY <1>1, <1>2, <1>3 DEF Effect, Like
<1>8. ASSUME queue[m] # 0, Now(n, new, m).status = "queued"
      PROVE  disk'[m].status = "queued" /\ origin'[m].status = "queued"
  BY <1>1, <1>2, <1>8 DEF Effect, Like
<1>q. queue \in [Tasks -> Nat]
  BY DEF Shapes
<1>4. CASE StampWrites(n, new)
  <2>1. queue' = queue /\ run' = run
    BY <1>4 DEF StampWrites
  <2>2. Running(m)' = Running(m) /\ InPool(m)' = InPool(m)
    BY <2>1 DEF InPool, Running, At
  <2>3. InPool(m) => Now(n, new, m).status \in Held
    BY <1>2, <1>4 DEF StampWrites, Like, Now
  <2>4. queue[m] # 0 => Now(n, new, m).status = "queued"
    BY <1>2, <1>4 DEF StampWrites, Like, Now
  <2> QED BY <1>2, <1>3, <1>8, <2>1, <2>2, <2>3, <2>4
<1>5. CASE ClaimWrites(n, new, ok)
  <2>1. run' = run /\ queue' = (IF ok THEN Enqueued(n) ELSE queue)
    BY <1>5 DEF ClaimWrites
  <2>2. Running(m)' = Running(m)
    BY <2>1 DEF Running, At
  <2>3. CASE m # n \/ ~ok
    <3>1. queue'[m] = queue[m]
      BY <1>q, <2>1, <2>3 DEF Enqueued
    <3>2. InPool(m)' = InPool(m)
      BY <2>2, <3>1 DEF InPool
    <3>3. InPool(m) => Now(n, new, m).status \in Held
      BY <1>2, <1>5 DEF ClaimWrites, Now, Held, Claimable
    <3>4. queue[m] # 0 => Now(n, new, m).status = "queued"
      BY <1>2, <1>5 DEF ClaimWrites, Now
    <3> QED BY <1>2, <1>3, <1>8, <2>2, <3>1, <3>2, <3>3, <3>4
  <2>4. CASE m = n /\ ok
    <3>1. ~InPool(n)
      BY <1>2, <1>5, <2>4 DEF ClaimWrites, Held, Claimable
    <3>2. queue[n] = 0 /\ ~Running(n)
      BY <3>1 DEF InPool
    <3>3. queue'[n] = 1
      BY <1>q, <2>1, <2>4, <3>2 DEF Enqueued
    <3>4. Landed(n, new) /\ new.status = "queued" /\ disk[n].status # "queued"
      BY <1>1, <1>5, <2>4 DEF ClaimWrites, Claimable
    <3>5. disk'[n].status = "queued" /\ origin'[n].status = "queued" /\ n \notin behind'
      BY <3>4 DEF Landed, Like
    <3> QED BY <2>2, <2>4, <3>2, <3>3, <3>5 DEF Held
  <2> QED BY <2>3, <2>4
<1>6. CASE StartWrites(n, new, ok)
  <2>1. queue' = queue /\ run.task = n /\ run.at = "start" /\ run'.task = n /\ run'.at \in {"branch", "setup"}
    BY <1>6 DEF StartWrites, Goto, At, Shapes, Run
  <2>2. Running(m)' = Running(m)
    BY <2>1 DEF Running, At
  <2>3. InPool(m)' = InPool(m)
    BY <2>1, <2>2 DEF InPool
  <2>4. InPool(m) => Now(n, new, m).status \in Held
    BY <1>2, <1>6 DEF StartWrites, Now, Held
  <2>5. queue[m] # 0 => Now(n, new, m).status = "queued"
    BY <1>2, <2>1 DEF Now, Running, At
  <2> QED BY <1>2, <1>3, <1>8, <2>1, <2>2, <2>3, <2>4, <2>5
<1>7. CASE EndWrites(n, new)
  <2>1. queue' = queue /\ Running(n)
    BY <1>7 DEF EndWrites, Running
  <2>2. run'.task = None \/ run'.at = "preserve"
    BY <1>7, OffIsRun DEF EndWrites, Goto, Shapes, Run
  <2>3. ~Running(m)'
    BY <2>2 DEF Running, At, VaultAssumption
  <2>4. InPool(m)' => InPool(m) /\ m # n
    BY <1>2, <2>1, <2>3 DEF InPool
  <2>5. m # n /\ InPool(m) => Now(n, new, m).status \in Held
    BY <1>2 DEF Now
  <2>6. queue[m] # 0 => Now(n, new, m).status = "queued"
    BY <1>2, <2>1 DEF Now
  <2> QED BY <1>2, <1>3, <1>8, <2>1, <2>3, <2>4, <2>5, <2>6
<1> QED BY <1>4, <1>5, <1>6, <1>7 DEF Writes

\* And so does every other step.
LEMMA PoolInvStep ==
  ASSUME Shapes, PipelineAssumption, VaultAssumption, PoolInv, [Next]_vars
  PROVE  PoolInv'
<1> SUFFICES ASSUME NEW m \in Tasks
             PROVE  /\ queue'[m] \in {0, 1} /\ ~(queue'[m] # 0 /\ Running(m)')
                    /\ InPool(m)' => disk'[m].status \in Held /\ origin'[m].status \in Held /\ m \notin behind'
                    /\ queue'[m] # 0 => disk'[m].status = "queued" /\ origin'[m].status = "queued"
  BY DEF PoolInv
<1>0. /\ queue[m] \in {0, 1} /\ ~(queue[m] # 0 /\ Running(m))
      /\ InPool(m) => disk[m].status \in Held /\ origin[m].status \in Held /\ m \notin behind
      /\ queue[m] # 0 => disk[m].status = "queued" /\ origin[m].status = "queued"
  BY DEF PoolInv
<1>1. CASE \E n \in Tasks, new \in Note, ok \in BOOLEAN : Writes(n, new, ok)
  <2> PICK n \in Tasks, new \in Note, ok \in BOOLEAN : Writes(n, new, ok)
    BY <1>1
  <2> QED BY WriteKeepsPool
<1>2. CASE RunMoves \/ UNCHANGED <<vault, up, queue, run, branch, left, failed>>
  <2>1. UNCHANGED <<vault, queue>> /\ (Running(m)' <=> Running(m))
    BY <1>2 DEF RunMoves, Running, At
  <2> QED BY <1>0, <2>1 DEF InPool, vault
<1>3. CASE \E n \in Tasks : Pop(n)
  <2>1. PICK n \in Tasks : Pop(n)
    BY <1>3
  <2>2. /\ UNCHANGED vault /\ run.at = "off" /\ run.task = None /\ queue[n] > 0
        /\ queue' = [queue EXCEPT ![n] = @ - 1]
    BY <2>1 DEF Pop, Shapes, At
  <2>3. ~Running(m)
    BY <2>2 DEF Running, VaultAssumption
  <2>4. Running(m)' => m = n
    <3>1. run'.task \in {None, n}
      BY <2>1, OffIsRun DEF Pop, Run
    <3> QED BY <3>1 DEF Running, VaultAssumption
  <2>5. queue \in [Tasks -> Nat]
    BY DEF Shapes
  <2>6. CASE m = n
    <3>1. queue[m] = 1 /\ queue'[m] = 0
      BY <1>0, <2>2, <2>5, <2>6
    <3> QED BY <1>0, <2>2, <3>1 DEF InPool, vault
  <2>7. CASE m # n
    <3>1. queue'[m] = queue[m] /\ ~Running(m)'
      BY <2>2, <2>4, <2>5, <2>7
    <3> QED BY <1>0, <2>2, <3>1 DEF InPool, vault
  <2> QED BY <2>6, <2>7
<1>4. CASE Preserve
  <2>1. UNCHANGED <<vault, queue>> /\ run' = Off
    BY <1>4 DEF Preserve
  <2>2. ~Running(m)'
    BY <2>1, OffIsRun DEF Running, VaultAssumption
  <2> QED BY <1>0, <2>1, <2>2 DEF InPool, vault
<1>5. CASE Crash
  <2>1. run' = Off /\ queue'[m] = 0
    BY <1>5 DEF Crash
  <2>2. ~Running(m)'
    BY <2>1, OffIsRun DEF Running, VaultAssumption
  <2> QED BY <2>1, <2>2 DEF InPool
<1>6. CASE Boot
  <2>1. /\ run' = run /\ run.task = None /\ disk' = origin /\ origin' = origin /\ behind' = {}
        /\ queue'[m] = IF origin[m].status = "queued" THEN 1 ELSE 0
    BY <1>6 DEF Boot, Sync, Shapes
  <2>2. ~Running(m)'
    BY <2>1 DEF Running, VaultAssumption
  <2> QED BY <2>1, <2>2 DEF InPool, Held
<1>7. CASE PassStarts
  <2>1. UNCHANGED <<queue, run>> /\ disk' = origin /\ origin' = origin /\ behind' = {}
    BY <1>7 DEF PassStarts, Sync
  <2>2. Running(m)' = Running(m)
    BY <2>1 DEF Running, At
  <2> QED BY <1>0, <2>1, <2>2 DEF InPool
<1>8. CASE \E n \in Tasks, status \in {"draft", "ready", "resolved"} : Edit(n, status)
  <2>1. PICK n \in Tasks, status \in {"draft", "ready", "resolved"} : Edit(n, status)
    BY <1>8
  <2>2. /\ UNCHANGED <<disk, queue, run>> /\ behind' = behind \cup {n}
        /\ \A k \in Tasks \ {n} : origin'[k] = origin[k]
    BY <2>1, EditEffect
  <2>3. (Running(m)' <=> Running(m)) /\ (InPool(m)' <=> InPool(m))
    BY <2>2 DEF InPool, Running, At
  <2>4. InPool(n) => origin[n].status = "in_progress" /\ run.task # n
    BY <2>1 DEF Edit, PoolInv, Held
  <2>5. ~InPool(n) /\ queue[n] = 0
    BY <2>4 DEF InPool, Running, PoolInv
  <2>6. CASE m = n
    BY <1>0, <2>2, <2>3, <2>5, <2>6
  <2>7. CASE m # n
    <3>1. origin'[m] = origin[m] /\ disk'[m] = disk[m] /\ queue'[m] = queue[m] /\ (m \in behind' => m \in behind)
      BY <2>2, <2>7
    <3> QED BY <1>0, <2>3, <3>1
  <2> QED BY <2>6, <2>7
<1> QED BY <1>1, <1>2, <1>3, <1>4, <1>5, <1>6, <1>7, <1>8, Steps

\* It holds in every state.
LEMMA PoolInvariant == Spec => []PoolInv
<1> USE PipelineAssumption, VaultAssumption
<1>1. Init => PoolInv
  BY OffIsRun DEF Init, PoolInv, InPool, Running
<1>2. Shapes /\ PoolInv /\ [Next]_vars => PoolInv'
  BY PoolInvStep
<1> QED BY <1>1, <1>2, ShapeInvariant, PTL DEF Spec

\* No task is in the pool twice, whatever fails, crashes and is edited
\* (dispatch's claim, ReconcileQueued).
THEOREM PoolHoldsTaskOnce == Spec => []OneJobPerTask
<1>1. Shapes /\ PoolInv => OneJobPerTask
  <2> SUFFICES ASSUME PoolInv, NEW n \in Tasks PROVE Jobs(n) <= 1
    BY DEF OneJobPerTask
  <2>1. queue[n] \in {0, 1} /\ ~(queue[n] # 0 /\ Running(n))
    BY DEF PoolInv
  <2>2. CASE Running(n)
    BY <2>1, <2>2 DEF Jobs
  <2>3. CASE ~Running(n)
    BY <2>1, <2>3 DEF Jobs
  <2> QED BY <2>2, <2>3
<1> QED BY <1>1, ShapeInvariant, PoolInvariant, PTL

\* A draft a person has withdrawn is neither queued nor run.
THEOREM WithdrawnIsNotRun == Spec => []WithdrawnStaysOut
<1>1. PoolInv => WithdrawnStaysOut
  <2> SUFFICES ASSUME PoolInv, NEW n \in Tasks, origin[n].status = "draft" PROVE Jobs(n) = 0
    BY DEF WithdrawnStaysOut
  <2>1. ~InPool(n)
    BY DEF PoolInv, Held
  <2>2. queue[n] = 0 /\ ~Running(n)
    BY <2>1 DEF InPool
  <2> QED BY <2>2 DEF Jobs
<1> QED BY <1>1, PoolInvariant, PTL
-----------------------------------------------------------------------------
(* The clone against origin.                                                *)

Ended(status) == status \in {"done", "blocked"}

\* A note d of the clone is at most one step of the runner ahead of the note o at
\* origin, and a session is recorded only with the end of a run.
Lag(o, d) ==
  /\ \/ o.status = d.status
     \/ o.status \in Claimable /\ d.status = "queued"
     \/ o.status = "queued" /\ ~o.session /\ d.status = "in_progress"
     \/ o.status \in Held /\ Ended(d.status)
  /\ \/ o.session = d.session
     \/ o.status \in Held /\ Ended(d.status) /\ d.session

\* The clone has every session origin has; without a conflict in its tree it lags
\* behind origin only in notes people have changed; a fresh run has no session.
VaultInv ==
  /\ \A n \in Tasks : origin[n].session => disk[n].session
  /\ unmerged = None => \A n \in Tasks \ behind : Lag(origin[n], disk[n])
  /\ run.at \in {"start", "branch"} => ~disk[run.task].session

\* Lag does not look at ready_at.
LEMMA LagLike ==
  ASSUME NEW o, NEW d, NEW p, NEW e, Like(p, o), Like(e, d), Lag(o, d)
  PROVE  Lag(p, e)
BY DEF Like, Lag, Ended

\* Alike notes lag.
LEMMA LagSame ==
  ASSUME NEW o, NEW d, Like(o, d)
  PROVE  Lag(o, d)
BY DEF Like, Lag

\* What the runner writes is one step ahead of origin, unless a person was there.
LEMMA WritesLag ==
  ASSUME Shapes, PoolInv, VaultInv, NEW n \in Tasks, NEW new \in Note, NEW ok \in BOOLEAN, Writes(n, new, ok)
  PROVE  /\ disk[n].session => new.session
         /\ n \notin behind /\ unmerged = None => Lag(origin[n], new)
<1> DEFINE o == origin[n]
           d == disk[n]
<1>1. /\ o \in Note /\ d \in Note
      /\ o.session \in BOOLEAN /\ d.session \in BOOLEAN /\ new.session \in BOOLEAN
  BY DEF Shapes, VaultTypes, Note
<1>2. d.session => new.session
  BY DEF Writes, StampWrites, Like, ClaimWrites, StartWrites, EndWrites
<1>3. ASSUME n \notin behind, unmerged = None PROVE Lag(o, new)
  <2>1. Lag(o, d)
    BY <1>3 DEF VaultInv
  <2>2. Running(n) => o.status \in Held /\ d.status \in Held
    BY DEF PoolInv, InPool
  <2> HIDE DEF o, d
  <2>3. CASE Like(new, d)
    BY <2>1, <2>3, LagLike DEF Like
  <2>4. CASE d.status \in Claimable /\ new.status = "queued" /\ new.session = d.session
    <3>1. o.status = d.status /\ o.session = d.session
      BY <2>1, <2>4 DEF Lag, Ended, Claimable
    <3> QED BY <2>4, <3>1 DEF Lag
  <2>5. CASE Running(n) /\ ~d.session /\ new.status = "in_progress" /\ new.session = d.session
    <3>1. o.status \in Held /\ o.session = d.session
      BY <2>1, <2>2, <2>5 DEF Lag, Ended, Held
    <3> QED BY <2>5, <3>1 DEF Lag, Held
  <2>6. CASE Running(n) /\ Ended(new.status)
    <3>1. o.status \in Held /\ o.session = d.session
      BY <2>1, <2>2, <2>6 DEF Lag, Ended, Held
    <3>2. CASE new.session
      BY <2>6, <3>1, <3>2 DEF Lag
    <3>3. CASE ~new.session
      <4>1. o.session = FALSE /\ new.session = FALSE
        BY <1>1, <1>2, <3>1, <3>3 DEF d
      <4> QED BY <2>6, <3>1, <4>1 DEF Lag
    <3> QED BY <3>2, <3>3
  <2>7. StampWrites(n, new) => Like(new, d)
    BY DEF StampWrites, d
  <2>8. ClaimWrites(n, new, ok) => d.status \in Claimable /\ new.status = "queued" /\ new.session = d.session
    BY DEF ClaimWrites, d
  <2>9. StartWrites(n, new, ok) => Running(n) /\ ~d.session /\ new.status = "in_progress" /\ new.session = d.session
    BY DEF StartWrites, d, Running, At, VaultInv
  <2>10. EndWrites(n, new) => Running(n) /\ Ended(new.status)
    BY DEF EndWrites, Running, Ended
  <2> QED BY <2>3, <2>4, <2>5, <2>6, <2>7, <2>8, <2>9, <2>10 DEF Writes
<1> QED BY <1>2, <1>3

\* A write keeps the clone where it is to origin.
LEMMA WriteKeepsVault ==
  ASSUME Shapes, PipelineAssumption, VaultAssumption, PoolInv, VaultInv,
         NEW n \in Tasks, NEW new \in Note, NEW ok \in BOOLEAN, Writes(n, new, ok)
  PROVE  VaultInv'
<1>1. Effect(n, new)
  BY WriteEffect DEF Writes, Shapes
<1>2. /\ disk[n].session => new.session
      /\ n \notin behind /\ unmerged = None => Lag(origin[n], new)
  BY WritesLag
<1>3. ASSUME NEW m \in Tasks PROVE origin'[m].session => disk'[m].session
  <2>1. origin[m].session => disk[m].session
    BY DEF VaultInv
  <2>2. disk[m].session => Now(n, new, m).session
    BY <1>2 DEF Now
  <2>3. CASE m \in behind \ behind'
    BY <1>1, <2>3 DEF Effect, Like
  <2>4. CASE Like(origin'[m], origin[m])
    BY <1>1, <2>1, <2>2, <2>4 DEF Effect, Like
  <2>5. CASE Like(disk'[m], origin'[m])
    BY <2>5 DEF Like
  <2> QED BY <1>1, <2>3, <2>4, <2>5 DEF Effect
<1>4. ASSUME unmerged' = None, NEW m \in Tasks \ behind' PROVE Lag(origin'[m], disk'[m])
  <2>1. CASE m \in behind
    BY <1>1, <2>1, <1>4, LagSame DEF Effect, Like
  <2>2. CASE m \notin behind
    <3>1. /\ Like(disk'[m], Now(n, new, m)) /\ unmerged = None
          /\ Like(origin'[m], origin[m]) \/ Like(origin'[m], Now(n, new, m))
      BY <1>1, <1>4, <2>2 DEF Effect
    <3>2. Lag(origin[m], Now(n, new, m))
      BY <1>2, <2>2, <3>1 DEF Now, VaultInv
    <3>3. CASE Like(origin'[m], origin[m])
      BY <3>1, <3>2, <3>3, LagLike
    <3>4. CASE Like(origin'[m], Now(n, new, m))
      BY <3>1, <3>4, LagSame DEF Like
    <3> QED BY <3>1, <3>3, <3>4
  <2> QED BY <2>1, <2>2
<1>5. ASSUME run'.at \in {"start", "branch"} PROVE ~disk'[run'.task].session
  <2>1. run'.task = run.task /\ run.at \in {"start", "branch"} /\ run.task \in Tasks
    BY <1>5, OffIsRun DEF Writes, StampWrites, ClaimWrites, StartWrites, EndWrites, Goto, At, Shapes, Run
  <2>2. ~disk[run.task].session /\ ~origin[run.task].session
    BY <2>1 DEF VaultInv
  <2>3. ~Now(n, new, run.task).session
    <3>1. run.task = n => new.session = disk[n].session
      BY <1>5, <2>1, OffIsRun DEF Writes, StampWrites, Like, ClaimWrites, StartWrites, EndWrites, Goto, Shapes, Run
    <3> QED BY <2>2, <3>1 DEF Now
  <2> QED BY <1>1, <2>1, <2>2, <2>3 DEF Effect, Like
<1> QED BY <1>3, <1>4, <1>5 DEF VaultInv

\* And so does every other step.
LEMMA VaultInvStep ==
  ASSUME Shapes, PipelineAssumption, VaultAssumption, PoolInv, VaultInv, [Next]_vars
  PROVE  VaultInv'
<1>1. CASE \E n \in Tasks, new \in Note, ok \in BOOLEAN : Writes(n, new, ok)
  BY <1>1, WriteKeepsVault
<1>2. CASE UNCHANGED vault /\ (run'.at \in {"start", "branch"} => UNCHANGED run)
  BY <1>2 DEF VaultInv, vault
<1>3. CASE \E n \in Tasks : Pop(n)
  <2>1. PICK n \in Tasks : Pop(n)
    BY <1>3
  <2>2. run'.at \in {"start", "branch"} => run'.task = n /\ ~disk[n].session
    BY <2>1, OffIsRun DEF Pop, Run
  <2>3. UNCHANGED vault
    BY <2>1 DEF Pop
  <2> QED BY <2>2, <2>3 DEF VaultInv, vault
<1>4. CASE Boot \/ PassStarts
  <2>1. disk' = origin /\ origin' = origin /\ run' = run
    BY <1>4 DEF Boot, PassStarts, Sync
  <2>2. run.at \in {"start", "branch"} => run.task \in Tasks
    BY DEF Shapes, Run, At
  <2>3. \A m \in Tasks : Lag(origin[m], origin[m])
    BY LagSame DEF Like
  <2> QED BY <2>1, <2>2, <2>3 DEF VaultInv
<1>5. CASE \E n \in Tasks, status \in {"draft", "ready", "resolved"} : Edit(n, status)
  <2>1. PICK n \in Tasks, status \in {"draft", "ready", "resolved"} : Edit(n, status)
    BY <1>5
  <2>2. /\ UNCHANGED <<disk, run, unmerged>> /\ behind' = behind \cup {n}
        /\ origin'[n].session = origin[n].session /\ \A k \in Tasks \ {n} : origin'[k] = origin[k]
    BY <2>1, EditEffect
  <2> QED BY <2>2 DEF VaultInv
<1>6. CASE RunMoves \/ Preserve \/ Crash \/ UNCHANGED <<vault, up, queue, run, branch, left, failed>>
  BY <1>2, <1>6, OffIsRun DEF RunMoves, Preserve, Crash
<1> QED BY <1>1, <1>3, <1>4, <1>5, <1>6, Steps

\* It holds in every state.
LEMMA VaultInvariant == Spec => []VaultInv
<1> USE PipelineAssumption, VaultAssumption
<1>1. Init => VaultInv
  BY OffIsRun, LagSame DEF Init, VaultInv, Like
<1>2. Shapes /\ PoolInv /\ VaultInv /\ [Next]_vars => VaultInv'
  BY VaultInvStep
<1> QED BY <1>1, <1>2, ShapeInvariant, PoolInvariant, PTL DEF Spec

\* What a task with a session has committed is never deleted from the clone before
\* it is at origin (restoreRepo, setupfallback.go:96-103).
THEOREM WorkIsKept == Spec => SessionWorkIsKept
<1>1. Shapes /\ VaultInv /\ [Next]_vars
        => [\A n \in Tasks : branch[n] = "work" /\ disk[n].session => branch'[n] \in {"work", "saved"}]_vars
  <2> SUFFICES ASSUME Shapes, VaultInv, [Next]_vars, NEW n \in Tasks, branch[n] = "work", disk[n].session
               PROVE  branch'[n] \in {"work", "saved"}
    OBVIOUS
  <2> USE DEF Shapes
  <2>1. run.at \in {"start", "branch"} => run.task # n
    BY DEF VaultInv
  <2>2. CASE BranchExists \/ SetupFails
    BY <2>1, <2>2 DEF BranchExists, SetupFails, At
  <2>3. CASE PullAndBranch
    BY <2>1, <2>3 DEF PullAndBranch, At
  <2>4. CASE CheckoutTaskBranch
    <3>1. branch' = [branch EXCEPT ![run.task] = IF @ = "origin" THEN "saved" ELSE @]
      BY <2>4 DEF CheckoutTaskBranch
    <3> QED BY <3>1
  <2>5. CASE Invoke
    <3>1. branch' = branch \/ \E b \in {"work", "saved"} : branch' = [branch EXCEPT ![run.task] = b]
      BY <2>5 DEF Invoke
    <3> QED BY <3>1
  <2>6. CASE Preserve \/ Crash
    <3>1. branch' = branch \/ \E b \in {"work", "saved"} : branch' = [branch EXCEPT ![run.task] = b]
      BY <2>6 DEF Preserve, Crash
    <3> QED BY <3>1
  <2>7. BranchExists \/ SetupFails \/ PullAndBranch \/ CheckoutTaskBranch \/ Invoke \/ Preserve \/ Crash
        \/ UNCHANGED branch
    BY DEF Next, Dispatch, Process, Setup, PassStarts, Scan, PassEnds, Stamp, Claim, ClaimRejected, Start,
           BlockSetup, MergeBack, CrashFallback, Pop, Boot, Edit, vars
  <2> QED BY <2>2, <2>3, <2>4, <2>5, <2>6, <2>7
<1> QED BY <1>1, ShapeInvariant, VaultInvariant, PTL DEF Spec, SessionWorkIsKept
-----------------------------------------------------------------------------
(* Notes of which every write went through.                                 *)

\* Of such a note the clone has nothing that origin lacks; while the runner is up
\* a queued one is in the pool, and until a crash one in progress is run.
HistInv ==
  \A n \in Tasks \ failed :
    /\ n \notin ahead /\ n # unmerged
    /\ n \notin behind => disk[n].status = origin[n].status
    /\ up /\ origin[n].status = "queued" => InPool(n)
    /\ left["crash"] = Budget["crash"] /\ origin[n].status = "in_progress" => Running(n)

\* What a write leaves of another note, and of the pool's part in it.
LEMMA OthersKept ==
  ASSUME Shapes, PipelineAssumption, VaultAssumption, HistInv,
         NEW n \in Tasks, NEW new \in Note, NEW ok \in BOOLEAN, Writes(n, new, ok),
         NEW m \in Tasks \ failed, m # n
  PROVE  /\ m \notin ahead' /\ m # unmerged'
         /\ m \notin behind' => disk'[m].status = origin'[m].status
         /\ origin'[m].status = origin[m].status
         /\ InPool(m)' <=> InPool(m)
         /\ Running(m)' <=> Running(m)
<1>1. Effect(n, new)
  BY WriteEffect DEF Writes, Shapes
<1>2. m \notin Carried(n, new)
  BY DEF Carried, HistInv
<1>3. m \notin ahead' /\ m # unmerged'
  BY <1>1, <1>2 DEF Effect, HistInv
<1>4. Now(n, new, m) = disk[m] /\ (m \notin behind => disk[m].status = origin[m].status)
  BY DEF Now, HistInv
<1>5. origin'[m].status = origin[m].status
  BY <1>1, <1>4 DEF Effect, Like
<1>6. m \notin behind' => disk'[m].status = origin'[m].status
  <2>1. CASE m \in behind
    BY <1>1, <2>1 DEF Effect, Like
  <2>2. CASE m \notin behind
    BY <1>1, <1>4, <1>5, <2>2 DEF Effect, Like
  <2> QED BY <2>1, <2>2
<1>7. Running(m)' <=> Running(m)
  <2>1. CASE run' = run
    BY <2>1 DEF Running, At
  <2>2. CASE StartWrites(n, new, ok) \/ EndWrites(n, new)
    <3>1. run.task = n /\ run'.task \in {n, None}
      BY <2>2, OffIsRun DEF StartWrites, EndWrites, Goto, Shapes, Run
    <3> QED BY <3>1 DEF Running, VaultAssumption
  <2> QED BY <2>1, <2>2 DEF Writes, StampWrites, ClaimWrites
<1>8. queue'[m] = queue[m]
  BY DEF Writes, StampWrites, ClaimWrites, StartWrites, EndWrites, Enqueued, Shapes
<1> QED BY <1>3, <1>5, <1>6, <1>7, <1>8 DEF InPool

\* A write that went through leaves origin and the pool agreed on its note.
LEMMA LandedAgrees ==
  ASSUME Shapes, PipelineAssumption, VaultAssumption, PoolInv, HistInv,
         NEW n \in Tasks \ failed, NEW new \in Note, Writes(n, new, TRUE), up' = up
  PROVE  /\ n \notin ahead' /\ n # unmerged' /\ disk'[n] = origin'[n]
         /\ up /\ origin'[n].status = "queued" => InPool(n)'
         /\ left["crash"] = Budget["crash"] /\ origin'[n].status = "in_progress" => Running(n)'
<1>1. Effect(n, new) /\ Landed(n, new)
  BY WriteEffect DEF Writes, Shapes
<1>2. n \notin ahead' /\ n # unmerged' /\ disk'[n] = origin'[n]
  BY <1>1 DEF Landed, VaultAssumption
<1>3. CASE StampWrites(n, new)
  <2>1. Now(n, new, n).status = disk[n].status /\ (n \notin behind => disk[n].status = origin[n].status)
    BY <1>3 DEF StampWrites, Like, Now, HistInv
  <2>2. origin'[n].status = origin[n].status
    BY <1>1, <2>1 DEF Effect, Like
  <2>3. (InPool(n)' <=> InPool(n)) /\ (Running(n)' <=> Running(n))
    BY <1>3 DEF StampWrites, InPool, Running, At
  <2> QED BY <1>2, <2>2, <2>3 DEF HistInv
<1>4. CASE ClaimWrites(n, new, TRUE)
  <2>1. origin'[n].status = "queued"
    BY <1>1, <1>4 DEF ClaimWrites, Landed, Like, Claimable
  <2>2. queue'[n] = queue[n] + 1 /\ queue[n] \in Nat
    BY <1>4 DEF ClaimWrites, Enqueued, Shapes
  <2>3. queue'[n] # 0
    BY <2>2
  <2> QED BY <1>2, <2>1, <2>3 DEF InPool
<1>5. CASE StartWrites(n, new, TRUE)
  <2>1. run'.task = n /\ run'.at = "branch"
    BY <1>5 DEF StartWrites, Goto, Shapes, Run
  <2> QED BY <1>2, <2>1 DEF InPool, Running, At
<1>6. CASE EndWrites(n, new)
  <2>1. disk[n].status \in Held
    BY <1>6 DEF EndWrites, PoolInv, InPool, Running
  <2>2. origin'[n].status \in {"done", "blocked"}
    BY <1>1, <1>6, <2>1 DEF EndWrites, Landed, Like, Held
  <2> QED BY <1>2, <2>2
<1> QED BY <1>3, <1>4, <1>5, <1>6 DEF Writes

\* Every step keeps it.
LEMMA HistInvStep ==
  ASSUME Shapes, PipelineAssumption, VaultAssumption, PoolInv, HistInv, [Next]_vars
  PROVE  HistInv'
<1> SUFFICES ASSUME NEW m \in Tasks \ failed'
             PROVE  /\ m \notin ahead' /\ m # unmerged'
                    /\ m \notin behind' => disk'[m].status = origin'[m].status
                    /\ up' /\ origin'[m].status = "queued" => InPool(m)'
                    /\ left'["crash"] = Budget["crash"] /\ origin'[m].status = "in_progress" => Running(m)'
  BY DEF HistInv
<1>0. m \in Tasks \ failed =>
        /\ m \notin ahead /\ m # unmerged
        /\ m \notin behind => disk[m].status = origin[m].status
        /\ up /\ origin[m].status = "queued" => InPool(m)
        /\ left["crash"] = Budget["crash"] /\ origin[m].status = "in_progress" => Running(m)
  BY DEF HistInv
<1>l. ASSUME NEW kind \in Kinds \ {"crash"}, UNCHANGED left \/ Spend(kind) PROVE left'["crash"] = left["crash"]
  BY <1>l, Spending DEF Kinds, Shapes
<1>1. CASE \E n \in Tasks, new \in Note, ok \in BOOLEAN : Writes(n, new, ok)
  <2>1. PICK n \in Tasks, new \in Note, ok \in BOOLEAN : Writes(n, new, ok)
    BY <1>1
  <2>2. /\ failed \subseteq failed' /\ (~ok => n \in failed') /\ (UNCHANGED left \/ Spend("net"))
    BY <2>1, WriteEffect DEF Writes, Shapes
  <2>3. m \in Tasks \ failed /\ left'["crash"] = left["crash"] /\ up' = up
    BY <1>l, <2>1, <2>2 DEF Kinds, Writes
  <2>4. CASE m = n
    <3>1. ok = TRUE
      BY <2>2, <2>4
    <3>2. Writes(m, new, TRUE)
      BY <2>1, <2>4, <3>1
    <3> QED BY <2>3, <3>2, LandedAgrees
  <2>5. CASE m # n
    BY <1>0, <2>1, <2>3, <2>5, OthersKept
  <2> QED BY <2>4, <2>5
<1>2. CASE RunMoves \/ UNCHANGED <<vault, up, queue, run, branch, left, failed>>
  <2>1. UNCHANGED <<vault, queue, up, failed>> /\ (Running(m)' <=> Running(m)) /\ (UNCHANGED left \/ Spend("setup"))
    BY <1>2 DEF RunMoves, Running, At
  <2>2. left'["crash"] = left["crash"]
    BY <1>l, <2>1 DEF Kinds
  <2> QED BY <1>0, <2>1, <2>2 DEF InPool, vault
<1>3. CASE \E n \in Tasks : Pop(n)
  <2>1. PICK n \in Tasks : Pop(n)
    BY <1>3
  <2>2. /\ UNCHANGED <<vault, up, left, failed>> /\ run.at = "off" /\ run.task = None
        /\ queue' = [queue EXCEPT ![n] = @ - 1]
    BY <2>1 DEF Pop, Shapes, At
  <2>3. ~Running(m)
    BY <2>2 DEF Running, VaultAssumption
  <2>4. CASE m = n
    <3>1. m # unmerged
      BY <1>0, <2>2
    <3>2. run'.task = m /\ run'.at \in {"checkout", "start"}
      BY <2>1, <2>4, <3>1, OffIsRun DEF Pop, Run
    <3> QED BY <1>0, <2>2, <3>2 DEF InPool, Running, At, vault
  <2>5. CASE m # n
    <3>1. queue'[m] = queue[m]
      BY <2>2, <2>5 DEF Shapes
    <3> QED BY <1>0, <2>2, <2>3, <3>1 DEF InPool, vault
  <2> QED BY <2>4, <2>5
<1>4. CASE Preserve
  <2>1. UNCHANGED <<vault, up, queue, failed>> /\ run.at = "preserve" /\ (UNCHANGED left \/ Spend("net"))
    BY <1>4 DEF Preserve, At
  <2>2. ~Running(m) /\ left'["crash"] = left["crash"]
    BY <1>l, <2>1 DEF Running, At, Kinds
  <2> QED BY <1>0, <2>1, <2>2 DEF InPool, vault
<1>5. CASE Crash
  <2>1. UNCHANGED <<vault, failed>> /\ up' = FALSE /\ Spend("crash")
    BY <1>5 DEF Crash
  <2>2. left'["crash"] < Budget["crash"] /\ left'["crash"] \in Nat /\ Budget["crash"] \in Nat
    BY <2>1, Spending DEF Kinds, Shapes, PipelineAssumption
  <2>3. left'["crash"] # Budget["crash"]
    BY <2>2
  <2> QED BY <1>0, <2>1, <2>3 DEF vault
<1>6. CASE Boot
  <2>1. /\ disk' = origin /\ origin' = origin /\ ahead' = {} /\ unmerged' = None
        /\ UNCHANGED <<run, left, failed>> /\ queue'[m] = IF origin[m].status = "queued" THEN 1 ELSE 0
    BY <1>6 DEF Boot, Sync
  <2>2. Running(m)' <=> Running(m)
    BY <2>1 DEF Running, At
  <2> QED BY <1>0, <2>1, <2>2 DEF InPool, VaultAssumption
<1>7. CASE PassStarts
  <2>1. /\ disk' = origin /\ origin' = origin /\ ahead' = {} /\ unmerged' = None
        /\ UNCHANGED <<up, queue, run, left, failed>>
    BY <1>7 DEF PassStarts, Sync
  <2>2. Running(m)' <=> Running(m)
    BY <2>1 DEF Running, At
  <2> QED BY <1>0, <2>1, <2>2 DEF InPool, VaultAssumption
<1>8. CASE \E n \in Tasks, status \in {"draft", "ready", "resolved"} : Edit(n, status)
  <2>1. PICK n \in Tasks, status \in {"draft", "ready", "resolved"} : Edit(n, status)
    BY <1>8
  <2>2. /\ UNCHANGED <<disk, ahead, unmerged, up, queue, run, failed>> /\ behind' = behind \cup {n}
        /\ origin'[n].status = status /\ \A k \in Tasks \ {n} : origin'[k] = origin[k]
        /\ Spend("edit")
    BY <2>1, EditEffect
  <2>3. (Running(m)' <=> Running(m)) /\ (InPool(m)' <=> InPool(m)) /\ left'["crash"] = left["crash"]
    BY <1>l, <2>2 DEF InPool, Running, At, Kinds
  <2>4. CASE m = n
    BY <1>0, <2>2, <2>3, <2>4
  <2>5. CASE m # n
    BY <1>0, <2>2, <2>3, <2>5
  <2> QED BY <2>4, <2>5
<1> QED BY <1>1, <1>2, <1>3, <1>4, <1>5, <1>6, <1>7, <1>8, Steps

\* It holds in every state.
LEMMA HistInvariant == Spec => []HistInv
<1> USE PipelineAssumption, VaultAssumption
<1>1. Init => HistInv
  BY DEF Init, HistInv
<1>2. Shapes /\ PoolInv /\ HistInv /\ [Next]_vars => HistInv'
  BY HistInvStep
<1> QED BY <1>1, <1>2, ShapeInvariant, PoolInvariant, PTL DEF Spec

\* No crash and no restart strands a queued note of which no write failed.
THEOREM QueuedIsServed == Spec => []QueuedIsInPool
<1>1. Shapes /\ PoolInv /\ HistInv => QueuedIsInPool
  <2> SUFFICES ASSUME PoolInv, HistInv, up, NEW n \in Tasks \ failed, origin[n].status = "queued"
               PROVE  Jobs(n) = 1
    BY DEF QueuedIsInPool
  <2>1. queue[n] \in {0, 1} /\ ~(queue[n] # 0 /\ Running(n)) /\ (queue[n] # 0 \/ Running(n))
    BY DEF PoolInv, HistInv, InPool
  <2>2. CASE Running(n)
    BY <2>1, <2>2 DEF Jobs
  <2>3. CASE ~Running(n)
    BY <2>1, <2>3 DEF Jobs
  <2> QED BY <2>2, <2>3
<1> QED BY <1>1, ShapeInvariant, PoolInvariant, HistInvariant, PTL

\* Until a crash a note in progress, of which no write failed, is being run.
THEOREM InProgressIsServed == Spec => []InProgressIsRunning
<1>1. HistInv => InProgressIsRunning
  BY DEF HistInv, InProgressIsRunning
<1> QED BY <1>1, HistInvariant, PTL
-----------------------------------------------------------------------------
(* The lifecycle people see.                                                *)

View == [n \in Tasks |-> [status |-> origin[n].status, session |-> origin[n].session]]

\* What a step may do to a note at origin: nothing, one step of the runner, an edit.
LEMMA OriginSteps ==
  ASSUME Shapes, PipelineAssumption, VaultAssumption, PoolInv, VaultInv, [Next]_vars, NEW m \in Tasks
  PROVE  \/ Lag(origin[m], origin'[m])
         \/ /\ origin'[m].session = origin[m].session
            /\ \/ origin[m].status = "draft" /\ origin'[m].status = "ready"
               \/ origin[m].status = "ready" /\ origin'[m].status = "draft"
               \/ origin[m].status = "blocked" /\ origin'[m].status = "resolved"
               \/ origin[m].status = "in_progress" /\ origin'[m].status = "ready"
<1>1. CASE \E n \in Tasks, new \in Note, ok \in BOOLEAN : Writes(n, new, ok)
  <2>1. PICK n \in Tasks, new \in Note, ok \in BOOLEAN : Writes(n, new, ok)
    BY <1>1
  <2>2. Effect(n, new)
    BY <2>1, WriteEffect DEF Writes, Shapes
  <2>3. CASE Like(origin'[m], origin[m])
    BY <2>3, LagSame DEF Like
  <2>4. CASE m \notin behind /\ Like(origin'[m], Now(n, new, m)) /\ unmerged = None
    <3>1. Lag(origin[m], Now(n, new, m))
      BY <2>1, <2>4, WritesLag DEF Now, VaultInv
    <3> QED BY <2>4, <3>1, LagLike DEF Like
  <2> QED BY <2>2, <2>3, <2>4 DEF Effect
<1>2. CASE UNCHANGED origin
  BY <1>2, LagSame DEF Like
<1>3. CASE \E n \in Tasks, status \in {"draft", "ready", "resolved"} : Edit(n, status)
  <2>1. PICK n \in Tasks, status \in {"draft", "ready", "resolved"} : Edit(n, status)
    BY <1>3
  <2>2. CASE m # n
    BY <1>2, <2>1, <2>2, EditEffect, LagSame DEF Like
  <2>3. CASE m = n
    BY <2>1, <2>3, EditEffect DEF Edit
  <2> QED BY <2>2, <2>3
<1>4. (\E n \in Tasks : Pop(n)) \/ RunMoves \/ Preserve \/ Crash \/ Boot \/ PassStarts
      \/ UNCHANGED <<vault, up, queue, run, branch, left, failed>> => UNCHANGED origin
  BY DEF Pop, RunMoves, Preserve, Crash, Boot, PassStarts, Sync, vault
<1> QED BY <1>1, <1>2, <1>3, <1>4, Steps

\* Origin shows the lifecycle: people and the runner move a status only where they
\* may, and a session once recorded stays.
THEOREM LifecycleImplemented == Spec => ImplementsLifecycle
<1> USE PipelineAssumption, VaultAssumption
<1>1. Init => Lifecycle!LifecycleInit
  BY DEF Init, Lifecycle!LifecycleInit
<1>2. Shapes /\ PoolInv /\ VaultInv /\ [Next]_vars => [Lifecycle!LifecycleNext]_View
  <2> SUFFICES ASSUME Shapes, PoolInv, VaultInv, [Next]_vars PROVE Lifecycle!LifecycleNext
    OBVIOUS
  <2>2. ASSUME NEW n \in Tasks, Lag(origin[n], origin'[n])
        PROVE  /\ Lifecycle!SessionKept(n)
               /\ \/ origin'[n].status = origin[n].status
                  \/ Lifecycle!Claimed(n) \/ Lifecycle!Started(n) \/ Lifecycle!Ended(n)
    BY <2>2 DEF Lag, Ended, Held, Claimable, Lifecycle!SessionKept, Lifecycle!Claimed, Lifecycle!Claimable,
                Lifecycle!Started, Lifecycle!Ended
  <2>3. ASSUME NEW n \in Tasks, ~Lag(origin[n], origin'[n])
        PROVE  Lifecycle!SessionKept(n) /\ Lifecycle!Edited(n)
    BY <2>3, OriginSteps DEF Lifecycle!SessionKept, Lifecycle!Edited
  <2> QED BY <2>2, <2>3 DEF Lifecycle!LifecycleNext
<1> QED BY <1>1, <1>2, ShapeInvariant, PoolInvariant, VaultInvariant, PTL
      DEF Spec, ImplementsLifecycle, Lifecycle!LifecycleSpec, View
=============================================================================
