-------------------------- MODULE RepoWorker_proofs --------------------------
(***************************************************************************)
(* What is proved of RepoWorker for every number of repositories, engines, *)
(* jobs and slots: the types, that no wake-up is ever lost, that the books *)
(* of the pool are right, and that it implements JobPool.                  *)
(***************************************************************************)
EXTENDS RepoWorker, FiniteSetTheorems, SequenceTheorems, TLAPS

\* popNextRunnable's slice surgery: what removing index i leaves.
LEMMA RemoveAtProps ==
  ASSUME NEW S, NEW s \in Seq(S), NEW i \in 1..Len(s)
  PROVE  /\ RemoveAt(s, i) \in Seq(S)
         /\ Len(RemoveAt(s, i)) = Len(s) - 1
         /\ \A k \in 1..(Len(s) - 1) : RemoveAt(s, i)[k] = IF k < i THEN s[k] ELSE s[k + 1]
<1> DEFINE a == SubSeq(s, 1, i - 1)
           b == SubSeq(s, i + 1, Len(s))
<1>1. /\ a \in Seq(S) /\ Len(a) = i - 1
      /\ \A k \in 1..(i - 1) : a[k] = s[k]
  BY SubSeqProperties
<1>2. /\ b \in Seq(S) /\ Len(b) = Len(s) - i
      /\ \A k \in 1..(Len(s) - i) : b[k] = s[i + k]
  <2>1. /\ Len(s) \in Int /\ i + 1 \in Int
        /\ \A k \in (i + 1)..Len(s) : s[k] \in S
    OBVIOUS
  <2>2. /\ b \in Seq(S)
        /\ Len(b) = IF i + 1 <= Len(s) THEN Len(s) - (i + 1) + 1 ELSE 0
        /\ \A k \in 1..(Len(s) - (i + 1) + 1) : b[k] = s[i + 1 + k - 1]
    BY <2>1, SubSeqProperties
  <2> QED BY <2>2
<1>3. /\ a \o b \in Seq(S)
      /\ Len(a \o b) = Len(a) + Len(b)
      /\ \A k \in 1..(Len(a) + Len(b)) :
            (a \o b)[k] = IF k <= Len(a) THEN a[k] ELSE b[k - Len(a)]
  BY <1>1, <1>2, ConcatProperties
<1>4. RemoveAt(s, i) = a \o b
  BY DEF RemoveAt
<1> HIDE DEF a, b
<1>5. Len(s) \in Nat /\ i \in Nat /\ 1 <= i /\ i <= Len(s)
  OBVIOUS
<1>6. Len(a \o b) = Len(s) - 1
  BY <1>1, <1>2, <1>3, <1>5
<1>7. ASSUME NEW k \in 1..(Len(s) - 1)
      PROVE  (a \o b)[k] = IF k < i THEN s[k] ELSE s[k + 1]
  <2>1. (a \o b)[k] = IF k <= i - 1 THEN a[k] ELSE b[k - (i - 1)]
    BY <1>1, <1>2, <1>3, <1>5
  <2>2. CASE k < i
    BY <2>1, <2>2, <1>1, <1>5
  <2>3. CASE i <= k
    <3>1. k - (i - 1) \in 1..(Len(s) - i) /\ i + (k - (i - 1)) = k + 1
      BY <2>3, <1>5
    <3>2. b[k - (i - 1)] = s[i + (k - (i - 1))]
      BY <3>1, <1>2
    <3>3. ~(k <= i - 1) /\ ~(k < i)
      BY <2>3, <1>5
    <3>4. (a \o b)[k] = b[k - (i - 1)]
      BY <2>1, <3>3
    <3>5. s[i + (k - (i - 1))] = s[k + 1]
      BY <3>1
    <3> QED BY <3>2, <3>3, <3>4, <3>5, Zenon
  <2>4. k < i \/ i <= k
    BY <1>5
  <2> QED BY <2>2, <2>3, <2>4, Zenon
<1> QED BY <1>3, <1>4, <1>6, <1>7

\* The types are not inductive alone: a finished job is a job only because a
\* worker at that place has one in hand.
TypeInv == TypeOK /\ WorkerShape

\* Every variable keeps its shape.
THEOREM TypeCorrect == Spec => [](TypeOK /\ WorkerShape)
<1>1. Init => TypeInv
  BY WorkerAssumption DEF Init, TypeInv, TypeOK, WorkerShape, Places
<1>2. TypeInv /\ [Next]_vars => TypeInv'
  <2> SUFFICES ASSUME TypeInv, [Next]_vars PROVE TypeInv'
    OBVIOUS
  <2> USE WorkerAssumption DEF TypeInv, TypeOK, WorkerShape, Places, poolState, resumeState, feedState
  <2>1. ASSUME NEW j \in Jobs, EnqueueAppend(j) PROVE TypeInv'
    BY <2>1 DEF EnqueueAppend
  <2>2. ASSUME NEW j \in Jobs, EnqueueUnknown(j) PROVE TypeInv'
    BY <2>2 DEF EnqueueUnknown
  <2>3. CASE EnqueueSignal
    BY <2>3 DEF EnqueueSignal
  <2>4. ASSUME NEW r \in Repos, TakeWake(r) PROVE TypeInv'
    BY <2>4 DEF TakeWake
  <2>5. ASSUME NEW r \in Repos, ScanSkip(r) PROVE TypeInv'
    BY <2>5 DEF ScanSkip
  <2>6. ASSUME NEW r \in Repos, ScanPop(r) PROVE TypeInv'
    <3>1. pos[r] \in 1..Len(queue[r])
      BY <2>6 DEF ScanPop
    <3>2. RemoveAt(queue[r], pos[r]) \in Seq(Jobs)
      BY <3>1, RemoveAtProps
    <3>3. Scanned(r) \in Jobs
      BY <3>1 DEF Scanned
    <3> QED BY <2>6, <3>2, <3>3 DEF ScanPop
  <2>7. ASSUME NEW r \in Repos, ScanEnd(r) PROVE TypeInv'
    BY <2>7 DEF ScanEnd
  <2>8. ASSUME NEW r \in Repos, AcquireSlot(r) PROVE TypeInv'
    BY <2>8 DEF AcquireSlot
  <2>9. ASSUME NEW r \in Repos, RunOne(r) PROVE TypeInv'
    <3>1. CASE SetTask(r)
      BY <3>1 DEF SetTask
    <3>2. CASE ProcessEnds(r)
      BY <3>2 DEF ProcessEnds
    <3>3. CASE ClearTask(r)
      BY <3>3 DEF ClearTask
    <3>4. CASE ReleaseSlot(r)
      <4>1. finished' \subseteq Jobs
        BY <3>4 DEF ReleaseSlot
      <4> QED BY <3>4, <4>1 DEF ReleaseSlot
    <3> QED BY <2>9, <3>1, <3>2, <3>3, <3>4 DEF RunOne
  <2>10. ASSUME NEW e \in Engines, Trip(e) \/ Resumer(e) PROVE TypeInv'
    <3>1. CASE Trip(e)
      BY <3>1 DEF Trip
    <3>2. CASE ResumeClear(e)
      BY <3>2 DEF ResumeClear
    <3>3. CASE ResumeFails(e)
      BY <3>3 DEF ResumeFails
    <3>4. CASE ResumeFlipped(e)
      BY <3>4 DEF ResumeFlipped
    <3>5. ASSUME NEW r \in Repos, ResumeWake(e, r) PROVE TypeInv'
      BY <3>5 DEF ResumeWake
    <3> QED BY <2>10, <3>1, <3>2, <3>3, <3>4, <3>5 DEF Resumer
  <2>11. CASE UNCHANGED vars
    BY <2>11 DEF vars
  <2> QED
    BY <2>1, <2>2, <2>3, <2>4, <2>5, <2>6, <2>7, <2>8, <2>9, <2>10, <2>11
    DEF Next, Dispatcher, Worker, Scan
<1> QED BY <1>1, <1>2, PTL DEF Spec, TypeInv
-----------------------------------------------------------------------------
WakeInv == TypeOK /\ WorkerShape /\ NoLostWakeup /\ SkippedCovered

\* No interleaving of Enqueue, the scan, a trip and a resume leaves a worker
\* asleep, unsignalled, on a job nobody is going to come back for.
THEOREM WakeupsNotLost == Spec => []NoLostWakeup
<1>1. Init => WakeInv
  <2>1. Init => TypeOK /\ WorkerShape
    BY WorkerAssumption DEF Init, TypeOK, WorkerShape, Places
  <2>2. Init => NoLostWakeup /\ SkippedCovered
    BY DEF Init, NoLostWakeup, SkippedCovered
  <2> QED BY <2>1, <2>2 DEF WakeInv
<1>2. TypeOK' /\ WorkerShape' /\ WakeInv /\ [Next]_vars => NoLostWakeup' /\ SkippedCovered'
  <2> SUFFICES ASSUME TypeOK', WorkerShape', WakeInv, [Next]_vars
               PROVE  NoLostWakeup' /\ SkippedCovered'
    OBVIOUS
  <2> USE WorkerAssumption
      DEF WakeInv, NoLostWakeup, SkippedCovered, TypeOK, WorkerShape, Places
  <2>1. ASSUME NEW j \in Jobs, EnqueueAppend(j) PROVE NoLostWakeup' /\ SkippedCovered'
    <3>1. \A r \in Repos : RepoOf[j] # r => queue'[r] = queue[r]
      BY <2>1 DEF EnqueueAppend
    <3>2. \A r \in Repos, k \in Jobs : Covered(r, k) \/ RepoOf[j] = r => Covered(r, k)'
      BY <2>1 DEF EnqueueAppend, Covered, resumeState
    <3>3. \A r \in Repos : \A i \in 1..Len(queue'[r]) : queue'[r][i] \in Jobs
      OBVIOUS
    <3> QED BY <2>1, <3>1, <3>2, <3>3 DEF EnqueueAppend
  <2>2. ASSUME NEW j \in Jobs, EnqueueUnknown(j) PROVE NoLostWakeup' /\ SkippedCovered'
    BY <2>2 DEF EnqueueUnknown, Covered, poolState, resumeState
  <2>3. CASE EnqueueSignal
    BY <2>3 DEF EnqueueSignal, Covered, resumeState
  <2>4. ASSUME NEW r \in Repos, TakeWake(r) PROVE NoLostWakeup' /\ SkippedCovered'
    BY <2>4 DEF TakeWake, Covered, resumeState, feedState
  <2>5. ASSUME NEW r \in Repos, ScanSkip(r) PROVE NoLostWakeup' /\ SkippedCovered'
    BY <2>5 DEF ScanSkip, Scanned, Covered, resumeState, feedState
  <2>6. ASSUME NEW r \in Repos, ScanPop(r) PROVE NoLostWakeup' /\ SkippedCovered'
    BY <2>6 DEF ScanPop, Covered, resumeState, feedState
  <2>7. ASSUME NEW r \in Repos, ScanEnd(r) PROVE NoLostWakeup' /\ SkippedCovered'
    <3>1. \A q \in Repos, k \in Jobs : Covered(q, k)' <=> Covered(q, k)
      BY <2>7 DEF ScanEnd, Covered, resumeState, feedState
    <3>2. ~wake[r] => \A i \in 1..Len(queue[r]) : Covered(r, queue[r][i])
      <4>1. queue[r] \in Seq(Jobs) /\ pos[r] \in Nat /\ Len(queue[r]) < pos[r]
        BY <2>7 DEF ScanEnd
      <4>2. \A i \in 1..Len(queue[r]) : i < pos[r]
        BY <4>1
      <4>3. pc[r] = "drain"
        BY <2>7 DEF ScanEnd
      <4> QED BY <4>2, <4>3, Zenon
    <3>3. /\ queue' = queue /\ wake' = wake
          /\ pc' = [pc EXCEPT ![r] = "asleep"] /\ pos' = [pos EXCEPT ![r] = 1]
      BY <2>7 DEF ScanEnd
    <3>4. NoLostWakeup'
      BY <3>1, <3>2, <3>3
    <3>5. SkippedCovered'
      BY <3>1, <3>3
    <3> QED BY <3>4, <3>5
  <2>8. ASSUME NEW r \in Repos, AcquireSlot(r) PROVE NoLostWakeup' /\ SkippedCovered'
    BY <2>8 DEF AcquireSlot, Covered, resumeState, feedState
  <2>9. ASSUME NEW r \in Repos, RunOne(r) PROVE NoLostWakeup' /\ SkippedCovered'
    <3>1. CASE SetTask(r)
      BY <3>1 DEF SetTask, Covered, resumeState, feedState
    <3>2. CASE ProcessEnds(r)
      BY <3>2 DEF ProcessEnds, Covered, resumeState, feedState
    <3>3. CASE ClearTask(r)
      BY <3>3 DEF ClearTask, Covered, resumeState, feedState
    <3>4. CASE ReleaseSlot(r)
      BY <3>4 DEF ReleaseSlot, Covered, resumeState, feedState
    <3> QED BY <2>9, <3>1, <3>2, <3>3, <3>4 DEF RunOne
  <2>10. ASSUME NEW e \in Engines, Trip(e) PROVE NoLostWakeup' /\ SkippedCovered'
    BY <2>10 DEF Trip, Covered, poolState, feedState
  <2>11. ASSUME NEW e \in Engines, ResumeClear(e) PROVE NoLostWakeup' /\ SkippedCovered'
    BY <2>11 DEF ResumeClear, Covered, poolState, feedState
  <2>12. ASSUME NEW e \in Engines, ResumeFails(e) PROVE NoLostWakeup' /\ SkippedCovered'
    BY <2>12 DEF ResumeFails, Covered, poolState, feedState
  <2>13. ASSUME NEW e \in Engines, ResumeFlipped(e) PROVE NoLostWakeup' /\ SkippedCovered'
    <3>1. \A r \in Repos, k \in Jobs : Covered(r, k)'
      BY <2>13 DEF ResumeFlipped, Covered
    <3> QED BY <3>1
  <2>14. ASSUME NEW e \in Engines, NEW r \in Repos, ResumeWake(e, r)
         PROVE  NoLostWakeup' /\ SkippedCovered'
    <3>1. \A s \in Repos, k \in Jobs : s # r /\ Covered(s, k) => Covered(s, k)'
      BY <2>14 DEF ResumeWake, Covered, feedState
    <3> QED BY <2>14, <3>1 DEF ResumeWake
  <2>15. CASE UNCHANGED vars
    BY <2>15 DEF vars, Covered, poolState, resumeState, feedState
  <2> QED
    BY <2>1, <2>2, <2>3, <2>4, <2>5, <2>6, <2>7, <2>8, <2>9, <2>10, <2>11, <2>12,
       <2>13, <2>14, <2>15
    DEF Next, Dispatcher, Worker, Scan, Resumer
<1>3. WakeInv => NoLostWakeup
  BY DEF WakeInv
<1> QED BY <1>1, <1>2, <1>3, TypeCorrect, PTL DEF Spec, WakeInv
-----------------------------------------------------------------------------
\* The jobs a queue holds.
Elems(t) == {t[k] : k \in 1..Len(t)}

\* Taking a job from the middle of a queue takes that job and no other.
LEMMA RemoveAtDistinct ==
  ASSUME NEW S, NEW s \in Seq(S), IsInjective(s), NEW i \in 1..Len(s)
  PROVE  IsInjective(RemoveAt(s, i)) /\ Elems(RemoveAt(s, i)) = Elems(s) \ {s[i]}
<1> DEFINE t == RemoveAt(s, i)
<1>1. /\ t \in Seq(S) /\ Len(t) = Len(s) - 1
      /\ \A k \in 1..(Len(s) - 1) : t[k] = IF k < i THEN s[k] ELSE s[k + 1]
  BY RemoveAtProps
<1>2. \A k, m \in 1..Len(s) : s[k] = s[m] => k = m
  BY DEF IsInjective
<1> HIDE DEF t
<1>3. IsInjective(t)
  BY <1>1, <1>2 DEF IsInjective
<1>4. ASSUME NEW k \in 1..Len(t) PROVE \E m \in 1..Len(s) : m # i /\ t[k] = s[m]
  <2>1. CASE k < i
    BY <1>1, <2>1
  <2>2. CASE ~(k < i)
    <3>1. k + 1 \in 1..Len(s) /\ k + 1 # i /\ t[k] = s[k + 1]
      BY <1>1, <2>2
    <3> QED BY <3>1
  <2> QED BY <2>1, <2>2
<1>5. ASSUME NEW m \in 1..Len(s), m # i PROVE \E k \in 1..Len(t) : t[k] = s[m]
  <2>1. CASE m < i
    <3>1. m \in 1..Len(t) /\ t[m] = s[m]
      BY <1>1, <2>1
    <3> QED BY <3>1
  <2>2. CASE ~(m < i)
    <3>1. m - 1 \in 1..Len(t) /\ ~(m - 1 < i) /\ m - 1 + 1 = m
      BY <1>1, <1>5, <2>2
    <3>2. t[m - 1] = s[m]
      BY <1>1, <3>1
    <3> QED BY <3>1, <3>2
  <2> QED BY <2>1, <2>2
<1>6. Elems(t) = Elems(s) \ {s[i]}
  <2>1. ASSUME NEW x \in Elems(t) PROVE x \in Elems(s) \ {s[i]}
    <3>1. PICK k \in 1..Len(t) : x = t[k]
      BY DEF Elems
    <3>2. PICK m \in 1..Len(s) : m # i /\ t[k] = s[m]
      BY <1>4
    <3> QED BY <1>2, <3>1, <3>2 DEF Elems
  <2>2. ASSUME NEW x \in Elems(s) \ {s[i]} PROVE x \in Elems(t)
    <3>1. PICK m \in 1..Len(s) : x = s[m]
      BY DEF Elems
    <3>2. m # i
      BY <3>1
    <3>3. PICK k \in 1..Len(t) : t[k] = s[m]
      BY <1>5, <3>2
    <3> QED BY <3>1, <3>3 DEF Elems
  <2> QED BY <2>1, <2>2
<1> QED BY <1>3, <1>6 DEF t

\* Appending a job a queue does not hold keeps its jobs apart.
LEMMA AppendDistinct ==
  ASSUME NEW S, NEW s \in Seq(S), IsInjective(s), NEW x \in S, \A k \in 1..Len(s) : s[k] # x
  PROVE  IsInjective(Append(s, x)) /\ Elems(Append(s, x)) = Elems(s) \cup {x}
<1> DEFINE t == Append(s, x)
<1>1. /\ t \in Seq(S) /\ Len(t) = Len(s) + 1 /\ t[Len(s) + 1] = x
      /\ \A k \in 1..Len(s) : t[k] = s[k]
  OBVIOUS
<1> HIDE DEF t
<1>2. IsInjective(t)
  BY <1>1 DEF IsInjective
<1>3. 1..Len(t) = 1..Len(s) \cup {Len(s) + 1}
  BY <1>1
<1>4. Elems(t) = Elems(s) \cup {x}
  BY <1>1, <1>3 DEF Elems
<1> QED BY <1>2, <1>4 DEF t
-----------------------------------------------------------------------------
\* Every job is in one place, and where a worker has it that worker's
\* repository is the job's.
JobsKept ==
  /\ \A r \in Repos :
       /\ IsInjective(queue[r])
       /\ \A j \in QueuedIn(r) : RepoOf[j] = r /\ j \notin unsent \cup finished /\ j # hand[r]
       /\ hand[r] # NoJob => RepoOf[hand[r]] = r /\ hand[r] \notin unsent \cup finished
  /\ unsent \cap (dropped \cup finished) = {}
  /\ \A j \in Jobs \ (unsent \cup dropped \cup finished) :
       \E r \in Repos : j \in QueuedIn(r) \/ hand[r] = j

\* Enqueue adds its job to the queue of the job's repository.
LEMMA AppendedTo ==
  ASSUME TypeInv, JobsKept, NEW j \in Jobs, EnqueueAppend(j)
  PROVE  /\ RepoOf[j] \in Repos
         /\ IsInjective(queue'[RepoOf[j]])
         /\ \A q \in Repos : QueuedIn(q)' = IF q = RepoOf[j] THEN QueuedIn(q) \cup {j} ELSE QueuedIn(q)
         /\ \A q \in Repos : q # RepoOf[j] => queue'[q] = queue[q]
<1> USE DEF TypeInv, TypeOK
<1>1. PICK r \in Repos : r = RepoOf[j]
  BY DEF EnqueueAppend
<1>2. queue' = [queue EXCEPT ![r] = Append(@, j)] /\ j \in unsent
  BY <1>1 DEF EnqueueAppend
<1>3. queue'[r] = Append(queue[r], j) /\ \A q \in Repos \ {r} : queue'[q] = queue[q]
  BY <1>2
<1> DEFINE s == queue[r]
<1>4. s \in Seq(Jobs) /\ IsInjective(s) /\ \A k \in 1..Len(s) : s[k] # j
  BY <1>2 DEF JobsKept, QueuedIn
<1> HIDE DEF s
<1>5. IsInjective(Append(s, j)) /\ Elems(Append(s, j)) = Elems(s) \cup {j}
  BY <1>4, AppendDistinct
<1>6. \A q \in Repos : QueuedIn(q) = Elems(queue[q]) /\ QueuedIn(q)' = Elems(queue'[q])
  BY DEF QueuedIn, Elems
<1> QED BY <1>1, <1>3, <1>5, <1>6 DEF s

\* popNextRunnable moves its job from the queue to the worker's hand.
LEMMA TakenFrom ==
  ASSUME TypeInv, JobsKept, NEW r \in Repos, ScanPop(r)
  PROVE  /\ IsInjective(queue'[r])
         /\ hand[r] = NoJob /\ hand'[r] \in QueuedIn(r) /\ hand'[r] \in Jobs
         /\ \A q \in Repos : QueuedIn(q)' = IF q = r THEN QueuedIn(q) \ {hand'[r]} ELSE QueuedIn(q)
         /\ \A q \in Repos : q # r => queue'[q] = queue[q] /\ hand'[q] = hand[q]
<1> USE DEF TypeInv, TypeOK
<1> DEFINE j == queue[r][pos[r]]
<1>1. pos[r] \in 1..Len(queue[r]) /\ queue[r] \in Seq(Jobs) /\ hand[r] = NoJob
  BY DEF ScanPop, WorkerShape
<1>2. queue' = [queue EXCEPT ![r] = RemoveAt(@, pos[r])] /\ hand' = [hand EXCEPT ![r] = j]
  BY DEF ScanPop, Scanned
<1>3. /\ queue'[r] = RemoveAt(queue[r], pos[r]) /\ hand'[r] = j
      /\ \A q \in Repos \ {r} : queue'[q] = queue[q] /\ hand'[q] = hand[q]
  BY <1>2
<1>4. IsInjective(queue[r])
  BY DEF JobsKept
<1>5. IsInjective(RemoveAt(queue[r], pos[r])) /\ Elems(RemoveAt(queue[r], pos[r])) = Elems(queue[r]) \ {j}
  BY <1>1, <1>4, RemoveAtDistinct
<1>6. j \in QueuedIn(r) /\ j \in Jobs
  BY <1>1 DEF QueuedIn
<1>7. \A q \in Repos : QueuedIn(q) = Elems(queue[q]) /\ QueuedIn(q)' = Elems(queue'[q])
  BY DEF QueuedIn, Elems
<1> HIDE DEF j
<1> QED BY <1>1, <1>3, <1>5, <1>6, <1>7

\* No step loses a job or puts it in two places.
LEMMA JobsStep ==
  ASSUME TypeInv, JobsKept, [Next]_vars
  PROVE  JobsKept'
<1> USE DEF TypeInv, TypeOK
<1>1. \A r \in Repos : queue'[r] = queue[r] => QueuedIn(r)' = QueuedIn(r)
  BY DEF QueuedIn
<1>2. ASSUME UNCHANGED <<queue, hand, unsent, dropped, finished>> PROVE JobsKept'
  BY <1>1, <1>2 DEF JobsKept
<1>3. ASSUME NEW j \in Jobs, EnqueueAppend(j) PROVE JobsKept'
  <2>1. PICK r \in Repos : r = RepoOf[j]
    BY <1>3 DEF EnqueueAppend
  <2>2. j \in unsent /\ unsent' = unsent \ {j} /\ UNCHANGED <<hand, dropped, finished>>
    BY <1>3 DEF EnqueueAppend
  <2>3. /\ IsInjective(queue'[r]) /\ QueuedIn(r)' = QueuedIn(r) \cup {j}
        /\ \A q \in Repos \ {r} : queue'[q] = queue[q]
    BY <1>3, <2>1, AppendedTo
  <2>4. j # NoJob /\ \A q \in Repos : hand[q] # j
    BY <2>2, WorkerAssumption DEF JobsKept
  <2>5. ASSUME NEW q \in Repos
        PROVE  /\ IsInjective(queue'[q])
               /\ \A k \in QueuedIn(q)' : RepoOf[k] = q /\ k \notin unsent' \cup finished' /\ k # hand'[q]
               /\ hand'[q] # NoJob => RepoOf[hand'[q]] = q /\ hand'[q] \notin unsent' \cup finished'
    <3>1. CASE q = r
      BY <2>1, <2>2, <2>3, <2>4, <3>1 DEF JobsKept
    <3>2. CASE q # r
      BY <1>1, <2>2, <2>3, <3>2 DEF JobsKept
    <3> QED BY <3>1, <3>2
  <2>6. ASSUME NEW k \in Jobs \ (unsent' \cup dropped \cup finished)
        PROVE  \E q \in Repos : k \in QueuedIn(q)' \/ hand'[q] = k
    <3>1. CASE k = j
      BY <2>3, <3>1
    <3>2. CASE k # j
      <4>1. PICK q \in Repos : k \in QueuedIn(q) \/ hand[q] = k
        BY <2>2, <3>2 DEF JobsKept
      <4> QED BY <1>1, <2>2, <2>3, <4>1
    <3> QED BY <3>1, <3>2
  <2> QED BY <2>2, <2>5, <2>6 DEF JobsKept
<1>4. ASSUME NEW j \in Jobs, EnqueueUnknown(j) PROVE JobsKept'
  BY <1>1, <1>4 DEF EnqueueUnknown, poolState, JobsKept
<1>5. ASSUME NEW r \in Repos, ScanPop(r) PROVE JobsKept'
  <2>1. PICK j \in Jobs : j = hand'[r]
    BY <1>5, TakenFrom
  <2>2. UNCHANGED <<unsent, dropped, finished>>
    BY <1>5 DEF ScanPop, feedState
  <2>3. /\ IsInjective(queue'[r]) /\ QueuedIn(r)' = QueuedIn(r) \ {j} /\ j \in QueuedIn(r) /\ hand[r] = NoJob
        /\ \A q \in Repos \ {r} : queue'[q] = queue[q] /\ hand'[q] = hand[q]
    BY <1>5, <2>1, TakenFrom
  <2>4. j # NoJob
    BY WorkerAssumption
  <2>5. ASSUME NEW q \in Repos
        PROVE  /\ IsInjective(queue'[q])
               /\ \A k \in QueuedIn(q)' : RepoOf[k] = q /\ k \notin unsent' \cup finished' /\ k # hand'[q]
               /\ hand'[q] # NoJob => RepoOf[hand'[q]] = q /\ hand'[q] \notin unsent' \cup finished'
    <3>1. CASE q = r
      BY <2>1, <2>2, <2>3, <3>1 DEF JobsKept
    <3>2. CASE q # r
      BY <1>1, <2>2, <2>3, <3>2 DEF JobsKept
    <3> QED BY <3>1, <3>2
  <2>6. ASSUME NEW k \in Jobs \ (unsent \cup dropped \cup finished)
         PROVE  \E q \in Repos : k \in QueuedIn(q)' \/ hand'[q] = k
    <3>1. PICK q \in Repos : k \in QueuedIn(q) \/ hand[q] = k
      BY DEF JobsKept
    <3>2. k # NoJob
      BY WorkerAssumption
    <3> QED BY <1>1, <2>1, <2>3, <3>1, <3>2
  <2> QED BY <2>2, <2>5, <2>6 DEF JobsKept
<1>6. ASSUME NEW r \in Repos, ReleaseSlot(r) PROVE JobsKept'
  <2>1. hand[r] # NoJob /\ hand[r] \in Jobs
    BY <1>6 DEF ReleaseSlot, WorkerShape
  <2>2. /\ hand' = [hand EXCEPT ![r] = NoJob] /\ finished' = finished \cup {hand[r]}
        /\ UNCHANGED <<queue, unsent, dropped>>
    BY <1>6 DEF ReleaseSlot, feedState
  <2>3. hand'[r] = NoJob /\ \A q \in Repos \ {r} : hand'[q] = hand[q]
    BY <2>2
  <2>4. \A q \in Repos : QueuedIn(q)' = QueuedIn(q)
    BY <1>1, <2>2
  <2>5. ASSUME NEW q \in Repos
        PROVE  /\ IsInjective(queue'[q])
               /\ \A k \in QueuedIn(q)' : RepoOf[k] = q /\ k \notin unsent' \cup finished' /\ k # hand'[q]
               /\ hand'[q] # NoJob => RepoOf[hand'[q]] = q /\ hand'[q] \notin unsent' \cup finished'
    <3>1. QueuedIn(q) \subseteq Jobs /\ NoJob \notin Jobs
      BY WorkerAssumption DEF QueuedIn
    <3>2. RepoOf[hand[r]] = r /\ hand[r] \notin QueuedIn(r)
      BY <2>1 DEF JobsKept
    <3> QED BY <2>2, <2>3, <2>4, <3>1, <3>2 DEF JobsKept
  <2>6. ASSUME NEW k \in Jobs \ (unsent \cup dropped \cup finished')
        PROVE  \E q \in Repos : k \in QueuedIn(q)' \/ hand'[q] = k
    <3>1. PICK q \in Repos : k \in QueuedIn(q) \/ hand[q] = k
      BY <2>2 DEF JobsKept
    <3> QED BY <2>2, <2>3, <2>4, <3>1
  <2>7. unsent \cap (dropped \cup finished') = {}
    BY <2>1, <2>2 DEF JobsKept
  <2> QED BY <2>2, <2>5, <2>6, <2>7 DEF JobsKept
<1>7. ASSUME NEW r \in Repos, TakeWake(r) \/ ScanSkip(r) \/ ScanEnd(r) \/ AcquireSlot(r) \/ SetTask(r)
                              \/ ProcessEnds(r) \/ ClearTask(r)
      PROVE  UNCHANGED <<queue, hand, unsent, dropped, finished>>
  BY <1>7 DEF TakeWake, ScanSkip, ScanEnd, AcquireSlot, SetTask, ProcessEnds, ClearTask, feedState
<1>8. ASSUME EnqueueSignal \/ (\E e \in Engines : Trip(e) \/ Resumer(e)) \/ UNCHANGED vars
      PROVE  UNCHANGED <<queue, hand, unsent, dropped, finished>>
  BY <1>8 DEF EnqueueSignal, Trip, Resumer, ResumeClear, ResumeFails, ResumeFlipped, ResumeWake, vars, poolState,
              feedState
<1> QED
  BY <1>2, <1>3, <1>4, <1>5, <1>6, <1>7, <1>8 DEF Next, Dispatcher, Worker, Scan, RunOne
-----------------------------------------------------------------------------
\* What a step does to the workers that hold a slot.
LEMMA HoldersStep ==
  ASSUME TypeInv, [Next]_vars
  PROVE  \/ UNCHANGED <<Holders, slotsUsed>>
         \/ \E r \in Repos \ Holders : AcquireSlot(r) /\ Holders' = Holders \cup {r}
         \/ \E r \in Holders : ReleaseSlot(r) /\ Holders' = Holders \ {r}
<1> USE DEF TypeInv, TypeOK, Holders, Holding
<1>1. ASSUME UNCHANGED pc PROVE Holders' = Holders
  BY <1>1
<1>2. ASSUME NEW r \in Repos, AcquireSlot(r) PROVE r \notin Holders /\ Holders' = Holders \cup {r}
  BY <1>2 DEF AcquireSlot
<1>3. ASSUME NEW r \in Repos, ReleaseSlot(r) PROVE r \in Holders /\ Holders' = Holders \ {r}
  BY <1>3 DEF ReleaseSlot
<1>4. ASSUME NEW r \in Repos, TakeWake(r) \/ ScanSkip(r) \/ ScanPop(r) \/ ScanEnd(r) \/ SetTask(r)
                              \/ ProcessEnds(r) \/ ClearTask(r)
      PROVE  UNCHANGED <<Holders, slotsUsed>>
  BY <1>4 DEF TakeWake, ScanSkip, ScanPop, ScanEnd, SetTask, ProcessEnds, ClearTask
<1>5. ASSUME Dispatcher \/ (\E e \in Engines : Trip(e) \/ Resumer(e)) \/ UNCHANGED vars
      PROVE  UNCHANGED <<pc, slotsUsed>>
  BY <1>5 DEF Dispatcher, EnqueueAppend, EnqueueUnknown, EnqueueSignal, Trip, Resumer, ResumeClear, ResumeFails,
              ResumeFlipped, ResumeWake, vars, poolState
<1>6. ASSUME Dispatcher \/ (\E e \in Engines : Trip(e) \/ Resumer(e)) \/ UNCHANGED vars
      PROVE  UNCHANGED <<Holders, slotsUsed>>
  BY <1>1, <1>5, <1>6
<1> QED BY <1>2, <1>3, <1>4, <1>6 DEF Next, Worker, Scan, RunOne

\* A worker that reports a task runs it, or just has.
TaskShown == \A r \in Repos : task[r] # NoJob => pc[r] \in {"running", "returned"} /\ task[r] = hand[r]

\* The slot channel and the reports follow the workers through every step.
LEMMA SlotsStep ==
  ASSUME TypeInv, SlotsCountHolders, TaskShown, [Next]_vars
  PROVE  SlotsCountHolders' /\ TaskShown'
<1>1. IsFiniteSet(Holders) /\ Cardinality(Holders) \in Nat
  BY WorkerAssumption, FS_Subset, FS_CardinalityType DEF Holders
<1>2. SlotsCountHolders'
  <2>1. CASE UNCHANGED <<Holders, slotsUsed>>
    BY <2>1 DEF SlotsCountHolders
  <2>2. ASSUME NEW r \in Repos \ Holders, AcquireSlot(r), Holders' = Holders \cup {r} PROVE SlotsCountHolders'
    <3>1. Cardinality(Holders') = Cardinality(Holders) + 1
      BY <1>1, <2>2, FS_AddElement
    <3>2. slotsUsed' = slotsUsed + 1 /\ slotsUsed < Slots
      BY <2>2 DEF AcquireSlot
    <3> QED BY <1>1, <3>1, <3>2, WorkerAssumption DEF SlotsCountHolders
  <2>3. ASSUME NEW r \in Holders, ReleaseSlot(r), Holders' = Holders \ {r} PROVE SlotsCountHolders'
    <3>1. Cardinality(Holders') = Cardinality(Holders) - 1
      BY <1>1, <2>3, FS_RemoveElement
    <3>2. slotsUsed' = slotsUsed - 1
      BY <2>3 DEF ReleaseSlot
    <3> QED BY <1>1, <3>1, <3>2, WorkerAssumption DEF SlotsCountHolders
  <2> QED BY <2>1, <2>2, <2>3, HoldersStep
<1>3. TaskShown'
  <2> USE DEF TaskShown, TypeInv, TypeOK, WorkerShape
  <2>1. ASSUME NEW r \in Repos, TakeWake(r) \/ ScanSkip(r) \/ ScanEnd(r) \/ AcquireSlot(r) PROVE TaskShown'
    BY <2>1 DEF TakeWake, ScanSkip, ScanEnd, AcquireSlot
  <2>2. ASSUME NEW r \in Repos, ScanPop(r) PROVE TaskShown'
    BY <2>2 DEF ScanPop
  <2>3. ASSUME NEW r \in Repos, SetTask(r) \/ ProcessEnds(r) \/ ClearTask(r) PROVE TaskShown'
    BY <2>3 DEF SetTask, ProcessEnds, ClearTask
  <2>4. ASSUME NEW r \in Repos, ReleaseSlot(r) PROVE TaskShown'
    BY <2>4 DEF ReleaseSlot
  <2>5. ASSUME Dispatcher \/ (\E e \in Engines : Trip(e) \/ Resumer(e)) \/ UNCHANGED vars PROVE TaskShown'
    <3>1. UNCHANGED <<pc, task, hand>>
      BY <2>5 DEF Dispatcher, EnqueueAppend, EnqueueUnknown, EnqueueSignal, Trip, Resumer, ResumeClear, ResumeFails,
                  ResumeFlipped, ResumeWake, vars, poolState
    <3> QED BY <3>1
  <2> QED BY <2>1, <2>2, <2>3, <2>4, <2>5 DEF Next, Worker, Scan, RunOne
<1> QED BY <1>2, <1>3
-----------------------------------------------------------------------------
BooksInv == TypeInv /\ JobsKept /\ SlotsCountHolders /\ TaskShown

\* What the invariant says of the books is what PoolBooks asks of them.
LEMMA BooksAgree ==
  ASSUME BooksInv
  PROVE  PoolBooks
<1> USE DEF BooksInv, TypeInv, TypeOK
<1>1. NoJobLostOrDoubled
  <2> USE DEF JobsKept
  <2>1. \A r \in Repos : QueuedIn(r) \subseteq Jobs
    BY DEF QueuedIn
  <2>2. Queued \subseteq Jobs /\ InHand \subseteq Jobs
    BY <2>1 DEF Queued, InHand, Busy
  <2>3. ASSUME NEW j \in Jobs \ (unsent \cup dropped \cup finished) PROVE j \in Queued \cup InHand
    <3>1. PICK r \in Repos : j \in QueuedIn(r) \/ hand[r] = j
      OBVIOUS
    <3> QED BY <3>1, WorkerAssumption DEF Queued, InHand, Busy
  <2>4. Jobs = unsent \cup dropped \cup Queued \cup InHand \cup finished
    BY <2>2, <2>3
  <2>5. ASSUME NEW j \in Queued PROVE j \notin InHand \cup finished \cup unsent
    <3>1. PICK r \in Repos : j \in QueuedIn(r)
      BY DEF Queued
    <3>2. RepoOf[j] = r /\ j # hand[r] /\ j \notin finished \cup unsent
      BY <3>1
    <3>3. ASSUME NEW q \in Busy PROVE hand[q] # j
      <4>1. q \in Repos /\ RepoOf[hand[q]] = q
        BY DEF Busy
      <4> QED BY <3>2, <4>1
    <3> QED BY <3>2, <3>3 DEF InHand
  <2>6. ASSUME NEW j \in InHand PROVE j \notin finished \cup unsent
    BY DEF InHand, Busy
  <2>7. NoDuplicates
    BY DEF NoDuplicates, Busy
  <2> QED BY <2>4, <2>5, <2>6, <2>7 DEF NoJobLostOrDoubled
<1>2. ReportedTasksRun
  <2> DEFINE T == {r \in Repos : task[r] # NoJob}
  <2>1. \A r \in Repos : task[r] # NoJob => r \in Holders /\ task[r] = hand[r]
    BY DEF TaskShown, Holders, Holding
  <2>2. IsFiniteSet(Holders) /\ T \in SUBSET Holders
    BY <2>1, WorkerAssumption, FS_Subset DEF Holders
  <2>3. Cardinality(T) <= Cardinality(Holders) /\ Cardinality(T) \in Nat /\ Cardinality(Holders) \in Nat
    BY <2>2, FS_Subset, FS_CardinalityType
  <2> HIDE DEF T
  <2>4. Cardinality(T) <= Slots
    BY <2>3, WorkerAssumption DEF SlotsCountHolders
  <2> QED BY <2>1, <2>4 DEF T, ReportedTasksRun
<1> QED BY <1>1, <1>2 DEF PoolBooks

\* The books start empty and every step keeps them.
LEMMA BooksInvariant == Spec => []BooksInv
<1>1. Init => JobsKept /\ SlotsCountHolders /\ TaskShown
  <2> SUFFICES ASSUME Init PROVE JobsKept /\ SlotsCountHolders /\ TaskShown
    OBVIOUS
  <2>1. JobsKept
    BY DEF Init, JobsKept, QueuedIn, IsInjective
  <2>2. Holders = {}
    BY DEF Init, Holders, Holding
  <2>3. SlotsCountHolders
    BY <2>2, FS_EmptySet, WorkerAssumption DEF Init, SlotsCountHolders
  <2>4. TaskShown
    BY DEF Init, TaskShown
  <2> QED BY <2>1, <2>3, <2>4
<1>2. TypeInv /\ JobsKept /\ SlotsCountHolders /\ TaskShown /\ [Next]_vars
        => JobsKept' /\ SlotsCountHolders' /\ TaskShown'
  BY JobsStep, SlotsStep
<1>3. Spec => []TypeInv
  BY TypeCorrect, PTL DEF TypeInv
<1> QED BY <1>1, <1>2, <1>3, PTL DEF Spec, BooksInv

\* However Enqueue, the scan, the panics and the resumes interleave, no claim is
\* lost or run twice, the slot channel counts its holders, and the status page
\* shows only what runs.
THEOREM BooksHold == Spec => []PoolBooks
<1>1. BooksInv => PoolBooks
  BY BooksAgree
<1> QED BY <1>1, BooksInvariant, PTL
-----------------------------------------------------------------------------
\* A job waits at one worker, a worker that waits for a slot holds none.
LEMMA WaitingAt ==
  ASSUME BooksInv, NEW j
  PROVE  /\ j \in Waiting <=> \E r \in Repos : j \in QueuedIn(r) \/ (pc[r] = "slot" /\ hand[r] = j)
         /\ j \in Waiting' <=> \E r \in Repos : j \in QueuedIn(r)' \/ (pc'[r] = "slot" /\ hand'[r] = j)
BY DEF Waiting, Queued, InSlot

\* No more jobs run than workers hold a slot.
LEMMA RunningBounded ==
  ASSUME BooksInv
  PROVE  Cardinality(Running) \in Nat /\ Cardinality(Running) <= slotsUsed
<1>1. IsFiniteSet(Holders)
  BY WorkerAssumption, FS_Subset DEF Holders
<1> DEFINE f == [r \in Holders |-> hand[r]]
<1>2. f \in Surjection(Holders, Running)
  BY DEF Surjection, Running
<1> HIDE DEF f
<1>3. IsFiniteSet(Running) /\ Cardinality(Running) <= Cardinality(Holders)
  BY <1>1, <1>2, FS_Surjection
<1> QED BY <1>1, <1>3, FS_CardinalityType DEF BooksInv, SlotsCountHolders

\* A step that leaves the jobs of the queues and of the hands alone, and no
\* worker in or out of its wait or its slot, is nothing to JobPool.
LEMMA PoolStutters ==
  ASSUME BooksInv, UNCHANGED <<queue, hand, Holders, InSlot, finished>>
  PROVE  UNCHANGED <<Waiting, Running, finished>>
<1>1. Queued' = Queued
  BY DEF Queued, QueuedIn
<1>2. \A H : {hand'[r] : r \in H} = {hand[r] : r \in H}
  OBVIOUS
<1> QED BY <1>1, <1>2 DEF Waiting, Running

\* The sets a slot is about change only when a worker crosses their border.
LEMMA SlotsUnmoved ==
  ASSUME \A q \in Repos : (pc[q] \in Holding <=> pc'[q] \in Holding) /\ (pc[q] = "slot" <=> pc'[q] = "slot")
  PROVE  UNCHANGED <<Holders, InSlot>>
BY DEF Holders, InSlot

\* Every step of the worker pool is one of JobPool, or none of its business.
LEMMA PoolStep ==
  ASSUME BooksInv, BooksInv', [Next]_vars
  PROVE  \/ UNCHANGED <<Waiting, Running, finished>>
         \/ \E j \in Jobs :
              \/ /\ RepoOf[j] \in Repos /\ j \notin Waiting \cup Running \cup finished
                 /\ Waiting' = Waiting \cup {j} /\ UNCHANGED <<Running, finished>>
              \/ /\ j \in Waiting /\ (\A k \in Running : RepoOf[k] # RepoOf[j]) /\ Cardinality(Running) < Slots
                 /\ Waiting' = Waiting \ {j} /\ Running' = Running \cup {j} /\ UNCHANGED finished
              \/ /\ j \in Running /\ Running' = Running \ {j} /\ finished' = finished \cup {j}
                 /\ UNCHANGED Waiting
<1> USE DEF BooksInv, TypeInv, TypeOK
<1> DEFINE Goal ==
         \/ UNCHANGED <<Waiting, Running, finished>>
         \/ \E j \in Jobs :
              \/ /\ RepoOf[j] \in Repos /\ j \notin Waiting \cup Running \cup finished
                 /\ Waiting' = Waiting \cup {j} /\ UNCHANGED <<Running, finished>>
              \/ /\ j \in Waiting /\ (\A k \in Running : RepoOf[k] # RepoOf[j]) /\ Cardinality(Running) < Slots
                 /\ Waiting' = Waiting \ {j} /\ Running' = Running \cup {j} /\ UNCHANGED finished
              \/ /\ j \in Running /\ Running' = Running \ {j} /\ finished' = finished \cup {j}
                 /\ UNCHANGED Waiting
<1>1. ASSUME UNCHANGED <<queue, hand, pc, finished>> PROVE Goal
  <2>1. UNCHANGED <<Holders, InSlot>>
    BY <1>1 DEF Holders, InSlot
  <2> QED BY <1>1, <2>1, PoolStutters
<1>2. ASSUME NEW r \in Repos, TakeWake(r) \/ ScanSkip(r) \/ ScanEnd(r) \/ SetTask(r) \/ ProcessEnds(r) \/ ClearTask(r)
      PROVE  Goal
  <2>1. UNCHANGED <<queue, hand, finished>>
    BY <1>2 DEF TakeWake, ScanSkip, ScanEnd, SetTask, ProcessEnds, ClearTask
  <2>2. CASE TakeWake(r) \/ ScanSkip(r) \/ ScanEnd(r)
    <3>1. \A q \in Repos : pc'[q] = pc[q] \/ (pc[q] \in {"asleep", "drain"} /\ pc'[q] \in {"asleep", "drain"})
      BY <2>2 DEF TakeWake, ScanSkip, ScanEnd
    <3>2. \A q \in Repos : (pc[q] \in Holding <=> pc'[q] \in Holding) /\ (pc[q] = "slot" <=> pc'[q] = "slot")
      <4> SUFFICES ASSUME NEW q \in Repos
                   PROVE  (pc[q] \in Holding <=> pc'[q] \in Holding) /\ (pc[q] = "slot" <=> pc'[q] = "slot")
        OBVIOUS
      <4>1. CASE pc'[q] = pc[q]
        BY <4>1
      <4>2. CASE pc'[q] # pc[q]
        BY <3>1, <4>2 DEF Holding
      <4> QED BY <4>1, <4>2
    <3>3. UNCHANGED <<Holders, InSlot>>
      BY <3>2, SlotsUnmoved
    <3> QED BY <2>1, <3>3, PoolStutters
  <2>3. CASE SetTask(r) \/ ProcessEnds(r) \/ ClearTask(r)
    <3>1. \A q \in Repos : pc'[q] = pc[q] \/ (pc[q] \in Holding /\ pc'[q] \in Holding)
      BY <2>3 DEF SetTask, ProcessEnds, ClearTask, Holding
    <3>2. \A q \in Repos : (pc[q] \in Holding <=> pc'[q] \in Holding) /\ (pc[q] = "slot" <=> pc'[q] = "slot")
      <4> SUFFICES ASSUME NEW q \in Repos
                   PROVE  (pc[q] \in Holding <=> pc'[q] \in Holding) /\ (pc[q] = "slot" <=> pc'[q] = "slot")
        OBVIOUS
      <4>1. CASE pc'[q] = pc[q]
        BY <4>1
      <4>2. CASE pc'[q] # pc[q]
        BY <3>1, <4>2 DEF Holding
      <4> QED BY <4>1, <4>2
    <3>3. UNCHANGED <<Holders, InSlot>>
      BY <3>2, SlotsUnmoved
    <3> QED BY <2>1, <3>3, PoolStutters
  <2> QED BY <1>2, <2>2, <2>3
<1>3. ASSUME NEW j \in Jobs, EnqueueAppend(j) PROVE Goal
  <2>1. PICK r \in Repos : r = RepoOf[j]
    BY <1>3 DEF EnqueueAppend
  <2>2. j \in unsent /\ UNCHANGED <<hand, pc, finished>>
    BY <1>3 DEF EnqueueAppend
  <2>3. QueuedIn(r)' = QueuedIn(r) \cup {j} /\ \A q \in Repos \ {r} : QueuedIn(q)' = QueuedIn(q)
    BY <1>3, <2>1, AppendedTo
  <2>4. ASSUME NEW k PROVE k \in Waiting' <=> k \in Waiting \cup {j}
    <3>1. \A q \in Repos : k \in QueuedIn(q)' <=> k \in QueuedIn(q) \/ (q = r /\ k = j)
      BY <2>3
    <3>2. \A q \in Repos : (pc'[q] = "slot" /\ hand'[q] = k) <=> (pc[q] = "slot" /\ hand[q] = k)
      BY <2>2
    <3>3. k \in Waiting <=> \E q \in Repos : k \in QueuedIn(q) \/ (pc[q] = "slot" /\ hand[q] = k)
      BY WaitingAt
    <3>4. k \in Waiting' <=> \E q \in Repos : k \in QueuedIn(q)' \/ (pc'[q] = "slot" /\ hand'[q] = k)
      BY WaitingAt
    <3> QED BY <3>1, <3>2, <3>3, <3>4
  <2>5. Waiting' = Waiting \cup {j}
    BY <2>4
  <2>6. Running' = Running
    BY <2>2 DEF Running, Holders
  <2>7. j \notin Waiting \cup Running \cup finished
    <3>1. j # NoJob /\ \A q \in Repos : hand[q] # j /\ j \notin QueuedIn(q)
      BY <2>2, WorkerAssumption DEF JobsKept
    <3> QED BY <2>2, <3>1, WaitingAt DEF JobsKept, Running, Holders
  <2> QED BY <2>1, <2>2, <2>5, <2>6, <2>7
<1>4. ASSUME NEW r \in Repos, ScanPop(r) PROVE Goal
  <2>1. pc[r] = "drain" /\ pc' = [pc EXCEPT ![r] = "slot"] /\ UNCHANGED finished
    BY <1>4 DEF ScanPop
  <2>2. PICK j \in Jobs : j = hand'[r]
    BY <1>4, TakenFrom
  <2>3. /\ QueuedIn(r)' = QueuedIn(r) \ {j} /\ j \in QueuedIn(r)
        /\ \A q \in Repos \ {r} : QueuedIn(q)' = QueuedIn(q) /\ hand'[q] = hand[q]
    BY <1>4, <2>2, TakenFrom
  <2>4. pc'[r] = "slot" /\ \A q \in Repos \ {r} : pc'[q] = pc[q]
    BY <2>1
  <2>5. ASSUME NEW k \in Waiting PROVE k \in Waiting'
    <3>1. PICK q \in Repos : k \in QueuedIn(q) \/ (pc[q] = "slot" /\ hand[q] = k)
      BY WaitingAt
    <3> QED BY <2>1, <2>2, <2>3, <2>4, <3>1, WaitingAt
  <2>6. ASSUME NEW k \in Waiting' PROVE k \in Waiting
    <3>1. PICK q \in Repos : k \in QueuedIn(q)' \/ (pc'[q] = "slot" /\ hand'[q] = k)
      BY WaitingAt
    <3>2. CASE k = j
      BY <2>3, <3>2, WaitingAt
    <3>3. CASE k # j
      <4>1. k \in QueuedIn(q) \/ (pc[q] = "slot" /\ hand[q] = k)
        BY <2>2, <2>3, <2>4, <3>1, <3>3
      <4> QED BY <4>1, WaitingAt
    <3> QED BY <3>2, <3>3
  <2>7. Waiting' = Waiting
    BY <2>5, <2>6
  <2>8. Holders' = Holders /\ r \notin Holders
    BY <2>1 DEF Holders, Holding
  <2>9. Running' = Running
    BY <2>3, <2>8 DEF Running, Holders
  <2> QED BY <2>1, <2>7, <2>9
<1>5. ASSUME NEW r \in Repos \ Holders, AcquireSlot(r), Holders' = Holders \cup {r} PROVE Goal
  <2> DEFINE j == hand[r]
  <2>1. pc[r] = "slot" /\ pc' = [pc EXCEPT ![r] = "starting"] /\ UNCHANGED <<queue, hand, finished>>
    BY <1>5 DEF AcquireSlot
  <2>2. j # NoJob /\ j \in Jobs /\ RepoOf[j] = r
    BY <2>1 DEF WorkerShape, JobsKept
  <2>3. \A q \in Repos : q # r => hand[q] # j
    BY <2>2 DEF JobsKept
  <2>4. \A q \in Repos : j \notin QueuedIn(q) /\ QueuedIn(q)' = QueuedIn(q)
    <3>1. \A q \in Repos : QueuedIn(q)' = QueuedIn(q)
      BY <2>1 DEF QueuedIn
    <3>2. ASSUME NEW q \in Repos PROVE j \notin QueuedIn(q)
      BY <2>2 DEF JobsKept
    <3> QED BY <3>1, <3>2
  <2>5. \A k \in Running : RepoOf[k] # RepoOf[j]
    <3>1. ASSUME NEW q \in Holders PROVE RepoOf[hand[q]] # r
      <4>1. q \in Repos /\ hand[q] # NoJob /\ q # r
        BY DEF Holders, Holding, WorkerShape
      <4> QED BY <4>1 DEF JobsKept
    <3> QED BY <2>2, <3>1 DEF Running
  <2>6. Cardinality(Running) < Slots
    <3>1. slotsUsed < Slots
      BY <1>5 DEF AcquireSlot
    <3> QED BY <3>1, RunningBounded, WorkerAssumption
  <2>7. j \in Waiting
    BY <2>1, WaitingAt
  <2>8. Running' = Running \cup {j}
    BY <1>5, <2>1 DEF Running
  <2> HIDE DEF j
  <2>9. Waiting' = Waiting \ {j}
    <3>1. \A k : k \in Waiting' <=> k \in Waiting \ {j}
      BY <2>1, <2>3, <2>4, WaitingAt DEF j
    <3> QED BY <3>1
  <2> QED BY <2>1, <2>2, <2>5, <2>6, <2>7, <2>8, <2>9
<1>6. ASSUME NEW r \in Holders, ReleaseSlot(r), Holders' = Holders \ {r} PROVE Goal
  <2> DEFINE j == hand[r]
  <2>1. /\ r \in Repos /\ pc[r] = "cleared" /\ pc' = [pc EXCEPT ![r] = "drain"]
        /\ hand' = [hand EXCEPT ![r] = NoJob] /\ finished' = finished \cup {j} /\ UNCHANGED queue
    BY <1>6 DEF ReleaseSlot, Holders
  <2>2. j # NoJob /\ j \in Jobs /\ RepoOf[j] = r
    BY <2>1 DEF WorkerShape, JobsKept
  <2>3. \A q \in Repos \ {r} : hand'[q] = hand[q] /\ hand[q] # j
    BY <2>1, <2>2 DEF JobsKept
  <2>4. \A q \in Repos : QueuedIn(q)' = QueuedIn(q)
    BY <2>1 DEF QueuedIn
  <2>5. j \in Running
    BY DEF Running
  <2> HIDE DEF j
  <2>6. Waiting' = Waiting
    <3>1. \A k : k \in Waiting' <=> k \in Waiting
      BY <2>1, <2>3, <2>4, WaitingAt
    <3> QED BY <3>1
  <2>7. Running' = Running \ {j}
    <3>1. \A q \in Holders : q \in Repos
      BY DEF Holders
    <3>2. ASSUME NEW k \in Running' PROVE k \in Running \ {j}
      BY <1>6, <2>3, <3>1 DEF Running
    <3>3. ASSUME NEW k \in Running \ {j} PROVE k \in Running'
      BY <1>6, <2>3, <3>1 DEF Running, j
    <3> QED BY <3>2, <3>3
  <2> QED BY <2>1, <2>2, <2>5, <2>6, <2>7
<1>7. ASSUME EnqueueSignal \/ (\E j \in Jobs : EnqueueUnknown(j)) \/ (\E e \in Engines : Trip(e) \/ Resumer(e))
             \/ UNCHANGED vars
      PROVE  UNCHANGED <<queue, hand, pc, finished>>
  BY <1>7 DEF EnqueueSignal, EnqueueUnknown, Trip, Resumer, ResumeClear, ResumeFails, ResumeFlipped, ResumeWake,
              vars, poolState
<1>8. ASSUME NEW r \in Repos, AcquireSlot(r) \/ ReleaseSlot(r) PROVE Goal
  <2>1. ~UNCHANGED slotsUsed
    BY <1>8 DEF AcquireSlot, ReleaseSlot
  <2> HIDE DEF Goal
  <2> QED BY <1>5, <1>6, <2>1, HoldersStep
<1> HIDE DEF Goal
<1>9. Goal
  BY <1>1, <1>2, <1>3, <1>4, <1>7, <1>8 DEF Next, Dispatcher, Worker, Scan, RunOne
<1> QED BY <1>9 DEF Goal

\* With its queues, signals and pauses hidden the worker pool is JobPool: every
\* job runs once, one per repository and at most Slots at once.
THEOREM PoolImplemented == Spec => ImplementsPool
<1>1. Init => Pool!PoolInit
  <2> SUFFICES ASSUME Init PROVE Pool!PoolInit
    OBVIOUS
  <2>1. Queued = {} /\ InSlot = {} /\ Holders = {} /\ finished = {}
    BY DEF Init, Queued, QueuedIn, InSlot, Holders, Holding
  <2> QED BY <2>1 DEF Pool!PoolInit, Waiting, Running
<1>2. BooksInv /\ BooksInv' /\ [Next]_vars => [Pool!PoolNext]_Pool!poolVars
  <2>1. Pool!Cardinality(Running) = Cardinality(Running)
    BY DEF Pool!Cardinality, Cardinality
  <2> QED BY <2>1, PoolStep DEF Pool!PoolNext, Pool!poolVars, Pool!Submit, Pool!Start, Pool!Finish
<1> QED BY <1>1, <1>2, BooksInvariant, PTL DEF Spec, ImplementsPool, Pool!PoolSpec
=============================================================================
