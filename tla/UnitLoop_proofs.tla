--------------------------- MODULE UnitLoop_proofs ---------------------------
(***************************************************************************)
(* What is proved of UnitLoop for every number of units and commits: the   *)
(* types, plan order and the round cap, that the task's budget decides     *)
(* nothing and that a run is finite; when the review engine meets no limit,*)
(* that a review reads the tip and that only a task whose units are all    *)
(* done gets a pull request; and, unless one of four faults is met, that   *)
(* every commit of that pull request was reviewed.                         *)
(***************************************************************************)
EXTENDS UnitLoop, FiniteSetTheorems, TLAPS

\* What each write does to the record of one unit.
LEMMA UnitEdits ==
  ASSUME NEW r \in Unit, NEW t \in 0..MaxCommits, NEW b \in BOOLEAN
  PROVE  /\ [r EXCEPT !.status = "building", !.base = t] \in Unit
         /\ [r EXCEPT !.session = @ \/ b, !.head = t] \in Unit
         /\ [r EXCEPT !.rounds = @ + 1, !.status = "building"] \in Unit
         /\ [r EXCEPT !.rounds = @ + 1] \in Unit
         /\ \A st \in {"blocked", "review", "done"} : [r EXCEPT !.status = st] \in Unit
<1>1. r.session \in BOOLEAN /\ (r.session \/ b) \in BOOLEAN
  BY Zenon DEF Unit
<1>2. DEFINE x == r.session \/ b
<1>3. x \in BOOLEAN
  BY <1>1
<1> HIDE DEF x
<1>4. [r EXCEPT !.session = x, !.head = t] \in Unit
  BY <1>3 DEF Unit
<1>5. [r EXCEPT !.session = @ \/ b, !.head = t] = [r EXCEPT !.session = x, !.head = t]
  BY Zenon DEF x
<1>6. [r EXCEPT !.status = "building", !.base = t] \in Unit
  BY DEF Unit
<1>7. [r EXCEPT !.rounds = @ + 1] \in Unit
  <2>1. r.rounds + 1 \in Nat
    BY DEF Unit
  <2> QED BY <2>1 DEF Unit
<1>8. \A q \in Unit, st \in {"building", "blocked", "review", "done"} : [q EXCEPT !.status = st] \in Unit
  BY DEF Unit
<1>9. [r EXCEPT !.rounds = @ + 1, !.status = "building"] \in Unit
  BY <1>7, <1>8
<1> QED BY <1>4, <1>5, <1>6, <1>7, <1>8, <1>9

\* A block leaves the units alone or marks the current one.
Marked == pc = "blockUnit" /\ units' = [units EXCEPT ![current] = [units[current] EXCEPT !.status = "blocked"]]

\* So it does, whether its write succeeds or not.
LEMMA BlockMarks == Block => Marked \/ UNCHANGED units
  BY Zenon DEF Block, Marked

\* No step takes the note's units out of their type.
LEMMA UnitsStay ==
  ASSUME TypeOK, [Next]_vars
  PROVE  units' \in [Units -> Unit]
<1>0. units \in [Units -> Unit] /\ tip \in 0..MaxCommits /\ session.id \in BOOLEAN
  <2>1. units \in [Units -> Unit] /\ tip \in 0..MaxCommits /\ session \in Session
    BY DEF TypeOK
  <2>2. session.id \in BOOLEAN
    BY <2>1, Zenon DEF Session
  <2> QED BY <2>1, <2>2
<1>1. ASSUME current \in Units PROVE units[current] \in Unit
  BY <1>0, <1>1
<1>2. ASSUME pc \in AtUnit \/ current # 0 PROVE current \in Units
  BY <1>2, UnitAssumption DEF TypeOK, Units
<1>3. ASSUME NEW new \in Unit, units' = [units EXCEPT ![current] = new]
      PROVE  units' \in [Units -> Unit]
  BY <1>0, <1>3
<1>4. CASE BuildFresh
  <2>1. units' = [units EXCEPT ![current] = [units[current] EXCEPT !.status = "building", !.base = tip]]
    BY <1>4 DEF BuildFresh
  <2>2. units[current] \in Unit
    BY <1>1, <1>2, <1>4 DEF BuildFresh
  <2> QED BY <1>0, <1>3, <2>1, <2>2, UnitEdits
<1>5. CASE Record
  <2>1. units' = [units EXCEPT ![current] =
                    [units[current] EXCEPT !.session = @ \/ session.id, !.head = tip]]
    BY <1>5 DEF Record, Recorded
  <2>2. units[current] \in Unit
    BY <1>1, <1>2, <1>5 DEF Record, AtUnit
  <2>3. [units[current] EXCEPT !.session = @ \/ session.id, !.head = tip] \in Unit
    BY <1>0, <2>2, UnitEdits
  <2> QED BY <1>3, <2>1, <2>3
<1>6. CASE Marked
  <2>1. units[current] \in Unit
    BY <1>1, <1>2, <1>6 DEF AtUnit, Marked
  <2> QED BY <1>0, <1>3, <1>6, <2>1, UnitEdits DEF Marked
<1>7. CASE VerifyPasses
  <2>1. units' = [units EXCEPT ![current] = [units[current] EXCEPT !.status = "review"]]
    BY <1>7 DEF VerifyPasses
  <2>2. units[current] \in Unit
    BY <1>1, <1>2, <1>7 DEF VerifyPasses, AtUnit
  <2> QED BY <1>0, <1>3, <2>1, <2>2, UnitEdits
<1>8. CASE VerifyFails
  <2>1. units' = [units EXCEPT ![current] = [units[current] EXCEPT !.rounds = @ + 1]]
    BY <1>8 DEF VerifyFails
  <2>2. units[current] \in Unit
    BY <1>1, <1>2, <1>8 DEF VerifyFails, AtUnit
  <2> QED BY <1>0, <1>3, <2>1, <2>2, UnitEdits
<1>9. CASE Concerns
  <2>1. units' = [units EXCEPT ![current] =
                    [units[current] EXCEPT !.rounds = @ + 1, !.status = "building"]]
    BY <1>9 DEF Concerns
  <2>2. units[current] \in Unit
    BY <1>1, <1>2, <1>9 DEF Concerns, AtUnit
  <2> QED BY <1>0, <1>3, <2>1, <2>2, UnitEdits
<1>10. CASE Approve
  <2>1. units' = [units EXCEPT ![current] = [units[current] EXCEPT !.status = "done"]]
    BY <1>10 DEF Approve
  <2>2. units[current] \in Unit
    BY <1>1, <1>2, <1>10 DEF Approve, AtUnit
  <2> QED BY <1>0, <1>3, <2>1, <2>2, UnitEdits
<1>11. CASE UNCHANGED units BY <1>0, <1>11
<1>12. \/ BuildFresh \/ Record \/ Marked \/ VerifyPasses \/ VerifyFails
       \/ Concerns \/ Approve \/ UNCHANGED units
  BY BlockMarks DEF Next, vars, noteVars, Begin, Resolve, Build, Round, Verdict, Finish, Stop,
         LoopEnds, ReviewFirst, BuildResumed, Code, RecordDiscarded, RoundRefused,
         ReviewLimit, ReviewFails, OpenTaskPR, OpenTaskPRFails, WriteDone
<1> QED BY <1>4, <1>5, <1>6, <1>7, <1>8, <1>9, <1>10, <1>11, <1>12

\* Every run keeps every variable in its type, whatever fails in it.
THEOREM TypeCorrect == Spec => []TypeOK
<1>1. Init => TypeOK
  <2> SUFFICES ASSUME Init PROVE TypeOK
    OBVIOUS
  <2>1. Pending \in Unit
    BY UnitAssumption DEF Pending, Unit
  <2>2. NoSession \in Session
    BY DEF NoSession, Session
  <2>3. units \in [Units -> Unit]
    BY <2>1 DEF Init
  <2>4. pc \in AtUnit \cup {"off", "top", "finish", "opened"} /\ pc \notin AtUnit
    BY DEF Init, AtUnit
  <2>5. current \in 0..N /\ tip \in 0..MaxCommits /\ read \subseteq 1..MaxCommits /\ met \subseteq Faults
    BY UnitAssumption DEF Init
  <2>6. prURL \in BOOLEAN /\ opened \in BOOLEAN /\ dirty \in BOOLEAN /\ ~dirty
    BY DEF Init
  <2>7. session \in Session /\ status \in {"in_progress", "queued", "blocked", "done"}
    BY <2>2 DEF Init
  <2> QED BY <2>3, <2>4, <2>5, <2>6, <2>7 DEF TypeOK
<1>2. TypeOK /\ [Next]_vars => TypeOK'
  <2> SUFFICES ASSUME TypeOK, [Next]_vars PROVE TypeOK'
    OBVIOUS
  <2>0. units' \in [Units -> Unit]
    BY UnitsStay
  <2>s. NoSession \in Session
    BY DEF NoSession, Session
  <2>h. met' \subseteq Faults
    <3>1. met \subseteq Faults
      BY DEF TypeOK
    <3>2. LeftOver \subseteq Faults /\ Unrecorded \subseteq Faults
      BY DEF LeftOver, Unrecorded, Faults
    <3>3. met' \subseteq met \cup LeftOver \cup Unrecorded \cup {"unwritten", "limit"}
      BY DEF Next, Begin, Resolve, Build, Round, Verdict, Finish, Stop, vars, history, LoopEnds,
             ReviewFirst, BuildFresh, BuildResumed, Code, Record, RecordDiscarded, Block,
             VerifyPasses, VerifyFails, Concerns, RoundRefused, Approve, ReviewLimit,
             ReviewFails, OpenTaskPR, OpenTaskPRFails, WriteDone
    <3> QED BY <3>1, <3>2, <3>3 DEF Faults
  <2>p. ASSUME PreserveBlockedWork PROVE tip' \in 0..MaxCommits /\ dirty' \in BOOLEAN /\ (dirty' => tip' < MaxCommits)
    <3>1. CASE dirty /\ tip' = tip + 1 /\ dirty' = FALSE
      <4>1. tip \in 0..MaxCommits /\ tip < MaxCommits
        BY <3>1, Zenon DEF TypeOK
      <4>2. tip' = tip + 1 /\ dirty' = FALSE
        BY <3>1
      <4>3. tip' \in 0..MaxCommits
        BY <4>1, <4>2, UnitAssumption DEF UnitAssumption
      <4>4. dirty' \in BOOLEAN /\ ~dirty'
        BY <4>2
      <4> QED BY <4>3, <4>4, Zenon
    <3>2. CASE UNCHANGED <<tip, dirty>>
      BY <3>2 DEF TypeOK
    <3> QED BY <2>p, <3>1, <3>2 DEF PreserveBlockedWork
  <2>v. ASSUME RunUnitVerify \/ UNCHANGED dirty, UNCHANGED tip PROVE dirty' \in BOOLEAN /\ (dirty' => tip' < MaxCommits)
    <3>1. (dirty' = dirty \/ dirty' = (tip < MaxCommits)) /\ dirty \in BOOLEAN /\ (dirty => tip < MaxCommits)
      BY <2>v, Zenon DEF RunUnitVerify, TypeOK
    <3>2. CASE dirty' = dirty
      BY <2>v, <3>1, <3>2
    <3>3. CASE dirty' = (tip < MaxCommits)
      <4>1. (tip < MaxCommits) \in BOOLEAN
        OBVIOUS
      <4>2. dirty' \in BOOLEAN /\ (dirty' => tip < MaxCommits)
        BY <3>3, <4>1, Zenon
      <4> QED BY <2>v, <4>2, Zenon
    <3> QED BY <3>1, <3>2, <3>3
  <2> USE UnitAssumption, <2>s DEF TypeOK, AtUnit, history
  <2>1. CASE Begin
    <3>1. UNCHANGED <<current, status, prURL, opened, session, tip, read>>
      BY <2>1 DEF Begin, noteVars
    <3>2. pc' \in {"finish", "top"}
      BY <2>1 DEF Begin
    <3>3. CASE dirty' = dirty BY <2>0, <2>h, <3>1, <3>2, <3>3
    <3>4. CASE dirty' = FALSE BY <2>0, <2>h, <3>1, <3>2, <3>4
    <3>5. dirty' = dirty \/ dirty' = FALSE
      BY <2>1, Zenon DEF Begin
    <3> QED BY <3>3, <3>4, <3>5
  <2>2. CASE Resolve BY <2>0, <2>h, <2>2 DEF Resolve, gitVars
  <2>3. CASE Build
    BY <2>0, <2>h, <2>3 DEF Build, LoopEnds, ReviewFirst, BuildFresh, BuildResumed, noteVars, gitVars
  <2>4. CASE Code
    <3>1. session' \in Session
      BY <2>4 DEF Code, Session
    <3>2. tip' \in 0..MaxCommits /\ dirty' \in BOOLEAN /\ (dirty' => tip' < MaxCommits)
      BY <2>4 DEF Code
    <3> QED BY <2>0, <2>h, <2>4, <3>1, <3>2 DEF Code, noteVars
  <2>5. CASE Record \/ RecordDiscarded
    BY <2>0, <2>h, <2>5 DEF Record, RecordDiscarded, AfterRecord, noteVars, gitVars
  <2>6. CASE Block
    <3>1. PreserveBlockedWork /\ UNCHANGED <<current, prURL, session, opened, read>>
          /\ pc' = "off" /\ (status' = "blocked" \/ UNCHANGED status)
      BY <2>6 DEF Block
    <3> QED BY <2>0, <2>h, <2>p, <3>1
  <2>7. CASE Concerns \/ ReviewLimit \/ ReviewFails
    BY <2>0, <2>h, <2>7 DEF Concerns, ReviewLimit, ReviewFails, noteVars, gitVars
  <2>12. CASE VerifyPasses \/ VerifyFails \/ RoundRefused
    <3>1. /\ RunUnitVerify \/ UNCHANGED dirty
          /\ UNCHANGED <<current, status, prURL, session, tip, opened, read>>
          /\ pc' \in {"review", "code", "blockUnit"} /\ pc \in {"check", "review"}
      BY <2>12 DEF VerifyPasses, VerifyFails, RoundRefused, noteVars
    <3> QED BY <2>0, <2>h, <2>v, <3>1
  <2>8. CASE Approve
    <3>1. \/ units[current].base \in 0..MaxCommits /\ units[current].head \in 0..MaxCommits
          \/ current = 0
      BY DEF Units, Unit
    <3>2. current # 0
      BY <2>8 DEF Approve
    <3> QED BY <2>0, <2>h, <2>8, <3>1, <3>2 DEF Approve, NextUnit, gitVars
  <2>9. CASE Finish
    <3>1. CASE OpenTaskPRFails
      <4>1. PreserveBlockedWork /\ UNCHANGED <<current, prURL, session, opened, read>>
            /\ pc' = "off" /\ (status' = "blocked" \/ UNCHANGED status)
        BY <3>1 DEF OpenTaskPRFails
      <4> QED BY <2>0, <2>h, <2>p, <4>1
    <3>2. CASE OpenTaskPR
      BY <2>0, <2>h, <3>2 DEF OpenTaskPR, noteVars
    <3>3. CASE WriteDone
      BY <2>0, <2>h, <3>3 DEF WriteDone, gitVars
    <3> QED BY <2>9, <3>1, <3>2, <3>3 DEF Finish
  <2>10. CASE Stop BY <2>0, <2>h, <2>10 DEF Stop, noteVars, gitVars
  <2>11. CASE UNCHANGED vars BY <2>0, <2>h, <2>11 DEF vars, noteVars, gitVars, history
  <2> QED BY <2>1, <2>2, <2>3, <2>4, <2>5, <2>6, <2>7, <2>8, <2>9, <2>10, <2>11, <2>12
          DEF Next, Round, Verdict
<1> QED BY <1>1, <1>2, PTL DEF Spec

-----------------------------------------------------------------------------
(* Plan order and the round cap.                                            *)

OrderInv == UnitsInOrder /\ RoundsBelowCap

\* Plan order and the round cap, over any number of runs of the task.
THEOREM PlanOrderAndCap == Spec => [](UnitsInOrder /\ RoundsBelowCap)
<1>1. Init => OrderInv
  BY UnitAssumption DEF Init, OrderInv, UnitsInOrder, RoundsBelowCap, Units, Pending, UnitRoundCap
<1>2. TypeOK /\ OrderInv /\ [Next]_vars => OrderInv'
  <2> SUFFICES ASSUME TypeOK, OrderInv, [Next]_vars PROVE OrderInv'
    OBVIOUS
  <2> USE UnitAssumption DEF OrderInv, UnitsInOrder, RoundsBelowCap, UnitRoundCap
  <2>0. /\ units \in [Units -> Unit]
        /\ current \in 0..N
        /\ pc \in AtUnit => current # 0
        /\ Pending.status = "pending" /\ Pending.rounds = 0
    BY DEF TypeOK, Pending
  \* A step that changes the current unit, leaves it undone and within the cap.
  <2>1. ASSUME current # 0, current' = current,
               NEW new, new.status # "done", new.rounds < UnitRoundCap,
               units' = [units EXCEPT ![current] = new]
        PROVE  OrderInv'
    BY <2>0, <2>1 DEF Units
  <2>2. ASSUME current # 0 PROVE units[current].status # "done"
    BY <2>0, <2>2 DEF Units
  <2>c. ASSUME current # 0
        PROVE  current \in Units /\ units[current] \in Unit /\ units[current].rounds < UnitRoundCap
    BY <2>0, <2>c DEF Units
  <2>3. CASE UNCHANGED <<units, current>>
    BY <2>3 DEF Units
  <2>4. CASE BuildFresh
    <3> DEFINE new == [units[current] EXCEPT !.status = "building", !.base = tip]
    <3>0. current # 0
      BY <2>4 DEF BuildFresh
    <3>r. units[current] \in Unit /\ units[current].rounds < UnitRoundCap
      BY <2>c, <3>0
    <3>1. new.status # "done" /\ new.rounds < UnitRoundCap
      BY <2>2, <3>0, <3>r DEF Unit
    <3>2. units' = [units EXCEPT ![current] = new] /\ current' = current
      BY <2>0, <2>4 DEF BuildFresh
    <3> QED BY <2>1, <3>0, <3>1, <3>2
  <2>5. CASE Record
    <3> DEFINE new == [units[current] EXCEPT !.session = @ \/ session.id, !.head = tip]
    <3>0. current # 0
      BY <2>0, <2>5 DEF Record, AtUnit
    <3>r. units[current] \in Unit /\ units[current].rounds < UnitRoundCap
      BY <2>c, <3>0
    <3>1. new.status # "done" /\ new.rounds < UnitRoundCap
      BY <2>2, <3>0, <3>r DEF Unit
    <3>2. units' = [units EXCEPT ![current] = new] /\ current' = current
      BY <2>0, <2>5 DEF Record, Recorded
    <3> QED BY <2>1, <3>0, <3>1, <3>2
  <2>6. CASE Block /\ Marked
    <3> DEFINE new == [units[current] EXCEPT !.status = "blocked"]
    <3>0. current # 0
      BY <2>0, <2>6 DEF AtUnit, Marked
    <3>r. units[current] \in Unit /\ units[current].rounds < UnitRoundCap
      BY <2>c, <3>0
    <3>1. new.status # "done" /\ new.rounds < UnitRoundCap
      BY <2>2, <3>0, <3>r DEF Unit
    <3>2. units' = [units EXCEPT ![current] = new] /\ current' = current
      BY <2>6 DEF Block, Marked
    <3> QED BY <2>1, <3>0, <3>1, <3>2
  <2>7. CASE VerifyPasses
    <3> DEFINE new == [units[current] EXCEPT !.status = "review"]
    <3>0. current # 0
      BY <2>0, <2>7 DEF VerifyPasses, AtUnit
    <3>r. units[current] \in Unit /\ units[current].rounds < UnitRoundCap
      BY <2>c, <3>0
    <3>1. new.status # "done" /\ new.rounds < UnitRoundCap
      BY <2>2, <3>0, <3>r DEF Unit
    <3>2. units' = [units EXCEPT ![current] = new] /\ current' = current
      BY <2>0, <2>7 DEF VerifyPasses
    <3> QED BY <2>1, <3>0, <3>1, <3>2
  <2>8. CASE VerifyFails
    <3> DEFINE new == [units[current] EXCEPT !.rounds = @ + 1]
    <3>0. current # 0 /\ units[current].rounds + 1 < UnitRoundCap
      BY <2>0, <2>8 DEF VerifyFails, AtCap, AtUnitCap, AtUnit, Units, Unit
    <3>r. units[current] \in Unit /\ units[current].rounds < UnitRoundCap
      BY <2>c, <3>0
    <3>1. new.status # "done" /\ new.rounds < UnitRoundCap
      BY <2>2, <3>0, <3>r DEF Unit
    <3>2. units' = [units EXCEPT ![current] = new] /\ current' = current
      BY <2>0, <2>8 DEF VerifyFails
    <3> QED BY <2>1, <3>0, <3>1, <3>2
  <2>9. CASE Concerns
    <3> DEFINE new == [units[current] EXCEPT !.rounds = @ + 1, !.status = "building"]
    <3>0. current # 0 /\ units[current].rounds + 1 < UnitRoundCap
      BY <2>0, <2>9 DEF Concerns, AtCap, AtUnitCap, AtUnit, Units, Unit
    <3>r. units[current] \in Unit /\ units[current].rounds < UnitRoundCap
      BY <2>c, <3>0
    <3>1. new.status # "done" /\ new.rounds < UnitRoundCap
      BY <2>2, <3>0, <3>r DEF Unit
    <3>2. units' = [units EXCEPT ![current] = new] /\ current' = current
      BY <2>0, <2>9 DEF Concerns
    <3> QED BY <2>1, <3>0, <3>1, <3>2
  <2>10. CASE Approve
    <3> DEFINE new == [units[current] EXCEPT !.status = "done"]
    <3>0. current \in Units
      BY <2>0, <2>10 DEF Approve, AtUnit, Units
    <3>1. new.status = "done" /\ new.rounds < UnitRoundCap
      BY <2>0, <3>0 DEF Unit
    <3>2. units' = [units EXCEPT ![current] = new]
      BY <2>0, <2>10 DEF Approve
    <3>3. current' = IF current < N THEN current + 1 ELSE 0
      BY <2>10 DEF Approve, NextUnit
    <3> HIDE DEF new
    <3>4. \A u \in Units : units'[u] = IF u = current THEN new ELSE units[u]
      BY <3>2, <2>0
    <3> QED BY <2>0, <3>0, <3>1, <3>3, <3>4 DEF Units
  <2>11. \/ UNCHANGED <<units, current>> \/ BuildFresh \/ Record
         \/ (Block /\ Marked) \/ VerifyPasses \/ VerifyFails
         \/ Concerns \/ Approve
    <3>1. Block => UNCHANGED current
      BY DEF Block
    <3> QED BY <3>1, BlockMarks DEF Next, vars, noteVars, Begin, Resolve, Build, Round, Verdict, Finish, Stop,
           LoopEnds, ReviewFirst, BuildResumed, Code, RecordDiscarded, RoundRefused,
           ReviewLimit, ReviewFails, OpenTaskPR, OpenTaskPRFails, WriteDone
  <2> QED BY <2>3, <2>4, <2>5, <2>6, <2>7, <2>8, <2>9, <2>10, <2>11
<1> QED BY <1>1, <1>2, TypeCorrect, PTL DEF Spec, OrderInv

-----------------------------------------------------------------------------
(* Reviews and the pull request.                                            *)

AtTip == \A u \in Units : units[u].status = "review" => units[u].head = tip

Reviewed ==
  /\ pc \in {"code", "record", "check", "blockTask"} => units[current].status # "review"
  /\ pc = "check" => units[current].head = tip
  /\ AtTip

ReviewInv == met \cap {"limit", "unwritten"} = {} => Reviewed

\* Only the review engine's limit ends the loop early.
FinishInv == "limit" \notin met /\ (pc \in {"finish", "opened"} \/ opened) => current = 0

\* No step forgets a fault.
LEMMA FaultsGrow == [Next]_vars => met \subseteq met'
  BY DEF Next, Begin, Resolve, Build, Round, Verdict, Finish, Stop, vars, history, LoopEnds,
         ReviewFirst, BuildFresh, BuildResumed, Code, Record, RecordDiscarded, Block,
         VerifyPasses, VerifyFails, Concerns, RoundRefused, Approve, ReviewLimit,
         ReviewFails, OpenTaskPR, OpenTaskPRFails, WriteDone

\* A task is finished, and its pull request opened, after its last unit.
LEMMA FinishInvariant == Spec => []FinishInv
<1>1. Init => FinishInv
  BY DEF Init, FinishInv
<1>2. TypeOK /\ UnitsInOrder /\ FinishInv /\ [Next]_vars => FinishInv'
  <2> SUFFICES ASSUME TypeOK, UnitsInOrder, FinishInv, [Next]_vars, "limit" \notin met',
                      pc' \in {"finish", "opened"} \/ opened'
               PROVE  current' = 0
    BY DEF FinishInv
  <2>0. "limit" \notin met /\ (pc \in {"finish", "opened"} \/ opened => current = 0)
    BY FaultsGrow DEF FinishInv
  <2>1. AllUnitsDone => current = 0
    BY UnitAssumption DEF TypeOK, UnitsInOrder, Units, AllUnitsDone
  <2>2. ~Approve /\ ~ReviewLimit
    BY <2>0 DEF Approve, ReviewLimit, TypeOK, AtUnit, gitVars
  <2>3. current' = current
    BY <2>2 DEF Next, Begin, Resolve, Build, Round, Verdict, Finish, Stop, vars, noteVars, LoopEnds,
           ReviewFirst, BuildFresh, BuildResumed, Code, Record, RecordDiscarded, Block,
           VerifyPasses, VerifyFails, Concerns, RoundRefused,
           ReviewFails, OpenTaskPR, OpenTaskPRFails, WriteDone
  <2>4. pc \in {"finish", "opened"} \/ opened \/ current = 0
    <3> DEFINE Late == pc \in {"finish", "opened"} \/ opened \/ current = 0
    <3>1. LoopEnds \/ OpenTaskPR \/ WriteDone \/ OpenTaskPRFails => Late
      BY DEF LoopEnds, OpenTaskPR, WriteDone, OpenTaskPRFails
    <3>2. Begin => Late
      BY <2>1 DEF Begin
    <3>3. Record \/ RecordDiscarded => Late
      BY DEF Record, RecordDiscarded, AfterRecord, gitVars
    <3>4. Resolve \/ UNCHANGED vars => Late
      BY DEF Resolve, vars, gitVars
    <3>5. ReviewFirst \/ BuildFresh \/ BuildResumed \/ Code \/ Block \/ Stop => Late
      BY DEF ReviewFirst, BuildFresh, BuildResumed, Code, Block, Stop, gitVars
    <3>6. VerifyPasses \/ VerifyFails \/ Concerns \/ RoundRefused \/ ReviewFails => Late
      BY DEF VerifyPasses, VerifyFails, Concerns, RoundRefused, ReviewFails, gitVars
    <3> HIDE DEF Late
    <3>7. Late
      BY <2>2, <3>1, <3>2, <3>3, <3>4, <3>5, <3>6 DEF Next, Build, Round, Verdict, Finish
    <3> QED BY <3>7 DEF Late
  <2> QED BY <2>0, <2>3, <2>4
<1> QED BY <1>1, <1>2, TypeCorrect, PlanOrderAndCap, PTL DEF Spec

\* What a review reads stays invariant.
LEMMA ReviewInvariant == Spec => []ReviewInv
<1>1. Init => ReviewInv
  BY UnitAssumption DEF Init, ReviewInv, Reviewed, AtTip, Units, Pending
<1>2. TypeOK /\ UnitsInOrder /\ FinishInv /\ ReviewInv /\ [Next]_vars => ReviewInv'
  <2> SUFFICES ASSUME TypeOK, UnitsInOrder, ReviewInv, FinishInv, [Next]_vars,
                      met' \cap {"limit", "unwritten"} = {}
               PROVE  Reviewed'
    BY DEF ReviewInv
  <2>m. met \subseteq met'
    BY FaultsGrow
  <2>0. Reviewed /\ (pc \in {"finish", "opened"} => current = 0)
    BY <2>m DEF ReviewInv, FinishInv
  <2>1. /\ units \in [Units -> Unit]
        /\ current \in 0..N /\ (pc \in AtUnit => current # 0)
        /\ \A u \in Units : units[u].status = "review" => u = current
        /\ current = 0 => \A u \in Units : units[u].status = "done"
        /\ AllUnitsDone => current = 0
    BY UnitAssumption DEF TypeOK, UnitsInOrder, Units, AllUnitsDone, Pending
  <2>2. ASSUME current # 0 PROVE current \in Units /\ units[current] \in Unit
    BY <2>1, <2>2, UnitAssumption DEF Units
  \* An edit of the current unit that leaves it out of review, in the loop.
  <2>3. ASSUME current # 0, current' = current,
               NEW new, new.status # "review", units' = [units EXCEPT ![current] = new],
               pc' \in {"code", "check", "off"}, pc' = "check" => new.head = tip'
        PROVE  Reviewed'
    <3>1. current \in Units /\ units'[current] = new
      BY <2>1, <2>2, <2>3
    <3>2. \A u \in Units : units'[u].status # "review"
      BY <2>1, <2>3, <3>1
    <3> QED BY <2>0, <2>3, <3>1, <3>2 DEF Reviewed, AtTip
  <2>4. CASE UNCHANGED <<units, current, tip, pc>>
    BY <2>0, <2>4 DEF Reviewed, AtTip
  <2>5. CASE Begin
    BY <2>0, <2>1, <2>5 DEF Begin, noteVars, Reviewed, AtTip
  <2>6. CASE LoopEnds \/ ReviewFirst \/ BuildResumed \/ RoundRefused \/ ReviewFails \/ Stop
    BY <2>0, <2>6 DEF LoopEnds, ReviewFirst, BuildResumed, RoundRefused, ReviewFails, Stop,
                noteVars, gitVars, Reviewed, AtTip
  <2>7. CASE BuildFresh
    <3> DEFINE new == [units[current] EXCEPT !.status = "building", !.base = tip]
    <3>1. new.status # "review" /\ current # 0
      BY <2>2, <2>7 DEF BuildFresh, Unit
    <3> QED BY <2>3, <2>7, <3>1 DEF BuildFresh, gitVars
  <2>8. CASE Code
    <3>1. \A u \in Units : units[u].status # "review"
      BY <2>0, <2>1, <2>8 DEF Code, Reviewed
    <3>2. pc' = "record" /\ UNCHANGED <<units, current>> /\ units[current].status # "review"
      BY <2>0, <2>8 DEF Code, noteVars, Reviewed
    <3> QED BY <2>0, <3>1, <3>2 DEF Reviewed, AtTip
  <2>9. CASE Record
    <3> DEFINE new == [units[current] EXCEPT !.session = @ \/ session.id, !.head = tip]
    <3>1. current # 0 /\ units[current].status # "review"
      BY <2>0, <2>1, <2>9 DEF Record, AtUnit, Reviewed
    <3>2. new.status # "review" /\ new.head = tip
      BY <2>2, <3>1 DEF Unit
    <3>3. /\ units' = [units EXCEPT ![current] = new] /\ UNCHANGED <<current, tip>>
          /\ pc' \in {"check", "blockTask", "blockUnit"}
      BY <2>9 DEF Record, Recorded, AfterRecord, gitVars
    <3> HIDE DEF new
    <3>4. units'[current] = new /\ \A u \in Units : units'[u].status # "review"
      BY <2>1, <2>2, <3>1, <3>2, <3>3
    <3> QED BY <2>0, <2>9, <3>2, <3>3, <3>4 DEF Record, Reviewed, AtTip
  <2>10. CASE RecordDiscarded
    <3>1. /\ pc' \in {"blockTask", "blockUnit"}
          /\ UNCHANGED <<units, current, tip>>
          /\ units[current].status # "review"
      BY <2>0, <2>10 DEF RecordDiscarded, AfterRecord, noteVars, gitVars, Reviewed
    <3> QED BY <2>0, <2>10, <3>1 DEF RecordDiscarded, Reviewed, AtTip
  <2>11. CASE Block /\ pc = "blockUnit"
    <3> DEFINE new == [units[current] EXCEPT !.status = "blocked"]
    <3>1. new.status # "review" /\ current # 0
      BY <2>1, <2>2, <2>11 DEF AtUnit, Unit
    <3>3. units' = [units EXCEPT ![current] = new] /\ current' = current /\ pc' = "off"
      BY <2>11 DEF Block
    <3> HIDE DEF new
    <3> QED BY <2>3, <3>1, <3>3
  <2>12. CASE Block /\ pc = "blockTask"
    <3>1. \A u \in Units : units[u].status # "review"
      BY <2>0, <2>1, <2>12 DEF Reviewed
    <3>2. UNCHANGED <<units, current>> /\ pc' = "off"
      BY <2>12 DEF Block
    <3> QED BY <3>1, <3>2 DEF Reviewed, AtTip
  <2>13. CASE VerifyPasses
    <3>1. current # 0 /\ units[current].head = tip
      BY <2>0, <2>1, <2>13 DEF VerifyPasses, AtUnit, Reviewed
    <3>2. units'[current].head = tip
      BY <2>2, <2>13, <3>1 DEF VerifyPasses, Unit
    <3>3. \A u \in Units : u # current => units'[u] = units[u]
      BY <2>1, <2>13 DEF VerifyPasses
    <3>4. pc' = "review" /\ UNCHANGED <<current, tip>>
      BY <2>13 DEF VerifyPasses
    <3>5. AtTip'
      BY <2>1, <3>2, <3>3, <3>4 DEF AtTip
    <3> QED BY <2>0, <3>4, <3>5 DEF Reviewed
  <2>14. CASE VerifyFails
    <3> DEFINE new == [units[current] EXCEPT !.rounds = @ + 1]
    <3>1. new.status # "review" /\ current # 0
      BY <2>1, <2>2, <2>14 DEF VerifyFails, AtUnit, Unit
    <3> QED BY <2>3, <2>14, <3>1 DEF VerifyFails
  <2>15. CASE Concerns
    <3> DEFINE new == [units[current] EXCEPT !.rounds = @ + 1, !.status = "building"]
    <3>1. new.status # "review" /\ current # 0
      BY <2>1, <2>2, <2>15 DEF Concerns, AtUnit, Unit
    <3>2. /\ units' = [units EXCEPT ![current] = new]
          /\ UNCHANGED current /\ pc' = "code"
      BY <2>15 DEF Concerns, gitVars
    <3> HIDE DEF new
    <3> QED BY <2>3, <3>1, <3>2
  <2>16. CASE Approve
    <3>1. current # 0
      BY <2>1, <2>16 DEF Approve, AtUnit
    <3>2. \A u \in Units : units'[u].status # "review"
      <4> DEFINE new == [units[current] EXCEPT !.status = "done"]
      <4>1. new.status = "done"
        BY <2>2, <3>1 DEF Unit
      <4>2. units' = [units EXCEPT ![current] = new]
        BY <2>16 DEF Approve
      <4> HIDE DEF new
      <4> QED BY <2>1, <4>1, <4>2
    <3> QED BY <2>0, <2>16, <3>1, <3>2 DEF Approve, gitVars, Reviewed, AtTip
  <2>17. CASE OpenTaskPR \/ WriteDone
    BY <2>0, <2>17 DEF OpenTaskPR, WriteDone, noteVars, gitVars, Reviewed, AtTip
  <2>18. CASE OpenTaskPRFails
    <3>1. \A u \in Units : units[u].status # "review"
      BY <2>0, <2>1, <2>18 DEF OpenTaskPRFails
    <3>2. UNCHANGED <<units, current>> /\ pc' = "off"
      BY <2>18 DEF OpenTaskPRFails
    <3> QED BY <3>1, <3>2 DEF Reviewed, AtTip
  <2>19. ~ReviewLimit
    BY DEF ReviewLimit
  <2>20. Block => pc \in {"blockUnit", "blockTask"}
    BY DEF Block
  <2>21. Resolve \/ UNCHANGED vars => UNCHANGED <<units, current, tip, pc>>
    BY DEF Resolve, vars, noteVars, gitVars
  <2> QED BY <2>4, <2>5, <2>6, <2>7, <2>8, <2>9, <2>10, <2>11, <2>12, <2>13, <2>14,
             <2>15, <2>16, <2>17, <2>18, <2>19, <2>20, <2>21
          DEF Next, Build, Round, Verdict, Finish
<1> QED BY <1>1, <1>2, TypeCorrect, PlanOrderAndCap, FinishInvariant, PTL DEF Spec

\* Until the review engine meets its limit only a task whose units are all
\* done gets a pull request; and, unless the write of a block fails, a unit is
\* reviewed at the tip of its branch.
THEOREM ReviewedAndFinished == Spec => [](ReviewReadsTheTip /\ FinishedUnlessLimited)
<1>1. ReviewInv => ReviewReadsTheTip
  BY DEF ReviewInv, Reviewed, AtTip, ReviewReadsTheTip
<1>2. TypeOK /\ UnitsInOrder /\ FinishInv => FinishedUnlessLimited
  BY UnitAssumption DEF TypeOK, UnitsInOrder, FinishInv, FinishedUnlessLimited, FinishedMeansDone,
     AllUnitsDone, Units
<1> QED BY <1>1, <1>2, TypeCorrect, PlanOrderAndCap, FinishInvariant, ReviewInvariant, PTL

-----------------------------------------------------------------------------
(* Every commit reviewed.                                                   *)

\* The current unit has a coding session, recorded or about to be.
Started == units[current].session \/ (pc = "record" /\ session.id)

\* As long as no fault is met.  The current unit begins where the reviewed
\* commits end; only its own session adds commits, and work that is preserved
\* when the task blocks, and its review reads on from there to the tip.
Covered ==
  /\ current = 0 => 1..tip \subseteq read
  /\ current # 0 => 1..units[current].base \subseteq read
  /\ current # 0 /\ ~Started => 1..tip \subseteq read
  /\ pc = "review" => units[current].status = "review"

CoverInv == met = {} => Covered

\* A step that touches neither the units nor the branch.
LEMMA CoverFrame ==
  ASSUME Covered, UNCHANGED <<units, current, tip, read>>, Started => Started',
         pc' = "review" => units[current].status = "review"
  PROVE  Covered'
  BY DEF Covered

\* An edit of the current unit that leaves it its base and its session.
LEMMA CoverEdit ==
  ASSUME TypeOK, Covered, current # 0, NEW new, units' = [units EXCEPT ![current] = new],
         new.base = units[current].base, new.session = units[current].session,
         UNCHANGED <<current, tip, read>>, pc # "record", pc' # "record",
         pc' = "review" => new.status = "review"
  PROVE  Covered'
<1>1. units'[current] = new
  BY DEF TypeOK, Units
<1>2. Started' <=> Started
  BY <1>1 DEF Started
<1> QED BY <1>1, <1>2 DEF Covered

\* Steps that say nothing about commits.
LEMMA CoverQuiet ==
  ASSUME TypeOK, Covered,
         \/ Begin \/ Resolve \/ LoopEnds \/ ReviewFirst \/ BuildResumed \/ RoundRefused \/ ReviewFails
         \/ OpenTaskPR \/ WriteDone \/ VerifyPasses \/ VerifyFails \/ Concerns
  PROVE  Covered'
<1>1. pc # "record" /\ pc' # "record"
  BY DEF Begin, Resolve, LoopEnds, ReviewFirst, BuildResumed, RoundRefused, ReviewFails, OpenTaskPR,
         WriteDone, VerifyPasses, VerifyFails, Concerns, noteVars
<1>2. CASE Begin \/ Resolve \/ LoopEnds \/ ReviewFirst \/ BuildResumed \/ RoundRefused \/ ReviewFails
           \/ OpenTaskPR \/ WriteDone
  <2>1. UNCHANGED <<units, current, tip, read>>
    BY <1>2 DEF Begin, Resolve, LoopEnds, ReviewFirst, BuildResumed, RoundRefused, ReviewFails, OpenTaskPR,
       WriteDone, noteVars, gitVars, history
  <2>2. pc' = "review" => units[current].status = "review"
    BY <1>2 DEF Begin, Resolve, LoopEnds, ReviewFirst, BuildResumed, RoundRefused, ReviewFails, OpenTaskPR,
       WriteDone
  <2>3. Started => Started'
    BY <1>1, <2>1 DEF Started
  <2> QED BY <2>1, <2>2, <2>3, CoverFrame
<1>3. CASE VerifyPasses \/ VerifyFails \/ Concerns
  <2>1. current \in Units /\ units[current] \in Unit /\ current # 0
    BY <1>3 DEF TypeOK, AtUnit, VerifyPasses, VerifyFails, Concerns, Units
  <2>2. PICK new \in {[units[current] EXCEPT !.status = "review"], [units[current] EXCEPT !.rounds = @ + 1],
                      [units[current] EXCEPT !.rounds = @ + 1, !.status = "building"]} :
          /\ units' = [units EXCEPT ![current] = new]
          /\ pc' = "review" => new.status = "review"
    <3>1. CASE VerifyPasses
      BY <2>1, <3>1 DEF VerifyPasses, Unit
    <3>2. CASE VerifyFails \/ Concerns
      BY <3>2 DEF VerifyFails, Concerns
    <3> QED BY <1>3, <3>1, <3>2
  <2>3. new.base = units[current].base /\ new.session = units[current].session
    BY <2>1 DEF Unit
  <2>4. UNCHANGED <<current, tip, read>>
    BY <1>3 DEF VerifyPasses, VerifyFails, Concerns, gitVars, history
  <2> QED BY <1>1, <2>1, <2>2, <2>3, <2>4, CoverEdit
<1> QED BY <1>2, <1>3

\* A run that ends with its session unrecorded has met a fault, if that was the
\* unit's first.
LEMMA CoverUnrecorded ==
  ASSUME TypeOK, Covered, met' = {}, RecordDiscarded \/ Stop
  PROVE  Covered'
<1>1. UNCHANGED <<units, current, tip, read>> /\ pc' \notin {"review", "record"} /\ Unrecorded = {}
  BY DEF RecordDiscarded, AfterRecord, Stop, noteVars, gitVars
<1>2. Started => Started'
  BY <1>1, Zenon DEF Started, Unrecorded
<1> QED BY <1>1, <1>2, CoverFrame

\* What is preserved belongs to a unit with a session, or a fault is met.
LEMMA CoverPreserve ==
  ASSUME TypeOK, Covered, met' = {}, Block \/ OpenTaskPRFails
  PROVE  Covered'
<1>1. /\ current' = current /\ read' = read /\ pc' = "off" /\ pc # "record"
      /\ LeftOver = {}
  BY DEF Block, OpenTaskPRFails
<1>2. tip' = tip \/ (current # 0 /\ units[current].session)
  BY <1>1, Zenon DEF LeftOver
<1>3. ASSUME current # 0
      PROVE  units'[current].base = units[current].base /\ units'[current].session = units[current].session
  <2>1. current \in Units /\ units[current] \in Unit
    BY <1>3 DEF TypeOK, Units
  <2>2. CASE UNCHANGED units
    BY <2>2
  <2>3. CASE Marked
    <3> DEFINE new == [units[current] EXCEPT !.status = "blocked"]
    <3>1. new.base = units[current].base /\ new.session = units[current].session
      BY <2>1 DEF Unit
    <3>2. units'[current] = new
      BY <2>1, <2>3 DEF Marked, TypeOK
    <3> HIDE DEF new
    <3> QED BY <3>1, <3>2
  <2> QED BY <2>2, <2>3, BlockMarks DEF OpenTaskPRFails
<1>4. CASE current = 0
  BY <1>1, <1>2, <1>4 DEF Covered
<1>5. CASE current # 0
  <2>1. Started' <=> Started
    BY <1>1, <1>3, <1>5 DEF Started
  <2>2. ~Started => tip' = tip
    BY <1>2 DEF Started
  <2> QED BY <1>1, <1>3, <1>5, <2>1, <2>2 DEF Covered
<1> QED BY <1>4, <1>5

\* Steps of a session.
LEMMA CoverRound ==
  ASSUME TypeOK, Covered, BuildFresh \/ Code \/ Record
  PROVE  Covered'
<1>1. current \in Units /\ current # 0 /\ units[current] \in Unit /\ current' = current /\ read' = read
  BY DEF TypeOK, AtUnit, BuildFresh, Code, Record, Units, history, noteVars
<1>2. 1..units[current].base \subseteq read /\ (~Started => 1..tip \subseteq read)
  BY <1>1 DEF Covered
<1>3. CASE BuildFresh
  <2> DEFINE new == [units[current] EXCEPT !.status = "building", !.base = tip]
  <2>1. new.base = tip /\ new.session = units[current].session
    BY <1>1 DEF Unit
  <2>2. units' = [units EXCEPT ![current] = new]
    BY <1>3 DEF BuildFresh
  <2> HIDE DEF new
  <2>3. units'[current] = new
    BY <1>1, <2>2 DEF TypeOK
  <2>4. 1..tip \subseteq read /\ pc' = "code" /\ tip' = tip
    BY <1>2, <1>3 DEF BuildFresh, Started, gitVars
  <2> QED BY <1>1, <2>1, <2>3, <2>4 DEF Covered
<1>4. CASE Code
  <2>1. pc = "code" /\ pc' = "record" /\ units' = units
    BY <1>4 DEF Code, noteVars
  <2>2. session'.id \/ tip' = tip
    <3>1. PICK end \in {"over", "limit", "nocopy", "blocked"}, id \in BOOLEAN, t \in tip..MaxCommits, d \in BOOLEAN :
            /\ ~id => t = tip /\ d = dirty
            /\ session' = [end |-> end, id |-> id] /\ tip' = t
      BY <1>4 DEF Code
    <3> QED BY <3>1
  <2>3. ~Started' => ~Started /\ tip' = tip
    BY <1>1, <2>1, <2>2 DEF Started
  <2> QED BY <1>1, <1>2, <2>1, <2>3 DEF Covered
<1>5. CASE Record
  <2> DEFINE new == [units[current] EXCEPT !.session = @ \/ session.id, !.head = tip]
  <2>1. new.base = units[current].base /\ (new.session <=> units[current].session \/ session.id)
    BY <1>1 DEF Unit
  <2>2. units' = [units EXCEPT ![current] = new]
    BY <1>5 DEF Record, Recorded
  <2> HIDE DEF new
  <2>3. units'[current] = new
    BY <1>1, <2>2 DEF TypeOK
  <2>4. tip' = tip /\ pc' \in {"check", "blockTask", "blockUnit"}
    BY <1>5 DEF Record, AfterRecord, gitVars
  <2>5. ~Started' => ~Started
    BY <1>1, <1>5, <2>1, <2>3, <2>4 DEF Started, Record
  <2> QED BY <1>1, <1>2, <2>1, <2>3, <2>4, <2>5 DEF Covered
<1> QED BY <1>3, <1>4, <1>5

\* The review closes the gap between the unit's base and the tip.
LEMMA CoverApprove ==
  ASSUME TypeOK, UnitsInOrder, Reviewed, Covered, Approve
  PROVE  Covered'
<1>1. pc = "review" /\ current \in Units /\ units[current] \in Unit /\ current # 0
  BY DEF TypeOK, AtUnit, Approve, Units
<1>2. units[current].head = tip
  BY <1>1 DEF Covered, Reviewed, AtTip
<1>3. 1..units[current].base \subseteq read
  BY <1>1 DEF Covered
<1>4. read' = read \cup (units[current].base + 1)..tip /\ UNCHANGED tip
  BY <1>2 DEF Approve, gitVars
<1>5. tip \in Int /\ units[current].base \in Int
  BY <1>1 DEF TypeOK, Unit
<1>6. 1..tip' \subseteq read'
  <2>1. ASSUME NEW i \in 1..tip PROVE i \in read'
    BY <1>3, <1>4, <1>5, <2>1
  <2> QED BY <1>4, <2>1
<1>7. current' = NextUnit(current) /\ pc' = "top"
  BY DEF Approve
<1>8. current' # 0 => units'[current'].base = 0
  <2> SUFFICES ASSUME current' # 0 PROVE units'[current'].base = 0
    OBVIOUS
  <2>1. current' = current + 1 /\ current + 1 \in Units /\ current \in Int
    BY <1>1, <1>7, UnitAssumption DEF NextUnit, Units
  <2>2. units[current + 1] = Pending
    BY <1>1, <2>1 DEF UnitsInOrder, Units
  <2>3. units'[current + 1] = Pending
    BY <1>1, <2>1, <2>2 DEF Approve, TypeOK
  <2> QED BY <2>1, <2>3 DEF Pending
<1>9. current' # 0 => 1..units'[current'].base \subseteq read'
  BY <1>8
<1> QED BY <1>4, <1>6, <1>7, <1>9 DEF Covered

\* A task whose runs meet none of the faults gets a pull request every commit
\* of which was in the diff of an approving review: what sessions left in the
\* clone, work preserved from a block and the commits of every resumed or
\* stopped run included.
THEOREM CommitsReviewed == Spec => []EveryCommitReviewed
<1>1. Init => CoverInv
  <2> SUFFICES ASSUME Init PROVE Covered
    BY DEF CoverInv
  <2>1. units[1].base = 0 /\ current = 1 /\ pc = "top" /\ tip = 0
    BY UnitAssumption DEF Init, Pending, Units
  <2> QED BY <2>1 DEF Covered
<1>2. TypeOK /\ UnitsInOrder /\ FinishInv /\ ReviewInv /\ CoverInv /\ [Next]_vars => CoverInv'
  <2> SUFFICES ASSUME TypeOK, UnitsInOrder, ReviewInv, CoverInv, [Next]_vars, met' = {}
               PROVE  Covered'
    BY DEF CoverInv
  <2>1. Covered /\ Reviewed /\ ~ReviewLimit
    BY FaultsGrow DEF CoverInv, ReviewInv, ReviewLimit
  <2>2. CASE UNCHANGED vars
    <3>1. UNCHANGED <<units, current, pc, session, tip, read>>
      BY <2>2 DEF vars, noteVars, gitVars, history
    <3>2. Started' <=> Started
      BY <3>1 DEF Started
    <3> QED BY <2>1, <3>1, <3>2 DEF Covered
  <2>3. CASE Begin \/ Resolve \/ LoopEnds \/ ReviewFirst \/ BuildResumed \/ RoundRefused \/ ReviewFails
               \/ OpenTaskPR \/ WriteDone \/ VerifyPasses \/ VerifyFails \/ Concerns
    BY <2>1, <2>3, CoverQuiet
  <2>4. CASE BuildFresh \/ Code \/ Record
    BY <2>1, <2>4, CoverRound
  <2>5. CASE Approve
    BY <2>1, <2>5, CoverApprove
  <2>6. CASE RecordDiscarded \/ Stop
    BY <2>1, <2>6, CoverUnrecorded
  <2>7. CASE Block \/ OpenTaskPRFails
    BY <2>1, <2>7, CoverPreserve
  <2> QED BY <2>1, <2>2, <2>3, <2>4, <2>5, <2>6, <2>7 DEF Next, Build, Round, Verdict, Finish
<1>3. FinishInv /\ CoverInv => EveryCommitReviewed
  BY DEF FinishInv, CoverInv, Covered, EveryCommitReviewed
<1> QED BY <1>1, <1>2, <1>3, TypeCorrect, PlanOrderAndCap, FinishInvariant, ReviewInvariant, PTL DEF Spec
-----------------------------------------------------------------------------
(* The task's budget.                                                       *)

\* Induction over the numbers, for a set instead of a predicate.
LEMMA NatSetInduction ==
  ASSUME NEW T, 0 \in T, \A n \in Nat : n \in T => n + 1 \in T
  PROVE  Nat \subseteq T
<1> SUFFICES ASSUME Nat \ T # {} PROVE FALSE
  OBVIOUS
<1> DEFINE R == OpToRel(<, Nat)
           M == Nat \ T
<1>1. IsWellFoundedOn(R, Nat)
  BY NatLessThanWellFounded
<1>2. M \subseteq Nat /\ M # {}
  OBVIOUS
<1> HIDE DEF R, M
<1>3. PICK x \in M : \A y \in M : <<y, x>> \notin R
  BY <1>1, <1>2, WFMin
<1>4. x \in Nat /\ x \notin T
  BY <1>3 DEF M
<1>5. x # 0 /\ x - 1 \in Nat /\ x - 1 < x
  BY <1>4
<1>6. <<x - 1, x>> \in R
  BY <1>4, <1>5 DEF R, OpToRel
<1>7. x - 1 \in T
  BY <1>3, <1>5, <1>6 DEF M
<1>8. (x - 1) + 1 \in T
  BY <1>5, <1>7
<1> QED BY <1>4, <1>5, <1>8

\* How the rounds of the units of s are added, one chosen unit after another:
\* g is what the rest comes to.
Chosen(s) == CHOOSE u \in s : TRUE
Rest(s) == s \ {Chosen(s)}
Added(g, s) == IF s = {} THEN 0 ELSE units[Chosen(s)].rounds + g[Rest(s)]

\* The sets of at most n units.
UpTo(n) == {s \in SUBSET Units : Cardinality(s) <= n}

\* What is left of a set has one unit less.
LEMMA RestIsLess ==
  ASSUME UnitAssumption, NEW s \in SUBSET Units
  PROVE  /\ IsFiniteSet(s) /\ Cardinality(s) \in Nat /\ Cardinality(s) <= N
         /\ s # {} => /\ Chosen(s) \in s /\ Rest(s) \in SUBSET Units
                      /\ Cardinality(Rest(s)) = Cardinality(s) - 1
         /\ Cardinality(s) = 0 => s = {}
<1>1. IsFiniteSet(Units) /\ Cardinality(Units) = N
  BY FS_Interval, UnitAssumption DEF Units
<1>2. IsFiniteSet(s) /\ Cardinality(s) <= N
  BY <1>1, FS_Subset
<1>3. Cardinality(s) \in Nat
  BY <1>2, FS_CardinalityType
<1>4. Cardinality(s) = 0 => s = {}
  BY <1>2, FS_EmptySet
<1>5. ASSUME s # {} PROVE /\ Chosen(s) \in s /\ Rest(s) \in SUBSET Units
                          /\ Cardinality(Rest(s)) = Cardinality(s) - 1
  <2>1. Chosen(s) \in s
    BY <1>5 DEF Chosen
  <2>2. Cardinality(Rest(s)) = Cardinality(s) - 1
    BY <1>2, <2>1, FS_RemoveElement DEF Rest
  <2> QED BY <2>1, <2>2 DEF Rest
<1> QED BY <1>2, <1>3, <1>4, <1>5

\* The sum that TotalRounds folds up exists.
LEMMA SumExists ==
  ASSUME UnitAssumption
  PROVE  \E g : g = [s \in SUBSET Units |-> Added(g, s)]
<1> DEFINE T == {n \in Nat : \E g : g = [s \in UpTo(n) |-> Added(g, s)]}
<1>1. 0 \in T
  <2> DEFINE g == [s \in UpTo(0) |-> 0]
  <2>1. \A s \in UpTo(0) : s = {}
    BY RestIsLess DEF UpTo
  <2>2. \A h : \A s \in UpTo(0) : Added(h, s) = 0
    BY <2>1 DEF Added
  <2>3. g = [s \in UpTo(0) |-> Added(g, s)]
    BY <2>2
  <2> HIDE DEF g
  <2> QED BY <2>3
<1>2. ASSUME NEW n \in Nat, n \in T PROVE n + 1 \in T
  <2>1. PICK g : g = [s \in UpTo(n) |-> Added(g, s)]
    BY <1>2
  <2> DEFINE h == [s \in UpTo(n + 1) |-> Added(g, s)]
  <2>2. ASSUME NEW s \in UpTo(n) PROVE s \in UpTo(n + 1) /\ h[s] = g[s]
    <3>1. s \in UpTo(n + 1)
      BY RestIsLess DEF UpTo
    <3> QED BY <2>1, <3>1
  <2>3. ASSUME NEW s \in UpTo(n + 1) PROVE h[s] = Added(h, s)
    <3>1. CASE s = {}
      BY <3>1 DEF Added
    <3>2. CASE s # {}
      <4>1. Rest(s) \in UpTo(n)
        BY <3>2, RestIsLess DEF UpTo
      <4>2. h[Rest(s)] = g[Rest(s)]
        BY <2>2, <4>1
      <4>3. h[s] = Added(g, s)
        OBVIOUS
      <4> HIDE DEF h
      <4> QED BY <3>2, <4>2, <4>3 DEF Added
    <3> QED BY <3>1, <3>2
  <2>4. h = [s \in UpTo(n + 1) |-> Added(h, s)]
    <3>1. h = [s \in UpTo(n + 1) |-> h[s]]
      OBVIOUS
    <3> HIDE DEF h
    <3> QED BY <2>3, <3>1
  <2> HIDE DEF h
  <2> QED BY <2>4
<1>3. N \in T
  <2> HIDE DEF T
  <2>1. Nat \subseteq T
    BY <1>1, <1>2, NatSetInduction
  <2> QED BY <2>1, UnitAssumption
<1>4. UpTo(N) = SUBSET Units
  BY RestIsLess DEF UpTo
<1> QED BY <1>3, <1>4

\* TotalRounds is that sum.
LEMMA TotalIsSum ==
  ASSUME UnitAssumption
  PROVE  \E g : g = [s \in SUBSET Units |-> Added(g, s)] /\ TotalRounds = g[Units]
<1> DEFINE Sum(g) == g = [s \in SUBSET Units |-> Added(g, s)]
<1>1. TotalRounds = (CHOOSE g : Sum(g))[Units]
  BY DEF TotalRounds, MapThenSumSet, MapThenFoldSet, Added, Chosen, Rest
<1>2. Sum(CHOOSE g : Sum(g))
  <2>1. \E g : Sum(g)
    BY SumExists
  <2> HIDE DEF Sum
  <2> QED BY <2>1
<1> QED BY <1>1, <1>2

\* Where no unit has spent more than two rounds they come to two a unit, less
\* if some unit has one left.
LEMMA SumIsBounded ==
  ASSUME UnitAssumption, \A u \in Units : units[u].rounds \in 0..2,
         NEW g, g = [s \in SUBSET Units |-> Added(g, s)]
  PROVE  g[Units] \in Nat /\ \A u \in Units : units[u].rounds < 2 => g[Units] < 2 * N
<1> DEFINE Bounded(s) == /\ g[s] \in Nat /\ g[s] <= 2 * Cardinality(s)
                         /\ \A u \in s : units[u].rounds < 2 => g[s] < 2 * Cardinality(s)
           T == {n \in Nat : \A s \in UpTo(n) : Bounded(s)}
<1>1. \A s \in SUBSET Units : g[s] = Added(g, s)
  OBVIOUS
<1>2. Bounded({})
  <2>1. g[{}] = 0
    BY <1>1 DEF Added
  <2> QED BY <2>1, FS_EmptySet
<1>3. 0 \in T
  <2>1. \A s \in UpTo(0) : s = {}
    BY RestIsLess DEF UpTo
  <2> HIDE DEF Bounded
  <2> QED BY <1>2, <2>1
<1>4. ASSUME NEW n \in Nat, n \in T PROVE n + 1 \in T
  <2> SUFFICES ASSUME NEW s \in UpTo(n + 1) PROVE Bounded(s)
    <3> HIDE DEF Bounded
    <3> QED OBVIOUS
  <2>1. CASE s = {}
    <3> HIDE DEF Bounded
    <3> QED BY <1>2, <2>1
  <2>2. CASE s # {}
    <3>1. /\ s \in SUBSET Units /\ Cardinality(s) \in Nat /\ Chosen(s) \in s
          /\ Cardinality(Rest(s)) = Cardinality(s) - 1
      BY <2>2, RestIsLess DEF UpTo
    <3>2. Rest(s) \in UpTo(n)
      BY <2>2, RestIsLess DEF UpTo
    <3>3. Bounded(Rest(s))
      <4> HIDE DEF Bounded
      <4> QED BY <1>4, <3>2
    <3>4. g[s] = units[Chosen(s)].rounds + g[Rest(s)]
      BY <1>1, <2>2, <3>1 DEF Added
    <3>5. units[Chosen(s)].rounds \in 0..2
      BY <3>1
    <3>6. g[s] \in Nat /\ g[s] <= 2 * Cardinality(s)
      BY <3>1, <3>3, <3>4, <3>5
    <3>7. ASSUME NEW u \in s, units[u].rounds < 2 PROVE g[s] < 2 * Cardinality(s)
      <4>1. CASE u = Chosen(s)
        BY <3>1, <3>3, <3>4, <3>5, <3>7, <4>1
      <4>2. CASE u # Chosen(s)
        <5>1. u \in Rest(s)
          BY <4>2 DEF Rest
        <5>2. g[Rest(s)] < 2 * Cardinality(Rest(s))
          BY <3>3, <3>7, <5>1
        <5> QED BY <3>1, <3>3, <3>4, <3>5, <5>2
      <4> QED BY <4>1, <4>2
    <3> QED BY <3>6, <3>7
  <2> QED BY <2>1, <2>2
<1>5. Units \in UpTo(N) /\ Cardinality(Units) = N
  BY FS_Interval, UnitAssumption DEF UpTo, Units
<1>6. N \in T
  <2> HIDE DEF T
  <2>1. Nat \subseteq T
    BY <1>3, <1>4, NatSetInduction
  <2> QED BY <2>1, UnitAssumption
<1> QED BY <1>5, <1>6

\* However many units a plan has, the task-wide budget stops no round which
\* the unit's own cap would let through.
THEOREM BudgetIsSlack == Spec => []BudgetNeverDecides
<1>1. TypeOK /\ RoundsBelowCap => BudgetNeverDecides
  <2> SUFFICES ASSUME TypeOK, RoundsBelowCap, pc \in {"check", "review"}, AtBudget PROVE AtUnitCap
    BY DEF BudgetNeverDecides
  <2>1. current \in Units
    BY UnitAssumption DEF TypeOK, AtUnit, Units
  <2>2. \A u \in Units : units[u].rounds \in Nat /\ units[u].rounds \in 0..2
    BY DEF TypeOK, RoundsBelowCap, UnitRoundCap, Unit
  <2>3. PICK g : g = [s \in SUBSET Units |-> Added(g, s)] /\ TotalRounds = g[Units]
    BY TotalIsSum, UnitAssumption
  <2>4. TotalRounds \in Nat /\ (units[current].rounds < 2 => TotalRounds < 2 * N)
    BY <2>1, <2>2, <2>3, SumIsBounded, UnitAssumption
  <2>5. ~(units[current].rounds < 2)
    <3>1. TotalRounds + 1 > 2 * N
      BY DEF AtBudget, TaskBudget
    <3>2. N \in Nat
      BY UnitAssumption
    <3> QED BY <2>4, <3>1, <3>2
  <2> QED BY <2>1, <2>2, <2>5 DEF AtUnitCap, UnitRoundCap
<1> QED BY <1>1, TypeCorrect, PlanOrderAndCap, PTL
-----------------------------------------------------------------------------
(* A run is finite: what is left of it, counted.                            *)

UnitsLeft == IF current = 0 THEN 0 ELSE N + 1 - current
RoundsLeft == IF current = 0 THEN 0 ELSE UnitRoundCap - units[current].rounds
StepsLeft == CASE pc = "top" -> 8 [] pc = "code" -> 7 [] pc = "record" -> 6 [] pc = "check" -> 5
               [] pc = "review" -> 4 [] pc = "finish" -> 3 [] pc = "opened" -> 2
               [] pc \in {"blockUnit", "blockTask"} -> 1 [] OTHER -> 0

\* No round of one unit takes ten steps, and no unit takes four rounds.
Left == 40 * UnitsLeft + 10 * RoundsLeft + StepsLeft

\* The three parts are integers, and within their bounds.
LEMMA LeftIsCounted ==
  ASSUME TypeOK
  PROVE  /\ UnitsLeft \in 0..N
         /\ RoundsLeft \in Int /\ RoundsLeft <= UnitRoundCap
         /\ StepsLeft \in 0..8
<1>1. current \in 0..N /\ N \in Nat /\ units \in [Units -> Unit]
  BY UnitAssumption DEF TypeOK
<1>2. UnitsLeft \in 0..N
  BY <1>1 DEF UnitsLeft
<1>3. RoundsLeft \in Int /\ RoundsLeft <= UnitRoundCap
  <2>1. CASE current = 0 BY <2>1 DEF RoundsLeft, UnitRoundCap
  <2>2. CASE current # 0
    <3>1. units[current] \in Unit
      BY <1>1, <2>2 DEF Units
    <3>2. units[current].rounds \in Nat
      BY <3>1 DEF Unit
    <3> QED BY <2>2, <3>2 DEF RoundsLeft, UnitRoundCap
  <2> QED BY <2>1, <2>2
<1>4. StepsLeft \in 0..8
  BY DEF StepsLeft
<1> QED BY <1>2, <1>3, <1>4

\* A step comes nearer the end, spends a round or passes a unit: in each case what
\* is left is less.
LEMMA LeftArithmetic ==
  ASSUME NEW u \in Int, NEW v \in Int, NEW r \in Int, NEW q \in Int, NEW s \in 0..8, NEW t \in 0..8,
         \/ v = u /\ q = r /\ t < s
         \/ v = u /\ q = r - 1
         \/ v = u - 1 /\ q <= 3 /\ r >= 1
  PROVE  40 * v + 10 * q + t < 40 * u + 10 * r + s
  OBVIOUS

\* A step that spends no round and passes no unit: what is left falls when the
\* run goes on to a place nearer its end.
LEMMA LeftFalls ==
  ASSUME TypeOK, TypeOK', current' = current,
         current # 0 => units'[current].rounds = units[current].rounds,
         StepsLeft' < StepsLeft
  PROVE  Left' < Left
<1>1. UnitsLeft' = UnitsLeft
  BY DEF UnitsLeft
<1>2. RoundsLeft' = RoundsLeft
  BY DEF RoundsLeft
<1>3. UnitsLeft \in Int /\ RoundsLeft \in Int
  BY LeftIsCounted, UnitAssumption
<1>4. StepsLeft \in 0..8 /\ StepsLeft' \in 0..8
  BY DEF StepsLeft
<1> HIDE DEF UnitsLeft, RoundsLeft, StepsLeft
<1>5. 40 * UnitsLeft' + 10 * RoundsLeft' + StepsLeft' < 40 * UnitsLeft + 10 * RoundsLeft + StepsLeft
  BY <1>1, <1>2, <1>3, <1>4, LeftArithmetic
<1> QED BY <1>5 DEF Left

\* Every step of a run takes from what is left of it.
LEMMA RunSteps ==
  ASSUME TypeOK, TypeOK', RoundsBelowCap, [Next]_vars, pc # "off", ~UNCHANGED vars
  PROVE  Left' < Left
<1>0. /\ units \in [Units -> Unit] /\ current \in 0..N
      /\ current # 0 => current \in Units /\ units[current] \in Unit
      /\ pc \in AtUnit => current # 0
  BY UnitAssumption DEF TypeOK, Units
<1>r. current # 0 => units[current].rounds \in Nat /\ units[current].rounds <= 2
  <2> SUFFICES ASSUME current # 0 PROVE units[current].rounds \in Nat /\ units[current].rounds <= 2
    OBVIOUS
  <2>1. units[current].rounds \in Nat
    BY <1>0 DEF Unit
  <2>2. units[current].rounds < 3
    BY <1>0 DEF RoundsBelowCap, UnitRoundCap
  <2> QED BY <2>1, <2>2
\* A step that leaves the rounds alone and comes nearer the end.
<1>a. ASSUME UNCHANGED <<units, current>>, StepsLeft' < StepsLeft PROVE Left' < Left
  BY <1>a, LeftFalls
<1>b. ASSUME current # 0, current' = current, StepsLeft' < StepsLeft,
             NEW new, new.rounds = units[current].rounds,
             units' = [units EXCEPT ![current] = new]
      PROVE  Left' < Left
  <2>1. units'[current].rounds = units[current].rounds
    BY <1>0, <1>b
  <2> QED BY <1>b, <2>1, LeftFalls
\* A step that spends a round.
<1>c. ASSUME current # 0, current' = current,
             NEW new, new.rounds = units[current].rounds + 1,
             units' = [units EXCEPT ![current] = new]
      PROVE  Left' < Left
  <2>1. units'[current].rounds = units[current].rounds + 1
    BY <1>0, <1>c
  <2>2. UnitsLeft' = UnitsLeft
    BY <1>c DEF UnitsLeft
  <2>3. RoundsLeft' = RoundsLeft - 1
    BY <1>c, <1>r, <2>1 DEF RoundsLeft, UnitRoundCap
  <2>4. UnitsLeft \in Int /\ RoundsLeft \in Int /\ RoundsLeft' \in Int /\ StepsLeft \in 0..8
    BY <2>3, LeftIsCounted, UnitAssumption
  <2>5. StepsLeft' \in 0..8
    BY DEF StepsLeft
  <2> HIDE DEF UnitsLeft, RoundsLeft, StepsLeft
  <2> QED BY <2>2, <2>3, <2>4, <2>5, LeftArithmetic DEF Left
<1>1. pc \in AtUnit \cup {"top", "finish", "opened"}
  BY DEF TypeOK
<1>2. CASE LoopEnds
  BY <1>2, <1>a DEF LoopEnds, noteVars, StepsLeft
<1>3. CASE ReviewFirst
  BY <1>3, <1>a DEF ReviewFirst, noteVars, StepsLeft
<1>4. CASE BuildFresh
  <2> DEFINE new == [units[current] EXCEPT !.status = "building", !.base = tip]
  <2>1. StepsLeft' < StepsLeft
    BY <1>4 DEF BuildFresh, StepsLeft
  <2>2. new.rounds = units[current].rounds
    BY <1>0, <1>4 DEF BuildFresh, Unit
  <2>3. current # 0 /\ current' = current /\ units' = [units EXCEPT ![current] = new]
    BY <1>0, <1>4 DEF BuildFresh
  <2> QED BY <1>b, <2>1, <2>2, <2>3
<1>5. CASE BuildResumed
  BY <1>5, <1>a DEF BuildResumed, noteVars, StepsLeft
<1>6. CASE Code
  BY <1>6, <1>a DEF Code, noteVars, StepsLeft
<1>7. CASE Record
  <2> DEFINE new == [units[current] EXCEPT !.session = @ \/ session.id, !.head = tip]
  <2>1. StepsLeft' < StepsLeft
    BY <1>7 DEF Record, AfterRecord, StepsLeft
  <2>2. current # 0
    BY <1>0, <1>7 DEF Record, AtUnit
  <2>3. new.rounds = units[current].rounds
    BY <1>0, <2>2 DEF Unit
  <2>4. current' = current /\ units' = [units EXCEPT ![current] = new]
    BY <1>7 DEF Record, Recorded
  <2> QED BY <1>b, <2>1, <2>2, <2>3, <2>4
<1>8. CASE RecordDiscarded
  BY <1>8, <1>a DEF RecordDiscarded, AfterRecord, noteVars, StepsLeft
<1>9. CASE Block
  <2>1. StepsLeft' < StepsLeft /\ current' = current
    BY <1>9 DEF Block, StepsLeft
  <2>2. CASE Marked
    <3> DEFINE new == [units[current] EXCEPT !.status = "blocked"]
    <3>1. current # 0
      BY <1>0, <2>2 DEF AtUnit, Marked
    <3>2. new.rounds = units[current].rounds
      BY <1>0, <3>1 DEF Unit
    <3>3. units' = [units EXCEPT ![current] = new]
      BY <2>2 DEF Marked
    <3> QED BY <1>b, <2>1, <3>1, <3>2, <3>3
  <2>3. CASE UNCHANGED units
    BY <1>a, <2>1, <2>3
  <2> QED BY <1>9, <2>2, <2>3, BlockMarks
<1>10. CASE VerifyPasses
  <2> DEFINE new == [units[current] EXCEPT !.status = "review"]
  <2>1. StepsLeft' < StepsLeft
    BY <1>10 DEF VerifyPasses, StepsLeft
  <2>2. current # 0
    BY <1>0, <1>10 DEF VerifyPasses, AtUnit
  <2>3. new.rounds = units[current].rounds
    BY <1>0, <2>2 DEF Unit
  <2>4. current' = current /\ units' = [units EXCEPT ![current] = new]
    BY <1>10 DEF VerifyPasses
  <2> QED BY <1>b, <2>1, <2>2, <2>3, <2>4
<1>11. CASE VerifyFails
  <2> DEFINE new == [units[current] EXCEPT !.rounds = @ + 1]
  <2>1. current # 0
    BY <1>0, <1>11 DEF VerifyFails, AtUnit
  <2>2. new.rounds = units[current].rounds + 1
    BY <1>0, <2>1 DEF Unit
  <2>3. current' = current /\ units' = [units EXCEPT ![current] = new]
    BY <1>11 DEF VerifyFails
  <2> QED BY <1>c, <2>1, <2>2, <2>3
<1>12. CASE Concerns
  <2> DEFINE new == [units[current] EXCEPT !.rounds = @ + 1, !.status = "building"]
  <2>1. current # 0
    BY <1>0, <1>12 DEF Concerns, AtUnit
  <2>2. new.rounds = units[current].rounds + 1
    BY <1>0, <2>1 DEF Unit
  <2>3. current' = current /\ units' = [units EXCEPT ![current] = new]
    BY <1>12 DEF Concerns
  <2> QED BY <1>c, <2>1, <2>2, <2>3
<1>13. CASE RoundRefused
  BY <1>13, <1>a DEF RoundRefused, noteVars, StepsLeft
<1>14. CASE Approve
  <2>1. current # 0 /\ current' = NextUnit(current)
    BY <1>0, <1>14 DEF Approve, AtUnit
  <2>2. UnitsLeft' = UnitsLeft - 1
    BY <1>0, <2>1, UnitAssumption DEF UnitsLeft, NextUnit
  <2>3. RoundsLeft >= 1
    BY <1>r, <2>1 DEF RoundsLeft, UnitRoundCap
  <2>4. RoundsLeft' \in Int /\ RoundsLeft' <= 3
    <3>1. current' \in 0..N /\ units' \in [Units -> Unit]
      BY DEF TypeOK
    <3>2. CASE current' = 0 BY <3>2 DEF RoundsLeft
    <3>3. CASE current' # 0
      <4>1. units'[current'] \in Unit
        BY <3>1, <3>3, UnitAssumption DEF Units
      <4>2. units'[current'].rounds \in Nat
        BY <4>1 DEF Unit
      <4> QED BY <3>3, <4>2 DEF RoundsLeft, UnitRoundCap
    <3> QED BY <3>2, <3>3
  <2>5. UnitsLeft \in Int /\ UnitsLeft' \in Int /\ RoundsLeft \in Int
    BY <2>2, LeftIsCounted, UnitAssumption
  <2>6. StepsLeft \in 0..8 /\ StepsLeft' \in 0..8
    BY DEF StepsLeft
  <2> HIDE DEF UnitsLeft, RoundsLeft, StepsLeft
  <2>7. 40 * UnitsLeft' + 10 * RoundsLeft' + StepsLeft' < 40 * UnitsLeft + 10 * RoundsLeft + StepsLeft
    BY <2>2, <2>3, <2>4, <2>5, <2>6, LeftArithmetic
  <2> QED BY <2>7 DEF Left
<1>15. CASE ReviewLimit
  BY <1>15, <1>a DEF ReviewLimit, noteVars, StepsLeft
<1>16. CASE ReviewFails
  BY <1>16, <1>a DEF ReviewFails, noteVars, StepsLeft
<1>17. CASE OpenTaskPR
  BY <1>17, <1>a DEF OpenTaskPR, noteVars, StepsLeft
<1>18. CASE OpenTaskPRFails
  BY <1>18, <1>a DEF OpenTaskPRFails, StepsLeft
<1>19. CASE WriteDone
  BY <1>19, <1>a DEF WriteDone, StepsLeft
<1>20. CASE Stop
  BY <1>1, <1>20, <1>a DEF Stop, noteVars, StepsLeft, AtUnit
<1> QED
  <2>1. ~Begin /\ ~Resolve
    BY DEF Begin, Resolve
  <2> QED BY <1>2, <1>3, <1>4, <1>5, <1>6, <1>7, <1>8, <1>9, <1>10, <1>11, <1>12, <1>13, <1>14,
             <1>15, <1>16, <1>17, <1>18, <1>19, <1>20, <2>1
          DEF Next, Build, Round, Verdict, Finish

\* A run is finite: every step of it, the ones that fail included, takes
\* from a natural number, so that no run goes round for ever whatever verify
\* and the reviewer say.  The bound is 40 * N + 38 steps.
THEOREM RunIsFinite ==
  Spec => [](Left \in 0..(40 * N + 38)) /\ [][pc # "off" => Left' < Left]_vars
<1>1. TypeOK /\ OrderInv => Left \in 0..(40 * N + 38)
  <2> SUFFICES ASSUME TypeOK, RoundsBelowCap PROVE Left \in 0..(40 * N + 38)
    BY DEF OrderInv
  <2>1. RoundsLeft >= 0
    <3>1. CASE current = 0 BY <3>1 DEF RoundsLeft
    <3>2. CASE current # 0
      <4>1. current \in Units
        BY <3>2, UnitAssumption DEF TypeOK, Units
      <4>2. units[current].rounds \in Nat
        BY <4>1 DEF TypeOK, Unit
      <4> QED BY <3>2, <4>1, <4>2 DEF RoundsLeft, RoundsBelowCap, UnitRoundCap
    <3> QED BY <3>1, <3>2
  <2>2. UnitsLeft \in 0..N /\ RoundsLeft \in 0..3 /\ StepsLeft \in 0..8
    BY <2>1, LeftIsCounted DEF UnitRoundCap
  <2> HIDE DEF UnitsLeft, RoundsLeft, StepsLeft
  <2> QED BY <2>2, UnitAssumption DEF Left
<1>2. TypeOK /\ TypeOK' /\ OrderInv /\ [Next]_vars => [pc # "off" => Left' < Left]_vars
  BY RunSteps DEF OrderInv
<1> QED BY <1>1, <1>2, TypeCorrect, PlanOrderAndCap, PTL DEF Spec, OrderInv
=============================================================================
