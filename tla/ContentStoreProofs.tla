-------------------------- MODULE ContentStoreProofs --------------------------
(***************************************************************************)
(* Proofs about ContentStore for every set of revisions, every generation   *)
(* limit and every combination of storage faults.                           *)
(***************************************************************************)
EXTENDS ContentStore, TLAPS

\* newest() returns one of the slots it is given, and a valid one at least as
\* new as any other.
LEMMA NewestSlot ==
  ASSUME NEW S \in SUBSET Slots, NEW g \in [Slots -> Nat]
  PROVE  /\ Newest(S, g) \in S \cup {NoSlot}
         /\ Newest(S, g) = NoSlot <=> S = {}
         /\ \A s \in S : g[s] <= g[Newest(S, g)]
  BY DEF Newest, Slots, NoSlot

\* recover() returns a slot that read as valid and whose revision verified.
LEMMA RecoverSlot ==
  ASSUME NEW res, NEW v, NEW g \in [Slots -> Nat], Recover(res, g, v) # NoSlot
  PROVE  /\ Recover(res, g, v) \in Slots
         /\ res[Recover(res, g, v)] = "valid"
         /\ v[Recover(res, g, v)]
  <1> DEFINE S == {s \in ValidSlots(res) : v[s]}
  <1>1. S \in SUBSET Slots BY DEF ValidSlots
  <1>2. Newest(S, g) \in S BY <1>1, NewestSlot DEF Recover
  <1> QED BY <1>2 DEF Recover, ValidSlots

\* The generations of the two slots are natural numbers.
LEMMA GenerationsType == TypeOK => Generations \in [Slots -> Nat]
  BY MaxGenerationAssumption DEF TypeOK, Generations, Records

\* A verdict on a revision is positive only for an intact published revision.
LEMMA VerdictSound ==
  ASSUME NEW r, TRUE \in Verdicts(r)
  PROVE  r \in Revisions /\ published[r] = "complete"
  BY DEF Verdicts

\* A slot that was read as valid holds a valid record.
LEMMA ReadSound ==
  ASSUME NEW res \in ReadResults, NEW s \in Slots, res[s] = "valid"
  PROVE  slot[s].kind = "valid"
  BY FaultAssumption DEF ReadResults, ReadResult

\* A slot that is valid reads as valid, as missing or as failed, never as
\* damaged.
LEMMA ReadComplete ==
  ASSUME NEW res \in ReadResults, NEW s \in Slots, slot[s].kind = "valid"
  PROVE  res[s] \in {"valid", "missing", "failed"}
  BY FaultAssumption DEF ReadResults, ReadResult

\* The slot recovery answers holds a valid record of an intact revision.
LEMMA RecoveredSound ==
  ASSUME TypeOK, NEW res \in ReadResults, NEW v \in SlotVerdicts,
         Recover(res, Generations, v) # NoSlot
  PROVE  LET s == Recover(res, Generations, v) IN
           /\ s \in Slots /\ res[s] = "valid" /\ slot[s].kind = "valid"
           /\ slot[s].revision \in Revisions
           /\ published[slot[s].revision] = "complete"
  <1> DEFINE s == Recover(res, Generations, v)
  <1>1. s \in Slots /\ res[s] = "valid" /\ v[s]
    BY GenerationsType, RecoverSlot
  <1>2. TRUE \in Verdicts(slot[s].revision)
    BY <1>1 DEF SlotVerdicts, Verdicts
  <1> QED BY <1>1, <1>2, ReadSound, VerdictSound

\* The values the handlers assign belong to the types of their variables.
LEMMA ConstantTypes ==
  /\ Idle \in Ops /\ Hidden \in Presentations /\ None \in Selections
  /\ MissingRecord \in Records /\ TornRecord \in Records
  /\ \A r \in Revisions : [Idle EXCEPT !.revision = r] \in Ops
  /\ \A o \in Ops, s \in Steps : [o EXCEPT !.step = s] \in Ops
  /\ \A d : Removed(d) \in {"partial", "bare", "absent"}
<1>1. 0 \in 0 .. MaxGeneration BY MaxGenerationAssumption
<1>2. Idle \in Ops BY <1>1 DEF Idle, Ops, Steps, Slots
<1>3. Hidden \in Presentations BY <1>1 DEF Hidden, Presentations, Phases
<1>4. None \in Selections BY <1>1 DEF None, Selections
<1>5. MissingRecord \in Records /\ TornRecord \in Records
  BY <1>1 DEF MissingRecord, TornRecord, Records
<1>6. \A r \in Revisions : [Idle EXCEPT !.revision = r] \in Ops BY <1>2 DEF Ops
<1>7. \A o \in Ops, s \in Steps : [o EXCEPT !.step = s] \in Ops BY DEF Ops
<1>8. \A d : Removed(d) \in {"partial", "bare", "absent"} BY DEF Removed
<1> QED BY <1>2, <1>3, <1>4, <1>5, <1>6, <1>7, <1>8

\* Sealing starts a handler for the sealed revision.
LEMMA SealedOp ==
  ASSUME NEW r \in Revisions, NEW s \in Steps
  PROVE  [Idle EXCEPT !.step = s, !.revision = r] \in Ops
  BY ConstantTypes DEF Ops

\* Opening a record for writing fills in the rest of the handler's state.
LEMMA OpenedOp ==
  ASSUME NEW o \in Ops, NEW t \in Slots, NEW g \in 0 .. MaxGeneration,
         NEW v \in Revisions \cup {NoRevision}
  PROVE  [o EXCEPT !.step = "write", !.target = t, !.generation = g, !.victim = v] \in Ops
  BY DEF Ops, Steps

\* Every step keeps the types.
LEMMA TypeStep == TypeOK /\ [Next]_vars => TypeOK'
<1>1. TypeOK /\ [Next]_vars => TypeOK'
  <2> SUFFICES ASSUME TypeOK, [Next]_vars PROVE TypeOK'
    OBVIOUS
  <2> USE ConstantTypes DEF TypeOK, PublishedStates, StagedStates
  <2>1. ASSUME NEW r \in Revisions, NEW state \in StagedStates, Upload(r, state) PROVE TypeOK'
    BY <2>1 DEF Upload
  <2>2. ASSUME NEW r \in Revisions, Prepare(r) PROVE TypeOK'
    BY <2>2 DEF Prepare
  <2>3. ASSUME NEW r \in Revisions, SealExisting(r) PROVE TypeOK'
    <3>1. op' \in Ops
      <4>1. PICK s \in {"dedupe", "activate"} : op' = [Idle EXCEPT !.step = s, !.revision = r]
        BY <2>3 DEF SealExisting
      <4> QED BY <4>1, SealedOp DEF Steps
    <3> QED BY <2>3, <3>1 DEF SealExisting
  <2>4. ASSUME NEW r \in Revisions, SealMove(r) PROVE TypeOK'
    <3>1. op' \in Ops BY <2>4, SealedOp DEF SealMove, Steps
    <3> QED BY <2>4, <3>1 DEF SealMove
  <2>5. CASE DedupeStep
    <3>1. op' \in Ops BY <2>5 DEF DedupeStep, Steps
    <3> QED BY <2>5, <3>1 DEF DedupeStep
  <2>6. CASE DedupeFail \/ ActivateRefuse \/ ActivateOpenFail \/ WriteFail \/ ReadbackFail
               \/ RetireBegin \/ RetireRefuse \/ RemoveFail
    <3>1. op' \in Ops
      BY <2>6 DEF DedupeFail, ActivateRefuse, ActivateOpenFail, WriteFail, ReadbackFail,
         RetireBegin, RetireRefuse, RemoveFail, Steps
    <3> QED
      BY <2>6, <3>1 DEF DedupeFail, ActivateRefuse, ActivateOpenFail, WriteFail, ReadbackFail,
         RetireBegin, RetireRefuse, RemoveFail
  <2>7. CASE ActivateRepeat
    <3>1. PICK res \in ReadResults, v \in SlotVerdicts :
            /\ Recover(res, Generations, v) # NoSlot
            /\ confirmed' = [generation |-> slot[Recover(res, Generations, v)].generation,
                             revision |-> op.revision]
      BY <2>7 DEF ActivateRepeat, Repeated
    <3>2. Recover(res, Generations, v) \in Slots BY <3>1, RecoveredSound
    <3>3. confirmed' \in Selections BY <3>1, <3>2 DEF Selections, Records, Ops
    <3> QED BY <2>7, <3>3 DEF ActivateRepeat
  <2>8. CASE ActivateOpen
    <3>1. PICK res \in ReadResults, v \in SlotVerdicts :
            LET protected == Recover(res, Generations, v)
                target    == TargetSlot(protected)
            IN /\ LatestGeneration(res) < MaxGeneration
               /\ slot' = [slot EXCEPT ![target] = TornRecord]
               /\ op' = [op EXCEPT !.step = "write", !.target = target,
                                   !.generation = LatestGeneration(res) + 1,
                                   !.victim = Evicted(res, protected, target)]
      BY <2>8 DEF ActivateOpen, Writes
    <3> DEFINE protected == Recover(res, Generations, v)
               target    == TargetSlot(protected)
               g         == LatestGeneration(res) + 1
               victim    == Evicted(res, protected, target)
    <3>2. target \in Slots BY DEF TargetSlot, Slots
    <3>3. LatestGeneration(res) \in Nat
      <4>1. Latest(res) \in Slots \cup {NoSlot}
        BY GenerationsType, NewestSlot DEF Latest, ValidSlots
      <4> QED BY <4>1, MaxGenerationAssumption DEF LatestGeneration, Records
    <3>4. g \in 0 .. MaxGeneration BY <3>1, <3>3, MaxGenerationAssumption
    <3>5. victim \in Revisions \cup {NoRevision}
      BY <3>2 DEF Evicted, Records
    <3>6. slot' \in [Slots -> Records] BY <3>1, <3>2
    <3>7. op' \in Ops
      <4>1. op' = [op EXCEPT !.step = "write", !.target = target, !.generation = g,
                             !.victim = victim]
        BY <3>1
      <4> HIDE DEF target, g, victim
      <4> QED BY <4>1, <3>2, <3>4, <3>5, OpenedOp
    <3> QED BY <2>8, <3>6, <3>7 DEF ActivateOpen
  <2>9. CASE WriteRecord
    <3>1. Record(op.generation, op.revision) \in Records BY DEF Record, Records, Ops
    <3>2. op' \in Ops BY <2>9 DEF WriteRecord, Steps
    <3> QED BY <2>9, <3>1, <3>2 DEF WriteRecord
  <2>10. CASE ReadbackOk
    <3>1. op' \in Ops BY <2>10 DEF ReadbackOk, Steps
    <3>2. confirmed' \in Selections BY <2>10 DEF ReadbackOk, Ops, Selections
    <3> QED BY <2>10, <3>1, <3>2 DEF ReadbackOk
  <2>11. CASE RemoveStep
    <3>1. op' \in Ops BY <2>11 DEF RemoveStep
    <3> QED BY <2>11, <3>1 DEF RemoveStep
  <2>12. ASSUME NEW r \in Revisions, Present(r) PROVE TypeOK'
    <3>1. PICK res \in ReadResults, v \in SlotVerdicts :
            LET s == Recover(res, Generations, v) IN
              /\ s # NoSlot
              /\ shown' = [phase |-> "queued", revision |-> r, generation |-> slot[s].generation]
      BY <2>12 DEF Present
    <3> DEFINE s == Recover(res, Generations, v)
    <3>2. s \in Slots BY <3>1 DEF Recover, Newest, Slots
    <3>3. slot[s].generation \in 0 .. MaxGeneration BY <3>2 DEF Records
    <3>4. shown' \in Presentations BY <3>1, <3>3 DEF Presentations, Phases
    <3> QED BY <2>12, <3>4 DEF Present
  <2>13. CASE Load
    <3>1. \E phase \in Phases : shown' = [shown EXCEPT !.phase = phase, !.generation = 0]
      BY <2>13 DEF Load, Phases
    <3>2. 0 \in 0 .. MaxGeneration BY MaxGenerationAssumption
    <3>3. shown' \in Presentations BY <3>1, <3>2 DEF Presentations
    <3> QED BY <2>13, <3>3 DEF Load
  <2>13a. CASE Draw \/ Turn
    BY <2>13a DEF Draw, Turn, Presentations, Phases
  <2>14. CASE Hide \/ Crash
    BY <2>14 DEF Hide, Crash
  <2>15. ASSUME NEW r \in Revisions, Rot(r) PROVE TypeOK'
    BY <2>15 DEF Rot
  <2>16. CASE UNCHANGED vars
    BY <2>16 DEF vars
  <2> QED
    BY <2>1, <2>2, <2>3, <2>4, <2>5, <2>6, <2>7, <2>8, <2>9, <2>10, <2>11, <2>12, <2>13,
       <2>13a, <2>14, <2>15, <2>16 DEF Next, Firmware, Environment, Activation
<1> QED BY <1>1

\* Every state is made of the values the storage and the handlers can hold.
THEOREM TypeCorrect == Spec => []TypeOK
<1>1. Init => TypeOK
  BY ConstantTypes DEF Init, TypeOK, PublishedStates, StagedStates
<1> QED BY <1>1, TypeStep, PTL DEF Spec

\* An action that ends the handler, or hides the view, and leaves the card alone.
LEMMA SettlesKeeps ==
  ASSUME IInv, TypeOK', UNCHANGED <<slot, published, confirmed>>,
         op' = Idle, shown' \in {shown, Hidden}
  PROVE  IInv'
<1>1. RecordInv' /\ DistinctGenerations' BY DEF IInv, RecordInv, DistinctGenerations
<1>2. HandlerInv' BY DEF HandlerInv, Idle
<1>3. NamedRevisionsKept' BY DEF IInv, NamedRevisionsKept, Kept
<1>4. AlwaysARecord' BY DEF IInv, AlwaysARecord, Idle
<1> QED BY <1>1, <1>2, <1>3, <1>4 DEF IInv

\* An action that moves only the handler, from a step to a later one.
LEMMA StepKeeps ==
  ASSUME IInv, TypeOK', UNCHANGED <<slot, published, shown, confirmed>>,
         op.step # "write", op'.step # "write", HandlerInv'
  PROVE  IInv'
  BY DEF IInv, RecordInv, DistinctGenerations, NamedRevisionsKept, Kept, AlwaysARecord

\* Opening the record: the recovered slot is preserved, and the generation about
\* to be written exceeds that of the slot that stays.
LEMMA OpenKeeps == ASSUME IInv, TypeOK', ActivateOpen PROVE IInv'
<1> USE DEF IInv
<1>1. PICK res \in ReadResults, v \in SlotVerdicts :
        LET protected == Recover(res, Generations, v)
            target    == TargetSlot(protected)
        IN /\ Writes(res, protected)
           /\ res[target] = "missing" => slot[target].kind = "missing"
           /\ slot' = [slot EXCEPT ![target] = TornRecord]
           /\ op' = [op EXCEPT !.step = "write", !.target = target,
                               !.generation = LatestGeneration(res) + 1,
                               !.victim = Evicted(res, protected, target)]
  BY DEF ActivateOpen
<1> DEFINE protected == Recover(res, Generations, v)
           target    == TargetSlot(protected)
           other     == Peer(target)
           g         == LatestGeneration(res) + 1
<1>2. target \in Slots /\ other \in Slots /\ other # target /\ Slots = {target, other}
  BY DEF TargetSlot, Peer, Slots
<1>3. /\ slot' \in [Slots -> Records] /\ slot'[target] = TornRecord
      /\ slot'[other] = slot[other]
  BY <1>1, <1>2 DEF TypeOK
<1>4. op.step = "activate" /\ UNCHANGED <<published, staged, shown, confirmed>>
  BY DEF ActivateOpen
<1>5. op'.step = "write" /\ op'.target = target /\ op'.generation = g
      /\ op'.revision = op.revision
  BY <1>1 DEF TypeOK, Ops
<1>6. protected # NoSlot => protected = other /\ res[other] = "valid"
  BY RecoveredSound DEF TargetSlot, Peer, Slots
<1>7. /\ Latest(res) \in Slots \cup {NoSlot}
      /\ Latest(res) = NoSlot <=> ValidSlots(res) = {}
      /\ \A s \in ValidSlots(res) : slot[s].generation <= LatestGeneration(res)
  <2>1. ValidSlots(res) \in SUBSET Slots BY DEF ValidSlots
  <2>2. /\ Latest(res) \in ValidSlots(res) \cup {NoSlot}
        /\ Latest(res) = NoSlot <=> ValidSlots(res) = {}
        /\ \A s \in ValidSlots(res) : Generations[s] <= Generations[Latest(res)]
    BY <2>1, GenerationsType, NewestSlot DEF Latest
  <2> QED BY <2>1, <2>2 DEF LatestGeneration, Generations, Slots, NoSlot
<1>8. LatestGeneration(res) \in Nat
  BY <1>7, MaxGenerationAssumption DEF LatestGeneration, TypeOK, Records
<1>9. slot[other].kind = "valid" /\ res[other] # "valid" => protected = NoSlot /\ target = 0
  BY <1>6 DEF TargetSlot, NoSlot
<1>10. slot[other].kind = "valid" => g # slot[other].generation
  <2>1. CASE res[other] = "valid"
    BY <2>1, <1>2, <1>7, <1>8, MaxGenerationAssumption
       DEF ValidSlots, TypeOK, Records
  <2>2. CASE res[other] # "valid" /\ slot[other].kind = "valid"
    <3>1. protected = NoSlot /\ target = 0 /\ other = 1 BY <1>9, <2>2 DEF Peer
    <3>2. Latest(res) = NoSlot BY <1>1, <3>1 DEF Writes, Undecidable
    <3>3. slot[1].generation > 1 BY <2>2, <3>1 DEF RecordInv
    <3> QED BY <3>1, <3>2, <3>3, MaxGenerationAssumption DEF LatestGeneration, TypeOK, Records, Slots
  <2> QED BY <2>1, <2>2
<1>11. g > target
  <2>1. CASE protected = NoSlot BY <2>1, <1>8 DEF TargetSlot, NoSlot
  <2>2. CASE protected # NoSlot
    <3>1. protected \in ValidSlots(res) /\ slot[protected].kind = "valid"
      BY <2>2, RecoveredSound DEF ValidSlots
    <3>2. slot[protected].generation > 0 BY <3>1 DEF RecordInv, ValidSlots
    <3>3. LatestGeneration(res) > 0
      BY <3>1, <3>2, <1>7, <1>8, MaxGenerationAssumption DEF TypeOK, Records, ValidSlots
    <3> QED BY <3>3, <1>8, <1>2 DEF Slots
  <2> QED BY <2>1, <2>2
<1>12. confirmed # None => slot[other].kind = "valid"
  <2> SUFFICES ASSUME confirmed # None, slot[other].kind # "valid" PROVE FALSE
    OBVIOUS
  <2>1. slot[target].kind = "valid" BY <1>2 DEF AlwaysARecord
  <2>2. res[target] \in {"valid", "missing", "failed"} BY <2>1, <1>2, ReadComplete
  <2>3. res[target] # "missing" BY <1>1, <2>1
  <2>4. res[target] # "failed" BY <1>1, <1>2 DEF Writes, Unreadable
  <2>5. Latest(res) # NoSlot BY <2>2, <2>3, <2>4, <1>2, <1>7 DEF ValidSlots
  <2>6. protected # NoSlot BY <1>1, <2>5 DEF Writes, Undecidable
  <2>7. slot[other].kind = "valid" BY <1>6, <2>6, <1>2, ReadSound
  <2> QED BY <2>7
<1> HIDE DEF target, other, g, protected
<1>13. TornRecord.kind # "valid" BY DEF TornRecord
<1>14. RecordInv' BY <1>2, <1>3, <1>13 DEF RecordInv, Slots
<1>15. DistinctGenerations' BY <1>2, <1>3, <1>13 DEF DistinctGenerations
<1>16. NamedRevisionsKept' BY <1>2, <1>3, <1>4, <1>13 DEF NamedRevisionsKept, Kept
<1>17. AlwaysARecord' BY <1>2, <1>3, <1>4, <1>5, <1>12 DEF AlwaysARecord
<1>18. HandlerInv'
  <2>1. other = Peer(op'.target) BY <1>5 DEF other
  <2>2. Kept(op.revision)' BY <1>4, <1>5 DEF HandlerInv, Kept
  <2> QED BY <2>1, <2>2, <1>3, <1>4, <1>5, <1>10, <1>11 DEF HandlerInv, Kept
<1> QED BY <1>14, <1>15, <1>16, <1>17, <1>18

\* The write completes a record of a kept revision in the opened slot.
LEMMA WriteKeeps == ASSUME IInv, TypeOK', WriteRecord PROVE IInv'
<1> USE DEF IInv
<1> DEFINE other == Peer(op.target)
<1>1. /\ op.step = "write" /\ op.target \in Slots /\ other \in Slots /\ other # op.target
      /\ Slots = {op.target, other} /\ other = 1 - op.target
  BY DEF WriteRecord, TypeOK, Ops, Slots, Peer
<1>2. /\ slot'[op.target] = Record(op.generation, op.revision)
      /\ slot'[other] = slot[other]
      /\ UNCHANGED <<published, staged, shown, confirmed>>
  BY <1>1 DEF WriteRecord, TypeOK
<1>3. op' = [op EXCEPT !.step = "readback"] BY DEF WriteRecord
<1>4. /\ op'.step = "readback" /\ op'.target = op.target /\ op'.revision = op.revision
      /\ op'.generation = op.generation
  BY <1>3 DEF TypeOK, Ops
<1>5. /\ slot'[op.target].kind = "valid" /\ slot'[op.target].revision = op.revision
      /\ slot'[op.target].generation = op.generation
  BY <1>2 DEF Record
<1>6. op.generation > op.target /\ Kept(op.revision) /\ op.revision \in Revisions
  BY <1>1 DEF HandlerInv
<1>7. slot[other].kind = "valid" => op.generation # slot[other].generation
  BY <1>1 DEF HandlerInv
<1> HIDE DEF other
<1>8. RecordInv'
  <2>1. \A s \in Slots : slot'[s].kind = "valid" => slot'[s].generation > 0
    <3>1. op.generation > 0
      BY <1>1, <1>6, MaxGenerationAssumption DEF TypeOK, Ops, Slots
    <3> QED BY <1>1, <1>2, <1>5, <3>1 DEF RecordInv
  <2>2. slot'[1].kind = "valid" => slot'[1].generation > 1
    BY <1>1, <1>2, <1>5, <1>6 DEF RecordInv, Slots
  <2> QED BY <2>1, <2>2 DEF RecordInv
<1>9. DistinctGenerations' BY <1>1, <1>2, <1>5, <1>7 DEF DistinctGenerations, Slots
<1>10. NamedRevisionsKept' BY <1>1, <1>2, <1>5, <1>6 DEF NamedRevisionsKept, Kept
<1>11. AlwaysARecord' BY <1>1, <1>4, <1>5 DEF AlwaysARecord
<1>12. HandlerInv' BY <1>2, <1>4, <1>6 DEF HandlerInv, Kept
<1> QED BY <1>8, <1>9, <1>10, <1>11, <1>12

\* A removal step takes apart only the victim, which nothing names.
LEMMA RemoveKeeps == ASSUME IInv, TypeOK', RemoveStep PROVE IInv'
<1> USE DEF IInv
<1>1. /\ op.step = "remove" /\ Retirable(op.victim) /\ op.victim \in Revisions
      /\ op.revision \in Revisions
  BY DEF RemoveStep, HandlerInv
<1>2. /\ UNCHANGED <<slot, shown, confirmed>> /\ op' \in {op, Idle}
      /\ \A r \in Revisions : r # op.victim => published'[r] = published[r]
  BY DEF RemoveStep, TypeOK
<1>3. RecordInv' /\ DistinctGenerations' BY <1>2 DEF RecordInv, DistinctGenerations
<1>4. NamedRevisionsKept' BY <1>1, <1>2 DEF NamedRevisionsKept, Kept, Retirable
<1>5. AlwaysARecord' BY <1>1, <1>2 DEF AlwaysARecord, Idle
<1>6. HandlerInv' BY <1>1, <1>2 DEF HandlerInv, Retirable, Idle
<1> QED BY <1>3, <1>4, <1>5, <1>6

\* Sealing and rotting leave every kept revision in place.
LEMMA PublishKeeps ==
  ASSUME IInv, TypeOK', UNCHANGED <<slot, shown, confirmed>>,
         \A r \in Revisions : Kept(r) => Kept(r)',
         op'.step # "write" \/ op' = op, op.step # "write" \/ op' = op, HandlerInv'
  PROVE  IInv'
  BY DEF IInv, RecordInv, DistinctGenerations, NamedRevisionsKept, Kept, AlwaysARecord

\* No step breaks the invariant.
LEMMA IInvStep == IInv /\ [Next]_vars => IInv'
<1> SUFFICES ASSUME IInv, [Next]_vars PROVE IInv'
  OBVIOUS
<1>0. TypeOK /\ TypeOK' BY TypeStep DEF IInv
<1>1. ASSUME NEW r \in Revisions, NEW state \in StagedStates, Upload(r, state) PROVE IInv'
  <2>1. HandlerInv' BY <1>1 DEF Upload, IInv, HandlerInv, Kept, Retirable
  <2> QED BY <1>0, <1>1, <2>1, StepKeeps DEF Upload
<1>2. ASSUME NEW r \in Revisions, Prepare(r) PROVE IInv'
  <2>1. HandlerInv' BY <1>2 DEF Prepare, IInv, HandlerInv, Kept, Retirable
  <2> QED BY <1>0, <1>2, <2>1, StepKeeps DEF Prepare
<1>3. ASSUME NEW r \in Revisions, SealExisting(r) PROVE IInv'
  <2>1. op'.step \in {"dedupe", "activate"} /\ op'.revision = r
    BY <1>3 DEF SealExisting, Idle
  <2>2. Kept(r)' BY <1>3, VerdictSound DEF SealExisting, Kept
  <2>3. HandlerInv' BY <2>1, <2>2, <1>3 DEF HandlerInv, Kept
  <2>4. UNCHANGED <<slot, published, shown, confirmed>> /\ op.step # "write"
    BY <1>3 DEF SealExisting
  <2> QED BY <1>0, <2>1, <2>3, <2>4, StepKeeps
<1>4. ASSUME NEW r \in Revisions, SealMove(r) PROVE IInv'
  <2>1. op' = Idle \/ (op'.step = "activate" /\ op'.revision = r)
    <3>1. op' = Idle \/ op' = [Idle EXCEPT !.step = "activate", !.revision = r]
      BY <1>4 DEF SealMove
    <3> QED BY <3>1 DEF Idle
  <2>2. Kept(r)' /\ \A q \in Revisions : Kept(q) => Kept(q)'
    BY <1>0, <1>4 DEF SealMove, TypeOK, Kept
  <2>3. HandlerInv' BY <2>1, <2>2 DEF HandlerInv, Idle
  <2>4. op.step # "write" /\ op'.step # "write" BY <1>4, <2>1 DEF SealMove, Idle
  <2> QED BY <1>0, <1>4, <2>2, <2>3, <2>4, PublishKeeps DEF SealMove
<1>5. CASE DedupeStep \/ DedupeFail
  <2>1. op.step = "dedupe" /\ op' \in {op, [op EXCEPT !.step = "activate"]}
        /\ UNCHANGED <<slot, published, shown, confirmed>>
    BY <1>5 DEF DedupeStep, DedupeFail
  <2>2. op'.step \in {"dedupe", "activate"} /\ op'.revision = op.revision
    BY <1>0, <2>1 DEF TypeOK, Ops
  <2>3. HandlerInv' BY <2>1, <2>2 DEF IInv, HandlerInv, Kept
  <2> QED BY <1>0, <2>1, <2>2, <2>3, StepKeeps
<1>6. CASE \/ ActivateRefuse \/ ActivateOpenFail \/ WriteFail \/ ReadbackFail
           \/ RetireRefuse \/ RemoveFail
  BY <1>0, <1>6, SettlesKeeps DEF ActivateRefuse, ActivateOpenFail, WriteFail, ReadbackFail,
     RetireRefuse, RemoveFail
<1>7. CASE ActivateRepeat
  <2>1. PICK res \in ReadResults, v \in SlotVerdicts : Recover(res, Generations, v) # NoSlot
    BY <1>7 DEF ActivateRepeat, Repeated
  <2>2. \E s \in Slots : slot[s].kind = "valid" BY <1>0, <2>1, RecoveredSound
  <2>3. UNCHANGED <<slot, published, shown>> /\ op' = Idle BY <1>7 DEF ActivateRepeat
  <2>4. AlwaysARecord' BY <2>2, <2>3 DEF AlwaysARecord, Idle
  <2>5. RecordInv' /\ DistinctGenerations' /\ NamedRevisionsKept'
    BY <2>3 DEF IInv, RecordInv, DistinctGenerations, NamedRevisionsKept, Kept
  <2>6. HandlerInv' BY <2>3 DEF HandlerInv, Idle
  <2> QED BY <1>0, <2>4, <2>5, <2>6 DEF IInv
<1>8. CASE ActivateOpen
  BY <1>0, <1>8, OpenKeeps
<1>9. CASE WriteRecord
  BY <1>0, <1>9, WriteKeeps
<1>10. CASE ReadbackOk
  <2>1. op.step = "readback" /\ slot[op.target].kind = "valid" /\ op.target \in Slots
    BY <1>0, <1>10 DEF ReadbackOk, IInv, HandlerInv, Record, TypeOK, Ops
  <2>2. UNCHANGED <<slot, published, shown>> BY <1>10 DEF ReadbackOk
  <2>3. \/ op' = Idle
        \/ op'.step = "retire" /\ op'.revision = op.revision /\ op'.victim = op.victim
           /\ op.victim # NoRevision
    BY <1>0, <1>10 DEF ReadbackOk, TypeOK, Ops
  <2>4. AlwaysARecord' BY <2>1, <2>2, <2>3 DEF AlwaysARecord, Idle
  <2>5. RecordInv' /\ DistinctGenerations' /\ NamedRevisionsKept'
    BY <2>2 DEF IInv, RecordInv, DistinctGenerations, NamedRevisionsKept, Kept
  <2>6. HandlerInv' BY <1>0, <2>1, <2>3 DEF IInv, HandlerInv, Idle, TypeOK, Ops
  <2> QED BY <1>0, <2>4, <2>5, <2>6 DEF IInv
<1>11. CASE RetireBegin
  <2>1. op.step = "retire" /\ Retirable(op.victim)
        /\ UNCHANGED <<slot, published, shown, confirmed>>
    BY <1>11 DEF RetireBegin
  <2>2. op'.step = "remove" /\ op'.revision = op.revision /\ op'.victim = op.victim
    BY <1>0, <1>11 DEF RetireBegin, TypeOK, Ops
  <2>3. HandlerInv' BY <2>1, <2>2 DEF IInv, HandlerInv, Retirable
  <2> QED BY <1>0, <2>1, <2>2, <2>3, StepKeeps
<1>12. CASE RemoveStep
  BY <1>0, <1>12, RemoveKeeps
<1>13. ASSUME NEW r \in Revisions, Present(r) PROVE IInv'
  <2>1. PICK res \in ReadResults, v \in SlotVerdicts :
          LET s == Recover(res, Generations, v) IN
            /\ s # NoSlot /\ slot[s].revision = r
            /\ shown'.revision = r
    BY <1>13 DEF Present
  <2>2. Kept(r) BY <1>0, <2>1, RecoveredSound DEF Kept
  <2>3. UNCHANGED <<slot, published, op, confirmed>> /\ shown'.revision = r
        /\ op.step = "idle"
    BY <1>13, <2>1 DEF Present
  <2>4. NamedRevisionsKept' BY <2>2, <2>3 DEF IInv, NamedRevisionsKept, Kept
  <2>5. HandlerInv' BY <2>3 DEF HandlerInv
  <2> QED BY <1>0, <2>3, <2>4, <2>5 DEF IInv, RecordInv, DistinctGenerations, AlwaysARecord
<1>14. CASE Load \/ Draw \/ Turn
  <2>0. shown \in Presentations BY <1>0 DEF IInv, TypeOK
  <2>1. UNCHANGED <<slot, published, op, confirmed>> /\ shown'.revision = shown.revision
        /\ shown # Hidden
    <3>1. CASE Load
      <4>1. \E phase \in Phases : shown' = [shown EXCEPT !.phase = phase, !.generation = 0]
        BY <3>1 DEF Load, Phases
      <4>2. shown'.revision = shown.revision BY <2>0, <4>1 DEF Presentations
      <4> QED BY <3>1, <4>2 DEF Load, Hidden
    <3>2. CASE Draw BY <2>0, <3>2 DEF Draw, Hidden, Presentations
    <3>3. CASE Turn BY <2>0, <3>3 DEF Turn, Hidden, Presentations
    <3> QED BY <1>14, <3>1, <3>2, <3>3
  <2>2. NamedRevisionsKept' BY <2>1 DEF IInv, NamedRevisionsKept, Kept
  <2>3. HandlerInv' BY <2>1 DEF IInv, HandlerInv, Kept, Retirable
  <2> QED BY <1>0, <2>1, <2>2, <2>3 DEF IInv, RecordInv, DistinctGenerations, AlwaysARecord
<1>15. CASE Hide
  <2>1. op.step = "idle" /\ shown' = Hidden /\ UNCHANGED <<slot, published, op, confirmed>>
    BY <1>15 DEF Hide
  <2>2. HandlerInv' BY <2>1 DEF HandlerInv
  <2>3. NamedRevisionsKept' BY <2>1 DEF IInv, NamedRevisionsKept, Kept
  <2> QED BY <1>0, <2>1, <2>2, <2>3 DEF IInv, RecordInv, DistinctGenerations, AlwaysARecord
<1>16. CASE Crash
  BY <1>0, <1>16, SettlesKeeps DEF Crash
<1>17. ASSUME NEW r \in Revisions, Rot(r) PROVE IInv'
  <2>1. \A q \in Revisions : Kept(q) => Kept(q)' BY <1>0, <1>17 DEF Rot, TypeOK, Kept
  <2>2. UNCHANGED <<slot, shown, op, confirmed>> BY <1>17 DEF Rot
  <2>3. HandlerInv'
    BY <2>1, <2>2 DEF IInv, HandlerInv, Retirable
  <2> QED BY <1>0, <2>1, <2>2, <2>3, PublishKeeps
<1>18. CASE UNCHANGED vars
  BY <1>0, <1>18 DEF vars, IInv, RecordInv, HandlerInv, NamedRevisionsKept, Kept, Retirable,
     AlwaysARecord, DistinctGenerations
<1> QED
  BY <1>1, <1>2, <1>3, <1>4, <1>5, <1>6, <1>7, <1>8, <1>9, <1>10, <1>11, <1>12, <1>13,
     <1>14, <1>15, <1>16, <1>17, <1>18 DEF Next, Firmware, Environment, Activation

\* The strengthened invariant holds in every reachable state.
LEMMA Inductive == Spec => []IInv
<1>1. Init => IInv
  <2>1. Init => TypeOK
    BY ConstantTypes DEF Init, TypeOK, PublishedStates, StagedStates
  <2> QED BY <2>1 DEF Init, IInv, RecordInv, HandlerInv, NamedRevisionsKept, AlwaysARecord,
        DistinctGenerations, MissingRecord, Idle, Slots
<1> QED BY <1>1, IInvStep, PTL DEF Spec

\* Cleanup never touches a revision that an activation record names or that a page
\* is shown from, whatever crashes and storage faults happen
\* (ContentActiveStore.cpp retireRevision, PocketEndpoints.cpp retireContent).
THEOREM NamedRevisionsSurvive == Spec => []NamedRevisionsKept
<1>1. IInv => NamedRevisionsKept BY DEF IInv
<1> QED BY <1>1, Inductive, PTL

\* After the first confirmed activation the reader always has a record that no
\* write in progress can destroy (ContentActiveStore.cpp activate).
THEOREM RecordSurvives == Spec => []AlwaysARecord
<1>1. IInv => AlwaysARecord BY DEF IInv
<1> QED BY <1>1, Inductive, PTL

\* "Newest" is never decided by the tie rule of newest().
THEOREM GenerationsDiffer == Spec => []DistinctGenerations
<1>1. IInv => DistinctGenerations BY DEF IInv
<1> QED BY <1>1, Inductive, PTL

-------------------------------------------------------------------------------
(* What recovery selects.                                                    *)

Intact(s) == slot[s].kind = "valid" /\ slot[s].revision \in Revisions
             /\ published[slot[s].revision] = "complete"

\* Recovery selects something exactly when a valid record names an intact revision.
LEMMA SelectedExists == TypeOK => (SelectedSlot # NoSlot <=> \E s \in Slots : Intact(s))
<1> SUFFICES ASSUME TypeOK PROVE SelectedSlot # NoSlot <=> \E s \in Slots : Intact(s)
  OBVIOUS
<1> DEFINE S == {s \in ValidSlots([s \in Slots |-> slot[s].kind]) :
                   [t \in Slots |-> slot[t].revision \in Revisions
                                    /\ published[slot[t].revision] = "complete"][s]}
<1>1. S = {s \in Slots : Intact(s)}
  BY DEF ValidSlots, Intact
<1>2. SelectedSlot = Newest(S, Generations)
  BY DEF SelectedSlot, Recover
<1> HIDE DEF S
<1>3. S \in SUBSET Slots
  BY <1>1
<1>4. SelectedSlot = NoSlot <=> S = {}
  BY <1>2, <1>3, GenerationsType, NewestSlot
<1> QED BY <1>1, <1>4

\* The slot that is open for writing holds no record.
OpenedInv == op.step = "write" => slot[op.target].kind # "valid"

LEMMA OpenedStep ==
  ASSUME TypeOK, OpenedInv, [Next]_vars
  PROVE  OpenedInv'
<1>1. CASE ActivateOpen
  <2>1. PICK target \in Slots : /\ slot' = [slot EXCEPT ![target] = TornRecord]
                                /\ op'.target = target
    <3>1. PICK res \in ReadResults, v \in SlotVerdicts :
            LET protected == Recover(res, Generations, v)
                target    == TargetSlot(protected)
            IN /\ slot' = [slot EXCEPT ![target] = TornRecord]
               /\ op' = [op EXCEPT !.step = "write", !.target = target,
                                   !.generation = LatestGeneration(res) + 1,
                                   !.victim = Evicted(res, protected, target)]
      BY <1>1 DEF ActivateOpen
    <3>2. TargetSlot(Recover(res, Generations, v)) \in Slots
      BY DEF TargetSlot, Slots
    <3> QED BY <3>1, <3>2 DEF TypeOK, Ops
  <2> QED BY <2>1 DEF OpenedInv, TypeOK, TornRecord
<1>2. CASE ~ActivateOpen
  <2>1. op'.step = "write" => op' = op /\ op.step = "write" /\ slot' = slot
    <3>1. op \in Ops /\ \A s \in Steps : [op EXCEPT !.step = s].step = s
      BY DEF TypeOK, Ops
    <3>2. Idle.step = "idle" /\ \A s, r : [Idle EXCEPT !.step = s, !.revision = r].step = s
      BY DEF Idle
    <3>3. \/ op' = op /\ slot' = slot
          \/ op' = Idle
          \/ \E s \in Steps \ {"write"} : op' = [op EXCEPT !.step = s]
          \/ \E s \in Steps \ {"write"}, r \in Revisions : op' = [Idle EXCEPT !.step = s, !.revision = r]
          \/ op' = op /\ op.step = "remove"
      <4>1. CASE DedupeStep \/ DedupeFail \/ WriteRecord \/ ReadbackOk \/ RetireBegin \/ RemoveStep
        BY <4>1 DEF DedupeStep, DedupeFail, WriteRecord, ReadbackOk, RetireBegin, RemoveStep, Steps
      <4>2. CASE \/ ActivateRefuse \/ ActivateRepeat \/ ActivateOpenFail \/ WriteFail \/ ReadbackFail
                 \/ RetireRefuse \/ RemoveFail \/ Crash
        BY <4>2 DEF ActivateRefuse, ActivateRepeat, ActivateOpenFail, WriteFail, ReadbackFail,
                    RetireRefuse, RemoveFail, Crash
      <4>3. ASSUME NEW r \in Revisions, SealExisting(r) \/ SealMove(r)
            PROVE  \/ op' = Idle
                   \/ \E s \in Steps \ {"write"}, q \in Revisions :
                        op' = [Idle EXCEPT !.step = s, !.revision = q]
        BY <4>3 DEF SealExisting, SealMove, Steps
      <4>4. CASE Load \/ Draw \/ Turn \/ Hide \/ UNCHANGED vars
        BY <4>4 DEF Load, Draw, Turn, Hide, vars
      <4>5. ASSUME NEW r \in Revisions,
                   Prepare(r) \/ Present(r) \/ Rot(r) \/ \E state \in StagedStates : Upload(r, state)
            PROVE  op' = op /\ slot' = slot
        BY <4>5 DEF Prepare, Present, Rot, Upload
      <4> QED
        BY <1>2, <4>1, <4>2, <4>3, <4>4, <4>5 DEF Next, Firmware, Environment, Activation
    <3>4. \A s \in Steps : [op EXCEPT !.step = s].step = s
      BY <3>1
    <3>5. \A s \in Steps \ {"write"} : [op EXCEPT !.step = s].step # "write"
      BY <3>4
    <3>6. \A s \in Steps \ {"write"}, r \in Revisions :
            [Idle EXCEPT !.step = s, !.revision = r].step # "write"
      BY <3>2
    <3>7. CASE \E s \in Steps \ {"write"} : op' = [op EXCEPT !.step = s]
      BY <3>5, <3>7
    <3>8. CASE \E s \in Steps \ {"write"}, r \in Revisions :
                 op' = [Idle EXCEPT !.step = s, !.revision = r]
      BY <3>6, <3>8
    <3> QED
      BY <3>2, <3>3, <3>7, <3>8
  <2> QED BY <2>1 DEF OpenedInv
<1> QED BY <1>1, <1>2

LEMMA OpenedAlways == Spec => []OpenedInv
<1>1. Init => OpenedInv
  BY DEF Init, OpenedInv, Idle
<1>2. TypeOK /\ OpenedInv /\ [Next]_vars => OpenedInv'
  BY OpenedStep
<1> QED BY <1>1, <1>2, TypeCorrect, PTL DEF Spec

\* The recovered slot is left alone by the open, and without one no valid record is opened.
LEMMA OpenLeavesIntact ==
  ASSUME TypeOK, ActivateOpen, NEW s \in Slots, Intact(s)
  PROVE  \E t \in Slots : Intact(t)'
<1>1. PICK res \in ReadResults, v \in SlotVerdicts :
        LET protected == Recover(res, Generations, v)
            target    == TargetSlot(protected)
        IN /\ Writes(res, protected)
           /\ res[target] = "missing" => slot[target].kind = "missing"
           /\ slot' = [slot EXCEPT ![target] = TornRecord]
  BY DEF ActivateOpen
<1> DEFINE protected == Recover(res, Generations, v)
           target    == TargetSlot(protected)
<1>2. target \in Slots /\ published' = published
  BY DEF TargetSlot, Slots, ActivateOpen
<1>3. \A t \in Slots : t # target /\ Intact(t) => Intact(t)'
  BY <1>1, <1>2 DEF TypeOK, Intact
<1>4. CASE protected # NoSlot
  <2>1. protected \in Slots /\ Intact(protected)
    BY <1>4, RecoveredSound DEF Intact
  <2>2. protected # target
    BY <2>1 DEF TargetSlot, Slots
  <2> HIDE DEF protected, target
  <2> QED BY <1>3, <2>1, <2>2
<1>5. CASE protected = NoSlot
  <2>1. ValidSlots(res) = {}
    <3>1. ValidSlots(res) \in SUBSET Slots
      BY DEF ValidSlots
    <3>2. Latest(res) = NoSlot
      BY <1>1, <1>5 DEF Writes, Undecidable
    <3> QED BY <3>1, <3>2, GenerationsType, NewestSlot DEF Latest
  <2>2. res[s] = "missing"
    <3>1. res[s] \in {"valid", "missing", "failed"}
      BY ReadComplete DEF Intact
    <3>2. res[s] # "failed" /\ res[s] # "valid"
      BY <1>1, <2>1 DEF Writes, Unreadable, ValidSlots
    <3> QED BY <3>1, <3>2
  <2>3. s # target
    BY <1>1, <2>2 DEF Intact
  <2> QED BY <1>3, <2>3
<1> QED BY <1>4, <1>5

\* No step but the decay of an asset takes the last recoverable record away.
LEMMA IntactStep ==
  ASSUME IInv, OpenedInv, [Next]_vars, NEW s \in Slots, Intact(s), \A r \in Revisions : ~Rot(r)
  PROVE  \E t \in Slots : Intact(t)'
<1>0. TypeOK
  BY DEF IInv
<1>1. CASE ActivateOpen
  BY <1>0, <1>1, OpenLeavesIntact
<1>2. CASE WriteRecord
  <2>1. s # op.target
    BY <1>2 DEF WriteRecord, OpenedInv, Intact
  <2>2. slot'[s] = slot[s] /\ published' = published
    BY <1>0, <1>2, <2>1 DEF WriteRecord, TypeOK, Ops
  <2> QED BY <2>2 DEF Intact
<1>3. CASE RemoveStep
  <2>1. slot[s].revision # op.victim
    BY <1>3 DEF RemoveStep, IInv, HandlerInv, Retirable
  <2>2. slot' = slot /\ published'[slot[s].revision] = published[slot[s].revision]
    BY <1>0, <1>3, <2>1 DEF RemoveStep, TypeOK, Intact
  <2> QED BY <2>2 DEF Intact
<1>4. ASSUME NEW r \in Revisions, SealMove(r) PROVE \E t \in Slots : Intact(t)'
  <2>1. slot' = slot /\ published'[slot[s].revision] = published[slot[s].revision]
    BY <1>0, <1>4 DEF SealMove, TypeOK, Intact
  <2> QED BY <2>1 DEF Intact
<1>5. CASE UNCHANGED <<slot, published>>
  BY <1>5 DEF Intact
<1> QED
  <2>1. \/ ActivateOpen \/ WriteRecord \/ RemoveStep \/ (\E r \in Revisions : SealMove(r))
        \/ UNCHANGED <<slot, published>>
    BY DEF Next, Firmware, Environment, Activation, Upload, Prepare, SealExisting,
           DedupeStep, DedupeFail, ActivateRefuse, ActivateRepeat, ActivateOpenFail,
           WriteFail, ReadbackOk, ReadbackFail, RetireBegin, RetireRefuse, RemoveFail,
           Present, Load, Draw, Turn, Hide, Crash, vars
  <2> QED BY <1>1, <1>2, <1>3, <1>4, <1>5, <2>1

\* The store never goes from recoverable to unrecoverable by its own steps, even when
\* reads and verifications fail spuriously (ContentActiveStore.cpp activate).
THEOREM RecoverableStays == Spec => NeverUnselected
<1> DEFINE Lost == SelectedSlot # NoSlot /\ SelectedSlot' = NoSlot => \E r \in Revisions : Rot(r)
<1>1. IInv /\ IInv' /\ OpenedInv /\ [Next]_vars => [Lost]_vars
  <2> SUFFICES ASSUME IInv, IInv', OpenedInv, [Next]_vars,
                      SelectedSlot # NoSlot, SelectedSlot' = NoSlot,
                      \A r \in Revisions : ~Rot(r)
               PROVE  FALSE
    OBVIOUS
  <2>1. TypeOK /\ TypeOK'
    BY DEF IInv
  <2>2. PICK b \in Slots : Intact(b)
    BY <2>1, SelectedExists
  <2>3. \E t \in Slots : Intact(t)'
    BY <2>2, IntactStep
  <2>4. (TypeOK => (SelectedSlot # NoSlot <=> \E s \in Slots : Intact(s)))'
    BY SelectedExists, PTL
  <2> QED BY <2>1, <2>3, <2>4
<1> QED BY <1>1, Inductive, OpenedAlways, PTL DEF Spec, NeverUnselected

-------------------------------------------------------------------------------
(* The store as a selection register.  A register that never changes by       *)
(* itself cannot be promised of a card that reads wrongly without saying so:  *)
(* what is assumed is that failures show.                                     *)

Observable == RecordFaults \subseteq {"failed"} /\ ContentFaults = FALSE /\ Decay = FALSE

\* The slots with a valid record, and the newest of them.
Valid == {s \in Slots : slot[s].kind = "valid"}
Top   == Newest(Valid, Generations)

\* Nothing has decayed, and the write in progress carries the next generation.
SoundInv == \A r \in Revisions : published[r] # "rotten"
WritingInv ==
  /\ op.step = "write" =>
       op.revision # Selected.revision /\ op.generation = Selected.generation + 1
  /\ op.step = "readback" => Selected = [generation |-> op.generation, revision |-> op.revision]

LEMMA TopSlot ==
  IInv => /\ Top \in Valid \cup {NoSlot}
          /\ Top = NoSlot <=> Valid = {}
          /\ \A s \in Valid : slot[s].generation <= slot[Top].generation
<1> SUFFICES ASSUME IInv
             PROVE  /\ Top \in Valid \cup {NoSlot}
                    /\ Top = NoSlot <=> Valid = {}
                    /\ \A s \in Valid : slot[s].generation <= slot[Top].generation
  OBVIOUS
<1>1. Valid \in SUBSET Slots
  BY DEF Valid
<1>2. /\ Top \in Valid \cup {NoSlot}
      /\ Top = NoSlot <=> Valid = {}
      /\ \A s \in Valid : Generations[s] <= Generations[Top]
  BY <1>1, GenerationsType, NewestSlot DEF Top, IInv
<1> QED BY <1>1, <1>2 DEF Generations

\* Recovery selects the newest valid record: its revision is kept, and so intact.
LEMMA SelectedTop ==
  IInv /\ SoundInv =>
    /\ SelectedSlot = Top
    /\ Selected = IF Top = NoSlot THEN None
                  ELSE [generation |-> slot[Top].generation, revision |-> slot[Top].revision]
<1> SUFFICES ASSUME IInv, SoundInv
             PROVE  SelectedSlot = Top
  BY DEF Selected
<1> DEFINE S == {s \in ValidSlots([s \in Slots |-> slot[s].kind]) :
                   [t \in Slots |-> slot[t].revision \in Revisions
                                    /\ published[slot[t].revision] = "complete"][s]}
<1>1. \A s \in Valid : slot[s].revision \in Revisions /\ published[slot[s].revision] = "complete"
  BY DEF Valid, IInv, NamedRevisionsKept, Kept, SoundInv
<1>2. S = Valid
  BY <1>1 DEF ValidSlots, Valid
<1> QED BY <1>2 DEF SelectedSlot, Recover, Top

\* When no read failed, the handler has seen the card as it is.
LEMMA ReadsTrue ==
  ASSUME Observable, IInv, SoundInv, NEW res \in ReadResults, NEW v \in SlotVerdicts,
         ~Unreadable(res)
  PROVE  Recover(res, Generations, v) = Top /\ Latest(res) = Top
<1>1. ValidSlots(res) = Valid
  <2>1. \A s \in Slots : res[s] = IF slot[s].kind = "torn" THEN "invalid" ELSE slot[s].kind
    BY DEF Observable, ReadResults, ReadResult, Unreadable
  <2> QED BY <2>1 DEF ValidSlots, Valid, IInv, TypeOK, Records
<1>2. \A s \in Valid : v[s]
  <2>1. \A s \in Valid : slot[s].revision \in Revisions /\ published[slot[s].revision] = "complete"
    BY DEF Valid, IInv, NamedRevisionsKept, Kept, SoundInv
  <2>2. \A s \in Valid : Verdicts(slot[s].revision) = {TRUE}
    BY <2>1 DEF Verdicts, Observable
  <2> QED BY <2>2 DEF SlotVerdicts, Valid
<1>3. {s \in ValidSlots(res) : v[s]} = Valid
  BY <1>1, <1>2
<1> QED BY <1>1, <1>3 DEF Recover, Latest, Top

\* What is selected is a matter of the records alone.
LEMMA SelectedSame ==
  ASSUME IInv, SoundInv, IInv', SoundInv', slot' = slot
  PROVE  Selected' = Selected
<1>1. (IInv /\ SoundInv =>
         /\ SelectedSlot = Top
         /\ Selected = IF Top = NoSlot THEN None
                       ELSE [generation |-> slot[Top].generation, revision |-> slot[Top].revision])'
  BY SelectedTop, PTL
<1>2. Top' = Top
  BY DEF Top, Valid, Generations
<1> QED BY <1>1, <1>2, SelectedTop DEF None

LEMMA SoundStep ==
  ASSUME Observable, TypeOK, SoundInv, [Next]_vars
  PROVE  SoundInv'
<1>1. CASE RemoveStep
  <2>1. Removed(published[op.victim]) # "rotten"
    BY ConstantTypes
  <2> QED BY <1>1, <2>1 DEF RemoveStep, SoundInv, TypeOK
<1>2. ASSUME NEW r \in Revisions, SealMove(r) PROVE SoundInv'
  BY <1>2 DEF SealMove, SoundInv, TypeOK
<1>3. CASE UNCHANGED published
  BY <1>3 DEF SoundInv
<1> QED
  <2>1. \A r \in Revisions : ~Rot(r)
    BY DEF Rot, Observable
  <2>2. RemoveStep \/ (\E r \in Revisions : SealMove(r)) \/ UNCHANGED published
    BY <2>1 DEF Next, Firmware, Environment, Activation, Upload, Prepare, SealExisting,
           DedupeStep, DedupeFail, ActivateRefuse, ActivateRepeat, ActivateOpen, ActivateOpenFail,
           WriteRecord, WriteFail, ReadbackOk, ReadbackFail, RetireBegin, RetireRefuse, RemoveFail,
           Present, Load, Draw, Turn, Hide, Crash, vars
  <2> QED BY <1>1, <1>2, <1>3, <2>2

\* Only the open and the write make a handler that writes or reads back.
LEMMA WritingSteps ==
  ASSUME TypeOK, [Next]_vars, ~ActivateOpen, ~WriteRecord
  PROVE  slot' = slot /\ (op'.step \in {"write", "readback"} => op' = op)
<1>1. \A s \in Steps : [op EXCEPT !.step = s].step = s
  BY DEF TypeOK, Ops
<1>2. Idle.step = "idle" /\ \A s, r : [Idle EXCEPT !.step = s, !.revision = r].step = s
  BY DEF Idle
<1>3. CASE DedupeStep \/ DedupeFail \/ ReadbackOk \/ RetireBegin \/ RemoveStep
  <2>1. /\ slot' = slot
        /\ op' = op \/ op' = Idle \/ \E s \in {"activate", "retire", "remove"} : op' = [op EXCEPT !.step = s]
    BY <1>3 DEF DedupeStep, DedupeFail, ReadbackOk, RetireBegin, RemoveStep
  <2>2. \A s \in {"activate", "retire", "remove"} : [op EXCEPT !.step = s].step \notin {"write", "readback"}
    BY <1>1 DEF Steps
  <2>3. CASE \E s \in {"activate", "retire", "remove"} : op' = [op EXCEPT !.step = s]
    BY <2>1, <2>2, <2>3
  <2> QED BY <1>2, <2>1, <2>3
<1>4. CASE \/ ActivateRefuse \/ ActivateRepeat \/ ActivateOpenFail \/ WriteFail \/ ReadbackFail
           \/ RetireRefuse \/ RemoveFail \/ Crash
  <2>1. slot' = slot /\ op' = Idle
    BY <1>4 DEF ActivateRefuse, ActivateRepeat, ActivateOpenFail, WriteFail, ReadbackFail,
                RetireRefuse, RemoveFail, Crash
  <2> QED BY <1>2, <2>1
<1>5. ASSUME NEW r \in Revisions, SealExisting(r) \/ SealMove(r)
      PROVE  slot' = slot /\ op'.step \notin {"write", "readback"}
  <2>1. /\ slot' = slot
        /\ op' = Idle \/ \E s \in {"dedupe", "activate"} : op' = [Idle EXCEPT !.step = s, !.revision = r]
    BY <1>5 DEF SealExisting, SealMove
  <2>2. \A s \in {"dedupe", "activate"} : [Idle EXCEPT !.step = s, !.revision = r].step = s
    BY <1>2
  <2>3. CASE \E s \in {"dedupe", "activate"} : op' = [Idle EXCEPT !.step = s, !.revision = r]
    BY <2>1, <2>2, <2>3
  <2> QED BY <1>2, <2>1, <2>3
<1>6. CASE Load \/ Draw \/ Turn \/ Hide \/ UNCHANGED vars
  BY <1>6 DEF Load, Draw, Turn, Hide, vars
<1>7. ASSUME NEW r \in Revisions,
             Prepare(r) \/ Present(r) \/ Rot(r) \/ \E state \in StagedStates : Upload(r, state)
      PROVE  op' = op /\ slot' = slot
  BY <1>7 DEF Prepare, Present, Rot, Upload
<1> QED
  BY <1>3, <1>4, <1>5, <1>6, <1>7 DEF Next, Firmware, Environment, Activation

\* The open takes the slot that is not selected; the record to be written is the next one.
LEMMA OpenSelects ==
  ASSUME Observable, IInv, SoundInv, IInv', SoundInv', ActivateOpen
  PROVE  Selected' = Selected /\ WritingInv'
<1>1. PICK res \in ReadResults, v \in SlotVerdicts :
        LET protected == Recover(res, Generations, v)
            target    == TargetSlot(protected)
        IN /\ Writes(res, protected)
           /\ slot' = [slot EXCEPT ![target] = TornRecord]
           /\ op' = [op EXCEPT !.step = "write", !.target = target,
                               !.generation = LatestGeneration(res) + 1,
                               !.victim = Evicted(res, protected, target)]
  BY DEF ActivateOpen
<1> DEFINE target == TargetSlot(Top)
<1>2. Recover(res, Generations, v) = Top /\ Latest(res) = Top
  BY <1>1, ReadsTrue DEF Writes
<1>3. /\ slot' = [slot EXCEPT ![target] = TornRecord] /\ target \in Slots
      /\ op'.step = "write" /\ op'.revision = op.revision /\ op'.target = target
      /\ op'.generation = LatestGeneration(res) + 1
      /\ ~Repeated(Top) /\ op.revision \in Revisions
  BY <1>1, <1>2 DEF IInv, TypeOK, Ops, Writes, TargetSlot, Slots, HandlerInv, ActivateOpen
<1>4. /\ Top \in Valid \cup {NoSlot} /\ (Top = NoSlot <=> Valid = {})
      /\ \A s \in Valid : slot[s].generation <= slot[Top].generation
  BY TopSlot
<1>5. Valid' \subseteq Valid /\ (Top # NoSlot => Top \in Valid' /\ slot'[Top] = slot[Top])
      /\ \A s \in Valid' : slot'[s] = slot[s]
  <2>1. Top # NoSlot => Top \in Slots /\ Top # target
    BY <1>4 DEF Valid, TargetSlot, Slots
  <2>2. \A s \in Slots : s # target => slot'[s] = slot[s]
    BY <1>3 DEF IInv, TypeOK
  <2>3. slot'[target].kind # "valid"
    BY <1>3 DEF IInv, TypeOK, TornRecord
  <2> HIDE DEF target
  <2>4. \A s \in Valid' : s # target /\ s \in Slots
    BY <2>3 DEF Valid
  <2> QED BY <1>4, <2>1, <2>2, <2>4 DEF Valid
<1>6. Top' = Top
  <2>1. (IInv => /\ Top \in Valid \cup {NoSlot}
                 /\ Top = NoSlot <=> Valid = {}
                 /\ \A s \in Valid : slot[s].generation <= slot[Top].generation)'
    BY TopSlot, PTL
  <2>2. CASE Top = NoSlot
    BY <1>4, <1>5, <2>1, <2>2
  <2>3. CASE Top # NoSlot
    <3>1. Top \in Valid' /\ Top' \in Valid' /\ Top' \in Valid
      BY <1>4, <1>5, <2>1, <2>3
    <3>2. slot[Top].generation <= slot[Top'].generation /\ slot[Top'].generation <= slot[Top].generation
      BY <1>4, <1>5, <2>1, <3>1
    <3>3. /\ Top \in Slots /\ Top' \in Slots
          /\ slot[Top].kind = "valid" /\ slot[Top'].kind = "valid"
          /\ slot[Top].generation \in Nat /\ slot[Top'].generation \in Nat
      BY <1>4, <2>3, <3>1, MaxGenerationAssumption DEF Valid, IInv, TypeOK, Records
    <3>4. slot[Top].generation = slot[Top'].generation
      BY <3>2, <3>3
    <3> QED BY <3>3, <3>4 DEF IInv, DistinctGenerations, Slots
  <2> QED BY <2>2, <2>3
<1>7. (IInv /\ SoundInv =>
         /\ SelectedSlot = Top
         /\ Selected = IF Top = NoSlot THEN None
                       ELSE [generation |-> slot[Top].generation, revision |-> slot[Top].revision])'
  BY SelectedTop, PTL
<1>8. Selected' = Selected
  BY <1>5, <1>6, <1>7, SelectedTop DEF None
<1>9. Selected.generation = LatestGeneration(res)
  BY <1>2, SelectedTop DEF LatestGeneration, None
<1>10. op.revision # Selected.revision
  BY <1>3, SelectedTop, NoRevisionAssumption DEF NoRevisionAssumption, Repeated, None
<1>11. WritingInv'
  BY <1>3, <1>8, <1>9, <1>10 DEF WritingInv
<1> QED BY <1>8, <1>11

\* The write is the commit: its record is the newest one from then on.
LEMMA WriteCommits ==
  ASSUME IInv, SoundInv, OpenedInv, WritingInv, IInv', SoundInv', WriteRecord
  PROVE  Register!Commit(op.revision) /\ WritingInv' /\ op.revision \in Revisions
<1> DEFINE new == Record(op.generation, op.revision)
<1>1. /\ op.step = "write" /\ op.target \in Slots /\ op.revision \in Revisions
      /\ slot'[op.target] = new /\ \A s \in Slots : s # op.target => slot'[s] = slot[s]
      /\ op'.step = "readback" /\ op'.target = op.target /\ op'.generation = op.generation
      /\ op'.revision = op.revision /\ confirmed' = confirmed
  BY DEF WriteRecord, IInv, TypeOK, Ops, HandlerInv, Steps
<1>2. new.kind = "valid" /\ new.generation = op.generation /\ new.revision = op.revision
  BY DEF Record
<1> HIDE DEF new
<1>3. op.generation = Selected.generation + 1 /\ op.revision # Selected.revision
      /\ op.target \notin Valid
  BY <1>1 DEF WritingInv, OpenedInv, Valid
<1>4. /\ Top \in Valid \cup {NoSlot} /\ (Top = NoSlot <=> Valid = {})
      /\ \A s \in Valid : slot[s].generation <= slot[Top].generation
  BY TopSlot
<1>5. \A s \in Valid : slot[s].generation < op.generation
  <2>1. SUFFICES ASSUME NEW s \in Valid PROVE slot[s].generation < op.generation
    OBVIOUS
  <2>2. Top \in Valid /\ Top # NoSlot
    BY <1>4
  <2>3. Selected.generation = slot[Top].generation
    BY <2>2, SelectedTop
  <2>4. slot[s].generation \in Nat /\ slot[Top].generation \in Nat
    BY <2>2, MaxGenerationAssumption DEF Valid, IInv, TypeOK, Records
  <2>5. slot[s].generation <= slot[Top].generation
    BY <1>4
  <2> QED BY <1>3, <2>3, <2>4, <2>5
<1>6. op.target \in Valid' /\ Valid' \subseteq Valid \cup {op.target}
  BY <1>1, <1>2 DEF Valid
<1>7. Top' = op.target
  <2>1. (IInv => /\ Top \in Valid \cup {NoSlot}
                 /\ Top = NoSlot <=> Valid = {}
                 /\ \A s \in Valid : slot[s].generation <= slot[Top].generation)'
    BY TopSlot, PTL
  <2>2. Top' \in Valid' /\ slot'[op.target].generation <= slot'[Top'].generation
    BY <1>6, <2>1
  <2>3. SUFFICES ASSUME Top' # op.target PROVE FALSE
    OBVIOUS
  <2>4. Top' \in Valid /\ Top' \in Slots /\ slot'[Top'] = slot[Top']
    BY <1>1, <1>6, <2>2, <2>3 DEF Valid
  <2>5. op.generation <= slot[Top'].generation /\ slot[Top'].generation < op.generation
    BY <1>1, <1>2, <1>5, <2>2, <2>4
  <2>6. op.generation \in Nat /\ slot[Top'].generation \in Nat
    BY <2>4, MaxGenerationAssumption DEF IInv, TypeOK, Ops, Records
  <2> QED BY <2>5, <2>6
<1>8. (IInv /\ SoundInv =>
         /\ SelectedSlot = Top
         /\ Selected = IF Top = NoSlot THEN None
                       ELSE [generation |-> slot[Top].generation, revision |-> slot[Top].revision])'
  BY SelectedTop, PTL
<1>9. Selected' = [generation |-> op.generation, revision |-> op.revision]
  <2>1. Top' # NoSlot
    BY <1>1, <1>7 DEF Slots, NoSlot
  <2> QED BY <1>1, <1>2, <1>7, <1>8, <2>1
<1>10. Register!Commit(op.revision)
  BY <1>1, <1>3, <1>9 DEF Register!Commit
<1>11. WritingInv'
  BY <1>1, <1>9 DEF WritingInv
<1> QED BY <1>1, <1>10, <1>11

\* An activation that returns Ok names what is selected.
LEMMA OkConfirms ==
  ASSUME Observable, IInv, SoundInv, WritingInv, ReadbackOk \/ ActivateRepeat, Selected' = Selected
  PROVE  Register!Confirm
<1>1. op.revision \in Revisions
  BY DEF ReadbackOk, ActivateRepeat, IInv, HandlerInv
<1>2. confirmed' = Selected /\ Selected.revision = op.revision
  <2>1. CASE ReadbackOk
    BY <2>1 DEF ReadbackOk, WritingInv
  <2>2. CASE ActivateRepeat
    <3>1. PICK res \in ReadResults, v \in SlotVerdicts :
            LET protected == Recover(res, Generations, v) IN
              /\ ~Unreadable(res)
              /\ Repeated(protected)
              /\ confirmed' = [generation |-> slot[protected].generation, revision |-> op.revision]
      BY <2>2 DEF ActivateRepeat
    <3>2. Recover(res, Generations, v) = Top
      BY <3>1, ReadsTrue
    <3>3. Top # NoSlot /\ slot[Top].revision = op.revision
          /\ confirmed' = [generation |-> slot[Top].generation, revision |-> op.revision]
      BY <3>1, <3>2 DEF Repeated
    <3> QED BY <3>3, SelectedTop
  <2> QED BY <2>1, <2>2
<1>3. Selected # Register!None
  BY <1>1, <1>2, NoRevisionAssumption DEF NoRevisionAssumption, Register!None
<1> QED BY <1>2, <1>3 DEF Register!Confirm

RegisterInv == IInv /\ OpenedInv /\ SoundInv /\ WritingInv

\* Every step of the store commits, confirms, or is no step of the register.
LEMMA RegisterStep ==
  ASSUME Observable, RegisterInv, IInv', OpenedInv', [Next]_vars
  PROVE  RegisterInv' /\ [Register!Next]_<<Selected, confirmed>>
<1>1. IInv /\ SoundInv /\ WritingInv /\ OpenedInv /\ SoundInv'
  BY SoundStep DEF RegisterInv, IInv
<1>2. CASE ActivateOpen
  <2>1. Selected' = Selected /\ WritingInv' /\ confirmed' = confirmed
    BY <1>1, <1>2, OpenSelects DEF ActivateOpen
  <2> QED BY <1>1, <2>1 DEF RegisterInv
<1>3. CASE WriteRecord
  <2>1. Register!Commit(op.revision) /\ WritingInv' /\ op.revision \in Revisions
    BY <1>1, <1>3, WriteCommits
  <2> QED BY <1>1, <2>1 DEF RegisterInv, Register!Next
<1>4. CASE ~ActivateOpen /\ ~WriteRecord
  <2>1. slot' = slot /\ (op'.step \in {"write", "readback"} => op' = op)
    BY <1>1, <1>4, WritingSteps DEF IInv
  <2>2. Selected' = Selected
    BY <1>1, <2>1, SelectedSame
  <2>3. WritingInv'
    BY <1>1, <2>1, <2>2 DEF WritingInv
  <2>4. CASE ReadbackOk \/ ActivateRepeat
    BY <1>1, <2>2, <2>3, <2>4, OkConfirms DEF RegisterInv, Register!Next
  <2>5. CASE confirmed' = confirmed
    BY <1>1, <2>2, <2>3, <2>5 DEF RegisterInv
  <2>6. ReadbackOk \/ ActivateRepeat \/ confirmed' = confirmed
    BY DEF Next, Firmware, Environment, Activation, Upload, Prepare, SealExisting, SealMove,
           DedupeStep, DedupeFail, ActivateRefuse, ActivateOpen, ActivateOpenFail, WriteRecord,
           WriteFail, ReadbackFail, RetireBegin, RetireRefuse, RemoveStep, RemoveFail,
           Present, Load, Draw, Turn, Hide, Crash, Rot, vars
  <2> QED BY <2>4, <2>5, <2>6
<1> QED BY <1>2, <1>3, <1>4

LEMMA RegisterStarts == Init => SoundInv /\ WritingInv /\ Register!Init
<1> SUFFICES ASSUME Init PROVE SoundInv /\ WritingInv /\ Register!Init
  OBVIOUS
<1>1. TypeOK /\ SoundInv /\ WritingInv
  BY ConstantTypes DEF Init, TypeOK, PublishedStates, StagedStates, SoundInv, WritingInv, Idle
<1>2. \A s \in Slots : ~Intact(s)
  BY DEF Init, Intact, MissingRecord
<1>3. Selected = None
  BY <1>1, <1>2, SelectedExists DEF Selected
<1> QED BY <1>1, <1>3 DEF Init, Register!Init, None, Register!None

\* When failures show, the store is one selection register: what is selected changes only
\* by the write of a complete record with the next generation, whatever crashes come
\* between, and only what is selected is ever confirmed (ContentActiveStore.cpp activate).
THEOREM StoreIsRegister ==
  ASSUME Observable
  PROVE  Spec => ImplementsRegister
<1>1. RegisterInv /\ IInv' /\ OpenedInv' /\ [Next]_vars
        => RegisterInv' /\ [Register!Next]_<<Selected, confirmed>>
  BY RegisterStep
<1> QED BY <1>1, RegisterStarts, Inductive, OpenedAlways, PTL
        DEF Spec, RegisterInv, ImplementsRegister, Register!Spec
===============================================================================
