-------------------------- MODULE OtaSelectorProofs ---------------------------
(***************************************************************************)
(* What switchTo() promises, for any number of switches and any sequence of *)
(* failures and power losses.                                               *)
(***************************************************************************)
EXTENDS OtaSelector, TLAPS

\* A switch in progress works on the sector that is not in force, with the next
\* number of its partition; once erased, that sector holds nothing.
SwitchInv ==
  switch.step # "none" =>
    /\ switch.target = TargetSlot
    /\ switch.seq = NextSeq(switch.dest)
    /\ switch.step = "write" => entry[switch.target] = 0

IInv == SelectorTypeOK /\ SwitchInv

\* A number of NextSeq is higher than every number in force, and stands for its partition.
LEMMA NextStands ==
  ASSUME entry \in [Slots -> Nat], NEW dest \in Slots
  PROVE  /\ NextSeq(dest) \in Nat
         /\ NextSeq(dest) > entry[0] /\ NextSeq(dest) > entry[1]
         /\ (NextSeq(dest) - 1) % 2 = dest
  BY DEF NextSeq, ActiveSeq, Slots

\* Invalidating the sector that is not in force changes neither the number in force
\* nor the choice of that sector.
LEMMA EraseHarmless ==
  ASSUME entry \in [Slots -> Nat], entry' = [entry EXCEPT ![TargetSlot] = 0]
  PROVE  ActiveSeq' = ActiveSeq /\ TargetSlot' = TargetSlot
  BY DEF TargetSlot, ActiveSeq, Slots

\* Writing the next number there puts it in force.
LEMMA WriteSelects ==
  ASSUME entry \in [Slots -> Nat], NEW dest \in Slots,
         entry' = [entry EXCEPT ![TargetSlot] = NextSeq(dest)]
  PROVE  Selected' = dest
<1>1. /\ NextSeq(dest) \in Nat
      /\ NextSeq(dest) > entry[0] /\ NextSeq(dest) > entry[1]
      /\ (NextSeq(dest) - 1) % 2 = dest
  BY NextStands
<1>2. TargetSlot \in Slots
  BY DEF TargetSlot, Slots
<1>3. ActiveSeq' = NextSeq(dest)
  BY <1>1, <1>2 DEF ActiveSeq, Slots
<1>4. QED
  BY <1>1, <1>3 DEF Selected

LEMMA InitEstablishes == SelectorInit => IInv
  BY DEF SelectorInit, IInv, SelectorTypeOK, SwitchInv, NoSwitch, Slots

\* Every step keeps the invariant; a failure leaves the sector in one of three states.
LEMMA StepKeeps == IInv /\ [SelectorNext]_selectorVars => IInv'
<1> SUFFICES ASSUME IInv, [SelectorNext]_selectorVars
             PROVE  IInv'
  OBVIOUS
<1> USE DEF IInv, SelectorTypeOK
<1>1. CASE UNCHANGED selectorVars
  BY <1>1 DEF selectorVars, SwitchInv, TargetSlot, NextSeq, ActiveSeq
<1>2. ASSUME NEW dest \in Slots, SwitchBegin(dest)
      PROVE  IInv'
  <2>1. NextSeq(dest) \in Nat /\ TargetSlot \in Slots
    BY NextStands DEF TargetSlot, Slots
  <2>2. SelectorTypeOK'
    BY <1>2, <2>1 DEF SwitchBegin
  <2>3. SwitchInv'
    BY <1>2 DEF SwitchBegin, SwitchInv, TargetSlot, NextSeq, ActiveSeq
  <2>4. QED
    BY <2>2, <2>3
<1>3. CASE SwitchErase
  <2>1. switch.target = TargetSlot /\ switch.seq = NextSeq(switch.dest)
    BY <1>3 DEF SwitchErase, SwitchInv
  <2>2. ActiveSeq' = ActiveSeq /\ TargetSlot' = TargetSlot
    BY <1>3, <2>1, EraseHarmless DEF SwitchErase
  <2>3. SelectorTypeOK'
    BY <1>3 DEF SwitchErase
  <2>4. SwitchInv'
    BY <1>3, <2>1, <2>2 DEF SwitchErase, SwitchInv, NextSeq
  <2>5. QED
    BY <2>3, <2>4
<1>4. CASE SwitchWrite
  BY <1>4 DEF SwitchWrite, SwitchInv, NoSwitch, Slots
<1>5. CASE SwitchCut
  BY <1>5 DEF SwitchCut, SwitchInv, NoSwitch, Slots
<1>6. QED
  BY <1>1, <1>2, <1>3, <1>4, <1>5 DEF SelectorNext

\* A step that moves the selection completes the write of the switch in progress.
LEMMA StepMoves ==
  ASSUME IInv, [SelectorNext]_selectorVars, Selected' # Selected
  PROVE  switch.step = "write" /\ Selected' = switch.dest
<1> USE DEF IInv, SelectorTypeOK
<1>1. entry' # entry
  BY DEF Selected, ActiveSeq
<1>2. /\ SwitchErase \/ SwitchWrite \/ SwitchCut
      /\ switch.step # "none"
  BY <1>1 DEF SelectorNext, selectorVars, SwitchBegin, SwitchErase, SwitchWrite, SwitchCut
<1>3. switch.target = TargetSlot /\ switch.seq = NextSeq(switch.dest)
  BY <1>2 DEF SwitchInv
<1>4. entry' = [entry EXCEPT ![TargetSlot] = 0] => Selected' = Selected
  BY EraseHarmless DEF Selected
<1>5. entry' = [entry EXCEPT ![TargetSlot] = NextSeq(switch.dest)] => Selected' = switch.dest
  BY WriteSelects
<1>6. [entry EXCEPT ![TargetSlot] = entry[TargetSlot]] = entry
  BY DEF TargetSlot, Slots
<1>7. CASE SwitchErase
  BY <1>3, <1>4, <1>7 DEF SwitchErase
<1>8. CASE SwitchWrite
  BY <1>3, <1>5, <1>8 DEF SwitchWrite
<1>9. CASE SwitchCut
  BY <1>1, <1>3, <1>4, <1>5, <1>6, <1>9 DEF SwitchCut
<1>10. QED
  BY <1>2, <1>7, <1>8, <1>9

\* The two sectors and the switch in progress keep their types, and a switch always
\* works on the sector that is not in force.
THEOREM SelectorCorrect == SelectorSpec => []IInv
<1>1. SelectorSpec => []IInv
  BY InitEstablishes, StepKeeps, PTL DEF SelectorSpec
<1>2. QED
  BY <1>1

\* switchTo() moves the selection by its write alone and only to the requested
\* partition: no interruption, at any moment, selects anything else.
THEOREM SelectionSafe == SelectorSpec => SelectionMoves
<1>1. IInv /\ [SelectorNext]_selectorVars =>
        [Selected' # Selected => switch.step = "write" /\ Selected' = switch.dest]_selectorVars
  BY StepMoves
<1>2. QED
  BY <1>1, SelectorCorrect, PTL DEF SelectorSpec, SelectionMoves
===============================================================================
