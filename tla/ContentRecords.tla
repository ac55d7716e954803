---------------------------- MODULE ContentRecords ----------------------------
(***************************************************************************)
(* The two activation-record slots of the content store and the rules that *)
(* choose between them (ContentActiveStore.cpp).  No state: the operators  *)
(* take what readRecord() returned for each slot, the generations it read  *)
(* and the verdict of verifyRevision() on each recorded revision.          *)
(***************************************************************************)
EXTENDS Integers

Slots  == {0, 1}
NoSlot == -1          \* newest() and recover() return -1 when nothing qualifies

\* The other slot of the pair.
Peer(s) == 1 - s

\* newest() over the slots in S: slot 1 only when it is the only candidate or
\* strictly newer, so a tie goes to slot 0.
Newest(S, generation) ==
  IF S = {} THEN NoSlot
  ELSE IF 1 \in S /\ (0 \notin S \/ generation[1] > generation[0]) THEN 1 ELSE 0

\* The slots whose read returned a valid record.
ValidSlots(result) == {s \in Slots : result[s] = "valid"}

\* recover() without a card snapshot: the newest valid record, or the other one
\* when the revision of the newest does not verify.
Recover(result, generation, verified) ==
  Newest({s \in ValidSlots(result) : verified[s]}, generation)

\* Mutant of TargetSlot: the recovered slot is overwritten.
TargetRecovered(protected) == IF protected = 0 THEN 0 ELSE 1

\* activate() preserves the recovered slot and overwrites the other; with nothing
\* recovered it writes slot 0.
TargetSlot(protected) == IF protected = 0 THEN 1 ELSE 0
===============================================================================
