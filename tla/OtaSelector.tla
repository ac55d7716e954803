----------------------------- MODULE OtaSelector ------------------------------
(***************************************************************************)
(* Which of the two app partitions boots next (network/OtaBootSwitch.cpp):  *)
(* two sectors of otadata hold a sequence number each, and switchTo()       *)
(* erases the one that is not in force and writes a higher number to it.    *)
(* Power can be lost between, or inside, its two flash operations.          *)
(***************************************************************************)
EXTENDS Integers

Slots == {0, 1}        \* the two sectors, and the two app partitions

VARIABLES
  entry,     \* the sequence number of each sector; 0: erased or not valid
  switch     \* the switchTo() in progress

selectorVars == <<entry, switch>>

NoSwitch == [step |-> "none", dest |-> 0, target |-> 0, seq |-> 0]

SelectorTypeOK ==
  /\ entry \in [Slots -> Nat]
  /\ switch \in [step : {"none", "erase", "write"}, dest : Slots, target : Slots, seq : Nat]

\* Neither sector is written yet, or the first one, or each has been in turn.
SelectorInit ==
  /\ entry \in {[s \in Slots |-> 0], [s \in Slots |-> 1 - s], [s \in Slots |-> s + 1]}
  /\ switch = NoSwitch

\* The highest sequence number in force, 0 when no sector is valid.
ActiveSeq == IF entry[0] >= entry[1] THEN entry[0] ELSE entry[1]

\* Mutant: the entry that is in force is written over.
TargetInForce == IF entry[0] >= entry[1] /\ entry[0] # 0 THEN 0 ELSE 1
\* The sector that is not in force; the first when neither is.
TargetSlot == IF entry[0] >= entry[1] /\ entry[0] # 0 THEN 1 ELSE 0

\* The smallest higher number that stands for partition dest.
NextSeq(dest) == IF ActiveSeq % 2 = dest THEN ActiveSeq + 1 ELSE ActiveSeq + 2

\* External: the bootloader takes the partition of the highest valid entry, the
\* first one when there is none.
Selected == IF ActiveSeq = 0 THEN 0 ELSE (ActiveSeq - 1) % 2

-------------------------------------------------------------------------------

SwitchBegin(dest) ==
  /\ switch.step = "none"
  /\ switch' = [step |-> "erase", dest |-> dest, target |-> TargetSlot, seq |-> NextSeq(dest)]
  /\ UNCHANGED entry

SwitchErase ==
  /\ switch.step = "erase"
  /\ entry' = [entry EXCEPT ![switch.target] = 0]
  /\ switch' = [switch EXCEPT !.step = "write"]

SwitchWrite ==
  /\ switch.step = "write"
  /\ entry' = [entry EXCEPT ![switch.target] = switch.seq]
  /\ switch' = NoSwitch

\* The operation in progress ends early, by a failure or by power loss; its
\* sector keeps the old bits, holds neither, or already holds the new ones.
SwitchCut ==
  /\ switch.step # "none"
  /\ \E left \in {entry[switch.target], 0}
                   \cup (IF switch.step = "write" THEN {switch.seq} ELSE {}) :
       entry' = [entry EXCEPT ![switch.target] = left]
  /\ switch' = NoSwitch

SelectorNext ==
  \/ \E dest \in Slots : SwitchBegin(dest)
  \/ SwitchErase \/ SwitchWrite \/ SwitchCut

SelectorSpec == SelectorInit /\ [][SelectorNext]_selectorVars

\* The selection only ever moves by the write of a switchTo(), and only to the
\* partition that was asked for: an erase, a failure or a power loss at any moment
\* leaves the old partition or the new one selected (OtaBootSwitch.cpp, "Write to
\* the OTHER slot").
SelectionMoves ==
  [][Selected' # Selected => switch.step = "write" /\ Selected' = switch.dest]_selectorVars
===============================================================================
