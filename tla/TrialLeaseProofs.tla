--------------------------- MODULE TrialLeaseProofs ---------------------------
(***************************************************************************)
(* What a trial lease promises, for any number of leases and disturbances   *)
(* and every set of faults.  The lease uses the selector only through       *)
(* switchTo(), so what is proved of the selector holds of the composition.  *)
(***************************************************************************)
EXTENDS TrialLease, OtaSelectorProofs

\* start-up works for a lease whose trial partition is running.
Recovering == stage \in {"check", "arm", "recover"} \/ (stage = "switch" /\ job = "return")

StageInv ==
  /\ switch.step # "none" <=> stage = "switch"
  /\ stage = "switch" => job # "none"
  /\ stage \in {"flash", "copy"} => job \in {"install", "update"}
  /\ stage \in {"off", "boot"} => cur = NoRecord
  /\ Recovering => cur \in Leases /\ cur.ret = other

\* The deadline is armed only once the return image was found intact and the lease
\* is on record as Running, and no copy begins while it is.
GuardInv ==
  /\ trialActive => stage = "up" /\ image[other] = "dev"
  /\ stage = "arm" => image[other] = "dev"
  /\ trialActive \/ stage = "arm" => record.phase = "Running"

\* NeverUnbounded, at every stage at which an earlier one may continue.
BoundInv ==
  /\ stage \in {"up", "flash", "copy", "verify", "restore", "cancel"}
       \/ (stage = "switch" /\ job # "return")
  /\ LeasePending(record.phase) /\ running # record.ret /\ ~trialActive
  => cur.phase = "Failed" \/ cur.failure = "Selection"

TrialInv == TypeOK /\ SwitchInv /\ StageInv /\ GuardInv /\ BoundInv

LEMMA SelectedSlot == ASSUME entry \in [Slots -> Nat] PROVE Selected \in Slots
  BY DEF Selected, ActiveSeq, Slots

LEMMA NoRecordTyped ==
  /\ NoRecord \in Records /\ NoRecord \notin Leases
  /\ NoRecord.run = 0 /\ NoRecord.phase = "Failed"
  BY DEF Records, NoRecord, Leases

LEMMA RecordFields ==
  ASSUME NEW r \in Records
  PROVE  /\ r # NoRecord => r \in Leases
         /\ r.run \in 0 .. MaxRuns /\ r.ret \in Slots
  BY BoundsAssumption DEF Records, NoRecord, Leases, Slots

LEMMA UpsetTyped ==
  ASSUME upsets \in 0 .. MaxUpsets, NEW k, Upset(k)
  PROVE  upsets' \in 0 .. MaxUpsets
  BY BoundsAssumption DEF Upset

LEMMA DownTyped ==
  ASSUME NEW why \in {"power", "sw", "panic", "timer", "button"}, running \in Slots, Down(why)
  PROVE  /\ stage' \in Stages /\ running' \in Slots
         /\ reset' \in {"power", "sw", "panic", "timer", "button"}
         /\ job' = "none" /\ cur' \in Records
         /\ trialActive' \in BOOLEAN /\ deadlineExit' \in BOOLEAN
  BY NoRecordTyped DEF Down, Stages

LEMMA ExpireTyped ==
  ASSUME TypeOK, Expire
  PROVE  /\ stage' \in Stages /\ running' \in Slots
         /\ reset' \in {"power", "sw", "panic", "timer", "button"}
         /\ job' = "none" /\ cur' \in Records
         /\ trialActive' \in BOOLEAN /\ deadlineExit' \in BOOLEAN
         /\ ticket' \in 0 .. MaxRuns
         /\ trials' \in 0 .. 3 /\ elapsed' \in BOOLEAN
<1>1. cur.run \in 0 .. MaxRuns
  BY RecordFields DEF TypeOK
<1>2. Down("sw")
  BY DEF Expire
<1>3. QED
  BY <1>1, <1>2, DownTyped DEF Expire, TypeOK

\* The records start-up and recovery make of the one they work on.
LEMMA LeaseChecked ==
  ASSUME cur \in Leases
  PROVE  /\ cur \in Records
         /\ \A p \in Phases, f \in Failures :
              /\ [cur EXCEPT !.phase = p] \in Leases
              /\ [cur EXCEPT !.failure = f] \in Leases
              /\ [cur EXCEPT !.phase = p, !.failure = f] \in Leases
         /\ [[cur EXCEPT !.phase = "Running"] EXCEPT !.failure = "RecordCommit"] \in Leases
  BY DEF Records, Leases, Phases, Failures

LEMMA SelectorStep ==
  ASSUME TypeOK, StageInv, [Next]_vars
  PROVE  [SelectorNext]_selectorVars
<1> USE DEF TypeOK, SelectorNext
<1>1. CASE Boot
  BY <1>1 DEF Boot, selectorVars
<1>2. CASE OrdinaryBoot
  BY <1>2 DEF OrdinaryBoot, selectorVars
<1>3. CASE ReturnBoot
  BY <1>3 DEF ReturnBoot, selectorVars
<1>4. CASE TerminalBoot
  BY <1>4 DEF TerminalBoot, selectorVars
<1>5. CASE TrialBoot
  BY <1>5 DEF TrialBoot, selectorVars
<1>6. CASE ReturnImageBad
  BY <1>6 DEF ReturnImageBad, selectorVars
<1>7. CASE TrialImageBad
  BY <1>7 DEF TrialImageBad, selectorVars
<1>8. CASE StartTrial
  BY <1>8 DEF StartTrial, selectorVars
<1>9. CASE ArmDeadline
  BY <1>9 DEF ArmDeadline, selectorVars
<1>10. CASE GiveUp
  BY <1>10 DEF GiveUp, selectorVars
<1>11. CASE Return
  BY <1>11 DEF Return, StageInv, Recovering, Leases, other, Slots
<1>12. CASE Erase
  BY <1>12 DEF Erase, trialVars
<1>13. CASE Write
  BY <1>13 DEF Write, StageInv
<1>14. CASE SwitchFails
  BY <1>14 DEF SwitchFails, StageInv
<1>15. CASE Prepare
  BY <1>15 DEF Prepare, selectorVars
<1>16. CASE Update
  BY <1>16 DEF Update, selectorVars
<1>17. CASE CopyBegin
  BY <1>17 DEF CopyBegin, selectorVars
<1>18. CASE CopyDone
  BY <1>18 DEF CopyDone, StageInv, Recovering, Leases, other, Slots
<1>19. CASE CopyFails
  BY <1>19 DEF CopyFails, selectorVars
<1>20. CASE Verified
  BY <1>20 DEF Verified, selectorVars
<1>21. CASE VerifyFails
  BY <1>21 DEF VerifyFails, selectorVars
<1>22. CASE RestoreSelection
  BY <1>22 DEF RestoreSelection, StageInv, Recovering, Leases, other, Slots
<1>23. CASE CancelPrepared
  BY <1>23 DEF CancelPrepared, selectorVars
<1>24. CASE ClearRecord
  BY <1>24 DEF ClearRecord, selectorVars
<1>25. CASE Timeout
  BY <1>25 DEF Timeout, selectorVars
<1>26. CASE ReaderBegin
  BY <1>26 DEF ReaderBegin, selectorVars
<1>27. CASE CommitAutoSleep
  BY <1>27 DEF CommitAutoSleep, selectorVars
<1>28. CASE Sleep
  BY <1>28 DEF Sleep, selectorVars
<1>29. CASE Restart
  BY <1>29 DEF Restart, selectorVars
<1>30. CASE PowerLoss
  BY <1>30 DEF PowerLoss, Cut, selectorVars, StageInv
<1>31. CASE Panic
  BY <1>31 DEF Panic, Cut, selectorVars, StageInv
<1>32. CASE UNCHANGED vars
  BY <1>32 DEF vars
<1>33. QED
  BY <1>1, <1>2, <1>3, <1>4, <1>5, <1>6, <1>7, <1>8, <1>9, <1>10, <1>11, <1>12, <1>13, <1>14,
     <1>15, <1>16, <1>17, <1>18, <1>19, <1>20, <1>21, <1>22, <1>23, <1>24, <1>25, <1>26, <1>27,
     <1>28, <1>29, <1>30, <1>31, <1>32
  DEF Next, BootSteps, Install, Use

LEMMA TypesKept ==
  ASSUME TrialInv, SelectorTypeOK', Next
  PROVE  TypeOK'
<1> USE DEF TrialInv, TypeOK, history
<1>1. CASE Boot
  BY <1>1, SelectedSlot DEF Boot, BootSlot, Slots, nvs, ram, environment, SelectorTypeOK, Stages
<1>2. CASE OrdinaryBoot
  BY <1>2, BoundsAssumption DEF OrdinaryBoot, nvs, boot, ram, Upset, Smooth, Stages
<1>3. CASE ReturnBoot
  <2>1. record \in Leases
    BY <1>3, RecordFields DEF ReturnBoot
  <2>2. Settled(TRUE) \in Records /\ Settled(FALSE) \in Records
    BY <2>1 DEF Settled, Leases, Records, Phases, Failures
  <2>3. cur' \in Records /\ record' \in {record, cur'}
    BY <1>3, <2>2 DEF ReturnBoot, ReturnImageLost, Save, Saved, SaveFailed
  <2>4. upsets' \in 0 .. MaxUpsets
    BY <1>3, UpsetTyped DEF ReturnBoot, ReturnImageLost, Save, Saved, SaveFailed, Smooth
  <2>5. deadlineExit' \in BOOLEAN
    BY <1>3 DEF ReturnBoot, Expired
  <2>6. QED
    BY <1>3, <2>3, <2>4, <2>5, BoundsAssumption DEF ReturnBoot, Stages, boot
<1>4. CASE TerminalBoot
  BY <1>4, BoundsAssumption DEF TerminalBoot, Expired, nvs, boot, environment, Stages
<1>5. CASE TrialBoot
  <2>1. deadlineExit' \in BOOLEAN
    BY <1>5 DEF TrialBoot, Expired
  <2>2. upsets' \in 0 .. MaxUpsets
    BY <1>5, UpsetTyped DEF TrialBoot, ResumptionConsumed, Smooth
  <2>3. stage' \in Stages /\ wake' \in {"none", "prepared", "waiting", "committed", "observing"}
    BY <1>5 DEF TrialBoot, ResumptionConsumed, Stages
  <2>4. QED
    BY <1>5, <2>1, <2>2, <2>3, BoundsAssumption DEF TrialBoot, boot
<1>6. CASE ReturnImageBad
  BY <1>6, LeaseChecked, BoundsAssumption
  DEF ReturnImageBad, boot, ReturnImageLost, Save, Saved, SaveFailed, StageInv, Recovering, Phases, Failures, Records, Upset,
      Smooth, Stages
<1>7. CASE TrialImageBad
  BY <1>7, LeaseChecked, BoundsAssumption
  DEF TrialImageBad, boot, nvs, Differs, StageInv, Recovering, Phases, Failures, Records, Upset,
      Smooth, Stages
<1>8. CASE StartTrial
  BY <1>8, LeaseChecked, BoundsAssumption
  DEF StartTrial, Saved, SaveFailed, boot, StageInv, Recovering, Phases, Failures, Records, Upset,
      Smooth, Stages
<1>9. CASE ArmDeadline
  <2>1. upsets' \in 0 .. MaxUpsets
    BY <1>9, UpsetTyped DEF ArmDeadline, Smooth
  <2>2. cur' \in Records
    <3>1. cur \in Leases
      BY <1>9 DEF ArmDeadline, StageInv, Recovering
    <3>2. [cur EXCEPT !.failure = "Timer"] \in Records
      BY <3>1 DEF Leases, Failures, Records
    <3>3. QED
      BY <1>9, <3>2 DEF ArmDeadline, WithoutTimer
  <2>3. trials' \in 0 .. 3 /\ elapsed' \in BOOLEAN
    BY <1>9 DEF ArmDeadline
  <2>4. stage' \in Stages /\ trialActive' \in BOOLEAN
    BY <1>9 DEF ArmDeadline, WithoutTimer, Stages
  <2>5. QED
    BY <1>9, <2>1, <2>2, <2>3, <2>4 DEF ArmDeadline, nvs, boot
<1>10. CASE GiveUp
  BY <1>10, LeaseChecked, BoundsAssumption
  DEF GiveUp, ReturnImageLost, Save, Saved, SaveFailed, boot, StageInv, Recovering, Phases, Failures,
      Records, Upset, Smooth, Stages
<1>11. CASE Return
  <2> DEFINE attempt == [cur EXCEPT !.phase = "Returning", !.attempts = @ + 1,
                                    !.failure = IF @ = "None" /\ ~Orderly
                                                THEN "UnexpectedReset" ELSE @]
  <2>1. cur \in Leases /\ cur.attempts < 2
    BY <1>11 DEF Return, BudgetLeft, StageInv, Recovering
  <2>2. attempt \in Records /\ [attempt EXCEPT !.failure = "RecordCommit"] \in Records
    <3> DEFINE f == IF cur.failure = "None" /\ ~Orderly THEN "UnexpectedReset" ELSE cur.failure
    <3>1. f \in Failures
      BY <2>1 DEF Leases, Failures
    <3>2. attempt = [[cur EXCEPT !.phase = "Returning", !.attempts = @ + 1] EXCEPT !.failure = f]
      OBVIOUS
    <3> HIDE DEF f, attempt
    <3>3. [cur EXCEPT !.phase = "Returning", !.attempts = @ + 1] \in Leases
      <4>1. cur.attempts + 1 \in 0 .. 2
        BY <2>1 DEF Leases
      <4> DEFINE a == cur.attempts + 1
      <4>2. [cur EXCEPT !.phase = "Returning", !.attempts = a] \in Leases
        <5> HIDE DEF a
        <5>1. a \in 0 .. 2
          BY <4>1 DEF a
        <5>2. QED
          BY <2>1, <5>1 DEF Leases, Phases
      <4>3. QED
        BY <4>2
    <3>4. attempt \in Leases
      BY <3>1, <3>2, <3>3 DEF Leases
    <3>5. [attempt EXCEPT !.failure = "RecordCommit"] \in Leases
      BY <3>4 DEF Leases, Failures
    <3>6. QED
      BY <3>4, <3>5 DEF Records
  <2>3. /\ record' \in {record, attempt}
        /\ cur' \in {attempt, [attempt EXCEPT !.failure = "RecordCommit"]}
    BY <1>11 DEF Return, Saved, SaveFailed
  <2>4. upsets' \in 0 .. MaxUpsets
    BY <1>11, UpsetTyped DEF Return, Saved, SaveFailed, Smooth
  <2> HIDE DEF attempt
  <2>5. record' \in Records /\ cur' \in Records
    BY <2>2, <2>3
  <2>6. QED
    BY <1>11, <2>4, <2>5 DEF Return, boot, Stages
<1>12. CASE Erase
  BY <1>12 DEF Erase, trialVars, Stages
<1>13. CASE Write
  BY <1>13, NoRecordTyped
  DEF Write, Down, nvs, environment, boot, ram, SwitchWrite, StageInv, Stages
<1>14. CASE SwitchFails
  <2>1. upsets' \in 0 .. MaxUpsets
    BY <1>14, UpsetTyped DEF SwitchFails
  <2>2. cur' \in Records /\ record' \in Records
    <3>1. CASE job = "return"
      <4>1. cur \in Leases
        BY <1>14, <3>1 DEF SwitchFails, StageInv, Recovering
      <4>2. [cur EXCEPT !.failure = "Selection"] \in Records
        BY <4>1 DEF Leases, Failures, Records
      <4>3. QED
        BY <1>14, <3>1, <4>2 DEF SwitchFails
    <3>2. CASE job # "return"
      BY <1>14, <3>2 DEF SwitchFails, StageInv
    <3>3. QED
      BY <3>1, <3>2
  <2>3. stage' \in Stages
    BY <1>14 DEF SwitchFails, StageInv, Stages
  <2>4. QED
    BY <1>14, <2>1, <2>2, <2>3 DEF SwitchFails, boot
<1>15. CASE Prepare
  <2> DEFINE lease == [run |-> runs + 1, phase |-> "Prepared", ret |-> running,
                       attempts |-> 0, failure |-> "None"]
  <2>1. lease \in Records /\ [lease EXCEPT !.phase = "Failed"] \in Records
    BY <1>15, BoundsAssumption DEF Prepare, Leases, Records, Phases, Failures
  <2>2. record' \in Records /\ cur' \in Records /\ upsets' \in 0 .. MaxUpsets
    BY <1>15, <2>1, BoundsAssumption DEF Prepare, Saved, SaveFailed, Upset, Smooth
  <2>3. QED
    <3>1. /\ wake' \in {"none", "prepared", "waiting", "committed", "observing"}
          /\ stage' \in Stages
          /\ job' \in {"none", "return", "install", "restore", "update"}
      BY <1>15 DEF Prepare, Stages
    <3>2. runs' \in 0 .. MaxRuns
      BY <1>15, BoundsAssumption DEF Prepare
    <3>3. trials' = 0 /\ elapsed' = FALSE
      BY <1>15 DEF Prepare
    <3>4. UNCHANGED <<image, ticket, running, reset, trialActive, deadlineExit>>
      BY <1>15 DEF Prepare, boot
    <3>5. elapsed' \in BOOLEAN
      BY <3>3
    <3>6. trialActive' \in BOOLEAN /\ deadlineExit' \in BOOLEAN
      BY <3>4
    <3>7. trials' \in 0 .. 3
      BY <3>3
    <3>8. QED
      BY <2>2, <3>1, <3>2, <3>4, <3>5, <3>6, <3>7
<1>16. CASE Update
  BY <1>16, BoundsAssumption DEF Update, nvs, boot, ram, Upset, Stages
<1>17. CASE CopyBegin
  BY <1>17, BoundsAssumption
  DEF CopyBegin, AfterFailedCopy, nvs, boot, ram, Images, other, Slots, Upset, Smooth, Stages
<1>18. CASE CopyDone
  BY <1>18, BoundsAssumption
  DEF CopyDone, nvs, boot, ram, Images, other, Slots, Upset, Smooth, Stages
<1>19. CASE CopyFails
  BY <1>19, BoundsAssumption DEF CopyFails, AfterFailedCopy, nvs, boot, ram, Upset, Stages
<1>20. CASE Verified
  BY <1>20, NoRecordTyped DEF Verified, Down, nvs, environment, Stages
<1>21. CASE VerifyFails
  BY <1>21, BoundsAssumption DEF VerifyFails, Differs, nvs, boot, ram, Upset, Smooth, Stages
<1>22. CASE RestoreSelection
  BY <1>22 DEF RestoreSelection, nvs, boot, ram, environment, Stages
<1>23. CASE CancelPrepared
  <2>1. record.phase = "Prepared" => [record EXCEPT !.phase = "Failed"] \in Records
    BY NoRecordTyped, RecordFields DEF Leases, Records, Phases
  <2>2. record' \in Records /\ cur' \in Records /\ upsets' \in 0 .. MaxUpsets
    BY <1>23, <2>1, BoundsAssumption DEF CancelPrepared, Save, Saved, SaveFailed, Upset, Smooth
  <2>3. QED
    BY <1>23, <2>2 DEF CancelPrepared, Stages, boot
<1>24. CASE ClearRecord
  BY <1>24, NoRecordTyped DEF ClearRecord, boot, environment, Stages
<1>25. CASE Timeout
  BY <1>25, NoRecordTyped, RecordFields DEF Timeout, Expire, Down, nvs, Stages
<1>26. CASE ReaderBegin
  <2>1. upsets' \in 0 .. MaxUpsets
    BY <1>26, UpsetTyped DEF ReaderBegin, Smooth
  <2>2. wake' \in {"none", "prepared", "waiting", "committed", "observing"}
    BY <1>26 DEF ReaderBegin
  <2>3. CASE Expire
    BY <1>26, <2>1, <2>2, <2>3, ExpireTyped DEF ReaderBegin
  <2>4. CASE UNCHANGED <<stage, ticket, reset, job, ram, history, running>>
    BY <1>26, <2>1, <2>2, <2>4 DEF ReaderBegin, ram
  <2>5. QED
    BY <1>26, <2>3, <2>4 DEF ReaderBegin
<1>27. CASE CommitAutoSleep
  <2>1. upsets' \in 0 .. MaxUpsets
    BY <1>27, UpsetTyped DEF CommitAutoSleep, Smooth
  <2>2. wake' \in {"none", "prepared", "waiting", "committed", "observing"}
    BY <1>27 DEF CommitAutoSleep
  <2>3. CASE Expire
    BY <1>27, <2>1, <2>2, <2>3, ExpireTyped DEF CommitAutoSleep
  <2>4. CASE UNCHANGED <<stage, ticket, reset, job, ram, history, running>>
    BY <1>27, <2>1, <2>2, <2>4 DEF CommitAutoSleep, ram
  <2>5. QED
    BY <1>27, <2>3, <2>4 DEF CommitAutoSleep
<1>28. CASE Sleep
  BY <1>28, NoRecordTyped, RecordFields DEF Sleep, Expire, Down, nvs, Stages
<1>29. CASE Restart
  BY <1>29, NoRecordTyped DEF Restart, Down, nvs, environment, Stages
<1>30. CASE PowerLoss
  <2>1. upsets' \in 0 .. MaxUpsets
    BY <1>30, UpsetTyped DEF PowerLoss
  <2>2. Down("power")
    BY <1>30 DEF PowerLoss
  <2>3. QED
    BY <1>30, <2>1, <2>2, DownTyped, BoundsAssumption DEF PowerLoss, nvs
<1>31. CASE Panic
  <2>1. upsets' \in 0 .. MaxUpsets
    BY <1>31, UpsetTyped DEF Panic
  <2>2. Down("panic")
    BY <1>31 DEF Panic
  <2>3. QED
    BY <1>31, <2>1, <2>2, DownTyped, BoundsAssumption DEF Panic, nvs
<1>32. QED
  BY <1>1, <1>2, <1>3, <1>4, <1>5, <1>6, <1>7, <1>8, <1>9, <1>10, <1>11, <1>12, <1>13, <1>14,
     <1>15, <1>16, <1>17, <1>18, <1>19, <1>20, <1>21, <1>22, <1>23, <1>24, <1>25, <1>26, <1>27,
     <1>28, <1>29, <1>30, <1>31
  DEF Next, BootSteps, Install, Use

LEMMA InitTrial == Init => TrialInv
<1> SUFFICES ASSUME Init PROVE TrialInv
  OBVIOUS
<1>1. IInv
  BY InitEstablishes DEF Init
<1>2. entry \in [Slots -> Nat]
  BY <1>1 DEF IInv, SelectorTypeOK
<1>3. TypeOK
  <2>1. SelectorTypeOK /\ Selected \in Slots
    BY <1>1, <1>2, SelectedSlot DEF IInv
  <2>2. image \in [Slots -> Images] /\ stage \in Stages
    BY DEF Init, Images, Stages
  <2>3. cur \in Records /\ record \in Records
    BY NoRecordTyped DEF Init
  <2>4. upsets \in 0 .. MaxUpsets /\ runs \in 0 .. MaxRuns /\ ticket \in 0 .. MaxRuns
    BY BoundsAssumption DEF Init
  <2>5. trialActive \in BOOLEAN /\ deadlineExit \in BOOLEAN /\ elapsed \in BOOLEAN
    BY DEF Init
  <2>6. QED
    BY <2>1, <2>2, <2>3, <2>4, <2>5 DEF Init, TypeOK
<1>4. switch.step = "none"
  BY DEF Init, SelectorInit, NoSwitch
<1>5. StageInv /\ GuardInv /\ BoundInv
  BY <1>4 DEF Init, StageInv, GuardInv, BoundInv, Recovering
<1>6. QED
  BY <1>1, <1>3, <1>5 DEF TrialInv, IInv

LEMMA RestKept ==
  ASSUME TrialInv, TypeOK', Next
  PROVE  StageInv' /\ GuardInv' /\ BoundInv'
<1> USE DEF TrialInv, TypeOK, StageInv, GuardInv, BoundInv, Recovering, Leases, Records, NoRecord,
            Phases, Failures, LeasePending, other, Slots, NoSwitch, SelectorTypeOK, nvs, ram,
            boot, environment, selectorVars
<1>1. CASE Boot
  BY <1>1 DEF Boot, BootSlot
<1>2. CASE OrdinaryBoot
  BY <1>2 DEF OrdinaryBoot
<1>3. CASE ReturnBoot
  BY <1>3 DEF ReturnBoot, ReturnImageLost, Settled, Save, Saved, SaveFailed
<1>4. CASE TerminalBoot
  BY <1>4 DEF TerminalBoot
<1>5. CASE TrialBoot
  BY <1>5 DEF TrialBoot, ResumptionConsumed
<1>6. CASE ReturnImageBad
  BY <1>6 DEF ReturnImageBad, ReturnImageLost, Save, Saved, SaveFailed
<1>7. CASE TrialImageBad
  BY <1>7 DEF TrialImageBad, Differs
<1>8. CASE StartTrial
  BY <1>8 DEF StartTrial, Saved, SaveFailed
<1>9. CASE ArmDeadline
  BY <1>9 DEF ArmDeadline, WithoutTimer
<1>10. CASE GiveUp
  BY <1>10 DEF GiveUp, ReturnImageLost, Save, Saved, SaveFailed, BudgetLeft
<1>11. CASE Return
  <2> DEFINE attempt == [cur EXCEPT !.phase = "Returning", !.attempts = @ + 1,
                                    !.failure = IF @ = "None" /\ ~Orderly
                                                THEN "UnexpectedReset" ELSE @]
  <2>1. cur \in Leases /\ cur.ret = other /\ ~trialActive
    BY <1>11 DEF Return
  <2>2. /\ attempt.ret = cur.ret /\ attempt.run = cur.run
        /\ [attempt EXCEPT !.failure = "RecordCommit"].ret = cur.ret
        /\ [attempt EXCEPT !.failure = "RecordCommit"].run = cur.run
    BY <2>1
  <2>3. cur' \in {attempt, [attempt EXCEPT !.failure = "RecordCommit"]}
    BY <1>11 DEF Return, Saved, SaveFailed
  <2> HIDE DEF attempt
  <2>4. cur'.ret = other /\ cur' # NoRecord
    BY <2>1, <2>2, <2>3
  <2>5. /\ switch'.step = "erase" /\ stage' = "switch" /\ job' = "return"
        /\ UNCHANGED <<image, running, trialActive>>
    BY <1>11 DEF Return, SwitchBegin
  <2>6. cur' \in Leases
    BY <2>4
  <2>7. QED
    BY <2>1, <2>4, <2>5, <2>6
<1>12. CASE Erase
  BY <1>12 DEF Erase, SwitchErase, trialVars
<1>13. CASE Write
  BY <1>13 DEF Write, SwitchWrite, Down
<1>14. CASE SwitchFails
  BY <1>14 DEF SwitchFails, SwitchCut
<1>15. CASE Prepare
  BY <1>15 DEF Prepare, Saved, SaveFailed
<1>16. CASE Update
  BY <1>16 DEF Update, FlashAllowed
<1>17. CASE CopyBegin
  BY <1>17 DEF CopyBegin, AfterFailedCopy
<1>18. CASE CopyDone
  BY <1>18 DEF CopyDone, SwitchBegin
<1>19. CASE CopyFails
  BY <1>19 DEF CopyFails, AfterFailedCopy
<1>20. CASE Verified
  BY <1>20 DEF Verified, Down
<1>21. CASE VerifyFails
  BY <1>21 DEF VerifyFails, Differs
<1>22. CASE RestoreSelection
  BY <1>22 DEF RestoreSelection, SwitchBegin
<1>23. CASE CancelPrepared
  BY <1>23 DEF CancelPrepared, Save, Saved, SaveFailed
<1>24. CASE ClearRecord
  BY <1>24 DEF ClearRecord
<1>25. CASE Timeout
  BY <1>25 DEF Timeout, Expire, Down
<1>26. CASE ReaderBegin
  BY <1>26 DEF ReaderBegin, Expire, Down
<1>27. CASE CommitAutoSleep
  BY <1>27 DEF CommitAutoSleep, Expire, Down
<1>28. CASE Sleep
  BY <1>28 DEF Sleep, Expire, Down
<1>29. CASE Restart
  BY <1>29 DEF Restart, Down
<1>30. CASE PowerLoss
  BY <1>30 DEF PowerLoss, Cut, SwitchCut, Down
<1>31. CASE Panic
  BY <1>31 DEF Panic, Cut, SwitchCut, Down
<1>32. QED
  BY <1>1, <1>2, <1>3, <1>4, <1>5, <1>6, <1>7, <1>8, <1>9, <1>10, <1>11, <1>12, <1>13, <1>14,
     <1>15, <1>16, <1>17, <1>18, <1>19, <1>20, <1>21, <1>22, <1>23, <1>24, <1>25, <1>26, <1>27,
     <1>28, <1>29, <1>30, <1>31
  DEF Next, BootSteps, Install, Use

LEMMA TrialStep == TrialInv /\ [Next]_vars => TrialInv'
<1> SUFFICES ASSUME TrialInv, [Next]_vars PROVE TrialInv'
  OBVIOUS
<1>1. TypeOK /\ StageInv /\ IInv
  BY DEF TrialInv, TypeOK, IInv
<1>2. IInv'
  BY <1>1, SelectorStep, StepKeeps
<1>3. SelectorTypeOK' /\ SwitchInv'
  BY <1>2 DEF IInv
<1>4. CASE Next
  BY <1>3, <1>4, TypesKept, RestKept DEF TrialInv
<1>5. CASE UNCHANGED vars
  BY <1>3, <1>5
  DEF TrialInv, TypeOK, StageInv, GuardInv, BoundInv, Recovering, vars, selectorVars, trialVars,
      other
<1>6. QED
  BY <1>4, <1>5

LEMMA TrialInvariant == Spec => []TrialInv
  BY InitTrial, TrialStep, PTL DEF Spec

\* The lease, its records and its histories keep their types.
THEOREM TrialTypeCorrect == Spec => []TypeOK
<1>1. TrialInv => TypeOK
  BY DEF TrialInv
<1>2. QED
  BY <1>1, TrialInvariant, PTL

\* While a trial is active, the developer image it returns to is untouched in the other
\* partition, whatever the user, the resets and the failures did since it was prepared.
THEOREM ReturnImageSafe == Spec => []ReturnImageKept
<1>1. TrialInv => ReturnImageKept
  BY DEF TrialInv, GuardInv, ReturnImageKept
<1>2. QED
  BY <1>1, TrialInvariant, PTL

\* No sequence of failures, resets and wakes leaves the candidate up without a deadline
\* while its lease is pending, but for the outcomes the code accepts.
THEOREM TrialBounded == Spec => []NeverUnbounded
<1>1. TrialInv => NeverUnbounded
  BY DEF TrialInv, BoundInv, NeverUnbounded
<1>2. QED
  BY <1>1, TrialInvariant, PTL

\* The lease uses the selector as the selector's own specification allows.
THEOREM TrialUsesSelector == Spec => SelectorSpec
<1>1. Init => SelectorInit
  BY DEF Init
<1>2. TrialInv /\ [Next]_vars => [SelectorNext]_selectorVars
  BY SelectorStep DEF TrialInv
<1>3. QED
  BY <1>1, <1>2, TrialInvariant, PTL DEF Spec, SelectorSpec

\* With a lease at work, too, the selection moves by the write of a switchTo() alone,
\* and to the partition that was asked for.
THEOREM TrialSelectionSafe == Spec => SelectionMoves
  BY TrialUsesSelector, SelectionSafe, PTL

-------------------------------------------------------------------------------
(* The selector and the copies, the bounded boots, the evidence of a return *)

\* The selector never works for an image that is not complete, nor does the reader
\* run one.
CompleteInv ==
  /\ stage # "off" => image[running] # "torn"
  /\ stage = "switch" => image[switch.dest] # "torn"

\* What phase and auto-wake record say of the bounded boots so far: none while the
\* lease is prepared, one until the one resumption is consumed.  What is being checked is
\* the record itself, and a return under way is written as one.
BootsInv ==
  /\ trials <= 2
  /\ record.phase = "Prepared" => trials = 0
  /\ record.phase = "Running" /\ wake # "observing" => trials <= 1
  /\ stage = "check" =>
       /\ cur = record /\ cur.phase \in {"Prepared", "Running"}
       /\ cur.phase = "Running" => wake = "observing" /\ trials <= 1
  /\ stage = "arm" => trials = 0 \/ (trials = 1 /\ wake = "observing")
  /\ stage = "switch" /\ job = "return" => cur.phase = "Returning"

\* A bounded boot of this lease has ended by its deadline or the recovery timer.
Evidence == trials > 0 /\ elapsed

\* Whatever counts as an orderly end names this lease: the ticket by its run, the reset
\* by what it ended; and a return goes on record without a failure only on that.
EvidenceInv ==
  /\ record # NoRecord => record.run = runs
  /\ Recovering => record # NoRecord /\ cur.run = record.run
  /\ trialActive => cur.run = record.run /\ trials > 0
  /\ ticket <= runs /\ (ticket = runs /\ ticket # 0 => Evidence)
  /\ reset = "timer" /\ stage \in {"off", "boot", "check", "arm", "recover"} => Evidence
  /\ deadlineExit /\ stage \in {"check", "arm", "recover"} => Evidence
  /\ record.phase = "Returning" /\ record.failure = "None" => Evidence

\* The actions that put the end of a lease on record.
Ending == ReturnBoot \/ ReturnImageBad \/ GiveUp \/ CancelPrepared

\* The lease itself stays the same one; only a boot of the intact return image makes
\* it "Returned", and then it takes the failure over.
LEMMA EndWritten ==
  ASSUME TrialInv, Ending
  PROVE  record' = record
         \/ /\ record # NoRecord \/ Recovering
            /\ record'.run = IF Recovering THEN cur.run ELSE record.run
            /\ record'.phase \in {"Returned", "Failed"}
            /\ record'.phase = "Returned" =>
                 record.phase = "Returning" /\ record'.failure = record.failure
                 /\ image[running] = "dev"
<1> USE NoRecordTyped DEF Save, Saved, SaveFailed, ReturnImageLost, Recovering
<1>1. CASE ReturnBoot
  <2>1. record \in Leases /\ LeasePending(record.phase) /\ stage = "boot"
    BY <1>1, RecordFields DEF ReturnBoot, TrialInv, TypeOK
  <2>2. \A o \in BOOLEAN :
          /\ Settled(o).run = record.run
          /\ Settled(o).phase = IF o /\ record.phase = "Returning" THEN "Returned" ELSE "Failed"
          /\ o /\ record.phase = "Returning" => Settled(o).failure = record.failure
    BY <2>1 DEF Settled, Leases
  <2>3. \/ image[running] = "dev" /\ record' \in {record, Settled(TRUE)}
        \/ record' \in {record, Settled(FALSE)}
    BY <1>1 DEF ReturnBoot
  <2>4. record # NoRecord
    BY <2>1
  <2>5. QED
    BY <2>1, <2>2, <2>3, <2>4
<1>2. CASE ReturnImageBad
  <2>1. cur \in Leases /\ stage = "check"
    BY <1>2 DEF ReturnImageBad, TrialInv, StageInv
  <2>2. record' \in {record, [cur EXCEPT !.phase = "Failed", !.failure = "ReturnImage"]}
    BY <1>2 DEF ReturnImageBad
  <2>3. LET c == [cur EXCEPT !.phase = "Failed", !.failure = "ReturnImage"]
        IN  c.run = cur.run /\ c.phase = "Failed"
    BY <2>1 DEF Leases
  <2>4. QED
    BY <2>1, <2>2, <2>3
<1>3. CASE GiveUp
  <2>1. cur \in Leases /\ stage = "recover"
    BY <1>3 DEF GiveUp, TrialInv, StageInv
  <2>2. record' \in {record, [cur EXCEPT !.phase = "Failed", !.failure = "ReturnBudget"],
                      [cur EXCEPT !.phase = "Failed", !.failure = "ReturnImage"]}
    BY <1>3 DEF GiveUp
  <2>3. \A f \in Failures :
          LET c == [cur EXCEPT !.phase = "Failed", !.failure = f]
          IN  c.run = cur.run /\ c.phase = "Failed"
    BY <2>1 DEF Leases
  <2>4. QED
    BY <2>1, <2>2, <2>3 DEF Failures
<1>4. CASE CancelPrepared
  <2>1. stage = "cancel" /\ record' \in {record, [record EXCEPT !.phase = "Failed"]}
    BY <1>4 DEF CancelPrepared
  <2>2. record' = record \/ record \in Leases
    BY <1>4, RecordFields DEF CancelPrepared, TrialInv, TypeOK
  <2>3. record \in Leases => LET c == [record EXCEPT !.phase = "Failed"]
                             IN  c.run = record.run /\ c.phase = "Failed"
    BY DEF Leases
  <2>4. QED
    BY <2>1, <2>2, <2>3
<1>5. QED
  BY <1>1, <1>2, <1>3, <1>4 DEF Ending

\* An attempt to return keeps the lease and is free of failures only when the boot
\* followed an orderly end.
LEMMA AttemptWritten ==
  ASSUME TrialInv, Return
  PROVE  /\ cur'.run = cur.run /\ cur'.phase = "Returning"
         /\ record' = record
            \/ /\ record'.run = cur.run /\ record'.phase = "Returning"
               /\ record'.failure = "None" => Orderly
<1> DEFINE attempt == [cur EXCEPT !.phase = "Returning", !.attempts = @ + 1,
                                  !.failure = IF @ = "None" /\ ~Orderly
                                              THEN "UnexpectedReset" ELSE @]
<1>1. cur \in Leases
  BY DEF Return, TrialInv, StageInv, Recovering
<1>2. /\ attempt.run = cur.run /\ attempt.phase = "Returning"
      /\ attempt.failure = "None" => Orderly
      /\ LET late == [attempt EXCEPT !.failure = "RecordCommit"]
         IN  late.run = cur.run /\ late.phase = "Returning"
  BY <1>1 DEF Leases
<1>3. /\ record' \in {record, attempt}
      /\ cur' \in {attempt, [attempt EXCEPT !.failure = "RecordCommit"]}
  BY DEF Return, Saved, SaveFailed
<1> HIDE DEF attempt
<1>4. QED
  BY <1>2, <1>3

\* So does the start of a trial.
LEMMA StartWritten ==
  ASSUME TrialInv, StartTrial
  PROVE  /\ cur'.run = cur.run
         /\ stage' = "arm" => record'.phase = "Running"
         /\ record' = record \/ (record'.run = cur.run /\ record'.phase = "Running")
         /\ UNCHANGED <<wake, ticket, reset, deadlineExit, trials, elapsed, runs, trialActive>>
         /\ stage = "check" /\ stage' \in {"arm", "recover"}
<1> DEFINE started == [cur EXCEPT !.phase = "Running"]
<1>1. cur \in Leases
  BY DEF StartTrial, TrialInv, StageInv, Recovering
<1>2. /\ started.run = cur.run /\ started.phase = "Running"
      /\ [started EXCEPT !.failure = "RecordCommit"].run = cur.run
  BY <1>1 DEF Leases
<1>3. /\ record' \in {record, started}
      /\ stage' = "arm" => record' = started
      /\ cur' \in {started, [started EXCEPT !.failure = "RecordCommit"]}
  BY DEF StartTrial, Saved, SaveFailed
<1>4. /\ UNCHANGED <<wake, ticket, reset, deadlineExit, trials, elapsed, runs, trialActive>>
      /\ stage = "check" /\ stage' \in {"arm", "recover"}
  BY DEF StartTrial, boot, history
<1> HIDE DEF started
<1>5. QED
  BY <1>2, <1>3, <1>4

LEMMA CompleteKept ==
  ASSUME TrialInv, TrialInv', CompleteInv, Next
  PROVE  CompleteInv'
<1> USE DEF CompleteInv, TrialInv, TypeOK, StageInv, GuardInv, Recovering, other, Slots,
            NoSwitch, SelectorTypeOK, nvs, ram, boot, environment, selectorVars
<1>1. CASE Boot
  BY <1>1 DEF Boot, BootSlot
<1>2. CASE OrdinaryBoot
  BY <1>2 DEF OrdinaryBoot
<1>3. CASE ReturnBoot
  BY <1>3 DEF ReturnBoot, ReturnImageLost, Settled, Save, Saved, SaveFailed
<1>4. CASE TerminalBoot
  BY <1>4 DEF TerminalBoot
<1>5. CASE TrialBoot
  BY <1>5 DEF TrialBoot, ResumptionConsumed
<1>6. CASE ReturnImageBad
  BY <1>6 DEF ReturnImageBad, ReturnImageLost, Save, Saved, SaveFailed
<1>7. CASE TrialImageBad
  BY <1>7 DEF TrialImageBad, Differs
<1>8. CASE StartTrial
  BY <1>8 DEF StartTrial, Saved, SaveFailed
<1>9. CASE ArmDeadline
  BY <1>9 DEF ArmDeadline, WithoutTimer
<1>10. CASE GiveUp
  BY <1>10 DEF GiveUp, ReturnImageLost, Save, Saved, SaveFailed
<1>11. CASE Return
  BY <1>11 DEF Return, Saved, SaveFailed, SwitchBegin
<1>12. CASE Erase
  BY <1>12 DEF Erase, SwitchErase, trialVars
<1>13. CASE Write
  BY <1>13 DEF Write, SwitchWrite, Down
<1>14. CASE SwitchFails
  BY <1>14 DEF SwitchFails, SwitchCut
<1>15. CASE Prepare
  BY <1>15 DEF Prepare, Saved, SaveFailed
<1>16. CASE Update
  BY <1>16 DEF Update, FlashAllowed
<1>17. CASE CopyBegin
  BY <1>17 DEF CopyBegin, AfterFailedCopy
<1>18. CASE CopyDone
  BY <1>18 DEF CopyDone, SwitchBegin
<1>19. CASE CopyFails
  BY <1>19 DEF CopyFails, AfterFailedCopy
<1>20. CASE Verified
  BY <1>20 DEF Verified, Down
<1>21. CASE VerifyFails
  BY <1>21 DEF VerifyFails, Differs
<1>22. CASE RestoreSelection
  BY <1>22 DEF RestoreSelection, SwitchBegin
<1>23. CASE CancelPrepared
  BY <1>23 DEF CancelPrepared, Save, Saved, SaveFailed
<1>24. CASE ClearRecord
  BY <1>24 DEF ClearRecord
<1>25. CASE Timeout
  BY <1>25 DEF Timeout, Expire, Down
<1>26. CASE ReaderBegin
  BY <1>26 DEF ReaderBegin, Expire, Down
<1>27. CASE CommitAutoSleep
  BY <1>27 DEF CommitAutoSleep, Expire, Down
<1>28. CASE Sleep
  BY <1>28 DEF Sleep, Expire, Down
<1>29. CASE Restart
  BY <1>29 DEF Restart, Down
<1>30. CASE PowerLoss
  BY <1>30 DEF PowerLoss, Cut, SwitchCut, Down
<1>31. CASE Panic
  BY <1>31 DEF Panic, Cut, SwitchCut, Down
<1>32. QED
  BY <1>1, <1>2, <1>3, <1>4, <1>5, <1>6, <1>7, <1>8, <1>9, <1>10, <1>11, <1>12, <1>13, <1>14,
     <1>15, <1>16, <1>17, <1>18, <1>19, <1>20, <1>21, <1>22, <1>23, <1>24, <1>25, <1>26, <1>27,
     <1>28, <1>29, <1>30, <1>31
  DEF Next, BootSteps, Install, Use

LEMMA BootsKept ==
  ASSUME TrialInv, TrialInv', BootsInv, Next
  PROVE  BootsInv'
<1> USE NoRecordTyped
    DEF BootsInv, TrialInv, TypeOK, StageInv, GuardInv, Recovering, NoRecord, nvs, ram,
        boot, environment, history, LeasePending
<1>1. CASE Boot
  BY <1>1 DEF Boot, BootSlot
<1>2. CASE OrdinaryBoot
  BY <1>2 DEF OrdinaryBoot
<1>3. CASE ReturnBoot
  BY <1>3, EndWritten DEF Ending, ReturnBoot
<1>4. CASE TerminalBoot
  BY <1>4 DEF TerminalBoot
<1>5. CASE TrialBoot
  BY <1>5 DEF TrialBoot, ResumptionConsumed
<1>6. CASE ReturnImageBad
  BY <1>6, EndWritten DEF Ending, ReturnImageBad
<1>7. CASE TrialImageBad
  BY <1>7 DEF TrialImageBad, Differs
<1>8. CASE StartTrial
  BY <1>8, StartWritten
<1>9. CASE ArmDeadline
  BY <1>9 DEF ArmDeadline, WithoutTimer
<1>10. CASE GiveUp
  BY <1>10, EndWritten DEF Ending, GiveUp
<1>11. CASE Return
  BY <1>11, AttemptWritten DEF Return
<1>12. CASE Erase
  BY <1>12 DEF Erase, SwitchErase, trialVars
<1>13. CASE Write
  BY <1>13 DEF Write, SwitchWrite, Down
<1>14. CASE SwitchFails
  <2>1. record' = record \/
          /\ job = "return" /\ record'.run = cur.run
          /\ record'.phase = cur.phase /\ record'.failure = "Selection"
    <3>1. job = "return" => cur \in Leases
      BY <1>14 DEF SwitchFails
    <3>2. cur \in Leases => LET c == [cur EXCEPT !.failure = "Selection"]
                          IN  c.run = cur.run /\ c.phase = cur.phase /\ c.failure = "Selection"
      BY DEF Leases
    <3>3. QED
      BY <1>14, <3>1, <3>2 DEF SwitchFails
  <2>2. QED
    BY <1>14, <2>1 DEF SwitchFails
<1>15. CASE Prepare
  BY <1>15 DEF Prepare, Saved, SaveFailed
<1>16. CASE Update
  BY <1>16 DEF Update, FlashAllowed
<1>17. CASE CopyBegin
  BY <1>17 DEF CopyBegin, AfterFailedCopy
<1>18. CASE CopyDone
  BY <1>18 DEF CopyDone, SwitchBegin
<1>19. CASE CopyFails
  BY <1>19 DEF CopyFails, AfterFailedCopy
<1>20. CASE Verified
  BY <1>20 DEF Verified, Down
<1>21. CASE VerifyFails
  BY <1>21 DEF VerifyFails, Differs
<1>22. CASE RestoreSelection
  BY <1>22 DEF RestoreSelection, SwitchBegin
<1>23. CASE CancelPrepared
  BY <1>23, EndWritten DEF Ending, CancelPrepared
<1>24. CASE ClearRecord
  BY <1>24 DEF ClearRecord
<1>25. CASE Timeout
  BY <1>25 DEF Timeout, Expire, Down
<1>26. CASE ReaderBegin
  BY <1>26 DEF ReaderBegin, Expire, Down
<1>27. CASE CommitAutoSleep
  BY <1>27 DEF CommitAutoSleep, Expire, Down
<1>28. CASE Sleep
  BY <1>28 DEF Sleep, Expire, Down
<1>29. CASE Restart
  BY <1>29 DEF Restart, Down
<1>30. CASE PowerLoss
  BY <1>30 DEF PowerLoss, Cut, SwitchCut, Down
<1>31. CASE Panic
  BY <1>31 DEF Panic, Cut, SwitchCut, Down
<1>32. QED
  BY <1>1, <1>2, <1>3, <1>4, <1>5, <1>6, <1>7, <1>8, <1>9, <1>10, <1>11, <1>12, <1>13, <1>14,
     <1>15, <1>16, <1>17, <1>18, <1>19, <1>20, <1>21, <1>22, <1>23, <1>24, <1>25, <1>26, <1>27,
     <1>28, <1>29, <1>30, <1>31
  DEF Next, BootSteps, Install, Use

LEMMA EvidenceKept ==
  ASSUME TrialInv, TrialInv', EvidenceInv, Next
  PROVE  EvidenceInv'
<1> USE NoRecordTyped
    DEF EvidenceInv, Evidence, TrialInv, TypeOK, StageInv, GuardInv, Recovering, nvs, ram,
        boot, environment, history, LeasePending
<1>1. CASE Boot
  BY <1>1 DEF Boot, BootSlot
<1>2. CASE OrdinaryBoot
  BY <1>2 DEF OrdinaryBoot
<1>3. CASE ReturnBoot
  <2>1. record # NoRecord /\ stage = "boot" /\ stage' = "up" /\ ticket' = 0
        /\ UNCHANGED <<trialActive, trials, elapsed, runs>>
    BY <1>3 DEF ReturnBoot
  <2>2. record'.run = record.run
    BY <1>3, <2>1, EndWritten DEF Ending
  <2>3. record'.phase = "Returning" => record' = record
    BY <1>3, EndWritten DEF Ending
  <2>4. ~trialActive
    BY <2>1
  <2>5. QED
    BY <2>1, <2>2, <2>3, <2>4
<1>4. CASE TerminalBoot
  BY <1>4 DEF TerminalBoot
<1>5. CASE TrialBoot
  <2>1. /\ record # NoRecord /\ record \in Leases
        /\ stage = "boot" /\ stage' \in {"check", "recover"}
        /\ cur' = record /\ ticket' = 0 /\ deadlineExit' = Expired
        /\ UNCHANGED <<record, reset, trialActive, trials, elapsed, runs>>
    BY <1>5, RecordFields DEF TrialBoot, ResumptionConsumed
  <2>2. record.run # 0 /\ record.run = runs
    BY <2>1, BoundsAssumption DEF Leases
  <2>3. Expired => Evidence
    BY <2>2 DEF Expired
  <2>4. ~trialActive
    BY <2>1
  <2>5. QED
    BY <2>1, <2>2, <2>3, <2>4
<1>6. CASE ReturnImageBad
  BY <1>6, EndWritten DEF Ending, ReturnImageBad
<1>7. CASE TrialImageBad
  BY <1>7 DEF TrialImageBad, Differs
<1>8. CASE StartTrial
  BY <1>8, StartWritten
<1>9. CASE ArmDeadline
  <2>1. /\ stage = "arm" /\ ~trialActive /\ stage' \in {"up", "recover"}
        /\ UNCHANGED <<record, ticket, reset, deadlineExit, elapsed, runs>>
    BY <1>9 DEF ArmDeadline, WithoutTimer
  <2>2. trials' >= trials /\ (trials' > 0 \/ trialActive' = trialActive)
    BY <1>9 DEF ArmDeadline
  <2>3. cur'.run = cur.run
    BY <1>9 DEF ArmDeadline, WithoutTimer, Leases
  <2>4. Evidence => Evidence'
    BY <2>1, <2>2
  <2>5. QED
    BY <2>1, <2>2, <2>3, <2>4
<1>10. CASE GiveUp
  BY <1>10, EndWritten DEF Ending, GiveUp
<1>11. CASE Return
  BY <1>11, AttemptWritten DEF Return, Orderly
<1>12. CASE Erase
  BY <1>12 DEF Erase, SwitchErase, trialVars
<1>13. CASE Write
  BY <1>13 DEF Write, SwitchWrite, Down
<1>14. CASE SwitchFails
  <2>1. record' = record \/
          /\ job = "return" /\ record'.run = cur.run
          /\ record'.phase = cur.phase /\ record'.failure = "Selection"
    <3>1. job = "return" => cur \in Leases
      BY <1>14 DEF SwitchFails
    <3>2. cur \in Leases => LET c == [cur EXCEPT !.failure = "Selection"]
                          IN  c.run = cur.run /\ c.phase = cur.phase /\ c.failure = "Selection"
      BY DEF Leases
    <3>3. QED
      BY <1>14, <3>1, <3>2 DEF SwitchFails
  <2>2. QED
    BY <1>14, <2>1 DEF SwitchFails
<1>15. CASE Prepare
  BY <1>15 DEF Prepare, Saved, SaveFailed
<1>16. CASE Update
  BY <1>16 DEF Update, FlashAllowed
<1>17. CASE CopyBegin
  BY <1>17 DEF CopyBegin, AfterFailedCopy
<1>18. CASE CopyDone
  BY <1>18 DEF CopyDone, SwitchBegin
<1>19. CASE CopyFails
  BY <1>19 DEF CopyFails, AfterFailedCopy
<1>20. CASE Verified
  BY <1>20 DEF Verified, Down
<1>21. CASE VerifyFails
  BY <1>21 DEF VerifyFails, Differs
<1>22. CASE RestoreSelection
  BY <1>22 DEF RestoreSelection, SwitchBegin
<1>23. CASE CancelPrepared
  BY <1>23, EndWritten DEF Ending, CancelPrepared
<1>24. CASE ClearRecord
  BY <1>24 DEF ClearRecord
<1>25. CASE Timeout
  BY <1>25 DEF Timeout, Expire, Down
<1>26. CASE ReaderBegin
  <2>1. CASE Expire
    BY <1>26, <2>1 DEF ReaderBegin, Expire, Down
  <2>2. CASE UNCHANGED <<stage, ticket, reset, job, ram, history, running>>
    BY <1>26, <2>2 DEF ReaderBegin
  <2>3. QED
    BY <1>26, <2>1, <2>2 DEF ReaderBegin
<1>27. CASE CommitAutoSleep
  <2>1. CASE Expire
    BY <1>27, <2>1 DEF CommitAutoSleep, Expire, Down
  <2>2. CASE UNCHANGED <<stage, ticket, reset, job, ram, history, running>>
    BY <1>27, <2>2 DEF CommitAutoSleep
  <2>3. QED
    BY <1>27, <2>1, <2>2 DEF CommitAutoSleep
<1>28. CASE Sleep
  BY <1>28 DEF Sleep, Expire, Down
<1>29. CASE Restart
  BY <1>29 DEF Restart, Down
<1>30. CASE PowerLoss
  BY <1>30 DEF PowerLoss, Cut, SwitchCut, Down
<1>31. CASE Panic
  BY <1>31 DEF Panic, Cut, SwitchCut, Down
<1>32. QED
  BY <1>1, <1>2, <1>3, <1>4, <1>5, <1>6, <1>7, <1>8, <1>9, <1>10, <1>11, <1>12, <1>13, <1>14,
     <1>15, <1>16, <1>17, <1>18, <1>19, <1>20, <1>21, <1>22, <1>23, <1>24, <1>25, <1>26, <1>27,
     <1>28, <1>29, <1>30, <1>31
  DEF Next, BootSteps, Install, Use

\* Only the actions that end a lease put "Returned" on record.
LEMMA ReturnedWritten ==
  ASSUME TrialInv, BootsInv, Next, record' # record, record'.phase = "Returned"
  PROVE  Ending
<1> USE DEF nvs
<1>1. CASE Boot
  BY <1>1 DEF Boot
<1>2. CASE OrdinaryBoot
  BY <1>2 DEF OrdinaryBoot
<1>3. CASE ReturnBoot
  BY <1>3 DEF Ending
<1>4. CASE TerminalBoot
  BY <1>4 DEF TerminalBoot
<1>5. CASE TrialBoot
  BY <1>5 DEF TrialBoot
<1>6. CASE ReturnImageBad
  BY <1>6 DEF Ending
<1>7. CASE TrialImageBad
  BY <1>7 DEF TrialImageBad
<1>8. CASE StartTrial
  BY <1>8, StartWritten
<1>9. CASE ArmDeadline
  BY <1>9 DEF ArmDeadline
<1>10. CASE GiveUp
  BY <1>10 DEF Ending
<1>11. CASE Return
  BY <1>11, AttemptWritten
<1>12. CASE Erase
  BY <1>12 DEF Erase, trialVars
<1>13. CASE Write
  BY <1>13 DEF Write
<1>14. CASE SwitchFails
  <2>1. job = "return" => cur \in Leases
    BY <1>14 DEF SwitchFails, TrialInv, StageInv, Recovering
  <2>2. cur \in Leases => [cur EXCEPT !.failure = "Selection"].phase = cur.phase
    BY DEF Leases
  <2>3. stage = "switch" /\ job \in {"return", "install", "restore", "update"}
    BY <1>14 DEF SwitchFails, TrialInv, TypeOK, StageInv
  <2>4. job = "return" /\ record' = [cur EXCEPT !.failure = "Selection"]
    BY <1>14, <2>3 DEF SwitchFails
  <2>5. QED
    BY <2>1, <2>2, <2>3, <2>4 DEF BootsInv
<1>15. CASE Prepare
  BY <1>15 DEF Prepare, Saved, SaveFailed
<1>16. CASE Update
  BY <1>16 DEF Update
<1>17. CASE CopyBegin
  BY <1>17 DEF CopyBegin
<1>18. CASE CopyDone
  BY <1>18 DEF CopyDone
<1>19. CASE CopyFails
  BY <1>19 DEF CopyFails
<1>20. CASE Verified
  BY <1>20 DEF Verified
<1>21. CASE VerifyFails
  BY <1>21 DEF VerifyFails
<1>22. CASE RestoreSelection
  BY <1>22 DEF RestoreSelection
<1>23. CASE CancelPrepared
  BY <1>23 DEF Ending
<1>24. CASE ClearRecord
  BY <1>24 DEF ClearRecord, NoRecord
<1>25. CASE Timeout
  BY <1>25 DEF Timeout
<1>26. CASE ReaderBegin
  BY <1>26 DEF ReaderBegin
<1>27. CASE CommitAutoSleep
  BY <1>27 DEF CommitAutoSleep
<1>28. CASE Sleep
  BY <1>28 DEF Sleep
<1>29. CASE Restart
  BY <1>29 DEF Restart
<1>30. CASE PowerLoss
  BY <1>30 DEF PowerLoss
<1>31. CASE Panic
  BY <1>31 DEF Panic
<1>32. QED
  BY <1>1, <1>2, <1>3, <1>4, <1>5, <1>6, <1>7, <1>8, <1>9, <1>10, <1>11, <1>12, <1>13, <1>14,
     <1>15, <1>16, <1>17, <1>18, <1>19, <1>20, <1>21, <1>22, <1>23, <1>24, <1>25, <1>26, <1>27,
     <1>28, <1>29, <1>30, <1>31
  DEF Next, BootSteps, Install, Use

\* Everything proved of the lease, together.
LeaseInv == TrialInv /\ CompleteInv /\ BootsInv /\ EvidenceInv

LEMMA InitLease == Init => LeaseInv
<1> SUFFICES ASSUME Init PROVE LeaseInv
  OBVIOUS
<1>1. TrialInv
  BY InitTrial
<1>2. CompleteInv
  BY DEF Init, CompleteInv
<1>3. BootsInv
  BY NoRecordTyped DEF Init, BootsInv
<1>4. EvidenceInv
  BY NoRecordTyped DEF Init, EvidenceInv, Recovering
<1>5. QED
  BY <1>1, <1>2, <1>3, <1>4 DEF LeaseInv

LEMMA LeaseStep == LeaseInv /\ [Next]_vars => LeaseInv'
<1> SUFFICES ASSUME LeaseInv, [Next]_vars PROVE LeaseInv'
  OBVIOUS
<1>1. TrialInv'
  BY TrialStep DEF LeaseInv
<1>2. CASE Next
  BY <1>1, <1>2, CompleteKept, BootsKept, EvidenceKept DEF LeaseInv
<1>3. CASE UNCHANGED vars
  BY <1>1, <1>3
  DEF LeaseInv, CompleteInv, BootsInv, EvidenceInv, Evidence, Recovering, vars, selectorVars,
      trialVars
<1>4. QED
  BY <1>2, <1>3

\* What holds of every reachable state of a lease, whatever the faults.
THEOREM LeaseInvariant == Spec => []LeaseInv
  BY InitLease, LeaseStep, PTL DEF Spec

\* The bootloader is never pointed at an image whose copy was cut short: a selection
\* that moves, by whatever switch, failure or power loss, moves to a complete one.
THEOREM SelectionComplete == Spec => SelectsComplete
<1>1. LeaseInv /\ [Next]_vars => [Selected' # Selected => image[Selected'] # "torn"]_vars
  <2> SUFFICES ASSUME LeaseInv, [Next]_vars, Selected' # Selected
               PROVE  image[Selected'] # "torn"
    OBVIOUS
  <2>1. [SelectorNext]_selectorVars /\ IInv
    BY SelectorStep DEF LeaseInv, TrialInv, TypeOK, IInv
  <2>2. switch.step = "write" /\ Selected' = switch.dest
    BY <2>1, StepMoves
  <2>3. stage = "switch"
    BY <2>2 DEF LeaseInv, TrialInv, StageInv
  <2>4. QED
    BY <2>2, <2>3 DEF LeaseInv, CompleteInv
<1>2. QED
  BY <1>1, LeaseInvariant, PTL DEF Spec, SelectsComplete

\* No lease gives its candidate a third bounded boot, whatever resets, failed saves and
\* sleeps it goes through.
THEOREM TwoBootsAtMost == Spec => []AtMostTwoBoots
<1>1. LeaseInv => AtMostTwoBoots
  BY DEF LeaseInv, BootsInv, AtMostTwoBoots
<1>2. QED
  BY <1>1, LeaseInvariant, PTL

\* A lease recorded as returned without a failure is evidence of a trial that ran under
\* its deadline and was ended by it, or by the recovery timer, and of the intact image.
THEOREM ReturnedMeansTried == Spec => ReturnedIsEvidence
<1>1. LeaseInv /\ [Next]_vars =>
        [record.phase # "Returned" /\ record'.phase = "Returned" /\ record'.failure = "None"
           => trials > 0 /\ elapsed /\ image[running] = "dev"]_vars
  <2> SUFFICES ASSUME LeaseInv, Next, record.phase # "Returned",
                      record'.phase = "Returned", record'.failure = "None"
               PROVE  trials > 0 /\ elapsed /\ image[running] = "dev"
    OBVIOUS
  <2>1. Ending
    BY ReturnedWritten DEF LeaseInv
  <2>2. /\ record.phase = "Returning" /\ record.failure = "None"
        /\ image[running] = "dev"
    BY <2>1, EndWritten DEF LeaseInv
  <2>3. QED
    BY <2>2 DEF LeaseInv, EvidenceInv, Evidence
<1>2. QED
  BY <1>1, LeaseInvariant, PTL DEF Spec, ReturnedIsEvidence
===============================================================================
