------------------------------ MODULE TrialLease ------------------------------
(***************************************************************************)
(* A bounded firmware trial (boot/TrialLease.cpp, boot/TrialReader.cpp, the *)
(* install handler of web/PocketEndpoints.cpp, network/FirmwareFlasher.cpp): *)
(* the developer image records a lease in NVS, flashes a candidate into the  *)
(* other partition and restarts; the candidate runs under a deadline, and    *)
(* its next start selects the preserved partition again.  Everything before  *)
(* the main loop runs on one task, so the interleavings are power losses,    *)
(* resets and failures between two effects on flash, NVS or the RTC words.   *)
(***************************************************************************)
EXTENDS OtaSelector

CONSTANTS
  Faults,     \* the kinds of disturbance that may happen
  MaxUpsets,  \* bound: disturbances
  MaxRuns     \* bound: leases, named 1, 2, ...

FaultKinds == {"power", "panic", "read", "save", "hash", "selector", "copy", "timer", "update"}

ASSUME FaultsAssumption == Faults \subseteq FaultKinds
ASSUME BoundsAssumption == MaxUpsets \in Nat /\ MaxRuns \in Nat \ {0}

VARIABLES
  image,         \* what each app partition holds
  record,        \* the lease record (NVS)
  wake,          \* the auto-wake record of the reader plan (NVS)
  ticket,        \* the run a deadline ticket names, or 0 (RTC words)
  stage,         \* where this boot is
  running,       \* the partition that is running
  reset,         \* what ended the previous boot
  job,           \* what the flash or the selector switch in progress is for
  cur,           \* `current', the record in RAM
  trialActive,   \* the deadline of this boot is armed
  deadlineExit,  \* this boot follows an expired deadline
  trials,        \* history: the bounded boots of the current lease
  elapsed,       \* history: whether one of them ran its time
  runs,          \* leases provisioned so far
  upsets         \* disturbances so far

trialVars == <<image, record, wake, ticket, stage, running, reset, job, cur,
               trialActive, deadlineExit, trials, elapsed, runs, upsets>>
vars == <<selectorVars, trialVars>>
nvs  == <<record, wake>>
ram  == <<cur, trialActive, deadlineExit>>
boot == <<running, reset>>
history == <<trials, elapsed>>
environment == <<history, runs, upsets>>

\* "altered": any other image that starts; "torn": an interrupted copy, which does not.
Images   == {"dev", "trial", "altered", "torn"}
Phases   == {"Prepared", "Running", "Returning", "Returned", "Failed"}
Failures == {"None", "Unstarted", "TrialImage", "ReturnImage", "RecordCommit", "Timer",
             "ReturnBudget", "Selection", "UnexpectedReset"}
NoRecord == [run |-> 0, phase |-> "Failed", ret |-> 0, attempts |-> 0, failure |-> "None"]
Leases   == [run : 1 .. MaxRuns, phase : Phases, ret : Slots, attempts : 0 .. 2,
             failure : Failures]
Records  == Leases \cup {NoRecord}

Stages == {"off", "boot", "check", "arm", "recover", "switch", "up",
           "flash", "copy", "verify", "restore", "cancel"}

TypeOK ==
  /\ SelectorTypeOK
  /\ image \in [Slots -> Images]
  /\ record \in Records
  /\ wake \in {"none", "prepared", "waiting", "committed", "observing"}
  /\ ticket \in 0 .. MaxRuns
  /\ stage \in Stages
  /\ running \in Slots
  /\ reset \in {"power", "sw", "panic", "timer", "button"}
  /\ job \in {"none", "return", "install", "restore", "update"}
  /\ cur \in Records
  /\ trialActive \in BOOLEAN /\ deadlineExit \in BOOLEAN
  /\ trials \in 0 .. 3 /\ elapsed \in BOOLEAN
  /\ runs \in 0 .. MaxRuns
  /\ upsets \in 0 .. MaxUpsets

\* A reader with the developer image in the selected partition.
Init ==
  /\ SelectorInit
  /\ image = [s \in Slots |-> IF s = Selected THEN "dev" ELSE "altered"]
  /\ record = NoRecord
  /\ wake = "none"
  /\ ticket = 0
  /\ stage = "off"
  /\ running = Selected
  /\ reset = "power"
  /\ job = "none"
  /\ cur = NoRecord
  /\ trialActive = FALSE
  /\ deadlineExit = FALSE
  /\ trials = 0 /\ elapsed = FALSE
  /\ runs = 0
  /\ upsets = 0

Upset(kind) == kind \in Faults /\ upsets < MaxUpsets /\ upsets' = upsets + 1
Smooth == UNCHANGED upsets

-------------------------------------------------------------------------------
(* Helpers *)

other == 1 - running
LeasePending(phase) == phase \in {"Prepared", "Running", "Returning"}

\* save(): written and read back, or not; a failed one may have been written.
Saved(r)      == record' = r /\ Smooth
SaveFailed(r) == Upset("save") /\ record' \in {record, r}
Save(r)       == Saved(r) \/ SaveFailed(r)

\* hashPartition() finds the partition different from what it should hold, or
\* cannot read it.
Differs(slot, expected) ==
  \/ image[slot] # expected /\ Smooth
  \/ image[slot] = expected /\ Upset("hash")

\* The same for the preserved image, with the record that says so.
ReturnImageLost(slot, r) ==
  \/ image[slot] # "dev" /\ Save(r)
  \/ image[slot] = "dev" /\ Upset("hash") /\ record' = r

\* The reader stops; RAM is lost.
Down(why) ==
  /\ stage' = "off"
  /\ reset' = why
  /\ job' = "none"
  /\ cur' = NoRecord
  /\ trialActive' = FALSE
  /\ deadlineExit' = FALSE
  /\ UNCHANGED running

\* Restart with the ticket of the expired deadline: timeout().
Expire ==
  /\ ticket' = cur.run
  /\ elapsed' = TRUE /\ UNCHANGED trials
  /\ Down("sw")

-------------------------------------------------------------------------------
(* onBoot() *)

\* External: an image that is not complete is skipped for the other one.
BootSlot == IF image[Selected] # "torn" THEN Selected ELSE 1 - Selected

Boot ==
  /\ stage = "off"
  /\ image[BootSlot] # "torn"
  /\ running' = BootSlot
  /\ stage' = "boot"
  /\ UNCHANGED <<selectorVars, image, nvs, ticket, reset, job, ram, environment>>

\* No record, or one that cannot be read: an ordinary boot.
OrdinaryBoot ==
  /\ stage = "boot"
  /\ \/ record = NoRecord /\ Smooth
     \/ record # NoRecord /\ Upset("read")
  /\ stage' = "up"
  /\ UNCHANGED <<selectorVars, image, nvs, ticket, boot, job, ram, history, runs>>

\* The ticket of an expired deadline counts only after a restart by software.
Expired == ticket = record.run /\ reset = "sw"

\* The record of a boot of the preserved partition.
Settled(original) ==
  [record EXCEPT
     !.phase   = IF original /\ @ = "Returning" THEN "Returned" ELSE "Failed",
     !.failure = IF record.phase = "Running" THEN "UnexpectedReset"
                 ELSE IF record.phase = "Prepared" THEN "Unstarted"
                 ELSE IF original THEN @ ELSE "ReturnImage"]

ReturnBoot ==
  /\ stage = "boot"
  /\ record # NoRecord
  /\ running = record.ret /\ LeasePending(record.phase)
  /\ \/ image[running] = "dev" /\ cur' = Settled(TRUE) /\ Save(cur')
     \/ cur' = Settled(FALSE) /\ ReturnImageLost(running, cur')
  /\ stage' = "up"
  /\ ticket' = 0
  /\ deadlineExit' = Expired
  /\ UNCHANGED <<selectorVars, image, wake, boot, job, trialActive, history, runs>>

\* The lease is over.
TerminalBoot ==
  /\ stage = "boot"
  /\ record # NoRecord
  /\ ~LeasePending(record.phase)
  /\ cur' = record
  /\ stage' = "up"
  /\ ticket' = 0
  /\ deadlineExit' = Expired
  /\ UNCHANGED <<selectorVars, image, nvs, boot, job, trialActive, environment>>

\* Mutant: the record that permits a resumption is left as it is.
ResumptionKept == wake' = "committed" /\ Smooth
\* beginTimerResume() consumes the permission before anything else happens.
ResumptionConsumed == wake' = "observing" /\ Smooth

\* A start of the candidate: the first one, the one resumption after a natural
\* sleep, or the return.
TrialBoot ==
  /\ stage = "boot"
  /\ record # NoRecord
  /\ running # record.ret /\ LeasePending(record.phase)
  /\ LET resumable == /\ record.phase = "Running" /\ ~Expired
                      /\ wake = "committed" /\ reset = "timer"
     IN \/ resumable /\ ResumptionConsumed /\ stage' = "check"
        \/ resumable /\ Upset("save") /\ wake' \in {wake, "observing"} /\ stage' = "recover"
        \/ /\ ~resumable
           /\ stage' = IF record.phase = "Prepared" THEN "check" ELSE "recover"
           /\ UNCHANGED wake /\ Smooth
  /\ cur' = record
  /\ ticket' = 0
  /\ deadlineExit' = Expired
  /\ UNCHANGED <<selectorVars, image, record, boot, job, trialActive, history, runs>>

\* Without the image to return to the lease ends here.
ReturnImageBad ==
  /\ stage = "check"
  /\ cur' = [cur EXCEPT !.phase = "Failed", !.failure = "ReturnImage"]
  /\ ReturnImageLost(cur.ret, cur')
  /\ stage' = "up"
  /\ UNCHANGED <<selectorVars, image, wake, ticket, boot, job, trialActive, deadlineExit,
                 history, runs>>

TrialImageBad ==
  /\ stage = "check"
  /\ image[cur.ret] = "dev"
  /\ Differs(running, "trial")
  /\ cur' = [cur EXCEPT !.failure = "TrialImage"]
  /\ stage' = "recover"
  /\ UNCHANGED <<selectorVars, image, nvs, ticket, boot, job, trialActive, deadlineExit,
                 history, runs>>

StartTrial ==
  /\ stage = "check"
  /\ image[cur.ret] = "dev" /\ image[running] = "trial"
  /\ LET started == [cur EXCEPT !.phase = "Running"] IN
     \/ Saved(started) /\ cur' = started /\ stage' = "arm"
     \/ /\ SaveFailed(started)
        /\ cur' = [started EXCEPT !.failure = "RecordCommit"]
        /\ stage' = "recover"
  /\ UNCHANGED <<selectorVars, image, wake, ticket, boot, job, trialActive, deadlineExit,
                 history, runs>>

\* Mutant: the candidate starts all the same.
TimerIgnored == stage' = "up" /\ UNCHANGED cur
\* No timer, no trial: back to the preserved image at once.
WithoutTimer == stage' = "recover" /\ cur' = [cur EXCEPT !.failure = "Timer"]

ArmDeadline ==
  /\ stage = "arm"
  /\ \/ /\ trialActive' = TRUE
        /\ trials' = (IF trials < 3 THEN trials + 1 ELSE trials) /\ UNCHANGED elapsed
        /\ stage' = "up"
        /\ UNCHANGED cur /\ Smooth
     \/ /\ Upset("timer")
        /\ WithoutTimer
        /\ UNCHANGED <<trialActive, history>>
  /\ UNCHANGED <<selectorVars, image, nvs, ticket, boot, job, deadlineExit, runs>>

-------------------------------------------------------------------------------
(* recover() *)

\* Mutant: one attempt too many.
BudgetOfThree == cur.attempts <= 2
\* Two selections of the preserved partition, whatever became of them.
BudgetLeft == cur.attempts < 2

\* The budget is spent, or the preserved image is not what it was: stay up.
GiveUp ==
  /\ stage = "recover"
  /\ \/ ~BudgetLeft /\ cur' = [cur EXCEPT !.phase = "Failed", !.failure = "ReturnBudget"]
                         /\ Save(cur')
     \/ BudgetLeft /\ cur' = [cur EXCEPT !.phase = "Failed", !.failure = "ReturnImage"]
                         /\ ReturnImageLost(cur.ret, cur')
  /\ stage' = "up"
  /\ UNCHANGED <<selectorVars, image, wake, ticket, boot, job, trialActive, deadlineExit,
                 history, runs>>

\* Mutant: a panic counts as the end of a healthy trial.
OrderlyReset == deadlineExit \/ reset \in {"timer", "panic"}
\* The deadline expired, or the recovery timer woke the sleeping reader.
Orderly == deadlineExit \/ reset = "timer"

\* The attempt is put on record, as far as that works, then the partition is selected.
Return ==
  /\ stage = "recover"
  /\ BudgetLeft
  /\ image[cur.ret] = "dev"
  /\ LET attempt == [cur EXCEPT !.phase = "Returning", !.attempts = @ + 1,
                                !.failure = IF @ = "None" /\ ~Orderly
                                            THEN "UnexpectedReset" ELSE @]
     IN \/ Saved(attempt) /\ cur' = attempt
        \/ SaveFailed(attempt) /\ cur' = [attempt EXCEPT !.failure = "RecordCommit"]
  /\ SwitchBegin(cur.ret)
  /\ job' = "return"
  /\ stage' = "switch"
  /\ UNCHANGED <<image, wake, ticket, boot, trialActive, deadlineExit, history, runs>>

-------------------------------------------------------------------------------
(* switchTo(), for whoever asked *)

Erase ==
  /\ SwitchErase
  /\ UNCHANGED trialVars

Write ==
  /\ SwitchWrite
  /\ CASE job \in {"return", "update"} -> Down("sw")
       [] job = "install" -> stage' = "verify" /\ UNCHANGED <<boot, job, ram>>
       [] job = "restore" -> stage' = "cancel" /\ UNCHANGED <<boot, job, ram>>
  /\ UNCHANGED <<image, nvs, ticket, environment>>

\* A failure ends the attempt where it is: no caller tries again by itself.
SwitchFails ==
  /\ stage = "switch"
  /\ SwitchCut
  /\ Upset("selector")
  /\ CASE job = "return"  -> /\ stage' = "up"
                             /\ cur' = [cur EXCEPT !.failure = "Selection"]
                             /\ record' \in {record, cur'}
       [] job = "update"  -> stage' = "up" /\ UNCHANGED <<cur, record>>
       [] job = "install" -> stage' = "restore" /\ UNCHANGED <<cur, record>>
       [] job = "restore" -> stage' = "cancel" /\ UNCHANGED <<cur, record>>
  /\ UNCHANGED <<image, wake, ticket, boot, job, trialActive, deadlineExit, history, runs>>

-------------------------------------------------------------------------------
(* installDevTrial(), with prepare(), the flasher and what follows *)

Prepare ==
  LET lease == [run |-> runs + 1, phase |-> "Prepared", ret |-> running, attempts |-> 0,
                failure |-> "None"] IN
  /\ stage = "up"
  /\ image[running] = "dev"
  /\ record = NoRecord
  /\ runs < MaxRuns
  /\ \/ Saved(lease) /\ stage' = "flash" /\ job' = "install"
     \/ SaveFailed(lease) /\ wake' = "none" /\ UNCHANGED <<stage, job>>
     \/ /\ Upset("save")                       \* the return marker cannot be written
        /\ record' = [lease EXCEPT !.phase = "Failed"]
        /\ UNCHANGED <<stage, job>>
  /\ cur' = lease
  /\ wake' \in {"none", "prepared"}
  /\ runs' = runs + 1
  /\ trials' = 0 /\ elapsed' = FALSE
  /\ UNCHANGED <<selectorVars, image, ticket, boot, trialActive, deadlineExit>>

\* Mutant: the flasher does not ask about the trial.
FlashAlways == TRUE
\* The flasher refuses while a trial is active in this boot.
FlashAllowed == ~trialActive

\* The user installs a firmware file.
Update ==
  /\ stage = "up"
  /\ FlashAllowed
  /\ Upset("update")
  /\ stage' = "flash"
  /\ job' = "update"
  /\ UNCHANGED <<selectorVars, image, nvs, ticket, boot, ram, history, runs>>

AfterFailedCopy == stage' = IF job = "install" THEN "restore" ELSE "up"

\* The first sector of the next partition is erased.
CopyBegin ==
  /\ stage = "flash"
  /\ \/ image' = [image EXCEPT ![other] = "torn"] /\ stage' = "copy" /\ Smooth
     \/ Upset("copy") /\ AfterFailedCopy /\ UNCHANGED image
  /\ UNCHANGED <<selectorVars, nvs, ticket, boot, job, ram, history, runs>>

\* The file is in the partition, or what was read from it; it is selected.
CopyDone ==
  /\ stage = "copy"
  /\ \/ image' = [image EXCEPT ![other] = IF job = "install" THEN "trial" ELSE "altered"]
        /\ Smooth
     \/ job = "install" /\ Upset("copy") /\ image' = [image EXCEPT ![other] = "altered"]
  /\ SwitchBegin(other)
  /\ stage' = "switch"
  /\ UNCHANGED <<nvs, ticket, boot, job, ram, history, runs>>

\* Mutant: a short read ends the copy as the end of the file does.
CopyEndsEarly ==
  /\ stage = "copy"
  /\ Upset("copy")
  /\ SwitchBegin(other)
  /\ stage' = "switch"
  /\ UNCHANGED <<image, nvs, ticket, boot, job, ram, history, runs>>

\* The card or the flash fails: the copy is left as it is.
CopyFails ==
  /\ stage = "copy"
  /\ Upset("copy")
  /\ AfterFailedCopy
  /\ UNCHANGED <<selectorVars, image, nvs, ticket, boot, job, ram, history, runs>>

\* verifyDestination() holds, and the candidate is started.
Verified ==
  /\ stage = "verify"
  /\ image[other] = "trial"
  /\ Down("sw")
  /\ UNCHANGED <<selectorVars, image, nvs, ticket, environment>>

VerifyFails ==
  /\ stage = "verify"
  /\ Differs(other, "trial") \/ Upset("read")
  /\ stage' = "restore"
  /\ UNCHANGED <<selectorVars, image, nvs, ticket, boot, job, ram, history, runs>>

\* The running partition is selected again; whether that worked is not asked.
RestoreSelection ==
  /\ stage = "restore"
  /\ SwitchBegin(running)
  /\ job' = "restore"
  /\ stage' = "switch"
  /\ UNCHANGED <<image, nvs, ticket, boot, ram, environment>>

CancelPrepared ==
  /\ stage = "cancel"
  /\ \/ record.phase = "Prepared" /\ cur' = [record EXCEPT !.phase = "Failed"] /\ Save(cur')
     \/ Upset("read") /\ UNCHANGED <<cur, record>>
  /\ stage' = "up"
  /\ UNCHANGED <<selectorVars, image, wake, ticket, boot, job, trialActive, deadlineExit,
                 history, runs>>

\* clear(), by the developer image once the lease is over.
ClearRecord ==
  /\ stage = "up"
  /\ image[running] = "dev"
  /\ record # NoRecord /\ ~LeasePending(record.phase)
  /\ record' = NoRecord
  /\ wake' = "none"
  /\ cur' = record
  /\ UNCHANGED <<selectorVars, image, ticket, stage, boot, job, trialActive, deadlineExit,
                 environment>>

-------------------------------------------------------------------------------
(* While the reader is up *)

\* The deadline timer, or the end of the plan: returnNow().
Timeout ==
  /\ stage = "up"
  /\ trialActive
  /\ Expire
  /\ UNCHANGED <<selectorVars, image, nvs, runs, upsets>>

\* The reader plan opens its book.
ReaderBegin ==
  /\ stage = "up"
  /\ trialActive
  /\ wake = "prepared"
  /\ \/ wake' = "waiting" /\ Smooth /\ UNCHANGED <<stage, ticket, reset, job, ram, history, running>>
     \/ wake' \in {wake, "waiting"} /\ Upset("save") /\ Expire
  /\ UNCHANGED <<selectorVars, image, record, runs>>

\* observeAutoSleep(): the finished plan goes to sleep by itself.
CommitAutoSleep ==
  /\ stage = "up"
  /\ trialActive
  /\ wake = "waiting"
  /\ \/ wake' = "committed" /\ Smooth /\ UNCHANGED <<stage, ticket, reset, job, ram, history, running>>
     \/ wake' \in {wake, "committed"} /\ Upset("save") /\ Expire
  /\ UNCHANGED <<selectorVars, image, record, runs>>

\* Deep sleep; during a trial the recovery timer wakes it, unless the button is
\* faster or there is no timer, and a plan that had not finished ends here.
Sleep ==
  /\ stage = "up"
  /\ \/ ~trialActive /\ Down("button") /\ UNCHANGED <<ticket, history>>
     \/ trialActive /\ wake = "waiting" /\ Expire
     \/ /\ trialActive /\ wake # "waiting"
        /\ \/ Down("timer") /\ elapsed' = TRUE /\ UNCHANGED trials
           \/ Down("button") /\ UNCHANGED history
           \/ Down("sw") /\ UNCHANGED history
        /\ UNCHANGED ticket
  /\ UNCHANGED <<selectorVars, image, nvs, runs, upsets>>

\* Any other restart by software, as at the end of a transfer session.
Restart ==
  /\ stage = "up"
  /\ Down("sw")
  /\ UNCHANGED <<selectorVars, image, nvs, ticket, environment>>

Cut == IF switch.step = "none" THEN UNCHANGED selectorVars ELSE SwitchCut

\* Power is lost, also in deep sleep: the RTC words go with it.
PowerLoss ==
  /\ Upset("power")
  /\ Cut
  /\ Down("power")
  /\ ticket' = 0
  /\ UNCHANGED <<image, nvs, history, runs>>

\* A panic or the watchdog: the RTC words survive.
Panic ==
  /\ stage # "off"
  /\ Upset("panic")
  /\ Cut
  /\ Down("panic")
  /\ UNCHANGED <<image, nvs, ticket, history, runs>>

BootSteps ==
  \/ Boot \/ OrdinaryBoot \/ ReturnBoot \/ TerminalBoot \/ TrialBoot
  \/ ReturnImageBad \/ TrialImageBad \/ StartTrial \/ ArmDeadline
  \/ GiveUp \/ Return \/ Erase \/ Write \/ SwitchFails

Install ==
  \/ Prepare \/ Update \/ CopyBegin \/ CopyDone \/ CopyFails
  \/ Verified \/ VerifyFails \/ RestoreSelection \/ CancelPrepared \/ ClearRecord

Use == Timeout \/ ReaderBegin \/ CommitAutoSleep \/ Sleep \/ Restart

Next == BootSteps \/ Install \/ Use \/ PowerLoss \/ Panic

Spec == Init /\ [][Next]_vars

\* The reader starts when it is off (a trial never sleeps without a timer), start-up
\* runs to its end, and an armed timer fires.
LiveSpec == Spec /\ WF_vars(BootSteps) /\ WF_vars(Timeout)

-------------------------------------------------------------------------------
(* Properties *)

\* The selection moves only to a complete image, however a copy or a switch is cut
\* short (FirmwareFlasher.cpp, "a truncated/corrupted .bin can never become the next
\* boot target").
SelectsComplete == [][Selected' # Selected => image[Selected'] # "torn"]_vars

\* While a trial is active, the image to return to is untouched in the other partition.
ReturnImageKept == trialActive => image[other] = "dev"

\* No path through start-up leaves the candidate up without a deadline while the lease
\* is pending, but for the outcomes the code names: an unreadable record, a spent
\* budget or lost return image, a selector that cannot be written (onBoot, recover).
NeverUnbounded ==
  stage = "up" /\ LeasePending(record.phase) /\ running # record.ret /\ ~trialActive =>
    cur = NoRecord \/ cur.phase = "Failed" \/ cur.failure = "Selection"

\* "Returned" without a failure is evidence: in this lease the candidate did run under
\* its deadline, the deadline or the recovery timer ended it, and the partition was
\* verified, whatever resets and failed saves happened in between.
ReturnedIsEvidence ==
  [][record.phase # "Returned" /\ record'.phase = "Returned" /\ record'.failure = "None"
       => trials > 0 /\ elapsed /\ image[running] = "dev"]_vars

\* "At most two bounded production boots occur" (docs/developer-trial-lease.md).
AtMostTwoBoots == trials <= 2

\* Every trial ends: the reader comes to a boot in which it is not active.
TrialEnds == trialActive ~> stage = "up" /\ ~trialActive

\* "During a lease the normal flasher and native OTA installer cannot overwrite the
\* return slot" (docs/developer-trial-lease.md).
LeaseKeepsReturnSlot == LeasePending(record.phase) => image[record.ret] = "dev"
===============================================================================
