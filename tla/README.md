# Pocket Daily firmware: TLA+ models, checks and proofs

Pocket Daily is firmware for small e-ink readers (ESP32-C3, SD card, one main loop task, one
render task, NimBLE and Wi-Fi callbacks). A phone companion sends it content, books and firmware.
This directory holds models of the parts whose correctness depends on order, interruption and
failure: what survives when power goes between two card writes, what a lost reply means, which of
two tasks sees what first. Paths below are relative to the repository root.

## 1. Inventory

| Part | State it keeps | Operations | Interacts with | Hard behaviour | What makes it correct |
|---|---|---|---|---|---|
| Content records `src/pocket_daily/ContentActiveStore.*` | two 76-byte slot files with generation, revision, CRC | recover, activate, retire | endpoints, presentation, seal store | torn writes, spurious reads, unverifiable content, generation limit | one recoverable selection, replaced only by a commit |
| Content revisions, seal `ContentRevisionStore`, `ContentSealStore`, `ContentManifest`, `ContentPathPolicy` | directories under `/.pocket/…`, one per manifest hash | verify, prepare, seal, remove | records, endpoints | interrupted removal, duplicate staging | a named revision is never taken apart |
| Content endpoints `web/PocketEndpoints.cpp` 116-223, 450-562 | none of their own | prepare, activate (seal + record + retire), present | all of the above | one request is many card writes | |
| Presentation `ContentPresentation`, `ContentViewState`, `PresentationSlot`, `ScreenPresentation` | phase, requested revision and generation, snapshot | enqueue, service, render, navigate, hide | render task, records | recovery repeated between request and load | a shown revision stays on the card |
| Upload stream `web/UploadStreamServer.*` (port 82) | connection, batch, running CRC, resume ledger, staged ledger | service slice, begin, flush, suspend, fail, finish, stop, discard | card, companion, commit | lost links, half-written batches, acknowledgement window, timeouts | the ledgers describe the card; the listener frees itself |
| Publication `handleCommitUpload`, `PublicationReceipt.*` | target, `.pocket-backup.part`, receipt file | commit, query | stream's staged ledger | power loss between renames, lost replies, retries | what is published is complete, what is confirmed was published |
| Staged firmware `staged_firmware.*`, `StagedFirmwareStore` | one-shot marker in no-init RAM | arm, take, offer | commit, boot | restart between | offer only what was published |
| Trial lease `boot/TrialLease*`, `boot/TrialReader`, `network/OtaBootSwitch`, `network/FirmwareFlasher` | NVS record, OTA selector sectors, two app partitions, deadline timer and ticket | prepare, install, boot, recover, time out, sleep, clear | bootloader, endpoints | resets between selector and record writes, return budget | a trial is bounded and returns to a verified image |
| Boot `boot/ProductBoot`, `boot/DevBootReturn`, `SilentRestart` | silent-restart words | request, consume | every mode switch | power-on garbage | one landing screen per request |
| Nearby sync session `nearby_sync/ReadingSyncSession`, `ReadingSyncProtocol`, `NearbySyncService`, `NearbySyncRecords` | record queue, list, offer, four replies, link generation | READ_LIST, OFFER, W, pump | NimBLE task, reading store | link changes, queue overflow, stuck notifications | one answer per request, none across links |
| Exchange window `nearby_sync/ExchangeWindow*` | controller state, start worker's result | arm, tick, close, start, stop | activity manager, radio | asynchronous start, memory gates | radio released before a screen that needs the heap |
| Wi-Fi setup, keyboard remote `WifiSetup*`, `KeyboardRemote` | one-shot ticket; HID stream | receive, take, cancel | window | restart | ticket used once |
| Reading progress `ReadingProgressStore`, `ReadingProgress`, `ReadingExchange`, `ReadingProgressReader` | record, offer and sequence files | save, offer, apply, list | sync, reader | crash in replace-by-rename, stale offers | an offer never overwrites newer reading |
| Activity manager `activities/ActivityManager`, `main.cpp` | current activity, stack, pending action, waiting task | push, pop, replace, requestUpdate(AndWait) | render task, every screen | two tasks, deferred transitions | no draw of a deleted screen, no lost wake-up |
| Page-turner radio `lib/BlePageTurner` | scan/connect state | tick, pause, resume | activity manager | asynchronous radio | heap returned before a screen change |
| Live Studio `web/LiveStudioService`, `live_studio/*` | subscription, pacing | tick, suspend, resume | stream server | | push paused in transfers |
| Radio policies `PrivateApPolicy`, `StaRadioWatch`, `RadioHealthPolicy`, `direct_session.h` | counters and times | tick | Wi-Fi | | restart only after real loss |
| HTTP / WebDAV file server `network/CrossPointWebServer*`, OTA `OtaUpdater`, `HttpDownloader` | inherited | file operations, download | card, network | | |
| Developer tools `dev/*`, `nearby_sync/DevSleepCycle` | tickets, captures | | | | compiled into developer builds only |
| Stores, learning packs, home, readers, parsers, UI, fonts, `lib/hal` | files, caches | | | | data and drawing, little control |

Not-modelled parts are listed with their reasons in `PROJECT.json`.

## 2. Modules

| Module | Models | Correspondence |
|---|---|---|
| `ContentRecords` | `newest`, `recover`, target choice of `ContentActiveStore.cpp` | pure operators over what the two reads and verifications returned |
| `ContentStore` | the content handlers end to end | `slot` = the two record files, `published`/`staged` = the revision directories, `shown` = `ContentPresentation`, `op` = program counter and locals of the activate handler, `confirmed` = history of the last `Ok` |
| `ActiveSelection` | the promise: one selection register | abstract specification, refined by `ContentStore` through `Selected` |
| `UploadStream` | `UploadStreamServer` and the companion across the network | `part` = staging files, `rx` = members of the server for the transfer in progress, `resume` and `staged` = its two ledgers, `client`/`pending` = accepted and queued connection |
| `UploadCommit` | `handleCommitUpload`, the receipt, and the one-shot marker of a published `/update.bin` with the boot that turns it into an offer, composed with the stream | extends `UploadStream`; `target`, `backup`, `receipt` = files, `op` = the step of the commit in progress, `marker` = `publishedMarker`, `offer` = the confirmation on the screen |
| `MCContentStore`, `MCUploadCommit` | symmetry sets for the runs | |
| `OtaSelector` | `switchTo()` of `OtaBootSwitch.cpp` | `entry` = the sequence numbers of the two otadata sectors (0: erased or not valid), `switch` = the call in progress; `Selected` is what the stock bootloader would start |
| `TrialLease` | `TrialLease.cpp`, the auto-wake record of `TrialReader.cpp`, the install handler, SD updates and the flasher | extends `OtaSelector`; `image` = what the two app partitions hold, `record` and `wake` = NVS, `ticket` = RTC words, `cur`, `trialActive`, `deadlineExit` = the RAM of one boot, `stage` and `job` = where start-up or the handler is |
| `ActivityManager` | screens, pending transitions, the render task and its notifications, the rendering mutex, blocking updates | `current`, `stack`, `action`, `pending` = members of the class; `render` = where the render task is; `waiter` = `waitingTaskHandle` and whether it was notified |
| `ExchangeWindow` | `Controller`, the start worker, `prepareWindowMemory`/`stopRadio`, closing | `window`, `trigger` = the controller's state, `framed`, `waited`, `expired` = its frame count and clocks, `worker` = `startState`, `runtime` = the memory lent to NimBLE |
| `Shell` | the main task over both: input checks, `ActivityManager::loop()`, the transitions it settles, `Window::loop()`, `enterDeepSleep()`, wake | extends both; `step` = where the main task is, `resume` = where it goes on after a wait, `closedBook`, `sleeping` = the locals and the latch of the same meaning |
| `ReadingProgress` | one book's `progress.bin`, record, sequence counter and offer file, with the reader that writes them and the companion that lists and offers | `progress`, `record`, `counter`, `offer` = the files; `page`, `pending`, `saved` = members of `EpubReaderActivity`; `step` and `held` = the write in progress and what it writes |
| `ReadingSync` | `ReadingSyncSession` with the record queue in front of it and the pump behind it, over successive BLE links | `queue`, `overflow`, `generation` = `NearbySyncRecords`; `session` = members of the session; `command` = the popped record; `asked`, `sent`, `heard` = the companion |
| `ContentStoreProofs`, `OtaSelectorProofs`, `TrialLeaseProofs`, `ShellProofs`, `ReadingProgressProofs`, `UploadStreamProofs`, `UploadCommitProofs`, `ReadingSyncProofs` | theorems about the modules they are named after | `UploadStreamProofs` holds the stream's half of the invariant that `UploadCommitProofs` completes |

**One action per card effect.** The handlers run to completion on the main loop, so two handlers
never interleave; power can go between any two card writes, and the render task runs at any time.
`ContentStore` therefore splits the activate handler into its card effects (seal rename, each
removal step, the truncating open, the write, the read-back, retirement) with `op` remembering where
it is, and `UploadCommit` does the same for the renames of a commit. Uploads arrive in slices: one
`service()` pass is one action with everything it does in that pass. Start-up and the install handler
of `TrialLease` run on the one main task, too, and are split at their effects on flash, NVS and RTC
memory: hashing a partition, a `save()`, the erase and the write of a selector sector, the first
erased sector and the end of a copy. `Shell` splits a pass of the loop where it takes or releases the rendering
mutex, notifies, waits or hands over to the start worker, since the render task and the worker run in between;
`ReadingProgress` splits writes at each remove and rename; `ReadingSync` splits a pass at every read
of the link's generation.

**Data abstractions.** A revision directory is *absent*, *bare* (no manifest), *partial*, *complete*,
*rotten* or, in staging, with *extra* files: the distinctions that verification, sealing and removal
make. A payload is the sequence `1..Size`, each byte named by its position, so lost, repeated or
displaced bytes show; a CRC is the prefix it was computed over, so collisions do not exist. A rename
of the file system is atomic. All payloads of a run have one size. Deleting a tree is three steps,
assets, manifest, directory.

**Faults.** `RecordFaults`: a record read may spuriously report *missing* (`exists()` fails) or
*failed*; `ContentFaults`: verifying an intact revision may fail (read error, exhausted heap) and
removals may report failure; `Decay`: an asset stops matching its hash; `Crash`: RAM is lost, the card
stays. In the upload models every lost link, timeout, failed card operation, discard by the app and
restart counts as an *upset*, bounded by `MaxUpsets`. A `Careless` client ignores the offset the
reader grants.

In `TrialLease` a disturbance is a power loss at any step (the RTC words go with it, also in deep
sleep), a panic (they stay), an NVS read or write that fails (a failed write may have taken
effect: a blob is old or new, never torn), a hash that fails though the image is right, a selector
operation that fails with its sector in any state, a copy that fails or writes something
else, a timer that cannot be armed, and a firmware update by the user. At most one of them strikes a
step. An image is *dev*, *trial*, *altered* (any other that starts) or *torn*; the stock bootloader
skips a torn one. Of the reader plan only the record that permits one resumption is kept: what the
plan reads and renders decides when it may sleep, which the model leaves open. The network updater
is the same action as the SD update, since both ask `active()` first. Builds with the
diagnostic RTC arena, which add a second kind of resumption, are left out.

In `UploadCommit` the target is `/update.bin` and both transfers have its size. A session ends in a silent
restart, to the shell or elsewhere, or in a power loss, a panic or sleep; the marker is in memory that a restart
keeps, and every boot takes it. While the confirmation is on the screen no session runs.

In `Shell` a screen is one of five kinds: Pocket Daily, Home, a book, any other, the sleep screen; they differ
in what the window may do beside them. The stack is bounded by `MaxDepth`, the transitions that `onEnter()` and result
handlers ask for in one pass by `MaxHops`. Time is two booleans: the window's deadline and the 15 s a trigger waits for
its frame may pass at any moment. A memory gate or the start of NimBLE may fail, `stopRadio()` may give up
on the worker. An activity may ask for anything a screen of its kind may ask for, at any pass.

In `ReadingProgress` pages are `0..LastPage` of one chapter, with the end screen behind them; an offer or a
record is the decoded file. A `.tmp` file is never read and is left out. Power is cut between any two card
operations; a write, remove or rename may fail; memory for the record may be missing. In `ReadingSync` a list has `Pieces`
data records, an offer `Chunks` chunks; the link may change between any two steps, the stack may refuse a notification, the
store may fail, the companion may abandon an exchange for the next.

## 3. Runs

| Run | Bounds | Shows |
|---|---|---|
| `content_faults` | 3 revisions (up to symmetry), generations to 3, one staged candidate, every spurious answer and decay | `NamedRevisionsKept`, `AlwaysARecord`, `NeverUnselected`, `TypeOK` |
| `content_crash` | 3 revisions, generations to 4, two candidates, observable failures and crashes | `ImplementsRegister`: the store refines `ActiveSelection`, so the selection changes only by a completed record and a confirmation only names what is selected |
| `content_transient` | verification of intact content may fail | violates `PreviousKeptUntilCommit` (finding 1) |
| `upload_safety` | two transfers to one target, 4 bytes, batch 3, window 3, three upsets, careless clients | ledgers describe the card, what is published is complete, what is confirmed was published; after one upset the old or the new version is always under target or backup (`SingleUpsetKeepsVersion`); a boot offers only what the session it ends published (`OffersThisSession`) |
| `upload_lost` | two upsets | violates `VersionKept` (finding 2) |
| `upload_live` | one transfer of 4 bytes, batch 2, window 3, three upsets, fairness | the staged prefix is exact (`PrefixExact`); the companion eventually learns of its publication |
| `trial_return` | two leases, three disturbances of every kind | `SelectionMoves`, `SelectsComplete`: only a completed switch moves the selection, only to a complete image; `ReturnImageKept`; `NeverUnbounded`: no start without a deadline but for the outcomes the code accepts; `AtMostTwoBoots`; `ReturnedIsEvidence`; `TrialEnds` (liveness) |
| `trial_overwrite` | one lease, a selector failure and an update | violates `LeaseKeepsReturnSlot` (finding 3) |
| `shell` | two activities under the current one, one transition asked for by handlers per pass | `DrawsCurrentScreen`: the render task never draws a screen the main task has destroyed; `RadioMemoryReturned`: NimBLE's memory is freed only when its worker is done; `RadioYields`: no book beside the radio, no pass begins with the radio on a screen that does not tolerate it; `LoopReturns`, `RadioComesDown`, `ScreenPainted` (liveness): no wait is for ever, a window closes, no repaint is lost |
| `reading_progress` | two pages and the end screen, sequences to 2, two upsets | `SequenceNamesPlace`, `StoredAgainstSaved`: an offer is bound to one place and stored only against it; `SavesLastDrawn`, `ReportsWhereLeft`: no queued save is lost, and the companion is told where the book was left |
| `reading_finished` | the same without upsets | violates `ReportsFinished` (finding 4) |
| `reading_sync` | two links, two exchanges, the code's queue depth (4) and reply slots (4), lists of two records, offers of three chunks, one retry | `OwnAnswers`: no answer crosses a link; `OkIsFinal`, `ListWhole`; `ListEnds`, `AnsweredUnlessLost` (liveness) |

Why these bounds suffice. Three revisions are what activation and retirement tell apart: the one
being activated, the one recovery protects and the one evicted; the generation bound lets each slot
be overwritten at least once and the limit be met. Two staged candidates are needed for a seal to happen
while an older candidate waits. Four bytes with a batch of two or three give a full, a partial and a last
batch; a window equal to the batch and one larger than it cover the build with the borrowed 4 KiB
buffer and the one without. Three upsets allow a fault in a resumption of a resumption; in `trial_return` they allow
one fault in each of the two return attempts and one before, and the second lease starts from what the
first one left in RTC memory, the selector and the partitions. Selector numbers
need no bound of their own: a switch adds at most two, and leases and disturbances bound the switches.
In `shell` two activities below the current one let a pop uncover a screen that is itself popped, and one
transition per pass lets a handler or `onEnter()` ask for one while another is settled; the passes are unbounded. In
`reading_progress` two pages are a first and a last one, two sequences let a record be replaced and an offer outlive it,
and two upsets let a failure meet what an earlier one left. In `reading_sync` the second link meets what
the first left in the queue, the session and the command just popped; three chunks are a first, a middle and a last one;
one retry is a refusal that is tried again and one that gives up (the code's limit only counts).
Deadlock checking stays on in every run: content actions never run out, the companion always has another
move, and the reader can always be restarted.

**Fairness.** In `upload_live` the main loop calls `service()` on every pass and a handler runs to
its end: weak fairness of the service slice and of the commit steps. The companion retries, sends
and reads, and a person answers the confirmation: weak fairness of these. Disturbances are finite because
`MaxUpsets` bounds them; nothing is assumed about
when they come. No fairness is assumed of the environment's other actions, and a connection that stays silent is
dropped by the idle timeout, part of `Service`. In `trial_return` start-up runs to its end on the one
task that exists then (weak fairness of `BootSteps`, the bootloader included, because a sleeping trial has its
recovery timer armed and a person switches on a reader that is off), and an armed one-shot timer
fires (weak fairness of `Timeout`). `TrialEnds` needs both and nothing about the user. In `shell` the main task, the
render task and the worker have one priority and are time-sliced (weak fairness of each, so every mutex is
taken in the end), timers run and a start of NimBLE ends one way or the other; `RunActivity` is strongly fair: gestures,
which skip the activity for one pass, do not fill every pass for ever. In `reading_sync` only the main loop is fair;
nothing is assumed of companions, of the link or of notifications.

Four runs are meant to fail; each states a sentence of the documentation, quoted in `PROJECT.json`:

1. *Transient verification failure.* `docs/content-seal-store.md` says that activation preserves the
   previous active revision until it succeeds. When the newest revision fails to verify once,
   recovery protects the older record and the newest is truncated before the new one is written.
2. *Two power losses.* `docs/nearby-sync-v1.md` says that the previous published file remains intact in
   every case. Nothing restores `.pocket-backup.part` after a power loss between the two renames, and the
   next commit removes it first.
3. *Return slot overwritten.* `docs/developer-trial-lease.md` says that during a lease the normal
   flasher and the native installer cannot overwrite the return slot. They ask whether a trial is
   active in this boot. After a selector failure in `recover()` the candidate stays up, pending but not
   active, and an update overwrites the return image.
4. *Finished book.* `docs/reading-progress-v1.md` says that the percentage is 1 on the end-of-book screen. That screen
   queues no save, so the record written at exit names the end and `progress.bin` the last page; the record
   then counts as not current, and the last page is reported with sequence 0.

Observations that no property is about: a retired revision whose removal was cut short can never be
sealed again (sealing refuses an invalid target and nothing removes it); the publication receipt
remembers only the latest publication, so an older confirmation cannot be repeated; a prefix that is
complete when its `RESUME` reply fails is discarded rather than kept; the copy of a new firmware may overwrite the partition that
an earlier, unverified copy left selected, and only the bootloader's fallback starts the reader then.
More of them:

- *Content.* When `exists()` hides the newest record, activating the revision of the older, visible one returns Ok
  without a write, though the next recovery selects the hidden one (`ContentActiveStore.cpp:114`, against
  `docs/content-active-store.md`). All calls of the presentation slot but two status reads hold the rendering
  mutex, so its two kinds of presentation exclude each other by the order of the calls alone.
- *Uploads.* Two companions that upload to the same directory at once can sweep each other's staging file for ever;
  `EventuallyDone` is claimed for one.
- *Trial.* `installDevTrial` ignores whether the selector could be switched back and cancels the lease; when that
  switch failed, the next restart starts the failed candidate (`PocketEndpoints.cpp:2112-2114`, against its comment).
- *Shell.* The pop of the last activity enters Home with the window still open, and a dialog's pop may enter Pocket Daily with the radio
  up (`ActivityManager.cpp:227-231` against the comment of `Activity.h:52-53`); `Window::loop()` closes it in the same
  pass, which is why `RadioYields` speaks of the start of a pass. `goToSleep()` can return
  without the sleep screen when another transition is asked for meanwhile. The render task may draw an
  activity before its `onEnter()`. A frame under way when `requestUpdateAndWait()` is called ends the wait
  although it does not show what the caller changed (`ActivityManager.cpp:113` against `Activity.h:43`).
- *Reading place.* Leaving before the last turn is drawn leaves `progress.bin` one page behind the record. A missing
  `progress.bin` makes any record current though the book opens at its start. A counter that cannot be written is ignored
  and its sequence used again, as the documentation says (`lost` exempts it). `takeFurtherOffer` compares
  only the sequence.
- *Reading sync.* The overflow flag is taken before the queued OFFER it concerns, so such an offer is
  aborted later or not at all; an OFFER refused at once gets one more error per chunk already under way; the flag carries no link. The model assumes that a new link
  is not up between the pop of a command and the first statement of its handler, nor inside one call of `pump()`.

## 4. Proofs

`ContentStoreProofs` proves, for every set of revisions, generation limit and fault setting, under the assumptions
the module names (`NoRevision` is no revision, the limit is a positive number, `RecordFaults` contains
only *missing* and *failed*):

| Theorem | States |
|---|---|
| `TypeCorrect` | `[]TypeOK` |
| `NamedRevisionsSurvive` | no record, and no page shown, ever names a revision that clean-up has touched |
| `RecordSurvives` | after the first confirmation there is always a valid record not being overwritten |
| `GenerationsDiffer` | two valid records never carry the same generation |
| `RecoverableStays` | `NeverUnselected`: only decay makes a recoverable card unrecoverable, whatever else fails |
| `StoreIsRegister` | `ImplementsRegister`: the store refines `ActiveSelection`, when failures are observable |

None of these is inductive. `IInv` adds `RecordInv` (a valid record has a positive generation,
and slot 1 was never written first) and `HandlerInv`, what the handler in progress has established at the step it is at: the revision being
activated is intact from the seal to the read-back; the pending record's generation differs from
that of the other slot; at read-back the target slot holds exactly that record; and
while a victim is removed it is still neither recorded nor displayed. The last part is the
heart of `NamedRevisionsKept`: the render task may change `shown.phase` during the removal but not
`shown.revision`, and `Present` needs an idle handler. `RecordSurvives` rests on
`RecoveredSound` (what recovery returns is a valid record of an intact revision) and on the refusal of `activate()`
to write when records exist but none verifies. `IInv` is proved by one step per action, with the larger ones (`OpenKeeps`, `WriteKeeps`,
`RemoveKeeps`, `PublishKeeps`) as lemmas.

`RecoverableStays` adds `OpenedInv` (the slot opened for writing holds no record) and follows the `Intact` slots, valid
records of complete revisions: the truncating open chooses the slot that recovery did not protect
(`OpenLeavesIntact`), the clean-up removes only unnamed revisions, and only decay is left. It holds under every
spurious answer of the card. `StoreIsRegister` cannot: a record that reads as missing, or content that fails to verify once, makes the store
commit over a selection the register still holds (finding 1). Its hypothesis `Observable` says that record reads may fail but
not lie, verification is right and nothing decays, exactly what the run `content_crash` sets; crashes and failed reads and
writes stay. `SelectedTop` and `ReadsTrue` are the core: without decay the selection is the newest valid record, and a
handler that was not told of a failure has recovered that very record. Then the open leaves `Selected` alone
(`OpenSelects`), the write is the register's one commit (`WriteCommits`), and the read-back confirms what is selected (`OkConfirms`).

`OtaSelectorProofs` is about `switchTo()` alone, for any number of switches: `SwitchInv` says that a
switch in progress works on the sector that is not in force, holds the next number of its
partition and, once erased, leaves that sector empty. Then erasing, failing and losing power leave the
number in force alone (`EraseHarmless`), the write makes the new number the highest (`WriteSelects`), and
`SelectionSafe` (`SelectionMoves`) follows.

`TrialLeaseProofs` is about the lease, for any number of leases and disturbances and every set of
faults (the assumptions are that the bounds are numbers):

| Theorem | States |
|---|---|
| `TrialTypeCorrect` | `[]TypeOK`; with it, that the budget of two return attempts is never exceeded |
| `ReturnImageSafe` | `[]ReturnImageKept` |
| `TrialBounded` | `[]NeverUnbounded` |
| `TrialUsesSelector` | the lease refines the selector: `Spec => SelectorSpec` |
| `TrialSelectionSafe` | `SelectionMoves` of the composition, from the two modules' theorems |
| `LeaseInvariant` | `[]LeaseInv`, the strengthening of the next three |
| `SelectionComplete` | `SelectsComplete`: no switch, failure or power loss selects an image whose copy was cut short |
| `TwoBootsAtMost` | `[]AtMostTwoBoots` |
| `ReturnedMeansTried` | `ReturnedIsEvidence` |

`TrialInv` strengthens the first five. `StageInv` ties the program counter to the selector and says that recovery works on
a proper lease whose trial partition is running; `GuardInv` adds to `ReturnImageKept` that the
image was found intact before the timer is armed and that an active trial is on record as *Running*, which
is why a new lease cannot be prepared under it; `BoundInv` extends `NeverUnbounded` to the stages of a
handler that an earlier boot-time verdict lives through. `TrialStep` has one step per action,
once for the types and once for the rest. `LeaseInv` adds what relates the record to the history. `CompleteInv`: the partition
a switch is for, and the one running, are complete images (a copy always goes to the other one). `BootsInv` is the
budget of bounded boots in terms of what NVS says: none while the record is *Prepared*, one until the auto-wake record is consumed, and a
second only with it consumed, so a boot that finds the same record again cannot arm the deadline again. `EvidenceInv` says that whatever the code takes for an orderly end
belongs to this lease: a ticket names the latest run only after one of its bounded boots has expired, a timer reset is seen by
start-up only after such a boot slept, and an attempt goes on record without a failure only on one of the two. An older lease's ticket
is the reason the run numbers are in it. `EndWritten`, `AttemptWritten` and `StartWritten` are the facts about
records that the steps share, `ReturnedWritten` that no other action can write *Returned*.

`ShellProofs` is about the composition of main task, render task and start worker, for every `MaxDepth` and `MaxHops`
(assumed to be natural numbers; `None` is no screen):

| Theorem | States |
|---|---|
| `ShellTypeCorrect` | `[]TypeOK` |
| `DrawsOnlyCurrent` | `[]DrawsCurrentScreen` |
| `RadioMemorySafe` | `[]RadioMemoryReturned` |
| `RadioAlwaysYields` | `[]RadioYields` |

The inductive invariant `ShellInv` has six parts. `Typed` is the type invariant in parts. `ScreenInv` says when there
is a current activity and what a pending transition carries. `PathInv` ties `step` to the
locals: what a wait, a stop of the radio or a settled transition will go on with, and what has been closed by then. `RadioInv` relates the controller's state, the worker and
NimBLE's memory at each step. With these, `RadioMemoryReturned` and `DrawsCurrentScreen` are inductive: a screen is destroyed only
in a section that the render task's lock excludes, and memory is released only by the steps that have seen the worker's result.
Each action has one lemma per part it disturbs; `StackPops`, `StackPushes` and `StackEmpty` are the facts about sequences they need.

`ReadingProgressProofs` is about the reading place, for every number of pages, sequences and failures (assumed to be natural
numbers; `None` is no place and no record):

| Theorem | States |
|---|---|
| `ProgressInvariant` | `[]ProgressInv`, the strengthening of the others |
| `ProgressTypeCorrect` | `[]TypeOK` |
| `SequencesNamePlaces` | `[]SequenceNamesPlace` |
| `SavesKept` | `[]SavesLastDrawn` |
| `ReportsPlace` | `[]ReportsWhereLeft` |
| `OffersStoredSoundly` | `StoredAgainstSaved`: what a step stores is an offer for the place that is saved |

In `ProgressInv`, `HeldTyped` and `PathInv` say what each step of the main loop holds and what has been
closed by then. `SequenceBound` is the reason a sequence names one place: every one in use is at most the counter, and below
the one being written; a new record therefore differs from all a companion has seen. `CountedInv` carries this over the
writes in between. `StoringInv` ties the offer in hand to the saved page, which nothing changes while no book is open. `SaveInv` names the
place that is *owed* to the card (queued, else in hand, else already saved): it is what the last finished frame left, whoever of the two tasks
holds it; `SavedInv` and `LeftInv` are what remains of it when the book is closed. One lemma for each part, one step per action.

`UploadStreamProofs` and `UploadCommitProofs` are about the listener, its companion and the commit together, for every set of
transfers, payload size, batch, window and number of upsets (all positive or natural numbers; `NoTransfer` is no
transfer), with companions that respect `RESUME` and ones that do not:

| Theorem | States |
|---|---|
| `UploadInvariant` | `[]UploadInv`, the strengthening of the others |
| `UploadTypeCorrect` | `[]TypeOK` |
| `LedgerHonestAlways` | `[]LedgerHonest` |
| `StagedFilesMatch` | `[]StagedMatchesCard` |
| `PrefixesExact` | `[]PrefixExact` |
| `PublishedFilesIntact` | `[]PublishedIntact` |
| `ConfirmationsTrue` | `[]ConfirmedPublished` |
| `SingleUpsetSafe` | `[]SingleUpsetKeepsVersion` |
| `OffersOnlyThisSession` | `OffersThisSession` |

The stream's half says what ledgers and receiver know of the card: `DataInv` that while a transfer runs no ledger is kept
and the running CRC is that of the flushed prefix, `LedgerInv` the same of a suspended one, `StagedInv` of a
verified file. `LinkInv` and `BatchInv` are about the network: nothing is sent before `RESUME` is read, and what is on the wire or in the batch was
sent, so that with `InStep` the next byte off the wire of a careful companion is the one after the prefix. That is why `PrefixExact` survives
resumptions; for a careless one the file may be any mixture, and only the CRC, compared at the end, keeps it from being staged.
The commit's half ties each step of `op` to the files: the staged file is complete and verified from the first step until the rename
(`OpInv`), which is why `PublishedIntact` needs no assumption about clients. `LedgerInv` is suspended at `cleanup`, the one step where the file
is moved and the ledger still names it. `MarkerInv` says that an armed marker names a publication of this session and that
no other file has taken the target's name since; `VersionInv` counts upsets: with none, only a commit about to publish has moved the version away, and
one more leaves it under the backup name. One lemma per action, one for each half.

`ReadingSyncProofs` is about the session, its queue and its companions, for every queue depth, number of reply slots, chunks, records, retries,
links and exchanges (all positive, retries natural; `None` is no frame):

| Theorem | States |
|---|---|
| `SyncInvariant` | `[]SyncInv`, the strengthening of the others |
| `SyncTypeCorrect` | `[]TypeOK` |
| `OkIsTheLastAnswer` | `[]OkIsFinal` |
| `ListsHeardWhole` | `[]ListWhole` |
| `AnswersBelongToTheLink` | `OwnAnswers` |

None of the three is about one variable: an answer may be in the outbox, in the frame being sent or already heard, while commands of the same
exchange are in the queue or in hand. `QueueInv` says that the queue keeps the commands of an exchange in the order they were written, with the one
in hand before them, and that each carries the link it was asked on. `Opening` says that nothing has been made of an exchange whose opening command
is still to come, `OkSaid` and `OkHeard` that nothing is left to come of one that was answered OK: its last chunk was the last
thing its companion wrote. `Listing` says that what was heard of a list is exactly the pages before the next one, a page refused and tried again
included, and `EndHeard` that END closes it. `Linked` is `OwnAnswers` before it happens: what a session of the current link holds was asked on it.
The session's invariant takes session and command in hand as parameters, so that the parts of a handler (follow the generation, check, abort, start, reply)
have one lemma each, and the actions compose them.

Only model-checked: liveness (`TrialEnds`, `EventuallyDone`, `LoopReturns`, `RadioComesDown`, `ScreenPainted`, `ListEnds`,
`AnsweredUnlessLost`), which is out of the prover's reach, with ENABLED. Every invariant and action property of the passing runs is
the subject of a theorem.

## 5. Plan

In order, with the most important behaviour first.

1. *Done:* content store with its abstract register and proofs; upload stream, publication and the staged
   firmware offer; selector and trial lease with proofs; shell (activity manager, render task, exchange window) with proofs;
   reading place with proofs; reading sync.
2. *Done:* the proofs of uploads and commit, of reading sync, of the store's refinement, and of the rest of the lease.
3. Abstract specifications for the components that have none: an upload as one atomic publication that is confirmed at most after it happened, an
   exchange as one request and one answer; their refinement checked and proved.
4. The waits of screens that a frame under way ends too early (`ActivityManager.cpp:113`), once what those screens do
   with the frame is modelled.

## 6. Not modelled

- The second kind of presentation (saved screens) and the two kinds of one slot: its calls are serialised by the rendering mutex.
- Standby and Home-connection windows of builds with BLE standby; USB storage mode; the page turner's hold on a transition.
- Developer-only tools, captures and boot returns, which change nothing in a released build.
- The page-turner radio, Live Studio's pacing, the radio policies, the Wi-Fi ticket: small state machines over timers,
  left for later; the HTTP and WebDAV file server and the network updater, inherited, which keep no state across requests
  but the flasher's, modelled in `TrialLease`.
- Parsers, renderers, fonts, hyphenation tables, translations and the hardware layer: most of the lines of the repository are generated
  tables and vendored libraries (fonts, hyphenation tries, an XML parser, image decoders); they hold data or compute pure
  functions of it, with no protocol to check.
