----------------------------- MODULE ContentStore -----------------------------
(***************************************************************************)
(* The versioned content store of Pocket Daily: staging, seal, the two-slot *)
(* activation record, presentation and retirement, as the content handlers  *)
(* of PocketEndpoints.cpp drive them over ContentSealStore,                 *)
(* ContentActiveStore and ContentRevisionStore.                             *)
(*                                                                          *)
(* The handlers run to completion on the main task, so at most one is in    *)
(* progress (op); each of its steps is one effect on the SD card, and power *)
(* can be lost between any two of them.                                     *)
(***************************************************************************)
EXTENDS ContentRecords, FiniteSets

CONSTANTS
  Revisions,        \* content revisions, named by their manifest hash
  NoRevision,       \* "" in the code: no revision
  MaxGeneration,    \* UINT32_MAX in the code: activation refuses beyond it
  RecordFaults,     \* spurious results a record read may give
  ContentFaults,    \* may verifying or cleaning an intact revision fail spuriously?
  Decay,            \* may a stored asset rot?
  MaxStaged         \* bound: candidates in staging at once

ASSUME NoRevisionAssumption == NoRevision \notin Revisions
ASSUME MaxGenerationAssumption == MaxGeneration \in Nat \ {0}
ASSUME FaultAssumption ==
  /\ RecordFaults \subseteq {"missing", "failed"}
  /\ ContentFaults \in BOOLEAN
  /\ Decay \in BOOLEAN
  /\ MaxStaged \in Nat

VARIABLES
  slot,        \* the files content-active.0 and .1
  published,   \* state of /pocket-daily/content/<revision>
  staged,      \* state of /pocket-daily/content-staging/<revision>
  shown,       \* the presentation the transfer activity owns (RAM)
  op,          \* the activation handler in progress (RAM)
  confirmed    \* history: the last selection activateRevision() returned Ok for

vars == <<slot, published, staged, shown, op, confirmed>>

(***************************************************************************)
(* Directory states.  "bare": no valid manifest (still uploading, or the    *)
(* manifest was already removed); "partial": a valid manifest and some of   *)
(* the assets; "extra": also files the manifest does not list; "rotten":    *)
(* complete in name, but an asset no longer matches its hash.               *)
(***************************************************************************)
PublishedStates == {"absent", "bare", "partial", "complete", "rotten"}
StagedStates    == {"absent", "bare", "partial", "extra", "complete"}

MissingRecord == [kind |-> "missing", generation |-> 0, revision |-> NoRevision]
TornRecord    == [kind |-> "torn", generation |-> 0, revision |-> NoRevision]
Record(g, r)  == [kind |-> "valid", generation |-> g, revision |-> r]
Records       == [kind : {"missing", "torn", "valid"}, generation : 0 .. MaxGeneration,
                  revision : Revisions \cup {NoRevision}]

Steps == {"idle", "dedupe", "activate", "write", "readback", "retire", "remove"}
Idle  == [step |-> "idle", revision |-> NoRevision, target |-> 0,
          generation |-> 0, victim |-> NoRevision]
Ops   == [step : Steps, revision : Revisions \cup {NoRevision}, target : Slots,
          generation : 0 .. MaxGeneration, victim : Revisions \cup {NoRevision}]

\* "queued": metadata only; "loaded": the card snapshot is in RAM and the page waits
\* for the render task.  Both are Queued in the code, and busy.
Hidden        == [phase |-> "idle", revision |-> NoRevision, generation |-> 0]
Phases        == {"idle", "queued", "loaded", "rendered", "failed"}
Presentations == [phase : Phases, revision : Revisions \cup {NoRevision},
                  generation : 0 .. MaxGeneration]

None       == [generation |-> 0, revision |-> NoRevision]
Selections == [generation : 0 .. MaxGeneration, revision : Revisions \cup {NoRevision}]

TypeOK ==
  /\ slot \in [Slots -> Records]
  /\ published \in [Revisions -> PublishedStates]
  /\ staged \in [Revisions -> StagedStates]
  /\ shown \in Presentations
  /\ op \in Ops
  /\ confirmed \in Selections

Init ==
  /\ slot = [s \in Slots |-> MissingRecord]
  /\ published = [r \in Revisions |-> "absent"]
  /\ staged = [r \in Revisions |-> "absent"]
  /\ shown = Hidden
  /\ op = Idle
  /\ confirmed = None

-------------------------------------------------------------------------------
(* What the storage layer may answer *)

\* readRecord(): the true classification of the file, or a spurious one.
ReadResult(s) ==
  {IF slot[s].kind = "torn" THEN "invalid" ELSE slot[s].kind} \cup RecordFaults

\* A spurious "missing" or "failed" hides the record; "valid" is never spurious.
ReadResults ==
  {res \in [Slots -> {"missing", "invalid", "failed", "valid"}] :
     \A s \in Slots : res[s] \in ReadResult(s)}

\* verifyRevision() over the published tree: full hashing, so only an intact
\* revision passes; a read error or an exhausted heap fails an intact one.
Verdicts(r) ==
  IF r \in Revisions /\ published[r] = "complete"
  THEN {TRUE} \cup (IF ContentFaults THEN {FALSE} ELSE {})
  ELSE {FALSE}

\* The verdicts recover() may see for the two recorded revisions.
SlotVerdicts ==
  {v \in [Slots -> BOOLEAN] : \A s \in Slots : v[s] \in Verdicts(slot[s].revision)}

Generations == [s \in Slots |-> slot[s].generation]

\* What an undisturbed recovery selects now.
SelectedSlot ==
  Recover([s \in Slots |-> slot[s].kind], Generations,
          [s \in Slots |-> slot[s].revision \in Revisions
                           /\ published[slot[s].revision] = "complete"])

Selected ==
  IF SelectedSlot = NoSlot THEN None
  ELSE [generation |-> slot[SelectedSlot].generation, revision |-> slot[SelectedSlot].revision]

-------------------------------------------------------------------------------
(* Staging *)

\* External: the companion uploads and commits files of a candidate, in any
\* order, possibly with files its manifest does not list.
Upload(r, state) ==
  /\ op.step = "idle"
  /\ state # "absent"
  /\ Cardinality({q \in Revisions : q = r \/ staged[q] # "absent"}) <= MaxStaged
  /\ staged' = [staged EXCEPT ![r] = state]
  /\ UNCHANGED <<slot, published, shown, op, confirmed>>

\* handlePrepareContent: copies missing files from the active revision into the
\* candidate; a copy cut short leaves a file that does not match its hash.
Prepare(r) ==
  /\ op.step = "idle"
  /\ staged[r] = "partial"
  /\ \E v \in SlotVerdicts, res \in ReadResults : Recover(res, Generations, v) # NoSlot
  /\ \E state \in {"extra", "complete"} : staged' = [staged EXCEPT ![r] = state]
  /\ UNCHANGED <<slot, published, shown, op, confirmed>>

-------------------------------------------------------------------------------
(* handleActivateContent: seal, activate, retire *)

\* sealRevision() on a published target: verify it, then reclaim a staging tree
\* that is an exact verified duplicate.  An invalid target is never replaced.
SealExisting(r) ==
  /\ op.step = "idle"
  /\ TRUE \in Verdicts(r)
  /\ \E duplicate \in {staged[r] \in {"partial", "complete"}}
                       \cup (IF ContentFaults THEN {FALSE} ELSE {}) :
       op' = [Idle EXCEPT !.step = IF duplicate THEN "dedupe" ELSE "activate", !.revision = r]
  /\ UNCHANGED <<slot, published, staged, shown, confirmed>>

\* sealRevision() on a new target: one directory rename, then verified again.
SealMove(r) ==
  /\ op.step = "idle"
  /\ published[r] = "absent"
  /\ staged[r] = "complete"
  /\ published' = [published EXCEPT ![r] = "complete"]
  /\ staged' = [staged EXCEPT ![r] = "absent"]
  /\ \/ op' = [Idle EXCEPT !.step = "activate", !.revision = r]
     \/ ContentFaults /\ op' = Idle                         \* ReadbackFailed
  /\ UNCHANGED <<slot, shown, confirmed>>

\* removeManifestFiles(): assets first, the manifest next, the directory last.
Removed(d) ==
  CASE d \in {"complete", "rotten"} -> "partial"
    [] d = "partial"                -> "bare"
    [] OTHER                        -> "absent"

DedupeStep ==
  /\ op.step = "dedupe"
  /\ staged' = [staged EXCEPT ![op.revision] = Removed(@)]
  /\ op' = IF Removed(staged[op.revision]) = "absent"
           THEN [op EXCEPT !.step = "activate"] ELSE op
  /\ UNCHANGED <<slot, published, shown, confirmed>>

\* A failed removal is logged; the published revision stays authoritative.
DedupeFail ==
  /\ op.step = "dedupe"
  /\ op' = [op EXCEPT !.step = "activate"]
  /\ UNCHANGED <<slot, published, staged, shown, confirmed>>

\* Facts activate() gathers before it decides: the two reads, the verdicts.
Latest(res) == Newest(ValidSlots(res), Generations)
LatestGeneration(res) == IF Latest(res) = NoSlot THEN 0 ELSE slot[Latest(res)].generation
Unreadable(res) == \E s \in Slots : res[s] = "failed"
\* Mutant: unverifiable records count as disposable.
Decidable(res, protected) == FALSE
Undecidable(res, protected) == Latest(res) # NoSlot /\ protected = NoSlot
\* Mutant: any recorded revision counts as selected.
AlreadyRecorded(protected) ==
  protected # NoSlot /\ \E s \in Slots : slot[s].revision = op.revision
Repeated(protected) == protected # NoSlot /\ slot[protected].revision = op.revision
\* Mutant: no limit on the generation.
WritesUnbounded(res, protected) ==
  ~Unreadable(res) /\ ~Undecidable(res, protected) /\ ~Repeated(protected)
Writes(res, protected) ==
  /\ ~Unreadable(res) /\ ~Undecidable(res, protected) /\ ~Repeated(protected)
  /\ LatestGeneration(res) < MaxGeneration

\* Every early return of activate() that is not Ok.
ActivateRefuse ==
  /\ op.step = "activate"
  /\ \/ FALSE \in Verdicts(op.revision)
     \/ \E res \in ReadResults : Unreadable(res)
     \/ \E res \in ReadResults, v \in SlotVerdicts :
          LET protected == Recover(res, Generations, v) IN
            \/ Undecidable(res, protected)
            \/ ~Repeated(protected) /\ LatestGeneration(res) = MaxGeneration
  /\ op' = Idle
  /\ UNCHANGED <<slot, published, staged, shown, confirmed>>

\* The requested revision is already selected: Ok without a write.
ActivateRepeat ==
  /\ op.step = "activate"
  /\ TRUE \in Verdicts(op.revision)
  /\ \E res \in ReadResults, v \in SlotVerdicts :
       LET protected == Recover(res, Generations, v) IN
         /\ ~Unreadable(res)
         /\ Repeated(protected)
         /\ confirmed' = [generation |-> slot[protected].generation, revision |-> op.revision]
  /\ op' = Idle
  /\ UNCHANGED <<slot, published, staged, shown>>

\* The record evicted by a successful write, if it names a third revision.
Evicted(res, protected, target) ==
  IF /\ res[target] = "valid"
     /\ slot[target].revision # op.revision
     /\ protected = NoSlot \/ slot[target].revision # slot[protected].revision
  THEN slot[target].revision ELSE NoRevision

\* writeRecord() opens the slot: exclusively when it was read as missing, and
\* otherwise truncating it.  From here to the write the slot holds no record.
ActivateOpen ==
  /\ op.step = "activate"
  /\ TRUE \in Verdicts(op.revision)
  /\ \E res \in ReadResults, v \in SlotVerdicts :
       LET protected == Recover(res, Generations, v)
           target    == TargetSlot(protected)
       IN /\ Writes(res, protected)
          /\ res[target] = "missing" => slot[target].kind = "missing"   \* O_EXCL
          /\ slot' = [slot EXCEPT ![target] = TornRecord]
          /\ op' = [op EXCEPT !.step = "write", !.target = target,
                              !.generation = LatestGeneration(res) + 1,
                              !.victim = Evicted(res, protected, target)]
  /\ UNCHANGED <<published, staged, shown, confirmed>>

\* The open fails, or the exclusive open finds a slot that read as missing.
ActivateOpenFail ==
  /\ op.step = "activate"
  /\ TRUE \in Verdicts(op.revision)
  /\ \E res \in ReadResults, v \in SlotVerdicts :
       Writes(res, Recover(res, Generations, v))
  /\ op' = Idle
  /\ UNCHANGED <<slot, published, staged, shown, confirmed>>

WriteRecord ==
  /\ op.step = "write"
  /\ slot' = [slot EXCEPT ![op.target] = Record(op.generation, op.revision)]
  /\ op' = [op EXCEPT !.step = "readback"]
  /\ UNCHANGED <<published, staged, shown, confirmed>>

\* A short write: the slot keeps a prefix that no read accepts.
WriteFail ==
  /\ op.step = "write"
  /\ op' = Idle
  /\ UNCHANGED <<slot, published, staged, shown, confirmed>>

ReadbackOk ==
  /\ op.step = "readback"
  /\ confirmed' = [generation |-> op.generation, revision |-> op.revision]
  /\ op' = IF op.victim = NoRevision THEN Idle ELSE [op EXCEPT !.step = "retire"]
  /\ UNCHANGED <<slot, published, staged, shown>>

\* The new record cannot be read back: an error, though it may be complete.
ReadbackFail ==
  /\ op.step = "readback"
  /\ RecordFaults # {}
  /\ op' = Idle
  /\ UNCHANGED <<slot, published, staged, shown, confirmed>>

\* Mutant: the displayed revision is not protected.
RetirableDisplayed(r) ==
  \A s \in Slots : slot[s].kind = "valid" /\ slot[s].revision # r

\* retireRevision(): the displayed revision and both recorded revisions are
\* protected, and both records must be readable and valid.
Retirable(r) ==
  /\ r # shown.revision
  /\ \A s \in Slots : slot[s].kind = "valid" /\ slot[s].revision # r

RetireBegin ==
  /\ op.step = "retire"
  /\ Retirable(op.victim)
  /\ published[op.victim] \in {"partial", "complete", "rotten"}  \* manifest checks
  /\ op' = [op EXCEPT !.step = "remove"]
  /\ UNCHANGED <<slot, published, staged, shown, confirmed>>

RetireRefuse ==
  /\ op.step = "retire"
  /\ \/ ~Retirable(op.victim)
     \/ RecordFaults \ {"missing"} # {}
     \/ ContentFaults
     \/ published[op.victim] \in {"absent", "bare"}
  /\ op' = Idle
  /\ UNCHANGED <<slot, published, staged, shown, confirmed>>

RemoveStep ==
  /\ op.step = "remove"
  /\ published' = [published EXCEPT ![op.victim] = Removed(@)]
  /\ op' = IF Removed(published[op.victim]) = "absent" THEN Idle ELSE op
  /\ UNCHANGED <<slot, staged, shown, confirmed>>

RemoveFail ==
  /\ op.step = "remove"
  /\ op' = Idle
  /\ UNCHANGED <<slot, published, staged, shown, confirmed>>

-------------------------------------------------------------------------------
(* Presentation *)

\* handlePresentation(POST): only the revision recovery selects is queued, and
\* not while another frame is queued or waits to be drawn.
Present(r) ==
  /\ op.step = "idle"
  /\ shown.phase \notin {"queued", "loaded"}
  /\ \E res \in ReadResults, v \in SlotVerdicts :
       LET s == Recover(res, Generations, v) IN
         /\ s # NoSlot /\ slot[s].revision = r
         /\ shown' = [phase |-> "queued", revision |-> r, generation |-> slot[s].generation]
  /\ UNCHANGED <<slot, published, staged, op, confirmed>>

\* service(): the view is loaded by a recovery of its own, which must select the
\* same revision at the same generation; any failure keeps the request.  Nothing
\* reads the requested generation afterwards, and the model forgets it.
Load ==
  /\ op.step = "idle"
  /\ shown.phase = "queued"
  /\ \/ /\ \E res \in ReadResults, v \in SlotVerdicts :
             LET s == Recover(res, Generations, v)
             IN /\ s # NoSlot
                /\ slot[s].revision = shown.revision
                /\ slot[s].generation = shown.generation
        /\ shown' = [shown EXCEPT !.phase = "loaded", !.generation = 0]
     \/ shown' = [shown EXCEPT !.phase = "failed", !.generation = 0]
  /\ UNCHANGED <<slot, published, staged, op, confirmed>>

\* render(), on the render task: at any time, also inside a handler.
Draw ==
  /\ shown.phase = "loaded"
  /\ \E phase \in {"rendered", "failed"} : shown' = [shown EXCEPT !.phase = phase]
  /\ UNCHANGED <<slot, published, staged, op, confirmed>>

\* navigate(): another card of the snapshot, without a recovery.
Turn ==
  /\ op.step = "idle"
  /\ shown.phase = "rendered"
  /\ \E phase \in {"loaded", "failed"} : shown' = [shown EXCEPT !.phase = phase]
  /\ UNCHANGED <<slot, published, staged, op, confirmed>>

\* Back, Dismiss, activity exit, or a screen presentation that replaces it.
Hide ==
  /\ op.step = "idle"
  /\ shown # Hidden
  /\ shown' = Hidden
  /\ UNCHANGED <<slot, published, staged, op, confirmed>>

-------------------------------------------------------------------------------
(* Environment *)

\* Power is lost or the reader restarts: RAM goes, the card stays as it is.
Crash ==
  /\ op # Idle \/ shown # Hidden
  /\ op' = Idle
  /\ shown' = Hidden
  /\ UNCHANGED <<slot, published, staged, confirmed>>

\* A stored asset stops matching its hash.
Rot(r) ==
  /\ Decay
  /\ published[r] = "complete"
  /\ published' = [published EXCEPT ![r] = "rotten"]
  /\ UNCHANGED <<slot, staged, shown, op, confirmed>>

Activation ==
  \/ DedupeStep \/ DedupeFail
  \/ ActivateRefuse \/ ActivateRepeat \/ ActivateOpen \/ ActivateOpenFail
  \/ WriteRecord \/ WriteFail \/ ReadbackOk \/ ReadbackFail
  \/ RetireBegin \/ RetireRefuse \/ RemoveStep \/ RemoveFail

Firmware ==
  \/ Activation
  \/ Load \/ Draw \/ Turn \/ Hide
  \/ \E r \in Revisions : Prepare(r) \/ SealExisting(r) \/ SealMove(r) \/ Present(r)

Environment ==
  \/ Crash
  \/ \E r \in Revisions : Rot(r) \/ \E state \in StagedStates : Upload(r, state)

Next == Firmware \/ Environment

Spec == Init /\ [][Next]_vars

-------------------------------------------------------------------------------
(* Properties *)

\* A revision that a valid activation record names, or that a page is shown from, is
\* never touched by cleanup: no crash, fault or interrupted retirement leaves a
\* record pointing at a directory the firmware itself has taken apart
\* (ContentActiveStore.cpp retireRevision, PocketEndpoints.cpp retireContent).
Kept(r) == r \in Revisions /\ published[r] \in {"complete", "rotten"}
NamedRevisionsKept ==
  /\ \A s \in Slots : slot[s].kind = "valid" => Kept(slot[s].revision)
  /\ shown # Hidden => Kept(shown.revision)

\* Once an activation has been confirmed there is always a valid record that is
\* not the one being overwritten, so no power loss can leave the reader without
\* a record to recover from (activate() protects the recovered slot).
AlwaysARecord ==
  confirmed # None =>
    \E s \in Slots : /\ slot[s].kind = "valid"
                     /\ ~(op.step = "write" /\ s = op.target)

\* The store never goes from recoverable to unrecoverable by its own steps, even
\* when reads and verifications fail spuriously.
NeverUnselected ==
  [][ SelectedSlot # NoSlot /\ SelectedSlot' = NoSlot => \E r \in Revisions : Rot(r) ]_vars

\* "activateRevision ... preserving the previous active revision until that step
\* succeeds": while no new record is complete, recovery still selects what it did.
PreviousKeptUntilCommit ==
  [][ Selected' # Selected => WriteRecord \/ \E r \in Revisions : Rot(r) ]_vars

\* The two valid records never carry the same generation, so "newest" is never
\* decided by the tie rule.
DistinctGenerations ==
  (\A s \in Slots : slot[s].kind = "valid") =>
    slot[0].generation # slot[1].generation

\* The strengthening the three invariants need: what a valid record contains ...
RecordInv ==
  /\ \A s \in Slots : slot[s].kind = "valid" => slot[s].generation > 0
  /\ slot[1].kind = "valid" => slot[1].generation > 1

\* ... and what the handler in progress has established by the step it is at.
HandlerInv ==
  /\ op.step # "idle" => op.revision \in Revisions
  /\ op.step \in {"dedupe", "activate", "write", "readback"} => Kept(op.revision)
  /\ op.step = "write" =>
       /\ op.generation > op.target
       /\ slot[Peer(op.target)].kind = "valid" =>
            op.generation # slot[Peer(op.target)].generation
  /\ op.step = "readback" => slot[op.target] = Record(op.generation, op.revision)
  /\ op.step \in {"retire", "remove"} => op.victim \in Revisions
  /\ op.step = "remove" => Retirable(op.victim)

IInv == /\ TypeOK /\ RecordInv /\ HandlerInv
        /\ NamedRevisionsKept /\ AlwaysARecord /\ DistinctGenerations

\* The store implements the single selection register of ActiveSelection.
Register == INSTANCE ActiveSelection WITH selected <- Selected
ImplementsRegister == Register!Spec
===============================================================================
