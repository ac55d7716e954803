----------------------------- MODULE UploadCommit -----------------------------
(***************************************************************************)
(* Publication of an uploaded file (web/PocketEndpoints.cpp                 *)
(* handleCommitUpload, PublicationReceipt.cpp) on top of the upload stream: *)
(* the previous target is moved aside, the staging file is renamed to the   *)
(* target, and a receipt makes the commit idempotent.  The handler and the  *)
(* stream's service() run on the same task, so no slice runs inside a       *)
(* commit; power can be lost between any two of its effects on the card.    *)
(* The target is /update.bin: its publication also arms the one-shot marker *)
(* that the boot after the session turns into an offer to install it        *)
(* (StagedFirmwareStore.cpp, main.cpp setup).                               *)
(***************************************************************************)
EXTENDS UploadStream, FiniteSets

VARIABLES
  target,     \* the published file
  backup,     \* .pocket-backup.part beside it
  receipt,    \* the transfer /.crosspoint/pocket-publication names
  op,         \* the commit in progress (RAM)
  published,  \* history: the transfers renamed to the target
  fresh,      \* history: those renamed since the last boot
  marker,     \* publishedMarker, in memory that survives a restart but no power loss
  offer       \* the publication the confirmation on the screen is for

offerVars  == <<fresh, marker, offer>>
cardVars   == <<target, backup, receipt, published>>
commitVars == <<cardVars, op, offerVars>>
vars == <<streamVars, commitVars>>

NoFile    == [owner |-> NoTransfer, data |-> Blank]
Published == [owner : Transfers, data : Contents] \cup {NoFile}

Steps == {"idle", "preserve", "publish", "restore", "cleanup", "receipt", "rename"}
NoOp  == [step |-> "idle", transfer |-> NoTransfer, had |-> FALSE]

TypeOK ==
  /\ StreamTypeOK
  /\ target \in Published
  /\ backup \in Published
  /\ receipt \in Paths
  /\ op \in [step : Steps, transfer : Paths, had : BOOLEAN]
  /\ published \subseteq Transfers /\ fresh \subseteq published
  /\ marker \in Paths /\ offer \in Paths

Init ==
  /\ StreamInit
  /\ target = NoFile
  /\ backup = NoFile
  /\ receipt = NoTransfer
  /\ op = NoOp
  /\ published = {} /\ fresh = {}
  /\ marker = NoTransfer /\ offer = NoTransfer

-------------------------------------------------------------------------------
(* The responses *)

\* 200: the companion is done, if the response reaches it.
Accepted(t) ==
  \/ goal' = [goal EXCEPT ![t] = "done"] /\ UNCHANGED upsets
  \/ goal[t] # "done" /\ Upset /\ UNCHANGED goal

\* 409: what the companion has to send again.
Refused(t) == goal' = [goal EXCEPT ![t] = IF @ = "commit" THEN "send" ELSE @]

\* 500: the companion may repeat the commit.
Failed == UNCHANGED goal

-------------------------------------------------------------------------------
(* handleCommitUpload *)

\* A session runs, and its task is not in a commit.  None runs under an offer.
Serving == op = NoOp /\ offer = NoTransfer

\* Mutant: any saved receipt answers for any request.
RecordedAny(t) == receipt # NoTransfer
\* Publication::matches(): the receipt names this very publication.
Recorded(t) == receipt = t

\* Mutant: the ledger of the last transfer vouches for any staging file.
VerifiedAny(t) == staged.success /\ part[t] # Absent /\ part[t].len = Size
\* The ledger, the file and the request agree.
Verified(t) ==
  /\ staged.success
  /\ staged.file = t /\ staged.crc = Payload
  /\ part[t] # Absent /\ part[t].len = Size

\* A publication on record is confirmed again, not repeated.
CommitRepeat(t) ==
  /\ Serving
  /\ ~receiving
  /\ Recorded(t)
  /\ Accepted(t)
  /\ UNCHANGED <<part, rx, resume, staged, client, pending, commitVars>>

CommitRefuse(t) ==
  /\ Serving
  /\ receiving \/ (~Recorded(t) /\ ~Verified(t))
  /\ Refused(t)
  /\ UNCHANGED <<part, rx, resume, staged, client, pending, upsets, commitVars>>

\* An old backup is removed (the result is ignored) before the target is read.
CommitBegin(t) ==
  /\ Serving
  /\ ~receiving
  /\ ~Recorded(t)
  /\ Verified(t)
  /\ \/ backup' = NoFile /\ UNCHANGED upsets
     \/ backup # NoFile /\ Upset /\ UNCHANGED backup
  /\ op' = [step |-> IF target # NoFile THEN "preserve" ELSE "publish",
            transfer |-> t, had |-> target # NoFile]
  /\ UNCHANGED <<part, rx, resume, staged, client, pending, goal,
                 target, receipt, published, offerVars>>

\* Mutant: the target is removed to make room, not kept as the backup.
PreserveByRemoval ==
  /\ op.step = "preserve"
  /\ backup = NoFile
  /\ target' = NoFile
  /\ op' = [op EXCEPT !.step = "publish"]
  /\ UNCHANGED <<streamVars, backup, receipt, published, offerVars>>

\* The target is renamed to the backup; a rename never replaces a file.
Preserve ==
  /\ op.step = "preserve"
  /\ backup = NoFile
  /\ backup' = target
  /\ target' = NoFile
  /\ op' = [op EXCEPT !.step = "publish"]
  /\ UNCHANGED <<streamVars, receipt, published, offerVars>>

PreserveFail ==
  /\ op.step = "preserve"
  /\ IF backup = NoFile THEN Upset ELSE UNCHANGED upsets
  /\ op' = NoOp
  /\ Failed
  /\ UNCHANGED <<part, rx, resume, staged, client, pending, cardVars, offerVars>>

Publish ==
  /\ op.step = "publish"
  /\ target' = [owner |-> op.transfer, data |-> part[op.transfer].data]
  /\ part' = [part EXCEPT ![op.transfer] = Absent]
  /\ published' = published \cup {op.transfer}
  /\ fresh' = fresh \cup {op.transfer}
  /\ op' = [op EXCEPT !.step = "cleanup"]
  /\ UNCHANGED <<rx, resume, staged, client, pending, goal, upsets, backup, receipt, marker, offer>>

PublishFail ==
  /\ op.step = "publish"
  /\ Upset
  /\ op' = IF op.had THEN [op EXCEPT !.step = "restore"] ELSE NoOp
  /\ Failed
  /\ UNCHANGED <<part, rx, resume, staged, client, pending, cardVars, offerVars>>

\* The previous target is renamed back.
Restore ==
  /\ op.step = "restore"
  /\ target' = backup
  /\ backup' = NoFile
  /\ op' = NoOp
  /\ UNCHANGED <<streamVars, receipt, published, offerVars>>

RestoreFail ==
  /\ op.step = "restore"
  /\ Upset
  /\ op' = NoOp
  /\ UNCHANGED <<part, rx, resume, staged, client, pending, goal, cardVars, offerVars>>

\* Mutant: the commit leaves the resume ledger alone.
LedgerUntouched == resume
\* noteCommitted(): publication consumed the hidden file.
LedgerConsumed == NoLedger

\* The backup is removed, the marker is armed, and the stream forgets the ledger
\* of the renamed file.
Cleanup ==
  /\ op.step = "cleanup"
  /\ \/ backup' = (IF op.had THEN NoFile ELSE backup) /\ UNCHANGED upsets
     \/ op.had /\ Upset /\ UNCHANGED backup
  /\ marker' = op.transfer
  /\ resume' = LedgerConsumed
  /\ op' = [op EXCEPT !.step = "receipt"]
  /\ UNCHANGED <<part, rx, staged, client, pending, goal, target, receipt, published, fresh, offer>>

\* Publication::save(): a temporary file first; then the old receipt goes ...
DropReceipt ==
  /\ op.step = "receipt"
  /\ receipt' = NoTransfer
  /\ op' = [op EXCEPT !.step = "rename"]
  /\ UNCHANGED <<streamVars, target, backup, published, offerVars>>

\* ... and the temporary file takes its name.
SaveReceipt ==
  /\ op.step = "rename"
  /\ receipt' = op.transfer
  /\ op' = NoOp
  /\ \/ Accepted(op.transfer)
     \/ Upset /\ Failed                                   \* it does not read back
  /\ UNCHANGED <<part, rx, resume, staged, client, pending, target, backup, published, offerVars>>

\* The write, the removal or the rename fails: published, but not on record.
ReceiptFail ==
  /\ op.step \in {"receipt", "rename"}
  /\ Upset
  /\ op' = NoOp
  /\ Failed
  /\ UNCHANGED <<part, rx, resume, staged, client, pending, cardVars, offerVars>>

CommitSteps ==
  \/ Preserve \/ PreserveFail \/ Publish \/ PublishFail \/ Restore \/ RestoreFail
  \/ Cleanup \/ DropReceipt \/ SaveReceipt \/ ReceiptFail

CommitRequest(t) == CommitRepeat(t) \/ CommitRefuse(t) \/ CommitBegin(t)

-------------------------------------------------------------------------------
(* The end of a session, and the boot that follows *)

\* Mutant: a boot that may not offer leaves the marker for a later one.
TakenToOffer(shell) == IF shell THEN NoTransfer ELSE marker
\* take(): read and cleared by every boot.
Taken(shell) == NoTransfer

\* shouldOffer(): a silent restart to the shell, and the file has the marker's size.
Offerable(shell) == shell /\ marker # NoTransfer /\ target # NoFile

\* consumeOffer(): whatever ended the session, the next boot takes the marker.
Boot(shell) ==
  /\ marker' = Taken(shell)
  /\ offer' = IF Offerable(shell) THEN marker ELSE NoTransfer
  /\ fresh' = {}
  /\ op' = NoOp
  /\ UNCHANGED cardVars

\* The session is left by a silent restart: Nearby Sync restarts at once, a file
\* transfer after stop(); some restarts lead back to a session, not to the shell.
EndSession == Serving /\ (Stop \/ Crash) /\ \E shell \in BOOLEAN : Boot(shell)

\* Power loss, a panic, or sleep: not a silent restart.
PowerLoss == Crash /\ Boot(FALSE)

\* The person installs the file or cancels; either way it stays on the card.
AnswerOffer ==
  /\ offer # NoTransfer
  /\ offer' = NoTransfer
  /\ UNCHANGED <<streamVars, cardVars, op, fresh, marker>>

\* The main task runs a slice of the stream, a control request or a commit.
Next ==
  \/ Serving /\ (Service \/ TransferControl) /\ UNCHANGED commitVars
  \/ offer = NoTransfer /\ Companion /\ UNCHANGED commitVars
  \/ \E t \in Transfers : CommitRequest(t)
  \/ CommitSteps
  \/ EndSession
  \/ PowerLoss
  \/ AnswerOffer

Spec == Init /\ [][Next]_vars

\* The single task keeps running, the companion keeps trying, a person answers what
\* the reader asks, and disturbances come to an end (MaxUpsets).
LiveSpec ==
  /\ Spec
  /\ WF_vars(Serving /\ Service /\ UNCHANGED commitVars)
  /\ WF_vars(CommitSteps)
  /\ WF_vars(AnswerOffer)
  /\ \A t \in Transfers :
       /\ WF_vars(\E resuming, flow \in BOOLEAN :
                    offer = NoTransfer /\ Connect(t, resuming, flow) /\ UNCHANGED commitVars)
       /\ WF_vars(goal[t] = "commit" /\ CommitRequest(t))
  /\ WF_vars(offer = NoTransfer /\ Send /\ UNCHANGED commitVars)
  /\ WF_vars(offer = NoTransfer /\ Receive /\ UNCHANGED commitVars)

-------------------------------------------------------------------------------
(* Properties *)

\* Outside the middle of a commit, which moves the file before it clears the entry,
\* the resume ledger always describes the card.
LedgerHonest == op.step # "cleanup" => LedgerMatchesCard

\* "A dropped phone or Wi-Fi link therefore never turns a valid book or update.bin
\* into a partial file": what carries the target's name, or is kept as its backup,
\* is always the complete payload of one transfer, even with a client that ignores
\* the offset it was told to resume from (handleCommitUpload).
PublishedIntact ==
  \A file \in {target, backup} : file # NoFile => file.data = Payload

\* What the companion or the receipt says was published was published: no lost
\* response, restart or repeated commit confirms a transfer that never was.
ConfirmedPublished ==
  \A t \in Transfers : goal[t] = "done" \/ receipt = t => t \in published

\* "The previous published book or firmware remains intact in every case"
\* (docs/nearby-sync-v1.md): once something was published, the target or its
\* backup is on the card whenever no commit is in progress.
VersionKept ==
  published # {} /\ op = NoOp => target # NoFile \/ backup # NoFile

\* The same after one failure or restart at most: a single interruption never costs
\* the published version, wherever in a commit it comes (handleCommitUpload).
SingleUpsetKeepsVersion == upsets <= 1 => VersionKept

\* "An /update.bin left from an earlier session never prompts" (docs/nearby-sync-v1.md):
\* what a boot offers to install was published in the very session it ends, and is the
\* complete file now under the target's name, whatever commits, cut ones included, and
\* restarts came before (staged_firmware.h).
OffersThisSession ==
  [][offer' \notin {offer, NoTransfer} =>
       offer' \in fresh /\ target = [owner |-> offer', data |-> Payload]]_vars

\* A companion that keeps trying gets its file published and learns of it, across
\* lost connections, lost replies, failing writes and restarts.
EventuallyDone == \A t \in Transfers : <>(goal[t] = "done")
===============================================================================
