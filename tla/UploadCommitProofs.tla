--------------------------- MODULE UploadCommitProofs ---------------------------
(***************************************************************************)
(* The upload stream and the commit together: what is published, confirmed  *)
(* and offered, for every number of transfers, size, batch and window, and  *)
(* with companions that respect the resume offset and ones that do not.     *)
(***************************************************************************)
EXTENDS UploadCommit, UploadStreamProofs

\* The half of TypeOK that belongs to the commit.
CommitTyped ==
  /\ target \in Published
  /\ backup \in Published
  /\ receipt \in Paths
  /\ op \in [step : Steps, transfer : Paths, had : BOOLEAN]
  /\ published \subseteq Transfers /\ fresh \subseteq published
  /\ marker \in Paths /\ offer \in Paths

\* The stream's invariant; the ledger is not yet cleared when the commit has just
\* renamed the file it describes.
StreamSide ==
  /\ CardTyped /\ DataInv /\ StagedInv
  /\ op.step # "cleanup" => LedgerInv
  /\ LinkSide

\* A commit runs on the complete file of its transfer, with no slice beside it, and
\* knows where the previous version is.
OpInv ==
  /\ op.step = "idle" => op = NoOp
  /\ op.step # "idle" => op.transfer \in Transfers /\ ~receiving /\ offer = NoTransfer
  /\ op.step \in {"preserve", "publish", "restore"} =>
       part[op.transfer] = [len |-> Size, data |-> Payload]
  /\ op.step = "preserve" => target # NoFile /\ op.had
  /\ op.step \in {"publish", "restore"} =>
       /\ target = NoFile
       /\ op.had => backup # NoFile /\ (marker # NoTransfer => backup.owner = marker)
  /\ op.step = "restore" => op.had
  /\ op.step \in {"cleanup", "receipt", "rename"} =>
       target.owner = op.transfer /\ op.transfer \in fresh

\* An armed marker names a publication of this session, and no other file has taken
\* the target's name since.
MarkerInv ==
  marker # NoTransfer /\ op.step # "cleanup" =>
    marker \in fresh /\ target.owner \in {NoTransfer, marker}

\* Undisturbed, only a commit that is about to publish has moved the version away; after
\* one disturbance it is still there, under one of its names, between commits.
VersionInv ==
  published # {} =>
    /\ upsets = 0 => target # NoFile \/ (op.step = "publish" /\ op.had)
    /\ upsets <= 1 => target # NoFile \/ backup # NoFile \/ op.step = "publish"

CommitSide ==
  CommitTyped /\ OpInv /\ MarkerInv /\ VersionInv /\ PublishedIntact /\ ConfirmedPublished

UploadInv == StreamSide /\ CommitSide

-------------------------------------------------------------------------------
(* Facts the steps share.                                                    *)

LEMMA FileNamed ==
  /\ NoFile \in Published /\ NoFile.owner = NoTransfer
  /\ \A file \in Published : file # NoFile => file.owner \in Transfers
  /\ \A t \in Transfers : [owner |-> t, data |-> Payload] \in Published
                          /\ [owner |-> t, data |-> Payload] # NoFile
  BY Contained, NoTransferAssumption DEF NoTransferAssumption, Published, NoFile

LEMMA NoOpIdle ==
  /\ NoOp \in [step : Steps, transfer : Paths, had : BOOLEAN]
  /\ NoOp.step = "idle"
  BY DEF NoOp, Steps, Paths

\* Without a commit the stream's whole invariant holds.
LEMMA StreamSideIdle == StreamSide /\ op = NoOp => StreamInv
  BY NoOpIdle DEF StreamSide, LinkSide, StreamInv, CardInv

LEMMA StreamInvSide == StreamInv' => StreamSide'
  BY DEF StreamSide, LinkSide, StreamInv, CardInv

\* A commit that leaves the stream's own state alone.
LEMMA StreamStands ==
  ASSUME StreamSide, UNCHANGED <<part, rx, resume, staged, client, pending>>,
         goal' \in [Transfers -> {"send", "commit", "done"}], Upset \/ UNCHANGED upsets,
         op.step # "cleanup"
  PROVE  StreamSide'
<1>1. upsets' \in 0 .. MaxUpsets
  BY UpsetBounded DEF StreamSide, LinkSide
<1>2. CardTyped' /\ DataInv' /\ StagedInv' /\ LedgerInv'
  BY DEF StreamSide, CardTyped, DataInv, StagedInv, StagedMatchesCard, LedgerInv
<1>3. LinkTyped' /\ LinkInv' /\ BatchInv' /\ ExactInv'
  BY <1>1 DEF StreamSide, LinkSide, LinkTyped, LinkInv, BatchInv, ExactInv, InStep
<1>4. QED
  BY <1>2, <1>3 DEF StreamSide, LinkSide

\* Answers of the commit to the companion.
LEMMA AcceptedGoal ==
  ASSUME LinkTyped, NEW t \in Transfers, Accepted(t)
  PROVE  /\ goal' \in [Transfers -> {"send", "commit", "done"}]
         /\ \A q \in Transfers : goal'[q] = "done" => goal[q] = "done" \/ q = t
         /\ Upset \/ UNCHANGED upsets
  BY DEF Accepted, LinkTyped

LEMMA RefusedGoal ==
  ASSUME LinkTyped, NEW t \in Transfers, Refused(t)
  PROVE  /\ goal' \in [Transfers -> {"send", "commit", "done"}]
         /\ \A q \in Transfers : goal'[q] = "done" => goal[q] = "done"
  BY DEF Refused, LinkTyped

\* Disturbances are only counted.
LEMMA UpsetsGrow ==
  ASSUME LinkTyped, Upset \/ UNCHANGED upsets
  PROVE  upsets \in Nat /\ upsets' \in Nat /\ upsets' >= upsets
  BY Sizes DEF LinkTyped, Upset

LEMMA StreamUpsets ==
  ASSUME Service \/ TransferControl \/ Companion
  PROVE  Upset \/ UNCHANGED upsets
<1>1. ASSUME Service PROVE Upset \/ UNCHANGED upsets
  BY <1>1 DEF Service, Accept, RejectHeader, BeginResumed, BeginFresh, BeginFail, Overflow, Fill,
     Flush, FlushFail, Interrupted, InterruptedFail, Reset
<1>2. ASSUME TransferControl PROVE Upset \/ UNCHANGED upsets
  BY <1>2 DEF TransferControl, PrepareFeedback, DiscardStaging
<1>3. ASSUME Companion PROVE Upset \/ UNCHANGED upsets
  BY <1>3 DEF Companion, Connect, Send, Receive, Drop
<1>4. QED
  BY <1>1, <1>2, <1>3

LEMMA ServiceGoal ==
  ASSUME Service
  PROVE  UNCHANGED goal
  BY DEF Service, Accept, RejectHeader, BeginResumed, BeginFresh, BeginFail, Overflow, Fill,
     Flush, FlushFail, Interrupted, InterruptedFail, Reset

\* The commit's own state stands while the stream or the companion moves.
LEMMA CommitStands ==
  ASSUME CommitSide, LinkTyped, UNCHANGED commitVars, Upset \/ UNCHANGED upsets,
         \A t \in Transfers : goal'[t] = "done" => goal[t] = "done",
         op = NoOp \/ UNCHANGED <<part, rx>>
  PROVE  CommitSide'
<1>1. UNCHANGED <<target, backup, receipt, published, op, fresh, marker, offer>>
  BY DEF commitVars, cardVars, offerVars
<1>2. CommitTyped' /\ PublishedIntact' /\ MarkerInv'
  BY <1>1 DEF CommitSide, CommitTyped, PublishedIntact, MarkerInv
<1>3. ConfirmedPublished'
  BY <1>1 DEF CommitSide, ConfirmedPublished
<1>4. VersionInv'
  BY <1>1, UpsetsGrow DEF CommitSide, VersionInv
<1>5. OpInv'
  BY <1>1, NoOpIdle DEF CommitSide, OpInv, receiving
<1>6. QED
  BY <1>2, <1>3, <1>4, <1>5 DEF CommitSide

-------------------------------------------------------------------------------
(* The steps of the commit.                                                  *)

\* Nothing is repeated: the receipt names a transfer that was published.
LEMMA CommitRepeatKeeps ==
  ASSUME UploadInv, NEW t \in Transfers, CommitRepeat(t)
  PROVE  UploadInv'
<1>1. /\ op = NoOp /\ receipt = t /\ Accepted(t)
      /\ UNCHANGED <<part, rx, resume, staged, client, pending, commitVars>>
  BY DEF CommitRepeat, Serving, Recorded
<1>2. LinkTyped /\ op.step # "cleanup"
  BY <1>1, NoOpIdle DEF UploadInv, StreamSide, LinkSide
<1>3. /\ goal' \in [Transfers -> {"send", "commit", "done"}]
      /\ \A q \in Transfers : goal'[q] = "done" => goal[q] = "done" \/ q = t
      /\ Upset \/ UNCHANGED upsets
  BY <1>1, <1>2, AcceptedGoal
<1>4. StreamSide'
  BY <1>1, <1>2, <1>3, StreamStands DEF UploadInv
<1>5. UNCHANGED <<target, backup, receipt, published, op, fresh, marker, offer>>
  BY <1>1 DEF commitVars, cardVars, offerVars
<1>6. ConfirmedPublished'
  BY <1>1, <1>3, <1>5 DEF UploadInv, CommitSide, ConfirmedPublished
<1>7. CommitTyped' /\ PublishedIntact' /\ MarkerInv' /\ OpInv'
  BY <1>1, <1>5 DEF UploadInv, CommitSide, CommitTyped, PublishedIntact, MarkerInv, OpInv, receiving
<1>8. VersionInv'
  BY <1>2, <1>3, <1>5, UpsetsGrow DEF UploadInv, CommitSide, VersionInv
<1>9. QED
  BY <1>4, <1>6, <1>7, <1>8 DEF UploadInv, CommitSide

\* A refusal changes nothing but what the companion does next.
LEMMA CommitRefuseKeeps ==
  ASSUME UploadInv, NEW t \in Transfers, CommitRefuse(t)
  PROVE  UploadInv'
<1>1. /\ op = NoOp /\ Refused(t)
      /\ UNCHANGED <<part, rx, resume, staged, client, pending, upsets, commitVars>>
  BY DEF CommitRefuse, Serving
<1>2. LinkTyped /\ op.step # "cleanup"
  BY <1>1, NoOpIdle DEF UploadInv, StreamSide, LinkSide
<1>3. /\ goal' \in [Transfers -> {"send", "commit", "done"}]
      /\ \A q \in Transfers : goal'[q] = "done" => goal[q] = "done"
  BY <1>1, <1>2, RefusedGoal
<1>4. StreamSide'
  BY <1>1, <1>2, <1>3, StreamStands DEF UploadInv
<1>5. QED
  BY <1>1, <1>2, <1>3, <1>4, CommitStands DEF UploadInv

\* The staging file the ledger vouches for is the complete payload.
LEMMA CommitBeginKeeps ==
  ASSUME UploadInv, NEW t \in Transfers, CommitBegin(t)
  PROVE  UploadInv'
<1>1. /\ op = NoOp /\ offer = NoTransfer /\ ~receiving /\ Verified(t)
      /\ \/ backup' = NoFile /\ UNCHANGED upsets
         \/ backup # NoFile /\ Upset /\ UNCHANGED backup
      /\ op' = [step |-> IF target # NoFile THEN "preserve" ELSE "publish",
                transfer |-> t, had |-> target # NoFile]
      /\ UNCHANGED <<part, rx, resume, staged, client, pending, goal,
                     target, receipt, published, fresh, marker, offer>>
  BY DEF CommitBegin, Serving, offerVars
<1>2. LinkTyped /\ op.step # "cleanup" /\ goal \in [Transfers -> {"send", "commit", "done"}]
  BY <1>1, NoOpIdle DEF UploadInv, StreamSide, LinkSide, LinkTyped
<1>3. part[t] = [len |-> Size, data |-> Payload]
  BY <1>1 DEF Verified, UploadInv, StreamSide, StagedInv, StagedMatchesCard
<1>4. StreamSide'
  BY <1>1, <1>2, StreamStands DEF UploadInv
<1>5. op'.step \in {"preserve", "publish"} /\ op'.transfer = t /\ op'.had = (target # NoFile)
      /\ (op'.step = "preserve" <=> target # NoFile)
  BY <1>1
<1>6. CommitTyped'
  <2>1. op' \in [step : Steps, transfer : Paths, had : BOOLEAN]
    BY <1>1 DEF Steps, Paths
  <2>2. QED
    BY <1>1, <2>1, FileNamed DEF UploadInv, CommitSide, CommitTyped
<1>7. OpInv'
  BY <1>1, <1>3, <1>5 DEF OpInv, receiving
<1>8. MarkerInv' /\ ConfirmedPublished'
  BY <1>1, <1>2, <1>5 DEF UploadInv, CommitSide, MarkerInv, ConfirmedPublished
<1>9. PublishedIntact'
  BY <1>1 DEF UploadInv, CommitSide, PublishedIntact
<1>10. VersionInv'
  BY <1>1, <1>2, <1>5, NoOpIdle, UpsetsGrow DEF UploadInv, CommitSide, VersionInv
<1>11. QED
  BY <1>4, <1>6, <1>7, <1>8, <1>9, <1>10 DEF UploadInv, CommitSide

\* The backup is the version the marker, if it is armed, names.
LEMMA PreserveKeeps ==
  ASSUME UploadInv, Preserve
  PROVE  UploadInv'
<1>1. /\ op.step = "preserve" /\ backup' = target /\ target' = NoFile
      /\ op' = [op EXCEPT !.step = "publish"]
      /\ UNCHANGED <<streamVars, receipt, published, fresh, marker, offer>>
  BY DEF Preserve, offerVars
<1>2. UNCHANGED <<part, rx, resume, staged, client, pending, goal, upsets>>
  BY <1>1 DEF streamVars
<1>3. LinkTyped /\ op.step # "cleanup" /\ goal \in [Transfers -> {"send", "commit", "done"}]
  BY <1>1 DEF UploadInv, StreamSide, LinkSide, LinkTyped
<1>4. StreamSide'
  BY <1>2, <1>3, StreamStands DEF UploadInv
<1>5. CommitTyped' /\ op'.step = "publish" /\ op'.transfer = op.transfer /\ op'.had = op.had
  BY <1>1, FileNamed DEF UploadInv, CommitSide, CommitTyped, Steps
<1>6. target # NoFile /\ target.owner \in Transfers /\ target.owner # NoTransfer
      /\ (marker # NoTransfer => marker \in fresh /\ target.owner = marker)
  BY <1>1, FileNamed, NoTransferAssumption
     DEF NoTransferAssumption, UploadInv, CommitSide, CommitTyped, OpInv, MarkerInv
<1>7. OpInv'
  BY <1>1, <1>2, <1>5, <1>6 DEF UploadInv, CommitSide, OpInv, receiving
<1>8. MarkerInv' /\ ConfirmedPublished'
  BY <1>1, <1>2, <1>5, <1>6, FileNamed DEF UploadInv, CommitSide, MarkerInv, ConfirmedPublished
<1>9. PublishedIntact'
  BY <1>1 DEF UploadInv, CommitSide, PublishedIntact
<1>10. VersionInv'
  BY <1>1, <1>5, <1>6 DEF UploadInv, CommitSide, OpInv, VersionInv
<1>11. QED
  BY <1>4, <1>5, <1>7, <1>8, <1>9, <1>10 DEF UploadInv, CommitSide

\* A commit that gives up leaves the target, or else the backup, where it is.
LEMMA GiveUpKeeps ==
  ASSUME UploadInv, op.step \notin {"idle", "cleanup"}, op' = NoOp, Upset \/ UNCHANGED upsets,
         op.step \in {"publish", "restore"} => Upset,
         op.step = "publish" => ~op.had,
         UNCHANGED <<part, rx, resume, staged, client, pending, goal, cardVars, offerVars>>
  PROVE  UploadInv'
<1>1. LinkTyped /\ goal \in [Transfers -> {"send", "commit", "done"}]
  BY DEF UploadInv, StreamSide, LinkSide, LinkTyped
<1>2. StreamSide'
  BY <1>1, StreamStands DEF UploadInv
<1>3. UNCHANGED <<target, backup, receipt, published, fresh, marker, offer>>
  BY DEF cardVars, offerVars
<1>4. CommitTyped' /\ OpInv'
  BY <1>3, NoOpIdle DEF UploadInv, CommitSide, CommitTyped, OpInv
<1>5. MarkerInv' /\ ConfirmedPublished' /\ PublishedIntact'
  BY <1>3 DEF UploadInv, CommitSide, MarkerInv, ConfirmedPublished, PublishedIntact
<1>6. VersionInv'
  <2>1. upsets \in Nat /\ upsets' \in Nat /\ upsets' >= upsets /\ (Upset => upsets' = upsets + 1)
    BY <1>1, UpsetsGrow DEF Upset
  <2>2. CASE op.step \in {"publish", "restore"}
    BY <1>3, <2>1, <2>2 DEF UploadInv, CommitSide, OpInv, VersionInv
  <2>3. CASE op.step \notin {"publish", "restore"}
    BY <1>3, <2>1, <2>3 DEF UploadInv, CommitSide, VersionInv
  <2>4. QED
    BY <2>2, <2>3
<1>7. QED
  BY <1>2, <1>4, <1>5, <1>6 DEF UploadInv, CommitSide

\* The complete staging file takes the target's name.
LEMMA PublishKeeps ==
  ASSUME UploadInv, Publish
  PROVE  UploadInv'
<1> DEFINE t == op.transfer
<1>1. /\ op.step = "publish"
      /\ target' = [owner |-> t, data |-> part[t].data]
      /\ part' = [part EXCEPT ![t] = Absent]
      /\ published' = published \cup {t} /\ fresh' = fresh \cup {t}
      /\ op' = [op EXCEPT !.step = "cleanup"]
      /\ UNCHANGED <<rx, resume, staged, client, pending, goal, upsets, backup, receipt, marker, offer>>
  BY DEF Publish
<1>2. t \in Transfers /\ ~receiving /\ offer = NoTransfer /\ part[t].data = Payload
  BY <1>1 DEF UploadInv, CommitSide, OpInv
<1>3. target' = [owner |-> t, data |-> Payload] /\ target' \in Published /\ target' # NoFile
      /\ target'.owner = t
  BY <1>1, <1>2, FileNamed
<1>4. op'.step = "cleanup" /\ op'.transfer = t /\ op' \in [step : Steps, transfer : Paths, had : BOOLEAN]
  BY <1>1 DEF UploadInv, CommitSide, CommitTyped, Steps
<1>5. StreamSide'
  <2>1. part' \in [Transfers -> Files] /\ \A q \in Transfers : q # t => part'[q] = part[q]
    BY <1>1, Contained DEF UploadInv, StreamSide, CardTyped
  <2>2. part'[t] = Absent
    BY <1>1, <1>2 DEF UploadInv, StreamSide, CardTyped
  <2>3. CardTyped' /\ DataInv' /\ StagedInv'
    BY <1>1, <1>2, <2>1, <2>2
       DEF UploadInv, StreamSide, CardTyped, DataInv, StagedInv, StagedMatchesCard, receiving
  <2>4. LinkSide'
    BY <1>1 DEF UploadInv, StreamSide, LinkSide, LinkTyped, LinkInv, BatchInv, ExactInv, InStep
  <2>5. QED
    BY <1>4, <2>3, <2>4 DEF StreamSide
<1>6. CommitTyped'
  BY <1>1, <1>2, <1>3, <1>4 DEF UploadInv, CommitSide, CommitTyped
<1>7. OpInv' /\ MarkerInv'
  BY <1>1, <1>2, <1>3, <1>4 DEF UploadInv, CommitSide, OpInv, MarkerInv, receiving
<1>8. ConfirmedPublished' /\ PublishedIntact'
  BY <1>1, <1>3 DEF UploadInv, CommitSide, ConfirmedPublished, PublishedIntact
<1>9. VersionInv'
  BY <1>3 DEF VersionInv
<1>10. QED
  BY <1>5, <1>6, <1>7, <1>8, <1>9 DEF UploadInv, CommitSide

\* With a backup the failing commit restores it before it answers.
LEMMA PublishFailKeeps ==
  ASSUME UploadInv, PublishFail
  PROVE  UploadInv'
<1>1. /\ op.step = "publish" /\ Upset
      /\ op' = IF op.had THEN [op EXCEPT !.step = "restore"] ELSE NoOp
      /\ UNCHANGED <<part, rx, resume, staged, client, pending, goal, cardVars, offerVars>>
  BY DEF PublishFail, Failed
<1>2. CASE ~op.had
  BY <1>1, <1>2, GiveUpKeeps
<1>3. CASE op.had
  <2>1. LinkTyped /\ goal \in [Transfers -> {"send", "commit", "done"}]
    BY DEF UploadInv, StreamSide, LinkSide, LinkTyped
  <2>2. StreamSide'
    BY <1>1, <2>1, StreamStands DEF UploadInv
  <2>3. UNCHANGED <<target, backup, receipt, published, fresh, marker, offer>>
    BY <1>1 DEF cardVars, offerVars
  <2>4. op'.step = "restore" /\ op'.transfer = op.transfer /\ op'.had = op.had
        /\ op' \in [step : Steps, transfer : Paths, had : BOOLEAN]
    BY <1>1, <1>3 DEF UploadInv, CommitSide, CommitTyped, Steps
  <2>5. CommitTyped' /\ MarkerInv' /\ ConfirmedPublished' /\ PublishedIntact'
    BY <1>1, <2>3, <2>4
       DEF UploadInv, CommitSide, CommitTyped, MarkerInv, ConfirmedPublished, PublishedIntact
  <2>6. OpInv'
    BY <1>1, <1>3, <2>3, <2>4 DEF UploadInv, CommitSide, OpInv, receiving
  <2>7. VersionInv'
    <3>1. backup # NoFile /\ backup' # NoFile
      BY <1>1, <1>3, <2>3 DEF UploadInv, CommitSide, OpInv
    <3>2. upsets' \in Nat /\ upsets' > 0
      BY <1>1, <2>1, UpsetsGrow DEF Upset
    <3>3. QED
      BY <3>1, <3>2 DEF VersionInv
  <2>8. QED
    BY <2>2, <2>5, <2>6, <2>7 DEF UploadInv, CommitSide
<1>4. QED
  BY <1>2, <1>3

\* The previous version is back under the target's name.
LEMMA RestoreKeeps ==
  ASSUME UploadInv, Restore
  PROVE  UploadInv'
<1>1. /\ op.step = "restore" /\ target' = backup /\ backup' = NoFile /\ op' = NoOp
      /\ UNCHANGED <<streamVars, receipt, published, fresh, marker, offer>>
  BY DEF Restore, offerVars
<1>2. UNCHANGED <<part, rx, resume, staged, client, pending, goal, upsets>>
  BY <1>1 DEF streamVars
<1>3. LinkTyped /\ op.step # "cleanup" /\ goal \in [Transfers -> {"send", "commit", "done"}]
  BY <1>1 DEF UploadInv, StreamSide, LinkSide, LinkTyped
<1>4. StreamSide'
  BY <1>2, <1>3, StreamStands DEF UploadInv
<1>5. backup # NoFile /\ (marker # NoTransfer => backup.owner = marker)
  BY <1>1 DEF UploadInv, CommitSide, OpInv
<1>6. CommitTyped' /\ OpInv'
  BY <1>1, FileNamed, NoOpIdle DEF UploadInv, CommitSide, CommitTyped, OpInv
<1>7. MarkerInv' /\ ConfirmedPublished' /\ PublishedIntact'
  BY <1>1, <1>2, <1>5 DEF UploadInv, CommitSide, MarkerInv, ConfirmedPublished, PublishedIntact
<1>8. VersionInv'
  BY <1>1, <1>5 DEF VersionInv
<1>9. QED
  BY <1>4, <1>6, <1>7, <1>8 DEF UploadInv, CommitSide

\* The ledger of the renamed file is cleared, and the marker names what is published.
LEMMA CleanupKeeps ==
  ASSUME UploadInv, Cleanup
  PROVE  UploadInv'
<1>1. /\ op.step = "cleanup" /\ backup' \in {NoFile, backup} /\ (Upset \/ UNCHANGED upsets)
      /\ marker' = op.transfer /\ resume' = NoLedger
      /\ op' = [op EXCEPT !.step = "receipt"]
      /\ UNCHANGED <<part, rx, staged, client, pending, goal, target, receipt, published, fresh, offer>>
  BY DEF Cleanup, LedgerConsumed
<1>2. /\ op.transfer \in Transfers /\ op.transfer \in Paths /\ ~receiving /\ offer = NoTransfer
      /\ target.owner = op.transfer /\ op.transfer \in fresh
  BY <1>1 DEF UploadInv, CommitSide, OpInv, Paths
<1>3. op'.step = "receipt" /\ op'.transfer = op.transfer
      /\ op' \in [step : Steps, transfer : Paths, had : BOOLEAN]
  BY <1>1 DEF UploadInv, CommitSide, CommitTyped, Steps
<1>4. StreamSide'
  <2>1. LinkTyped
    BY DEF UploadInv, StreamSide, LinkSide
  <2>2. upsets' \in 0 .. MaxUpsets
    BY <1>1, <2>1, UpsetBounded
  <2>3. resume' \in [path : Paths, received : 0 .. Size, crc : Contents]
    <3>1. 0 \in 0 .. Size /\ NoTransfer \in Paths
      BY Sizes DEF Paths
    <3>2. QED
      BY <1>1, <3>1, Contained DEF NoLedger
  <2>4. CardTyped' /\ DataInv' /\ StagedInv' /\ LedgerInv'
    BY <1>1, <1>2, <2>3 DEF UploadInv, StreamSide, CardTyped, DataInv, StagedInv, StagedMatchesCard,
       LedgerInv, receiving
  <2>5. LinkTyped' /\ LinkInv'
    BY <1>1, <2>2 DEF UploadInv, StreamSide, LinkSide, LinkTyped, LinkInv
  <2>6. BatchInv' /\ ExactInv'
    BY <1>1, <1>2 DEF BatchInv, ExactInv, NoLedger, Exact, receiving
  <2>7. QED
    BY <2>4, <2>5, <2>6 DEF StreamSide, LinkSide
<1>5. CommitTyped'
  BY <1>1, <1>2, <1>3, FileNamed DEF UploadInv, CommitSide, CommitTyped
<1>6. OpInv' /\ MarkerInv'
  BY <1>1, <1>2, <1>3 DEF OpInv, MarkerInv, receiving
<1>7. ConfirmedPublished' /\ PublishedIntact'
  BY <1>1 DEF UploadInv, CommitSide, ConfirmedPublished, PublishedIntact
<1>8. VersionInv'
  <2>1. target' # NoFile
    BY <1>1, <1>2, FileNamed, NoTransferAssumption DEF NoTransferAssumption
  <2>2. QED
    BY <2>1 DEF VersionInv
<1>9. QED
  BY <1>4, <1>5, <1>6, <1>7, <1>8 DEF UploadInv, CommitSide

LEMMA DropReceiptKeeps ==
  ASSUME UploadInv, DropReceipt
  PROVE  UploadInv'
<1>1. /\ op.step = "receipt" /\ receipt' = NoTransfer /\ op' = [op EXCEPT !.step = "rename"]
      /\ UNCHANGED <<streamVars, target, backup, published, fresh, marker, offer>>
  BY DEF DropReceipt, offerVars
<1>2. UNCHANGED <<part, rx, resume, staged, client, pending, goal, upsets>>
  BY <1>1 DEF streamVars
<1>3. op.step # "cleanup" /\ goal \in [Transfers -> {"send", "commit", "done"}]
  BY <1>1 DEF UploadInv, StreamSide, LinkSide, LinkTyped
<1>4. StreamSide'
  BY <1>2, <1>3, StreamStands DEF UploadInv
<1>5. op'.step = "rename" /\ op'.transfer = op.transfer
      /\ op' \in [step : Steps, transfer : Paths, had : BOOLEAN]
  BY <1>1 DEF UploadInv, CommitSide, CommitTyped, Steps
<1>6. CommitTyped' /\ MarkerInv' /\ PublishedIntact'
  BY <1>1, <1>5 DEF UploadInv, CommitSide, CommitTyped, MarkerInv, PublishedIntact, Paths
<1>7. OpInv' /\ VersionInv'
  BY <1>1, <1>2, <1>5 DEF UploadInv, CommitSide, OpInv, VersionInv, receiving
<1>8. ConfirmedPublished'
  BY <1>1, <1>2, NoTransferAssumption
     DEF NoTransferAssumption, UploadInv, CommitSide, ConfirmedPublished
<1>9. QED
  BY <1>4, <1>6, <1>7, <1>8 DEF UploadInv, CommitSide

\* The receipt and the answer name a transfer that has just been published.
LEMMA SaveReceiptKeeps ==
  ASSUME UploadInv, SaveReceipt
  PROVE  UploadInv'
<1> DEFINE t == op.transfer
<1>1. /\ op.step = "rename" /\ receipt' = t /\ op' = NoOp
      /\ (Accepted(t) \/ (Upset /\ UNCHANGED goal))
      /\ UNCHANGED <<part, rx, resume, staged, client, pending, target, backup, published,
                     fresh, marker, offer>>
  BY DEF SaveReceipt, Failed, offerVars
<1>2. LinkTyped /\ op.step # "cleanup" /\ goal \in [Transfers -> {"send", "commit", "done"}]
  BY <1>1 DEF UploadInv, StreamSide, LinkSide, LinkTyped
<1>3. t \in Transfers /\ t \in Paths /\ t \in published
  BY <1>1 DEF UploadInv, CommitSide, OpInv, CommitTyped, Paths
<1>4. /\ goal' \in [Transfers -> {"send", "commit", "done"}]
      /\ \A q \in Transfers : goal'[q] = "done" => goal[q] = "done" \/ q = t
      /\ Upset \/ UNCHANGED upsets
  BY <1>1, <1>2, <1>3, AcceptedGoal
<1>5. StreamSide'
  BY <1>1, <1>2, <1>4, StreamStands DEF UploadInv
<1>6. CommitTyped' /\ OpInv'
  BY <1>1, <1>3, NoOpIdle DEF UploadInv, CommitSide, CommitTyped, OpInv
<1>7. MarkerInv' /\ PublishedIntact'
  BY <1>1 DEF UploadInv, CommitSide, MarkerInv, PublishedIntact
<1>8. ConfirmedPublished'
  BY <1>1, <1>3, <1>4 DEF UploadInv, CommitSide, ConfirmedPublished
<1>9. VersionInv'
  BY <1>1, <1>2, <1>4, UpsetsGrow DEF UploadInv, CommitSide, VersionInv
<1>10. QED
  BY <1>5, <1>6, <1>7, <1>8, <1>9 DEF UploadInv, CommitSide

LEMMA CommitStepsKeep ==
  ASSUME UploadInv, CommitSteps
  PROVE  UploadInv'
<1>1. CASE PreserveFail
  BY <1>1, GiveUpKeeps DEF PreserveFail, Failed
<1>2. CASE RestoreFail
  BY <1>2, GiveUpKeeps DEF RestoreFail
<1>3. CASE ReceiptFail
  BY <1>3, GiveUpKeeps DEF ReceiptFail, Failed
<1>4. QED
  BY <1>1, <1>2, <1>3, PreserveKeeps, PublishKeeps, PublishFailKeeps, RestoreKeeps, CleanupKeeps,
     DropReceiptKeeps, SaveReceiptKeeps DEF CommitSteps

-------------------------------------------------------------------------------
(* The end of a session, and the boot that follows.                          *)

\* What a boot leaves of the commit's state, whenever the session ended.  The version
\* is asked of the state it ends in, for the disturbance itself counts.
LEMMA BootKeeps ==
  ASSUME UploadInv, NEW shell \in BOOLEAN, Boot(shell), Upset, UNCHANGED goal,
         ~shell \/ op = NoOp
  PROVE  CommitSide'
<1>1. /\ marker' = NoTransfer /\ fresh' = {} /\ op' = NoOp
      /\ offer' \in {NoTransfer, marker}
      /\ UNCHANGED <<target, backup, receipt, published>>
  BY DEF Boot, Taken, cardVars
<1>2. NoTransfer \in Paths
  BY DEF Paths
<1>3. CommitTyped' /\ OpInv'
  BY <1>1, <1>2, NoOpIdle DEF UploadInv, CommitSide, CommitTyped, OpInv
<1>4. MarkerInv' /\ PublishedIntact' /\ ConfirmedPublished'
  BY <1>1 DEF UploadInv, CommitSide, MarkerInv, PublishedIntact, ConfirmedPublished
<1>5. LinkTyped
  BY DEF UploadInv, StreamSide, LinkSide
<1>6. upsets \in Nat /\ upsets' = upsets + 1
  BY <1>5, UpsetsGrow DEF Upset
<1>7. VersionInv'
  BY <1>1, <1>6 DEF UploadInv, CommitSide, OpInv, VersionInv
<1>8. QED
  BY <1>3, <1>4, <1>7 DEF CommitSide

LEMMA EndSessionKeeps ==
  ASSUME UploadInv, EndSession
  PROVE  UploadInv'
<1>1. PICK shell \in BOOLEAN : Boot(shell)
  BY DEF EndSession
<1>2. op = NoOp /\ (Stop \/ Crash)
  BY DEF EndSession, Serving
<1>3. Upset /\ UNCHANGED goal
  BY <1>2 DEF Stop, Crash
<1>4. StreamInv'
  BY <1>2, CrashKeeps, StopKeeps DEF UploadInv, StreamSide, LinkSide
<1>5. QED
  BY <1>1, <1>2, <1>3, <1>4, BootKeeps, StreamInvSide DEF UploadInv

LEMMA PowerLossKeeps ==
  ASSUME UploadInv, PowerLoss
  PROVE  UploadInv'
<1>1. Crash /\ Boot(FALSE) /\ Upset /\ UNCHANGED goal
  BY DEF PowerLoss, Crash
<1>2. StreamInv'
  BY <1>1, CrashKeeps DEF UploadInv, StreamSide, LinkSide
<1>3. QED
  BY <1>1, <1>2, BootKeeps, StreamInvSide DEF UploadInv

LEMMA AnswerOfferKeeps ==
  ASSUME UploadInv, AnswerOffer
  PROVE  UploadInv'
<1>1. /\ offer # NoTransfer /\ offer' = NoTransfer
      /\ UNCHANGED <<streamVars, target, backup, receipt, published, op, fresh, marker>>
  BY DEF AnswerOffer, cardVars
<1>2. UNCHANGED <<part, rx, resume, staged, client, pending, goal, upsets>>
  BY <1>1 DEF streamVars
<1>3. op.step # "cleanup" /\ goal \in [Transfers -> {"send", "commit", "done"}]
  BY <1>1 DEF UploadInv, StreamSide, LinkSide, LinkTyped, CommitSide, OpInv
<1>4. StreamSide'
  BY <1>2, <1>3, StreamStands DEF UploadInv
<1>5. CommitTyped' /\ OpInv' /\ MarkerInv' /\ VersionInv'
  BY <1>1, <1>2
     DEF UploadInv, CommitSide, CommitTyped, OpInv, MarkerInv, VersionInv, receiving, Paths
<1>6. PublishedIntact' /\ ConfirmedPublished'
  BY <1>1, <1>2 DEF UploadInv, CommitSide, PublishedIntact, ConfirmedPublished
<1>7. QED
  BY <1>4, <1>5, <1>6 DEF UploadInv, CommitSide

\* A slice of the stream, or a control request, between commits.
LEMMA StreamStepKeeps ==
  ASSUME UploadInv, Serving, Service \/ TransferControl, UNCHANGED commitVars
  PROVE  UploadInv'
<1>1. op = NoOp /\ StreamInv
  BY StreamSideIdle DEF Serving, UploadInv
<1>2. CASE Service
  BY <1>1, <1>2, ServiceKeeps, StreamInvSide, ServiceGoal, StreamUpsets, CommitStands
     DEF UploadInv, StreamInv
<1>3. CASE TransferControl
  <2>1. PICK t \in Transfers : PrepareFeedback(t) \/ DiscardStaging(t)
    BY <1>3 DEF TransferControl
  <2>2. StreamInv' /\ \A q \in Transfers : goal'[q] = "done" => goal[q] = "done"
    BY <1>1, <2>1, PrepareFeedbackKeeps, DiscardStagingKeeps
  <2>3. QED
    BY <1>1, <1>3, <2>2, StreamInvSide, StreamUpsets, CommitStands DEF UploadInv, StreamInv
<1>4. QED
  BY <1>2, <1>3

\* The companion and the network move beside a commit too.
LEMMA CompanionStepKeeps ==
  ASSUME UploadInv, Companion, UNCHANGED commitVars
  PROVE  UploadInv'
<1>1. LinkSide /\ CardTyped /\ LinkTyped
  BY DEF UploadInv, StreamSide, LinkSide
<1>2. /\ LinkSide' /\ UNCHANGED <<part, rx, resume, staged>>
      /\ \A t \in Transfers : goal'[t] = "done" => goal[t] = "done"
  BY <1>1, CompanionKeeps DEF cardSide
<1>3. UNCHANGED op
  BY DEF commitVars
<1>4. StreamSide'
  BY <1>2, <1>3 DEF UploadInv, StreamSide, CardTyped, DataInv, StagedInv, StagedMatchesCard, LedgerInv
<1>5. QED
  BY <1>1, <1>2, <1>4, StreamUpsets, CommitStands DEF UploadInv

-------------------------------------------------------------------------------
(* The theorems.                                                             *)

LEMMA UploadStarts == Init => UploadInv
<1> SUFFICES ASSUME Init PROVE UploadInv
  OBVIOUS
<1>1. StreamInv
  BY StreamStarts DEF Init
<1>2. /\ target = NoFile /\ backup = NoFile /\ receipt = NoTransfer /\ op = NoOp
      /\ published = {} /\ fresh = {} /\ marker = NoTransfer /\ offer = NoTransfer
      /\ goal = [t \in Transfers |-> "send"]
  BY DEF Init, StreamInit
<1>3. StreamSide
  BY <1>1 DEF StreamSide, LinkSide, StreamInv, CardInv
<1>4. CommitTyped /\ OpInv
  BY <1>2, FileNamed, NoOpIdle DEF CommitTyped, OpInv, Paths
<1>5. MarkerInv /\ VersionInv /\ PublishedIntact /\ ConfirmedPublished
  BY <1>2, NoTransferAssumption
     DEF NoTransferAssumption, MarkerInv, VersionInv, PublishedIntact, ConfirmedPublished
<1>6. QED
  BY <1>3, <1>4, <1>5 DEF UploadInv, CommitSide

LEMMA UploadStep == UploadInv /\ [Next]_vars => UploadInv'
<1> SUFFICES ASSUME UploadInv, [Next]_vars PROVE UploadInv'
  OBVIOUS
<1>1. CASE Next
  <2>1. CASE \E t \in Transfers : CommitRequest(t)
    BY <2>1, CommitRepeatKeeps, CommitRefuseKeeps, CommitBeginKeeps DEF CommitRequest
  <2>2. QED
    BY <1>1, <2>1, StreamStepKeeps, CompanionStepKeeps, CommitStepsKeep, EndSessionKeeps,
       PowerLossKeeps, AnswerOfferKeeps DEF Next
<1>2. CASE UNCHANGED vars
  <2>1. UNCHANGED <<part, rx, resume, staged, client, pending, goal, upsets>>
    BY <1>2 DEF vars, streamVars
  <2>2. UNCHANGED <<target, backup, receipt, published, op, fresh, marker, offer>>
    BY <1>2 DEF vars, commitVars, cardVars, offerVars
  <2>3. StreamSide'
    BY <2>1, <2>2 DEF UploadInv, StreamSide, CardTyped, DataInv, StagedInv, StagedMatchesCard,
       LedgerInv, LinkSide, LinkTyped, LinkInv, BatchInv, ExactInv, InStep
  <2>4. CommitSide'
    BY <2>1, <2>2 DEF UploadInv, CommitSide, CommitTyped, OpInv, MarkerInv, VersionInv,
       PublishedIntact, ConfirmedPublished, receiving
  <2>5. QED
    BY <2>3, <2>4 DEF UploadInv
<1>3. QED
  BY <1>1, <1>2

\* The invariant everything below rests on.
THEOREM UploadInvariant == Spec => []UploadInv
<1>1. QED
  BY UploadStarts, UploadStep, PTL DEF Spec

\* Every variable stays in its type: no count passes the announced size or the batch,
\* no credit the window.
THEOREM UploadTypeCorrect == Spec => []TypeOK
<1>1. UploadInv => TypeOK
  BY DEF UploadInv, StreamSide, LinkSide, CardTyped, LinkTyped, CommitSide, CommitTyped,
     TypeOK, StreamTypeOK
<1>2. QED
  BY <1>1, UploadInvariant, PTL

\* The resume ledger describes the card whenever service() or a request reads it.
THEOREM LedgerHonestAlways == Spec => []LedgerHonest
<1>1. ASSUME UploadInv PROVE LedgerHonest
  <2>1. SUFFICES ASSUME op.step # "cleanup", resume # NoLedger
                 PROVE  /\ part[resume.path] # Absent
                        /\ part[resume.path].len >= resume.received
                        /\ \A i \in 1 .. Size :
                             resume.crc[i] = IF i <= resume.received THEN part[resume.path].data[i] ELSE 0
    BY DEF LedgerHonest, LedgerMatchesCard
  <2>2. Agrees(part[resume.path], resume.received, resume.crc) /\ resume.received \in Nat
    BY <1>1, <2>1, Sizes DEF UploadInv, StreamSide, LedgerInv, CardTyped
  <2>3. part[resume.path] # Absent
    BY <2>2, AbsentAgrees
  <2>4. QED
    BY <2>2, <2>3 DEF Agrees
<1>2. QED
  BY <1>1, UploadInvariant, PTL

\* A staging file reported as verified holds the bytes its CRC was computed over.
THEOREM StagedFilesMatch == Spec => []StagedMatchesCard
<1>1. UploadInv => StagedMatchesCard
  BY DEF UploadInv, StreamSide, StagedInv
<1>2. QED
  BY <1>1, UploadInvariant, PTL

\* Through any number of interruptions the card holds an exact prefix of the payload of
\* a companion that respects RESUME.
THEOREM PrefixesExact == Spec => []PrefixExact
<1>1. ASSUME UploadInv PROVE PrefixExact
  <2>1. SUFFICES ASSUME ~Careless, rx.phase = "DATA", NEW i \in 1 .. rx.received
                 PROVE  part[rx.path].data[i] = i /\ rx.crc[i] = i
    BY DEF PrefixExact
  <2>2. Agrees(part[rx.path], rx.received, rx.crc) /\ Exact(rx.received, rx.crc)
    BY <1>1, <2>1 DEF UploadInv, StreamSide, DataInv, LinkSide, ExactInv
  <2>3. i \in 1 .. Size /\ i <= rx.received /\ rx.crc[i] = i
    BY <1>1, <2>2, Sizes DEF UploadInv, StreamSide, CardTyped, Exact
  <2>4. QED
    BY <2>2, <2>3 DEF Agrees
<1>2. QED
  BY <1>1, UploadInvariant, PTL

\* What carries the target's name, or is its backup, is one complete payload.
THEOREM PublishedFilesIntact == Spec => []PublishedIntact
<1>1. UploadInv => PublishedIntact
  BY DEF UploadInv, CommitSide
<1>2. QED
  BY <1>1, UploadInvariant, PTL

\* Nothing is confirmed or recorded that was not published.
THEOREM ConfirmationsTrue == Spec => []ConfirmedPublished
<1>1. UploadInv => ConfirmedPublished
  BY DEF UploadInv, CommitSide
<1>2. QED
  BY <1>1, UploadInvariant, PTL

\* One failure, lost connection or restart never costs the published version.
THEOREM SingleUpsetSafe == Spec => []SingleUpsetKeepsVersion
<1>1. UploadInv => SingleUpsetKeepsVersion
  BY NoOpIdle DEF UploadInv, CommitSide, VersionInv, SingleUpsetKeepsVersion, VersionKept
<1>2. QED
  BY <1>1, UploadInvariant, PTL

\* What a boot offers to install was published by the session it ends, complete.
THEOREM OffersOnlyThisSession == Spec => OffersThisSession
<1> DEFINE Offer == offer' \notin {offer, NoTransfer} =>
                      offer' \in fresh /\ target = [owner |-> offer', data |-> Payload]
<1>1. UploadInv /\ [Next]_vars => [Offer]_vars
  <2>1. SUFFICES ASSUME UploadInv, Next, offer' # offer, offer' # NoTransfer
                 PROVE  offer' \in fresh /\ target = [owner |-> offer', data |-> Payload]
    OBVIOUS
  <2>2. PICK shell \in BOOLEAN : Serving /\ Boot(shell)
    BY <2>1 DEF Next, commitVars, offerVars, CommitRequest, CommitRepeat, CommitRefuse, CommitBegin,
       CommitSteps, Preserve, PreserveFail, Publish, PublishFail, Restore, RestoreFail, Cleanup,
       DropReceipt, SaveReceipt, ReceiptFail, EndSession, PowerLoss, AnswerOffer, Boot, Offerable
  <2>3. offer' = marker /\ marker # NoTransfer /\ target # NoFile /\ op = NoOp
    BY <2>1, <2>2 DEF Boot, Offerable, Serving
  <2>4. target \in Published /\ target.data = Payload
    BY <2>1, <2>3 DEF UploadInv, CommitSide, CommitTyped, PublishedIntact
  <2>5. marker \in fresh /\ target.owner = marker
    BY <2>1, <2>3, <2>4, FileNamed, NoOpIdle, NoTransferAssumption
       DEF NoTransferAssumption, UploadInv, CommitSide, MarkerInv
  <2>6. target = [owner |-> target.owner, data |-> target.data]
    BY <2>4 DEF Published, NoFile
  <2>7. QED
    BY <2>3, <2>4, <2>5, <2>6
<1>2. QED
  BY <1>1, UploadInvariant, PTL DEF Spec, OffersThisSession
===============================================================================
