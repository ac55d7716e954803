--------------------------- MODULE UploadStreamProofs ---------------------------
(***************************************************************************)
(* What every step of the upload stream keeps of its ledgers, the wire and  *)
(* the card, for every number of transfers, size, batch and window.         *)
(* UploadCommitProofs puts the commit beside it.                            *)
(***************************************************************************)
EXTENDS UploadStream, SequenceTheorems, TLAPS

\* StreamTypeOK in two halves that are disturbed by different actions.
CardTyped ==
  /\ part \in [Transfers -> Files]
  /\ rx \in [phase : Phases, path : Paths, received : 0 .. Size, crc : Contents,
             batch : 0 .. Capacity, acked : 0 .. Size]
  /\ resume \in [path : Paths, received : 0 .. Size, crc : Contents]
  /\ staged \in [file : Paths, crc : Contents, success : BOOLEAN]

LinkTyped ==
  /\ client \in Clients
  /\ pending \in Clients
  /\ goal \in [Transfers -> {"send", "commit", "done"}]
  /\ upsets \in 0 .. MaxUpsets

\* A RESUME not yet read is the first reply; none stands behind another.
OpensWithResume(s) == s # <<>> /\ Head(s).kind = "RESUME"
NoneLater(s) == \A i \in 2 .. Len(s) : s[i].kind # "RESUME"

\* What is on the wire was sent, and nothing is sent before RESUME is read.
LinkInv ==
  /\ client.wire <= client.sent
  /\ NoneLater(client.replies)
  /\ OpensWithResume(client.replies) => client.sent = 0 /\ client.wire = 0 /\ client.credit = 0
  /\ pending.sent = 0 /\ pending.wire = 0 /\ pending.replies = <<>>
  /\ pending.resume => pending.credit = 0
  /\ rx.phase = "HEADER" =>
       /\ client.sent = client.wire /\ client.replies = <<>>
       /\ client.resume => client.sent = 0 /\ client.credit = 0

\* The batch holds bytes that were taken off the wire and belong to the request.
BatchInv ==
  rx.phase = "DATA" =>
    /\ rx.batch + client.wire <= client.sent
    /\ rx.received + rx.batch <= Size
    /\ OpensWithResume(client.replies) => rx.batch = 0 /\ Head(client.replies).offset = rx.received

\* The file holds the counted prefix, and the CRC was computed over it.
Agrees(file, received, crc) ==
  /\ file.len >= received
  /\ \A i \in 1 .. Size : crc[i] = IF i <= received THEN file.data[i] ELSE 0

\* While a transfer runs no ledger is kept, and its CRC is that of the flushed prefix.
DataInv ==
  rx.phase = "DATA" =>
    /\ rx.path \in Transfers
    /\ resume = NoLedger /\ ~staged.success
    /\ Agrees(part[rx.path], rx.received, rx.crc)

LedgerInv ==
  resume # NoLedger =>
    resume.path \in Transfers /\ Agrees(part[resume.path], resume.received, resume.crc)

StagedInv == StagedMatchesCard /\ (staged.success => staged.file \in Transfers)

CardInv == CardTyped /\ DataInv /\ LedgerInv /\ StagedInv

\* With a companion that respects RESUME the next byte off the wire continues the prefix.
InStep ==
  \/ client.sent - client.wire - rx.batch = rx.received
  \/ /\ client.sent = 0 /\ client.wire = 0 /\ rx.batch = 0 /\ client.credit = 0
     /\ client.alive => OpensWithResume(client.replies)

Exact(received, crc) == \A i \in 1 .. received : crc[i] = i

ExactInv ==
  ~Careless =>
    /\ rx.phase = "DATA" => InStep /\ Exact(rx.received, rx.crc)
    /\ Exact(resume.received, resume.crc)

StreamInv == CardInv /\ LinkTyped /\ LinkInv /\ BatchInv /\ ExactInv

-------------------------------------------------------------------------------
(* Files, batches and replies.                                               *)

LEMMA Sizes ==
  /\ Size \in Nat /\ Size >= 1
  /\ Capacity \in Nat /\ Capacity >= 1
  /\ Window \in Nat /\ Window >= 1
  /\ MaxUpsets \in Nat
  BY SizesAssumption DEF SizesAssumption

LEMMA Contained ==
  /\ Blank \in Contents /\ Payload \in Contents
  /\ Absent \in Files
  /\ \A i \in 1 .. Size : Blank[i] = 0
  BY Sizes DEF Blank, Payload, Contents, Absent, Files

LEMMA StoredContents ==
  ASSUME NEW data \in Contents, NEW at \in 0 .. Size, NEW before \in Nat, NEW count \in Nat,
         before + count <= Size
  PROVE  /\ Stored(data, at, before, count) \in Contents
         /\ \A i \in 1 .. Size :
              Stored(data, at, before, count)[i] =
                IF at < i /\ i <= at + count THEN before + i - at ELSE data[i]
<1>1. \A i \in 1 .. Size : (IF at < i /\ i <= at + count THEN before + i - at ELSE data[i]) \in 0 .. Size
  BY Sizes DEF Contents
<1>2. QED
  BY <1>1 DEF Stored, Contents

\* A batch appended to a file and to its CRC leaves them in agreement.
LEMMA BatchAppended ==
  ASSUME NEW file \in Files, NEW crc \in Contents, NEW at \in 0 .. Size, NEW before \in Nat,
         NEW count \in Nat, before + count <= Size, at + count <= Size, Agrees(file, at, crc)
  PROVE  /\ Written(file, at, before, count) \in Files
         /\ Stored(crc, at, before, count) \in Contents
         /\ Agrees(Written(file, at, before, count), at + count, Stored(crc, at, before, count))
         /\ Exact(at, crc) /\ (before = at \/ count = 0)
              => Exact(at + count, Stored(crc, at, before, count))
<1> DEFINE w == Written(file, at, before, count)
           c == Stored(crc, at, before, count)
<1>1. file.len \in -1 .. Size /\ file.data \in Contents
  BY DEF Files
<1>2. /\ c \in Contents
      /\ \A i \in 1 .. Size : c[i] = IF at < i /\ i <= at + count THEN before + i - at ELSE crc[i]
  BY StoredContents
<1>3. /\ w.data \in Contents
      /\ \A i \in 1 .. Size :
           w.data[i] = IF at < i /\ i <= at + count THEN before + i - at ELSE file.data[i]
  <2>1. w.data = Stored(file.data, at, before, count)
    BY DEF Written
  <2>2. file.data \in Contents
    BY <1>1
  <2>3. QED
    BY <2>1, <2>2, StoredContents
<1>4. w.len \in -1 .. Size /\ w.len >= at + count /\ w = [len |-> w.len, data |-> w.data]
  BY <1>1, Sizes DEF Written
<1>5. w \in Files
  BY <1>3, <1>4 DEF Files
<1>6. Agrees(w, at + count, c)
  BY <1>2, <1>3, <1>4, Sizes DEF Agrees
<1>7. ASSUME Exact(at, crc), before = at \/ count = 0 PROVE Exact(at + count, c)
  BY <1>2, <1>7, Sizes DEF Exact
<1>8. QED
  BY <1>2, <1>5, <1>6, <1>7

\* A complete file that agrees with a CRC is that CRC's content.
LEMMA CompleteAgrees ==
  ASSUME NEW file \in Files, NEW crc \in Contents, Agrees(file, Size, crc)
  PROVE  file = [len |-> Size, data |-> crc]
<1>1. file.len \in -1 .. Size /\ file.data \in Contents /\ file = [len |-> file.len, data |-> file.data]
  BY DEF Files
<1>2. file.len = Size
  BY <1>1, Sizes DEF Agrees
<1>3. \A i \in 1 .. Size : crc[i] = file.data[i]
  BY Sizes DEF Agrees
<1>4. file.data = crc
  <2>1. file.data = [i \in 1 .. Size |-> file.data[i]] /\ crc = [i \in 1 .. Size |-> crc[i]]
    BY <1>1 DEF Contents
  <2>2. QED
    BY <1>3, <2>1, Zenon
<1>5. QED
  BY <1>1, <1>2, <1>4

\* An absent file agrees with nothing, a new one with the empty prefix.
LEMMA NewAgrees ==
  ASSUME NEW len \in {0, Size}
  PROVE  /\ [len |-> len, data |-> Blank] \in Files
         /\ Agrees([len |-> len, data |-> Blank], 0, Blank)
         /\ Exact(0, Blank)
  BY Sizes, Contained DEF Files, Agrees, Exact

LEMMA AbsentAgrees ==
  ASSUME NEW received \in Nat, NEW crc
  PROVE  ~Agrees(Absent, received, crc)
  BY DEF Agrees, Absent

\* The replies a companion has not read, when one more comes or it reads the next.
LEMMA ReplyQueued ==
  ASSUME NEW s \in Seq(Replies), NEW r \in Replies, NoneLater(s), r.kind # "RESUME" \/ s = <<>>
  PROVE  /\ Append(s, r) \in Seq(Replies)
         /\ NoneLater(Append(s, r))
         /\ s # <<>> => Head(Append(s, r)) = Head(s)
         /\ s = <<>> => Head(Append(s, r)) = r
         /\ Append(s, r) # <<>>
  BY AppendProperties, HeadTailAppend DEF NoneLater

LEMMA ReplyRead ==
  ASSUME NEW s \in Seq(Replies), NoneLater(s), s # <<>>
  PROVE  /\ Head(s) \in Replies
         /\ Tail(s) \in Seq(Replies)
         /\ NoneLater(Tail(s)) /\ ~OpensWithResume(Tail(s))
  BY HeadTailProperties DEF NoneLater, OpensWithResume
-------------------------------------------------------------------------------
(* How a transfer may end or begin.                                          *)

\* No connection.
LEMMA NoClientTyped ==
  /\ NoClient \in Clients
  /\ NoClient.transfer = NoTransfer
  /\ NoClient.sent = 0 /\ NoClient.wire = 0 /\ NoClient.credit = 0 /\ NoClient.replies = <<>>
  /\ NoClient.resume = FALSE /\ NoClient.alive = FALSE
  /\ NoneLater(<<>>) /\ ~OpensWithResume(<<>>)
<1>1. <<>> \in Seq(Replies)
  OBVIOUS
<1>2. QED
  BY <1>1, Sizes DEF NoClient, Clients, Paths, NoneLater, OpensWithResume

\* A record of the stream's fields has the stream's type.
LEMMA RxTyped ==
  ASSUME NEW phase \in Phases, NEW path \in Paths, NEW received \in 0 .. Size, NEW crc \in Contents,
         NEW batch \in 0 .. Capacity, NEW acked \in 0 .. Size
  PROVE  [phase |-> phase, path |-> path, received |-> received, crc |-> crc, batch |-> batch,
          acked |-> acked]
           \in [phase : Phases, path : Paths, received : 0 .. Size, crc : Contents,
                batch : 0 .. Capacity, acked : 0 .. Size]
  OBVIOUS

\* The stream that has sent its last reply.
LEMMA RepliedTyped ==
  ASSUME NEW t \in Paths, Replied(t)
  PROVE  rx' \in [phase : Phases, path : Paths, received : 0 .. Size, crc : Contents,
                  batch : 0 .. Capacity, acked : 0 .. Size] /\ rx'.phase = "REPLIED"
<1>1. rx' = [phase |-> "REPLIED", path |-> t, received |-> 0, crc |-> Blank, batch |-> 0, acked |-> 0]
  BY DEF Replied, Quiet
<1>2. QED
  BY <1>1, Sizes, Contained DEF Phases

\* fail() and its ledgers.
LEMMA FailKeeps ==
  ASSUME StreamInv, NEW t \in Paths, Fail(t)
  PROVE  CardInv' /\ BatchInv' /\ ExactInv' /\ rx'.phase = "REPLIED"
<1> USE Sizes, Contained, NoTransferAssumption DEF NoTransferAssumption
<1>1. rx' \in [phase : Phases, path : Paths, received : 0 .. Size, crc : Contents,
               batch : 0 .. Capacity, acked : 0 .. Size] /\ rx'.phase = "REPLIED"
  BY RepliedTyped DEF Fail
<1>2. /\ part' \in [Transfers -> Files]
      /\ \A p \in Transfers : p # t => part'[p] = part[p]
  BY DEF Fail, StreamInv, CardInv, CardTyped
<1>3. /\ staged' \in [file : Paths, crc : Contents, success : BOOLEAN] /\ ~staged'.success
  BY DEF Fail, StreamInv, CardInv, CardTyped
<1>4. resume' = NoLedger \/ (resume' = resume /\ (resume.path \in Transfers => resume.path # t))
  BY DEF Fail
<1>5. resume' \in [path : Paths, received : 0 .. Size, crc : Contents]
  BY <1>4 DEF StreamInv, CardInv, CardTyped, NoLedger, Paths
<1>6. LedgerInv'
  BY <1>2, <1>4 DEF LedgerInv, StreamInv, CardInv, NoLedger
<1>7. ExactInv'
  BY <1>1, <1>4 DEF ExactInv, StreamInv, NoLedger, Exact
<1>8. QED
  BY <1>1, <1>2, <1>3, <1>5, <1>6, <1>7
     DEF CardInv, CardTyped, DataInv, BatchInv, StagedInv, StagedMatchesCard

\* suspend(): what is retained agrees with the card.
LEMMA SuspendKeeps ==
  ASSUME NEW t \in Transfers, NEW files \in [Transfers -> Files], NEW received \in 0 .. Size,
         NEW crc \in Contents, Agrees(files[t], received, crc), ~Careless => Exact(received, crc),
         CardTyped, Suspend(t, files, received, crc)
  PROVE  CardInv' /\ BatchInv' /\ ExactInv' /\ rx'.phase = "REPLIED"
<1> USE Sizes, Contained DEF Suspend, Paths
<1>1. rx' \in [phase : Phases, path : Paths, received : 0 .. Size, crc : Contents,
               batch : 0 .. Capacity, acked : 0 .. Size] /\ rx'.phase = "REPLIED"
  BY RepliedTyped DEF Paths
<1>2. staged' \in [file : Paths, crc : Contents, success : BOOLEAN] /\ ~staged'.success
  BY DEF CardTyped
<1>3. part' \in [Transfers -> Files]
  OBVIOUS
<1>4. \/ resume' = NoLedger
      \/ part' = files /\ resume' = [path |-> t, received |-> received, crc |-> crc]
  OBVIOUS
<1>5. resume' \in [path : Paths, received : 0 .. Size, crc : Contents] /\ LedgerInv'
  BY <1>4 DEF NoLedger, LedgerInv
<1>6. ExactInv'
  BY <1>1, <1>4 DEF ExactInv, NoLedger, Exact
<1>7. QED
  BY <1>1, <1>2, <1>3, <1>5, <1>6
     DEF CardInv, CardTyped, DataInv, BatchInv, StagedInv, StagedMatchesCard

\* finish(): a complete file is staged under the CRC that was computed over it.
LEMMA FinishKeeps ==
  ASSUME NEW t \in Transfers, NEW files \in [Transfers -> Files], NEW received \in 0 .. Size,
         NEW crc \in Contents, Agrees(files[t], received, crc), ~Careless => Exact(received, crc),
         received >= Size, Finish(t, files, received, crc)
  PROVE  CardInv' /\ BatchInv' /\ ExactInv' /\ rx'.phase = "REPLIED"
<1> USE Sizes, Contained DEF Finish, Paths
<1>1. rx' \in [phase : Phases, path : Paths, received : 0 .. Size, crc : Contents,
               batch : 0 .. Capacity, acked : 0 .. Size] /\ rx'.phase = "REPLIED"
  BY RepliedTyped DEF Paths
<1>2. files[t] = [len |-> Size, data |-> crc]
  BY CompleteAgrees
<1>3. part' = files /\ staged' = [file |-> t, crc |-> crc, success |-> TRUE]
      /\ resume' = [path |-> t, received |-> received, crc |-> crc]
  OBVIOUS
<1>4. CardTyped'
  BY <1>1, <1>3 DEF CardTyped
<1>5. LedgerInv' /\ StagedInv'
  BY <1>2, <1>3 DEF LedgerInv, StagedInv, StagedMatchesCard
<1>6. ExactInv'
  BY <1>1, <1>3 DEF ExactInv
<1>7. QED
  BY <1>1, <1>4, <1>5, <1>6 DEF CardInv, DataInv, BatchInv

\* The end of a transfer leaves the rest of the connection as it is, or reads from it.
LEMMA LinkAfterReply ==
  ASSUME StreamInv, rx'.phase = "REPLIED", client' \in Clients, client'.wire <= client'.sent,
         NoneLater(client'.replies),
         OpensWithResume(client'.replies) => client'.sent = 0 /\ client'.wire = 0 /\ client'.credit = 0,
         UNCHANGED <<pending, goal>>, upsets' \in 0 .. MaxUpsets
  PROVE  LinkTyped' /\ LinkInv'
  BY DEF StreamInv, LinkTyped, LinkInv

\* The batch and what a slice adds to it continue the file, if they belong to the request.
LEMMA BatchFits ==
  ASSUME StreamInv, rx.phase = "DATA", NEW n \in 0 .. client.wire,
         rx.received + rx.batch + n <= Size
  PROVE  LET fill == rx.batch + n
         IN  /\ rx.received + fill \in 0 .. Size
             /\ Flushed(fill) \in [Transfers -> Files]
             /\ FlushedCrc(fill) \in Contents
             /\ Agrees(Flushed(fill)[rx.path], rx.received + fill, FlushedCrc(fill))
             /\ ~Careless => Exact(rx.received + fill, FlushedCrc(fill))
<1> DEFINE fill == rx.batch + n
<1>1. /\ rx.batch \in Nat /\ rx.received \in 0 .. Size /\ rx.crc \in Contents
      /\ client.wire \in Nat /\ client.sent \in 0 .. Size /\ n \in Nat
      /\ rx.path \in Transfers /\ part[rx.path] \in Files
      /\ Agrees(part[rx.path], rx.received, rx.crc)
      /\ rx.batch + client.wire <= client.sent
  BY Sizes DEF StreamInv, CardInv, CardTyped, LinkTyped, Clients, DataInv, BatchInv
<1>2. /\ BatchBefore \in Nat /\ fill \in Nat /\ BatchBefore + fill <= Size
      /\ rx.received + fill <= Size
  BY <1>1, Sizes DEF BatchBefore
<1>3. /\ Written(part[rx.path], rx.received, BatchBefore, fill) \in Files
      /\ FlushedCrc(fill) \in Contents
      /\ Agrees(Written(part[rx.path], rx.received, BatchBefore, fill), rx.received + fill, FlushedCrc(fill))
      /\ Exact(rx.received, rx.crc) /\ (BatchBefore = rx.received \/ fill = 0)
           => Exact(rx.received + fill, FlushedCrc(fill))
  BY <1>1, <1>2, BatchAppended DEF FlushedCrc
<1>4. /\ Flushed(fill) \in [Transfers -> Files]
      /\ Flushed(fill)[rx.path] = Written(part[rx.path], rx.received, BatchBefore, fill)
  BY <1>1, <1>3 DEF Flushed, StreamInv, CardInv, CardTyped
<1>5. ASSUME ~Careless PROVE Exact(rx.received, rx.crc) /\ (BatchBefore = rx.received \/ fill = 0)
  BY <1>1, <1>5 DEF StreamInv, ExactInv, InStep, BatchBefore
<1>6. QED
  BY <1>1, <1>2, <1>3, <1>4, <1>5
-------------------------------------------------------------------------------
(* service(), slice by slice.                                                *)

\* A disturbance is counted within the bound.
LEMMA UpsetBounded ==
  ASSUME LinkTyped, Upset \/ UNCHANGED upsets
  PROVE  upsets' \in 0 .. MaxUpsets
  BY Sizes DEF LinkTyped, Upset

\* A transfer ends, and the connection stays as it was.
LEMMA LinkLeft ==
  ASSUME StreamInv, rx'.phase = "REPLIED", UNCHANGED <<client, pending, goal>>,
         Upset \/ UNCHANGED upsets
  PROVE  LinkTyped' /\ LinkInv'
<1>1. upsets' \in 0 .. MaxUpsets
  BY UpsetBounded DEF StreamInv
<1>2. QED
  BY <1>1 DEF StreamInv, LinkTyped, LinkInv

LEMMA AcceptKeeps ==
  ASSUME StreamInv, Accept
  PROVE  StreamInv'
<1>1. rx' = [phase |-> "HEADER", path |-> NoTransfer, received |-> 0, crc |-> Blank, batch |-> 0, acked |-> 0]
  BY DEF Accept, Quiet
<1>2. CardInv'
  <2>1. rx' \in [phase : Phases, path : Paths, received : 0 .. Size, crc : Contents,
                 batch : 0 .. Capacity, acked : 0 .. Size]
    <3>1. NoTransfer \in Paths /\ "HEADER" \in Phases /\ 0 \in 0 .. Size /\ 0 \in 0 .. Capacity
      BY Sizes DEF Paths, Phases
    <3>2. QED
      BY <1>1, <3>1, Contained, RxTyped
  <2>2. QED
    BY <1>1, <2>1 DEF Accept, StreamInv, CardInv, CardTyped, DataInv, LedgerInv, StagedInv,
       StagedMatchesCard
<1>3. LinkTyped' /\ LinkInv'
  BY <1>1, NoClientTyped DEF Accept, StreamInv, LinkTyped, LinkInv
<1>4. BatchInv' /\ ExactInv'
  BY <1>1 DEF Accept, StreamInv, BatchInv, ExactInv
<1>5. QED
  BY <1>2, <1>3, <1>4 DEF StreamInv

LEMMA RejectHeaderKeeps ==
  ASSUME StreamInv, RejectHeader
  PROVE  StreamInv'
<1>1. NoTransfer \in Paths /\ Fail(NoTransfer) /\ UNCHANGED <<client, pending, goal, upsets>>
  BY DEF RejectHeader, Paths
<1>2. QED
  BY <1>1, FailKeeps, LinkLeft DEF StreamInv

\* Whatever beginFromHeader() finds, payload continues the prefix it announced.
LEMMA OpenKeeps ==
  ASSUME StreamInv, rx.phase = "HEADER", NEW t \in Transfers, NEW files \in [Transfers -> Files],
         NEW received \in 0 .. Size, NEW crc \in Contents, Agrees(files[t], received, crc),
         ~Careless => Exact(received, crc), received = 0 \/ client.resume,
         Open(t, files, received, crc), UNCHANGED <<pending, goal>>, Upset \/ UNCHANGED upsets
  PROVE  StreamInv'
<1> DEFINE line == [kind |-> "RESUME", offset |-> received]
           ok   == [kind |-> "OK", crc |-> crc]
<1>1. upsets' \in 0 .. MaxUpsets
  BY UpsetBounded DEF StreamInv
<1>2. /\ client \in Clients /\ client.replies = <<>> /\ client.sent = client.wire
      /\ client.sent \in 0 .. Size /\ client.wire \in 0 .. Size
      /\ client.resume => client.sent = 0 /\ client.wire = 0 /\ client.credit = 0
  BY Sizes DEF StreamInv, LinkTyped, LinkInv, Clients
<1>3. /\ line \in Replies /\ line.kind = "RESUME" /\ line.offset = received
      /\ ok \in Replies /\ ok.kind # "RESUME"
  BY DEF Replies
<1>4. CASE client.resume /\ ~client.alive /\ Suspend(t, files, received, crc) /\ UNCHANGED client
  BY <1>4, SuspendKeeps, LinkLeft DEF StreamInv, CardInv
<1>5. CASE /\ received < Size
           /\ part' = files
           /\ resume' = NoLedger
           /\ staged' = [Unstaged EXCEPT !.file = t]
           /\ rx' = [phase |-> "DATA", path |-> t, received |-> received, crc |-> crc,
                     batch |-> 0, acked |-> received]
           /\ IF client.resume THEN Answer(line) ELSE UNCHANGED client
  <2>1. CardInv'
    <3>1. staged' = [file |-> t, crc |-> Blank, success |-> FALSE]
      BY <1>5 DEF Unstaged
    <3>2. t \in Paths /\ NoTransfer \in Paths /\ "DATA" \in Phases /\ 0 \in 0 .. Size /\ 0 \in 0 .. Capacity
      BY Sizes DEF Paths, Phases
    <3>3. CardTyped'
      <4>1. rx' \in [phase : Phases, path : Paths, received : 0 .. Size, crc : Contents,
                     batch : 0 .. Capacity, acked : 0 .. Size]
        BY <1>5, <3>2, RxTyped
      <4>2. resume' \in [path : Paths, received : 0 .. Size, crc : Contents]
        BY <1>5, <3>2, Contained DEF NoLedger
      <4>3. staged' \in [file : Paths, crc : Contents, success : BOOLEAN]
        BY <3>1, <3>2, Contained
      <4>4. QED
        BY <1>5, <4>1, <4>2, <4>3 DEF CardTyped
    <3>4. DataInv' /\ LedgerInv' /\ StagedInv'
      BY <1>5, <3>1 DEF DataInv, LedgerInv, StagedInv, StagedMatchesCard
    <3>5. QED
      BY <3>3, <3>4 DEF CardInv
  <2>2. CASE client.resume /\ client.alive
    <3>1. client' = [client EXCEPT !.replies = <<line>>] /\ client' \in Clients
      <4>1. Append(<<>>, line) = <<line>> /\ <<line>> \in Seq(Replies)
        BY <1>3
      <4>2. client' = [client EXCEPT !.replies = <<line>>]
        BY <1>2, <1>5, <2>2, <4>1 DEF Answer
      <4>3. QED
        BY <1>2, <4>1, <4>2 DEF Clients
    <3>2. client'.replies = <<line>> /\ client'.sent = 0 /\ client'.wire = 0 /\ client'.credit = 0
      BY <1>2, <2>2, <3>1 DEF Clients
    <3>3. /\ NoneLater(<<line>>) /\ OpensWithResume(<<line>>)
          /\ Head(<<line>>).offset = received
      BY <1>3 DEF NoneLater, OpensWithResume
    <3>4. LinkTyped' /\ LinkInv'
      BY <1>1, <1>5, <3>1, <3>2, <3>3 DEF StreamInv, LinkTyped, LinkInv
    <3>5. BatchInv' /\ ExactInv'
      BY <1>5, <3>2, <3>3 DEF BatchInv, ExactInv, InStep, NoLedger, Exact
    <3>6. QED
      BY <2>1, <3>4, <3>5 DEF StreamInv
  <2>3. CASE ~(client.resume /\ client.alive)
    <3>1. client' = client
      BY <1>5, <2>3 DEF Answer
    <3>2. ~OpensWithResume(<<>>)
      BY NoClientTyped
    <3>3. LinkTyped' /\ LinkInv'
      BY <1>1, <1>5, <3>1 DEF StreamInv, LinkTyped, LinkInv
    <3>4. BatchInv'
      BY <1>2, <1>5, <3>1, <3>2 DEF BatchInv
    <3>5. ExactInv'
      BY <1>2, <1>5, <2>3, <3>1, Sizes DEF ExactInv, InStep, NoLedger, Exact
    <3>6. QED
      BY <2>1, <3>3, <3>4, <3>5 DEF StreamInv
  <2>4. QED
    BY <2>2, <2>3
<1>6. CASE /\ received >= Size
           /\ Finish(t, files, received, crc)
           /\ client' = IF client.alive THEN [client EXCEPT !.replies = <<line, ok>>] ELSE client
  <2>1. CardInv' /\ BatchInv' /\ ExactInv' /\ rx'.phase = "REPLIED"
    BY <1>6, FinishKeeps
  <2>2. client.resume
    BY Sizes, <1>6
  <2>3. LinkTyped' /\ LinkInv'
    <3>1. CASE client' = client
      BY <1>1, <2>1, <3>1 DEF StreamInv, LinkTyped, LinkInv
    <3>2. CASE client' = [client EXCEPT !.replies = <<line, ok>>]
      <4>1. <<line, ok>> \in Seq(Replies) /\ NoneLater(<<line, ok>>)
        BY <1>3 DEF NoneLater
      <4>2. /\ client' \in Clients /\ client'.replies = <<line, ok>>
            /\ client'.sent = 0 /\ client'.wire = 0 /\ client'.credit = 0
        BY <1>2, <2>2, <3>2, <4>1 DEF Clients
      <4>3. QED
        BY <1>1, <2>1, <4>1, <4>2, LinkAfterReply
    <3>3. QED
      BY <1>6, <3>1, <3>2
  <2>4. QED
    BY <2>1, <2>3 DEF StreamInv
<1>7. QED
  BY <1>4, <1>5, <1>6 DEF Open
\* The retained prefix is in the ledger, and agrees with the file that is reopened.
LEMMA BeginResumedKeeps ==
  ASSUME StreamInv, BeginResumed
  PROVE  StreamInv'
<1> DEFINE t == client.transfer
<1>1. t \in Transfers /\ client.resume /\ resume.path = t /\ resume.received > 0
  BY DEF BeginResumed, Resumable, StreamInv, LinkTyped, Clients, Paths
<1>2. resume # NoLedger
  BY <1>1 DEF NoLedger
<1>3. Agrees(part[t], resume.received, resume.crc) /\ (~Careless => Exact(resume.received, resume.crc))
  BY <1>1, <1>2 DEF StreamInv, CardInv, LedgerInv, ExactInv
<1>4. part \in [Transfers -> Files] /\ resume.received \in 0 .. Size /\ resume.crc \in Contents
  BY DEF StreamInv, CardInv, CardTyped
<1>5. rx.phase = "HEADER" /\ Open(t, part, resume.received, resume.crc) /\ UNCHANGED <<pending, goal, upsets>>
  BY DEF BeginResumed
<1>6. QED
  BY <1>1, <1>3, <1>4, <1>5, OpenKeeps

\* A fresh file agrees with the empty prefix.
LEMMA BeginFreshKeeps ==
  ASSUME StreamInv, BeginFresh
  PROVE  StreamInv'
<1> DEFINE t == client.transfer
<1>1. t \in Transfers /\ rx.phase = "HEADER" /\ UNCHANGED <<pending, goal>> /\ (Upset \/ UNCHANGED upsets)
  BY DEF BeginFresh, StreamInv, LinkTyped, Clients, Paths
<1>2. PICK missed \in SUBSET (Transfers \ {t, resume.path}), len \in {0, Size} :
        Open(t, [q \in Transfers |-> IF q = t THEN [len |-> len, data |-> Blank]
                                     ELSE IF q \in missed THEN part[q] ELSE Absent], 0, Blank)
  BY DEF BeginFresh
<1> DEFINE files == [q \in Transfers |-> IF q = t THEN [len |-> len, data |-> Blank]
                                         ELSE IF q \in missed THEN part[q] ELSE Absent]
<1>3. part \in [Transfers -> Files]
  BY DEF StreamInv, CardInv, CardTyped
<1>4. /\ [len |-> len, data |-> Blank] \in Files
      /\ Agrees([len |-> len, data |-> Blank], 0, Blank) /\ Exact(0, Blank)
  BY NewAgrees
<1>5. files \in [Transfers -> Files] /\ files[t] = [len |-> len, data |-> Blank]
  BY <1>1, <1>3, <1>4, Contained
<1>6. 0 \in 0 .. Size /\ Blank \in Contents
  BY Sizes, Contained
<1>7. Open(t, files, 0, Blank)
  BY <1>2
<1> HIDE DEF files
<1>8. QED
  BY <1>1, <1>4, <1>5, <1>6, <1>7, OpenKeeps

\* No file, no ledger.
LEMMA BeginFailKeeps ==
  ASSUME StreamInv, BeginFail
  PROVE  StreamInv'
<1> DEFINE t == client.transfer
<1>1. t \in Transfers /\ t \in Paths
  BY DEF BeginFail, StreamInv, LinkTyped, Clients, Paths
<1>2. /\ Replied(t) /\ resume' = NoLedger /\ staged' = [Unstaged EXCEPT !.file = t]
      /\ part' = [q \in Transfers |-> IF q \in {t, resume.path} THEN Absent ELSE part[q]]
      /\ UNCHANGED <<client, pending, goal>> /\ Upset
  BY DEF BeginFail
<1>3. part' \in [Transfers -> Files]
  BY <1>2, Contained DEF StreamInv, CardInv, CardTyped
<1>4. staged' = [file |-> t, crc |-> Blank, success |-> FALSE]
  BY <1>2 DEF Unstaged
<1>5. NoTransfer \in Paths /\ 0 \in 0 .. Size
  BY Sizes DEF Paths
<1>6. CardTyped' /\ rx'.phase = "REPLIED"
  <2>1. /\ rx' \in [phase : Phases, path : Paths, received : 0 .. Size, crc : Contents,
                    batch : 0 .. Capacity, acked : 0 .. Size]
        /\ rx'.phase = "REPLIED"
    BY <1>1, <1>2, RepliedTyped
  <2>2. resume' \in [path : Paths, received : 0 .. Size, crc : Contents]
    BY <1>2, <1>5, Contained DEF NoLedger
  <2>3. staged' \in [file : Paths, crc : Contents, success : BOOLEAN]
    BY <1>1, <1>4, Contained
  <2>4. QED
    BY <1>3, <2>1, <2>2, <2>3 DEF CardTyped
<1>7. DataInv' /\ LedgerInv' /\ StagedInv' /\ BatchInv'
  BY <1>2, <1>4, <1>6 DEF DataInv, LedgerInv, StagedInv, StagedMatchesCard, BatchInv
<1>8. ExactInv'
  BY <1>2, <1>6 DEF ExactInv, NoLedger, Exact
<1>9. QED
  BY <1>2, <1>6, <1>7, <1>8, LinkLeft DEF StreamInv, CardInv

\* A transfer that fails takes its file with it.
LEMMA DataFails ==
  ASSUME StreamInv, rx.phase = "DATA", Fail(rx.path), UNCHANGED <<client, pending, goal>>,
         Upset \/ UNCHANGED upsets
  PROVE  StreamInv'
<1>1. rx.path \in Paths
  BY DEF StreamInv, CardInv, CardTyped
<1>2. QED
  BY <1>1, FailKeeps, LinkLeft DEF StreamInv

\* Bytes move from the wire to the batch.
LEMMA FillKeeps ==
  ASSUME StreamInv, Fill
  PROVE  StreamInv'
<1>1. PICK n \in Slices : /\ ~FlushDue(rx.batch + n)
                          /\ rx' = [rx EXCEPT !.batch = @ + n]
                          /\ client' = [client EXCEPT !.wire = @ - n]
  BY DEF Fill
<1>2. rx.phase = "DATA" /\ client.wire <= Outstanding /\ UNCHANGED <<part, resume, staged, pending, goal, upsets>>
  BY DEF Fill
<1>3. /\ rx.batch \in 0 .. Capacity /\ rx.received \in 0 .. Size /\ rx.crc \in Contents
      /\ client.wire \in 0 .. Size /\ client.sent \in 0 .. Size
      /\ n \in 1 .. client.wire /\ rx.batch + n <= Capacity
      /\ rx.batch + client.wire <= client.sent
      /\ client.wire <= Size - rx.received - rx.batch
  BY <1>2 DEF StreamInv, CardInv, CardTyped, LinkTyped, Clients, BatchInv, Slices, Outstanding
<1>4. CardInv'
  <2>1. rx.batch + n \in 0 .. Capacity
    BY <1>3, Sizes
  <2>2. rx' \in [phase : Phases, path : Paths, received : 0 .. Size, crc : Contents,
                 batch : 0 .. Capacity, acked : 0 .. Size]
    BY <1>1, <2>1 DEF StreamInv, CardInv, CardTyped
  <2>3. rx'.phase = rx.phase /\ rx'.path = rx.path /\ rx'.received = rx.received /\ rx'.crc = rx.crc
    BY <1>1 DEF StreamInv, CardInv, CardTyped
  <2>4. QED
    BY <1>2, <2>2, <2>3 DEF StreamInv, CardInv, CardTyped, DataInv, LedgerInv, StagedInv, StagedMatchesCard
<1>5. client' \in Clients /\ client'.wire = client.wire - n /\ client'.sent = client.sent
      /\ client'.replies = client.replies /\ client'.credit = client.credit /\ client'.alive = client.alive
  <2>1. client.wire - n \in 0 .. Size
    BY <1>3, Sizes
  <2>2. QED
    BY <1>1, <2>1 DEF StreamInv, LinkTyped, Clients
<1>6. ~OpensWithResume(client.replies)
  BY <1>3 DEF StreamInv, LinkInv
<1>7. rx'.phase = "DATA" /\ rx'.batch = rx.batch + n /\ rx'.received = rx.received /\ rx'.crc = rx.crc
  BY <1>1, <1>2 DEF StreamInv, CardInv, CardTyped
<1>8. LinkTyped' /\ LinkInv'
  BY <1>2, <1>3, <1>5, <1>6, <1>7 DEF StreamInv, LinkTyped, LinkInv
<1>9. BatchInv'
  BY <1>3, <1>5, <1>6, <1>7, Sizes DEF BatchInv
<1>10. ExactInv'
  <2>1. ASSUME ~Careless PROVE client.sent - client.wire - rx.batch = rx.received
    BY <1>2, <1>3, <2>1 DEF StreamInv, ExactInv, InStep
  <2>2. ASSUME ~Careless PROVE InStep'
    BY <1>3, <1>5, <1>7, <2>1, <2>2 DEF InStep
  <2>3. QED
    BY <1>2, <1>7, <2>2 DEF StreamInv, ExactInv
<1>11. QED
  BY <1>4, <1>8, <1>9, <1>10 DEF StreamInv
\* The batch is appended; what follows is the next batch, the end, or an interruption.
LEMMA FlushKeeps ==
  ASSUME StreamInv, Flush
  PROVE  StreamInv'
<1>1. rx.phase = "DATA" /\ client.wire <= Outstanding /\ UNCHANGED <<pending, goal, upsets>>
  BY DEF Flush
<1> DEFINE fill(n)     == rx.batch + n
           received(n) == rx.received + fill(n)
           drained(n)  == [client EXCEPT !.wire = @ - n]
           ok(n)       == [kind |-> "OK", crc |-> FlushedCrc(fill(n))]
           ack(n)      == [kind |-> "ACK", offset |-> received(n)]
<1>2. PICK n \in Slices :
        \/ /\ received(n) >= Size
           /\ Finish(rx.path, Flushed(fill(n)), received(n), FlushedCrc(fill(n)))
           /\ client' = IF client.alive
                        THEN [drained(n) EXCEPT !.replies = Append(@, ok(n))]
                        ELSE drained(n)
        \/ /\ received(n) < Size
           /\ part' = Flushed(fill(n))
           /\ rx' = [rx EXCEPT !.received = received(n), !.crc = FlushedCrc(fill(n)),
                               !.batch = 0,
                               !.acked = IF AckDue(fill(n)) THEN received(n) ELSE @]
           /\ client' = IF AckDue(fill(n))
                        THEN [drained(n) EXCEPT !.replies = Append(@, ack(n))]
                        ELSE drained(n)
           /\ UNCHANGED <<resume, staged>>
        \/ /\ received(n) < Size
           /\ Suspend(rx.path, Flushed(fill(n)), received(n), FlushedCrc(fill(n)))
           /\ client' = drained(n)
  BY Zenon DEF Flush
<1>3. /\ rx.batch \in 0 .. Capacity /\ rx.received \in 0 .. Size
      /\ client.wire \in 0 .. Size /\ client.sent \in 0 .. Size
      /\ n \in 1 .. client.wire
      /\ rx.batch + client.wire <= client.sent
      /\ client.wire <= Size - rx.received - rx.batch
      /\ rx.path \in Transfers
  BY <1>1 DEF StreamInv, CardInv, CardTyped, DataInv, LinkTyped, Clients, BatchInv, Slices, Outstanding
<1>4. n \in 0 .. client.wire /\ rx.received + rx.batch + n <= Size
  BY <1>3, Sizes
<1>5. /\ received(n) \in 0 .. Size
      /\ Flushed(fill(n)) \in [Transfers -> Files]
      /\ FlushedCrc(fill(n)) \in Contents
      /\ Agrees(Flushed(fill(n))[rx.path], received(n), FlushedCrc(fill(n)))
      /\ ~Careless => Exact(received(n), FlushedCrc(fill(n)))
  BY <1>1, <1>4, BatchFits
<1>6. /\ drained(n) \in Clients /\ drained(n).wire = client.wire - n
      /\ drained(n).sent = client.sent /\ drained(n).replies = client.replies
  <2>1. client.wire - n \in 0 .. Size
    BY <1>3, Sizes
  <2>2. QED
    BY <2>1 DEF StreamInv, LinkTyped, Clients
<1>7. /\ NoneLater(client.replies) /\ ~OpensWithResume(client.replies)
      /\ client.replies \in Seq(Replies)
  BY <1>3 DEF StreamInv, LinkTyped, LinkInv, Clients
<1>8. ASSUME NEW r \in Replies, r.kind # "RESUME"
      PROVE  LET told == [drained(n) EXCEPT !.replies = Append(@, r)]
             IN  /\ told \in Clients /\ told.wire = client.wire - n /\ told.sent = client.sent
                 /\ NoneLater(told.replies) /\ ~OpensWithResume(told.replies)
  <2>1. /\ Append(client.replies, r) \in Seq(Replies) /\ NoneLater(Append(client.replies, r))
        /\ ~OpensWithResume(Append(client.replies, r))
    BY <1>7, <1>8, ReplyQueued DEF OpensWithResume
  <2>2. QED
    BY <1>6, <2>1 DEF Clients
<1>9. ok(n) \in Replies /\ ok(n).kind # "RESUME" /\ ack(n) \in Replies /\ ack(n).kind # "RESUME"
  BY <1>5 DEF Replies
<1>10. /\ client' \in Clients /\ client'.wire = client.wire - n /\ client'.sent = client.sent
       /\ NoneLater(client'.replies) /\ ~OpensWithResume(client'.replies)
  <2>1. \/ client' = drained(n)
        \/ client' = [drained(n) EXCEPT !.replies = Append(@, ok(n))]
        \/ client' = [drained(n) EXCEPT !.replies = Append(@, ack(n))]
    BY <1>2
  <2>2. QED
    BY <1>6, <1>7, <1>8, <1>9, <2>1
<1>11. client'.wire <= client'.sent
  BY <1>3, <1>10
<1>12. upsets' \in 0 .. MaxUpsets
  BY <1>1 DEF StreamInv, LinkTyped
<1> HIDE DEF fill, received, drained, ok, ack
<1>13. CASE Finish(rx.path, Flushed(fill(n)), received(n), FlushedCrc(fill(n))) /\ received(n) >= Size
  <2>1. CardInv' /\ BatchInv' /\ ExactInv' /\ rx'.phase = "REPLIED"
    BY <1>3, <1>5, <1>13, FinishKeeps
  <2>2. QED
    BY <1>1, <1>10, <1>11, <1>12, <2>1, LinkAfterReply DEF StreamInv
<1>14. CASE Suspend(rx.path, Flushed(fill(n)), received(n), FlushedCrc(fill(n)))
  <2>1. CardInv' /\ BatchInv' /\ ExactInv' /\ rx'.phase = "REPLIED"
    BY <1>3, <1>5, <1>14, SuspendKeeps DEF StreamInv, CardInv
  <2>2. QED
    BY <1>1, <1>10, <1>11, <1>12, <2>1, LinkAfterReply DEF StreamInv
<1>15. CASE /\ part' = Flushed(fill(n))
            /\ rx' = [rx EXCEPT !.received = received(n), !.crc = FlushedCrc(fill(n)),
                                !.batch = 0,
                                !.acked = IF AckDue(fill(n)) THEN received(n) ELSE @]
            /\ UNCHANGED <<resume, staged>>
  <2>1. /\ rx' \in [phase : Phases, path : Paths, received : 0 .. Size, crc : Contents,
                    batch : 0 .. Capacity, acked : 0 .. Size]
        /\ rx'.phase = "DATA" /\ rx'.path = rx.path /\ rx'.received = received(n)
        /\ rx'.crc = FlushedCrc(fill(n)) /\ rx'.batch = 0
    <3>1. PICK acked : rx' = [rx EXCEPT !.received = received(n), !.crc = FlushedCrc(fill(n)),
                                        !.batch = 0, !.acked = acked]
                       /\ acked \in {received(n), rx.acked}
      BY <1>15
    <3>2. rx \in [phase : Phases, path : Paths, received : 0 .. Size, crc : Contents,
                  batch : 0 .. Capacity, acked : 0 .. Size]
      BY DEF StreamInv, CardInv, CardTyped
    <3>3. 0 \in 0 .. Capacity /\ acked \in 0 .. Size
      BY <1>5, <3>1, <3>2, Sizes
    <3>4. QED
      BY <1>1, <1>5, <3>1, <3>2, <3>3
  <2>2. CardInv'
    <3>1. CardTyped'
      BY <1>5, <1>15, <2>1 DEF StreamInv, CardInv, CardTyped
    <3>2. resume = NoLedger /\ ~staged.success
      BY <1>1 DEF StreamInv, CardInv, DataInv
    <3>3. DataInv' /\ LedgerInv' /\ StagedInv'
      BY <1>3, <1>5, <1>15, <2>1, <3>2 DEF DataInv, LedgerInv, StagedInv, StagedMatchesCard
    <3>4. QED
      BY <3>1, <3>3 DEF CardInv
  <2>3. LinkTyped' /\ LinkInv'
    BY <1>1, <1>10, <1>11, <1>12, <2>1 DEF StreamInv, LinkTyped, LinkInv
  <2>4. BatchInv'
    BY <1>3, <1>5, <1>10, <1>11, <2>1, Sizes DEF BatchInv
  <2>5. ExactInv'
    <3>1. ASSUME ~Careless PROVE client.sent - client.wire - rx.batch = rx.received
      BY <1>1, <1>3, <3>1 DEF StreamInv, ExactInv, InStep
    <3>2. received(n) = rx.received + (rx.batch + n)
      BY DEF received, fill
    <3>3. ASSUME ~Careless PROVE InStep'
      BY <1>3, <1>10, <2>1, <3>1, <3>2, <3>3 DEF InStep
    <3>4. QED
      BY <1>5, <1>15, <2>1, <3>3 DEF StreamInv, ExactInv
  <2>6. QED
    BY <2>2, <2>3, <2>4, <2>5 DEF StreamInv
<1>16. QED
  BY <1>2, <1>13, <1>14, <1>15

\* An interruption flushes the batch and retains the prefix.
LEMMA InterruptedKeeps ==
  ASSUME StreamInv, Interrupted
  PROVE  StreamInv'
<1>1. /\ rx.phase = "DATA" /\ UNCHANGED <<client, pending, goal>> /\ (Upset \/ UNCHANGED upsets)
      /\ Suspend(rx.path, Flushed(rx.batch), rx.received + rx.batch, FlushedCrc(rx.batch))
  BY DEF Interrupted
<1>2. rx.batch \in Nat /\ rx.received \in Nat /\ client.wire \in Nat /\ rx.path \in Transfers
      /\ rx.received + rx.batch <= Size
  BY <1>1, Sizes DEF StreamInv, CardInv, CardTyped, DataInv, LinkTyped, Clients, BatchInv
<1>3. rx.batch + 0 = rx.batch /\ 0 \in 0 .. client.wire /\ rx.received + rx.batch + 0 <= Size
  BY <1>2, Sizes
<1>4. /\ rx.received + rx.batch \in 0 .. Size
      /\ Flushed(rx.batch) \in [Transfers -> Files]
      /\ FlushedCrc(rx.batch) \in Contents
      /\ Agrees(Flushed(rx.batch)[rx.path], rx.received + rx.batch, FlushedCrc(rx.batch))
      /\ ~Careless => Exact(rx.received + rx.batch, FlushedCrc(rx.batch))
  <2> HIDE DEF Flushed, FlushedCrc
  <2>1. QED
    BY <1>1, <1>3, BatchFits
<1>5. CardInv' /\ BatchInv' /\ ExactInv' /\ rx'.phase = "REPLIED"
  BY <1>1, <1>2, <1>4, SuspendKeeps DEF StreamInv, CardInv
<1>6. QED
  BY <1>1, <1>5, LinkLeft DEF StreamInv

\* An idle stream.
LEMMA QuietTyped ==
  ASSUME rx' = Quiet
  PROVE  /\ rx' \in [phase : Phases, path : Paths, received : 0 .. Size, crc : Contents,
                     batch : 0 .. Capacity, acked : 0 .. Size]
         /\ rx'.phase = "IDLE"
<1>1. rx' = [phase |-> "IDLE", path |-> NoTransfer, received |-> 0, crc |-> Blank, batch |-> 0, acked |-> 0]
  BY DEF Quiet
<1>2. NoTransfer \in Paths /\ "IDLE" \in Phases /\ 0 \in 0 .. Size /\ 0 \in 0 .. Capacity
  BY Sizes DEF Paths, Phases
<1>3. QED
  BY <1>1, <1>2, Contained, RxTyped

\* The ledgers outlive the connection.
LEMMA ResetKeeps ==
  ASSUME StreamInv, Reset
  PROVE  StreamInv'
<1>1. rx' = Quiet /\ client' = NoClient /\ UNCHANGED <<part, resume, staged, pending, goal>>
      /\ (Upset \/ UNCHANGED upsets)
  BY DEF Reset
<1>2. CardInv' /\ rx'.phase = "IDLE"
  BY <1>1, QuietTyped DEF StreamInv, CardInv, CardTyped, DataInv, LedgerInv, StagedInv, StagedMatchesCard
<1>3. upsets' \in 0 .. MaxUpsets
  BY <1>1, UpsetBounded DEF StreamInv
<1>4. LinkTyped' /\ LinkInv' /\ BatchInv' /\ ExactInv'
  BY <1>1, <1>2, <1>3, NoClientTyped DEF StreamInv, LinkTyped, LinkInv, BatchInv, ExactInv
<1>5. QED
  BY <1>2, <1>4 DEF StreamInv

\* Every slice of service() keeps what the stream promises.
LEMMA ServiceKeeps ==
  ASSUME StreamInv, Service
  PROVE  StreamInv'
<1>1. CASE Overflow
  BY <1>1, DataFails DEF Overflow
<1>2. CASE FlushFail
  BY <1>2, DataFails DEF FlushFail
<1>3. CASE InterruptedFail
  BY <1>3, DataFails DEF InterruptedFail
<1>4. QED
  BY <1>1, <1>2, <1>3, AcceptKeeps, RejectHeaderKeeps, BeginResumedKeeps, BeginFreshKeeps,
     BeginFailKeeps, FillKeeps, FlushKeeps, InterruptedKeeps, ResetKeeps DEF Service
-------------------------------------------------------------------------------
(* The companion and the network: the card side stays as it is, and the      *)
(* lemmas do without the ledgers, which a commit may be about to clear.      *)

LinkSide == LinkTyped /\ LinkInv /\ BatchInv /\ ExactInv

cardSide == <<part, rx, resume, staged>>

\* A connection comes into the backlog.
LEMMA ConnectKeeps ==
  ASSUME LinkSide, NEW t \in Paths, NEW resuming \in BOOLEAN, NEW flow \in BOOLEAN,
         Connect(t, resuming, flow)
  PROVE  LinkSide' /\ UNCHANGED <<cardSide, goal>>
<1>1. /\ UNCHANGED <<part, rx, resume, staged, client, goal>> /\ (Upset \/ UNCHANGED upsets)
      /\ pending' = [NoClient EXCEPT !.transfer = t, !.resume = resuming, !.flow = flow,
                                     !.alive = TRUE, !.credit = IF resuming THEN 0 ELSE Size]
  BY DEF Connect
<1>2. (IF resuming THEN 0 ELSE Size) \in 0 .. Size + Window
  BY Sizes
<1>3. /\ pending' \in Clients /\ pending'.sent = 0 /\ pending'.wire = 0 /\ pending'.replies = <<>>
      /\ pending'.resume = resuming /\ pending'.credit = IF resuming THEN 0 ELSE Size
  BY <1>1, <1>2, NoClientTyped DEF Clients
<1>4. upsets' \in 0 .. MaxUpsets
  BY <1>1, UpsetBounded DEF LinkSide
<1>5. LinkTyped' /\ LinkInv'
  BY <1>1, <1>3, <1>4 DEF LinkSide, LinkTyped, LinkInv
<1>6. BatchInv' /\ ExactInv'
  BY <1>1 DEF LinkSide, BatchInv, ExactInv, InStep
<1>7. QED
  BY <1>1, <1>5, <1>6 DEF LinkSide, cardSide

\* A byte is sent: RESUME, if it was asked for, has been read.
LEMMA SendKeeps ==
  ASSUME LinkSide, CardTyped, Send
  PROVE  LinkSide' /\ UNCHANGED <<cardSide, goal>>
<1>1. /\ UNCHANGED <<part, rx, resume, staged, pending, goal, upsets>>
      /\ client' = [client EXCEPT !.sent = @ + 1, !.wire = @ + 1, !.credit = @ - 1]
      /\ client.sent < Size /\ client.credit > 0
  BY DEF Send
<1>2. /\ client \in Clients /\ client.sent \in 0 .. Size /\ client.wire \in 0 .. Size
      /\ client.credit \in 0 .. Size + Window /\ client.wire <= client.sent
      /\ rx.batch \in Nat /\ rx.received \in Nat
  BY Sizes DEF LinkSide, LinkTyped, LinkInv, Clients, CardTyped
<1>3. /\ client.sent + 1 \in 0 .. Size /\ client.wire + 1 \in 0 .. Size
      /\ client.credit - 1 \in 0 .. Size + Window
  BY <1>1, <1>2, Sizes
<1>4. /\ client' \in Clients /\ client'.sent = client.sent + 1 /\ client'.wire = client.wire + 1
      /\ client'.replies = client.replies /\ client'.resume = client.resume
  BY <1>1, <1>2, <1>3 DEF Clients
<1>5. ~OpensWithResume(client.replies) /\ ~(client.credit = 0)
  BY <1>1, <1>2 DEF LinkSide, LinkInv
<1>6. LinkTyped' /\ LinkInv'
  BY <1>1, <1>2, <1>4, <1>5 DEF LinkSide, LinkTyped, LinkInv
<1>7. BatchInv'
  BY <1>1, <1>2, <1>4, <1>5 DEF LinkSide, BatchInv
<1>8. InStep => InStep'
  BY <1>1, <1>2, <1>4, <1>5 DEF InStep
<1>9. ExactInv'
  BY <1>1, <1>8 DEF LinkSide, ExactInv
<1>10. QED
  BY <1>1, <1>6, <1>7, <1>9 DEF LinkSide, cardSide

\* A reply is read.  After RESUME the companion continues where the batch does, or,
\* if it is careless, anywhere it may.
LEMMA ReceiveKeeps ==
  ASSUME LinkSide, CardTyped, Receive
  PROVE  /\ LinkSide' /\ UNCHANGED cardSide
         /\ \A t \in Transfers : goal'[t] = "done" => goal[t] = "done"
<1> DEFINE reply == Head(client.replies)
           rest  == Tail(client.replies)
           grant == IF client.flow THEN Window ELSE Size
<1>1. UNCHANGED <<part, rx, resume, staged, pending, upsets>> /\ client.replies # <<>>
  BY DEF Receive
<1>2. /\ client \in Clients /\ client.sent \in 0 .. Size /\ client.wire \in 0 .. Size
      /\ client.wire <= client.sent /\ client.replies \in Seq(Replies) /\ NoneLater(client.replies)
      /\ rx.batch \in Nat /\ rx.received \in Nat
  BY Sizes DEF LinkSide, LinkTyped, LinkInv, Clients, CardTyped
<1>3. reply \in Replies /\ rest \in Seq(Replies) /\ NoneLater(rest) /\ ~OpensWithResume(rest)
  BY <1>1, <1>2, ReplyRead
<1>4. grant \in 0 .. Size + Window /\ 0 \in 0 .. Size
  BY Sizes
<1>5. rx.phase # "HEADER"
  BY <1>1 DEF LinkSide, LinkInv
<1>6. \/ /\ reply.kind = "RESUME" /\ UNCHANGED goal
         /\ \E start \in {reply.offset} \cup (IF Careless THEN {0} ELSE {}) :
              client' = [[client EXCEPT !.replies = rest] EXCEPT !.sent = start, !.credit = grant]
      \/ /\ reply.kind = "ACK" /\ UNCHANGED goal
         /\ client' = [[client EXCEPT !.replies = rest] EXCEPT !.credit = grant]
      \/ /\ reply.kind = "OK"
         /\ client' = [client EXCEPT !.replies = rest]
         /\ goal' = [goal EXCEPT ![client.transfer] =
                       IF @ = "send" /\ reply.crc = Payload THEN "commit" ELSE @]
  BY Zenon DEF Receive
<1>7. /\ goal' \in [Transfers -> {"send", "commit", "done"}]
      /\ \A t \in Transfers : goal'[t] = "done" => goal[t] = "done"
  BY <1>6 DEF LinkSide, LinkTyped
<1> HIDE DEF rest, grant
<1>8. CASE reply.kind = "RESUME"
  <2>1. OpensWithResume(client.replies) /\ reply.offset \in 0 .. Size
    BY <1>1, <1>3, <1>8 DEF OpensWithResume, Replies
  <2>2. client.sent = 0 /\ client.wire = 0
    BY <2>1 DEF LinkSide, LinkInv
  <2>3. PICK start \in {reply.offset} \cup (IF Careless THEN {0} ELSE {}) :
          client' = [[client EXCEPT !.replies = rest] EXCEPT !.sent = start, !.credit = grant]
    BY <1>6, <1>8
  <2>4. start \in 0 .. Size /\ (~Careless => start = reply.offset)
    BY <1>4, <2>1, <2>3
  <2>5. client' \in Clients /\ client'.sent = start /\ client'.wire = 0 /\ client'.replies = rest
    BY <1>2, <1>3, <1>4, <2>2, <2>3, <2>4 DEF Clients
  <2>6. LinkTyped' /\ LinkInv'
    BY <1>1, <1>3, <1>5, <1>7, <2>4, <2>5 DEF LinkSide, LinkTyped, LinkInv
  <2>7. rx.phase = "DATA" => rx.batch = 0 /\ rx.received = reply.offset
    BY <2>1 DEF LinkSide, BatchInv
  <2>8. BatchInv'
    BY <1>1, <1>3, <2>4, <2>5, <2>7 DEF LinkSide, BatchInv
  <2>9. ASSUME ~Careless, rx.phase = "DATA" PROVE InStep'
    BY <1>1, <1>2, <2>4, <2>5, <2>7, <2>9 DEF InStep
  <2>10. ExactInv'
    BY <1>1, <2>9 DEF LinkSide, ExactInv
  <2>11. QED
    BY <1>1, <1>7, <2>6, <2>8, <2>10 DEF LinkSide, cardSide
<1>9. CASE reply.kind # "RESUME"
  <2>1. /\ client' \in Clients /\ client'.sent = client.sent /\ client'.wire = client.wire
        /\ client'.replies = rest
    BY <1>2, <1>3, <1>4, <1>6, <1>9 DEF Clients
  <2>2. ~OpensWithResume(client.replies)
    BY <1>9 DEF OpensWithResume
  <2>3. LinkTyped' /\ LinkInv'
    BY <1>1, <1>2, <1>3, <1>5, <1>7, <2>1 DEF LinkSide, LinkTyped, LinkInv
  <2>4. BatchInv'
    BY <1>1, <1>3, <2>1 DEF LinkSide, BatchInv
  <2>5. InStep => InStep' \/ ~client.alive
    BY <1>1, <2>1, <2>2 DEF InStep
  <2>6. client.alive
    BY DEF Receive
  <2>7. ExactInv'
    BY <1>1, <2>5, <2>6 DEF LinkSide, ExactInv
  <2>8. QED
    BY <1>1, <1>7, <2>3, <2>4, <2>7 DEF LinkSide, cardSide
<1>10. QED
  BY <1>8, <1>9

\* What is lost on a broken connection is the end of what was sent.
LEMMA DropKeeps ==
  ASSUME LinkSide, CardTyped, Drop
  PROVE  LinkSide' /\ UNCHANGED <<cardSide, goal>>
<1>1. UNCHANGED <<part, rx, resume, staged, goal>> /\ Upset
  BY DEF Drop
<1>2. upsets' \in 0 .. MaxUpsets
  BY <1>1, UpsetBounded DEF LinkSide
<1>3. /\ client \in Clients /\ client.sent \in 0 .. Size /\ client.wire \in 0 .. Size
      /\ client.wire <= client.sent /\ rx.batch \in Nat /\ rx.received \in Nat
  BY Sizes DEF LinkSide, LinkTyped, LinkInv, Clients, CardTyped
<1>4. CASE UNCHANGED client /\ pending' = [pending EXCEPT !.alive = FALSE]
  <2>1. /\ pending' \in Clients /\ pending'.sent = pending.sent /\ pending'.wire = pending.wire
        /\ pending'.replies = pending.replies /\ pending'.resume = pending.resume
        /\ pending'.credit = pending.credit
    BY <1>4 DEF LinkSide, LinkTyped, Clients
  <2>2. LinkTyped' /\ LinkInv'
    BY <1>1, <1>2, <1>4, <2>1 DEF LinkSide, LinkTyped, LinkInv
  <2>3. BatchInv' /\ ExactInv'
    BY <1>1, <1>4 DEF LinkSide, BatchInv, ExactInv, InStep
  <2>4. QED
    BY <1>1, <2>2, <2>3 DEF LinkSide, cardSide
<1>5. ASSUME NEW lost \in 0 .. client.wire, UNCHANGED pending,
             client' = [client EXCEPT !.alive = FALSE, !.replies = <<>>,
                                      !.wire = @ - lost, !.sent = @ - lost]
      PROVE  LinkSide'
  <2>1. client.wire - lost \in 0 .. Size /\ client.sent - lost \in 0 .. Size /\ lost \in Nat
    BY <1>3, Sizes
  <2>2. <<>> \in Seq(Replies) /\ NoneLater(<<>>) /\ ~OpensWithResume(<<>>)
    BY NoClientTyped
  <2>3. /\ client' \in Clients /\ client'.wire = client.wire - lost /\ client'.sent = client.sent - lost
        /\ client'.replies = <<>> /\ client'.resume = client.resume /\ client'.credit = client.credit
        /\ client'.alive = FALSE
    BY <1>3, <1>5, <2>1, <2>2 DEF Clients
  <2>4. LinkTyped' /\ LinkInv'
    BY <1>1, <1>2, <1>3, <1>5, <2>1, <2>2, <2>3 DEF LinkSide, LinkTyped, LinkInv
  <2>5. BatchInv'
    BY <1>1, <1>3, <2>1, <2>2, <2>3 DEF LinkSide, BatchInv
  <2>6. InStep => InStep'
    BY <1>1, <1>3, <2>1, <2>3 DEF InStep
  <2>7. ExactInv'
    BY <1>1, <2>6 DEF LinkSide, ExactInv
  <2>8. QED
    BY <2>4, <2>5, <2>7 DEF LinkSide
<1>6. QED
  BY <1>1, <1>4, <1>5 DEF Drop, cardSide

LEMMA CompanionKeeps ==
  ASSUME LinkSide, CardTyped, Companion
  PROVE  /\ LinkSide' /\ UNCHANGED cardSide
         /\ \A t \in Transfers : goal'[t] = "done" => goal[t] = "done"
  BY ConnectKeeps, SendKeeps, ReceiveKeeps, DropKeeps DEF Companion

-------------------------------------------------------------------------------
(* Control requests and the end of a session.                                *)

\* The feedback is replaced, nothing else.
LEMMA PrepareFeedbackKeeps ==
  ASSUME StreamInv, NEW t \in Transfers, PrepareFeedback(t)
  PROVE  StreamInv' /\ UNCHANGED goal
<1>1. /\ Upset /\ staged' = [staged EXCEPT !.file = t, !.success = FALSE]
      /\ UNCHANGED <<part, rx, resume, client, pending, goal>>
  BY DEF PrepareFeedback
<1>2. upsets' \in 0 .. MaxUpsets
  BY <1>1, UpsetBounded DEF StreamInv
<1>3. staged' \in [file : Paths, crc : Contents, success : BOOLEAN] /\ ~staged'.success
  BY <1>1 DEF StreamInv, CardInv, CardTyped, Paths
<1>4. CardInv'
  BY <1>1, <1>3 DEF StreamInv, CardInv, CardTyped, DataInv, LedgerInv, StagedInv, StagedMatchesCard
<1>5. LinkTyped' /\ LinkInv' /\ BatchInv' /\ ExactInv'
  BY <1>1, <1>2 DEF StreamInv, LinkTyped, LinkInv, BatchInv, ExactInv, InStep
<1>6. QED
  BY <1>1, <1>4, <1>5 DEF StreamInv

\* A staging file goes together with what the ledgers say of it.
LEMMA DiscardStagingKeeps ==
  ASSUME StreamInv, NEW t \in Transfers, DiscardStaging(t)
  PROVE  StreamInv' /\ \A q \in Transfers : goal'[q] = "done" => goal[q] = "done"
<1>1. /\ ~receiving /\ Upset /\ UNCHANGED pending
      /\ \/ rx' = Quiet /\ client' = NoClient
         \/ UNCHANGED <<rx, client>>
      /\ \/ /\ part' = [part EXCEPT ![t] = Absent]
            /\ resume' = IF resume.path = t THEN NoLedger ELSE resume
            /\ staged' = IF staged.file = t THEN [staged EXCEPT !.success = FALSE] ELSE staged
         \/ UNCHANGED <<part, resume, staged>>
      /\ goal' = [goal EXCEPT ![t] = IF @ = "commit" THEN "send" ELSE @]
  BY DEF DiscardStaging
<1>2. upsets' \in 0 .. MaxUpsets
  BY <1>1, UpsetBounded DEF StreamInv
<1>3. /\ goal' \in [Transfers -> {"send", "commit", "done"}]
      /\ \A q \in Transfers : goal'[q] = "done" => goal[q] = "done"
  BY <1>1 DEF StreamInv, LinkTyped
<1>4. /\ rx' \in [phase : Phases, path : Paths, received : 0 .. Size, crc : Contents,
                  batch : 0 .. Capacity, acked : 0 .. Size]
      /\ rx'.phase \notin {"HEADER", "DATA"}
  BY <1>1, QuietTyped DEF receiving, StreamInv, CardInv, CardTyped
<1>5. /\ part' \in [Transfers -> Files]
      /\ \A q \in Transfers : q # t => part'[q] = part[q]
  BY <1>1, Contained DEF StreamInv, CardInv, CardTyped
<1>6. resume' = NoLedger \/ (resume' = resume /\ (resume.path = t => UNCHANGED part))
  BY <1>1
<1>7. resume' \in [path : Paths, received : 0 .. Size, crc : Contents]
  <2>1. 0 \in 0 .. Size /\ NoTransfer \in Paths
    BY Sizes DEF Paths
  <2>2. QED
    BY <1>6, <2>1, Contained DEF NoLedger, StreamInv, CardInv, CardTyped
<1>8. /\ staged' \in [file : Paths, crc : Contents, success : BOOLEAN]
      /\ staged'.success => staged' = staged /\ (staged.file = t => UNCHANGED part)
  BY <1>1 DEF StreamInv, CardInv, CardTyped
<1>9. LedgerInv' /\ StagedInv'
  <2>1. LedgerInv'
    BY <1>5, <1>6 DEF LedgerInv, StreamInv, CardInv
  <2>2. StagedInv'
    BY <1>5, <1>8 DEF StagedInv, StagedMatchesCard, StreamInv, CardInv
  <2>3. QED
    BY <2>1, <2>2
<1>10. CardInv'
  BY <1>4, <1>5, <1>7, <1>8, <1>9 DEF CardInv, CardTyped, DataInv
<1>11. LinkTyped' /\ LinkInv'
  BY <1>1, <1>2, <1>3, <1>4, NoClientTyped DEF StreamInv, LinkTyped, LinkInv
<1>12. BatchInv' /\ ExactInv'
  BY <1>4, <1>6 DEF BatchInv, ExactInv, StreamInv, NoLedger, Exact
<1>13. QED
  BY <1>3, <1>10, <1>11, <1>12 DEF StreamInv

\* A restart of the reader: the RAM is new, and the card keeps at most what it held.
\* It may come while a commit has not cleared the ledger.
LEMMA RebootKeeps ==
  ASSUME CardTyped, LinkTyped, part' \in [Transfers -> Files], Reboot, UNCHANGED goal, Upset
  PROVE  StreamInv'
<1>1. /\ rx' = Quiet /\ resume' = NoLedger /\ staged' = Unstaged /\ client' = NoClient
      /\ pending' = NoClient
  BY DEF Reboot
<1>2. upsets' \in 0 .. MaxUpsets
  BY UpsetBounded
<1>3. 0 \in 0 .. Size /\ NoTransfer \in Paths
  BY Sizes DEF Paths
<1>4. /\ resume' \in [path : Paths, received : 0 .. Size, crc : Contents]
      /\ staged' \in [file : Paths, crc : Contents, success : BOOLEAN] /\ ~staged'.success
  BY <1>1, <1>3, Contained DEF NoLedger, Unstaged
<1>5. CardInv'
  BY <1>1, <1>4, QuietTyped DEF CardInv, CardTyped, DataInv, LedgerInv, StagedInv, StagedMatchesCard
<1>6. LinkTyped' /\ LinkInv'
  BY <1>1, <1>2, QuietTyped, NoClientTyped DEF LinkTyped, LinkInv
<1>7. BatchInv' /\ ExactInv'
  BY <1>1, QuietTyped DEF BatchInv, ExactInv, NoLedger, Exact
<1>8. QED
  BY <1>5, <1>6, <1>7 DEF StreamInv

LEMMA CrashKeeps ==
  ASSUME CardTyped, LinkTyped, Crash
  PROVE  StreamInv'
<1>1. UNCHANGED <<part, goal>> /\ Reboot /\ Upset
  BY DEF Crash
<1>2. part' \in [Transfers -> Files]
  BY <1>1 DEF CardTyped
<1>3. QED
  BY <1>1, <1>2, RebootKeeps

LEMMA StopKeeps ==
  ASSUME CardTyped, LinkTyped, Stop
  PROVE  StreamInv'
<1>1. UNCHANGED goal /\ Reboot /\ Upset
      /\ part' = [t \in Transfers |-> IF t \in {rx.path, resume.path} THEN Absent ELSE part[t]]
  BY DEF Stop
<1>2. part' \in [Transfers -> Files]
  BY <1>1, Contained DEF CardTyped
<1>3. QED
  BY <1>1, <1>2, RebootKeeps

LEMMA StreamStarts == StreamInit => StreamInv
<1> SUFFICES ASSUME StreamInit PROVE StreamInv
  OBVIOUS
<1>1. /\ rx = Quiet /\ resume = NoLedger /\ staged = Unstaged /\ client = NoClient /\ pending = NoClient
      /\ part = [t \in Transfers |-> Absent] /\ goal = [t \in Transfers |-> "send"] /\ upsets = 0
  BY DEF StreamInit
<1>2. 0 \in 0 .. Size /\ NoTransfer \in Paths /\ 0 \in 0 .. Capacity /\ 0 \in 0 .. MaxUpsets
      /\ "IDLE" \in Phases
  BY Sizes DEF Paths, Phases
<1>3. CardInv
  <2>1. rx \in [phase : Phases, path : Paths, received : 0 .. Size, crc : Contents,
                batch : 0 .. Capacity, acked : 0 .. Size]
    BY <1>1, <1>2, Contained DEF Quiet
  <2>2. /\ resume \in [path : Paths, received : 0 .. Size, crc : Contents]
        /\ staged \in [file : Paths, crc : Contents, success : BOOLEAN] /\ ~staged.success
    BY <1>1, <1>2, Contained DEF NoLedger, Unstaged
  <2>3. part \in [Transfers -> Files] /\ rx.phase = "IDLE"
    BY <1>1, Contained DEF Quiet
  <2>4. QED
    BY <1>1, <2>1, <2>2, <2>3
       DEF CardInv, CardTyped, DataInv, LedgerInv, StagedInv, StagedMatchesCard
<1>4. LinkTyped /\ LinkInv
  BY <1>1, <1>2, NoClientTyped DEF LinkTyped, LinkInv, Quiet
<1>5. BatchInv /\ ExactInv
  BY <1>1 DEF BatchInv, ExactInv, NoLedger, Exact, Quiet
<1>6. QED
  BY <1>3, <1>4, <1>5 DEF StreamInv
===============================================================================
