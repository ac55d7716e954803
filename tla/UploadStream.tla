----------------------------- MODULE UploadStream -----------------------------
(***************************************************************************)
(* The port-82 upload stream (web/UploadStreamServer.cpp): one connection   *)
(* at a time writes one hidden staging file, in batches; a transport        *)
(* failure keeps the flushed prefix in a RAM ledger so that a reconnecting  *)
(* companion sends only the remainder.                                      *)
(*                                                                          *)
(* A payload is the bytes 1 .. Size, each named by its position, so a file  *)
(* that skips, repeats or misplaces a byte differs from Payload.  A CRC-32  *)
(* is the prefix it was computed over (collisions are abstracted).          *)
(***************************************************************************)
EXTENDS Integers, Sequences

CONSTANTS
  Transfers,     \* transfers of the companion, named by their staging files
  NoTransfer,    \* no staging path
  Size,          \* bytes of a payload
  Capacity,      \* batch bytes: 4096, or 768 without the borrowed buffer
  Window,        \* FLOW_WINDOW_BYTES
  Careless,      \* may a client ignore the offset RESUME grants?
  MaxUpsets      \* bound: faults, lost connections, restarts, discards

ASSUME NoTransferAssumption == NoTransfer \notin Transfers
ASSUME SizesAssumption ==
  /\ Size \in Nat \ {0} /\ Capacity \in Nat \ {0} /\ Window \in Nat \ {0}
  /\ Careless \in BOOLEAN /\ MaxUpsets \in Nat

VARIABLES
  part,      \* the hidden staging files of the destination directory
  rx,        \* the transfer in progress (RAM)
  resume,    \* the resume ledger (RAM)
  staged,    \* the verified-staging ledger commit checks (RAM)
  client,    \* the accepted connection, both ends
  pending,   \* the connection in the accept backlog
  goal,      \* what the companion does next for each transfer
  upsets     \* disturbances so far

streamVars == <<part, rx, resume, staged, client, pending, goal, upsets>>

Contents == [1 .. Size -> 0 .. Size]      \* 0: a byte never written
Blank    == [i \in 1 .. Size |-> 0]
Payload  == [i \in 1 .. Size |-> i]

\* A staging file; preallocation may give it its final length from the start.
Absent == [len |-> -1, data |-> Blank]
Files  == [len : -1 .. Size, data : Contents]

Phases == {"IDLE", "HEADER", "DATA", "REPLIED"}
Quiet  == [phase |-> "IDLE", path |-> NoTransfer, received |-> 0, crc |-> Blank,
           batch |-> 0, acked |-> 0]

NoLedger == [path |-> NoTransfer, received |-> 0, crc |-> Blank]
Unstaged == [file |-> NoTransfer, crc |-> Blank, success |-> FALSE]

\* sent: the last payload byte put on the wire; wire: how many of them the reader
\* has not read; credit: how many more may follow before the next grant.
NoClient == [transfer |-> NoTransfer, resume |-> FALSE, flow |-> FALSE, alive |-> FALSE,
             sent |-> 0, wire |-> 0, credit |-> 0, replies |-> <<>>]

Paths   == Transfers \cup {NoTransfer}
Replies == [kind : {"RESUME", "ACK"}, offset : 0 .. Size]
             \cup [kind : {"OK"}, crc : Contents]
Clients == [transfer : Paths, resume : BOOLEAN, flow : BOOLEAN, alive : BOOLEAN,
            sent : 0 .. Size, wire : 0 .. Size, credit : 0 .. Size + Window,
            replies : Seq(Replies)]

StreamTypeOK ==
  /\ part \in [Transfers -> Files]
  /\ rx \in [phase : Phases, path : Paths, received : 0 .. Size, crc : Contents,
             batch : 0 .. Capacity, acked : 0 .. Size]
  /\ resume \in [path : Paths, received : 0 .. Size, crc : Contents]
  /\ staged \in [file : Paths, crc : Contents, success : BOOLEAN]
  /\ client \in Clients
  /\ pending \in Clients
  /\ goal \in [Transfers -> {"send", "commit", "done"}]
  /\ upsets \in 0 .. MaxUpsets

StreamInit ==
  /\ part = [t \in Transfers |-> Absent]
  /\ rx = Quiet
  /\ resume = NoLedger
  /\ staged = Unstaged
  /\ client = NoClient
  /\ pending = NoClient
  /\ goal = [t \in Transfers |-> "send"]
  /\ upsets = 0

Upset == upsets < MaxUpsets /\ upsets' = upsets + 1

receiving == rx.phase \in {"HEADER", "DATA"}

-------------------------------------------------------------------------------
(* The companion, and the network between *)

\* External: a connection for a transfer still to be sent.  One without a
\* transfer is some other client that never completes a valid header.
Connect(t, resuming, flow) ==
  /\ pending = NoClient
  /\ ~client.alive
  /\ IF t = NoTransfer THEN Upset
                       ELSE goal[t] = "send" /\ UNCHANGED upsets
  /\ flow => resuming
  /\ pending' = [NoClient EXCEPT !.transfer = t, !.resume = resuming, !.flow = flow,
                                 !.alive = TRUE, !.credit = IF resuming THEN 0 ELSE Size]
  /\ UNCHANGED <<part, rx, resume, staged, client, goal>>

\* External: one more payload byte on the wire.
Send ==
  /\ client.alive
  /\ client.transfer # NoTransfer
  /\ client.sent < Size
  /\ client.credit > 0
  /\ client' = [client EXCEPT !.sent = @ + 1, !.wire = @ + 1, !.credit = @ - 1]
  /\ UNCHANGED <<part, rx, resume, staged, pending, goal, upsets>>

\* External: the companion acts on a reply.  RESUME tells it where to start, ACK
\* grants the next window, and OK is compared with its own size and CRC.
Receive ==
  /\ client.alive
  /\ client.replies # <<>>
  /\ LET reply  == Head(client.replies)
         credit == IF client.flow THEN Window ELSE Size
         read   == [client EXCEPT !.replies = Tail(@)]
     IN \/ /\ reply.kind = "RESUME"
           /\ \E start \in {reply.offset} \cup (IF Careless THEN {0} ELSE {}) :
                client' = [read EXCEPT !.sent = start, !.credit = credit]
           /\ UNCHANGED goal
        \/ /\ reply.kind = "ACK"
           /\ client' = [read EXCEPT !.credit = credit]
           /\ UNCHANGED goal
        \/ /\ reply.kind = "OK"
           /\ client' = read
           /\ goal' = [goal EXCEPT ![client.transfer] =
                         IF @ = "send" /\ reply.crc = Payload THEN "commit" ELSE @]
  /\ UNCHANGED <<part, rx, resume, staged, pending, upsets>>

\* The connection breaks: the replies and a tail of the payload in flight are lost.
Drop ==
  /\ Upset
  /\ \/ /\ client.alive
        /\ \E lost \in 0 .. client.wire :
             client' = [client EXCEPT !.alive = FALSE, !.replies = <<>>,
                                      !.wire = @ - lost, !.sent = @ - lost]
        /\ UNCHANGED pending
     \/ /\ pending.alive
        /\ pending' = [pending EXCEPT !.alive = FALSE]
        /\ UNCHANGED client
  /\ UNCHANGED <<part, rx, resume, staged, goal>>

-------------------------------------------------------------------------------
(* Helpers of the server *)

\* count bytes that follow byte `before' of the payload, stored after position `at'.
Stored(data, at, before, count) ==
  [i \in 1 .. Size |-> IF at < i /\ i <= at + count THEN before + i - at ELSE data[i]]

\* The payload byte that precedes the first byte of the batch.
BatchBefore == client.sent - client.wire - rx.batch

Written(file, at, before, count) ==
  [len  |-> IF file.len < at + count THEN at + count ELSE file.len,
   data |-> Stored(file.data, at, before, count)]

Answer(reply) ==
  client' = IF client.alive THEN [client EXCEPT !.replies = Append(@, reply)] ELSE client

Replied(t) == rx' = [Quiet EXCEPT !.phase = "REPLIED", !.path = t]

\* fail(): the staging file goes, and its ledger entry with it.
Fail(t) ==
  /\ part' = IF t = NoTransfer THEN part ELSE [part EXCEPT ![t] = Absent]
  /\ resume' = IF t # NoTransfer /\ resume.path = t THEN NoLedger ELSE resume
  /\ staged' = [staged EXCEPT !.success = FALSE]
  /\ Replied(t)

Retains(received) == 0 < received /\ received < Size

\* suspend(): a proper flushed prefix is retained with its CRC, anything else
\* is discarded.  `files' holds what the final flush wrote.
Suspend(t, files, received, crc) ==
  /\ IF Retains(received)
     THEN /\ part' = files
          /\ resume' = [path |-> t, received |-> received, crc |-> crc]
     ELSE /\ part' = [files EXCEPT ![t] = Absent]
          /\ resume' = NoLedger
  /\ staged' = [staged EXCEPT !.success = FALSE]
  /\ Replied(t)

\* finish(): the completed prefix is retained too, for the OK may be lost.
Finish(t, files, received, crc) ==
  /\ part' = files
  /\ resume' = [path |-> t, received |-> received, crc |-> crc]
  /\ staged' = [file |-> t, crc |-> crc, success |-> TRUE]
  /\ Replied(t)

-------------------------------------------------------------------------------
(* service(), one slice per pass of the activity loop *)

Accept ==
  /\ rx.phase = "IDLE"
  /\ pending # NoClient
  /\ client' = pending
  /\ pending' = NoClient
  /\ rx' = [Quiet EXCEPT !.phase = "HEADER"]
  /\ UNCHANGED <<part, resume, staged, goal, upsets>>

\* The header never completes, or is not a valid one: no path is known yet, so
\* the ledger and its file survive.
RejectHeader ==
  /\ rx.phase = "HEADER"
  /\ ~client.alive \/ client.transfer = NoTransfer
  /\ Fail(NoTransfer)
  /\ UNCHANGED <<client, pending, goal, upsets>>

\* The retained prefix is this transfer's, and its file still covers it.
Resumable(t) ==
  /\ client.resume
  /\ resume.path = t /\ resume.received > 0
  /\ part[t] # Absent /\ part[t].len >= resume.received

\* The end of beginFromHeader(): the RESUME line, then payload, or the end of a
\* transfer that was already complete.
Open(t, files, received, crc) ==
  \/ /\ client.resume /\ ~client.alive               \* the RESUME line fails
     /\ Suspend(t, files, received, crc)
     /\ UNCHANGED client
  \/ /\ received < Size
     /\ part' = files
     /\ resume' = NoLedger
     /\ staged' = [Unstaged EXCEPT !.file = t]
     /\ rx' = [phase |-> "DATA", path |-> t, received |-> received, crc |-> crc,
               batch |-> 0, acked |-> received]
     /\ IF client.resume THEN Answer([kind |-> "RESUME", offset |-> received])
                         ELSE UNCHANGED client
  \/ /\ received >= Size
     /\ Finish(t, files, received, crc)
     /\ client' = IF client.alive
                  THEN [client EXCEPT !.replies = <<[kind |-> "RESUME", offset |-> received],
                                                    [kind |-> "OK", crc |-> crc]>>]
                  ELSE client

BeginResumed ==
  LET t == client.transfer IN
  /\ rx.phase = "HEADER"
  /\ t # NoTransfer
  /\ Resumable(t)
  /\ Open(t, part, resume.received, resume.crc)
  /\ UNCHANGED <<pending, goal, upsets>>

\* A fresh start: the ledger's file is discarded, other staging files in the
\* directory are swept (a sweep is bounded and may miss some) and the file is
\* created anew, preallocated when a contiguous span is found.
BeginFresh ==
  LET t == client.transfer IN
  /\ rx.phase = "HEADER"
  /\ t # NoTransfer
  /\ \/ ~Resumable(t) /\ UNCHANGED upsets
     \/ Resumable(t) /\ Upset                           \* it cannot be reopened
  /\ \E missed \in SUBSET (Transfers \ {t, resume.path}), len \in {0, Size} :
       LET files == [q \in Transfers |->
                       IF q = t THEN [len |-> len, data |-> Blank]
                       ELSE IF q \in missed THEN part[q] ELSE Absent]
       IN Open(t, files, 0, Blank)
  /\ UNCHANGED <<pending, goal>>

\* The directory or the file cannot be created.
BeginFail ==
  LET t == client.transfer IN
  /\ rx.phase = "HEADER"
  /\ t # NoTransfer
  /\ ~Resumable(t)
  /\ Upset
  /\ part' = [q \in Transfers |-> IF q \in {t, resume.path} THEN Absent ELSE part[q]]
  /\ resume' = NoLedger
  /\ staged' = [Unstaged EXCEPT !.file = t]
  /\ Replied(t)
  /\ UNCHANGED <<client, pending, goal>>

\* Mutant: the bytes waiting in the batch are forgotten.
OutstandingOnCard == Size - rx.received
\* The bytes the request announced and the server has not taken.
Outstanding == Size - rx.received - rx.batch

\* More bytes than the request announced.
Overflow ==
  /\ rx.phase = "DATA"
  /\ client.wire > Outstanding
  /\ Fail(rx.path)
  /\ UNCHANGED <<client, pending, goal, upsets>>

\* Mutant: the window must be exceeded.
AckLate(fill)  == client.flow /\ rx.received + fill - rx.acked > Window
AckDue(fill)   == client.flow /\ rx.received + fill - rx.acked >= Window
FlushDue(fill) == fill = Capacity \/ rx.received + fill >= Size \/ AckDue(fill)

\* What a slice may take off the socket: at most what the batch can hold.
Slices == {n \in 1 .. client.wire : rx.batch + n <= Capacity}

\* Bytes collect in the batch.
Fill ==
  /\ rx.phase = "DATA"
  /\ client.wire <= Outstanding
  /\ \E n \in Slices :
       /\ ~FlushDue(rx.batch + n)
       /\ rx' = [rx EXCEPT !.batch = @ + n]
       /\ client' = [client EXCEPT !.wire = @ - n]
  /\ UNCHANGED <<part, resume, staged, pending, goal, upsets>>

\* Mutant: the batch is written over the start of the prefix after a resume.
FlushedAtAck(count) ==
  [part EXCEPT ![rx.path] = Written(@, rx.acked, BatchBefore, count)]
\* flushBatch(): the batch is appended to the file and to the running CRC.
Flushed(count) ==
  [part EXCEPT ![rx.path] = Written(@, rx.received, BatchBefore, count)]
FlushedCrc(count) == Stored(rx.crc, rx.received, BatchBefore, count)

\* The batch is flushed: on to the next, an ACK, or the end of the transfer.
Flush ==
  /\ rx.phase = "DATA"
  /\ client.wire <= Outstanding
  /\ \E n \in Slices :
       LET fill     == rx.batch + n
           received == rx.received + fill
           drained  == [client EXCEPT !.wire = @ - n]
       IN /\ FlushDue(fill)
          /\ \/ /\ received >= Size
                /\ Finish(rx.path, Flushed(fill), received, FlushedCrc(fill))
                /\ client' = IF client.alive
                             THEN [drained EXCEPT !.replies =
                                     Append(@, [kind |-> "OK", crc |-> FlushedCrc(fill)])]
                             ELSE drained
             \/ /\ received < Size
                /\ ~AckDue(fill) \/ client.alive
                /\ part' = Flushed(fill)
                /\ rx' = [rx EXCEPT !.received = received, !.crc = FlushedCrc(fill),
                                    !.batch = 0,
                                    !.acked = IF AckDue(fill) THEN received ELSE @]
                /\ client' = IF AckDue(fill)
                             THEN [drained EXCEPT !.replies =
                                     Append(@, [kind |-> "ACK", offset |-> received])]
                             ELSE drained
                /\ UNCHANGED <<resume, staged>>
             \/ /\ received < Size
                /\ AckDue(fill) /\ ~client.alive         \* the ACK line fails
                /\ Suspend(rx.path, Flushed(fill), received, FlushedCrc(fill))
                /\ client' = drained
  /\ UNCHANGED <<pending, goal, upsets>>

\* The SD write fails.
FlushFail ==
  /\ rx.phase = "DATA"
  /\ client.wire <= Outstanding
  /\ \E n \in Slices : FlushDue(rx.batch + n)
  /\ Upset
  /\ Fail(rx.path)
  /\ UNCHANGED <<client, pending, goal>>

\* Nothing left to read, and the socket reports its end.
LinkLost == ~client.alive /\ client.wire = 0

\* The connection ended, or nothing arrived for 30 s: what the batch holds is
\* flushed and the prefix retained.
Interrupted ==
  /\ rx.phase = "DATA"
  /\ \/ LinkLost /\ UNCHANGED upsets
     \/ client.alive /\ Upset
  /\ Suspend(rx.path, Flushed(rx.batch), rx.received + rx.batch, FlushedCrc(rx.batch))
  /\ UNCHANGED <<client, pending, goal>>

\* suspend() whose last flush fails discards file and ledger.
InterruptedFail ==
  /\ rx.phase = "DATA"
  /\ LinkLost
  /\ rx.batch > 0
  /\ Upset
  /\ Fail(rx.path)
  /\ UNCHANGED <<client, pending, goal>>

\* After the last reply: the peer closed, or the grace second is over.
Reset ==
  /\ rx.phase = "REPLIED"
  /\ \/ (~client.alive \/ client.replies = <<>>) /\ UNCHANGED upsets
     \/ client.alive /\ client.replies # <<>> /\ Upset       \* it was not heard
  /\ rx' = Quiet
  /\ client' = NoClient
  /\ UNCHANGED <<part, resume, staged, pending, goal>>

Service ==
  \/ Accept \/ RejectHeader \/ BeginResumed \/ BeginFresh \/ BeginFail
  \/ Overflow \/ Fill \/ Flush \/ FlushFail
  \/ Interrupted \/ InterruptedFail \/ Reset

-------------------------------------------------------------------------------
(* handleTransferControl, and the end of a session *)

\* The end of the reader's RAM; a connection in the backlog dies with it.
Reboot ==
  /\ rx' = Quiet
  /\ resume' = NoLedger
  /\ staged' = Unstaged
  /\ client' = NoClient
  /\ pending' = NoClient

\* action "prepare": the feedback of the coming transfer replaces the last one.
PrepareFeedback(t) ==
  /\ ~receiving
  /\ Upset
  /\ staged' = [staged EXCEPT !.file = t, !.success = FALSE]
  /\ UNCHANGED <<part, rx, resume, client, pending, goal>>

\* action "discard": the companion gives up a staging file.
DiscardStaging(t) ==
  /\ ~receiving
  /\ Upset
  /\ IF rx.path = t THEN rx' = Quiet /\ client' = NoClient ELSE UNCHANGED <<rx, client>>
  /\ \/ /\ part' = [part EXCEPT ![t] = Absent]
        /\ resume' = IF resume.path = t THEN NoLedger ELSE resume
        /\ staged' = IF staged.file = t THEN [staged EXCEPT !.success = FALSE] ELSE staged
     \/ /\ part[t] # Absent                               \* it cannot be removed
        /\ UNCHANGED <<part, resume, staged>>
  /\ goal' = [goal EXCEPT ![t] = IF @ = "commit" THEN "send" ELSE @]
  /\ UNCHANGED pending

\* stop() and the restart that ends every session: partial and retained files go.
Stop ==
  /\ Upset
  /\ part' = [t \in Transfers |-> IF t \in {rx.path, resume.path} THEN Absent ELSE part[t]]
  /\ Reboot
  /\ UNCHANGED goal

\* Power is lost: the card keeps what it holds.
Crash ==
  /\ Upset
  /\ Reboot
  /\ UNCHANGED <<part, goal>>

Companion ==
  \/ \E t \in Paths, resuming, flow \in BOOLEAN : Connect(t, resuming, flow)
  \/ Send \/ Receive \/ Drop

TransferControl == \E t \in Transfers : PrepareFeedback(t) \/ DiscardStaging(t)

-------------------------------------------------------------------------------
(* What the ledgers promise about the card *)

\* The resume ledger describes the card: its file exists, and the prefix it
\* counts is the one the file holds and the CRC was computed over
\* (UploadStreamServer.h, ResumeState).
LedgerMatchesCard ==
  resume # NoLedger =>
    /\ part[resume.path] # Absent
    /\ part[resume.path].len >= resume.received
    /\ \A i \in 1 .. Size :
         resume.crc[i] = IF i <= resume.received THEN part[resume.path].data[i] ELSE 0

\* A verified staging file, while it exists, holds exactly the bytes the CRC the
\* commit will compare was computed over.
StagedMatchesCard ==
  staged.success /\ part[staged.file] # Absent =>
    part[staged.file] = [len |-> Size, data |-> staged.crc]

\* While a companion that respects RESUME is sending, what reached the card is an
\* exact prefix of its payload, through any number of interruptions.
PrefixExact ==
  ~Careless /\ rx.phase = "DATA" =>
    \A i \in 1 .. rx.received : part[rx.path].data[i] = i /\ rx.crc[i] = i
===============================================================================
