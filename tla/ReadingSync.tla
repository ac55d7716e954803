----------------------------- MODULE ReadingSync -----------------------------
(***************************************************************************)
(* The exchange session a companion has over BLE: the host task copies its *)
(* records into a bounded queue, the main loop takes them one by one,      *)
(* streams the reading list, assembles offers, and sends at most one       *)
(* record a pass.  Connects and disconnects happen at any moment of it.    *)
(*                                                                         *)
(* A request id is the number of the exchange the companion starts; a      *)
(* link is the connection generation, odd while a companion is connected.  *)
(* An offer is Chunks W records, a list Pieces D records.  How the offer   *)
(* is judged and kept on the card is ReadingProgress; here only the        *)
(* outcome counts.                                                         *)
(***************************************************************************)
EXTENDS Naturals, Sequences, SequencesExt

CONSTANTS None,           \* no command, list, offer or record
          Depth,          \* records the callback queue holds
          Slots,          \* replies that can wait
          MaxRetries,     \* refused notifications before the exchange is given up
          Chunks, Pieces, \* W records of an offer, D records of the list
          MaxLinks,       \* bound: connections
          MaxExchanges    \* bound: exchanges the companions start

ASSUME SizesAssumption ==
  /\ {Depth, Slots, Chunks, Pieces, MaxLinks, MaxExchanges} \subseteq Nat \ {0}
  /\ MaxRetries \in Nat
ASSUME NoneAssumption == None \notin {"D", "END"}

VARIABLES generation,                          \* Service: connects and disconnects so far
          queue, overflow,                     \* RecordQueue
          session,                             \* ReadingSyncSession
          step, command,                       \* where the main loop is, the record in hand
          asked, sent, heard,                  \* the companion
          stored, lost                         \* offers on the card; history

link == <<generation, queue, overflow>>
loop == <<session, step, command>>
companion == <<asked, sent, heard>>
history == <<stored, lost>>
vars == <<link, loop, companion, history>>

Ids == 1 .. MaxExchanges
Answers == {"D", "END", "OK", "ERR"}
Final == {"END", "OK", "ERR"}
Connected == generation % 2 = 1

Commands == [verb : {"READ_LIST", "OFFER"}, id : Ids, gen : Nat]
              \union [verb : {"W"}, id : Ids, seq : 0 .. Chunks - 1, gen : Nat]
Records == [id : Ids, answer : Answers]

\* No queue, slot or counter exceeds its size.
TypeOK ==
  /\ generation \in 0 .. 2 * MaxLinks
  /\ Len(queue) <= Depth /\ \A i \in DOMAIN queue : queue[i] \in Commands
  /\ overflow \in BOOLEAN
  /\ session.gen \in 0 .. generation
  /\ session.list = None \/ session.list \in [id : Ids, next : 0 .. Pieces, ready : {None, "D", "END"}]
  /\ session.offer = None \/ session.offer \in [id : Ids, next : 0 .. Chunks - 1]
  /\ session.aborted \in Ids \union {None}
  /\ Len(session.replies) <= Slots /\ \A i \in DOMAIN session.replies : session.replies[i] \in Records
  /\ session.retries \in 0 .. MaxRetries
  /\ step \in {"take", "handle", "store", "pump"}
  /\ command = None \/ command \in Commands
  /\ Len(asked) <= MaxExchanges
  /\ \A i \in DOMAIN asked : asked[i] \in [verb : {"READ_LIST", "OFFER"}, link : 1 .. 2 * MaxLinks]
  /\ sent \in 0 .. Chunks
  /\ heard \in [Ids -> Seq(Answers)]
  /\ stored \subseteq Ids /\ lost \subseteq Ids

\* reset(): a session that holds nothing.
Fresh(gen) == [gen |-> gen, list |-> None, offer |-> None, aborted |-> None, replies |-> <<>>, retries |-> 0]

Init ==
  /\ generation = 0 /\ queue = <<>> /\ overflow = FALSE
  /\ session = Fresh(0) /\ step = "pump" /\ command = None
  /\ asked = <<>> /\ sent = 0 /\ heard = [id \in Ids |-> <<>>]
  /\ stored = {} /\ lost = {}

---------------------------------------------------------------------------
(* The companion and the host task.                                        *)

\* A companion connects, or leaves; either ends what belonged to the old link.
\* A new link takes several radio intervals before it carries a record: it is
\* not up between taking a command and the first statement of its handler.
LinkChanges ==
  /\ generation < 2 * MaxLinks
  /\ Connected \/ step # "handle"
  /\ generation' = generation + 1
  /\ UNCHANGED <<queue, overflow, loop, companion, history>>

\* Mutant: the queue's depth is not looked at.
PushAlways(record) == queue' = Append(queue, record) /\ UNCHANGED <<overflow, lost>>

\* onCommandRecord: a full queue drops the record and remembers that it did.
Push(record) ==
  IF Len(queue) < Depth
    THEN queue' = Append(queue, record) /\ UNCHANGED <<overflow, lost>>
    ELSE overflow' = TRUE /\ lost' = lost \union {record.id} /\ UNCHANGED queue

Answered(id) == \E i \in DOMAIN heard[id] : heard[id][i] \in Final

\* The exchange the connected companion started last, 0 when it has none.
Latest == IF asked # <<>> /\ Connected /\ Last(asked).link = generation THEN Len(asked) ELSE 0

\* The next exchange: the last one was answered, or the companion gave it up.
Start(verb) ==
  /\ Connected
  /\ Len(asked) < MaxExchanges
  /\ asked' = Append(asked, [verb |-> verb, link |-> generation])
  /\ sent' = 0
  /\ Push([verb |-> verb, id |-> Len(asked) + 1, gen |-> generation])
  /\ UNCHANGED <<generation, loop, heard, stored>>

\* Chunks follow without waiting; some are on their way when an error is heard.
WriteChunk ==
  /\ Latest # 0
  /\ asked[Latest].verb = "OFFER"
  /\ sent < Chunks
  /\ sent' = sent + 1
  /\ Push([verb |-> "W", id |-> Latest, seq |-> sent, gen |-> generation])
  /\ UNCHANGED <<generation, loop, asked, heard, stored>>

---------------------------------------------------------------------------
(* The main loop: a command is taken, handled, and perhaps stored.         *)

\* Mutant: a changed link is noted, what the old one left stays.
NotedOnly == [session EXCEPT !.gen = generation]

\* followLink(): a changed link discards everything the old one left.
Followed == IF session.gen = generation THEN session ELSE Fresh(generation)

\* queueReply(): a reply beyond the slots is dropped.
Replied(s, id, answer) ==
  IF Len(s.replies) < Slots THEN [s EXCEPT !.replies = Append(@, [id |-> id, answer |-> answer])] ELSE s

\* Mutant: a failed offer is discarded without its error.
AbortedSilently(s) == [s EXCEPT !.aborted = s.offer.id, !.offer = None]

\* abortOffer(): the offer's one error; its later chunks are passed over.
Aborted(s) == Replied([s EXCEPT !.aborted = s.offer.id, !.offer = None], s.offer.id, "ERR")

\* The exchange window drains the queue before it pumps, the Nearby Sync screen
\* takes one command a pass.
AfterCommand == step' \in {"take", "pump"}

\* With all slots taken the command's reply is dropped.
Unheard == lost' = IF Len(session.replies) < Slots THEN lost ELSE lost \union {command.id}

\* takeCommand(): records of another link are passed over.
TakeCommand ==
  LET mine == {i \in DOMAIN queue : queue[i].gen = generation}
  IN  /\ step = "take"
      /\ \/ mine = {} /\ queue' = <<>> /\ step' = "pump" /\ UNCHANGED command
         \/ \E first \in mine : /\ \A i \in mine : first <= i
                               /\ command' = queue[first]
                               /\ queue' = SubSeq(queue, first + 1, Len(queue))
                               /\ step' = "handle"
      /\ UNCHANGED <<generation, overflow, session, companion, history>>

\* The session after READ_LIST: refused while an exchange runs or memory is low.
ListStarted(s, id, memory) ==
  IF s.list # None \/ s.offer # None \/ ~memory
    THEN Replied(s, id, "ERR")
    ELSE [s EXCEPT !.list = [id |-> id, next |-> 0, ready |-> None], !.retries = 0]

\* The session after OFFER, which takes the place of an incomplete one.
OfferStarted(s, id, memory) ==
  IF s.list # None \/ ~memory
    THEN Replied([s EXCEPT !.offer = None], id, "ERR")
    ELSE [s EXCEPT !.offer = [id |-> id, next |-> 0], !.aborted = None]

\* The chunk belongs to the offer being assembled and is the next one of it.
Fits(s, chunk) == s.offer # None /\ s.offer.id = chunk.id /\ s.offer.next = chunk.seq

\* The session after a chunk that does not complete the offer.
ChunkWritten(s, chunk) ==
  IF s.offer = None \/ s.offer.id # chunk.id
    THEN IF s.aborted = chunk.id THEN s ELSE Replied(s, chunk.id, "ERR")
    ELSE IF s.offer.next # chunk.seq THEN Aborted(s) ELSE [s EXCEPT !.offer.next = @ + 1]

Completes(s, chunk) == Fits(s, chunk) /\ chunk.seq + 1 = Chunks

\* Low memory, or a body that does not parse or is not for this reader, fails
\* the complete offer; otherwise it is dropped before the card is used.
Handle(fine) ==
  LET s == Followed
      chunk == command.verb = "W"
  IN  /\ step = "handle"
      /\ session' = CASE command.verb = "READ_LIST" -> ListStarted(s, command.id, fine)
                      [] command.verb = "OFFER"     -> OfferStarted(s, command.id, fine)
                      [] chunk /\ ~Completes(s, command) -> ChunkWritten(s, command)
                      [] OTHER -> IF fine THEN [s EXCEPT !.offer = None] ELSE Aborted(s)
      /\ IF chunk /\ Completes(s, command) /\ fine
           THEN step' = "store" /\ UNCHANGED command
           ELSE AfterCommand /\ command' = None
      /\ Unheard
      /\ UNCHANGED <<link, companion, stored>>

\* Mutant: the result of the write is not looked at.
StoredAnyway(kept) ==
  /\ step = "store"
  /\ stored' = IF kept THEN stored \union {command.id} ELSE stored
  /\ session' = Replied(session, command.id, "OK")
  /\ AfterCommand /\ command' = None
  /\ Unheard
  /\ UNCHANGED <<link, companion>>

\* storeOffer(): the place is kept on the card, or refused.
Store(kept) ==
  /\ step = "store"
  /\ stored' = IF kept THEN stored \union {command.id} ELSE stored
  /\ session' = Replied(session, command.id, IF kept THEN "OK" ELSE "ERR")
  /\ AfterCommand /\ command' = None
  /\ Unheard
  /\ UNCHANGED <<link, companion>>

---------------------------------------------------------------------------
(* pump(): one record out, replies before the list.                        *)

\* A dropped record fails the offer being assembled.
Checked == IF overflow /\ Followed.offer # None THEN Aborted(Followed) ELSE Followed

Pending(s) == s.replies # <<>> \/ (s.list # None /\ s.list.ready # None)

NextRecord(s) ==
  IF s.replies # <<>> THEN Head(s.replies) ELSE [id |-> s.list.id, answer |-> s.list.ready]

\* The session once the stack has accepted its next record.
SentBy(s) ==
  IF s.replies # <<>> THEN [s EXCEPT !.replies = Tail(@), !.retries = 0]
  ELSE IF s.list.ready = "END" THEN [s EXCEPT !.list = None, !.retries = 0]
  ELSE [s EXCEPT !.list.ready = None, !.retries = 0]

\* Mutants: only the refused record is given up, or it is tried for ever.
RefusedAsSent(s) == IF s.retries < MaxRetries THEN [s EXCEPT !.retries = @ + 1] ELSE SentBy(s)
TriedForEver(s) == [s EXCEPT !.retries = IF @ < MaxRetries THEN @ + 1 ELSE @]

\* The stack did not take the record: tried again, in the end all is given up.
RefusedBy(s) == IF s.retries < MaxRetries THEN [s EXCEPT !.retries = @ + 1] ELSE Fresh(s.gen)

\* The next D record, or END behind the last, is framed for the next pass.
Framed(s) ==
  LET page == s.list.next
  IN  [s EXCEPT !.list = IF page < Pieces THEN [s.list EXCEPT !.next = page + 1, !.ready = "D"]
                                          ELSE [s.list EXCEPT !.ready = "END"]]

PassEnds == step = "pump" /\ step' = "take" /\ overflow' = FALSE

Send ==
  /\ PassEnds
  /\ Pending(Checked) /\ Connected
  /\ session' = SentBy(Checked)
  /\ LET r == NextRecord(Checked) IN heard' = [heard EXCEPT ![r.id] = Append(@, r.answer)]
  /\ UNCHANGED <<generation, queue, command, asked, sent, history>>

SendRefused ==
  /\ PassEnds
  /\ Pending(Checked)
  /\ session' = RefusedBy(Checked)
  /\ lost' = IF Checked.retries < MaxRetries THEN lost ELSE lost \union (1 .. Len(asked))
  /\ UNCHANGED <<generation, queue, command, companion, stored>>

Frame ==
  /\ PassEnds
  /\ ~Pending(Checked) /\ Checked.list # None
  /\ session' = Framed(Checked)
  /\ UNCHANGED <<generation, queue, command, companion, history>>

FrameFails ==
  /\ PassEnds
  /\ ~Pending(Checked) /\ Checked.list # None
  /\ session' = Replied([Checked EXCEPT !.list = None], Checked.list.id, "ERR")
  /\ UNCHANGED <<generation, queue, command, companion, history>>

Idle ==
  /\ PassEnds
  /\ ~Pending(Checked) /\ Checked.list = None
  /\ session' = Checked
  /\ UNCHANGED <<generation, queue, command, companion, history>>

MainLoop ==
  \/ TakeCommand \/ (\E fine \in BOOLEAN : Handle(fine)) \/ (\E kept \in BOOLEAN : Store(kept))
  \/ Send \/ SendRefused \/ Frame \/ FrameFails \/ Idle

Next ==
  \/ LinkChanges \/ (\E verb \in {"READ_LIST", "OFFER"} : Start(verb)) \/ WriteChunk
  \/ MainLoop

Spec == Init /\ [][Next]_vars

\* The main loop keeps making passes; nothing is assumed of companions or radio.
LiveSpec == Spec /\ WF_vars(MainLoop)

---------------------------------------------------------------------------
\* Whatever reaches a companion answers something it asked on this very link:
\* nothing of a former peer's exchange crosses a reconnect, wherever in a pass it
\* happens (ReadingSyncSession.cpp:72-79, ReadingSyncProtocol.cpp:323).
OwnAnswers ==
  [][ \A id \in Ids : heard'[id] # heard[id] => id <= Len(asked) /\ asked[id].link = generation ]_vars

\* An offer answered OK is on the card and hears nothing else: no chunk behind it,
\* no overflow and no second exchange adds an error (ReadingSyncSession.cpp:152-233).
OkIsFinal ==
  \A id \in Ids : "OK" \in ToSet(heard[id]) => id \in stored /\ heard[id] = <<"OK">>

\* A list is heard whole: END comes once, behind every D record, although records
\* are refused and tried again and replies go first (ReadingSyncSession.cpp:253-314).
ListWhole ==
  \A id \in Ids : "END" \in ToSet(heard[id])
    => heard[id] = [i \in 1 .. Pieces + 1 |-> IF i <= Pieces THEN "D" ELSE "END"]

\* A list stream ends, even when the companion takes nothing of it: the session is
\* free for another exchange again (ReadingSyncSession.cpp:292-297).
ListEnds == session.list # None ~> session.list = None

\* All records of the exchange are written.
Complete(id) == id = Latest /\ (asked[id].verb = "OFFER" => sent = Chunks)

\* A complete exchange is answered unless its link ends, its companion starts
\* another, or one of its records or replies was dropped at a full queue, at full
\* slots or with an abandoned exchange.
AnsweredUnlessLost ==
  \A id \in Ids : Complete(id) ~> (Answered(id) \/ id # Latest \/ id \in lost)
=============================================================================
