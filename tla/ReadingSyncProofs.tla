--------------------------- MODULE ReadingSyncProofs ---------------------------
(***************************************************************************)
(* Whose answers a companion hears, and how an exchange ends, for every     *)
(* depth of the queue, number of slots, retries, chunks and list records,   *)
(* and for any number of connections and exchanges.                         *)
(***************************************************************************)
EXTENDS ReadingSync, SequenceTheorems, TLAPS

-------------------------------------------------------------------------------
(* The inductive invariant.  What is said of the session is said of a        *)
(* session value s, for a handler goes through several of them; H holds the  *)
(* command in hand, if there is one.                                         *)

Lists  == [id : Ids, next : 0 .. Pieces, ready : {None, "D", "END"}]
Offers == [id : Ids, next : 0 .. Chunks - 1]
Sessions == [gen : Nat, list : Lists \cup {None}, offer : Offers \cup {None},
             aborted : Ids \cup {None}, replies : Seq(Records), retries : 0 .. MaxRetries]
Requests == [verb : {"READ_LIST", "OFFER"}, link : 1 .. 2 * MaxLinks]

SessionTyped(s) ==
  /\ s \in Sessions
  /\ Len(s.replies) <= Slots
  /\ s.list = None \/ s.offer = None
  /\ \A i \in DOMAIN s.replies : s.replies[i].answer \in {"OK", "ERR"}

Typed ==
  /\ generation \in 0 .. 2 * MaxLinks
  /\ queue \in Seq(Commands) /\ Len(queue) <= Depth
  /\ overflow \in BOOLEAN
  /\ session.gen <= generation
  /\ step \in {"take", "handle", "store", "pump"}
  /\ command \in Commands \cup {None}
  /\ step \in {"handle", "store"} => command \in Commands
  /\ asked \in Seq(Requests) /\ Len(asked) <= MaxExchanges
  /\ sent \in 0 .. Chunks
  /\ heard \in [Ids -> Seq(Answers)]
  /\ stored \subseteq Ids /\ lost \subseteq Ids

\* The command taken from the queue, until it is done with.
Hand == IF step \in {"handle", "store"} THEN {command} ELSE {}

Queued(id)  == \E i \in DOMAIN queue : queue[i].id = id
Said(s, id) == \E i \in DOMAIN s.replies : s.replies[i].id = id
Runs(s, id) == (s.list # None /\ s.list.id = id) \/ (s.offer # None /\ s.offer.id = id)

\* The companion writes the commands of an exchange in order, and the queue keeps it.
Place(c) == IF c.verb = "W" THEN c.seq + 1 ELSE 0
Sound(c) ==
  /\ c.id <= Len(asked)
  /\ c.gen = asked[c.id].link
  /\ asked[c.id].verb = IF c.verb = "W" THEN "OFFER" ELSE c.verb
  /\ c.id = Len(asked) => Place(c) <= sent

QueueInv ==
  /\ \A i \in DOMAIN queue : Sound(queue[i])
  /\ \A i, j \in DOMAIN queue :
       i < j /\ queue[i].id = queue[j].id => Place(queue[i]) < Place(queue[j])
  /\ \A c \in Hand : /\ Sound(c)
                     /\ \A i \in DOMAIN queue : queue[i].id = c.id => Place(c) < Place(queue[i])

\* Nothing has been made of an exchange, and nothing of it is left to come.
Untouched(s, id) == heard[id] = <<>> /\ ~Said(s, id) /\ ~Runs(s, id)
Over(s, H, id)   == ~Runs(s, id) /\ ~Queued(id) /\ \A c \in H : c.id # id

CommandInv ==
  /\ step = "handle" /\ Connected => command.gen = generation
  /\ step = "store" =>
       /\ session.gen = generation /\ Connected => command.gen = generation
       /\ command.verb = "W" /\ command.seq = Chunks - 1
       /\ Untouched(session, command.id)

HeardInv == \A id \in Ids : heard[id] # <<>> => id <= Len(asked)

\* On its own link a session holds only what that link's companion asked.
Linked(s) ==
  \A id \in Ids : Said(s, id) \/ Runs(s, id) =>
    id <= Len(asked) /\ (s.gen = generation /\ Connected => asked[id].link = generation)

Opening(s, H) ==
  /\ \A i \in DOMAIN queue : queue[i].verb # "W" => Untouched(s, queue[i].id)
  /\ \A c \in H : c.verb # "W" => Untouched(s, c.id)

Assembling(s) ==
  s.offer # None =>
    /\ heard[s.offer.id] = <<>> /\ ~Said(s, s.offer.id)
    /\ asked[s.offer.id].verb = "OFFER"

\* Every chunk of an offer is written, so none can follow.
AllSent(id) == asked[id].verb = "OFFER" /\ (id = Len(asked) => sent = Chunks)

OkSaid(s, H) ==
  \A i \in DOMAIN s.replies : s.replies[i].answer = "OK" =>
    /\ heard[s.replies[i].id] = <<>> /\ s.replies[i].id \in stored
    /\ Over(s, H, s.replies[i].id) /\ AllSent(s.replies[i].id)
    /\ \A j \in DOMAIN s.replies : s.replies[j].id = s.replies[i].id => j = i

OkHeard(s, H) ==
  \A id \in Ids : "OK" \in ToSet(heard[id]) =>
    heard[id] = <<"OK">> /\ id \in stored /\ ~Said(s, id) /\ Over(s, H, id) /\ AllSent(id)

\* What a companion has heard of a list that is streamed, and of a whole one.
Pages(n) == [i \in 1 .. n |-> "D"]
Whole    == [i \in 1 .. Pieces + 1 |-> IF i <= Pieces THEN "D" ELSE "END"]

Listing(s) ==
  s.list # None =>
    /\ asked[s.list.id].verb = "READ_LIST" /\ ~Said(s, s.list.id)
    /\ s.list.ready = "END" => s.list.next = Pieces
    /\ s.list.ready = "D" => s.list.next > 0
    /\ heard[s.list.id] = Pages(IF s.list.ready = "D" THEN s.list.next - 1 ELSE s.list.next)

EndHeard(s, H) ==
  \A id \in Ids : "END" \in ToSet(heard[id]) =>
    heard[id] = Whole /\ ~Said(s, id) /\ Over(s, H, id) /\ asked[id].verb = "READ_LIST"

SessionInv(s, H) ==
  /\ SessionTyped(s) /\ Linked(s) /\ Opening(s, H) /\ Assembling(s)
  /\ OkSaid(s, H) /\ OkHeard(s, H) /\ Listing(s) /\ EndHeard(s, H)

SyncInv == Typed /\ QueueInv /\ CommandInv /\ HeardInv /\ SessionInv(session, Hand)

-------------------------------------------------------------------------------
(* Sessions, replies and what was heard.                                     *)

LEMMA Sizes ==
  /\ Depth \in Nat /\ Depth >= 1 /\ Slots \in Nat /\ Slots >= 1
  /\ Chunks \in Nat /\ Chunks >= 1 /\ Pieces \in Nat /\ Pieces >= 1
  /\ MaxLinks \in Nat /\ MaxLinks >= 1 /\ MaxExchanges \in Nat /\ MaxExchanges >= 1
  /\ MaxRetries \in Nat
  BY SizesAssumption DEF SizesAssumption

\* An answer more in what was heard.
LEMMA AnswerHeard ==
  ASSUME NEW h \in Seq(Answers), NEW a \in Answers
  PROVE  /\ Append(h, a) \in Seq(Answers) /\ Append(h, a) # <<>>
         /\ \A b : b \in ToSet(Append(h, a)) <=> b \in ToSet(h) \/ b = a
         /\ h = <<>> => Append(h, a) = <<a>>
<1>1. /\ Append(h, a) \in Seq(Answers) /\ Append(h, a) # <<>> /\ Len(Append(h, a)) = Len(h) + 1
      /\ \A i \in 1 .. Len(h) : Append(h, a)[i] = h[i]
      /\ Append(h, a)[Len(h) + 1] = a
  BY AppendProperties
<1>2. DOMAIN h = 1 .. Len(h) /\ DOMAIN Append(h, a) = 1 .. (Len(h) + 1) /\ Len(h) \in Nat
  BY <1>1, LenProperties
<1>3. \A b : b \in ToSet(Append(h, a)) <=> b \in ToSet(h) \/ b = a
  BY <1>1, <1>2 DEF ToSet
<1>4. h = <<>> => Append(h, a) = <<a>>
  OBVIOUS
<1>5. QED
  BY <1>1, <1>3, <1>4

\* The fields of a session.
LEMMA SessionFields ==
  ASSUME NEW s \in Sessions
  PROVE  /\ s.gen \in Nat /\ s.list \in Lists \cup {None} /\ s.offer \in Offers \cup {None}
         /\ s.replies \in Seq(Records) /\ DOMAIN s.replies = 1 .. Len(s.replies) /\ Len(s.replies) \in Nat
         /\ \A i \in DOMAIN s.replies : s.replies[i].id \in Ids
         /\ s.list # None => s.list.id \in Ids
         /\ s.offer # None => s.offer.id \in Ids
         /\ \A id : Said(s, id) \/ Runs(s, id) => id \in Ids
<1>1. /\ s.gen \in Nat /\ s.list \in Lists \cup {None} /\ s.offer \in Offers \cup {None}
      /\ s.replies \in Seq(Records)
  BY DEF Sessions
<1>2. DOMAIN s.replies = 1 .. Len(s.replies) /\ Len(s.replies) \in Nat
  BY <1>1, LenProperties
<1>3. \A i \in DOMAIN s.replies : s.replies[i].id \in Ids
  <2>1. \A i \in DOMAIN s.replies : s.replies[i] \in Records
    BY <1>1, <1>2, ElementOfSeq
  <2>2. QED
    BY <2>1 DEF Records
<1>4. /\ s.list # None => s.list.id \in Ids
      /\ s.offer # None => s.offer.id \in Ids
  BY <1>1 DEF Lists, Offers
<1>5. QED
  BY <1>1, <1>2, <1>3, <1>4 DEF Said, Runs

\* A session with a field replaced.
LEMMA SessionFieldSet ==
  ASSUME NEW s \in Sessions
  PROVE  /\ \A x \in Lists \cup {None} : [s EXCEPT !.list = x] \in Sessions
         /\ \A x \in Offers \cup {None} : [s EXCEPT !.offer = x] \in Sessions
         /\ \A x \in Ids \cup {None} : [s EXCEPT !.aborted = x] \in Sessions
         /\ \A x \in Seq(Records) : [s EXCEPT !.replies = x] \in Sessions
         /\ \A x \in 0 .. MaxRetries : [s EXCEPT !.retries = x] \in Sessions
<1> DEFINE L == Lists \cup {None}
           O == Offers \cup {None}
           A == Ids \cup {None}
           R == Seq(Records)
           N == 0 .. MaxRetries
<1>1. Sessions = [gen : Nat, list : L, offer : O, aborted : A, replies : R, retries : N]
  BY DEF Sessions
<1> HIDE DEF L, O, A, R, N
<1>2. QED
  BY <1>1 DEF L, O, A, R, N

\* reset() holds nothing.
LEMMA FreshFields ==
  ASSUME NEW gen \in Nat
  PROVE  /\ Fresh(gen) \in Sessions /\ SessionTyped(Fresh(gen)) /\ Fresh(gen).gen = gen
         /\ Fresh(gen).list = None /\ Fresh(gen).offer = None /\ Fresh(gen).replies = <<>>
         /\ \A id : ~Said(Fresh(gen), id) /\ ~Runs(Fresh(gen), id)
<1>1. /\ Fresh(gen).gen = gen /\ Fresh(gen).list = None /\ Fresh(gen).offer = None
      /\ Fresh(gen).replies = <<>>
  BY DEF Fresh
<1>2. <<>> \in Seq(Records) /\ Len(<<>>) = 0 /\ DOMAIN <<>> = {} /\ 0 \in 0 .. MaxRetries
  BY Sizes, EmptySeq
<1>3. Fresh(gen) \in Sessions
  BY <1>2 DEF Fresh, Sessions
<1>4. QED
  BY <1>1, <1>2, <1>3, Sizes DEF SessionTyped, Said, Runs

LEMMA FreshKeeps ==
  ASSUME NEW s, NEW H, SessionInv(s, H), NEW gen \in Nat
  PROVE  SessionInv(Fresh(gen), H)
<1>1. /\ SessionTyped(Fresh(gen)) /\ Fresh(gen).list = None /\ Fresh(gen).offer = None
      /\ DOMAIN Fresh(gen).replies = {}
      /\ \A id : ~Said(Fresh(gen), id) /\ ~Runs(Fresh(gen), id)
  BY FreshFields, EmptySeq
<1>2. \A id : Over(s, H, id) => Over(Fresh(gen), H, id)
  BY <1>1 DEF Over
<1>3. Linked(Fresh(gen)) /\ Assembling(Fresh(gen)) /\ OkSaid(Fresh(gen), H) /\ Listing(Fresh(gen))
  BY <1>1 DEF Linked, Assembling, OkSaid, Listing
<1>4. Opening(Fresh(gen), H)
  BY <1>1 DEF SessionInv, Opening, Untouched
<1>5. OkHeard(Fresh(gen), H) /\ EndHeard(Fresh(gen), H)
  BY <1>1, <1>2 DEF SessionInv, OkHeard, EndHeard
<1>6. QED
  BY <1>1, <1>3, <1>4, <1>5 DEF SessionInv

\* A session that has given up its list or its offer.
LEMMA LessKeeps ==
  ASSUME NEW s, NEW H, SessionInv(s, H), NEW r \in Sessions, r.gen = s.gen, r.replies = s.replies,
         r.list \in {s.list, None},
         r.offer = None \/ (s.offer # None /\ r.offer.id = s.offer.id)
  PROVE  SessionInv(r, H)
<1>1. /\ \A id : Said(r, id) <=> Said(s, id)
      /\ \A id : Runs(r, id) => Runs(s, id)
      /\ \A id : Over(s, H, id) => Over(r, H, id)
      /\ \A id : Untouched(s, id) => Untouched(r, id)
  BY DEF Said, Runs, Over, Untouched
<1>2. SessionTyped(r) /\ Linked(r)
  BY <1>1 DEF SessionInv, SessionTyped, Linked
<1>3. Opening(r, H)
  BY <1>1 DEF SessionInv, Opening
<1>4. Assembling(r) /\ Listing(r)
  BY <1>1 DEF SessionInv, Assembling, Listing
<1>5. OkSaid(r, H) /\ OkHeard(r, H) /\ EndHeard(r, H)
  BY <1>1 DEF SessionInv, OkSaid, OkHeard, EndHeard
<1>6. QED
  BY <1>2, <1>3, <1>4, <1>5 DEF SessionInv

LEMMA HandEmptied ==
  ASSUME NEW s, NEW H, SessionInv(s, H)
  PROVE  SessionInv(s, {})
<1>1. \A id : Over(s, H, id) => Over(s, {}, id)
  BY DEF Over
<1>2. OkSaid(s, {}) /\ OkHeard(s, {}) /\ EndHeard(s, {})
  BY <1>1 DEF SessionInv, OkSaid, OkHeard, EndHeard
<1>3. QED
  BY <1>2 DEF SessionInv, Opening

\* An exchange that may be told it failed: it is still under way, and about to end.
Free(s, H, id) ==
  /\ id \in Ids /\ id <= Len(asked) /\ (s.gen = generation /\ Connected => asked[id].link = generation)
  /\ ~Runs(s, id)
  /\ \A i \in DOMAIN queue : queue[i].verb # "W" => queue[i].id # id
  /\ \A c \in H : c.verb # "W" => c.id # id
  /\ \A i \in DOMAIN s.replies : s.replies[i].answer = "OK" => s.replies[i].id # id
  /\ "OK" \notin ToSet(heard[id]) /\ "END" \notin ToSet(heard[id])

\* A reply changes what is said and nothing else.
LEMMA RepliedFields ==
  ASSUME NEW s, SessionTyped(s), NEW id \in Ids, NEW answer \in {"OK", "ERR"}
  PROVE  LET r == Replied(s, id, answer)
         IN  /\ SessionTyped(r)
             /\ r.gen = s.gen /\ r.list = s.list /\ r.offer = s.offer
             /\ \A x : Said(s, x) => Said(r, x)
             /\ \A x : Said(r, x) => Said(s, x) \/ x = id
             /\ \A x : Runs(r, x) <=> Runs(s, x)
             /\ \A i \in DOMAIN s.replies : i \in DOMAIN r.replies /\ r.replies[i] = s.replies[i]
             /\ \A i \in DOMAIN r.replies :
                  i \in DOMAIN s.replies \/ r.replies[i] = [id |-> id, answer |-> answer]
             /\ \A i, j \in DOMAIN r.replies : i \notin DOMAIN s.replies /\ j \notin DOMAIN s.replies => i = j
<1> DEFINE said == [id |-> id, answer |-> answer]
           more == Append(s.replies, said)
<1>1. said \in Records
  BY DEF Records, Answers
<1>2. /\ s \in Sessions /\ s.replies \in Seq(Records) /\ DOMAIN s.replies = 1 .. Len(s.replies)
      /\ Len(s.replies) \in Nat
  BY SessionFields DEF SessionTyped
<1>3. /\ more \in Seq(Records) /\ Len(more) = Len(s.replies) + 1
      /\ \A i \in 1 .. Len(s.replies) : more[i] = s.replies[i]
      /\ more[Len(s.replies) + 1] = said
      /\ DOMAIN more = 1 .. (Len(s.replies) + 1)
  BY <1>1, <1>2, AppendProperties, LenProperties
<1>4. CASE ~(Len(s.replies) < Slots)
  BY <1>4 DEF Replied
<1>5. CASE Len(s.replies) < Slots
  <2> DEFINE r == [s EXCEPT !.replies = more]
  <2>1. Replied(s, id, answer) = r
    BY <1>5 DEF Replied
  <2>2. r \in Sessions
    BY <1>2, <1>3, SessionFieldSet
  <2>3. r.replies = more /\ r.gen = s.gen /\ r.list = s.list /\ r.offer = s.offer
    BY <1>2 DEF Sessions
  <2> HIDE DEF r, more, said
  <2>4. /\ \A i \in DOMAIN s.replies : i \in DOMAIN more /\ more[i] = s.replies[i]
        /\ \A i \in DOMAIN more : i \in DOMAIN s.replies \/ more[i] = said
        /\ \A i, j \in DOMAIN more : i \notin DOMAIN s.replies /\ j \notin DOMAIN s.replies => i = j
    BY <1>2, <1>3
  <2>5. said.id = id /\ said.answer = answer
    BY DEF said
  <2>6. SessionTyped(r)
    BY <1>3, <1>5, <2>2, <2>3, <2>4, <2>5, Sizes DEF SessionTyped
  <2>7. /\ \A x : Said(s, x) => Said(r, x)
        /\ \A x : Said(r, x) => Said(s, x) \/ x = id
        /\ \A x : Runs(r, x) <=> Runs(s, x)
    BY <2>3, <2>4, <2>5 DEF Said, Runs
  <2>8. QED
    BY <2>1, <2>3, <2>4, <2>6, <2>7 DEF said
<1>6. QED
  BY <1>4, <1>5

\* queueReply(), with an error.
LEMMA ErrorKeeps ==
  ASSUME NEW s, NEW H, SessionInv(s, H), NEW id, Free(s, H, id)
  PROVE  SessionInv(Replied(s, id, "ERR"), H)
<1> DEFINE r == Replied(s, id, "ERR")
<1>1. SessionTyped(s) /\ id \in Ids
  BY DEF SessionInv, Free
<1>2. /\ SessionTyped(r)
      /\ r.gen = s.gen /\ r.list = s.list /\ r.offer = s.offer
      /\ \A x : Said(s, x) => Said(r, x)
      /\ \A x : Said(r, x) => Said(s, x) \/ x = id
      /\ \A x : Runs(r, x) <=> Runs(s, x)
      /\ \A i \in DOMAIN s.replies : i \in DOMAIN r.replies /\ r.replies[i] = s.replies[i]
      /\ \A i \in DOMAIN r.replies :
           i \in DOMAIN s.replies \/ r.replies[i] = [id |-> id, answer |-> "ERR"]
  BY <1>1, RepliedFields
<1> HIDE DEF r
<1>3. \A x : Over(s, H, x) => Over(r, H, x)
  BY <1>2 DEF Over
<1>4. \A x : x # id /\ Untouched(s, x) => Untouched(r, x)
  BY <1>2 DEF Untouched
<1>5. Linked(r)
  BY <1>2 DEF SessionInv, Linked, Free
<1>6. Opening(r, H)
  BY <1>4 DEF SessionInv, Opening, Free
<1>7. Assembling(r) /\ Listing(r)
  BY <1>2 DEF SessionInv, Assembling, Listing, Free, Runs
<1>8. OkSaid(r, H)
  <2>1. \A i \in DOMAIN r.replies : r.replies[i].answer = "OK" => i \in DOMAIN s.replies
    BY <1>2
  <2>2. \A i, j \in DOMAIN r.replies :
          i \in DOMAIN s.replies /\ s.replies[i].answer = "OK" /\ r.replies[j].id = s.replies[i].id
            => j \in DOMAIN s.replies
    BY <1>2 DEF Free
  <2>3. QED
    BY <1>2, <1>3, <2>1, <2>2 DEF SessionInv, OkSaid
<1>9. OkHeard(r, H) /\ EndHeard(r, H)
  BY <1>2, <1>3 DEF SessionInv, OkHeard, EndHeard, Free
<1>10. QED
  BY <1>2, <1>5, <1>6, <1>7, <1>8, <1>9 DEF SessionInv, r

\* What runs may be told that it failed, once it no longer runs.
LEMMA RunningFree ==
  ASSUME NEW s, NEW H, SessionInv(s, H), NEW id, Runs(s, id), NEW r \in Sessions,
         r.gen = s.gen, r.replies = s.replies, ~Runs(r, id)
  PROVE  Free(r, H, id)
<1>1. id \in Ids
  BY SessionFields DEF SessionInv, SessionTyped
<1>2. id <= Len(asked) /\ (s.gen = generation /\ Connected => asked[id].link = generation)
  BY <1>1 DEF SessionInv, Linked
<1>3. /\ \A i \in DOMAIN queue : queue[i].verb # "W" => queue[i].id # id
      /\ \A c \in H : c.verb # "W" => c.id # id
  BY DEF SessionInv, Opening, Untouched
<1>4. /\ \A i \in DOMAIN s.replies : s.replies[i].answer = "OK" => s.replies[i].id # id
      /\ "OK" \notin ToSet(heard[id]) /\ "END" \notin ToSet(heard[id])
  BY <1>1 DEF SessionInv, OkSaid, OkHeard, EndHeard, Over
<1>5. QED
  BY <1>1, <1>2, <1>3, <1>4 DEF Free

\* abortOffer().
LEMMA AbortedKeeps ==
  ASSUME NEW s, NEW H, SessionInv(s, H), s.offer # None
  PROVE  SessionInv(Aborted(s), H) /\ Aborted(s).gen = s.gen /\ Aborted(s).offer = None
<1> DEFINE id == s.offer.id
           r  == [s EXCEPT !.aborted = id, !.offer = None]
<1>1. s \in Sessions /\ id \in Ids /\ SessionTyped(s)
  BY SessionFields DEF SessionInv, SessionTyped
<1>2. r \in Sessions /\ r.gen = s.gen /\ r.replies = s.replies /\ r.list = s.list /\ r.offer = None
  <2>1. [s EXCEPT !.aborted = id] \in Sessions
    BY <1>1, SessionFieldSet
  <2>2. [[s EXCEPT !.aborted = id] EXCEPT !.offer = None] \in Sessions
    BY <2>1, SessionFieldSet
  <2>3. r = [[s EXCEPT !.aborted = id] EXCEPT !.offer = None]
    OBVIOUS
  <2>4. r.gen = s.gen /\ r.replies = s.replies /\ r.list = s.list /\ r.offer = None
    BY <1>1 DEF Sessions
  <2>5. QED
    BY <2>2, <2>3, <2>4
<1>3. Aborted(s) = Replied(r, id, "ERR")
  BY DEF Aborted
<1>4. s.list = None
  BY <1>1 DEF SessionTyped
<1>5. Runs(s, id)
  BY DEF Runs
<1> HIDE DEF r
<1>6. ~Runs(r, id)
  BY <1>2, <1>4 DEF Runs
<1>7. SessionInv(r, H)
  BY <1>2, LessKeeps
<1>8. Free(r, H, id)
  BY <1>2, <1>5, <1>6, RunningFree
<1>9. SessionInv(Replied(r, id, "ERR"), H)
  BY <1>7, <1>8, ErrorKeeps
<1>10. Replied(r, id, "ERR").gen = r.gen /\ Replied(r, id, "ERR").offer = r.offer
  BY <1>1, <1>7, RepliedFields DEF SessionInv
<1>11. QED
  BY <1>2, <1>3, <1>9, <1>10

\* followLink().
LEMMA FollowedKeeps ==
  ASSUME NEW H, SessionInv(session, H), generation \in Nat
  PROVE  SessionInv(Followed, H) /\ Followed.gen = generation
<1>1. CASE session.gen = generation
  BY <1>1 DEF Followed
<1>2. CASE session.gen # generation
  BY <1>2, FreshKeeps, FreshFields DEF Followed
<1>3. QED
  BY <1>1, <1>2

\* What a pass of pump() starts from.
LEMMA CheckedKeeps ==
  ASSUME NEW H, SessionInv(session, H), generation \in Nat
  PROVE  SessionInv(Checked, H) /\ Checked.gen = generation
<1>1. SessionInv(Followed, H) /\ Followed.gen = generation
  BY FollowedKeeps
<1>2. CASE overflow /\ Followed.offer # None
  BY <1>1, <1>2, AbortedKeeps DEF Checked
<1>3. CASE ~(overflow /\ Followed.offer # None)
  BY <1>1, <1>3 DEF Checked
<1>4. QED
  BY <1>2, <1>3

-------------------------------------------------------------------------------
(* A command.                                                                *)

\* The command in hand, and where its exchange stands when it is handled.
Handled(s, c) ==
  /\ SessionInv(s, {c})
  /\ c \in Commands /\ c.id \in Ids /\ Sound(c)
  /\ s.gen = generation /\ Connected => c.gen = generation
  /\ \A i \in DOMAIN queue : queue[i].id = c.id => Place(c) < Place(queue[i])

\* An error may be told of it, as long as it is not under way.
LEMMA CommandFree ==
  ASSUME NEW s, NEW c, Handled(s, c), NEW r \in Sessions,
         r.gen = s.gen, r.replies = s.replies, ~Runs(r, c.id)
  PROVE  Free(r, {}, c.id)
<1>1. c.id \in Ids /\ c.id <= Len(asked) /\ (r.gen = generation /\ Connected => asked[c.id].link = generation)
  BY DEF Handled, Sound
<1>2. \A i \in DOMAIN queue : queue[i].verb # "W" => queue[i].id # c.id
  <2>1. ASSUME NEW i \in DOMAIN queue, queue[i].verb # "W", queue[i].id = c.id PROVE FALSE
    <3>1. Place(c) < 0
      BY <2>1 DEF Handled, Place
    <3>2. Place(c) \in Nat
      BY Sizes DEF Handled, Commands, Place
    <3>3. QED
      BY <3>1, <3>2
  <2>2. QED
    BY <2>1
<1>3. /\ \A i \in DOMAIN s.replies : s.replies[i].answer = "OK" => s.replies[i].id # c.id
      /\ "OK" \notin ToSet(heard[c.id]) /\ "END" \notin ToSet(heard[c.id])
  BY <1>1 DEF Handled, SessionInv, OkSaid, OkHeard, EndHeard, Over
<1>4. QED
  BY <1>1, <1>2, <1>3 DEF Free

\* READ_LIST: what is streamed begins with nothing heard.
LEMMA ListStartedKeeps ==
  ASSUME NEW s, NEW c, Handled(s, c), c.verb = "READ_LIST", NEW memory \in BOOLEAN
  PROVE  SessionInv(ListStarted(s, c.id, memory), {}) /\ ListStarted(s, c.id, memory).gen = s.gen
<1>1. /\ SessionInv(s, {c}) /\ SessionInv(s, {}) /\ s \in Sessions /\ SessionTyped(s)
      /\ Untouched(s, c.id) /\ c.id \in Ids
  BY HandEmptied DEF Handled, SessionInv, SessionTyped, Opening
<1>2. CASE s.list # None \/ s.offer # None \/ ~memory
  <2>1. Free(s, {}, c.id)
    BY <1>1, CommandFree DEF Untouched
  <2>2. QED
    BY <1>1, <1>2, <2>1, ErrorKeeps, RepliedFields DEF ListStarted
<1>3. CASE ~(s.list # None \/ s.offer # None \/ ~memory)
  <2> DEFINE l == [id |-> c.id, next |-> 0, ready |-> None]
             r == [s EXCEPT !.list = l, !.retries = 0]
  <2>1. ListStarted(s, c.id, memory) = r
    BY <1>3 DEF ListStarted
  <2>2. l \in Lists /\ 0 \in 0 .. MaxRetries
    BY <1>1, Sizes DEF Lists
  <2>3. r \in Sessions
    <3>1. [s EXCEPT !.list = l] \in Sessions
      BY <1>1, <2>2, SessionFieldSet
    <3>2. [[s EXCEPT !.list = l] EXCEPT !.retries = 0] \in Sessions
      BY <2>2, <3>1, SessionFieldSet
    <3>3. r = [[s EXCEPT !.list = l] EXCEPT !.retries = 0]
      OBVIOUS
    <3>4. QED
      BY <3>2, <3>3
  <2>4. r.gen = s.gen /\ r.replies = s.replies /\ r.list = l /\ r.offer = None
    BY <1>1, <1>3 DEF Sessions
  <2>5. l.id = c.id /\ l.next = 0 /\ l.ready = None
    OBVIOUS
  <2> HIDE DEF l, r
  <2>6. /\ \A x : Said(r, x) <=> Said(s, x)
        /\ \A x : Runs(r, x) => x = c.id
    BY <2>4, <2>5 DEF Said, Runs
  <2>7. \A x : Over(s, {c}, x) => Over(r, {}, x) /\ x # c.id
    BY <2>6 DEF Over
  <2>8. SessionTyped(r)
    BY <1>1, <2>3, <2>4 DEF SessionTyped
  <2>9. Linked(r)
    BY <1>1, <2>4, <2>6 DEF SessionInv, Linked, Handled, Sound
  <2>10. Opening(r, {})
    <3>1. \A i \in DOMAIN queue : queue[i].verb # "W" => queue[i].id # c.id
      BY DEF Handled, Place
    <3>2. QED
      BY <1>1, <2>6, <3>1 DEF SessionInv, Opening, Untouched
  <2>11. Assembling(r)
    BY <2>4 DEF Assembling
  <2>12. OkSaid(r, {}) /\ OkHeard(r, {}) /\ EndHeard(r, {})
    BY <1>1, <2>4, <2>6, <2>7 DEF SessionInv, OkSaid, OkHeard, EndHeard
  <2>13. Listing(r)
    <3>1. Pages(0) = <<>>
      BY DEF Pages
    <3>2. asked[c.id].verb = "READ_LIST"
      BY DEF Handled, Sound
    <3>3. QED
      BY <1>1, <2>4, <2>5, <2>6, <3>1, <3>2, NoneAssumption DEF NoneAssumption, Listing, Untouched
  <2>14. QED
    BY <2>1, <2>4, <2>8, <2>9, <2>10, <2>11, <2>12, <2>13 DEF SessionInv
<1>4. QED
  BY <1>2, <1>3

\* OFFER: the offer it replaces is given up, and the new one has said nothing.
LEMMA OfferStartedKeeps ==
  ASSUME NEW s, NEW c, Handled(s, c), c.verb = "OFFER", NEW memory \in BOOLEAN
  PROVE  SessionInv(OfferStarted(s, c.id, memory), {}) /\ OfferStarted(s, c.id, memory).gen = s.gen
<1>1. /\ SessionInv(s, {c}) /\ SessionInv(s, {}) /\ s \in Sessions /\ SessionTyped(s)
      /\ Untouched(s, c.id) /\ c.id \in Ids
  BY HandEmptied DEF Handled, SessionInv, SessionTyped, Opening
<1>2. CASE s.list # None \/ ~memory
  <2> DEFINE r == [s EXCEPT !.offer = None]
  <2>1. r \in Sessions /\ r.gen = s.gen /\ r.replies = s.replies /\ r.list = s.list /\ r.offer = None
    <3>1. r \in Sessions
      BY <1>1, SessionFieldSet
    <3>2. QED
      BY <1>1, <3>1 DEF Sessions
  <2>2. OfferStarted(s, c.id, memory) = Replied(r, c.id, "ERR")
    BY <1>2 DEF OfferStarted
  <2> HIDE DEF r
  <2>3. ~Runs(r, c.id)
    BY <1>1, <2>1 DEF Untouched, Runs
  <2>4. SessionInv(r, {}) /\ Free(r, {}, c.id)
    BY <1>1, <2>1, <2>3, LessKeeps, CommandFree
  <2>5. Replied(r, c.id, "ERR").gen = r.gen
    BY <1>1, <2>4, RepliedFields DEF SessionInv
  <2>6. QED
    BY <2>1, <2>2, <2>4, <2>5, ErrorKeeps
<1>3. CASE ~(s.list # None \/ ~memory)
  <2> DEFINE o == [id |-> c.id, next |-> 0]
             r == [s EXCEPT !.offer = o, !.aborted = None]
  <2>1. OfferStarted(s, c.id, memory) = r
    BY <1>3 DEF OfferStarted
  <2>2. o \in Offers
    BY <1>1, Sizes DEF Offers
  <2>3. r \in Sessions
    <3>1. [s EXCEPT !.offer = o] \in Sessions
      BY <1>1, <2>2, SessionFieldSet
    <3>2. [[s EXCEPT !.offer = o] EXCEPT !.aborted = None] \in Sessions
      BY <3>1, SessionFieldSet
    <3>3. r = [[s EXCEPT !.offer = o] EXCEPT !.aborted = None]
      OBVIOUS
    <3>4. QED
      BY <3>2, <3>3
  <2>4. r.gen = s.gen /\ r.replies = s.replies /\ r.list = None /\ r.offer = o
    BY <1>1, <1>3 DEF Sessions
  <2>5. o.id = c.id
    OBVIOUS
  <2> HIDE DEF o, r
  <2>6. /\ \A x : Said(r, x) <=> Said(s, x)
        /\ \A x : Runs(r, x) => x = c.id
    BY <2>4, <2>5 DEF Said, Runs
  <2>7. \A x : Over(s, {c}, x) => Over(r, {}, x) /\ x # c.id
    BY <2>6 DEF Over
  <2>8. SessionTyped(r)
    BY <1>1, <2>3, <2>4 DEF SessionTyped
  <2>9. Linked(r)
    BY <1>1, <2>4, <2>6 DEF SessionInv, Linked, Handled, Sound
  <2>10. Opening(r, {})
    <3>1. \A i \in DOMAIN queue : queue[i].verb # "W" => queue[i].id # c.id
      BY DEF Handled, Place
    <3>2. QED
      BY <1>1, <2>6, <3>1 DEF SessionInv, Opening, Untouched
  <2>11. Assembling(r)
    <3>1. asked[c.id].verb = "OFFER"
      BY DEF Handled, Sound
    <3>2. QED
      BY <1>1, <2>4, <2>5, <2>6, <3>1 DEF Assembling, Untouched
  <2>12. OkSaid(r, {}) /\ OkHeard(r, {}) /\ EndHeard(r, {})
    BY <1>1, <2>4, <2>6, <2>7 DEF SessionInv, OkSaid, OkHeard, EndHeard
  <2>13. Listing(r)
    BY <2>4 DEF Listing
  <2>14. QED
    BY <2>1, <2>4, <2>8, <2>9, <2>10, <2>11, <2>12, <2>13 DEF SessionInv
<1>4. QED
  BY <1>2, <1>3

\* A chunk that does not complete its offer.
LEMMA ChunkWrittenKeeps ==
  ASSUME NEW s, NEW c, Handled(s, c), c.verb = "W", ~Completes(s, c)
  PROVE  SessionInv(ChunkWritten(s, c), {}) /\ ChunkWritten(s, c).gen = s.gen
<1>1. SessionInv(s, {}) /\ s \in Sessions /\ SessionTyped(s)
  BY HandEmptied DEF Handled, SessionInv, SessionTyped
<1>2. CASE s.offer = None \/ s.offer.id # c.id
  <2>1. ~Runs(s, c.id)
    BY <1>1, <1>2 DEF Runs, SessionInv, Listing, Handled, Sound
  <2>2. SessionInv(Replied(s, c.id, "ERR"), {}) /\ Replied(s, c.id, "ERR").gen = s.gen
    BY <1>1, <2>1, CommandFree, ErrorKeeps, RepliedFields DEF Handled
  <2>3. QED
    BY <1>1, <1>2, <2>2 DEF ChunkWritten
<1>3. CASE s.offer # None /\ s.offer.id = c.id /\ s.offer.next # c.seq
  BY <1>1, <1>3, AbortedKeeps DEF ChunkWritten
<1>4. CASE s.offer # None /\ s.offer.id = c.id /\ s.offer.next = c.seq
  <2> DEFINE o == [s.offer EXCEPT !.next = @ + 1]
             r == [s EXCEPT !.offer = o]
  <2>1. ChunkWritten(s, c) = r
    BY <1>4 DEF ChunkWritten
  <2>2. s.offer \in Offers
    BY <1>1, <1>4, SessionFields
  <2>3. s.offer.next + 1 # Chunks
    BY <1>4 DEF Completes, Fits
  <2>4. o \in Offers /\ o.id = s.offer.id
    <3>1. s.offer.next + 1 \in 0 .. Chunks - 1
      BY <2>2, <2>3, Sizes DEF Offers
    <3>2. QED
      BY <2>2, <3>1 DEF Offers
  <2> HIDE DEF o
  <2>5. r \in Sessions
    BY <1>1, <2>4, SessionFieldSet
  <2>6. r.gen = s.gen /\ r.replies = s.replies /\ r.list = s.list /\ r.offer = o
    BY <1>1 DEF Sessions
  <2> HIDE DEF r
  <2>7. SessionInv(r, {})
    BY <1>1, <1>4, <2>4, <2>5, <2>6, LessKeeps
  <2>8. QED
    BY <2>1, <2>6, <2>7
<1>5. QED
  BY <1>2, <1>3, <1>4

\* The last chunk of an offer that is accepted: nothing was said of it, and nothing of
\* it can follow.
LEMMA CompletedKeeps ==
  ASSUME NEW s, NEW c, Handled(s, c), c.verb = "W", Completes(s, c)
  PROVE  LET r == [s EXCEPT !.offer = None]
         IN  SessionInv(r, {c}) /\ Untouched(r, c.id) /\ r.gen = s.gen
<1> DEFINE r == [s EXCEPT !.offer = None]
<1>1. SessionInv(s, {c}) /\ s \in Sessions /\ SessionTyped(s)
  BY DEF Handled, SessionInv, SessionTyped
<1>2. s.offer # None /\ s.offer.id = c.id
  BY DEF Completes, Fits
<1>3. r \in Sessions /\ r.gen = s.gen /\ r.replies = s.replies /\ r.list = s.list /\ r.offer = None
  <2>1. r \in Sessions
    BY <1>1, SessionFieldSet
  <2>2. QED
    BY <1>1, <2>1 DEF Sessions
<1> HIDE DEF r
<1>4. SessionInv(r, {c})
  BY <1>1, <1>3, LessKeeps
<1>5. Untouched(r, c.id)
  BY <1>1, <1>2, <1>3 DEF SessionInv, SessionTyped, Assembling, Untouched, Said, Runs
<1>6. QED
  BY <1>3, <1>4, <1>5 DEF r

-------------------------------------------------------------------------------
(* The steps.                                                                *)

\* What the session invariant says of a value holds of the session it becomes.
LEMMA Settled ==
  ASSUME NEW s, NEW H, SessionInv(s, H), session' = s, Hand' = H,
         UNCHANGED <<generation, queue, asked, sent, heard, stored>>
  PROVE  SessionInv(session, Hand)'
<1>1. SessionTyped(session)'
  BY DEF SessionInv, SessionTyped
<1>2. Linked(session)' /\ Opening(session, Hand)'
  BY DEF SessionInv, Linked, Opening, Untouched, Said, Runs, Connected
<1>3. Assembling(session)' /\ Listing(session)'
  BY DEF SessionInv, Assembling, Listing, Said
<1>4. OkSaid(session, Hand)' /\ OkHeard(session, Hand)' /\ EndHeard(session, Hand)'
  BY DEF SessionInv, OkSaid, OkHeard, EndHeard, Over, AllSent, Said, Runs, Queued
<1>5. QED
  BY <1>1, <1>2, <1>3, <1>4 DEF SessionInv

LEMMA HandEmpty == step \notin {"handle", "store"} => Hand = {}
  BY DEF Hand

\* The command is judged by the session of its link; the card is not touched yet.
LEMMA HandleKeeps ==
  ASSUME SyncInv, NEW fine \in BOOLEAN, Handle(fine)
  PROVE  SyncInv'
<1> DEFINE s == Followed
<1>1. /\ step = "handle" /\ Unheard
      /\ UNCHANGED <<generation, queue, overflow, asked, sent, heard, stored>>
  BY DEF Handle, link, companion
<1>2. /\ session' = CASE command.verb = "READ_LIST" -> ListStarted(s, command.id, fine)
                      [] command.verb = "OFFER"     -> OfferStarted(s, command.id, fine)
                      [] command.verb = "W" /\ ~Completes(s, command) -> ChunkWritten(s, command)
                      [] OTHER -> IF fine THEN [s EXCEPT !.offer = None] ELSE Aborted(s)
      /\ IF command.verb = "W" /\ Completes(s, command) /\ fine
           THEN step' = "store" /\ UNCHANGED command
           ELSE step' \in {"take", "pump"} /\ command' = None
  BY DEF Handle, AfterCommand
<1>3. Hand = {command} /\ command \in Commands /\ generation \in Nat
  BY <1>1, Sizes DEF SyncInv, Typed, Hand
<1>4. command.id \in Ids /\ command.verb \in {"READ_LIST", "OFFER", "W"}
      /\ (command.verb = "W" => command.seq \in 0 .. Chunks - 1)
  BY <1>3 DEF Commands
<1>5. SessionInv(s, {command}) /\ s.gen = generation
  BY <1>3, FollowedKeeps DEF SyncInv
<1>6. Handled(s, command)
  BY <1>1, <1>3, <1>4, <1>5 DEF Handled, SyncInv, QueueInv, CommandInv
<1> HIDE DEF s
<1>7. s.offer # None /\ command.verb = "W" /\ Completes(s, command) => command.seq = Chunks - 1
  BY <1>4, Sizes DEF Completes
<1>8. lost' \subseteq Ids
  BY <1>1, <1>4 DEF Unheard, SyncInv, Typed
<1>9. HeardInv'
  BY <1>1 DEF SyncInv, HeardInv
<1>10. CASE command.verb = "W" /\ Completes(s, command) /\ fine
  <2> DEFINE r == [s EXCEPT !.offer = None]
  <2>1. session' = r /\ step' = "store" /\ command' = command
    BY <1>2, <1>10
  <2>2. SessionInv(r, {command}) /\ Untouched(r, command.id) /\ r.gen = generation
    BY <1>5, <1>6, <1>10, CompletedKeeps
  <2> HIDE DEF r
  <2>3. Hand' = {command}
    BY <2>1 DEF Hand
  <2>4. SessionInv(session, Hand)'
    BY <1>1, <2>1, <2>2, <2>3, Settled
  <2>5. Typed'
    BY <1>1, <1>3, <1>8, <2>1, <2>2 DEF SyncInv, Typed
  <2>6. QueueInv'
    BY <1>1, <1>3, <2>1, <2>3 DEF SyncInv, QueueInv, Sound
  <2>7. CommandInv'
    <3>1. command.seq = Chunks - 1
      BY <1>4, <1>10, Sizes DEF Completes
    <3>2. Connected' => command.gen = generation
      BY <1>1 DEF SyncInv, CommandInv, Connected
    <3>3. Untouched(session, command.id)'
      BY <1>1, <2>1, <2>2 DEF Untouched, Said, Runs
    <3>4. QED
      BY <1>1, <1>10, <2>1, <3>1, <3>2, <3>3 DEF CommandInv
  <2>8. QED
    BY <1>9, <2>4, <2>5, <2>6, <2>7 DEF SyncInv
<1>11. CASE ~(command.verb = "W" /\ Completes(s, command) /\ fine)
  <2>1. step' \in {"take", "pump"} /\ command' = None
    BY <1>2, <1>11
  <2>2. SessionInv(session', {}) /\ session'.gen = generation
    <3>1. CASE command.verb = "READ_LIST"
      BY <1>2, <1>5, <1>6, <3>1, ListStartedKeeps
    <3>2. CASE command.verb = "OFFER"
      BY <1>2, <1>5, <1>6, <3>2, OfferStartedKeeps
    <3>3. CASE command.verb = "W" /\ ~Completes(s, command)
      BY <1>2, <1>5, <1>6, <3>3, ChunkWrittenKeeps
    <3>4. CASE command.verb = "W" /\ Completes(s, command) /\ ~fine
      <4>1. session' = Aborted(s)
        BY <1>2, <3>4
      <4>2. s.offer # None
        BY <3>4 DEF Completes, Fits
      <4>3. QED
        BY <1>5, <4>1, <4>2, AbortedKeeps, HandEmptied
    <3>5. QED
      BY <1>4, <1>11, <3>1, <3>2, <3>3, <3>4
  <2>3. Hand' = {}
    BY <2>1 DEF Hand
  <2>4. SessionInv(session, Hand)'
    BY <1>1, <2>2, <2>3, Settled
  <2>5. Typed'
    BY <1>1, <1>8, <2>1, <2>2, <1>3 DEF SyncInv, Typed
  <2>6. QueueInv' /\ CommandInv'
    BY <1>1, <2>1, <2>3 DEF SyncInv, QueueInv, Sound, CommandInv
  <2>7. QED
    BY <1>9, <2>4, <2>5, <2>6 DEF SyncInv
<1>12. QED
  BY <1>10, <1>11

\* The place is on the card, and the reply that says so is the first and the last one.
LEMMA OkKeeps ==
  ASSUME NEW s, NEW H, SessionInv(s, H), NEW id, Free(s, H, id), Untouched(s, id), ~Queued(id),
         \A c \in H : c.id # id, AllSent(id),
         session' = Replied(s, id, "OK"), Hand' = H, stored' = stored \cup {id},
         UNCHANGED <<generation, queue, asked, sent, heard>>
  PROVE  SessionInv(session, Hand)'
<1> DEFINE r == Replied(s, id, "OK")
<1>1. SessionTyped(s) /\ id \in Ids
  BY DEF SessionInv, Free
<1>2. /\ SessionTyped(r)
      /\ r.gen = s.gen /\ r.list = s.list /\ r.offer = s.offer
      /\ \A x : Said(s, x) => Said(r, x)
      /\ \A x : Said(r, x) => Said(s, x) \/ x = id
      /\ \A x : Runs(r, x) <=> Runs(s, x)
      /\ \A i \in DOMAIN s.replies : i \in DOMAIN r.replies /\ r.replies[i] = s.replies[i]
      /\ \A i \in DOMAIN r.replies :
           i \in DOMAIN s.replies \/ r.replies[i] = [id |-> id, answer |-> "OK"]
      /\ \A i, j \in DOMAIN r.replies : i \notin DOMAIN s.replies /\ j \notin DOMAIN s.replies => i = j
  BY <1>1, RepliedFields
<1> HIDE DEF r
<1>3. session' = r
  BY DEF r
<1>4. \A x : Over(s, H, x) => Over(session, Hand, x)'
  BY <1>2, <1>3 DEF Over, Queued, Runs
<1>5. \A x : AllSent(x) => AllSent(x)'
  BY DEF AllSent
<1>6. /\ \A x : Said(session, x)' => Said(s, x) \/ x = id
      /\ \A x : Runs(session, x)' <=> Runs(s, x)
  BY <1>2, <1>3 DEF Said, Runs
<1>7. \A x : x # id /\ Untouched(s, x) => Untouched(session, x)'
  BY <1>6 DEF Untouched
<1>8. SessionTyped(session)'
  BY <1>2, <1>3 DEF SessionTyped
<1>9. Linked(session)'
  BY <1>2, <1>3, <1>6 DEF SessionInv, Linked, Free, Connected
<1>10. Opening(session, Hand)'
  BY <1>7 DEF SessionInv, Opening, Free
<1>11. Assembling(session)' /\ Listing(session)'
  BY <1>2, <1>3, <1>6 DEF SessionInv, Assembling, Listing, Free, Runs
<1>12. OkSaid(session, Hand)'
  <2>1. SUFFICES ASSUME NEW i \in DOMAIN r.replies, r.replies[i].answer = "OK"
                 PROVE  /\ heard[r.replies[i].id] = <<>> /\ r.replies[i].id \in stored'
                        /\ Over(session, Hand, r.replies[i].id)' /\ AllSent(r.replies[i].id)
                        /\ \A j \in DOMAIN r.replies : r.replies[j].id = r.replies[i].id => j = i
    BY <1>3, <1>5 DEF OkSaid
  <2>2. CASE i \in DOMAIN s.replies
    <3>1. r.replies[i] = s.replies[i] /\ s.replies[i].id # id
      BY <1>2, <2>1, <2>2 DEF Free
    <3>2. /\ heard[s.replies[i].id] = <<>> /\ s.replies[i].id \in stored
          /\ Over(s, H, s.replies[i].id) /\ AllSent(s.replies[i].id)
          /\ \A j \in DOMAIN s.replies : s.replies[j].id = s.replies[i].id => j = i
      BY <2>1, <2>2, <3>1 DEF SessionInv, OkSaid
    <3>3. \A j \in DOMAIN r.replies : r.replies[j].id = s.replies[i].id => j \in DOMAIN s.replies
      BY <1>2, <3>1
    <3>4. QED
      BY <1>2, <1>4, <3>1, <3>2, <3>3
  <2>3. CASE i \notin DOMAIN s.replies
    <3>1. r.replies[i].id = id
      BY <1>2, <2>3
    <3>2. \A j \in DOMAIN r.replies : r.replies[j].id = id => j \notin DOMAIN s.replies
      BY <1>2 DEF Untouched, Said
    <3>3. Over(s, H, id) /\ heard[id] = <<>>
      BY DEF Over, Untouched
    <3>4. QED
      BY <1>2, <1>4, <2>3, <3>1, <3>2, <3>3
  <2>4. QED
    BY <2>2, <2>3
<1>13. OkHeard(session, Hand)' /\ EndHeard(session, Hand)'
  BY <1>4, <1>5, <1>6 DEF SessionInv, OkHeard, EndHeard, Free
<1>14. QED
  BY <1>8, <1>9, <1>10, <1>11, <1>12, <1>13 DEF SessionInv

\* storeOffer() and its one reply.
LEMMA StoreKeeps ==
  ASSUME SyncInv, NEW kept \in BOOLEAN, Store(kept)
  PROVE  SyncInv'
<1> DEFINE id == command.id
<1>1. /\ step = "store" /\ step' \in {"take", "pump"} /\ command' = None
      /\ stored' = IF kept THEN stored \cup {id} ELSE stored
      /\ session' = Replied(session, id, IF kept THEN "OK" ELSE "ERR")
      /\ UNCHANGED <<generation, queue, overflow, asked, sent, heard>>
      /\ Unheard
  BY DEF Store, AfterCommand, link, companion
<1>2. Hand = {command} /\ command \in Commands /\ Hand' = {}
  BY <1>1 DEF SyncInv, Typed, Hand
<1>3. id \in Ids /\ command.verb = "W" /\ Untouched(session, id) /\ command.seq = Chunks - 1
  BY <1>1, <1>2 DEF Commands, SyncInv, CommandInv
<1>4. Handled(session, command)
  BY <1>1, <1>2, <1>3 DEF Handled, SyncInv, QueueInv, CommandInv
<1>5. SessionTyped(session) /\ SessionInv(session, {})
  BY <1>4, HandEmptied DEF Handled, SessionInv
<1>6. Free(session, {}, id)
  BY <1>3, <1>4, <1>5, CommandFree DEF Untouched, SessionTyped
<1>7. SessionInv(session, Hand)'
  <2>1. CASE kept
    <3>1. Place(command) = Chunks /\ AllSent(id)
      <4>1. Place(command) = Chunks
        BY <1>3, Sizes DEF Place
      <4>2. Sound(command) /\ sent \in 0 .. Chunks
        BY <1>4 DEF Handled, SyncInv, Typed
      <4>3. QED
        BY <1>3, <4>1, <4>2, Sizes DEF Sound, AllSent
    <3>2. ~Queued(id)
      <4>1. ASSUME NEW i \in DOMAIN queue, queue[i].id = id PROVE FALSE
        <5>1. queue[i] \in Commands
          BY <4>1, ElementOfSeq, LenProperties DEF SyncInv, Typed
        <5>2. Place(queue[i]) <= Chunks
          BY <5>1, Sizes DEF Commands, Place
        <5>3. Chunks < Place(queue[i])
          BY <1>4, <3>1, <4>1 DEF Handled
        <5>4. Place(queue[i]) \in Nat
          BY <5>1, Sizes DEF Commands, Place
        <5>5. QED
          BY <5>2, <5>3, <5>4, Sizes
      <4>2. QED
        BY <4>1 DEF Queued
    <3>3. QED
      BY <1>1, <1>2, <1>3, <1>5, <1>6, <2>1, <3>1, <3>2, OkKeeps
  <2>2. CASE ~kept
    <3>1. SessionInv(Replied(session, id, "ERR"), {})
      BY <1>5, <1>6, ErrorKeeps
    <3>2. QED
      BY <1>1, <1>2, <2>2, <3>1, Settled
  <2>3. QED
    BY <2>1, <2>2
<1>8. Typed'
  <2>1. session'.gen = session.gen
    BY <1>1, <1>3, <1>5, RepliedFields
  <2>2. lost' \subseteq Ids
    BY <1>1, <1>3 DEF Unheard, SyncInv, Typed
  <2>3. QED
    BY <1>1, <1>3, <2>1, <2>2 DEF SyncInv, Typed
<1>9. QueueInv' /\ CommandInv' /\ HeardInv'
  BY <1>1, <1>2 DEF SyncInv, QueueInv, Sound, CommandInv, HeardInv
<1>10. QED
  BY <1>7, <1>8, <1>9 DEF SyncInv

\* A pass that only changes the session.
LEMMA PassKeeps ==
  ASSUME SyncInv, PassEnds, SessionInv(session', {}), session'.gen = generation,
         UNCHANGED <<generation, queue, command, asked, sent, heard, stored>>, lost' \subseteq Ids
  PROVE  SyncInv'
<1>1. step = "pump" /\ step' = "take" /\ overflow' = FALSE
  BY DEF PassEnds
<1>2. Hand = {} /\ Hand' = {}
  BY <1>1 DEF Hand
<1>3. SessionInv(session, Hand)'
  BY <1>2, Settled
<1>4. Typed'
  <2>1. session'.gen = generation' /\ generation' \in Nat
    BY Sizes DEF SyncInv, Typed
  <2>2. session'.gen <= generation'
    BY <2>1
  <2>3. QED
    BY <1>1, <2>2 DEF SyncInv, Typed
<1>5. QueueInv' /\ CommandInv' /\ HeardInv'
  BY <1>1, <1>2 DEF SyncInv, QueueInv, Sound, CommandInv, HeardInv
<1>6. QED
  BY <1>3, <1>4, <1>5 DEF SyncInv

LEMMA PumpStarts ==
  ASSUME SyncInv, PassEnds
  PROVE  /\ SessionInv(Checked, {}) /\ Checked.gen = generation /\ Checked \in Sessions
         /\ SessionTyped(Checked) /\ generation \in Nat
<1>1. Hand = {} /\ generation \in Nat
  BY Sizes DEF PassEnds, Hand, SyncInv, Typed
<1>2. QED
  BY <1>1, CheckedKeeps DEF SyncInv, SessionInv, SessionTyped

LEMMA IdleKeeps ==
  ASSUME SyncInv, Idle
  PROVE  SyncInv'
<1>1. PassEnds /\ session' = Checked /\ UNCHANGED <<generation, queue, command, asked, sent, heard, stored, lost>>
  BY DEF Idle, companion, history
<1>2. lost' \subseteq Ids
  BY <1>1 DEF SyncInv, Typed
<1>3. QED
  BY <1>1, <1>2, PumpStarts, PassKeeps

\* A record that is not taken is tried again, or everything is given up.
LEMMA SendRefusedKeeps ==
  ASSUME SyncInv, SendRefused
  PROVE  SyncInv'
<1> DEFINE s == Checked
<1>1. /\ PassEnds /\ session' = RefusedBy(s)
      /\ lost' \in {lost, lost \cup (1 .. Len(asked))}
      /\ UNCHANGED <<generation, queue, command, asked, sent, heard, stored>>
  BY DEF SendRefused, companion
<1>2. lost' \subseteq Ids
  <2>1. lost \subseteq Ids /\ Len(asked) <= MaxExchanges /\ Len(asked) \in Nat
    BY LenProperties DEF SyncInv, Typed
  <2>2. QED
    BY <1>1, <2>1, Sizes DEF Ids
<1>3. SessionInv(s, {}) /\ s.gen = generation /\ s \in Sessions /\ generation \in Nat
  BY <1>1, PumpStarts
<1> HIDE DEF s
<1>4. SessionInv(session', {}) /\ session'.gen = generation
  <2>1. CASE s.retries < MaxRetries
    <3> DEFINE r == [s EXCEPT !.retries = @ + 1]
    <3>1. s.retries + 1 \in 0 .. MaxRetries
      BY <1>3, <2>1, Sizes DEF Sessions
    <3>2. r \in Sessions /\ r.gen = s.gen /\ r.replies = s.replies /\ r.list = s.list /\ r.offer = s.offer
      <4>1. r \in Sessions
        BY <1>3, <3>1, SessionFieldSet
      <4>2. QED
        BY <1>3, <4>1 DEF Sessions
    <3>3. session' = r
      BY <1>1, <2>1 DEF RefusedBy
    <3> HIDE DEF r
    <3>4. QED
      BY <1>3, <3>2, <3>3, LessKeeps
  <2>2. CASE ~(s.retries < MaxRetries)
    BY <1>1, <1>3, <2>2, FreshKeeps, FreshFields DEF RefusedBy
  <2>3. QED
    BY <2>1, <2>2
<1>5. QED
  BY <1>1, <1>2, <1>4, PassKeeps

\* What is heard grows by a D record, or becomes a whole list.
LEMMA PageHeard ==
  ASSUME NEW n \in Nat, NEW h \in Seq(Answers), h = Pages(n)
  PROVE  Append(h, "D") = Pages(n + 1) /\ (n = Pieces => Append(h, "END") = Whole)
<1>1. "D" \in Answers /\ "END" \in Answers
  BY DEF Answers
<1>2. Len(h) = n /\ \A i \in 1 .. n : h[i] = "D"
  <2>1. DOMAIN h = 1 .. n /\ \A i \in 1 .. n : h[i] = "D"
    BY DEF Pages
  <2>2. QED
    BY <2>1, LenProperties
<1>3. \A a \in Answers : /\ Append(h, a) \in Seq(Answers) /\ Len(Append(h, a)) = n + 1
                         /\ \A i \in 1 .. n : Append(h, a)[i] = "D"
                         /\ Append(h, a)[n + 1] = a
  BY <1>2, AppendProperties
<1>4. \A a \in Answers : Append(h, a) = [i \in 1 .. n + 1 |-> Append(h, a)[i]]
  <2>1. SUFFICES ASSUME NEW a \in Answers PROVE Append(h, a) = [i \in 1 .. n + 1 |-> Append(h, a)[i]]
    OBVIOUS
  <2>2. Append(h, a) \in [1 .. n + 1 -> Answers]
    BY <1>3, LenProperties
  <2>3. QED
    BY <2>2
<1>5. \A i \in 1 .. n + 1 : Append(h, "D")[i] = "D"
  BY <1>1, <1>3
<1>6. Append(h, "D") = Pages(n + 1)
  <2>1. [i \in 1 .. n + 1 |-> Append(h, "D")[i]] = [i \in 1 .. n + 1 |-> "D"]
    BY <1>5
  <2>2. QED
    BY <1>1, <1>4, <2>1 DEF Pages
<1>7. ASSUME n = Pieces PROVE Append(h, "END") = Whole
  <2>1. \A i \in 1 .. Pieces + 1 : Append(h, "END")[i] = IF i <= Pieces THEN "D" ELSE "END"
    BY <1>1, <1>3, <1>7
  <2>2. [i \in 1 .. Pieces + 1 |-> Append(h, "END")[i]]
           = [i \in 1 .. Pieces + 1 |-> IF i <= Pieces THEN "D" ELSE "END"]
    BY <2>1
  <2>3. QED
    BY <1>1, <1>4, <1>7, <2>2 DEF Whole
<1>8. QED
  BY <1>6, <1>7

\* The next record of the list is framed: what was heard is as many D records as are
\* counted and taken.
LEMMA FrameKeeps ==
  ASSUME SyncInv, Frame
  PROVE  SyncInv'
<1> DEFINE s == Checked
           l == s.list
           m == IF l.next < Pieces THEN [l EXCEPT !.next = l.next + 1, !.ready = "D"]
                                   ELSE [l EXCEPT !.ready = "END"]
           r == [s EXCEPT !.list = m]
<1>1. /\ PassEnds /\ ~Pending(s) /\ s.list # None
      /\ UNCHANGED <<generation, queue, command, asked, sent, heard, stored, lost>>
  BY DEF Frame, companion, history
<1>2. session' = r
  BY DEF Frame, Framed
<1>3. /\ SessionInv(s, {}) /\ s.gen = generation /\ s \in Sessions /\ SessionTyped(s)
      /\ generation \in Nat
  BY <1>1, PumpStarts
<1> HIDE DEF s
<1>4. l \in Lists /\ l.ready = None /\ s.offer = None
  BY <1>1, <1>3, SessionFields DEF Pending, SessionTyped
<1>5. l.next \in 0 .. Pieces /\ l.id \in Ids
  BY <1>4 DEF Lists
<1>6. heard[l.id] = Pages(l.next) /\ ~Said(s, l.id) /\ asked[l.id].verb = "READ_LIST"
  BY <1>1, <1>3, <1>4, NoneAssumption DEF NoneAssumption, SessionInv, Listing
<1>7. /\ m \in Lists /\ m.id = l.id
      /\ m.ready = "END" => m.next = Pieces
      /\ m.ready = "D" => m.next > 0
      /\ l.next = IF m.ready = "D" THEN m.next - 1 ELSE m.next
  <2>1. CASE l.next < Pieces
    <3>1. l.next + 1 \in 0 .. Pieces
      BY <1>5, <2>1, Sizes
    <3>2. m = [l EXCEPT !.next = l.next + 1, !.ready = "D"]
      BY <2>1
    <3>3. m \in Lists /\ m.id = l.id /\ m.next = l.next + 1 /\ m.ready = "D"
      BY <1>4, <3>1, <3>2 DEF Lists
    <3>4. QED
      BY <1>5, <3>3
  <2>2. CASE ~(l.next < Pieces)
    <3>1. l.next = Pieces
      BY <1>5, <2>2, Sizes
    <3>2. m = [l EXCEPT !.ready = "END"]
      BY <2>2
    <3>3. m \in Lists /\ m.id = l.id /\ m.next = l.next /\ m.ready = "END"
      BY <1>4, <3>2 DEF Lists
    <3>4. QED
      BY <3>1, <3>3
  <2>3. QED
    BY <2>1, <2>2
<1> HIDE DEF m
<1>8. r \in Sessions /\ r.gen = s.gen /\ r.replies = s.replies /\ r.offer = s.offer /\ r.list = m
  <2>1. r \in Sessions
    BY <1>3, <1>7, SessionFieldSet
  <2>2. QED
    BY <1>3, <2>1 DEF Sessions
<1> HIDE DEF r
<1>9. /\ \A x : Said(r, x) <=> Said(s, x)
      /\ \A x : Runs(r, x) => Runs(s, x)
  BY <1>1, <1>4, <1>7, <1>8 DEF Said, Runs
<1>10. \A x : Over(s, {}, x) => Over(r, {}, x)
  BY <1>9 DEF Over
<1>11. SessionTyped(r) /\ Linked(r) /\ Opening(r, {}) /\ Assembling(r)
  BY <1>3, <1>4, <1>8, <1>9
     DEF SessionInv, SessionTyped, Linked, Opening, Untouched, Assembling
<1>12. Listing(r)
  BY <1>6, <1>7, <1>8, <1>9 DEF Listing
<1>13. OkSaid(r, {}) /\ OkHeard(r, {}) /\ EndHeard(r, {})
  BY <1>3, <1>8, <1>9, <1>10 DEF SessionInv, OkSaid, OkHeard, EndHeard
<1>14. SessionInv(session', {}) /\ session'.gen = generation
  BY <1>2, <1>3, <1>8, <1>11, <1>12, <1>13 DEF SessionInv
<1>15. lost' \subseteq Ids
  BY <1>1 DEF SyncInv, Typed
<1>16. QED
  BY <1>1, <1>14, <1>15, PassKeeps

\* A list that cannot be read on is ended by an error.
LEMMA FrameFailsKeeps ==
  ASSUME SyncInv, FrameFails
  PROVE  SyncInv'
<1> DEFINE s == Checked
           r == [s EXCEPT !.list = None]
<1>1. /\ PassEnds /\ s.list # None /\ session' = Replied(r, s.list.id, "ERR")
      /\ UNCHANGED <<generation, queue, command, asked, sent, heard, stored, lost>>
  BY DEF FrameFails, companion, history
<1>2. /\ SessionInv(s, {}) /\ s.gen = generation /\ s \in Sessions /\ SessionTyped(s)
      /\ generation \in Nat
  BY <1>1, PumpStarts
<1> HIDE DEF s
<1>3. r \in Sessions /\ r.gen = s.gen /\ r.replies = s.replies /\ r.offer = s.offer /\ r.list = None
  <2>1. r \in Sessions
    BY <1>2, SessionFieldSet
  <2>2. QED
    BY <1>2, <2>1 DEF Sessions
<1> HIDE DEF r
<1>4. s.offer = None /\ s.list.id \in Ids
  BY <1>1, <1>2, SessionFields DEF SessionTyped
<1>5. Runs(s, s.list.id) /\ ~Runs(r, s.list.id)
  BY <1>1, <1>3, <1>4 DEF Runs
<1>6. SessionInv(r, {}) /\ Free(r, {}, s.list.id)
  BY <1>2, <1>3, <1>4, <1>5, LessKeeps, RunningFree
<1>7. SessionInv(session', {}) /\ session'.gen = generation
  BY <1>1, <1>2, <1>3, <1>4, <1>6, ErrorKeeps, RepliedFields DEF SessionInv
<1>8. lost' \subseteq Ids
  BY <1>1 DEF SyncInv, Typed
<1>9. QED
  BY <1>1, <1>7, <1>8, PassKeeps

\* A companion hears an answer of the exchange id.
Hears(id, answer) ==
  /\ id \in Ids /\ answer \in Answers
  /\ heard \in [Ids -> Seq(Answers)]
  /\ heard' = [heard EXCEPT ![id] = Append(@, answer)]
  /\ Hand' = {}
  /\ UNCHANGED <<generation, queue, asked, sent, stored>>

LEMMA HearsFields ==
  ASSUME NEW id, NEW answer, Hears(id, answer)
  PROVE  /\ id \in Ids /\ heard' \in [Ids -> Seq(Answers)] /\ heard[id] \in Seq(Answers)
         /\ heard'[id] = Append(heard[id], answer) /\ heard'[id] # <<>>
         /\ \A x \in Ids \ {id} : heard'[x] = heard[x]
         /\ \A b : b \in ToSet(heard'[id]) <=> b \in ToSet(heard[id]) \/ b = answer
         /\ heard[id] = <<>> => heard'[id] = <<answer>>
<1>1. id \in Ids /\ answer \in Answers /\ heard[id] \in Seq(Answers)
  BY DEF Hears
<1>2. Append(heard[id], answer) \in Seq(Answers)
  BY <1>1, AnswerHeard
<1>3. /\ heard' \in [Ids -> Seq(Answers)] /\ heard'[id] = Append(heard[id], answer)
      /\ \A x \in Ids \ {id} : heard'[x] = heard[x]
  BY <1>1, <1>2 DEF Hears
<1>4. QED
  BY <1>1, <1>3, AnswerHeard

\* The exchange heard of was running or had a reply waiting, so it is none that is
\* still to be opened, none that is over and not the offer being assembled.
LEMMA HearsKeeps ==
  ASSUME NEW id, NEW answer, Hears(id, answer),
         NEW s \in Sessions, SessionInv(s, {}), Said(s, id) \/ Runs(s, id),
         s.offer # None => s.offer.id # id,
         NEW r \in Sessions, session' = r, r.gen = s.gen, r.offer = s.offer,
         \A x : Said(r, x) => Said(s, x), \A x : Runs(r, x) => Runs(s, x)
  PROVE  /\ Linked(session)' /\ Opening(session, Hand)' /\ Assembling(session)'
         /\ \A x : Over(s, {}, x) => Over(session, Hand, x)'
         /\ \A x \in Ids \ {id} : "OK" \in ToSet(heard'[x]) =>
              /\ heard'[x] = <<"OK">> /\ x \in stored' /\ ~Said(session, x)'
              /\ Over(session, Hand, x)' /\ AllSent(x)'
         /\ \A x \in Ids \ {id} : "END" \in ToSet(heard'[x]) =>
              /\ heard'[x] = Whole /\ ~Said(session, x)' /\ Over(session, Hand, x)'
              /\ asked'[x].verb = "READ_LIST"
<1>1. /\ id \in Ids /\ \A x \in Ids \ {id} : heard'[x] = heard[x]
      /\ UNCHANGED <<generation, queue, asked, sent, stored>> /\ Hand' = {}
  BY HearsFields DEF Hears
<1>2. /\ \A x : Said(session, x)' => Said(s, x)
      /\ \A x : Runs(session, x)' => Runs(s, x)
  BY DEF Said, Runs
<1>3. \A x : Over(s, {}, x) => Over(session, Hand, x)'
  BY <1>1, <1>2 DEF Over, Queued
<1>4. \A x : AllSent(x) <=> AllSent(x)'
  BY <1>1 DEF AllSent
<1>5. Linked(session)'
  BY <1>1, <1>2 DEF SessionInv, Linked, Connected
<1>6. Opening(session, Hand)'
  <2>1. SUFFICES ASSUME NEW i \in DOMAIN queue, queue[i].verb # "W"
                 PROVE  Untouched(session, queue[i].id)'
    BY <1>1 DEF Opening
  <2>2. Untouched(s, queue[i].id)
    BY <2>1 DEF SessionInv, Opening
  <2>3. queue[i].id # id
    BY <2>2 DEF Untouched
  <2>4. heard'[queue[i].id] = heard[queue[i].id]
    BY <1>1, <2>3 DEF Hears
  <2>5. QED
    BY <1>1, <1>2, <2>2, <2>4 DEF Untouched
<1>7. Assembling(session)'
  <2>1. s.offer # None => s.offer.id \in Ids
    BY SessionFields
  <2>2. QED
    BY <1>1, <1>2, <2>1 DEF SessionInv, Assembling
<1>8. \A x \in Ids \ {id} : "OK" \in ToSet(heard'[x]) =>
        /\ heard'[x] = <<"OK">> /\ x \in stored' /\ ~Said(session, x)'
        /\ Over(session, Hand, x)' /\ AllSent(x)'
  BY <1>1, <1>2, <1>3, <1>4 DEF SessionInv, OkHeard
<1>9. \A x \in Ids \ {id} : "END" \in ToSet(heard'[x]) =>
        /\ heard'[x] = Whole /\ ~Said(session, x)' /\ Over(session, Hand, x)'
        /\ asked'[x].verb = "READ_LIST"
  BY <1>1, <1>2, <1>3 DEF SessionInv, EndHeard
<1>10. QED
  BY <1>3, <1>5, <1>6, <1>7, <1>8, <1>9

\* The first reply goes out.  An OK is the only answer its exchange ever has.
LEMMA ReplySent ==
  ASSUME NEW s \in Sessions, SessionInv(s, {}), s.replies # <<>>,
         Hears(Head(s.replies).id, Head(s.replies).answer), session' = SentBy(s)
  PROVE  SessionInv(session, Hand)' /\ session'.gen = s.gen
<1> DEFINE id == Head(s.replies).id
           answer == Head(s.replies).answer
           rest == Tail(s.replies)
           t == [s EXCEPT !.replies = rest]
           r == [t EXCEPT !.retries = 0]
<1>1. SessionTyped(s) /\ s.replies \in Seq(Records)
  BY SessionFields DEF SessionInv
<1>2. /\ rest \in Seq(Records) /\ Len(rest) = Len(s.replies) - 1 /\ Len(s.replies) \in Nat
      /\ DOMAIN rest = 1 .. (Len(s.replies) - 1) /\ DOMAIN s.replies = 1 .. Len(s.replies)
      /\ \A i \in DOMAIN rest : rest[i] = s.replies[i + 1] /\ i + 1 \in DOMAIN s.replies
      /\ 1 \in DOMAIN s.replies /\ Head(s.replies) = s.replies[1]
  <2>1. /\ rest \in Seq(Records) /\ Len(rest) = Len(s.replies) - 1
        /\ \A i \in 1 .. Len(rest) : rest[i] = s.replies[i + 1]
    BY <1>1, HeadTailProperties
  <2>2. DOMAIN rest = 1 .. Len(rest) /\ DOMAIN s.replies = 1 .. Len(s.replies) /\ Len(s.replies) \in Nat
        /\ Len(rest) \in Nat
    BY <1>1, <2>1, LenProperties
  <2>3. Head(s.replies) = s.replies[1]
    OBVIOUS
  <2>4. QED
    BY <2>1, <2>2, <2>3
<1> HIDE DEF rest
<1>3. /\ r \in Sessions /\ r.replies = rest /\ r.gen = s.gen /\ r.list = s.list /\ r.offer = s.offer
  <2>1. t \in Sessions /\ t.replies = rest /\ t.gen = s.gen /\ t.list = s.list /\ t.offer = s.offer
    <3>1. t \in Sessions
      BY <1>2, SessionFieldSet
    <3>2. QED
      BY <1>2, <3>1 DEF Sessions
  <2> HIDE DEF t
  <2>2. r \in Sessions
    BY <2>1, Sizes, SessionFieldSet
  <2>3. QED
    BY <2>1, <2>2 DEF Sessions
<1>4. session' = r
  BY DEF SentBy, rest
<1> HIDE DEF r
<1>5. /\ \A x : Said(r, x) => Said(s, x)
      /\ \A x : Runs(r, x) => Runs(s, x)
      /\ Said(s, id)
  BY <1>2, <1>3 DEF Said, Runs
<1>6. /\ s.offer # None => s.offer.id # id
      /\ s.list # None => s.list.id # id
      /\ "OK" \notin ToSet(heard[id]) /\ "END" \notin ToSet(heard[id])
      /\ id \in Ids /\ answer \in {"OK", "ERR"}
  <2>1. id \in Ids /\ answer \in {"OK", "ERR"}
    BY <1>1, <1>2, SessionFields DEF SessionTyped
  <2>2. QED
    BY <1>5, <2>1 DEF SessionInv, Assembling, Listing, OkHeard, EndHeard
<1>7. /\ Linked(session)' /\ Opening(session, Hand)' /\ Assembling(session)'
      /\ \A x : Over(s, {}, x) => Over(session, Hand, x)'
      /\ \A x \in Ids \ {id} : "OK" \in ToSet(heard'[x]) =>
           /\ heard'[x] = <<"OK">> /\ x \in stored' /\ ~Said(session, x)'
           /\ Over(session, Hand, x)' /\ AllSent(x)'
      /\ \A x \in Ids \ {id} : "END" \in ToSet(heard'[x]) =>
           /\ heard'[x] = Whole /\ ~Said(session, x)' /\ Over(session, Hand, x)'
           /\ asked'[x].verb = "READ_LIST"
  BY <1>3, <1>4, <1>5, <1>6, HearsKeeps
<1>8. /\ \A x \in Ids \ {id} : heard'[x] = heard[x]
      /\ UNCHANGED <<generation, queue, asked, sent, stored>>
      /\ \A b : b \in ToSet(heard'[id]) <=> b \in ToSet(heard[id]) \/ b = answer
      /\ heard[id] = <<>> => heard'[id] = <<answer>>
  BY HearsFields DEF Hears
<1>9. \A x : AllSent(x) <=> AllSent(x)'
  BY <1>8 DEF AllSent
<1> HIDE DEF id, answer
<1>10. id = s.replies[1].id /\ answer = s.replies[1].answer
  BY <1>2 DEF id, answer
<1>11. SessionTyped(session)'
  <2>1. \A i \in DOMAIN rest : rest[i].answer \in {"OK", "ERR"}
    BY <1>1, <1>2 DEF SessionTyped
  <2>2. Len(rest) <= Slots
    BY <1>1, <1>2, Sizes DEF SessionTyped
  <2>3. SessionTyped(r)
    BY <1>1, <1>3, <2>1, <2>2 DEF SessionTyped
  <2>4. QED
    BY <1>4, <2>3 DEF SessionTyped
<1>12. Listing(session)'
  <2>1. s.list # None => s.list.id \in Ids /\ heard'[s.list.id] = heard[s.list.id]
    BY <1>6, <1>8, SessionFields
  <2>2. \A x : Said(session, x)' => Said(s, x)
    BY <1>4, <1>5 DEF Said
  <2>3. session'.list = s.list /\ asked' = asked
    BY <1>3, <1>4, <1>8
  <2>4. QED
    BY <2>1, <2>2, <2>3 DEF SessionInv, Listing
<1>13. OkSaid(session, Hand)'
  <2>1. SUFFICES ASSUME NEW i \in DOMAIN rest, rest[i].answer = "OK"
                 PROVE  /\ heard'[rest[i].id] = <<>> /\ rest[i].id \in stored
                        /\ Over(session, Hand, rest[i].id)' /\ AllSent(rest[i].id)
                        /\ \A j \in DOMAIN rest : rest[j].id = rest[i].id => j = i
    BY <1>3, <1>4, <1>8, <1>9 DEF OkSaid
  <2>2. /\ i \in Nat /\ rest[i] = s.replies[i + 1] /\ i + 1 \in DOMAIN s.replies /\ i + 1 # 1
    BY <1>2
  <2>3. /\ heard[rest[i].id] = <<>> /\ rest[i].id \in stored
        /\ Over(s, {}, rest[i].id) /\ AllSent(rest[i].id)
        /\ \A j \in DOMAIN s.replies : s.replies[j].id = rest[i].id => j = i + 1
    BY <2>1, <2>2 DEF SessionInv, OkSaid
  <2>4. rest[i].id # id /\ rest[i].id \in Ids
    BY <1>2, <1>10, <2>2, <2>3, SessionFields
  <2>5. \A j \in DOMAIN rest : rest[j].id = rest[i].id => j = i
    <3>1. SUFFICES ASSUME NEW j \in DOMAIN rest, rest[j].id = rest[i].id PROVE j = i
      OBVIOUS
    <3>2. j \in Nat /\ s.replies[j + 1].id = rest[i].id /\ j + 1 \in DOMAIN s.replies
      BY <1>2, <3>1
    <3>3. j + 1 = i + 1
      BY <2>3, <3>2
    <3>4. QED
      BY <2>2, <3>2, <3>3
  <2>6. QED
    BY <1>7, <1>8, <2>3, <2>4, <2>5
<1>14. OkHeard(session, Hand)'
  <2>1. ASSUME "OK" \in ToSet(heard'[id])
        PROVE  /\ heard'[id] = <<"OK">> /\ id \in stored' /\ ~Said(session, id)'
               /\ Over(session, Hand, id)' /\ AllSent(id)'
    <3>1. answer = "OK"
      BY <1>6, <1>8, <2>1
    <3>2. /\ heard[id] = <<>> /\ id \in stored /\ Over(s, {}, id) /\ AllSent(id)
          /\ \A j \in DOMAIN s.replies : s.replies[j].id = id => j = 1
      BY <1>2, <1>10, <3>1 DEF SessionInv, OkSaid
    <3>3. \A j \in DOMAIN rest : rest[j].id # id
      BY <1>2, <3>2
    <3>4. ~Said(session, id)'
      BY <1>3, <1>4, <3>3 DEF Said
    <3>5. QED
      BY <1>7, <1>8, <1>9, <3>1, <3>2, <3>4
  <2>2. QED
    BY <1>7, <2>1 DEF OkHeard
<1>15. EndHeard(session, Hand)'
  BY <1>6, <1>7, <1>8 DEF EndHeard
<1>16. QED
  BY <1>3, <1>4, <1>7, <1>11, <1>12, <1>13, <1>14, <1>15 DEF SessionInv

\* END goes out: the list is heard whole, and nothing of it is left.
LEMMA EndSent ==
  ASSUME SyncInv,
         NEW s \in Sessions, SessionInv(s, {}), s.replies = <<>>, s.list # None, s.list.ready = "END",
         Hears(s.list.id, "END"), session' = SentBy(s)
  PROVE  SessionInv(session, Hand)' /\ session'.gen = s.gen
<1> DEFINE id == s.list.id
           t == [s EXCEPT !.list = None]
           r == [t EXCEPT !.retries = 0]
<1>1. SessionTyped(s) /\ s.offer = None /\ s.list \in Lists /\ id \in Ids
  BY SessionFields DEF SessionInv, SessionTyped
<1>2. s.list.next = Pieces /\ heard[id] = Pages(Pieces) /\ asked[id].verb = "READ_LIST"
  BY DEF SessionInv, Listing
<1>3. r \in Sessions /\ r.replies = <<>> /\ r.gen = s.gen /\ r.list = None /\ r.offer = None
  <2>1. t \in Sessions /\ t.replies = <<>> /\ t.gen = s.gen /\ t.list = None /\ t.offer = None
    <3>1. t \in Sessions
      BY SessionFieldSet
    <3>2. QED
      BY <1>1 DEF Sessions
  <2> HIDE DEF t
  <2>2. r \in Sessions
    BY <2>1, Sizes, SessionFieldSet
  <2>3. QED
    BY <2>1, <2>2 DEF Sessions
<1>4. session' = r
  BY DEF SentBy
<1> HIDE DEF r
<1>5. /\ \A x : ~Said(r, x) /\ ~Runs(r, x)
      /\ Runs(s, id)
  BY <1>3, EmptySeq DEF Said, Runs
<1>6. /\ Linked(session)' /\ Opening(session, Hand)' /\ Assembling(session)'
      /\ \A x : Over(s, {}, x) => Over(session, Hand, x)'
      /\ \A x \in Ids \ {id} : "OK" \in ToSet(heard'[x]) =>
           /\ heard'[x] = <<"OK">> /\ x \in stored' /\ ~Said(session, x)'
           /\ Over(session, Hand, x)' /\ AllSent(x)'
      /\ \A x \in Ids \ {id} : "END" \in ToSet(heard'[x]) =>
           /\ heard'[x] = Whole /\ ~Said(session, x)' /\ Over(session, Hand, x)'
           /\ asked'[x].verb = "READ_LIST"
  BY <1>1, <1>3, <1>4, <1>5, HearsKeeps
<1>7. /\ UNCHANGED <<generation, queue, asked, sent, stored>> /\ Hand' = {}
      /\ \A b : b \in ToSet(heard'[id]) <=> b \in ToSet(heard[id]) \/ b = "END"
      /\ heard[id] \in Seq(Answers) /\ heard'[id] = Append(heard[id], "END")
  <2>1. Hears(id, "END")
    OBVIOUS
  <2> HIDE DEF id
  <2>2. UNCHANGED <<generation, queue, asked, sent, stored>> /\ Hand' = {}
    BY <2>1 DEF Hears
  <2>3. QED
    BY <2>1, <2>2, HearsFields
<1>8. heard'[id] = Whole
  BY <1>2, <1>7, PageHeard, Sizes
<1>9. "OK" \notin ToSet(heard'[id])
  BY <1>1, <1>5, <1>7 DEF SessionInv, OkHeard, Over
<1>10. ~Queued(id)
  <2>1. ASSUME NEW i \in DOMAIN queue, queue[i].id = id PROVE FALSE
    <3>1. queue[i].verb = "W"
      BY <1>5, <2>1 DEF SessionInv, Opening, Untouched
    <3>2. QED
      BY <1>2, <2>1, <3>1 DEF SyncInv, QueueInv, Sound
  <2>2. QED
    BY <2>1 DEF Queued
<1>11. ~Said(session, id)' /\ Over(session, Hand, id)'
  BY <1>4, <1>5, <1>7, <1>10 DEF Over, Queued, Said, Runs
<1>12. SessionTyped(session)' /\ Listing(session)' /\ OkSaid(session, Hand)'
  BY <1>1, <1>3, <1>4, EmptySeq, Sizes DEF SessionTyped, Listing, OkSaid
<1>13. OkHeard(session, Hand)'
  BY <1>6, <1>9 DEF OkHeard
<1>14. EndHeard(session, Hand)'
  BY <1>2, <1>6, <1>7, <1>8, <1>11 DEF EndHeard
<1>15. QED
  BY <1>3, <1>4, <1>6, <1>12, <1>13, <1>14 DEF SessionInv

\* A D record goes out, one more of those that were heard.
LEMMA PageSent ==
  ASSUME SyncInv,
         NEW s \in Sessions, SessionInv(s, {}), s.replies = <<>>, s.list # None, s.list.ready = "D",
         Hears(s.list.id, "D"), session' = SentBy(s)
  PROVE  SessionInv(session, Hand)' /\ session'.gen = s.gen
<1> DEFINE id == s.list.id
           m == [s.list EXCEPT !.ready = None]
           t == [s EXCEPT !.list = m]
           r == [t EXCEPT !.retries = 0]
<1>1. SessionTyped(s) /\ s.offer = None /\ s.list \in Lists /\ id \in Ids
  BY SessionFields DEF SessionInv, SessionTyped
<1>2. /\ s.list.next > 0 /\ s.list.next \in 0 .. Pieces
      /\ heard[id] = Pages(s.list.next - 1) /\ asked[id].verb = "READ_LIST"
  BY <1>1 DEF SessionInv, Listing, Lists
<1>3. m \in Lists /\ m.id = id /\ m.next = s.list.next /\ m.ready = None
  BY <1>1 DEF Lists
<1> HIDE DEF m
<1>4. r \in Sessions /\ r.replies = <<>> /\ r.gen = s.gen /\ r.list = m /\ r.offer = None
  <2>1. t \in Sessions /\ t.replies = <<>> /\ t.gen = s.gen /\ t.list = m /\ t.offer = None
    <3>1. t \in Sessions
      BY <1>3, SessionFieldSet
    <3>2. QED
      BY <1>1, <3>1 DEF Sessions
  <2> HIDE DEF t
  <2>2. r \in Sessions
    BY <2>1, Sizes, SessionFieldSet
  <2>3. QED
    BY <2>1, <2>2 DEF Sessions
<1>5. session' = r
  <2>1. s.list.ready # "END"
    OBVIOUS
  <2>2. QED
    BY <2>1 DEF SentBy, m
<1> HIDE DEF r
<1>6. /\ \A x : ~Said(r, x)
      /\ \A x : Runs(r, x) => Runs(s, x)
      /\ Runs(s, id)
  BY <1>3, <1>4, EmptySeq DEF Said, Runs
<1>7. /\ Linked(session)' /\ Opening(session, Hand)' /\ Assembling(session)'
      /\ \A x : Over(s, {}, x) => Over(session, Hand, x)'
      /\ \A x \in Ids \ {id} : "OK" \in ToSet(heard'[x]) =>
           /\ heard'[x] = <<"OK">> /\ x \in stored' /\ ~Said(session, x)'
           /\ Over(session, Hand, x)' /\ AllSent(x)'
      /\ \A x \in Ids \ {id} : "END" \in ToSet(heard'[x]) =>
           /\ heard'[x] = Whole /\ ~Said(session, x)' /\ Over(session, Hand, x)'
           /\ asked'[x].verb = "READ_LIST"
  BY <1>1, <1>4, <1>5, <1>6, HearsKeeps
<1>8. /\ UNCHANGED <<generation, queue, asked, sent, stored>> /\ Hand' = {}
      /\ \A b : b \in ToSet(heard'[id]) <=> b \in ToSet(heard[id]) \/ b = "D"
      /\ heard[id] \in Seq(Answers) /\ heard'[id] = Append(heard[id], "D")
  <2>1. Hears(id, "D")
    OBVIOUS
  <2> HIDE DEF id
  <2>2. UNCHANGED <<generation, queue, asked, sent, stored>> /\ Hand' = {}
    BY <2>1 DEF Hears
  <2>3. QED
    BY <2>1, <2>2, HearsFields
<1>9. heard'[id] = Pages(s.list.next)
  <2>1. s.list.next - 1 \in Nat /\ (s.list.next - 1) + 1 = s.list.next
    BY <1>2, Sizes
  <2>2. QED
    BY <1>2, <1>8, <2>1, PageHeard
<1>10. "OK" \notin ToSet(heard'[id]) /\ "END" \notin ToSet(heard'[id])
  BY <1>1, <1>6, <1>8 DEF SessionInv, OkHeard, EndHeard, Over
<1>11. SessionTyped(session)'
  BY <1>1, <1>4, <1>5, EmptySeq, Sizes DEF SessionTyped
<1>12. Listing(session)'
  BY <1>2, <1>3, <1>4, <1>5, <1>6, <1>8, <1>9, NoneAssumption DEF NoneAssumption, Listing, Said
<1>13. OkSaid(session, Hand)'
  BY <1>4, <1>5, EmptySeq DEF OkSaid
<1>14. OkHeard(session, Hand)' /\ EndHeard(session, Hand)'
  BY <1>7, <1>10 DEF OkHeard, EndHeard
<1>15. QED
  BY <1>4, <1>5, <1>7, <1>11, <1>12, <1>13, <1>14 DEF SessionInv

\* A record is accepted by the stack, and the companion hears it.
LEMMA SendKeeps ==
  ASSUME SyncInv, Send
  PROVE  SyncInv'
<1> DEFINE s == Checked
           rec == NextRecord(s)
<1>1. /\ PassEnds /\ Pending(s) /\ Connected /\ session' = SentBy(s)
      /\ heard' = [heard EXCEPT ![rec.id] = Append(@, rec.answer)]
      /\ UNCHANGED <<generation, queue, command, asked, sent, stored, lost>>
  BY DEF Send, history
<1>2. /\ SessionInv(s, {}) /\ s.gen = generation /\ s \in Sessions /\ SessionTyped(s)
      /\ generation \in Nat
  BY <1>1, PumpStarts
<1>3. step = "pump" /\ step' = "take" /\ overflow' = FALSE /\ Hand = {} /\ Hand' = {}
  BY <1>1 DEF PassEnds, Hand
<1> HIDE DEF s, rec
<1>4. heard \in [Ids -> Seq(Answers)]
  BY DEF SyncInv, Typed
<1>5. /\ SessionInv(session, Hand)' /\ session'.gen = s.gen
      /\ Hears(rec.id, rec.answer) /\ (Said(s, rec.id) \/ Runs(s, rec.id))
  <2>1. CASE s.replies # <<>>
    <3>1. rec = Head(s.replies)
      BY <2>1 DEF rec, NextRecord
    <3>2. 1 \in DOMAIN s.replies /\ Head(s.replies) = s.replies[1] /\ s.replies[1] \in Records
      <4>1. s.replies \in Seq(Records) /\ DOMAIN s.replies = 1 .. Len(s.replies) /\ Len(s.replies) \in Nat
        BY <1>2, SessionFields
      <4>2. Len(s.replies) # 0
        BY <2>1, <4>1, EmptySeq
      <4>3. QED
        BY <4>1, <4>2, ElementOfSeq
    <3>3. rec.id \in Ids /\ rec.answer \in Answers /\ Said(s, rec.id)
      BY <3>1, <3>2 DEF Records, Said
    <3>4. Hears(rec.id, rec.answer)
      BY <1>1, <1>3, <1>4, <3>3 DEF Hears
    <3>5. QED
      BY <1>1, <1>2, <2>1, <3>1, <3>3, <3>4, ReplySent
  <2>2. CASE s.replies = <<>>
    <3>1. s.list # None /\ s.list.ready # None
      BY <1>1, <2>2 DEF Pending
    <3>2. rec.id = s.list.id /\ rec.answer = s.list.ready
      BY <2>2 DEF rec, NextRecord
    <3>3. s.list \in Lists
      BY <1>2, <3>1, SessionFields
    <3>4. s.list.id \in Ids /\ s.list.ready \in {"D", "END"}
      BY <3>1, <3>3 DEF Lists
    <3>5. Hears(rec.id, rec.answer) /\ Runs(s, rec.id)
      BY <1>1, <1>3, <1>4, <3>1, <3>2, <3>4 DEF Hears, Answers, Runs
    <3>6. CASE s.list.ready = "END"
      BY <1>1, <1>2, <2>2, <3>1, <3>2, <3>5, <3>6, EndSent
    <3>7. CASE s.list.ready = "D"
      BY <1>1, <1>2, <2>2, <3>1, <3>2, <3>5, <3>7, PageSent
    <3>8. QED
      BY <3>4, <3>6, <3>7
  <2>3. QED
    BY <2>1, <2>2
<1>6. /\ rec.id \in Ids /\ heard' \in [Ids -> Seq(Answers)]
      /\ \A x \in Ids \ {rec.id} : heard'[x] = heard[x]
  BY <1>5, HearsFields
<1>7. Typed'
  <2>1. session'.gen <= generation'
    <3>1. session'.gen = generation' /\ generation' \in Nat
      BY <1>1, <1>2, <1>5
    <3>2. QED
      BY <3>1
  <2>2. QED
    BY <1>1, <1>3, <1>6, <2>1 DEF SyncInv, Typed
<1>8. QueueInv' /\ CommandInv'
  BY <1>1, <1>3 DEF SyncInv, QueueInv, Sound, CommandInv
<1>9. HeardInv'
  <2>1. rec.id <= Len(asked)
    BY <1>2, <1>5, <1>6 DEF SessionInv, Linked
  <2>2. QED
    BY <1>1, <1>6, <2>1 DEF SyncInv, HeardInv
<1>10. QED
  BY <1>5, <1>7, <1>8, <1>9 DEF SyncInv

\* takeCommand(): the first record of this link is in hand, what was before it is gone.
LEMMA TakeCommandKeeps ==
  ASSUME SyncInv, TakeCommand
  PROVE  SyncInv'
<1> DEFINE mine == {i \in DOMAIN queue : queue[i].gen = generation}
<1>1. /\ step = "take"
      /\ UNCHANGED <<generation, overflow, session, asked, sent, heard, stored, lost>>
      /\ \/ mine = {} /\ queue' = <<>> /\ step' = "pump" /\ UNCHANGED command
         \/ \E first \in mine : /\ command' = queue[first]
                                /\ queue' = SubSeq(queue, first + 1, Len(queue))
                                /\ step' = "handle"
  BY DEF TakeCommand, companion, history
<1>2. queue \in Seq(Commands) /\ DOMAIN queue = 1 .. Len(queue) /\ Len(queue) \in Nat
  BY LenProperties DEF SyncInv, Typed
<1>3. Hand = {} /\ SessionInv(session, {})
  BY <1>1 DEF Hand, SyncInv
<1>4. CASE queue' = <<>> /\ step' = "pump" /\ UNCHANGED command
  <2>1. Hand' = {} /\ DOMAIN queue' = {} /\ Len(queue') = 0 /\ queue' \in Seq(Commands)
    BY <1>4, EmptySeq DEF Hand
  <2>2. \A x : Over(session, {}, x) => Over(session, Hand, x)'
    BY <1>1, <2>1 DEF Over, Queued, Runs
  <2>3. \A x : AllSent(x) <=> AllSent(x)'
    BY <1>1 DEF AllSent
  <2>4. \A x : /\ Said(session, x)' <=> Said(session, x)
               /\ Runs(session, x)' <=> Runs(session, x)
    BY <1>1 DEF Said, Runs
  <2>5. OkSaid(session, Hand)' /\ OkHeard(session, Hand)' /\ EndHeard(session, Hand)'
    BY <1>1, <1>3, <2>2, <2>3, <2>4 DEF SessionInv, OkSaid, OkHeard, EndHeard
  <2>6. SessionTyped(session)' /\ Linked(session)' /\ Assembling(session)' /\ Listing(session)'
    BY <1>1, <1>3, <2>4 DEF SessionInv, SessionTyped, Linked, Assembling, Listing, Connected
  <2>7. Opening(session, Hand)'
    BY <2>1 DEF Opening
  <2>8. SessionInv(session, Hand)'
    BY <2>5, <2>6, <2>7 DEF SessionInv
  <2>9. Typed'
    BY <1>1, <1>4, <2>1, Sizes DEF SyncInv, Typed
  <2>10. QueueInv' /\ CommandInv' /\ HeardInv'
    BY <1>1, <1>4, <2>1 DEF SyncInv, QueueInv, CommandInv, HeardInv
  <2>11. QED
    BY <2>8, <2>9, <2>10 DEF SyncInv
<1>5. CASE \E first \in mine : /\ command' = queue[first]
                               /\ queue' = SubSeq(queue, first + 1, Len(queue))
                               /\ step' = "handle"
  <2>1. PICK first \in mine : /\ command' = queue[first]
                              /\ queue' = SubSeq(queue, first + 1, Len(queue))
                              /\ step' = "handle"
    BY <1>5
  <2>2. first \in 1 .. Len(queue) /\ queue[first] \in Commands /\ queue[first].gen = generation
    BY <1>2, <2>1, ElementOfSeq
  <2>3. /\ queue' \in Seq(Commands) /\ Len(queue') = Len(queue) - first
        /\ DOMAIN queue' = 1 .. (Len(queue) - first)
        /\ \A i \in DOMAIN queue' : queue'[i] = queue[first + i] /\ first + i \in DOMAIN queue
    <3>1. SubSeq(queue, first + 1, Len(queue)) \in Seq(Commands)
      <4>1. \A i \in (first + 1) .. Len(queue) : queue[i] \in Commands
        BY <1>2, <2>2, ElementOfSeq
      <4>2. QED
        BY <1>2, <2>2, <4>1, SubSeqProperties
    <3>2. /\ Len(queue') = Len(queue) - first
          /\ \A i \in 1 .. (Len(queue) - first) : queue'[i] = queue[first + i]
      BY <1>2, <2>1, <2>2, SubSeqProperties
    <3>3. DOMAIN queue' = 1 .. Len(queue')
      BY <2>1, <3>1, LenProperties
    <3>4. QED
      BY <1>2, <2>1, <2>2, <3>1, <3>2, <3>3
  <2>4. Hand' = {queue[first]} /\ first \in DOMAIN queue
    BY <1>2, <2>1, <2>2 DEF Hand
  <2>5. \A x : Over(session, {}, x) => Over(session, Hand, x)'
    BY <1>1, <2>3, <2>4 DEF Over, Queued, Runs
  <2>6. \A x : AllSent(x) <=> AllSent(x)'
    BY <1>1 DEF AllSent
  <2>7. \A x : /\ Said(session, x)' <=> Said(session, x)
               /\ Runs(session, x)' <=> Runs(session, x)
    BY <1>1 DEF Said, Runs
  <2>8. OkSaid(session, Hand)' /\ OkHeard(session, Hand)' /\ EndHeard(session, Hand)'
    BY <1>1, <1>3, <2>5, <2>6, <2>7 DEF SessionInv, OkSaid, OkHeard, EndHeard
  <2>9. SessionTyped(session)' /\ Linked(session)' /\ Assembling(session)' /\ Listing(session)'
    BY <1>1, <1>3, <2>7 DEF SessionInv, SessionTyped, Linked, Assembling, Listing, Connected
  <2>10. Opening(session, Hand)'
    BY <1>1, <1>3, <2>3, <2>4, <2>7 DEF SessionInv, Opening, Untouched
  <2>11. SessionInv(session, Hand)'
    BY <2>8, <2>9, <2>10 DEF SessionInv
  <2>12. Typed'
    <3>1. Len(queue') <= Depth
      BY <1>2, <2>2, <2>3, Sizes DEF SyncInv, Typed
    <3>2. QED
      BY <1>1, <2>1, <2>2, <2>3, <3>1 DEF SyncInv, Typed
  <2>13. QueueInv'
    <3>1. /\ \A i \in DOMAIN queue : Sound(queue[i])
          /\ \A i, j \in DOMAIN queue :
               i < j /\ queue[i].id = queue[j].id => Place(queue[i]) < Place(queue[j])
      BY DEF SyncInv, QueueInv
    <3>2. \A c : Sound(c) => Sound(c)'
      BY <1>1 DEF Sound
    <3>3. \A i \in DOMAIN queue' : Sound(queue[i])'
      <4>1. SUFFICES ASSUME NEW i \in DOMAIN queue' PROVE Sound(queue[i])'
        OBVIOUS
      <4>2. Sound(queue'[i])
        BY <2>3, <3>1
      <4>3. QED
        BY <1>1, <4>2 DEF Sound
    <3>4. \A i, j \in DOMAIN queue' :
            i < j /\ queue'[i].id = queue'[j].id => Place(queue'[i]) < Place(queue'[j])
      <4>1. SUFFICES ASSUME NEW i \in DOMAIN queue', NEW j \in DOMAIN queue',
                            i < j, queue'[i].id = queue'[j].id
                     PROVE  Place(queue'[i]) < Place(queue'[j])
        OBVIOUS
      <4>2. first + i \in DOMAIN queue /\ first + j \in DOMAIN queue /\ first + i < first + j
        BY <1>2, <2>2, <2>3, <4>1
      <4>3. QED
        BY <2>3, <3>1, <4>1, <4>2
    <3>5. \A i \in DOMAIN queue' :
            queue'[i].id = queue[first].id => Place(queue[first]) < Place(queue'[i])
      <4>1. SUFFICES ASSUME NEW i \in DOMAIN queue', queue'[i].id = queue[first].id
                     PROVE  Place(queue[first]) < Place(queue'[i])
        OBVIOUS
      <4>2. first + i \in DOMAIN queue /\ first < first + i /\ first \in DOMAIN queue
        BY <1>2, <2>2, <2>3
      <4>3. QED
        BY <2>3, <3>1, <4>1, <4>2
    <3>6. Sound(queue[first])
      BY <2>4, <3>1
    <3>7. \A c \in Hand' : /\ Sound(c)'
                           /\ \A i \in DOMAIN queue' : queue'[i].id = c.id => Place(c) < Place(queue'[i])
      <4>1. SUFFICES ASSUME NEW c \in Hand'
                     PROVE  /\ Sound(c)'
                            /\ \A i \in DOMAIN queue' : queue'[i].id = c.id => Place(c) < Place(queue'[i])
        OBVIOUS
      <4>2. c = queue[first]
        BY <2>4
      <4>3. Sound(c)
        BY <3>6, <4>2
      <4>4. QED
        BY <1>1, <3>5, <4>2, <4>3 DEF Sound
    <3>8. QED
      BY <3>3, <3>4, <3>7 DEF QueueInv, Place
  <2>14. CommandInv' /\ HeardInv'
    BY <1>1, <2>1, <2>2 DEF SyncInv, CommandInv, HeardInv
  <2>15. QED
    BY <2>11, <2>12, <2>13, <2>14 DEF SyncInv
<1>6. QED
  BY <1>1, <1>4, <1>5

\* The link changes: what the session holds is of a link that is no longer up, and a
\* command in hand is either stored already or was of a link that is gone.
LEMMA LinkChangesKeeps ==
  ASSUME SyncInv, LinkChanges
  PROVE  SyncInv'
<1>1. /\ generation < 2 * MaxLinks /\ (Connected \/ step # "handle")
      /\ generation' = generation + 1
      /\ UNCHANGED <<queue, overflow, session, step, command, asked, sent, heard, stored, lost>>
  BY DEF LinkChanges, loop, companion, history
<1>2. /\ generation \in Nat /\ generation' \in 0 .. 2 * MaxLinks /\ session.gen <= generation
      /\ session.gen \in Nat /\ session.gen <= generation' /\ session.gen # generation'
  <2>1. generation \in 0 .. 2 * MaxLinks /\ session.gen <= generation /\ session.gen \in Nat
    BY SessionFields DEF SyncInv, Typed, SessionInv, SessionTyped
  <2>2. QED
    BY <1>1, <2>1, Sizes
<1>3. step = "handle" => ~Connected'
  <2>1. SUFFICES ASSUME step = "handle" PROVE ~Connected'
    OBVIOUS
  <2>2. generation % 2 = 1
    BY <1>1, <2>1 DEF Connected
  <2>3. (generation + 1) % 2 = 0
    BY <1>2, <2>2
  <2>4. QED
    BY <1>1, <2>3 DEF Connected
<1>4. Hand' = Hand
  BY <1>1 DEF Hand
<1>5. SessionInv(session, Hand)'
  BY <1>1, <1>2, <1>4
     DEF SyncInv, SessionInv, SessionTyped, Linked, Opening, Untouched, Said, Runs, Assembling,
         OkSaid, OkHeard, Over, Queued, AllSent, Listing, EndHeard
<1>6. Typed'
  BY <1>1, <1>2 DEF SyncInv, Typed
<1>7. QueueInv' /\ HeardInv'
  BY <1>1, <1>4 DEF SyncInv, QueueInv, Sound, HeardInv
<1>8. CommandInv'
  BY <1>1, <1>2, <1>3 DEF SyncInv, CommandInv, Untouched, Said, Runs
<1>9. QED
  BY <1>5, <1>6, <1>7, <1>8 DEF SyncInv

-------------------------------------------------------------------------------
(* The companion writes.                                                     *)

\* A record is appended, or the full queue remembers that it dropped it.
LEMMA PushFields ==
  ASSUME Typed, NEW c \in Commands, Push(c)
  PROVE  /\ queue' \in Seq(Commands) /\ Len(queue') <= Depth
         /\ overflow' \in BOOLEAN /\ lost' \subseteq Ids
         /\ \A i \in DOMAIN queue' : \/ i \in DOMAIN queue /\ queue'[i] = queue[i]
                                     \/ /\ i \notin DOMAIN queue /\ queue'[i] = c
                                        /\ \A j \in DOMAIN queue : j < i
         /\ \A i, j \in DOMAIN queue' : i \notin DOMAIN queue /\ j \notin DOMAIN queue => i = j
<1>1. /\ queue \in Seq(Commands) /\ DOMAIN queue = 1 .. Len(queue) /\ Len(queue) \in Nat
      /\ Len(queue) <= Depth /\ overflow \in BOOLEAN /\ lost \subseteq Ids
  BY LenProperties DEF Typed
<1>2. c.id \in Ids
  BY DEF Commands
<1>3. CASE Len(queue) < Depth
  <2>1. queue' = Append(queue, c) /\ overflow' = overflow /\ lost' = lost
    BY <1>3 DEF Push
  <2>2. /\ queue' \in Seq(Commands) /\ Len(queue') = Len(queue) + 1
        /\ \A i \in 1 .. Len(queue) : queue'[i] = queue[i]
        /\ queue'[Len(queue) + 1] = c
    BY <1>1, <2>1, AppendProperties
  <2>3. DOMAIN queue' = 1 .. (Len(queue) + 1)
    BY <2>2, LenProperties
  <2>4. Len(queue') <= Depth
    BY <1>1, <1>3, <2>2, Sizes
  <2>5. QED
    BY <1>1, <2>1, <2>2, <2>3, <2>4
<1>4. CASE ~(Len(queue) < Depth)
  <2>1. queue' = queue /\ overflow' = TRUE /\ lost' = lost \cup {c.id}
    BY <1>4 DEF Push
  <2>2. QED
    BY <1>1, <1>2, <2>1
<1>5. QED
  BY <1>3, <1>4

\* The new record belongs to no exchange that is over.
LEMMA PushedKeeps ==
  ASSUME SyncInv, NEW c \in Commands,
         Len(asked) \in Nat, Len(asked') \in Nat, Len(asked) <= Len(asked'),
         \A x \in 1 .. Len(asked) : asked'[x] = asked[x],
         \A x \in 1 .. Len(asked) : AllSent(x) => AllSent(x)',
         \A x \in 1 .. Len(asked) : AllSent(x) \/ asked[x].verb = "READ_LIST" => c.id # x,
         \A i \in DOMAIN queue' : (i \in DOMAIN queue /\ queue'[i] = queue[i]) \/ queue'[i] = c,
         c.verb # "W" => Untouched(session, c.id),
         UNCHANGED <<generation, session, step, command, heard, stored>>
  PROVE  SessionInv(session, Hand)' /\ HeardInv' /\ CommandInv' /\ Hand' = Hand
<1>1. Hand' = Hand
  BY DEF Hand
<1>2. \A x \in Ids : x \in Nat /\ x >= 1
  BY Sizes DEF Ids
<1>3. /\ \A x : Said(session, x)' <=> Said(session, x)
      /\ \A x : Runs(session, x)' <=> Runs(session, x)
      /\ \A x : Untouched(session, x)' <=> Untouched(session, x)
      /\ session \in Sessions
  BY DEF Said, Runs, Untouched, SyncInv, SessionInv, SessionTyped
<1>4. \A x \in 1 .. Len(asked) :
        Over(session, Hand, x) /\ (AllSent(x) \/ asked[x].verb = "READ_LIST") => Over(session, Hand, x)'
  BY <1>1, <1>3 DEF Over, Queued
<1>5. /\ \A x : Said(session, x) \/ Runs(session, x) => x \in Ids /\ x \in 1 .. Len(asked)
      /\ \A x \in Ids : heard[x] # <<>> => x \in 1 .. Len(asked)
  <2>1. \A x : Said(session, x) \/ Runs(session, x) => x \in Ids /\ x <= Len(asked)
    BY <1>3, SessionFields DEF SyncInv, SessionInv, Linked
  <2>2. \A x \in Ids : heard[x] # <<>> => x <= Len(asked)
    BY DEF SyncInv, HeardInv
  <2>3. QED
    BY <1>2, <2>1, <2>2
<1>6. \A x \in Ids, a \in Answers : a \in ToSet(heard[x]) => x \in 1 .. Len(asked)
  <2>1. \A a : a \notin ToSet(<<>>)
    BY EmptySeq DEF ToSet
  <2>2. QED
    BY <1>5, <2>1
<1>7. HeardInv'
  <2>1. \A x \in Ids : heard'[x] # <<>> => x <= Len(asked')
    BY <1>5
  <2>2. QED
    BY <2>1 DEF HeardInv
<1>8. SessionTyped(session)'
  BY DEF SyncInv, SessionInv, SessionTyped
<1>9. Linked(session)'
  <2>1. SUFFICES ASSUME NEW x \in Ids, Said(session, x) \/ Runs(session, x)
                 PROVE  x <= Len(asked') /\ (session.gen = generation /\ Connected => asked'[x].link = generation)
    BY <1>3 DEF Linked, Connected
  <2>2. x \in 1 .. Len(asked)
    BY <1>5, <2>1
  <2>3. QED
    BY <2>1, <2>2 DEF SyncInv, SessionInv, Linked
<1>10. Opening(session, Hand)'
  BY <1>1, <1>3 DEF SyncInv, SessionInv, Opening
<1>11. Assembling(session)' /\ Listing(session)'
  <2>1. /\ session.offer # None => session.offer.id \in 1 .. Len(asked)
        /\ session.list # None => session.list.id \in 1 .. Len(asked)
    BY <1>5 DEF Runs
  <2>2. QED
    BY <1>3, <2>1 DEF SyncInv, SessionInv, Assembling, Listing
<1>12. OkSaid(session, Hand)'
  <2>1. \A i \in DOMAIN session.replies : session.replies[i].id \in 1 .. Len(asked)
    BY <1>5 DEF Said
  <2>2. QED
    BY <1>4, <2>1 DEF SyncInv, SessionInv, OkSaid
<1>13. OkHeard(session, Hand)'
  <2>1. \A x \in Ids : "OK" \in ToSet(heard[x]) => x \in 1 .. Len(asked)
    BY <1>6 DEF Answers
  <2>2. QED
    BY <1>3, <1>4, <2>1 DEF SyncInv, SessionInv, OkHeard
<1>14. EndHeard(session, Hand)'
  <2>1. \A x \in Ids : "END" \in ToSet(heard[x]) => x \in 1 .. Len(asked)
    BY <1>6 DEF Answers
  <2>2. QED
    BY <1>3, <1>4, <2>1 DEF SyncInv, SessionInv, EndHeard
<1>15. CommandInv'
  BY <1>3 DEF SyncInv, CommandInv, Connected
<1>16. QED
  BY <1>1, <1>7, <1>8, <1>9, <1>10, <1>11, <1>12, <1>13, <1>14, <1>15 DEF SessionInv

\* The exchange started next has no trace anywhere.
LEMMA StartKeeps ==
  ASSUME SyncInv, NEW verb \in {"READ_LIST", "OFFER"}, Start(verb)
  PROVE  SyncInv'
<1> DEFINE n == Len(asked) + 1
           new == [verb |-> verb, link |-> generation]
           c == [verb |-> verb, id |-> n, gen |-> generation]
<1>1. /\ Connected /\ Len(asked) < MaxExchanges /\ asked' = Append(asked, new) /\ sent' = 0 /\ Push(c)
      /\ UNCHANGED <<generation, session, step, command, heard, stored>>
  BY DEF Start, loop
<1>2. generation \in 1 .. 2 * MaxLinks /\ generation \in Nat
  <2>1. generation \in 0 .. 2 * MaxLinks /\ generation % 2 = 1
    BY <1>1 DEF SyncInv, Typed, Connected
  <2>2. generation # 0
    BY <2>1
  <2>3. QED
    BY <2>1, <2>2, Sizes
<1>3. asked \in Seq(Requests) /\ Len(asked) \in Nat /\ n \in Ids /\ n \in Nat
  BY <1>1, LenProperties, Sizes DEF SyncInv, Typed, Ids
<1>4. /\ asked' \in Seq(Requests) /\ Len(asked') = n /\ Len(asked') <= MaxExchanges
      /\ \A x \in 1 .. Len(asked) : asked'[x] = asked[x]
      /\ asked'[n] = new
  <2>1. new \in Requests
    BY <1>2 DEF Requests
  <2>2. QED
    BY <1>1, <1>3, <2>1, AppendProperties, Sizes
<1>5. c \in Commands /\ c.id = n /\ c.verb = verb /\ c.gen = generation /\ c.verb # "W"
  BY <1>2, <1>3 DEF Commands
<1> HIDE DEF c
<1>6. /\ queue' \in Seq(Commands) /\ Len(queue') <= Depth
      /\ overflow' \in BOOLEAN /\ lost' \subseteq Ids
      /\ \A i \in DOMAIN queue' : \/ i \in DOMAIN queue /\ queue'[i] = queue[i]
                                  \/ /\ i \notin DOMAIN queue /\ queue'[i] = c
                                     /\ \A j \in DOMAIN queue : j < i
      /\ \A i, j \in DOMAIN queue' : i \notin DOMAIN queue /\ j \notin DOMAIN queue => i = j
  BY <1>1, <1>5, PushFields DEF SyncInv
<1>7. queue \in Seq(Commands) /\ DOMAIN queue = 1 .. Len(queue) /\ Len(queue) \in Nat
      /\ \A i \in DOMAIN queue : queue[i] \in Commands /\ queue[i].id \in 1 .. Len(asked)
  <2>1. queue \in Seq(Commands) /\ DOMAIN queue = 1 .. Len(queue) /\ Len(queue) \in Nat
    BY LenProperties DEF SyncInv, Typed
  <2>2. \A i \in DOMAIN queue : queue[i] \in Commands /\ queue[i].id <= Len(asked)
    BY <2>1, ElementOfSeq DEF SyncInv, QueueInv, Sound
  <2>3. \A d \in Commands : d.id \in Nat /\ d.id >= 1
    BY Sizes DEF Commands, Ids
  <2>4. QED
    BY <1>3, <2>1, <2>2, <2>3
<1>8. Untouched(session, n)
  <2>1. heard[n] = <<>>
    BY <1>3 DEF SyncInv, HeardInv
  <2>2. ~Said(session, n) /\ ~Runs(session, n)
    BY <1>3 DEF SyncInv, SessionInv, Linked
  <2>3. QED
    BY <2>1, <2>2 DEF Untouched
<1>9. \A x \in 1 .. Len(asked) : AllSent(x) => AllSent(x)'
  BY <1>3, <1>4 DEF AllSent
<1>10. SessionInv(session, Hand)' /\ HeardInv' /\ CommandInv' /\ Hand' = Hand
  <2>1. \A x \in 1 .. Len(asked) : c.id # x
    BY <1>3, <1>5
  <2>2. Len(asked') \in Nat /\ Len(asked) <= Len(asked')
    BY <1>3, <1>4
  <2> HIDE DEF n
  <2>3. QED
    BY <1>1, <1>3, <1>4, <1>5, <1>6, <1>8, <1>9, <2>1, <2>2, PushedKeeps
<1>11. Typed'
  BY <1>1, <1>4, <1>6, Sizes DEF SyncInv, Typed
<1>12. QueueInv'
  <2>1. \A d \in Commands : Sound(d) => d.id \in 1 .. Len(asked)
    <3>1. \A d \in Commands : d.id \in Nat /\ d.id >= 1
      BY Sizes DEF Commands, Ids
    <3>2. QED
      BY <1>3, <3>1 DEF Sound
  <2>2. \A d \in Commands : Sound(d) => Sound(d)'
    BY <1>3, <1>4, <2>1 DEF Sound
  <2>3. \A d \in Commands : d = c => Sound(d)'
    <3>1. asked'[n].link = generation /\ asked'[n].verb = verb
      BY <1>4
    <3>2. SUFFICES ASSUME NEW d \in Commands, d = c PROVE Sound(d)'
      OBVIOUS
    <3>3. d.id = n /\ d.verb = verb /\ d.gen = generation /\ d.verb # "W"
      BY <1>5, <3>2
    <3>4. Place(d) = 0
      BY <3>3 DEF Place
    <3>5. n <= Len(asked')
      BY <1>3, <1>4
    <3>6. sent' = 0
      BY <1>1
    <3>7. d.id <= Len(asked') /\ d.gen = asked'[d.id].link /\ asked'[d.id].verb = d.verb
      BY <3>1, <3>3, <3>5
    <3>8. Place(d) <= sent'
      BY <3>4, <3>6
    <3>9. QED
      BY <3>3, <3>7, <3>8 DEF Sound, Place
  <2>4. \A i \in DOMAIN queue' : Sound(queue[i])'
    <3>1. SUFFICES ASSUME NEW i \in DOMAIN queue' PROVE Sound(queue[i])'
      OBVIOUS
    <3>2. CASE i \in DOMAIN queue /\ queue'[i] = queue[i]
      <4>1. PICK d \in Commands : d = queue[i]
        BY <1>7, <3>2
      <4>2. Sound(d)
        BY <3>2, <4>1 DEF SyncInv, QueueInv
      <4>3. Sound(d)' /\ queue'[i] = d
        BY <2>2, <3>2, <4>1, <4>2
      <4>4. QED
        BY <4>3 DEF Sound
    <3>3. CASE queue'[i] = c
      <4>1. PICK d \in Commands : d = c
        BY <1>5
      <4>2. Sound(d)' /\ queue'[i] = d
        BY <2>3, <3>3, <4>1
      <4>3. QED
        BY <4>2 DEF Sound
    <3>4. QED
      BY <1>6, <3>2, <3>3
  <2>5. \A i, j \in DOMAIN queue' :
          i < j /\ queue'[i].id = queue'[j].id => Place(queue'[i]) < Place(queue'[j])
    <3>1. SUFFICES ASSUME NEW i \in DOMAIN queue', NEW j \in DOMAIN queue',
                          i < j, queue'[i].id = queue'[j].id
                   PROVE  Place(queue'[i]) < Place(queue'[j])
      OBVIOUS
    <3>2. i \in DOMAIN queue /\ j \in DOMAIN queue
      <4>1. i \in Nat /\ j \in Nat
        BY <1>6, LenProperties
      <4>2. i \notin DOMAIN queue /\ j \notin DOMAIN queue => FALSE
        BY <1>6, <3>1, <4>1
      <4>3. i \in DOMAIN queue <=> j \in DOMAIN queue
        BY <1>3, <1>5, <1>6, <1>7, <3>1, <4>2
      <4>4. QED
        BY <4>2, <4>3
    <3>3. QED
      BY <1>6, <3>1, <3>2 DEF SyncInv, QueueInv
  <2>6. \A d \in Hand' : /\ Sound(d)'
                         /\ \A i \in DOMAIN queue' : queue'[i].id = d.id => Place(d) < Place(queue'[i])
    <3>1. SUFFICES ASSUME NEW d \in Hand
                   PROVE  /\ Sound(d)'
                          /\ \A i \in DOMAIN queue' : queue'[i].id = d.id => Place(d) < Place(queue'[i])
      BY <1>10
    <3>2. d \in Commands
      BY DEF Hand, SyncInv, Typed
    <3>3. Sound(d)
      BY DEF SyncInv, QueueInv
    <3>4. d.id # n
      BY <1>3, <2>1, <3>2, <3>3
    <3>5. \A i \in DOMAIN queue' : queue'[i].id = d.id => i \in DOMAIN queue /\ queue'[i] = queue[i]
      BY <1>5, <1>6, <3>4
    <3>6. \A i \in DOMAIN queue' : queue'[i].id = d.id => Place(d) < Place(queue'[i])
      BY <3>5 DEF SyncInv, QueueInv
    <3>7. QED
      BY <2>2, <3>2, <3>3, <3>6
  <2>7. QED
    BY <2>4, <2>5, <2>6 DEF QueueInv, Place
<1>13. QED
  BY <1>10, <1>11, <1>12 DEF SyncInv

\* A chunk is the furthest record of the offer that is still being written.
LEMMA WriteChunkKeeps ==
  ASSUME SyncInv, WriteChunk
  PROVE  SyncInv'
<1> DEFINE n == Latest
<1>1. /\ n # 0 /\ asked[n].verb = "OFFER" /\ sent < Chunks /\ sent' = sent + 1
      /\ Push([verb |-> "W", id |-> n, seq |-> sent, gen |-> generation])
      /\ UNCHANGED <<generation, session, step, command, asked, heard, stored>>
  BY DEF WriteChunk, loop
<1>2. /\ asked \in Seq(Requests) /\ Len(asked) \in Nat /\ Len(asked) <= MaxExchanges
      /\ sent \in 0 .. Chunks /\ generation \in 0 .. 2 * MaxLinks /\ generation \in Nat
  BY LenProperties, Sizes DEF SyncInv, Typed
<1>3. /\ n = Len(asked) /\ n \in 1 .. Len(asked) /\ n \in Ids /\ asked[n].link = generation
  <2>1. asked # <<>> /\ Last(asked).link = generation /\ n = Len(asked)
    BY <1>1 DEF Latest
  <2>2. QED
    BY <1>1, <1>2, <2>1, Sizes DEF Last, Ids
<1> HIDE DEF n
<1>4. PICK c \in Commands : c = [verb |-> "W", id |-> n, seq |-> sent, gen |-> generation]
  <2>1. sent \in 0 .. Chunks - 1
    BY <1>1, <1>2, Sizes
  <2>2. QED
    BY <1>2, <1>3, <2>1 DEF Commands
<1>5. /\ c.id = n /\ c.verb = "W" /\ c.gen = generation /\ Place(c) = sent + 1 /\ Push(c)
  BY <1>1, <1>4 DEF Place
<1>6. /\ queue' \in Seq(Commands) /\ Len(queue') <= Depth
      /\ overflow' \in BOOLEAN /\ lost' \subseteq Ids
      /\ \A i \in DOMAIN queue' : \/ i \in DOMAIN queue /\ queue'[i] = queue[i]
                                  \/ /\ i \notin DOMAIN queue /\ queue'[i] = c
                                     /\ \A j \in DOMAIN queue : j < i
      /\ \A i, j \in DOMAIN queue' : i \notin DOMAIN queue /\ j \notin DOMAIN queue => i = j
  BY <1>5, PushFields DEF SyncInv
<1>7. DOMAIN queue' \subseteq Nat /\ DOMAIN queue \subseteq Nat
      /\ \A i \in DOMAIN queue : queue[i] \in Commands
  <2>1. queue \in Seq(Commands)
    BY DEF SyncInv, Typed
  <2>2. QED
    BY <1>6, <2>1, LenProperties, ElementOfSeq
<1>8. \A d \in Commands : Place(d) \in Nat
  BY Sizes DEF Commands, Place
<1>9. SessionInv(session, Hand)' /\ HeardInv' /\ CommandInv' /\ Hand' = Hand
  <2>1. \A x \in 1 .. Len(asked) : AllSent(x) => x # n
    BY <1>1, <1>2, <1>3, Sizes DEF AllSent
  <2>2. \A x \in 1 .. Len(asked) : AllSent(x) => AllSent(x)'
    BY <1>1, <1>3, <2>1 DEF AllSent
  <2>3. \A x \in 1 .. Len(asked) : AllSent(x) \/ asked[x].verb = "READ_LIST" => c.id # x
    BY <1>1, <1>5, <2>1
  <2>4. Len(asked') \in Nat /\ Len(asked) <= Len(asked')
    BY <1>1, <1>2
  <2>5. QED
    BY <1>1, <1>2, <1>5, <1>6, <2>2, <2>3, <2>4, PushedKeeps
<1>10. Typed'
  <2>1. sent' \in 0 .. Chunks
    BY <1>1, <1>2, Sizes
  <2>2. QED
    BY <1>1, <1>6, <2>1 DEF SyncInv, Typed
<1>11. QueueInv'
  <2>1. \A d \in Commands : Sound(d) => Sound(d)'
    <3>1. SUFFICES ASSUME NEW d \in Commands, Sound(d) PROVE Sound(d)'
      OBVIOUS
    <3>2. d.id = Len(asked) => Place(d) <= sent + 1
      BY <1>2, <1>8, <3>1 DEF Sound
    <3>3. QED
      BY <1>1, <3>1, <3>2 DEF Sound, Place
  <2>2. Sound(c)'
    <3>1. sent + 1 <= sent'
      BY <1>1, <1>2
    <3>2. n <= Len(asked)
      BY <1>3
    <3>3. QED
      BY <1>1, <1>3, <1>5, <3>1, <3>2 DEF Sound, Place
  <2>3. \A i \in DOMAIN queue' : Sound(queue[i])'
    <3>1. SUFFICES ASSUME NEW i \in DOMAIN queue' PROVE Sound(queue[i])'
      OBVIOUS
    <3>2. PICK d \in Commands : queue'[i] = d /\ Sound(d)'
      <4>1. CASE i \in DOMAIN queue /\ queue'[i] = queue[i]
        <5>1. Sound(queue[i]) /\ queue[i] \in Commands
          BY <1>7, <4>1 DEF SyncInv, QueueInv
        <5>2. PICK d \in Commands : d = queue[i]
          BY <5>1
        <5>3. Sound(d)' /\ queue'[i] = d
          BY <2>1, <4>1, <5>1, <5>2
        <5>4. QED
          BY <5>3
      <4>2. CASE queue'[i] = c
        BY <2>2, <4>2
      <4>3. QED
        BY <1>6, <4>1, <4>2
    <3>3. QED
      BY <3>2 DEF Sound
  <2>4. \A d \in Commands : Sound(d) /\ d.id = n => Place(d) < Place(c)
    BY <1>2, <1>3, <1>5, <1>8 DEF Sound
  <2>5. \A i, j \in DOMAIN queue' :
          i < j /\ queue'[i].id = queue'[j].id => Place(queue'[i]) < Place(queue'[j])
    <3>1. SUFFICES ASSUME NEW i \in DOMAIN queue', NEW j \in DOMAIN queue',
                          i < j, queue'[i].id = queue'[j].id
                   PROVE  Place(queue'[i]) < Place(queue'[j])
      OBVIOUS
    <3>2. i \in DOMAIN queue /\ queue'[i] = queue[i]
      <4>1. i \in Nat /\ j \in Nat
        BY <1>7
      <4>2. QED
        BY <1>6, <3>1, <4>1
    <3>3. Sound(queue[i]) /\ queue[i] \in Commands
      BY <1>7, <3>2 DEF SyncInv, QueueInv
    <3>4. CASE j \in DOMAIN queue /\ queue'[j] = queue[j]
      BY <3>1, <3>2, <3>4 DEF SyncInv, QueueInv
    <3>5. CASE queue'[j] = c
      BY <1>5, <2>4, <3>1, <3>2, <3>3, <3>5
    <3>6. QED
      BY <1>6, <3>4, <3>5
  <2>6. \A d \in Hand' : /\ Sound(d)'
                         /\ \A i \in DOMAIN queue' : queue'[i].id = d.id => Place(d) < Place(queue'[i])
    <3>1. SUFFICES ASSUME NEW d \in Hand
                   PROVE  /\ Sound(d)'
                          /\ \A i \in DOMAIN queue' : queue'[i].id = d.id => Place(d) < Place(queue'[i])
      BY <1>9
    <3>2. d \in Commands
      BY DEF Hand, SyncInv, Typed
    <3>3. Sound(d) /\ \A i \in DOMAIN queue : queue[i].id = d.id => Place(d) < Place(queue[i])
      BY DEF SyncInv, QueueInv
    <3>4. \A i \in DOMAIN queue' : queue'[i].id = d.id => Place(d) < Place(queue'[i])
      BY <1>5, <1>6, <2>4, <3>2, <3>3
    <3>5. QED
      BY <2>1, <3>2, <3>3, <3>4
  <2>7. QED
    BY <2>3, <2>5, <2>6 DEF QueueInv, Place
<1>12. QED
  BY <1>9, <1>10, <1>11 DEF SyncInv

-------------------------------------------------------------------------------
(* The invariant.                                                            *)

LEMMA SyncStarts == Init => SyncInv
<1> SUFFICES ASSUME Init PROVE SyncInv
  OBVIOUS
<1>1. /\ generation = 0 /\ queue = <<>> /\ overflow = FALSE
      /\ session = Fresh(0) /\ step = "pump" /\ command = None
      /\ asked = <<>> /\ sent = 0 /\ heard = [id \in Ids |-> <<>>]
      /\ stored = {} /\ lost = {}
  BY DEF Init
<1>2. /\ \A S : <<>> \in Seq(S)
      /\ Len(<<>>) = 0 /\ DOMAIN <<>> = {} /\ \A a : a \notin ToSet(<<>>)
  BY EmptySeq DEF ToSet
<1>3. /\ SessionTyped(session) /\ session.gen = 0 /\ session.list = None /\ session.offer = None
      /\ session.replies = <<>> /\ \A id : ~Said(session, id) /\ ~Runs(session, id)
  BY <1>1, FreshFields
<1>4. heard \in [Ids -> Seq(Answers)] /\ \A id \in Ids : heard[id] = <<>>
  BY <1>1, <1>2
<1>5. Typed
  <2>1. generation \in 0 .. 2 * MaxLinks /\ session.gen <= generation /\ sent \in 0 .. Chunks
    BY <1>1, <1>3, Sizes
  <2>2. Len(queue) <= Depth /\ Len(asked) <= MaxExchanges /\ queue \in Seq(Commands) /\ asked \in Seq(Requests)
    BY <1>1, <1>2, Sizes
  <2>3. QED
    BY <1>1, <1>4, <2>1, <2>2 DEF Typed
<1>6. Hand = {}
  BY <1>1 DEF Hand
<1>7. QueueInv /\ CommandInv /\ HeardInv
  BY <1>1, <1>2, <1>4, <1>6 DEF QueueInv, CommandInv, HeardInv
<1>8. SessionInv(session, Hand)
  BY <1>1, <1>2, <1>3, <1>4, <1>6
     DEF SessionInv, Linked, Opening, Assembling, OkSaid, OkHeard, Listing, EndHeard
<1>9. QED
  BY <1>5, <1>7, <1>8 DEF SyncInv

\* What no step changes stays true.
LEMMA StutterKeeps ==
  ASSUME SyncInv, UNCHANGED vars
  PROVE  SyncInv'
<1>1. UNCHANGED <<generation, queue, overflow, session, step, command, asked, sent, heard, stored, lost>>
  BY DEF vars, link, loop, companion, history
<1>2. Hand' = Hand
  BY <1>1 DEF Hand
<1>3. Typed' /\ QueueInv' /\ CommandInv' /\ HeardInv'
  BY <1>1, <1>2 DEF SyncInv, Typed, QueueInv, Sound, CommandInv, Untouched, Said, Runs, Connected, HeardInv
<1>4. SessionInv(session, Hand)'
  BY <1>1, <1>2
     DEF SyncInv, SessionInv, SessionTyped, Linked, Opening, Untouched, Said, Runs, Assembling,
         OkSaid, OkHeard, Over, Queued, AllSent, Listing, EndHeard, Connected
<1>5. QED
  BY <1>3, <1>4 DEF SyncInv

LEMMA SyncSteps == SyncInv /\ [Next]_vars => SyncInv'
<1> SUFFICES ASSUME SyncInv, [Next]_vars PROVE SyncInv'
  OBVIOUS
<1>1. CASE LinkChanges
  BY <1>1, LinkChangesKeeps
<1>2. ASSUME NEW verb \in {"READ_LIST", "OFFER"}, Start(verb) PROVE SyncInv'
  BY <1>2, StartKeeps
<1>3. CASE WriteChunk
  BY <1>3, WriteChunkKeeps
<1>4. CASE TakeCommand
  BY <1>4, TakeCommandKeeps
<1>5. ASSUME NEW fine \in BOOLEAN, Handle(fine) PROVE SyncInv'
  BY <1>5, HandleKeeps
<1>6. ASSUME NEW kept \in BOOLEAN, Store(kept) PROVE SyncInv'
  BY <1>6, StoreKeeps
<1>7. CASE Send
  BY <1>7, SendKeeps
<1>8. CASE SendRefused
  BY <1>8, SendRefusedKeeps
<1>9. CASE Frame
  BY <1>9, FrameKeeps
<1>10. CASE FrameFails
  BY <1>10, FrameFailsKeeps
<1>11. CASE Idle
  BY <1>11, IdleKeeps
<1>12. CASE UNCHANGED vars
  BY <1>12, StutterKeeps
<1>13. QED
  BY <1>1, <1>2, <1>3, <1>4, <1>5, <1>6, <1>7, <1>8, <1>9, <1>10, <1>11, <1>12 DEF Next, MainLoop

\* What the queue, the command in hand, the session and what companions have heard
\* keep true together, whatever the interleaving of radio, host task and main loop.
THEOREM SyncInvariant == Spec => []SyncInv
  BY SyncStarts, SyncSteps, PTL DEF Spec

\* No queue, slot or counter exceeds its size, and every record is of its type.
THEOREM SyncTypeCorrect == Spec => []TypeOK
<1>1. SyncInv => TypeOK
  <2> SUFFICES ASSUME SyncInv PROVE TypeOK
    OBVIOUS
  <2>1. /\ queue \in Seq(Commands) /\ asked \in Seq(Requests) /\ session \in Sessions
        /\ SessionTyped(session) /\ session.replies \in Seq(Records)
    BY SessionFields DEF SyncInv, Typed, SessionInv, SessionTyped
  <2>2. /\ \A i \in DOMAIN queue : queue[i] \in Commands
        /\ \A i \in DOMAIN asked : asked[i] \in Requests
        /\ \A i \in DOMAIN session.replies : session.replies[i] \in Records
    BY <2>1, LenProperties, ElementOfSeq
  <2>3. /\ session.list = None \/ session.list \in Lists
        /\ session.offer = None \/ session.offer \in Offers
        /\ session.aborted \in Ids \cup {None}
        /\ session.retries \in 0 .. MaxRetries
        /\ session.gen \in Nat /\ Len(session.replies) <= Slots
    BY <2>1 DEF Sessions, SessionTyped
  <2>4. session.gen \in 0 .. generation /\ generation \in 0 .. 2 * MaxLinks
    BY <2>3, Sizes DEF SyncInv, Typed
  <2>5. /\ Len(queue) <= Depth /\ overflow \in BOOLEAN /\ step \in {"take", "handle", "store", "pump"}
        /\ command = None \/ command \in Commands
        /\ Len(asked) <= MaxExchanges /\ sent \in 0 .. Chunks
        /\ heard \in [Ids -> Seq(Answers)] /\ stored \subseteq Ids /\ lost \subseteq Ids
    BY DEF SyncInv, Typed
  <2>6. QED
    BY <2>2, <2>3, <2>4, <2>5 DEF TypeOK, Lists, Offers, Requests
<1>2. QED
  BY <1>1, SyncInvariant, PTL

\* An offer answered OK is on the card and hears nothing else.
THEOREM OkIsTheLastAnswer == Spec => []OkIsFinal
<1>1. SyncInv => OkIsFinal
  BY DEF SyncInv, SessionInv, OkHeard, OkIsFinal
<1>2. QED
  BY <1>1, SyncInvariant, PTL

\* A list is heard whole, or not to its end.
THEOREM ListsHeardWhole == Spec => []ListWhole
<1>1. SyncInv => ListWhole
  BY DEF SyncInv, SessionInv, EndHeard, Whole, ListWhole
<1>2. QED
  BY <1>1, SyncInvariant, PTL

\* Whatever reaches a companion answers something it asked on this very link.
THEOREM AnswersBelongToTheLink == Spec => OwnAnswers
<1> DEFINE Own == \A id \in Ids : heard'[id] # heard[id] => id <= Len(asked) /\ asked[id].link = generation
<1>1. SyncInv /\ [Next]_vars => [Own]_vars
  <2> SUFFICES ASSUME SyncInv, [Next]_vars PROVE Own \/ UNCHANGED vars
    OBVIOUS
  <2>1. CASE UNCHANGED heard
    BY <2>1
  <2>2. CASE Send
    <3> DEFINE s == Checked
               rec == NextRecord(s)
    <3>1. /\ PassEnds /\ Pending(s) /\ Connected
          /\ heard' = [heard EXCEPT ![rec.id] = Append(@, rec.answer)]
      BY <2>2 DEF Send
    <3>2. SessionInv(s, {}) /\ s.gen = generation /\ s \in Sessions
      BY <3>1, PumpStarts
    <3> HIDE DEF s, rec
    <3>3. Said(s, rec.id) \/ Runs(s, rec.id)
      <4>1. CASE s.replies # <<>>
        <5>1. s.replies \in Seq(Records) /\ DOMAIN s.replies = 1 .. Len(s.replies) /\ Len(s.replies) \in Nat
          BY <3>2, SessionFields
        <5>2. Len(s.replies) # 0
          BY <4>1, <5>1, EmptySeq
        <5>3. 1 \in DOMAIN s.replies /\ Head(s.replies) = s.replies[1]
          BY <5>1, <5>2
        <5>4. QED
          BY <4>1, <5>3 DEF rec, NextRecord, Said
      <4>2. CASE s.replies = <<>>
        BY <3>1, <4>2 DEF Pending, rec, NextRecord, Runs
      <4>3. QED
        BY <4>1, <4>2
    <3>4. rec.id \in Ids /\ rec.id <= Len(asked) /\ asked[rec.id].link = generation
      BY <3>1, <3>2, <3>3, SessionFields DEF SessionInv, Linked
    <3>5. heard \in [Ids -> Seq(Answers)]
      BY DEF SyncInv, Typed
    <3>6. QED
      BY <3>1, <3>4, <3>5
  <2>3. QED
    <3>1. [Next]_vars => UNCHANGED heard \/ Send
      BY DEF Next, MainLoop, LinkChanges, Start, WriteChunk, TakeCommand, Handle, Store,
             SendRefused, Frame, FrameFails, Idle, vars, companion
    <3>2. QED
      BY <2>1, <2>2, <3>1
<1>2. QED
  BY <1>1, SyncInvariant, PTL DEF Spec, OwnAnswers
=============================================================================
