--------------------------- MODULE ReadingProgress ---------------------------
(***************************************************************************)
(* The reading place of one book: the saved page (progress.bin), the       *)
(* record the companion lists (pocket-reading.bin), the reader-wide        *)
(* sequence counter and the place a companion offers                       *)
(* (pocket-reading-offer.bin).  The reader is the main loop and the render *)
(* task; a companion lists and offers while no book is open; power may be  *)
(* cut between any two card operations.                                    *)
(*                                                                         *)
(* A place is a page of the book's one chapter, or End, the end-of-book    *)
(* screen.  A file is its decoded content, None where it is missing (0 for *)
(* the counter: a lost or damaged one restarts at 1); a ".tmp" file is     *)
(* never read, so it is left out.                                          *)
(***************************************************************************)
EXTENDS Naturals

CONSTANTS None,         \* no file, no page, nothing at hand
          LastPage,     \* pages 0 .. LastPage
          MaxSeq,       \* bound: a book is opened only below this sequence
          MaxUpsets     \* bound: power cuts, failed writes, lack of memory

ASSUME BookAssumption == LastPage \in Nat /\ MaxSeq \in Nat /\ MaxUpsets \in Nat

End == LastPage + 1
Pages == 0 .. LastPage
Places == 0 .. End
Seqs == 1 .. MaxSeq
Records == [page : Places, seq : Seqs]
\* "from" is the place the companion saw under the sequence it binds to; the
\* file does not hold it.  Sequence 0 is an offer of an older companion.
Offers == [seq : Seqs, to : Pages, from : Places] \union [seq : {0}, to : Pages, from : {None}]

ASSUME NoneAssumption == None \notin Places \union Records

VARIABLES progress, record, counter, offer,   \* the card
          step, held, leaving,                \* the main loop and the write it is in
          page, pending, saved, askable,      \* the open reader
          wanted, drawing, section,           \* the render task: request, page, chapter
          due, clean, lost, seen, upsets      \* history and bounds

card == <<progress, record, counter, offer>>
reader == <<page, pending, saved, askable>>
render == <<wanted, drawing, section>>
history == <<due, clean, lost, seen, upsets>>
vars == <<card, step, held, leaving, reader, render, history>>

Steps == {"shut", "reading", "asking", "saving", "swapping", "recording", "counting",
          "keeping", "replacing", "storing"}

\* Every file is absent or whole and names a place of the book, as do the queued
\* page and the page at hand.
TypeOK ==
  /\ progress \in Places \union {None}
  /\ record \in Records \union {None}
  /\ counter \in Seqs \union {0}
  /\ offer \in Offers \union {None}
  /\ step \in Steps
  /\ held \in [page : Places] \union Records \union Offers \union {None}
  /\ leaving \in BOOLEAN
  /\ page \in Places
  /\ pending \in Places \union {None}
  /\ saved \in Places \union {None}
  /\ askable \in BOOLEAN
  /\ wanted \in BOOLEAN
  /\ drawing \in Places \union {None}
  /\ section \in {"none", "last", "laid"}
  /\ due \in Places \union {None}
  /\ clean \in BOOLEAN
  /\ lost \in BOOLEAN
  /\ seen \subseteq Records
  /\ upsets \in 0 .. MaxUpsets

Init ==
  /\ progress = None /\ record = None /\ counter = 0 /\ offer = None
  /\ step = "shut" /\ held = None /\ leaving = FALSE
  /\ page = 0 /\ pending = None /\ saved = None /\ askable = FALSE
  /\ wanted = FALSE /\ drawing = None /\ section = "none"
  /\ due = None /\ clean = FALSE /\ lost = FALSE /\ seen = {} /\ upsets = 0

---------------------------------------------------------------------------
(* What the companion is told, and the offer it makes.                     *)

\* The record counts while no other page was saved since it was written.
Current == record # None /\ (progress = None \/ record.page = progress)

\* The place the list reports: the record's, else the saved page's percentage.
Reported == IF Current THEN record.page ELSE IF progress = None THEN 0 ELSE progress

\* GET reading, READ_LIST: a current record goes out with its sequence.
List ==
  /\ step = "shut"
  /\ Current
  /\ seen' = seen \union {record}
  /\ UNCHANGED <<card, step, held, leaving, reader, render, due, clean, lost, upsets>>

\* Mutant: the record's sequence alone decides, whatever progress.bin says.
SameSequence(o) == o.seq = 0 \/ (record # None /\ o.seq = record.seq)

\* A bound offer is stored only against the record it was made for.
Acceptable(o) == o.seq = 0 \/ (Current /\ o.seq = record.seq)

\* What a companion may send: a place of its own, bound to any record it saw.
Offered ==
  {[seq |-> r.seq, to |-> p, from |-> r.page] : r \in seen, p \in Pages}
    \union {[seq |-> 0, to |-> p, from |-> None] : p \in Pages}

\* POST reading, OFFER: the temporary file is written and the old offer removed.
StoreOffer(o) ==
  /\ step = "shut"
  /\ Acceptable(o)
  /\ offer' = None
  /\ held' = o
  /\ step' = "storing"
  /\ UNCHANGED <<progress, record, counter, leaving, reader, render, history>>

OfferStored ==
  /\ step = "storing"
  /\ offer' = held
  /\ held' = None
  /\ step' = "shut"
  /\ UNCHANGED <<progress, record, counter, leaving, reader, render, history>>

---------------------------------------------------------------------------
(* The open book: pages are turned, drawn, and saved at an idle moment.    *)

Open ==
  /\ step = "shut"
  /\ counter < MaxSeq
  /\ step' = "reading"
  /\ page' = IF progress = None THEN 0 ELSE progress
  /\ pending' = None /\ saved' = None /\ askable' = (offer # None)
  /\ wanted' = TRUE /\ drawing' = None /\ section' = "none"
  /\ due' = progress /\ clean' = FALSE
  /\ UNCHANGED <<card, held, leaving, lost, seen, upsets>>

\* Mutant: a turn behind the end-of-book screen still moves the place.
TurnPast(p) ==
  /\ step = "reading"
  /\ section = "laid"
  /\ page' = page + 1 /\ wanted' = TRUE
  /\ UNCHANGED <<card, step, held, leaving, pending, saved, askable, drawing, section, history>>

\* The page number moves outside the render lock: a frame may be under way.
Turn(p) ==
  /\ step = "reading"
  /\ section = "laid"
  /\ page' = p /\ wanted' = TRUE
  /\ UNCHANGED <<card, step, held, leaving, pending, saved, askable, drawing, section, history>>

\* Back from the end-of-book screen a book was opened on: its last page is found
\* once the chapter is laid out.
ReturnFromEnd ==
  /\ step = "reading" /\ page = End /\ section = "none"
  /\ page' = 0 /\ section' = "last" /\ wanted' = TRUE
  /\ UNCHANGED <<card, step, held, leaving, pending, saved, askable, drawing, history>>

RenderBegins ==
  /\ step \in {"reading", "saving", "swapping"} /\ ~leaving
  /\ wanted /\ drawing = None
  /\ wanted' = FALSE
  /\ page' = IF section = "last" THEN LastPage ELSE page
  /\ drawing' = page'
  /\ section' = IF page = End THEN section ELSE "laid"
  /\ UNCHANGED <<card, step, held, leaving, pending, saved, askable, history>>

\* A drawn page queues its save, with the page number read when it is done.
QueueSave == pending' = IF page = saved THEN None ELSE page

RenderEnds ==
  /\ drawing # None
  /\ drawing' = None
  /\ IF drawing = End THEN UNCHANGED <<pending, due>> ELSE QueueSave /\ due' = page
  /\ UNCHANGED <<card, step, held, leaving, page, saved, askable, wanted, section, clean, lost, seen,
                 upsets>>

\* The idle save takes the queued page; the render lock is free again while the
\* card is written.
TakeSave ==
  /\ pending # None
  /\ held' = [page |-> pending] /\ saved' = pending /\ pending' = None
  /\ step' = "saving"

IdleSave ==
  /\ step = "reading" /\ drawing = None
  /\ TakeSave
  /\ UNCHANGED <<card, leaving, page, askable, render, history>>

RemoveProgress ==
  /\ step = "saving"
  /\ progress' = None
  /\ step' = "swapping"
  /\ UNCHANGED <<record, counter, offer, held, leaving, reader, render, history>>

AfterSave == step' = (IF leaving THEN "recording" ELSE "reading") /\ held' = None

RenameProgress ==
  /\ step = "swapping"
  /\ progress' = held.page
  /\ AfterSave
  /\ UNCHANGED <<record, counter, offer, leaving, reader, render, history>>

\* Mutant: a failed save is forgotten.
Forget == saved' = None /\ pending' = pending

\* A failed save is queued again unless a newer page is.
Requeue == saved' = None /\ pending' = IF pending = None THEN held.page ELSE pending

SaveFails ==
  /\ step \in {"saving", "swapping"} /\ upsets < MaxUpsets
  /\ Requeue
  /\ AfterSave
  /\ clean' = (clean /\ ~leaving) /\ upsets' = upsets + 1
  /\ UNCHANGED <<card, leaving, page, askable, render, due, lost, seen>>

---------------------------------------------------------------------------
(* The question about a stored offer, once for each opening.               *)

\* More than the margin away under the record it was made for; an unbound
\* offer must be further ahead.
ShouldSuggest ==
  IF offer.seq = 0 THEN offer.to > page
  ELSE record # None /\ record.seq = offer.seq /\ offer.to # page

Ask ==
  /\ step = "reading" /\ askable /\ section = "laid" /\ drawing = None
  /\ askable' = FALSE
  /\ \/ /\ offer # None /\ ShouldSuggest
        /\ step' = "asking"
        /\ UNCHANGED <<offer, upsets>>
     \/ /\ ~(offer # None /\ ShouldSuggest)
        /\ offer' = None
        /\ UNCHANGED <<step, upsets>>
     \/ /\ upsets < MaxUpsets          \* no memory: the next opening asks again
        /\ upsets' = upsets + 1
        /\ UNCHANGED <<offer, step>>
  /\ UNCHANGED <<progress, record, counter, held, leaving, page, pending, saved, render, due, clean,
                 lost, seen>>

Answer(accepted) ==
  /\ step = "asking"
  /\ offer' = None
  /\ step' = "reading"
  /\ wanted' = TRUE
  /\ page' = IF accepted THEN offer.to ELSE page
  /\ section' = IF accepted /\ page = End THEN "none" ELSE section
  /\ UNCHANGED <<progress, record, counter, held, leaving, pending, saved, askable, drawing, history>>

---------------------------------------------------------------------------
(* Leaving: the queued page is saved, then the place is recorded.          *)

\* The reader is destroyed under the render lock.
Leave ==
  /\ step \in {"reading", "asking"} /\ drawing = None
  /\ leaving' = TRUE /\ clean' = TRUE /\ wanted' = FALSE
  /\ \/ TakeSave
     \/ pending = None /\ step' = "recording" /\ UNCHANGED <<held, saved, pending>>
  /\ UNCHANGED <<card, page, askable, drawing, section, due, lost, seen, upsets>>

\* Mutant: any record will do.
HadRecord == record # None

\* The record already names this place.
Unchanged == record # None /\ record.page = page

\* The reader is gone; its last page stays only as history.
Shut ==
  /\ step' = "shut" /\ held' = None /\ leaving' = FALSE
  /\ pending' = None /\ saved' = None /\ askable' = FALSE
  /\ wanted' = FALSE /\ drawing' = None /\ section' = "none"

NothingToRecord ==
  /\ step = "recording"
  /\ Unchanged
  /\ Shut
  /\ UNCHANGED <<card, page, history>>

\* Mutant: a record that replaces another keeps its sequence.
KeepSequence ==
  /\ step = "recording"
  /\ ~Unchanged
  /\ held' = [page |-> page, seq |-> IF record = None THEN counter + 1 ELSE record.seq]
  /\ counter' = 0
  /\ step' = "counting"
  /\ UNCHANGED <<progress, record, offer, leaving, reader, render, history>>

\* The counter file is truncated before the next sequence is written to it.
NextSequence ==
  /\ step = "recording"
  /\ ~Unchanged
  /\ held' = [page |-> page, seq |-> counter + 1]
  /\ counter' = 0
  /\ step' = "counting"
  /\ UNCHANGED <<progress, record, offer, leaving, reader, render, history>>

CounterWritten ==
  /\ step = "counting"
  /\ counter' = held.seq
  /\ step' = "keeping"
  /\ UNCHANGED <<progress, record, offer, held, leaving, reader, render, history>>

\* The write's result is ignored: the old value stays, or a damaged file.
CounterFails ==
  /\ step = "counting" /\ upsets < MaxUpsets
  /\ counter' \in {0, held.seq - 1}
  /\ step' = "keeping"
  /\ lost' = TRUE /\ upsets' = upsets + 1
  /\ UNCHANGED <<progress, record, offer, held, leaving, reader, render, due, clean, seen>>

RemoveRecord ==
  /\ step = "keeping"
  /\ record' = None
  /\ step' = "replacing"
  /\ UNCHANGED <<progress, counter, offer, held, leaving, reader, render, history>>

RenameRecord ==
  /\ step = "replacing"
  /\ record' = held
  /\ Shut
  /\ UNCHANGED <<progress, counter, offer, page, history>>

\* No memory for the record, or its file or an offer's could not be replaced.
RecordFails ==
  /\ step \in {"recording", "keeping", "replacing"} /\ upsets < MaxUpsets
  /\ Shut
  /\ clean' = FALSE /\ upsets' = upsets + 1
  /\ UNCHANGED <<card, page, due, lost, seen>>

StoreFails ==
  /\ step = "storing" /\ upsets < MaxUpsets
  /\ Shut
  /\ upsets' = upsets + 1
  /\ UNCHANGED <<card, page, due, clean, lost, seen>>

---------------------------------------------------------------------------
\* Power is lost: the card keeps what it has, the device starts with no book open.
Cut ==
  /\ upsets < MaxUpsets
  /\ Shut
  /\ clean' = (clean /\ step \in {"shut", "storing"})
  /\ lost' = (lost \/ step = "counting")
  /\ upsets' = upsets + 1
  /\ UNCHANGED <<card, page, due, seen>>

Companion == List \/ (\E o \in Offered : StoreOffer(o)) \/ OfferStored \/ StoreFails

Reader ==
  \/ Open \/ IdleSave \/ RemoveProgress \/ RenameProgress \/ SaveFails \/ Ask \/ Leave
  \/ ReturnFromEnd \/ \E p \in {page + 1, page - 1} \intersect Places : Turn(p)
  \/ \E accepted \in BOOLEAN : Answer(accepted)

Recording ==
  NothingToRecord \/ NextSequence \/ CounterWritten \/ CounterFails \/ RemoveRecord \/ RenameRecord
    \/ RecordFails

Next == Companion \/ Reader \/ Recording \/ RenderBegins \/ RenderEnds \/ Cut

Spec == Init /\ [][Next]_vars
---------------------------------------------------------------------------
\* A sequence names one place: no two records a companion could have read carry
\* the same sequence and different places.  An offer is bound by the sequence
\* alone (ReadingExchange.cpp:122, ReadingProgress.cpp:196), so a reused one would
\* bind it to a place it was not made for.  A counter that could not be written
\* is exempt.
SequenceNamesPlace ==
  lost \/ \A r \in seen, q \in (seen \union {record}) \ {None} : r.seq = q.seq => r.page = q.page

\* A bound offer reaches the card only while progress.bin holds the place its
\* companion saw (ReadingExchange.cpp:45, :122), whatever was read, saved, failed
\* or cut since the list went out.
StoredAgainstSaved ==
  [][ (step = "storing" /\ offer' # None /\ offer'.seq # 0 /\ ~lost /\ progress # None)
        => offer'.from = progress ]_vars

\* No queued save is lost: after an exit that was not disturbed, progress.bin holds
\* the place the last finished page left to be saved, although saves are queued by
\* the render task, taken at idle moments, retried when they fail and overtaken
\* by newer ones (EpubReaderActivity.cpp:1918-1937, :2055-2093).
SavesLastDrawn == (step = "shut" /\ clean) => progress = due

\* A reader who leaves a page that was drawn finds it reported: the record is
\* current and names that page (EpubReaderActivity.cpp:164-192).
ReportsWhereLeft == (step = "shut" /\ clean /\ page = due) => Current /\ Reported = page

\* docs/reading-progress-v1.md:41-42: the percentage a list reports is 1 "on the
\* end-of-book screen"; so a book left there is reported as finished.
ReportsFinished == (step = "shut" /\ clean /\ page = End) => Reported = End
=============================================================================
