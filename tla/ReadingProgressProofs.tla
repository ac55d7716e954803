------------------------- MODULE ReadingProgressProofs ------------------------
(***************************************************************************)
(* Proofs about ReadingProgress, for every number of pages, bound on the   *)
(* sequences and number of failures.                                       *)
(***************************************************************************)
EXTENDS ReadingProgress, TLAPS

\* TypeOK in parts that no step disturbs together, and what the main loop holds
\* in each of its steps.
CardTyped ==
  /\ progress \in Places \union {None}
  /\ record \in Records \union {None}
  /\ counter \in Seqs \union {0}
  /\ offer \in Offers \union {None}

ReaderTyped ==
  /\ page \in Places
  /\ pending \in Places \union {None}
  /\ saved \in Places \union {None}
  /\ askable \in BOOLEAN

RenderTyped ==
  /\ wanted \in BOOLEAN
  /\ drawing \in Places \union {None}
  /\ section \in {"none", "last", "laid"}

HistoryTyped ==
  /\ due \in Places \union {None}
  /\ clean \in BOOLEAN
  /\ lost \in BOOLEAN
  /\ seen \subseteq Records
  /\ upsets \in 0 .. MaxUpsets

HeldTyped ==
  /\ step \in Steps /\ leaving \in BOOLEAN
  /\ step \in {"saving", "swapping"} => held \in [page : Places]
  /\ step \in {"counting", "keeping", "replacing"} => held \in Records
  /\ step = "storing" => held \in Offers
  /\ step \in {"shut", "reading", "asking", "recording"} => held = None

Typed == CardTyped /\ ReaderTyped /\ RenderTyped /\ HistoryTyped /\ HeldTyped

\* What is open: an offer is asked about only while there is one, nothing is drawn
\* or left to save outside the reader, and room for one more sequence is left.
PathInv ==
  /\ step = "asking" => offer # None
  /\ step = "storing" => offer = None
  /\ leaving => drawing = None /\ step \notin {"reading", "asking"}
  /\ step \notin {"reading", "asking", "saving", "swapping"} => drawing = None
  /\ step \in {"recording", "counting", "keeping", "replacing"} => leaving
  /\ step \in {"shut", "storing"} => ~leaving
  /\ step \in {"reading", "asking", "saving", "swapping", "recording"} => counter < MaxSeq

\* Every sequence in use lies below the one that is given out next.
SequenceBound ==
  ~lost => \A r \in (seen \union {record}) \ {None} :
             IF step \in {"counting", "keeping", "replacing"} THEN r.seq < held.seq
                                                              ELSE r.seq <= counter

CountedInv == ~lost /\ step \in {"keeping", "replacing"} => counter = held.seq

\* The offer being stored was made for the place that is saved.
StoringInv ==
  step = "storing" /\ held.seq # 0 /\ ~lost => progress = None \/ held.from = progress

\* What progress.bin will hold once every save that is queued or under way is done.
Owed ==
  IF pending # None THEN pending
  ELSE IF step \in {"saving", "swapping"} THEN held.page
  ELSE progress

\* It is the place the last finished page left to be saved; while the reader leaves,
\* unless a save failed; and the reader remembers what was saved last.
SaveInv ==
  /\ step \in {"reading", "asking", "saving", "swapping"} => Owed = due
  /\ leaving /\ step \in {"saving", "swapping"} => pending = None
  /\ clean /\ step \in {"recording", "counting", "keeping", "replacing"} => progress = due
  /\ step \in {"reading", "asking", "saving", "swapping"} /\ saved # None =>
       saved = IF step \in {"saving", "swapping"} THEN held.page ELSE progress

SavedInv == clean /\ step \in {"shut", "storing"} => progress = due

\* The record written at exit names the place that was left.
LeftInv ==
  /\ step \in {"counting", "keeping", "replacing"} => held.page = page
  /\ clean /\ step \in {"shut", "storing"} /\ page = due => record # None /\ record.page = page

\* The properties proved below are too weak to be inductive; this is their strengthening.
ProgressInv ==
  /\ Typed /\ PathInv
  /\ SequenceBound /\ CountedInv /\ SequenceNamesPlace /\ StoringInv
  /\ SaveInv /\ SavedInv /\ LeftInv

-------------------------------------------------------------------------------
(* One lemma for each part of ProgressInv: no step leaves it broken.         *)

\* What the assumptions on the constants say of the sets built from them.
LEMMA Bounds ==
  /\ LastPage \in Nat /\ MaxSeq \in Nat /\ MaxUpsets \in Nat
  /\ None \notin 0 .. LastPage + 1
  /\ None \notin Records
  BY BookAssumption, NoneAssumption DEF BookAssumption, NoneAssumption, Places, End

\* Whatever is renamed into place or removed, the files name places of the book.
LEMMA CardKept ==
  ASSUME ProgressInv, [Next]_vars
  PROVE  CardTyped'
<1> USE Bounds DEF ProgressInv, Typed, CardTyped, HeldTyped, PathInv, Places, Pages, End, Seqs,
       Records, Offers, card, reader, render, history
<1>1. CASE List
  BY <1>1 DEF List, Current
<1>2. CASE \E o \in Offered : StoreOffer(o)
  BY <1>2 DEF StoreOffer, Acceptable, Offered, Current
<1>3. CASE OfferStored
  BY <1>3 DEF OfferStored
<1>4. CASE StoreFails
  BY <1>4 DEF StoreFails, Shut
<1>5. CASE Open
  BY <1>5 DEF Open
<1>6. CASE IdleSave
  BY <1>6 DEF IdleSave, TakeSave
<1>7. CASE RemoveProgress
  BY <1>7 DEF RemoveProgress
<1>8. CASE RenameProgress
  BY <1>8 DEF RenameProgress, AfterSave
<1>9. CASE SaveFails
  BY <1>9 DEF SaveFails, AfterSave, Requeue
<1>10. CASE Ask
  BY <1>10 DEF Ask
<1>11. CASE Leave
  BY <1>11 DEF Leave, TakeSave
<1>12. CASE ReturnFromEnd
  BY <1>12 DEF ReturnFromEnd
<1>13. CASE \E p \in {page + 1, page - 1} \intersect Places : Turn(p)
  BY <1>13 DEF Turn
<1>14. CASE \E accepted \in BOOLEAN : Answer(accepted)
  BY <1>14 DEF Answer
<1>15. CASE NothingToRecord
  BY <1>15 DEF NothingToRecord, Shut, Unchanged
<1>16. CASE NextSequence
  BY <1>16 DEF NextSequence, Unchanged
<1>17. CASE CounterWritten
  BY <1>17 DEF CounterWritten
<1>18. CASE CounterFails
  BY <1>18 DEF CounterFails
<1>19. CASE RemoveRecord
  BY <1>19 DEF RemoveRecord
<1>20. CASE RenameRecord
  BY <1>20 DEF RenameRecord, Shut
<1>21. CASE RecordFails
  BY <1>21 DEF RecordFails, Shut
<1>22. CASE RenderBegins
  BY <1>22 DEF RenderBegins
<1>23. CASE RenderEnds
  BY <1>23 DEF RenderEnds, QueueSave
<1>24. CASE Cut
  BY <1>24 DEF Cut, Shut
<1>25. CASE UNCHANGED vars
  BY <1>25 DEF vars
<1>26. QED
  BY <1>1, <1>2, <1>3, <1>4, <1>5, <1>6, <1>7, <1>8, <1>9, <1>10, <1>11, <1>12, <1>13, <1>14,
     <1>15, <1>16, <1>17, <1>18, <1>19, <1>20, <1>21, <1>22, <1>23, <1>24, <1>25 DEF Next, Companion, Reader, Recording

\* The place at hand comes from a saved page, an offer, a turn or the layout; a save
\* that fails is queued again as it was.
LEMMA ReaderKept ==
  ASSUME ProgressInv, [Next]_vars
  PROVE  ReaderTyped'
<1> USE Bounds DEF ProgressInv, Typed, ReaderTyped, CardTyped, RenderTyped, HeldTyped, PathInv,
       Places, Pages, End, Seqs, Records, Offers, card, reader, render, history
<1>1. CASE List
  BY <1>1 DEF List, Current
<1>2. CASE \E o \in Offered : StoreOffer(o)
  BY <1>2 DEF StoreOffer, Acceptable, Offered, Current
<1>3. CASE OfferStored
  BY <1>3 DEF OfferStored
<1>4. CASE StoreFails
  BY <1>4 DEF StoreFails, Shut
<1>5. CASE Open
  BY <1>5 DEF Open
<1>6. CASE IdleSave
  BY <1>6 DEF IdleSave, TakeSave
<1>7. CASE RemoveProgress
  BY <1>7 DEF RemoveProgress
<1>8. CASE RenameProgress
  BY <1>8 DEF RenameProgress, AfterSave
<1>9. CASE SaveFails
  BY <1>9 DEF SaveFails, AfterSave, Requeue
<1>10. CASE Ask
  BY <1>10 DEF Ask
<1>11. CASE Leave
  BY <1>11 DEF Leave, TakeSave
<1>12. CASE ReturnFromEnd
  BY <1>12 DEF ReturnFromEnd
<1>13. CASE \E p \in {page + 1, page - 1} \intersect Places : Turn(p)
  BY <1>13 DEF Turn
<1>14. CASE \E accepted \in BOOLEAN : Answer(accepted)
  BY <1>14 DEF Answer
<1>15. CASE NothingToRecord
  BY <1>15 DEF NothingToRecord, Shut, Unchanged
<1>16. CASE NextSequence
  BY <1>16 DEF NextSequence, Unchanged
<1>17. CASE CounterWritten
  BY <1>17 DEF CounterWritten
<1>18. CASE CounterFails
  BY <1>18 DEF CounterFails
<1>19. CASE RemoveRecord
  BY <1>19 DEF RemoveRecord
<1>20. CASE RenameRecord
  BY <1>20 DEF RenameRecord, Shut
<1>21. CASE RecordFails
  BY <1>21 DEF RecordFails, Shut
<1>22. CASE RenderBegins
  BY <1>22 DEF RenderBegins
<1>23. CASE RenderEnds
  BY <1>23 DEF RenderEnds, QueueSave
<1>24. CASE Cut
  BY <1>24 DEF Cut, Shut
<1>25. CASE UNCHANGED vars
  BY <1>25 DEF vars
<1>26. QED
  BY <1>1, <1>2, <1>3, <1>4, <1>5, <1>6, <1>7, <1>8, <1>9, <1>10, <1>11, <1>12, <1>13, <1>14,
     <1>15, <1>16, <1>17, <1>18, <1>19, <1>20, <1>21, <1>22, <1>23, <1>24, <1>25 DEF Next, Companion, Reader, Recording

\* A frame is drawn of a place of the book.
LEMMA RenderKept ==
  ASSUME ProgressInv, [Next]_vars
  PROVE  RenderTyped'
<1> USE Bounds DEF ProgressInv, Typed, ReaderTyped, RenderTyped, CardTyped, Places, Pages, End,
       Seqs, Records, Offers, card, reader, render, history
<1>1. CASE List
  BY <1>1 DEF List, Current
<1>2. CASE \E o \in Offered : StoreOffer(o)
  BY <1>2 DEF StoreOffer, Acceptable, Offered, Current
<1>3. CASE OfferStored
  BY <1>3 DEF OfferStored
<1>4. CASE StoreFails
  BY <1>4 DEF StoreFails, Shut
<1>5. CASE Open
  BY <1>5 DEF Open
<1>6. CASE IdleSave
  BY <1>6 DEF IdleSave, TakeSave
<1>7. CASE RemoveProgress
  BY <1>7 DEF RemoveProgress
<1>8. CASE RenameProgress
  BY <1>8 DEF RenameProgress, AfterSave
<1>9. CASE SaveFails
  BY <1>9 DEF SaveFails, AfterSave, Requeue
<1>10. CASE Ask
  BY <1>10 DEF Ask
<1>11. CASE Leave
  BY <1>11 DEF Leave, TakeSave
<1>12. CASE ReturnFromEnd
  BY <1>12 DEF ReturnFromEnd
<1>13. CASE \E p \in {page + 1, page - 1} \intersect Places : Turn(p)
  BY <1>13 DEF Turn
<1>14. CASE \E accepted \in BOOLEAN : Answer(accepted)
  BY <1>14 DEF Answer
<1>15. CASE NothingToRecord
  BY <1>15 DEF NothingToRecord, Shut, Unchanged
<1>16. CASE NextSequence
  BY <1>16 DEF NextSequence, Unchanged
<1>17. CASE CounterWritten
  BY <1>17 DEF CounterWritten
<1>18. CASE CounterFails
  BY <1>18 DEF CounterFails
<1>19. CASE RemoveRecord
  BY <1>19 DEF RemoveRecord
<1>20. CASE RenameRecord
  BY <1>20 DEF RenameRecord, Shut
<1>21. CASE RecordFails
  BY <1>21 DEF RecordFails, Shut
<1>22. CASE RenderBegins
  <2>1. page' \in Places
    BY <1>22 DEF RenderBegins
  <2>2. wanted' = FALSE /\ drawing' = page' /\ section' \in {section, "laid"}
    BY <1>22 DEF RenderBegins
  <2>3. QED
    BY <2>1, <2>2
<1>23. CASE RenderEnds
  BY <1>23 DEF RenderEnds, QueueSave
<1>24. CASE Cut
  BY <1>24 DEF Cut, Shut
<1>25. CASE UNCHANGED vars
  BY <1>25 DEF vars
<1>26. QED
  BY <1>1, <1>2, <1>3, <1>4, <1>5, <1>6, <1>7, <1>8, <1>9, <1>10, <1>11, <1>12, <1>13, <1>14,
     <1>15, <1>16, <1>17, <1>18, <1>19, <1>20, <1>21, <1>22, <1>23, <1>24, <1>25 DEF Next, Companion, Reader, Recording

\* The histories name places and records; no failure passes the bound.
LEMMA HistoryKept ==
  ASSUME ProgressInv, [Next]_vars
  PROVE  HistoryTyped'
<1> USE Bounds DEF ProgressInv, Typed, HistoryTyped, CardTyped, ReaderTyped, Places, Pages,
       End, Seqs, Records, Offers, card, reader, render, history
<1>1. CASE List
  BY <1>1 DEF List, Current
<1>2. CASE \E o \in Offered : StoreOffer(o)
  BY <1>2 DEF StoreOffer, Acceptable, Offered, Current
<1>3. CASE OfferStored
  BY <1>3 DEF OfferStored
<1>4. CASE StoreFails
  BY <1>4 DEF StoreFails, Shut
<1>5. CASE Open
  BY <1>5 DEF Open
<1>6. CASE IdleSave
  BY <1>6 DEF IdleSave, TakeSave
<1>7. CASE RemoveProgress
  BY <1>7 DEF RemoveProgress
<1>8. CASE RenameProgress
  BY <1>8 DEF RenameProgress, AfterSave
<1>9. CASE SaveFails
  BY <1>9 DEF SaveFails, AfterSave, Requeue
<1>10. CASE Ask
  BY <1>10 DEF Ask
<1>11. CASE Leave
  BY <1>11 DEF Leave, TakeSave
<1>12. CASE ReturnFromEnd
  BY <1>12 DEF ReturnFromEnd
<1>13. CASE \E p \in {page + 1, page - 1} \intersect Places : Turn(p)
  BY <1>13 DEF Turn
<1>14. CASE \E accepted \in BOOLEAN : Answer(accepted)
  BY <1>14 DEF Answer
<1>15. CASE NothingToRecord
  BY <1>15 DEF NothingToRecord, Shut, Unchanged
<1>16. CASE NextSequence
  BY <1>16 DEF NextSequence, Unchanged
<1>17. CASE CounterWritten
  BY <1>17 DEF CounterWritten
<1>18. CASE CounterFails
  BY <1>18 DEF CounterFails
<1>19. CASE RemoveRecord
  BY <1>19 DEF RemoveRecord
<1>20. CASE RenameRecord
  BY <1>20 DEF RenameRecord, Shut
<1>21. CASE RecordFails
  <2>1. upsets' \in 0 .. MaxUpsets
    BY <1>21 DEF RecordFails
  <2>2. clean' = FALSE /\ UNCHANGED <<due, lost, seen>>
    BY <1>21 DEF RecordFails
  <2>3. QED
    BY <2>1, <2>2
<1>22. CASE RenderBegins
  BY <1>22 DEF RenderBegins
<1>23. CASE RenderEnds
  BY <1>23 DEF RenderEnds, QueueSave
<1>24. CASE Cut
  BY <1>24 DEF Cut, Shut
<1>25. CASE UNCHANGED vars
  BY <1>25 DEF vars
<1>26. QED
  BY <1>1, <1>2, <1>3, <1>4, <1>5, <1>6, <1>7, <1>8, <1>9, <1>10, <1>11, <1>12, <1>13, <1>14,
     <1>15, <1>16, <1>17, <1>18, <1>19, <1>20, <1>21, <1>22, <1>23, <1>24, <1>25 DEF Next, Companion, Reader, Recording

\* In each step the main loop holds what that step writes, and nothing otherwise; the
\* sequence it takes for a record is within the bound, since Open left room for it.
LEMMA HeldKept ==
  ASSUME ProgressInv, [Next]_vars
  PROVE  HeldTyped'
<1> USE Bounds DEF ProgressInv, Typed, HeldTyped, ReaderTyped, CardTyped, HistoryTyped,
       PathInv, Steps, Places, Pages, End, Seqs, Records, Offers, card, reader, render, history
<1>1. CASE List
  BY <1>1 DEF List, Current
<1>2. CASE \E o \in Offered : StoreOffer(o)
  BY <1>2 DEF StoreOffer, Acceptable, Offered, Current
<1>3. CASE OfferStored
  BY <1>3 DEF OfferStored
<1>4. CASE StoreFails
  BY <1>4 DEF StoreFails, Shut
<1>5. CASE Open
  BY <1>5 DEF Open
<1>6. CASE IdleSave
  BY <1>6 DEF IdleSave, TakeSave
<1>7. CASE RemoveProgress
  BY <1>7 DEF RemoveProgress
<1>8. CASE RenameProgress
  BY <1>8 DEF RenameProgress, AfterSave
<1>9. CASE SaveFails
  BY <1>9 DEF SaveFails, AfterSave, Requeue
<1>10. CASE Ask
  BY <1>10 DEF Ask
<1>11. CASE Leave
  BY <1>11 DEF Leave, TakeSave
<1>12. CASE ReturnFromEnd
  BY <1>12 DEF ReturnFromEnd
<1>13. CASE \E p \in {page + 1, page - 1} \intersect Places : Turn(p)
  BY <1>13 DEF Turn
<1>14. CASE \E accepted \in BOOLEAN : Answer(accepted)
  BY <1>14 DEF Answer
<1>15. CASE NothingToRecord
  BY <1>15 DEF NothingToRecord, Shut, Unchanged
<1>16. CASE NextSequence
  BY <1>16 DEF NextSequence, Unchanged
<1>17. CASE CounterWritten
  BY <1>17 DEF CounterWritten
<1>18. CASE CounterFails
  BY <1>18 DEF CounterFails
<1>19. CASE RemoveRecord
  BY <1>19 DEF RemoveRecord
<1>20. CASE RenameRecord
  BY <1>20 DEF RenameRecord, Shut
<1>21. CASE RecordFails
  BY <1>21 DEF RecordFails, Shut
<1>22. CASE RenderBegins
  BY <1>22 DEF RenderBegins
<1>23. CASE RenderEnds
  BY <1>23 DEF RenderEnds, QueueSave
<1>24. CASE Cut
  BY <1>24 DEF Cut, Shut
<1>25. CASE UNCHANGED vars
  BY <1>25 DEF vars
<1>26. QED
  BY <1>1, <1>2, <1>3, <1>4, <1>5, <1>6, <1>7, <1>8, <1>9, <1>10, <1>11, <1>12, <1>13, <1>14,
     <1>15, <1>16, <1>17, <1>18, <1>19, <1>20, <1>21, <1>22, <1>23, <1>24, <1>25 DEF Next, Companion, Reader, Recording

\* The steps of an exit follow one another in the order of the code.
LEMMA PathKept ==
  ASSUME ProgressInv, [Next]_vars
  PROVE  PathInv'
<1> USE Bounds DEF ProgressInv, Typed, PathInv, HeldTyped, CardTyped, Steps, Places, Pages,
       End, Seqs, Records, Offers, card, reader, render, history
<1>1. CASE List
  BY <1>1 DEF List, Current
<1>2. CASE \E o \in Offered : StoreOffer(o)
  BY <1>2 DEF StoreOffer, Acceptable, Offered, Current
<1>3. CASE OfferStored
  BY <1>3 DEF OfferStored
<1>4. CASE StoreFails
  BY <1>4 DEF StoreFails, Shut
<1>5. CASE Open
  BY <1>5 DEF Open
<1>6. CASE IdleSave
  BY <1>6 DEF IdleSave, TakeSave
<1>7. CASE RemoveProgress
  BY <1>7 DEF RemoveProgress
<1>8. CASE RenameProgress
  BY <1>8 DEF RenameProgress, AfterSave
<1>9. CASE SaveFails
  BY <1>9 DEF SaveFails, AfterSave, Requeue
<1>10. CASE Ask
  BY <1>10 DEF Ask
<1>11. CASE Leave
  BY <1>11 DEF Leave, TakeSave
<1>12. CASE ReturnFromEnd
  BY <1>12 DEF ReturnFromEnd
<1>13. CASE \E p \in {page + 1, page - 1} \intersect Places : Turn(p)
  BY <1>13 DEF Turn
<1>14. CASE \E accepted \in BOOLEAN : Answer(accepted)
  BY <1>14 DEF Answer
<1>15. CASE NothingToRecord
  BY <1>15 DEF NothingToRecord, Shut, Unchanged
<1>16. CASE NextSequence
  BY <1>16 DEF NextSequence, Unchanged
<1>17. CASE CounterWritten
  BY <1>17 DEF CounterWritten
<1>18. CASE CounterFails
  BY <1>18 DEF CounterFails
<1>19. CASE RemoveRecord
  BY <1>19 DEF RemoveRecord
<1>20. CASE RenameRecord
  BY <1>20 DEF RenameRecord, Shut
<1>21. CASE RecordFails
  BY <1>21 DEF RecordFails, Shut
<1>22. CASE RenderBegins
  BY <1>22 DEF RenderBegins
<1>23. CASE RenderEnds
  BY <1>23 DEF RenderEnds, QueueSave
<1>24. CASE Cut
  BY <1>24 DEF Cut, Shut
<1>25. CASE UNCHANGED vars
  BY <1>25 DEF vars
<1>26. QED
  BY <1>1, <1>2, <1>3, <1>4, <1>5, <1>6, <1>7, <1>8, <1>9, <1>10, <1>11, <1>12, <1>13, <1>14,
     <1>15, <1>16, <1>17, <1>18, <1>19, <1>20, <1>21, <1>22, <1>23, <1>24, <1>25 DEF Next, Companion, Reader, Recording

\* A new sequence is taken above every one in use, and the counter reaches the card
\* before the record that uses it.
LEMMA BoundKept ==
  ASSUME ProgressInv, [Next]_vars
  PROVE  SequenceBound'
<1> USE Bounds DEF ProgressInv, Typed, SequenceBound, CountedInv, PathInv, CardTyped,
       HeldTyped, HistoryTyped, Places, Pages, End, Seqs, Records, Offers, card, reader,
       render, history
<1>1. CASE List
  BY <1>1 DEF List, Current
<1>2. CASE \E o \in Offered : StoreOffer(o)
  BY <1>2 DEF StoreOffer, Acceptable, Offered, Current
<1>3. CASE OfferStored
  BY <1>3 DEF OfferStored
<1>4. CASE StoreFails
  BY <1>4 DEF StoreFails, Shut
<1>5. CASE Open
  BY <1>5 DEF Open
<1>6. CASE IdleSave
  BY <1>6 DEF IdleSave, TakeSave
<1>7. CASE RemoveProgress
  BY <1>7 DEF RemoveProgress
<1>8. CASE RenameProgress
  BY <1>8 DEF RenameProgress, AfterSave
<1>9. CASE SaveFails
  BY <1>9 DEF SaveFails, AfterSave, Requeue
<1>10. CASE Ask
  BY <1>10 DEF Ask
<1>11. CASE Leave
  BY <1>11 DEF Leave, TakeSave
<1>12. CASE ReturnFromEnd
  BY <1>12 DEF ReturnFromEnd
<1>13. CASE \E p \in {page + 1, page - 1} \intersect Places : Turn(p)
  BY <1>13 DEF Turn
<1>14. CASE \E accepted \in BOOLEAN : Answer(accepted)
  BY <1>14 DEF Answer
<1>15. CASE NothingToRecord
  BY <1>15 DEF NothingToRecord, Shut, Unchanged
<1>16. CASE NextSequence
  BY <1>16 DEF NextSequence, Unchanged
<1>17. CASE CounterWritten
  BY <1>17 DEF CounterWritten
<1>18. CASE CounterFails
  BY <1>18 DEF CounterFails
<1>19. CASE RemoveRecord
  BY <1>19 DEF RemoveRecord
<1>20. CASE RenameRecord
  BY <1>20 DEF RenameRecord, Shut
<1>21. CASE RecordFails
  BY <1>21 DEF RecordFails, Shut
<1>22. CASE RenderBegins
  BY <1>22 DEF RenderBegins
<1>23. CASE RenderEnds
  BY <1>23 DEF RenderEnds, QueueSave
<1>24. CASE Cut
  BY <1>24 DEF Cut, Shut
<1>25. CASE UNCHANGED vars
  BY <1>25 DEF vars
<1>26. QED
  BY <1>1, <1>2, <1>3, <1>4, <1>5, <1>6, <1>7, <1>8, <1>9, <1>10, <1>11, <1>12, <1>13, <1>14,
     <1>15, <1>16, <1>17, <1>18, <1>19, <1>20, <1>21, <1>22, <1>23, <1>24, <1>25 DEF Next, Companion, Reader, Recording

\* The counter stays at the sequence it was written with until the record is in place.
LEMMA CountedKept ==
  ASSUME ProgressInv, [Next]_vars
  PROVE  CountedInv'
<1> USE Bounds DEF ProgressInv, Typed, CountedInv, HeldTyped, PathInv, Places, Pages, End,
       Seqs, Records, Offers, card, reader, render, history
<1>1. CASE List
  BY <1>1 DEF List, Current
<1>2. CASE \E o \in Offered : StoreOffer(o)
  BY <1>2 DEF StoreOffer, Acceptable, Offered, Current
<1>3. CASE OfferStored
  BY <1>3 DEF OfferStored
<1>4. CASE StoreFails
  BY <1>4 DEF StoreFails, Shut
<1>5. CASE Open
  BY <1>5 DEF Open
<1>6. CASE IdleSave
  BY <1>6 DEF IdleSave, TakeSave
<1>7. CASE RemoveProgress
  BY <1>7 DEF RemoveProgress
<1>8. CASE RenameProgress
  BY <1>8 DEF RenameProgress, AfterSave
<1>9. CASE SaveFails
  BY <1>9 DEF SaveFails, AfterSave, Requeue
<1>10. CASE Ask
  BY <1>10 DEF Ask
<1>11. CASE Leave
  BY <1>11 DEF Leave, TakeSave
<1>12. CASE ReturnFromEnd
  BY <1>12 DEF ReturnFromEnd
<1>13. CASE \E p \in {page + 1, page - 1} \intersect Places : Turn(p)
  BY <1>13 DEF Turn
<1>14. CASE \E accepted \in BOOLEAN : Answer(accepted)
  BY <1>14 DEF Answer
<1>15. CASE NothingToRecord
  BY <1>15 DEF NothingToRecord, Shut, Unchanged
<1>16. CASE NextSequence
  BY <1>16 DEF NextSequence, Unchanged
<1>17. CASE CounterWritten
  BY <1>17 DEF CounterWritten
<1>18. CASE CounterFails
  BY <1>18 DEF CounterFails
<1>19. CASE RemoveRecord
  BY <1>19 DEF RemoveRecord
<1>20. CASE RenameRecord
  BY <1>20 DEF RenameRecord, Shut
<1>21. CASE RecordFails
  BY <1>21 DEF RecordFails, Shut
<1>22. CASE RenderBegins
  BY <1>22 DEF RenderBegins
<1>23. CASE RenderEnds
  BY <1>23 DEF RenderEnds, QueueSave
<1>24. CASE Cut
  BY <1>24 DEF Cut, Shut
<1>25. CASE UNCHANGED vars
  BY <1>25 DEF vars
<1>26. QED
  BY <1>1, <1>2, <1>3, <1>4, <1>5, <1>6, <1>7, <1>8, <1>9, <1>10, <1>11, <1>12, <1>13, <1>14,
     <1>15, <1>16, <1>17, <1>18, <1>19, <1>20, <1>21, <1>22, <1>23, <1>24, <1>25 DEF Next, Companion, Reader, Recording

\* A record that is replaced gets a sequence no companion has seen; one that is listed
\* is the record the earlier ones were compared with.
LEMMA NamesKept ==
  ASSUME ProgressInv, [Next]_vars
  PROVE  SequenceNamesPlace'
<1> USE Bounds DEF ProgressInv, Typed, SequenceNamesPlace, SequenceBound, CardTyped, HeldTyped,
       HistoryTyped, CountedInv, Places, Pages, End, Seqs, Records, Offers, card, reader,
       render, history
<1>1. CASE List
  BY <1>1 DEF List, Current
<1>2. CASE \E o \in Offered : StoreOffer(o)
  BY <1>2 DEF StoreOffer, Acceptable, Offered, Current
<1>3. CASE OfferStored
  BY <1>3 DEF OfferStored
<1>4. CASE StoreFails
  BY <1>4 DEF StoreFails, Shut
<1>5. CASE Open
  BY <1>5 DEF Open
<1>6. CASE IdleSave
  BY <1>6 DEF IdleSave, TakeSave
<1>7. CASE RemoveProgress
  BY <1>7 DEF RemoveProgress
<1>8. CASE RenameProgress
  BY <1>8 DEF RenameProgress, AfterSave
<1>9. CASE SaveFails
  BY <1>9 DEF SaveFails, AfterSave, Requeue
<1>10. CASE Ask
  BY <1>10 DEF Ask
<1>11. CASE Leave
  BY <1>11 DEF Leave, TakeSave
<1>12. CASE ReturnFromEnd
  BY <1>12 DEF ReturnFromEnd
<1>13. CASE \E p \in {page + 1, page - 1} \intersect Places : Turn(p)
  BY <1>13 DEF Turn
<1>14. CASE \E accepted \in BOOLEAN : Answer(accepted)
  BY <1>14 DEF Answer
<1>15. CASE NothingToRecord
  BY <1>15 DEF NothingToRecord, Shut, Unchanged
<1>16. CASE NextSequence
  BY <1>16 DEF NextSequence, Unchanged
<1>17. CASE CounterWritten
  BY <1>17 DEF CounterWritten
<1>18. CASE CounterFails
  BY <1>18 DEF CounterFails
<1>19. CASE RemoveRecord
  BY <1>19 DEF RemoveRecord
<1>20. CASE RenameRecord
  <2>1. record' = held /\ held \in Records /\ UNCHANGED <<lost, seen>>
    BY <1>20 DEF RenameRecord
  <2>2. ~lost => \A r \in seen : r.seq \in Nat /\ r.seq < held.seq
    BY <1>20 DEF RenameRecord
  <2>3. ~lost => \A r \in seen, q \in seen : r.seq = q.seq => r.page = q.page
    OBVIOUS
  <2>4. ~lost => \A r \in seen : r.seq # held.seq
    BY <2>1, <2>2
  <2>5. QED
    BY <2>1, <2>3, <2>4 DEF SequenceNamesPlace
<1>21. CASE RecordFails
  BY <1>21 DEF RecordFails, Shut
<1>22. CASE RenderBegins
  BY <1>22 DEF RenderBegins
<1>23. CASE RenderEnds
  BY <1>23 DEF RenderEnds, QueueSave
<1>24. CASE Cut
  BY <1>24 DEF Cut, Shut
<1>25. CASE UNCHANGED vars
  BY <1>25 DEF vars
<1>26. QED
  BY <1>1, <1>2, <1>3, <1>4, <1>5, <1>6, <1>7, <1>8, <1>9, <1>10, <1>11, <1>12, <1>13, <1>14,
     <1>15, <1>16, <1>17, <1>18, <1>19, <1>20, <1>21, <1>22, <1>23, <1>24, <1>25 DEF Next, Companion, Reader, Recording

\* An offer is accepted under the sequence of a record that is current, and that
\* sequence names one place; no page is saved before the offer is stored.
LEMMA StoringKept ==
  ASSUME ProgressInv, [Next]_vars
  PROVE  StoringInv'
<1> USE Bounds DEF ProgressInv, Typed, StoringInv, SequenceNamesPlace, CardTyped, HeldTyped,
       HistoryTyped, PathInv, Places, Pages, End, Seqs, Records, Offers, card, reader, render,
       history
<1>1. CASE List
  BY <1>1 DEF List, Current
<1>2. CASE \E o \in Offered : StoreOffer(o)
  BY <1>2 DEF StoreOffer, Acceptable, Offered, Current
<1>3. CASE OfferStored
  BY <1>3 DEF OfferStored
<1>4. CASE StoreFails
  BY <1>4 DEF StoreFails, Shut
<1>5. CASE Open
  BY <1>5 DEF Open
<1>6. CASE IdleSave
  BY <1>6 DEF IdleSave, TakeSave
<1>7. CASE RemoveProgress
  BY <1>7 DEF RemoveProgress
<1>8. CASE RenameProgress
  BY <1>8 DEF RenameProgress, AfterSave
<1>9. CASE SaveFails
  BY <1>9 DEF SaveFails, AfterSave, Requeue
<1>10. CASE Ask
  BY <1>10 DEF Ask
<1>11. CASE Leave
  BY <1>11 DEF Leave, TakeSave
<1>12. CASE ReturnFromEnd
  BY <1>12 DEF ReturnFromEnd
<1>13. CASE \E p \in {page + 1, page - 1} \intersect Places : Turn(p)
  BY <1>13 DEF Turn
<1>14. CASE \E accepted \in BOOLEAN : Answer(accepted)
  BY <1>14 DEF Answer
<1>15. CASE NothingToRecord
  BY <1>15 DEF NothingToRecord, Shut, Unchanged
<1>16. CASE NextSequence
  BY <1>16 DEF NextSequence, Unchanged
<1>17. CASE CounterWritten
  BY <1>17 DEF CounterWritten
<1>18. CASE CounterFails
  BY <1>18 DEF CounterFails
<1>19. CASE RemoveRecord
  BY <1>19 DEF RemoveRecord
<1>20. CASE RenameRecord
  BY <1>20 DEF RenameRecord, Shut
<1>21. CASE RecordFails
  BY <1>21 DEF RecordFails, Shut
<1>22. CASE RenderBegins
  BY <1>22 DEF RenderBegins
<1>23. CASE RenderEnds
  BY <1>23 DEF RenderEnds, QueueSave
<1>24. CASE Cut
  BY <1>24 DEF Cut, Shut
<1>25. CASE UNCHANGED vars
  BY <1>25 DEF vars
<1>26. QED
  BY <1>1, <1>2, <1>3, <1>4, <1>5, <1>6, <1>7, <1>8, <1>9, <1>10, <1>11, <1>12, <1>13, <1>14,
     <1>15, <1>16, <1>17, <1>18, <1>19, <1>20, <1>21, <1>22, <1>23, <1>24, <1>25 DEF Next, Companion, Reader, Recording

\* A finished frame, an idle save and a failed one hand the place to be saved on to each
\* other without losing it.
LEMMA SaveKept ==
  ASSUME ProgressInv, [Next]_vars
  PROVE  SaveInv'
<1> USE Bounds DEF ProgressInv, Typed, SaveInv, Owed, PathInv, ReaderTyped, CardTyped,
       RenderTyped, HistoryTyped, HeldTyped, Places, Pages, End, Seqs, Records, Offers, card,
       reader, render, history
<1>1. CASE List
  BY <1>1 DEF List, Current
<1>2. CASE \E o \in Offered : StoreOffer(o)
  BY <1>2 DEF StoreOffer, Acceptable, Offered, Current
<1>3. CASE OfferStored
  BY <1>3 DEF OfferStored
<1>4. CASE StoreFails
  BY <1>4 DEF StoreFails, Shut
<1>5. CASE Open
  BY <1>5 DEF Open
<1>6. CASE IdleSave
  BY <1>6 DEF IdleSave, TakeSave
<1>7. CASE RemoveProgress
  BY <1>7 DEF RemoveProgress
<1>8. CASE RenameProgress
  BY <1>8 DEF RenameProgress, AfterSave
<1>9. CASE SaveFails
  BY <1>9 DEF SaveFails, AfterSave, Requeue
<1>10. CASE Ask
  BY <1>10 DEF Ask
<1>11. CASE Leave
  BY <1>11 DEF Leave, TakeSave
<1>12. CASE ReturnFromEnd
  BY <1>12 DEF ReturnFromEnd
<1>13. CASE \E p \in {page + 1, page - 1} \intersect Places : Turn(p)
  BY <1>13 DEF Turn
<1>14. CASE \E accepted \in BOOLEAN : Answer(accepted)
  BY <1>14 DEF Answer
<1>15. CASE NothingToRecord
  BY <1>15 DEF NothingToRecord, Shut, Unchanged
<1>16. CASE NextSequence
  BY <1>16 DEF NextSequence, Unchanged
<1>17. CASE CounterWritten
  BY <1>17 DEF CounterWritten
<1>18. CASE CounterFails
  BY <1>18 DEF CounterFails
<1>19. CASE RemoveRecord
  BY <1>19 DEF RemoveRecord
<1>20. CASE RenameRecord
  BY <1>20 DEF RenameRecord, Shut
<1>21. CASE RecordFails
  BY <1>21 DEF RecordFails, Shut
<1>22. CASE RenderBegins
  BY <1>22 DEF RenderBegins
<1>23. CASE RenderEnds
  BY <1>23 DEF RenderEnds, QueueSave
<1>24. CASE Cut
  BY <1>24 DEF Cut, Shut
<1>25. CASE UNCHANGED vars
  BY <1>25 DEF vars
<1>26. QED
  BY <1>1, <1>2, <1>3, <1>4, <1>5, <1>6, <1>7, <1>8, <1>9, <1>10, <1>11, <1>12, <1>13, <1>14,
     <1>15, <1>16, <1>17, <1>18, <1>19, <1>20, <1>21, <1>22, <1>23, <1>24, <1>25 DEF Next, Companion, Reader, Recording

\* An undisturbed exit ends with everything saved, and nothing else writes the page.
LEMMA SavedKept ==
  ASSUME ProgressInv, [Next]_vars
  PROVE  SavedInv'
<1> USE Bounds DEF ProgressInv, Typed, SavedInv, SaveInv, HeldTyped, PathInv, HistoryTyped,
       Places, Pages, End, Seqs, Records, Offers, card, reader, render, history
<1>1. CASE List
  BY <1>1 DEF List, Current
<1>2. CASE \E o \in Offered : StoreOffer(o)
  BY <1>2 DEF StoreOffer, Acceptable, Offered, Current
<1>3. CASE OfferStored
  BY <1>3 DEF OfferStored
<1>4. CASE StoreFails
  BY <1>4 DEF StoreFails, Shut
<1>5. CASE Open
  BY <1>5 DEF Open
<1>6. CASE IdleSave
  BY <1>6 DEF IdleSave, TakeSave
<1>7. CASE RemoveProgress
  BY <1>7 DEF RemoveProgress
<1>8. CASE RenameProgress
  BY <1>8 DEF RenameProgress, AfterSave
<1>9. CASE SaveFails
  BY <1>9 DEF SaveFails, AfterSave, Requeue
<1>10. CASE Ask
  BY <1>10 DEF Ask
<1>11. CASE Leave
  BY <1>11 DEF Leave, TakeSave
<1>12. CASE ReturnFromEnd
  BY <1>12 DEF ReturnFromEnd
<1>13. CASE \E p \in {page + 1, page - 1} \intersect Places : Turn(p)
  BY <1>13 DEF Turn
<1>14. CASE \E accepted \in BOOLEAN : Answer(accepted)
  BY <1>14 DEF Answer
<1>15. CASE NothingToRecord
  BY <1>15 DEF NothingToRecord, Shut, Unchanged
<1>16. CASE NextSequence
  BY <1>16 DEF NextSequence, Unchanged
<1>17. CASE CounterWritten
  BY <1>17 DEF CounterWritten
<1>18. CASE CounterFails
  BY <1>18 DEF CounterFails
<1>19. CASE RemoveRecord
  BY <1>19 DEF RemoveRecord
<1>20. CASE RenameRecord
  BY <1>20 DEF RenameRecord, Shut
<1>21. CASE RecordFails
  BY <1>21 DEF RecordFails, Shut
<1>22. CASE RenderBegins
  BY <1>22 DEF RenderBegins
<1>23. CASE RenderEnds
  BY <1>23 DEF RenderEnds, QueueSave
<1>24. CASE Cut
  BY <1>24 DEF Cut, Shut
<1>25. CASE UNCHANGED vars
  BY <1>25 DEF vars
<1>26. QED
  BY <1>1, <1>2, <1>3, <1>4, <1>5, <1>6, <1>7, <1>8, <1>9, <1>10, <1>11, <1>12, <1>13, <1>14,
     <1>15, <1>16, <1>17, <1>18, <1>19, <1>20, <1>21, <1>22, <1>23, <1>24, <1>25 DEF Next, Companion, Reader, Recording

\* The record written at an exit names the place left; a place already recorded is
\* left as it is.
LEMMA LeftKept ==
  ASSUME ProgressInv, [Next]_vars
  PROVE  LeftInv'
<1> USE Bounds DEF ProgressInv, Typed, LeftInv, SaveInv, HeldTyped, PathInv, HistoryTyped,
       CardTyped, Places, Pages, End, Seqs, Records, Offers, card, reader, render, history
<1>1. CASE List
  BY <1>1 DEF List, Current
<1>2. CASE \E o \in Offered : StoreOffer(o)
  BY <1>2 DEF StoreOffer, Acceptable, Offered, Current
<1>3. CASE OfferStored
  BY <1>3 DEF OfferStored
<1>4. CASE StoreFails
  BY <1>4 DEF StoreFails, Shut
<1>5. CASE Open
  BY <1>5 DEF Open
<1>6. CASE IdleSave
  BY <1>6 DEF IdleSave, TakeSave
<1>7. CASE RemoveProgress
  BY <1>7 DEF RemoveProgress
<1>8. CASE RenameProgress
  BY <1>8 DEF RenameProgress, AfterSave
<1>9. CASE SaveFails
  BY <1>9 DEF SaveFails, AfterSave, Requeue
<1>10. CASE Ask
  BY <1>10 DEF Ask
<1>11. CASE Leave
  BY <1>11 DEF Leave, TakeSave
<1>12. CASE ReturnFromEnd
  BY <1>12 DEF ReturnFromEnd
<1>13. CASE \E p \in {page + 1, page - 1} \intersect Places : Turn(p)
  BY <1>13 DEF Turn
<1>14. CASE \E accepted \in BOOLEAN : Answer(accepted)
  BY <1>14 DEF Answer
<1>15. CASE NothingToRecord
  BY <1>15 DEF NothingToRecord, Shut, Unchanged
<1>16. CASE NextSequence
  BY <1>16 DEF NextSequence, Unchanged
<1>17. CASE CounterWritten
  BY <1>17 DEF CounterWritten
<1>18. CASE CounterFails
  BY <1>18 DEF CounterFails
<1>19. CASE RemoveRecord
  BY <1>19 DEF RemoveRecord
<1>20. CASE RenameRecord
  BY <1>20 DEF RenameRecord, Shut
<1>21. CASE RecordFails
  BY <1>21 DEF RecordFails, Shut
<1>22. CASE RenderBegins
  BY <1>22 DEF RenderBegins
<1>23. CASE RenderEnds
  BY <1>23 DEF RenderEnds, QueueSave
<1>24. CASE Cut
  BY <1>24 DEF Cut, Shut
<1>25. CASE UNCHANGED vars
  BY <1>25 DEF vars
<1>26. QED
  BY <1>1, <1>2, <1>3, <1>4, <1>5, <1>6, <1>7, <1>8, <1>9, <1>10, <1>11, <1>12, <1>13, <1>14,
     <1>15, <1>16, <1>17, <1>18, <1>19, <1>20, <1>21, <1>22, <1>23, <1>24, <1>25 DEF Next, Companion, Reader, Recording

-------------------------------------------------------------------------------
(* The invariant, and what follows from it.                                  *)

\* The device starts with an empty card and no book open.
LEMMA InitEstablishes == Init => ProgressInv
<1> SUFFICES ASSUME Init PROVE ProgressInv
  OBVIOUS
<1> USE Bounds DEF Init
<1>1. CardTyped /\ ReaderTyped /\ RenderTyped
  <2>1. CardTyped
    BY DEF CardTyped
  <2>2. page \in Places
    BY DEF Places, End
  <2>3. QED
    BY <2>1, <2>2 DEF ReaderTyped, RenderTyped
<1>2. HistoryTyped /\ HeldTyped
  <2>1. upsets \in 0 .. MaxUpsets
    BY SMT
  <2>2. seen \subseteq Records
    BY Zenon
  <2>3. HistoryTyped
    BY <2>1, <2>2 DEF HistoryTyped
  <2>4. HeldTyped
    BY DEF HeldTyped, Steps
  <2>5. QED
    BY <2>3, <2>4
<1>3. PathInv /\ SequenceBound /\ CountedInv /\ SequenceNamesPlace /\ StoringInv
  BY DEF PathInv, SequenceBound, CountedInv, SequenceNamesPlace, StoringInv
<1>4. SaveInv /\ SavedInv /\ LeftInv
  BY DEF SaveInv, SavedInv, LeftInv
<1>5. QED
  BY <1>1, <1>2, <1>3, <1>4 DEF ProgressInv, Typed

\* Every step keeps all parts.
LEMMA StepKeeps == ProgressInv /\ [Next]_vars => ProgressInv'
<1> SUFFICES ASSUME ProgressInv, [Next]_vars PROVE ProgressInv'
  OBVIOUS
<1>1. Typed'
  BY CardKept, ReaderKept, RenderKept, HistoryKept, HeldKept DEF Typed
<1>2. PathInv' /\ SequenceBound' /\ CountedInv' /\ SequenceNamesPlace' /\ StoringInv'
  BY PathKept, BoundKept, CountedKept, NamesKept, StoringKept
<1>3. SaveInv' /\ SavedInv' /\ LeftInv'
  BY SaveKept, SavedKept, LeftKept
<1>4. QED
  BY <1>1, <1>2, <1>3 DEF ProgressInv

\* The strengthening of the properties below is an invariant of the program.
THEOREM ProgressInvariant == Spec => []ProgressInv
  BY InitEstablishes, StepKeeps, PTL DEF Spec

\* The files, the queued page and the page at hand name places of the book, whatever
\* was cut or failed.
THEOREM ProgressTypeCorrect == Spec => []TypeOK
<1>1. ProgressInv => TypeOK
  <2> SUFFICES ASSUME ProgressInv PROVE TypeOK
    OBVIOUS
  <2>1. held \in [page : Places] \union Records \union Offers \union {None}
    BY DEF ProgressInv, Typed, HeldTyped, Steps
  <2>2. QED
    BY <2>1 DEF ProgressInv, Typed, CardTyped, ReaderTyped, RenderTyped, HistoryTyped,
       HeldTyped, TypeOK
<1>2. QED
  BY <1>1, ProgressInvariant, PTL

\* No two records a companion could have read carry one sequence and different places,
\* for any number of exits, failures and power cuts, while the counter could be written.
THEOREM SequencesNamePlaces == Spec => []SequenceNamesPlace
<1>1. ProgressInv => SequenceNamesPlace
  BY DEF ProgressInv
<1>2. QED
  BY <1>1, ProgressInvariant, PTL

\* After an undisturbed exit the saved page is the one the last finished frame left.
THEOREM SavesKept == Spec => []SavesLastDrawn
<1>1. ProgressInv => SavesLastDrawn
  BY DEF ProgressInv, SavedInv, SavesLastDrawn
<1>2. QED
  BY <1>1, ProgressInvariant, PTL

\* A page that was drawn and left is the page the next list reports, under a sequence.
THEOREM ReportsPlace == Spec => []ReportsWhereLeft
<1>1. ProgressInv => ReportsWhereLeft
  BY DEF ProgressInv, SavedInv, LeftInv, ReportsWhereLeft, Current, Reported
<1>2. QED
  BY <1>1, ProgressInvariant, PTL

\* A bound offer reaches the card only against the place its companion saw.
THEOREM OffersStoredSoundly == Spec => StoredAgainstSaved
<1> DEFINE Sound ==
      (step = "storing" /\ offer' # None /\ offer'.seq # 0 /\ ~lost /\ progress # None)
        => offer'.from = progress
<1>1. ProgressInv /\ [Next]_vars => [Sound]_vars
  <2> SUFFICES ASSUME ProgressInv, Next, step = "storing", offer' # None PROVE Sound
    BY DEF vars
  <2>1. offer = None
    BY DEF ProgressInv, PathInv
  <2>2. OfferStored
    <3>1. OfferStored \/ StoreFails \/ Cut
      BY DEF Next, Companion, Reader, Recording, List, StoreOffer, Open, IdleSave, RemoveProgress,
         RenameProgress, SaveFails, Ask, Leave, ReturnFromEnd, Turn, Answer, NothingToRecord,
         NextSequence, CounterWritten, CounterFails, RemoveRecord, RenameRecord, RecordFails,
         RenderBegins, RenderEnds, ProgressInv, PathInv
    <3>2. StoreFails \/ Cut => UNCHANGED offer
      BY DEF StoreFails, Cut, card
    <3>3. QED
      BY <2>1, <3>1, <3>2
  <2>3. offer' = held
    BY <2>2 DEF OfferStored
  <2>4. QED
    BY <2>3 DEF ProgressInv, StoringInv
<1>2. QED
  BY <1>1, ProgressInvariant, PTL DEF Spec, StoredAgainstSaved
===============================================================================
