---------------------------- MODULE SqRing_lemmas ---------------------------
(***************************************************************************)
(* Proofs about the submission ring, for every number of producers, every  *)
(* capacity of at least two cells and every retry and cursor bound.        *)
(*                                                                         *)
(* IndInv (module SqRing) is inductive.  Each conjunct has a lemma for the *)
(* steps of a producer and one for the steps of the consumer, with one     *)
(* case per action that can disturb it: the arithmetic of cells (positions *)
(* less than a lap apart never share one: CellDistinct, CellWrap) and the  *)
(* types; the cursors and the samples of a push; the cells, the histories  *)
(* and the consumer.  SqRing_theorems has the safety properties and the    *)
(* theorems.                                                               *)
(***************************************************************************)
EXTENDS SqRing, TLAPS

-----------------------------------------------------------------------------
(* Cells and numbers.                                                      *)

\* A position masked by the capacity is an index of the entry array.
LEMMA CellInRange == ASSUME NEW i \in Nat  PROVE Cell(i) \in Cells
  BY CapacityAssumption, SMT DEF Cell, Cells

\* Two positions less than a lap apart use different cells.
LEMMA CellDistinct ==
    ASSUME NEW i \in Nat, NEW j \in Nat, i < j, j < i + Capacity
    PROVE  Cell(i) # Cell(j)
<1> DEFINE a == j \div Capacity
           b == i \div Capacity
<1> SUFFICES ASSUME Cell(i) = Cell(j)  PROVE FALSE
  OBVIOUS
<1>1. \A k \in Nat : /\ k = Capacity * (k \div Capacity) + (k % Capacity)
                     /\ k \div Capacity \in Int /\ k % Capacity \in Nat
  BY CapacityAssumption, SMT
<1>2. /\ a \in Int /\ b \in Int /\ Cell(i) \in Nat
      /\ i = Capacity * b + Cell(i) /\ j = Capacity * a + Cell(j)
  BY <1>1 DEF Cell
<1> HIDE DEF a, b
<1>3. j - i = Capacity * (a - b)
  BY <1>2, CapacityAssumption
<1>4. CASE a - b >= 1
  <2>1. Capacity * (a - b) >= Capacity
    BY <1>4, <1>2, CapacityAssumption
  <2>2. QED  BY <2>1, <1>3, CapacityAssumption
<1>5. CASE a - b <= 0
  <2>1. Capacity * (a - b) <= 0
    BY <1>5, <1>2, CapacityAssumption
  <2>2. QED  BY <2>1, <1>3, CapacityAssumption
<1>6. QED  BY <1>2, <1>4, <1>5

\* A position one lap on uses the same cell.
LEMMA CellWrap == ASSUME NEW i \in Nat  PROVE Cell(i + Capacity) = Cell(i)
<1> DEFINE d == i \div Capacity
<1>1. d \in Int /\ i = Capacity * d + Cell(i) /\ Cell(i) \in 0 .. Capacity - 1
  BY CapacityAssumption, SMT DEF Cell
<1>2. \A k \in Nat, e \in Int, r \in 0 .. Capacity - 1 :
         k = Capacity * e + r => k % Capacity = r
  BY CapacityAssumption, SMT
<1> HIDE DEF d
<1>3. Capacity * (d + 1) = Capacity * d + Capacity
  BY <1>1, CapacityAssumption
<1>4. i + Capacity = Capacity * (d + 1) + Cell(i)
  BY <1>1, <1>3, CapacityAssumption
<1>5. i + Capacity \in Nat /\ d + 1 \in Int
  BY <1>1, CapacityAssumption
<1>6. QED  BY <1>1, <1>2, <1>4, <1>5 DEF Cell

\* Two different positions of the lap ahead of head use different cells.
LEMMA LapDistinct ==
    ASSUME NEW h \in Nat, NEW i \in h .. h + Capacity - 1,
           NEW j \in h .. h + Capacity - 1, i # j
    PROVE  Cell(i) # Cell(j)
<1>1. i \in Nat /\ j \in Nat /\ (i < j \/ j < i)
      /\ j < i + Capacity /\ i < j + Capacity
  BY CapacityAssumption
<1>2. QED  BY <1>1, CellDistinct

\* Zero is a cursor and a retry count.
LEMMA Zeros == 0 \in Cursors /\ 0 \in 0 .. MaxRetries - 1
  BY CursorAssumption, RetriesAssumption DEF Cursors

\* The numeric content of TypeOK.
LEMMA Numbers ==
    ASSUME TypeOK
    PROVE  /\ tail \in Nat /\ head \in Nat /\ validatedHead \in Nat
           /\ tail <= MaxCursor /\ head <= MaxCursor /\ validatedHead <= MaxCursor
           /\ \A p \in Producers :
                /\ floor[p] \in Nat /\ observed[p] \in Nat /\ pushed[p] \in Nat
                /\ firstTail[p] \in Nat /\ firstHead[p] \in Nat
                /\ secondTail[p] \in Nat /\ pass[p] \in {1, 2}
                /\ firstTail[p] <= MaxCursor
  BY CursorAssumption
     DEF TypeOK, TypeRing, TypeProducers, TypeSnapshots, Cursors

LEMMA HeadNat == ASSUME IndInv  PROVE head \in Nat
<1>1. TypeOK  BY Zenon DEF IndInv
<1>2. QED  BY <1>1, Numbers, Zenon

\* Every entry of the history is a body.
LEMMA ReservedBodies ==
    ASSUME TypeOK, NEW i \in 1 .. Len(reserved)  PROVE reserved[i] \in Bodies
<1>1. reserved \in Seq(Bodies)  BY Zenon DEF TypeOK, TypeHistory
<1>2. QED  BY <1>1

\* The sequence of every cell is a number.
LEMMA SequenceNumbers == ASSUME TypeOK  PROVE \A i \in Nat : seq[Cell(i)] \in Nat
  BY CursorAssumption, CellInRange DEF TypeOK, TypeRing, Cursors

-----------------------------------------------------------------------------
(* What the inductive invariant says where it is used.                     *)

\* A step that changes nothing keeps it.
LEMMA StutterKeeps ==
    ASSUME IndInv, UNCHANGED vars  PROVE IndInv'
<1>1. TypeOK'
  BY DEF IndInv, vars, ringVars, prodVars, snapVars, consVars, histVars,
     TypeOK, TypeRing, TypeProducers, TypeSnapshots, TypeConsumer, TypeHistory
<1>2. CursorInv' /\ CellInv' /\ HistoryInv' /\ ConsumerInv'
  BY DEF IndInv, vars, ringVars, consVars, histVars,
     CursorInv, CellInv, HistoryInv, ConsumerInv
<1>3. \A q \in Producers : SampleInv(q)' /\ FullInv(q)' /\ WriterInv(q)'
  BY DEF IndInv, vars, ringVars, prodVars, snapVars, histVars,
     SampleInv, FullInv, WriterInv, Writing, Pushing
<1>4. NoFalseFault' /\ FullWasFull' /\ NoLostWake'
  BY Zenon DEF IndInv, vars, ringVars, prodVars, consVars, histVars,
     NoFalseFault, FullWasFull, NoLostWake
<1>5. QED  BY <1>1, <1>2, <1>3, <1>4 DEF IndInv

\* The sequence of the next cell is old or exactly the next one, and then the
\* entry is reserved and carries the body of its reservation.
LEMMA HeadSequence ==
    ASSUME IndInv
    PROVE  /\ seq[Cell(head)] <= head + 1
           /\ seq[Cell(head)] = head + 1 =>
                head < tail /\ body[Cell(head)] = reserved[head + 1]
<1>1. head \in head .. head + Capacity - 1
  BY Numbers, CapacityAssumption DEF IndInv
<1>2. QED  BY <1>1, Numbers, SequenceNumbers DEF IndInv, CellInv

\* The entry being popped is published.
LEMMA HeadPublished ==
    ASSUME IndInv, cpc \in {"readBody", "storeHead"}
    PROVE  head < tail /\ body[Cell(head)] = reserved[head + 1]
  BY HeadSequence DEF IndInv, ConsumerInv

\* A reservation is within the lap ahead of head.
LEMMA WriterInLap ==
    ASSUME IndInv, NEW p \in Producers, Writing(p)
    PROVE  firstTail[p] \in head .. head + Capacity - 1 /\ firstTail[p] - head < Capacity
  BY Numbers, CapacityAssumption DEF IndInv, CursorInv, WriterInv

\* Two producers between reservation and publication own different cells.
LEMMA WritersApart ==
    ASSUME IndInv, NEW p \in Producers, NEW q \in Producers, p # q,
           Writing(p), Writing(q)
    PROVE  Cell(firstTail[p]) # Cell(firstTail[q])
<1>1. firstTail[p] # firstTail[q]
  BY DEF IndInv, WriterInv
<1>2. head \in Nat
  BY Numbers DEF IndInv
<1>3. QED  BY <1>1, <1>2, WriterInLap, LapDistinct

\* What a reservation does to the history.
LEMMA ReserveHistory ==
    ASSUME IndInv, NEW p \in Producers, NoteReserved(p)
    PROVE  /\ reserved' \in Seq(Bodies) /\ Len(reserved') = tail + 1
           /\ reserved'[tail + 1] = <<p, pushed[p]>>
           /\ \A i \in 1 .. tail : reserved'[i] = reserved[i]
<1>1. <<p, pushed[p]>> \in Bodies
  BY DEF IndInv, TypeOK, TypeProducers, Bodies
<1>2. reserved \in Seq(Bodies) /\ Len(reserved) = tail /\ tail \in Nat
  BY Numbers DEF IndInv, TypeOK, TypeHistory, HistoryInv
<1>3. QED  BY <1>1, <1>2 DEF NoteReserved

\* The steps that only look at the ring leave it alone.
LEMMA ExamineFrame ==
    ASSUME NEW p \in Producers, Examine(p)
    PROVE  UNCHANGED <<tail, seq, body, validatedHead, reserved>>
  BY DEF Examine

\* What the end of a turn of the reservation loop leaves behind.
LEMMA DropTypes ==
    ASSUME TypeOK, NEW p \in Producers, DropSnapshots(p)
    PROVE  TypeSnapshots' /\ pass' \in [Producers -> {1, 2}]
  BY Zeros DEF TypeOK, TypeProducers, DropSnapshots, TypeSnapshots

LEMMA ReturnTypes ==
    ASSUME TypeOK, NEW p \in Producers, NEW res \in Results, Return(p, res)
    PROVE  /\ TypeSnapshots' /\ pass' \in [Producers -> {1, 2}]
           /\ pc' \in [Producers -> ProducerPCs]
           /\ result' \in [Producers -> Results]
           /\ tries' \in [Producers -> 0 .. MaxRetries - 1]
  BY DropTypes, Zeros DEF TypeOK, TypeProducers, Return, Goto, ProducerPCs

LEMMA RetryTypes ==
    ASSUME TypeOK, NEW p \in Producers, Retry(p)
    PROVE  /\ TypeSnapshots' /\ pass' \in [Producers -> {1, 2}]
           /\ pc' \in [Producers -> ProducerPCs]
           /\ result' \in [Producers -> Results]
           /\ tries' \in [Producers -> 0 .. MaxRetries - 1]
  BY ReturnTypes, DropTypes, Zeros, RetriesAssumption
     DEF TypeOK, TypeProducers, Retry, Goto, ProducerPCs, Results

\* A producer whose own locals stand still keeps what its samples guarantee
\* while the cursors advance: the guarantees only bound samples from above.
SameLocals(q) == /\ pc'[q] = pc[q] /\ pass'[q] = pass[q] /\ result'[q] = result[q]
                 /\ floor'[q] = floor[q] /\ observed'[q] = observed[q]
                 /\ firstTail'[q] = firstTail[q] /\ firstHead'[q] = firstHead[q]
                 /\ secondTail'[q] = secondTail[q]
                 /\ (q \in wasFull' <=> q \in wasFull)
CursorsAdvance == /\ tail' \in Nat /\ head' \in Nat /\ validatedHead' \in Nat
                  /\ tail' >= tail /\ head' >= head
                  /\ validatedHead' >= validatedHead

LEMMA SampleStable ==
    ASSUME IndInv, NEW q \in Producers, SameLocals(q), CursorsAdvance
    PROVE  SampleInv(q)' /\ FullInv(q)'
<1> USE Numbers, CapacityAssumption DEF IndInv, SameLocals, CursorsAdvance
<1>1. SampleInv(q)'  BY DEF SampleInv, Pushing
<1>2. FullInv(q)'    BY DEF FullInv
<1>3. QED  BY <1>1, <1>2

\* So it is for the other producers when one reserves, and for all of them
\* when only head advances.
LEMMA ReserveStable ==
    ASSUME IndInv, NEW p \in Producers, NEW q \in Producers, p # q,
           Reserve(p), UNCHANGED head
    PROVE  SameLocals(q) /\ CursorsAdvance
<1>1. TypeOK
  BY DEF IndInv
<1>2. CursorsAdvance
  BY <1>1, Numbers DEF Reserve, CursorsAdvance
<1>3. SameLocals(q)
  BY <1>1 DEF Reserve, Goto, SameLocals, snapVars, TypeOK, TypeProducers
<1>4. QED  BY <1>2, <1>3

LEMMA SampleFrame ==
    ASSUME IndInv, NEW q \in Producers, head' \in Nat, head' >= head,
           UNCHANGED <<tail, validatedHead, prodVars, wasFull>>
    PROVE  SampleInv(q)' /\ FullInv(q)'
<1>1. CursorsAdvance
  BY Numbers DEF IndInv, CursorsAdvance
<1>2. UNCHANGED <<pc, pass, result, floor, observed, firstTail, firstHead,
                  secondTail, wasFull>>
  BY DEF prodVars, snapVars
<1>3. SameLocals(q)
  BY <1>2 DEF SameLocals
<1>4. QED  BY <1>1, <1>3, SampleStable

\* The end of a turn of the reservation loop: the producer's own samples are
\* dropped and the others' stand still.
LEMMA DropSamples ==
    ASSUME IndInv, NEW p \in Producers, NEW q \in Producers, DropSnapshots(p),
           NEW t \in {"idle", "stopped", "floor"}, Goto(p, t),
           NEW r \in Results, result' = [result EXCEPT ![p] = r],
           t = "floor" => r = "none",
           UNCHANGED <<tail, head, validatedHead, floor, observed, wasFull>>
    PROVE  SampleInv(q)' /\ FullInv(q)'
<1>1. TypeOK /\ CursorsAdvance
  BY Numbers DEF IndInv, CursorsAdvance
<1>2. CASE q = p
  <2>1. pc'[q] = t /\ pass'[q] = 1 /\ result'[q] = r
    BY <1>1, <1>2 DEF DropSnapshots, Goto, TypeOK, TypeProducers
  <2>2. QED  BY <2>1 DEF SampleInv, FullInv, Pushing
<1>3. CASE q # p
  <2>1. SameLocals(q)
    BY <1>1, <1>3 DEF SameLocals, DropSnapshots, Goto, TypeOK, TypeProducers, TypeSnapshots
  <2>2. QED  BY <1>1, <2>1, SampleStable, Zenon
<1>4. QED  BY <1>2, <1>3, Zenon

LEMMA ReturnSamples ==
    ASSUME IndInv, NEW p \in Producers, NEW q \in Producers,
           NEW res \in Results, Return(p, res),
           UNCHANGED <<tail, head, validatedHead, floor, observed, wasFull>>
    PROVE  SampleInv(q)' /\ FullInv(q)'
<1> DEFINE t == IF res \in CursorFaults THEN "stopped" ELSE "idle"
<1>1. t \in {"idle", "stopped", "floor"} /\ t # "floor"
  OBVIOUS
<1>2. DropSnapshots(p) /\ Goto(p, t) /\ result' = [result EXCEPT ![p] = res]
  BY DEF Return
<1> HIDE DEF t
<1>3. QED  BY <1>1, <1>2, DropSamples, Zenon

LEMMA RetrySamples ==
    ASSUME IndInv, NEW p \in Producers, NEW q \in Producers, Retry(p), Pushing(p),
           UNCHANGED <<tail, head, validatedHead, floor, observed, wasFull>>
    PROVE  SampleInv(q)' /\ FullInv(q)'
<1>1. CASE Return(p, "Contended")
  BY <1>1, ReturnSamples DEF Results
<1>2. CASE DropSnapshots(p) /\ Goto(p, "floor") /\ UNCHANGED result
  <2>1. result[p] = "none"
    BY DEF IndInv, SampleInv
  <2>2. result' = [result EXCEPT ![p] = "none"]
    BY <1>2, <2>1 DEF IndInv, TypeOK, TypeProducers
  <2>3. "none" \in Results
    BY DEF Results
  <2>4. QED  BY <1>2, <2>2, <2>3, DropSamples, Zenon
<1>3. QED  BY <1>1, <1>2, Zenon DEF Retry

LEMMA SecondSamples ==
    ASSUME IndInv, NEW p \in Producers, NEW q \in Producers, SnapshotHeadSecond(p),
           UNCHANGED <<tail, head, validatedHead>>
    PROVE  SampleInv(q)' /\ FullInv(q)'
<1> DEFINE verdict == CapacityVerdict(<<firstTail[p], firstHead[p]>>,
                                      <<secondTail[p], validatedHead>>)
<1>1. verdict = "Retry" \/ verdict \in Results
  BY DEF CapacityVerdict, Results, CursorFaults
<1>2. /\ Pushing(p) /\ UNCHANGED <<floor, observed, wasFull>>
      /\ IF verdict = "Retry" THEN Retry(p) ELSE Return(p, verdict)
  BY DEF SnapshotHeadSecond, Pushing
<1> HIDE DEF verdict
<1>3. QED  BY <1>1, <1>2, ReturnSamples, RetrySamples, Zenon

LEMMA FailSamples ==
    ASSUME IndInv, NEW p \in Producers, NEW q \in Producers, ReserveFail(p),
           UNCHANGED <<tail, head, validatedHead>>
    PROVE  SampleInv(q)' /\ FullInv(q)'
<1>1. Pushing(p) /\ Retry(p) /\ UNCHANGED <<floor, observed, wasFull>>
  BY DEF ReserveFail, Pushing
<1>2. QED  BY <1>1, RetrySamples, Zenon

\* A producer pushed fewer bodies than there are positions.
LEMMA PushCount ==
    ASSUME IndInv, NEW p \in Producers, pc[p] = "shouldWake"
    PROVE  pushed[p] + 1 \in Cursors
<1>1. pushed[p] < tail /\ tail <= MaxCursor /\ tail \in Nat /\ pushed[p] \in Nat
  BY Numbers DEF IndInv, WriterInv
<1>2. QED  BY <1>1, CursorAssumption DEF Cursors

-----------------------------------------------------------------------------
(* Types.                                                                  *)

\* No cursor and no sequence overflows.
LEMMA TypeRingStep ==
    ASSUME IndInv, Next
    PROVE  TypeRing'
<1> USE Numbers DEF IndInv, TypeOK
<1>1. ASSUME NEW p \in Producers, Producer(p)  PROVE TypeRing'
  <2>1. UNCHANGED <<head, park>>
    BY <1>1 DEF Producer
  <2>2. CASE Examine(p)
    BY <2>1, <2>2, ExamineFrame DEF TypeRing
  <2>3. CASE RefreshFetchMax(p)
    BY <2>1, <2>3 DEF RefreshFetchMax, TypeRing, TypeProducers
  <2>4. CASE Reserve(p)
    <3>1. tail + 1 \in Cursors
      BY <2>4, CursorAssumption DEF Reserve, SampleInv, Cursors
    <3>2. QED  BY <2>1, <2>4, <3>1 DEF Reserve, TypeRing
  <2>5. CASE WriteBody(p)
    <3>1. <<p, pushed[p]>> \in Bodies
      BY DEF TypeProducers, Bodies
    <3>2. QED  BY <2>1, <2>5, <3>1, Zenon DEF WriteBody, TypeRing
  <2>6. CASE Publish(p)
    <3>1. firstTail[p] + 1 \in Cursors
      BY <2>6, CursorAssumption DEF Publish, WriterInv, Writing, Cursors
    <3>2. QED  BY <2>1, <2>6, <3>1, Zenon DEF Publish, TypeRing
  <2>7. QED  BY <1>1, <2>2, <2>3, <2>4, <2>5, <2>6 DEF Producer
<1>2. CASE Consumer
  <2>1. UNCHANGED <<tail, seq, body, validatedHead>>
    BY <1>2 DEF Consumer
  <2>2. CASE PopStoreHead
    <3>1. head + 1 \in Cursors
      BY <2>2, CursorAssumption DEF PopStoreHead, ConsumerInv, Cursors
    <3>2. QED  BY <2>1, <2>2, <3>1 DEF PopStoreHead, TypeRing
  <2>3. CASE ~PopStoreHead
    <3>1. head' = head /\ park' \in {"ACTIVE", "POLLING", "PARKED"}
      BY <1>2, <2>3 DEF Consumer, SetPolling, PopLoadSequence, PopReadBody,
         DeclarePark, ParkRecheck, SetActive, Wait, TypeRing
    <3>2. QED  BY <2>1, <3>1 DEF TypeRing
  <2>4. QED  BY <2>2, <2>3
<1>3. QED  BY <1>1, <1>2 DEF Next

\* The locals of the producers keep their types.
LEMMA TypeLocalsStep ==
    ASSUME IndInv, NEW p \in Producers, Producer(p)
    PROVE  TypeProducers' /\ TypeSnapshots'
<1>1. UNCHANGED <<head, park, cpc, popped, handled, consumed>>
  BY Zenon DEF Producer, consVars
<1> USE <1>1, Zeros DEF IndInv, TypeOK, TypeRing, TypeProducers,
        TypeSnapshots, snapVars, ProducerPCs, Results
<1>2. CASE Examine(p) /\ TryPush(p)
  BY <1>2, ExamineFrame DEF TryPush, Goto
<1>3. CASE Examine(p) /\ RefreshLoadFloor(p)
  BY <1>3, ExamineFrame DEF RefreshLoadFloor, Goto
<1>4. CASE Examine(p) /\ RefreshLoadHead(p)
  BY <1>4, ExamineFrame DEF RefreshLoadHead, Goto
<1>5. CASE Examine(p) /\ RefreshLoadTail(p)
  <2> DEFINE verdict == HeadVerdict(observed[p], floor[p], tail)
  <2>1. CASE verdict = "Ok"
    BY <1>5, <2>1 DEF RefreshLoadTail, Goto
  <2>2. CASE verdict # "Ok"
    <3>1. verdict \in Results
      BY <2>2 DEF HeadVerdict, CursorFaults
    <3>2. QED  BY <1>5, <2>2, <3>1, ReturnTypes DEF RefreshLoadTail
  <2>3. QED  BY <2>1, <2>2
<1>6. CASE Examine(p) /\ SnapshotTail(p)
  BY <1>6, ExamineFrame DEF SnapshotTail, Goto
<1>7. CASE Examine(p) /\ SnapshotHeadFirst(p)
  <2>1. CASE Return(p, "Exhausted")
    BY <1>7, <2>1, ReturnTypes DEF SnapshotHeadFirst, CursorFaults
  <2>2. CASE Retry(p)
    BY <1>7, <2>2, RetryTypes DEF SnapshotHeadFirst
  <2>3. CASE ~Return(p, "Exhausted") /\ ~Retry(p)
    BY <1>7, <2>3 DEF SnapshotHeadFirst, Goto
  <2>4. QED  BY <2>1, <2>2, <2>3
<1>8. CASE Examine(p) /\ SnapshotHeadSecond(p)
  <2> DEFINE verdict == CapacityVerdict(<<firstTail[p], firstHead[p]>>,
                                        <<secondTail[p], validatedHead>>)
  <2>1. CASE verdict = "Retry"
    BY <1>8, <2>1, RetryTypes DEF SnapshotHeadSecond
  <2>2. CASE verdict # "Retry"
    <3>1. verdict \in Results
      BY <2>2 DEF CapacityVerdict, CursorFaults
    <3>2. QED  BY <1>8, <2>2, <3>1, ReturnTypes DEF SnapshotHeadSecond
  <2>3. QED  BY <2>1, <2>2
<1>9. CASE Examine(p) /\ ReserveFail(p)
  BY <1>9, RetryTypes DEF ReserveFail
<1>10. CASE Examine(p) /\ ShouldWake(p)
  <2>1. pushed[p] + 1 \in Cursors
    BY <1>10, PushCount DEF ShouldWake
  <2>2. pushed' \in [Producers -> Cursors]
    BY <1>10, <2>1 DEF ShouldWake
  <2>3. QED  BY <1>10, <2>2, DropTypes DEF ShouldWake, Goto
<1>11. CASE Examine(p) /\ Signal(p)
  BY <1>11, ExamineFrame DEF Signal, Goto
<1>12. CASE RefreshFetchMax(p)
  BY <1>12 DEF RefreshFetchMax, Goto
<1>13. CASE Reserve(p)
  BY <1>13 DEF Reserve, Goto
<1>14. CASE WriteBody(p)
  BY <1>14 DEF WriteBody, Goto
<1>15. CASE Publish(p)
  BY <1>15 DEF Publish, Goto
<1>16. QED
  BY <1>2, <1>3, <1>4, <1>5, <1>6, <1>7, <1>8, <1>9, <1>10, <1>11, <1>12,
     <1>13, <1>14, <1>15, Zenon DEF Producer, Examine

\* The consumer's locals, the wake object and the histories keep their types.
LEMMA TypeRestStep ==
    ASSUME IndInv, Next
    PROVE  TypeConsumer' /\ TypeHistory'
<1> USE Numbers DEF IndInv, TypeOK, TypeConsumer, TypeHistory
<1>1. ASSUME NEW p \in Producers, Producer(p)
      PROVE  TypeConsumer' /\ TypeHistory'
  <2>1. UNCHANGED <<cpc, popped, handled, consumed>>
    BY <1>1 DEF Producer, consVars
  <2>2. CASE Examine(p) /\ signalled' \in BOOLEAN /\ wasFull' \in SUBSET Producers
    BY <2>1, <2>2, ExamineFrame, Zenon
  <2>3. ASSUME Examine(p)
        PROVE  signalled' \in BOOLEAN /\ wasFull' \in SUBSET Producers
    BY <2>3, Zenon DEF Examine, TryPush, RefreshLoadFloor, RefreshLoadHead,
       RefreshLoadTail, SnapshotTail, SnapshotHeadFirst, SnapshotHeadSecond,
       ReserveFail, ShouldWake, Signal
  <2>4. CASE RefreshFetchMax(p) \/ WriteBody(p) \/ Publish(p)
    BY <2>1, <2>4, Zenon DEF RefreshFetchMax, WriteBody, Publish
  <2>5. CASE Reserve(p)
    BY <2>1, <2>5, ReserveHistory, Zenon DEF Reserve
  <2>6. QED  BY <1>1, <2>2, <2>3, <2>4, <2>5, Zenon DEF Producer
<1>2. CASE Consumer
  <2>1. UNCHANGED <<reserved, wasFull>>
    BY <1>2, Zenon DEF Consumer
  <2>2. CASE PopStoreHead
    <3>1. popped \in Bodies
      <4>1. head + 1 \in 1 .. Len(reserved)
        BY <2>2, HeadPublished DEF PopStoreHead, HistoryInv
      <4>2. popped = reserved[head + 1]
        BY <2>2 DEF PopStoreHead, ConsumerInv
      <4>3. QED  BY <4>1, <4>2, ReservedBodies
    <3>2. consumed' \in Seq(Bodies)
      <4>1. consumed' = Append(consumed, popped)
        BY <2>2, Zenon DEF PopStoreHead, NoteConsumed
      <4>2. consumed \in Seq(Bodies)
        OBVIOUS
      <4>3. QED  BY ONLY <3>1, <4>1, <4>2
    <3>3. QED
      BY <2>1, <2>2, <3>2, Zenon DEF PopStoreHead, ConsumerPCs
  <2>3. CASE PopReadBody
    BY <2>1, <2>3, CellInRange DEF PopReadBody, TypeRing, ConsumerPCs
  <2>4. CASE ~PopStoreHead /\ ~PopReadBody
    BY <1>2, <2>1, <2>4, Zenon DEF Consumer, SetPolling, PopLoadSequence, DeclarePark,
       ParkRecheck, SetActive, Wait, ConsumerPCs
  <2>5. QED  BY <2>2, <2>3, <2>4, Zenon
<1>3. QED  BY <1>1, <1>2 DEF Next

-----------------------------------------------------------------------------
(* The order of the cursors, and what the stale samples of a push still     *)
(* guarantee.                                                              *)

\* validated_head <= head <= tail <= validated_head + capacity.
LEMMA CursorStep ==
    ASSUME IndInv, Next
    PROVE  CursorInv'
<1> USE Numbers, CapacityAssumption DEF IndInv, CursorInv
<1>1. ASSUME NEW p \in Producers, Producer(p)  PROVE CursorInv'
  <2>1. UNCHANGED head
    BY <1>1 DEF Producer
  <2>2. CASE Examine(p)
    BY <2>1, <2>2, ExamineFrame
  <2>3. CASE RefreshFetchMax(p)
    BY <2>1, <2>3 DEF RefreshFetchMax, SampleInv
  <2>4. CASE Reserve(p)
    BY <2>1, <2>4 DEF Reserve, SampleInv
  <2>5. CASE WriteBody(p) \/ Publish(p)
    BY <2>1, <2>5 DEF WriteBody, Publish
  <2>6. QED  BY <1>1, <2>2, <2>3, <2>4, <2>5 DEF Producer
<1>2. CASE Consumer
  <2>1. UNCHANGED <<tail, validatedHead>>
    BY <1>2 DEF Consumer
  <2>2. CASE PopStoreHead
    BY <2>1, <2>2, HeadPublished DEF PopStoreHead
  <2>3. CASE UNCHANGED head
    BY <2>1, <2>3
  <2>4. QED
    BY <1>2, <2>2, <2>3 DEF Consumer, SetPolling, PopLoadSequence, PopReadBody,
       DeclarePark, ParkRecheck, SetActive, Wait
<1>3. QED  BY <1>1, <1>2 DEF Next

\* A push classifies samples that may be stale but are never impossible.
LEMMA SampleStep ==
    ASSUME IndInv, NEW p \in Producers, Producer(p),
           NEW q \in Producers
    PROVE  SampleInv(q)'
<1>1. UNCHANGED <<head, park, cpc, popped, handled, consumed>>
  BY DEF Producer, consVars
<1> USE <1>1, CapacityAssumption, Numbers DEF IndInv, CursorInv, SampleInv,
        Pushing, snapVars, TypeOK, TypeProducers, TypeSnapshots
<1>2. CASE Examine(p) /\ TryPush(p)
  BY <1>2, ExamineFrame DEF TryPush, Goto
<1>3. CASE Examine(p) /\ RefreshLoadFloor(p)
  BY <1>3, ExamineFrame DEF RefreshLoadFloor, Goto
<1>4. CASE Examine(p) /\ RefreshLoadHead(p)
  BY <1>4, ExamineFrame DEF RefreshLoadHead, Goto
<1>5. CASE Examine(p) /\ RefreshLoadTail(p)
  BY <1>5, ExamineFrame, SMTT(20) DEF RefreshLoadTail, Goto, Return, DropSnapshots,
     HeadVerdict, CursorFaults
<1>6. CASE Examine(p) /\ SnapshotTail(p)
  BY <1>6, ExamineFrame, SMTT(20) DEF SnapshotTail, Goto
<1>7. CASE Examine(p) /\ SnapshotHeadFirst(p)
  <2>0. UNCHANGED <<floor, observed, tail, validatedHead>>
    BY <1>7, ExamineFrame DEF SnapshotHeadFirst
  <2>1. CASE Return(p, "Exhausted") \/ Retry(p)
    <3>1. Pushing(p) /\ UNCHANGED wasFull
      BY <1>7, Zenon DEF SnapshotHeadFirst, Pushing
    <3>2. "Exhausted" \in Results
      BY DEF Results, CursorFaults
    <3>3. QED  BY <2>0, <2>1, <3>1, <3>2, ReturnSamples, RetrySamples, Zenon
  <2>2. CASE /\ pc[p] = "snapHead" /\ pass[p] = 1
             /\ ~HasRoom(firstTail[p], validatedHead)
             /\ pass' = [pass EXCEPT ![p] = 2]
             /\ pc' = [pc EXCEPT ![p] = "floor"]
             /\ firstHead' = [firstHead EXCEPT ![p] = validatedHead]
             /\ UNCHANGED <<firstTail, secondTail, result>>
    BY <2>0, <2>2 DEF HasRoom
  <2>3. CASE /\ pc[p] = "snapHead" /\ pass[p] = 1
             /\ ~Exhausted(firstTail[p]) /\ HasRoom(firstTail[p], validatedHead)
             /\ pc' = [pc EXCEPT ![p] = "cas"]
             /\ firstHead' = [firstHead EXCEPT ![p] = validatedHead]
             /\ UNCHANGED <<firstTail, secondTail, pass, result>>
    <3>1. /\ firstTail[p] < MaxCursor /\ firstTail[p] < validatedHead + Capacity
          /\ firstTail[p] \in Nat /\ firstTail[p] <= tail
      BY <2>3, CursorAssumption DEF HasRoom, Exhausted
    <3>2. CASE q = p
      BY <2>0, <2>3, <3>1, <3>2
    <3>3. CASE q # p
      BY <2>0, <2>3, <3>3
    <3>4. QED  BY <3>2, <3>3, Zenon
  <2>4. QED  BY <1>7, <2>1, <2>2, <2>3, Zenon DEF SnapshotHeadFirst, Goto
<1>8. CASE Examine(p) /\ SnapshotHeadSecond(p)
  BY <1>8, ExamineFrame, SecondSamples, Zenon
<1>9. CASE Examine(p) /\ ReserveFail(p)
  BY <1>9, ExamineFrame, FailSamples, Zenon
<1>10. CASE Examine(p) /\ ShouldWake(p)
  BY <1>10, ExamineFrame DEF ShouldWake, Goto, DropSnapshots
<1>11. CASE Examine(p) /\ Signal(p)
  BY <1>11, ExamineFrame DEF Signal, Goto
<1>12. CASE RefreshFetchMax(p)
  BY <1>12 DEF RefreshFetchMax, Goto
<1>13. CASE Reserve(p)
  <2>1. CASE q = p
    BY <1>13, <2>1 DEF Reserve, Goto
  <2>2. CASE q # p
    BY <1>13, <2>2, SampleStable, ReserveStable, Zenon
  <2>3. QED  BY <2>1, <2>2, Zenon
<1>14. CASE WriteBody(p)
  BY <1>14 DEF WriteBody, Goto
<1>15. CASE Publish(p)
  BY <1>15 DEF Publish, Goto
<1>16. QED
  BY <1>2, <1>3, <1>4, <1>5, <1>6, <1>7, <1>8, <1>9, <1>10, <1>11, <1>12,
     <1>13, <1>14, <1>15, Zenon DEF Producer, Examine

\* A second pass over a ring that was not full sees a cursor move.
LEMMA FullStep ==
    ASSUME IndInv, NEW p \in Producers, Producer(p),
           NEW q \in Producers
    PROVE  FullInv(q)'
<1>1. UNCHANGED <<head, park, cpc, popped, handled, consumed>>
  BY Zenon DEF Producer, consVars
<1> USE <1>1, CapacityAssumption, Numbers DEF IndInv, CursorInv, SampleInv,
        FullInv, snapVars, TypeOK, TypeProducers, TypeSnapshots
<1>2. CASE Examine(p) /\ TryPush(p)
  BY <1>2, ExamineFrame DEF TryPush, Goto
<1>3. CASE Examine(p) /\ RefreshLoadFloor(p)
  BY <1>3, ExamineFrame DEF RefreshLoadFloor, Goto
<1>4. CASE Examine(p) /\ RefreshLoadHead(p)
  BY <1>4, ExamineFrame DEF RefreshLoadHead, Goto
<1>5. CASE Examine(p) /\ RefreshLoadTail(p)
  BY <1>5, ExamineFrame, SMTT(20) DEF RefreshLoadTail, Goto, Return, DropSnapshots,
     HeadVerdict, CursorFaults
<1>6. CASE Examine(p) /\ SnapshotTail(p)
  BY <1>6, ExamineFrame, SMTT(20) DEF SnapshotTail, Goto
<1>7. CASE Examine(p) /\ SnapshotHeadFirst(p)
  <2>0. UNCHANGED <<tail, validatedHead, floor, observed, wasFull>> /\ Pushing(p)
    BY <1>7, ExamineFrame DEF SnapshotHeadFirst, Pushing
  <2>1. CASE Return(p, "Exhausted") \/ Retry(p)
    <3>1. "Exhausted" \in Results
      BY DEF Results, CursorFaults
    <3>2. QED  BY <2>0, <2>1, <3>1, ReturnSamples, RetrySamples, Zenon
  <2>2. CASE /\ pass' = [pass EXCEPT ![p] = 2] /\ Goto(p, "floor")
             /\ firstHead' = [firstHead EXCEPT ![p] = validatedHead]
             /\ UNCHANGED <<firstTail, secondTail>>
    BY <2>0, <2>2 DEF Goto
  <2>3. CASE /\ Goto(p, "cas") /\ UNCHANGED <<pass, firstTail, secondTail>>
             /\ firstHead' = [firstHead EXCEPT ![p] = validatedHead]
    BY <1>7, <2>0, <2>3 DEF Goto, SnapshotHeadFirst
  <2>4. QED  BY <1>7, <2>1, <2>2, <2>3, Zenon DEF SnapshotHeadFirst
<1>8. CASE Examine(p) /\ SnapshotHeadSecond(p)
  BY <1>8, ExamineFrame, SecondSamples, Zenon
<1>9. CASE Examine(p) /\ ReserveFail(p)
  BY <1>9, ExamineFrame, FailSamples, Zenon
<1>10. CASE Examine(p) /\ ShouldWake(p)
  BY <1>10, ExamineFrame DEF ShouldWake, Goto, DropSnapshots
<1>11. CASE Examine(p) /\ Signal(p)
  BY <1>11, ExamineFrame DEF Signal, Goto
<1>12. CASE RefreshFetchMax(p)
  BY <1>12 DEF RefreshFetchMax, Goto
<1>13. CASE Reserve(p)
  <2>1. CASE q = p
    BY <1>13, <2>1 DEF Reserve, Goto
  <2>2. CASE q # p
    BY <1>13, <2>2, SampleStable, ReserveStable, Zenon
  <2>3. QED  BY <2>1, <2>2, Zenon
<1>14. CASE WriteBody(p)
  BY <1>14 DEF WriteBody, Goto
<1>15. CASE Publish(p)
  BY <1>15 DEF Publish, Goto
<1>16. QED
  BY <1>2, <1>3, <1>4, <1>5, <1>6, <1>7, <1>8, <1>9, <1>10, <1>11, <1>12,
     <1>13, <1>14, <1>15, Zenon DEF Producer, Examine

\* The consumer can only move head forward under a producer's samples.
LEMMA SampleConsumerStep ==
    ASSUME IndInv, Consumer, NEW q \in Producers
    PROVE  SampleInv(q)' /\ FullInv(q)'
<1>1. UNCHANGED <<tail, validatedHead, prodVars, wasFull>>
  BY Zenon DEF Consumer
<1>2. CASE PopStoreHead
  <2>1. head' = head + 1
    BY <1>2 DEF PopStoreHead
  <2>2. head' \in Nat /\ head' >= head
    BY <2>1, HeadNat
  <2>3. QED  BY <1>1, <2>2, SampleFrame, Zenon
<1>3. CASE UNCHANGED head
  <2>1. head' \in Nat /\ head' >= head
    BY <1>3, HeadNat
  <2>2. QED  BY <1>1, <2>1, SampleFrame, Zenon
<1>4. QED
  BY <1>2, <1>3, Zenon DEF Consumer, SetPolling, PopLoadSequence, PopReadBody,
     DeclarePark, ParkRecheck, SetActive, Wait

-----------------------------------------------------------------------------
(* The ring as a queue: what its histories hold after the head, and what a  *)
(* reservation and an advance make of that part.                           *)

\* What a history holds after its first h elements.
Window(s, h) == SubSeq(s, h + 1, Len(s))

\* Sequences with the same elements are equal.
LEMMA SameElements ==
    ASSUME NEW S, NEW s \in Seq(S), NEW t \in Seq(S),
           Len(s) = Len(t), \A i \in 1 .. Len(s) : s[i] = t[i]
    PROVE  s = t
<1>1. s \in [1 .. Len(s) -> S] /\ t \in [1 .. Len(s) -> S]
  OBVIOUS
<1> QED  BY <1>1

\* The window of the empty history is empty.
LEMMA WindowEmpty == Window(<< >>, 0) = << >>
  BY DEF Window

\* Its elements are the history's, in order.
LEMMA WindowShape ==
    ASSUME NEW S, NEW s \in Seq(S), NEW h \in Nat, h <= Len(s)
    PROVE  /\ Window(s, h) \in Seq(S) /\ Len(Window(s, h)) = Len(s) - h
           /\ \A i \in 1 .. Len(s) - h : Window(s, h)[i] = s[h + i]
<1>1. h + 1 \in Int /\ Len(s) \in Nat /\ \A i \in h + 1 .. Len(s) : s[i] \in S
  OBVIOUS
<1>2. /\ Window(s, h) \in Seq(S)
      /\ Len(Window(s, h)) = IF h + 1 <= Len(s) THEN Len(s) - (h + 1) + 1 ELSE 0
      /\ \A i \in 1 .. Len(s) - (h + 1) + 1 : Window(s, h)[i] = s[h + 1 + i - 1]
  BY <1>1 DEF Window
<1> QED  BY <1>1, <1>2

\* A reservation appends to the window.
LEMMA WindowGrows ==
    ASSUME NEW S, NEW s \in Seq(S), NEW h \in Nat, h <= Len(s), NEW e \in S
    PROVE  Window(Append(s, e), h) = Append(Window(s, h), e)
<1> DEFINE w == Window(s, h)
           v == Window(Append(s, e), h)
<1>1. /\ Append(s, e) \in Seq(S) /\ Len(Append(s, e)) = Len(s) + 1
      /\ \A i \in 1 .. Len(s) : Append(s, e)[i] = s[i]
      /\ Append(s, e)[Len(s) + 1] = e /\ Len(s) \in Nat
  OBVIOUS
<1>2. /\ w \in Seq(S) /\ Len(w) = Len(s) - h
      /\ \A i \in 1 .. Len(s) - h : w[i] = s[h + i]
  BY WindowShape
<1>3. /\ v \in Seq(S) /\ Len(v) = Len(s) + 1 - h
      /\ \A i \in 1 .. Len(s) + 1 - h : v[i] = Append(s, e)[h + i]
  <2> DEFINE a == Append(s, e)
  <2>1. a \in Seq(S) /\ Len(a) = Len(s) + 1 /\ h <= Len(a)
    BY <1>1
  <2> HIDE DEF a
  <2>2. /\ Window(a, h) \in Seq(S) /\ Len(Window(a, h)) = Len(a) - h
        /\ \A i \in 1 .. Len(a) - h : Window(a, h)[i] = a[h + i]
    BY <2>1, WindowShape
  <2> QED  BY <2>1, <2>2 DEF a
<1> HIDE DEF w, v
<1>4. /\ Append(w, e) \in Seq(S) /\ Len(Append(w, e)) = Len(s) - h + 1
      /\ \A i \in 1 .. Len(s) - h : Append(w, e)[i] = w[i]
      /\ Append(w, e)[Len(s) - h + 1] = e
  BY <1>2
<1>5. ASSUME NEW i \in 1 .. Len(s) + 1 - h  PROVE v[i] = Append(w, e)[i]
  <2>1. CASE i = Len(s) - h + 1
    BY <1>1, <1>3, <1>4, <2>1
  <2>2. CASE i # Len(s) - h + 1
    <3>1. i \in 1 .. Len(s) - h /\ h + i \in 1 .. Len(s)
      BY <1>1, <2>2
    <3> QED  BY <1>1, <1>2, <1>3, <1>4, <3>1
  <2> QED  BY <2>1, <2>2
<1>6. v = Append(w, e)
  <2>1. Len(v) = Len(Append(w, e)) /\ \A i \in 1 .. Len(v) : v[i] = Append(w, e)[i]
    BY <1>1, <1>3, <1>4, <1>5
  <2>2. v \in Seq(S) /\ Append(w, e) \in Seq(S)
    BY <1>3, <1>4
  <2> QED  BY <2>1, <2>2, SameElements
<1> QED  BY <1>6 DEF v, w

\* An advance takes its first element.
LEMMA WindowShrinks ==
    ASSUME NEW S, NEW s \in Seq(S), NEW h \in Nat, h < Len(s)
    PROVE  /\ Window(s, h) # << >> /\ Head(Window(s, h)) = s[h + 1]
           /\ Window(s, h + 1) = Tail(Window(s, h))
<1>1. h + 1 \in 1 .. Len(s) /\ Len(s) \in h + 1 .. Len(s)
  OBVIOUS
<1>2. Len(Window(s, h)) > 0
  BY WindowShape
<1>3. Window(s, h) # << >>
  BY <1>2
<1>4. /\ Head(SubSeq(s, h + 1, Len(s))) = s[h + 1]
      /\ Tail(SubSeq(s, h + 1, Len(s))) = SubSeq(s, h + 1 + 1, Len(s))
  BY <1>1
<1> QED  BY <1>3, <1>4 DEF Window

=============================================================================
