-------------------------- MODULE SqRing_theorems ---------------------------
(***************************************************************************)
(* The submission ring: a step preserves the ownership and the contents of *)
(* the cells, the histories and what the consumer has sampled; the safety   *)
(* properties, step by step; and the theorems.                             *)
(***************************************************************************)
EXTENDS SqRing_lemmas

\* A producer keeps its cell from reservation to publication.
LEMMA WriterStep ==
    ASSUME IndInv, NEW p \in Producers, Producer(p),
           NEW q \in Producers
    PROVE  WriterInv(q)'
<1>1. UNCHANGED <<head, park, cpc, popped, handled, consumed>>
  BY Zenon DEF Producer, consVars
<1> USE <1>1, CapacityAssumption, Numbers, SequenceNumbers DEF IndInv,
        CursorInv, WriterInv, Writing, TypeOK, TypeProducers, TypeSnapshots,
        snapVars
<1>2. CASE Examine(p) /\ TryPush(p)
  BY <1>2, ExamineFrame DEF TryPush, Goto
<1>3. CASE Examine(p) /\ RefreshLoadFloor(p)
  BY <1>3, ExamineFrame DEF RefreshLoadFloor, Goto
<1>4. CASE Examine(p) /\ RefreshLoadHead(p)
  BY <1>4, ExamineFrame DEF RefreshLoadHead, Goto
<1>5. CASE Examine(p) /\ RefreshLoadTail(p)
  BY <1>5, ExamineFrame DEF RefreshLoadTail, Goto, Return, DropSnapshots,
     HeadVerdict, CursorFaults
<1>6. CASE Examine(p) /\ SnapshotTail(p)
  BY <1>6, ExamineFrame DEF SnapshotTail, Goto
<1>7. CASE Examine(p) /\ SnapshotHeadFirst(p)
  BY <1>7, ExamineFrame DEF SnapshotHeadFirst, Goto, Return, Retry,
     DropSnapshots, Exhausted, HasRoom, CursorFaults
<1>8. CASE Examine(p) /\ SnapshotHeadSecond(p)
  BY <1>8, ExamineFrame DEF SnapshotHeadSecond, Goto, Return, Retry,
     DropSnapshots, CapacityVerdict, CursorFaults
<1>9. CASE Examine(p) /\ ReserveFail(p)
  BY <1>9, ExamineFrame DEF ReserveFail, Goto, Return, Retry, DropSnapshots,
     CursorFaults
<1>10. CASE Examine(p) /\ ShouldWake(p)
  BY <1>10, ExamineFrame DEF ShouldWake, Goto, DropSnapshots
<1>11. CASE Examine(p) /\ Signal(p)
  BY <1>11, ExamineFrame DEF Signal, Goto
<1>12. CASE RefreshFetchMax(p)
  BY <1>12 DEF RefreshFetchMax, Goto
<1>13. CASE Reserve(p)
  <2>1. /\ tail' = tail + 1 /\ firstTail[p] = tail
        /\ tail \in head .. head + Capacity - 1
    BY <1>13 DEF Reserve, SampleInv
  <2>2. /\ reserved'[tail + 1] = <<p, pushed[p]>>
        /\ \A i \in 1 .. tail : reserved'[i] = reserved[i]
    BY <1>13, ReserveHistory, Zenon DEF Reserve
  <2>3. CASE q = p
    <3>1. seq[Cell(tail)] <= head
      BY <2>1 DEF CellInv
    <3>2. pc'[p] = "body" /\ UNCHANGED <<seq, firstTail, pushed>>
      BY <1>13 DEF Reserve, Goto
    <3>3. QED  BY <2>1, <2>2, <2>3, <3>1, <3>2
  <2>4. CASE q # p
    <3>1. pc'[q] = pc[q] /\ UNCHANGED <<seq, body, firstTail, pushed>>
      BY <1>13, <2>4 DEF Reserve, Goto
    <3>2. Writing(q) => reserved'[firstTail[q] + 1] = reserved[firstTail[q] + 1]
      BY <2>2
    <3>3. QED  BY <2>1, <3>1, <3>2
  <2>5. QED  BY <2>3, <2>4
<1>14. CASE WriteBody(p)
  <2>1. CASE q = p
    <3>1. Cell(firstTail[p]) \in Cells
      BY CellInRange
    <3>2. QED  BY <1>14, <2>1, <3>1 DEF WriteBody, Goto, TypeRing
  <2>2. CASE q # p
    <3>1. Writing(q) => Cell(firstTail[p]) # Cell(firstTail[q])
      BY <1>14, <2>2, WritersApart DEF WriteBody
    <3>2. \A i \in Nat : Cell(i) \in Cells
      BY CellInRange
    <3>3. QED  BY <1>14, <2>2, <3>1, <3>2 DEF WriteBody, Goto, TypeRing
  <2>3. QED  BY <2>1, <2>2
<1>15. CASE Publish(p)
  <2>1. CASE q = p
    BY <1>15, <2>1 DEF Publish, Goto
  <2>2. CASE q # p
    <3>1. Writing(q) => Cell(firstTail[p]) # Cell(firstTail[q])
      BY <1>15, <2>2, WritersApart DEF Publish
    <3>2. \A i \in Nat : Cell(i) \in Cells
      BY CellInRange
    <3>3. QED  BY <1>15, <2>2, <3>1, <3>2 DEF Publish, Goto, TypeRing
  <2>3. QED  BY <2>1, <2>2
<1>16. QED
  BY <1>2, <1>3, <1>4, <1>5, <1>6, <1>7, <1>8, <1>9, <1>10, <1>11, <1>12,
     <1>13, <1>14, <1>15, Zenon DEF Producer, Examine

\* The consumer does not overtake a producer that is still writing.
LEMMA WriterConsumerStep ==
    ASSUME IndInv, Consumer, NEW q \in Producers
    PROVE  WriterInv(q)'
<1>1. UNCHANGED <<tail, seq, body, reserved, pc, firstTail, pushed>>
  BY Zenon DEF Consumer, prodVars, snapVars
<1>2. CASE PopStoreHead
  <2>1. head' = head + 1
    BY <1>2 DEF PopStoreHead
  <2>2. Writing(q) => firstTail[q] # head
    BY <1>2, Numbers DEF PopStoreHead, IndInv, ConsumerInv, WriterInv
  <2>3. seq[Cell(firstTail[q])] \in Nat /\ firstTail[q] \in Nat /\ head \in Nat
    BY Numbers, SequenceNumbers DEF IndInv
  <2>4. WriterInv(q)
    BY DEF IndInv
  <2>5. QED  BY <1>1, <2>1, <2>2, <2>3, <2>4 DEF WriterInv, Writing
<1>3. CASE UNCHANGED head
  BY <1>1, <1>3 DEF IndInv, WriterInv, Writing
<1>4. QED
  BY <1>2, <1>3 DEF Consumer, SetPolling, PopLoadSequence, PopReadBody,
     DeclarePark, ParkRecheck, SetActive, Wait

\* Every position of the lap ahead is published faithfully or not at all.
LEMMA CellStep ==
    ASSUME IndInv, NEW p \in Producers, Producer(p)
    PROVE  CellInv'
<1>1. UNCHANGED <<head, park, cpc, popped, handled, consumed>>
  BY Zenon DEF Producer, consVars
<1> USE <1>1, CapacityAssumption, Numbers, SequenceNumbers DEF IndInv,
        CursorInv, CellInv, TypeOK
<1>2. CASE Reserve(p)
  <2>1. \A i \in 1 .. tail : reserved'[i] = reserved[i]
    BY <1>2, ReserveHistory, SMTT(20) DEF Reserve
  <2>2. tail' = tail + 1 /\ UNCHANGED <<seq, body>>
    BY <1>2 DEF Reserve
  <2>3. \A i \in head .. tail - 1 : reserved'[i + 1] = reserved[i + 1]
    BY <2>1
  <2>4. QED  BY <2>2, <2>3
<1>3. CASE WriteBody(p)
  <2> SUFFICES ASSUME NEW i \in head .. head + Capacity - 1
               PROVE  \/ seq[Cell(i)] <= head
                      \/ /\ seq[Cell(i)] = i + 1 /\ i < tail
                         /\ body'[Cell(i)] = reserved[i + 1]
    BY <1>3 DEF WriteBody
  <2>1. CASE i = firstTail[p]
    BY <1>3, <2>1 DEF WriteBody, WriterInv, Writing
  <2>2. CASE i # firstTail[p]
    <3>1. Cell(i) # Cell(firstTail[p])
      BY <1>3, <2>2, WriterInLap, LapDistinct, Zenon DEF WriteBody, Writing
    <3>2. Cell(i) \in Cells
      BY CellInRange
    <3>3. body'[Cell(i)] = body[Cell(i)]
      BY <1>3, <3>1, <3>2 DEF WriteBody, TypeRing
    <3>4. QED  BY <3>3
  <2>3. QED  BY <2>1, <2>2
<1>4. CASE Publish(p)
  <2> SUFFICES ASSUME NEW i \in head .. head + Capacity - 1
               PROVE  \/ seq'[Cell(i)] <= head
                      \/ /\ seq'[Cell(i)] = i + 1 /\ i < tail
                         /\ body[Cell(i)] = reserved[i + 1]
    BY <1>4 DEF Publish
  <2>1. Cell(i) \in Cells
    BY CellInRange
  <2>2. CASE i = firstTail[p]
    BY <1>4, <2>1, <2>2, Zenon DEF Publish, WriterInv, Writing, TypeRing
  <2>3. CASE i # firstTail[p]
    <3>1. Cell(i) # Cell(firstTail[p])
      BY <1>4, <2>3, WriterInLap, LapDistinct, Zenon DEF Publish, Writing
    <3>2. seq'[Cell(i)] = seq[Cell(i)]
      BY <1>4, <3>1, <2>1 DEF Publish, TypeRing
    <3>3. QED  BY <3>2
  <2>4. QED  BY <2>2, <2>3
<1>5. CASE Examine(p) \/ RefreshFetchMax(p)
  BY <1>5, ExamineFrame DEF RefreshFetchMax
<1>6. QED
  BY <1>2, <1>3, <1>4, <1>5 DEF Producer, Examine

\* Consuming an entry turns its cell into one of the next lap.
LEMMA CellConsumerStep ==
    ASSUME IndInv, Consumer
    PROVE  CellInv'
<1>1. UNCHANGED <<tail, seq, body, reserved>>
  BY Zenon DEF Consumer
<1> USE <1>1, CapacityAssumption, Numbers, SequenceNumbers
        DEF IndInv, CellInv, TypeOK
<1>2. CASE PopStoreHead
  <2> SUFFICES ASSUME NEW i \in head + 1 .. head + Capacity
               PROVE  \/ seq[Cell(i)] <= head + 1
                      \/ /\ seq[Cell(i)] = i + 1 /\ i < tail
                         /\ body[Cell(i)] = reserved[i + 1]
    BY <1>2 DEF PopStoreHead
  <2>1. CASE i = head + Capacity
    BY <1>2, <2>1, CellWrap DEF PopStoreHead, ConsumerInv
  <2>2. CASE i # head + Capacity
    <3>1. i \in head .. head + Capacity - 1
      BY <2>2
    <3>2. QED  BY <3>1
  <2>3. QED  BY <2>1, <2>2
<1>3. CASE UNCHANGED head
  BY <1>3
<1>4. QED
  BY <1>2, <1>3 DEF Consumer, SetPolling, PopLoadSequence, PopReadBody,
     DeclarePark, ParkRecheck, SetActive, Wait

\* What was consumed is what was reserved, position by position.
LEMMA HistoryStep ==
    ASSUME IndInv, Next
    PROVE  HistoryInv'
<1> USE Numbers DEF IndInv, CursorInv, HistoryInv, TypeOK, TypeHistory
<1>1. ASSUME NEW p \in Producers, Producer(p)  PROVE HistoryInv'
  <2>1. UNCHANGED <<head, consumed>>
    BY <1>1 DEF Producer
  <2>2. CASE Reserve(p)
    BY <2>1, <2>2, ReserveHistory DEF Reserve
  <2>3. CASE ~Reserve(p)
    BY <1>1, <2>1, <2>3, ExamineFrame, Zenon
       DEF Producer, RefreshFetchMax, WriteBody, Publish
  <2>4. QED  BY <2>2, <2>3
<1>2. CASE Consumer
  <2>1. UNCHANGED <<tail, reserved>>
    BY <1>2 DEF Consumer
  <2>2. CASE PopStoreHead
    <3>1. popped = reserved[head + 1] /\ head < tail
      BY <2>2, HeadPublished DEF PopStoreHead, ConsumerInv
    <3>2. popped \in Bodies
      BY <3>1
    <3>3. QED  BY <2>1, <2>2, <3>1, <3>2 DEF PopStoreHead, NoteConsumed
  <2>3. CASE UNCHANGED <<head, consumed>>
    BY <2>1, <2>3
  <2>4. QED
    BY <1>2, <2>2, <2>3, Zenon DEF Consumer, SetPolling, PopLoadSequence, PopReadBody,
       DeclarePark, ParkRecheck, SetActive, Wait
<1>3. QED  BY <1>1, <1>2 DEF Next

\* Producers leave alone the entry the consumer acts on.
LEMMA ConsumerStep ==
    ASSUME IndInv, NEW p \in Producers, Producer(p)
    PROVE  ConsumerInv'
<1>1. UNCHANGED <<head, park, cpc, popped, handled, consumed>>
  BY Zenon DEF Producer, consVars
<1> USE <1>1, CapacityAssumption, Numbers, SequenceNumbers DEF IndInv,
        CursorInv, ConsumerInv, TypeOK
<1>2. CASE Reserve(p)
  BY <1>2, HeadPublished, ReserveHistory DEF Reserve, Goto
<1>3. CASE Publish(p)
  <2>1. CASE cpc \in {"readBody", "storeHead"}
    <3>1. firstTail[p] # head
      BY <1>3, <2>1 DEF Publish, WriterInv, Writing
    <3>2. head \in head .. head + Capacity - 1
      OBVIOUS
    <3>3. Cell(head) # Cell(firstTail[p])
      BY <1>3, <3>1, <3>2, WriterInLap, LapDistinct, Zenon DEF Publish, Writing
    <3>4. Cell(head) \in Cells
      BY CellInRange
    <3>5. seq'[Cell(head)] = seq[Cell(head)]
      BY <1>3, <3>3, <3>4, Zenon DEF Publish, TypeRing
    <3>6. QED  BY <1>3, <3>5 DEF Publish
  <2>2. CASE cpc \notin {"readBody", "storeHead"}
    BY <1>3, <2>2 DEF Publish
  <2>3. QED  BY <2>1, <2>2
<1>4. CASE Examine(p) \/ RefreshFetchMax(p) \/ WriteBody(p)
  BY <1>4, ExamineFrame DEF RefreshFetchMax, WriteBody
<1>5. QED
  BY <1>2, <1>3, <1>4, Zenon DEF Producer, Examine

\* The consumer acts on a published entry and sleeps only behind PARKED.
LEMMA ConsumerConsumerStep ==
    ASSUME IndInv, Consumer
    PROVE  ConsumerInv'
<1>1. UNCHANGED <<tail, seq, body, validatedHead, prodVars, reserved, wasFull>>
  BY Zenon DEF Consumer
<1> USE <1>1, CapacityAssumption, Numbers, SequenceNumbers DEF IndInv,
        CursorInv, ConsumerInv, TypeOK
<1>2. CASE SetPolling
  BY <1>2 DEF SetPolling
<1>3. CASE PopLoadSequence
  <2>1. cpc' \in {"readBody", "storeHead"} =>
          cpc' = "readBody" /\ seq[Cell(head)] = head + 1 /\ head < MaxCursor
    BY <1>3, HeadSequence, CursorAssumption DEF PopLoadSequence
  <2>2. cpc' \notin {"recheck", "wait"}
    BY <1>3 DEF PopLoadSequence
  <2>3. QED  BY <1>3, <2>1, <2>2 DEF PopLoadSequence
<1>4. CASE PopReadBody
  BY <1>4, HeadPublished DEF PopReadBody
<1>5. CASE PopStoreHead
  BY <1>5 DEF PopStoreHead
<1>6. CASE DeclarePark
  BY <1>6 DEF DeclarePark
<1>7. CASE ParkRecheck
  BY <1>7 DEF ParkRecheck
<1>8. CASE SetActive
  BY <1>8 DEF SetActive
<1>9. CASE Wait
  BY <1>9 DEF Wait
<1>10. QED
  BY <1>2, <1>3, <1>4, <1>5, <1>6, <1>7, <1>8, <1>9 DEF Consumer

-----------------------------------------------------------------------------
(* The properties.                                                         *)

\* A head loaded after the floor and before the tail is plausible, and a ring
\* sampled twice is never over its capacity.
LEMMA PlausibleHead ==
    ASSUME IndInv, NEW p \in Producers, pc[p] = "tail"
    PROVE  HeadVerdict(observed[p], floor[p], tail) = "Ok"
<1>1. /\ observed[p] \in Nat /\ floor[p] \in Nat /\ tail \in Nat /\ head \in Nat
      /\ floor[p] <= observed[p] /\ observed[p] <= head /\ head <= tail
  BY Numbers DEF IndInv, SampleInv, CursorInv
<1>2. QED  BY <1>1 DEF HeadVerdict

LEMMA PlausibleCapacity ==
    ASSUME IndInv, NEW p \in Producers, pc[p] = "snapHead", pass[p] = 2
    PROVE  LET verdict == CapacityVerdict(<<firstTail[p], firstHead[p]>>,
                                          <<secondTail[p], validatedHead>>)
           IN /\ verdict \in {"Retry", "Full"}
              /\ verdict = "Full" => p \in wasFull
<1>1. /\ secondTail[p] \in Nat /\ validatedHead \in Nat /\ firstTail[p] \in Nat
      /\ firstHead[p] \in Nat
      /\ secondTail[p] <= validatedHead + Capacity
  BY Numbers DEF IndInv, SampleInv
<1>2. \/ p \in wasFull \/ validatedHead > firstHead[p]
      \/ secondTail[p] > firstTail[p]
  BY DEF IndInv, FullInv
<1>3. QED  BY <1>1, <1>2, CapacityAssumption DEF CapacityVerdict

\* Nobody is accused.
LEMMA FaultStep ==
    ASSUME IndInv, Next
    PROVE  NoFalseFault'
<1> USE Numbers DEF IndInv, NoFalseFault, TypeOK
<1>1. ASSUME NEW p \in Producers, Producer(p)  PROVE NoFalseFault'
  <2>1. UNCHANGED cpc
    BY <1>1 DEF Producer, consVars
  <2>2. CASE UNCHANGED result
    BY <2>1, <2>2
  <2>3. ASSUME NEW res \in {"none", "Ok", "Full", "Contended", "Exhausted"},
               result' = [result EXCEPT ![p] = res]
        PROVE  NoFalseFault'
    BY <2>1, <2>3 DEF TypeProducers
  <2>4. CASE RefreshLoadTail(p)
    <3>1. HeadVerdict(observed[p], floor[p], tail) = "Ok"
      BY <2>4, PlausibleHead DEF RefreshLoadTail
    <3>2. QED  BY <2>2, <2>4, <3>1 DEF RefreshLoadTail
  <2>5. CASE SnapshotHeadSecond(p)
    <3> DEFINE verdict == CapacityVerdict(<<firstTail[p], firstHead[p]>>,
                                          <<secondTail[p], validatedHead>>)
    <3>1. verdict \in {"Retry", "Full"}
      BY <2>5, PlausibleCapacity DEF SnapshotHeadSecond
    <3> HIDE DEF verdict
    <3>2. UNCHANGED result \/ (\E res \in {"Full", "Contended"} :
                                 result' = [result EXCEPT ![p] = res])
      BY <2>5, <3>1 DEF SnapshotHeadSecond, Retry, Return, verdict
    <3>3. QED  BY <2>2, <2>3, <3>2
  <2>6. CASE \/ TryPush(p) \/ SnapshotHeadFirst(p) \/ ReserveFail(p)
             \/ ShouldWake(p)
    <3>1. UNCHANGED result \/ (\E res \in {"none", "Ok", "Contended", "Exhausted"} :
                                 result' = [result EXCEPT ![p] = res])
      BY <2>6 DEF TryPush, SnapshotHeadFirst, ReserveFail, ShouldWake, Retry, Return
    <3>2. QED  BY <2>2, <2>3, <3>1
  <2>7. CASE \/ RefreshLoadFloor(p) \/ RefreshLoadHead(p) \/ SnapshotTail(p)
             \/ Signal(p) \/ RefreshFetchMax(p) \/ Reserve(p) \/ WriteBody(p)
             \/ Publish(p)
    BY <2>2, <2>7 DEF RefreshLoadFloor, RefreshLoadHead, SnapshotTail, Signal,
       RefreshFetchMax, Reserve, WriteBody, Publish
  <2>8. QED
    BY <1>1, <2>4, <2>5, <2>6, <2>7 DEF Producer, Examine
<1>2. CASE Consumer
  <2>1. UNCHANGED result
    BY <1>2 DEF Consumer, prodVars
  <2>2. cpc' \notin {"faultActive", "FutureSequence"}
    BY <1>2, HeadSequence, SequenceNumbers
       DEF Consumer, SetPolling, PopLoadSequence, PopReadBody, PopStoreHead,
           DeclarePark, ParkRecheck, SetActive, Wait
  <2>3. QED  BY <2>1, <2>2
<1>3. QED  BY <1>1, <1>2 DEF Next

\* A Full answer describes a ring that was full.
LEMMA FullWasFullStep ==
    ASSUME IndInv, Next
    PROVE  FullWasFull'
<1> USE Numbers DEF IndInv, FullWasFull, TypeOK
<1>1. ASSUME NEW p \in Producers, Producer(p)  PROVE FullWasFull'
  <2>1. CASE UNCHANGED <<result, wasFull>>
    BY <2>1
  <2>2. ASSUME NEW res \in {"none", "Ok", "Contended", "Exhausted"},
               result' = [result EXCEPT ![p] = res], UNCHANGED wasFull
        PROVE  FullWasFull'
    BY <2>2 DEF TypeProducers
  <2>3. CASE RefreshLoadHead(p)
    BY <2>3 DEF RefreshLoadHead, SampleInv, Pushing
  <2>4. CASE RefreshLoadTail(p)
    <3>1. HeadVerdict(observed[p], floor[p], tail) = "Ok"
      BY <2>4, PlausibleHead DEF RefreshLoadTail
    <3>2. QED  BY <2>1, <2>4, <3>1 DEF RefreshLoadTail
  <2>5. CASE SnapshotHeadSecond(p)
    <3> DEFINE verdict == CapacityVerdict(<<firstTail[p], firstHead[p]>>,
                                          <<secondTail[p], validatedHead>>)
    <3>1. CASE verdict = "Retry"
      <4>1. UNCHANGED result \/ result' = [result EXCEPT ![p] = "Contended"]
        BY <2>5, <3>1 DEF SnapshotHeadSecond, Retry, Return
      <4>2. UNCHANGED wasFull
        BY <2>5 DEF SnapshotHeadSecond
      <4>3. QED  BY <2>1, <2>2, <4>1, <4>2
    <3>2. CASE verdict # "Retry"
      <4>1. verdict = "Full" /\ p \in wasFull
        BY <2>5, <3>2, PlausibleCapacity DEF SnapshotHeadSecond
      <4>2. /\ result' = [result EXCEPT ![p] = verdict]
            /\ UNCHANGED wasFull
        BY <2>5, <3>2 DEF SnapshotHeadSecond, Return
      <4> HIDE DEF verdict
      <4>3. QED  BY <4>1, <4>2 DEF TypeProducers
    <3>3. QED  BY <3>1, <3>2
  <2>6. CASE \/ TryPush(p) \/ SnapshotHeadFirst(p) \/ ReserveFail(p)
             \/ ShouldWake(p)
    <3>1. UNCHANGED result \/ (\E res \in {"none", "Ok", "Contended", "Exhausted"} :
                                 result' = [result EXCEPT ![p] = res])
      BY <2>6 DEF TryPush, SnapshotHeadFirst, ReserveFail, ShouldWake, Retry, Return
    <3>2. UNCHANGED wasFull
      BY <2>6 DEF TryPush, SnapshotHeadFirst, ReserveFail, ShouldWake
    <3>3. QED  BY <2>1, <2>2, <3>1, <3>2
  <2>7. CASE \/ RefreshLoadFloor(p) \/ SnapshotTail(p)
             \/ Signal(p) \/ RefreshFetchMax(p) \/ Reserve(p) \/ WriteBody(p)
             \/ Publish(p)
    BY <2>1, <2>7 DEF RefreshLoadFloor, SnapshotTail, Signal,
       RefreshFetchMax, Reserve, WriteBody, Publish
  <2>8. QED
    BY <1>1, <2>3, <2>4, <2>5, <2>6, <2>7 DEF Producer, Examine
<1>2. CASE Consumer
  BY <1>2 DEF Consumer, prodVars
<1>3. QED  BY <1>1, <1>2 DEF Next

\* No wake-up is lost to a step of a producer: only Publish makes an entry
\* visible, and its producer has still to look at the park state.
LEMMA WakeStep ==
    ASSUME IndInv, NEW p \in Producers, Producer(p)
    PROVE  NoLostWake'
<1>1. UNCHANGED <<head, park, cpc, popped, handled, consumed>>
  BY Zenon DEF Producer, consVars
<1> USE <1>1 DEF IndInv, NoLostWake, ConsumerInv, TypeOK, TypeProducers
<1>2. CASE Examine(p) /\ TryPush(p)
  BY <1>2, ExamineFrame DEF TryPush, Goto
<1>3. CASE Examine(p) /\ RefreshLoadFloor(p)
  BY <1>3, ExamineFrame DEF RefreshLoadFloor, Goto
<1>4. CASE Examine(p) /\ RefreshLoadHead(p)
  BY <1>4, ExamineFrame DEF RefreshLoadHead, Goto
<1>5. CASE Examine(p) /\ RefreshLoadTail(p)
  BY <1>5, ExamineFrame DEF RefreshLoadTail, Goto, Return, DropSnapshots,
     HeadVerdict, CursorFaults
<1>6. CASE Examine(p) /\ SnapshotTail(p)
  BY <1>6, ExamineFrame DEF SnapshotTail, Goto
<1>7. CASE Examine(p) /\ SnapshotHeadFirst(p)
  BY <1>7, ExamineFrame DEF SnapshotHeadFirst, Goto, Return, Retry,
     DropSnapshots, Exhausted, HasRoom, CursorFaults
<1>8. CASE Examine(p) /\ SnapshotHeadSecond(p)
  BY <1>8, ExamineFrame DEF SnapshotHeadSecond, Goto, Return, Retry,
     DropSnapshots, CapacityVerdict, CursorFaults
<1>9. CASE Examine(p) /\ ReserveFail(p)
  BY <1>9, ExamineFrame DEF ReserveFail, Goto, Return, Retry, DropSnapshots,
     CursorFaults
<1>10. CASE Examine(p) /\ ShouldWake(p)
  BY <1>10, ExamineFrame DEF ShouldWake, Goto, DropSnapshots
<1>11. CASE Examine(p) /\ Signal(p)
  BY <1>11, ExamineFrame DEF Signal, Goto
<1>12. CASE RefreshFetchMax(p)
  BY <1>12 DEF RefreshFetchMax, Goto
<1>13. CASE Reserve(p)
  BY <1>13 DEF Reserve, Goto
<1>14. CASE WriteBody(p)
  BY <1>14 DEF WriteBody, Goto
<1>15. CASE Publish(p)
  BY <1>15 DEF Publish, Goto
<1>16. QED
  BY <1>2, <1>3, <1>4, <1>5, <1>6, <1>7, <1>8, <1>9, <1>10, <1>11, <1>12,
     <1>13, <1>14, <1>15, Zenon DEF Producer, Examine

\* Nor to a step of the consumer: it sleeps after it rechecked.
LEMMA WakeConsumerStep ==
    ASSUME IndInv, Consumer
    PROVE  NoLostWake'
<1>1. UNCHANGED <<tail, seq, body, validatedHead, prodVars, reserved, wasFull>>
  BY Zenon DEF Consumer
<1> USE <1>1, HeadSequence, Numbers, SequenceNumbers DEF IndInv, NoLostWake,
        TypeOK, prodVars
<1>2. CASE SetPolling
  BY <1>2 DEF SetPolling
<1>3. CASE PopLoadSequence
  BY <1>3 DEF PopLoadSequence
<1>4. CASE PopReadBody
  BY <1>4 DEF PopReadBody
<1>5. CASE PopStoreHead
  BY <1>5 DEF PopStoreHead
<1>6. CASE DeclarePark
  BY <1>6 DEF DeclarePark
<1>7. CASE ParkRecheck
  BY <1>7 DEF ParkRecheck
<1>8. CASE SetActive
  BY <1>8 DEF SetActive
<1>9. CASE Wait
  BY <1>9 DEF Wait
<1>10. QED
  BY <1>2, <1>3, <1>4, <1>5, <1>6, <1>7, <1>8, <1>9 DEF Consumer

-----------------------------------------------------------------------------
(* The theorems.                                                           *)

LEMMA InitInv == Init => IndInv
<1> SUFFICES ASSUME Init  PROVE IndInv
  OBVIOUS
<1> USE Zeros, CapacityAssumption, CursorAssumption DEF Init
<1>1. TypeOK
  <2>1. TypeRing       BY DEF TypeRing
  <2>2. TypeProducers  BY DEF TypeProducers, ProducerPCs, Results
  <2>3. TypeSnapshots  BY DEF TypeSnapshots
  <2>4. TypeConsumer   BY Zenon DEF TypeConsumer, ConsumerPCs
  <2>5. TypeHistory    BY DEF TypeHistory
  <2>6. QED  BY <2>1, <2>2, <2>3, <2>4, <2>5 DEF TypeOK
<1>2. CursorInv    BY DEF CursorInv
<1>3. CellInv      BY CellInRange DEF CellInv
<1>4. HistoryInv   BY DEF HistoryInv
<1>5. ConsumerInv  BY DEF ConsumerInv
<1>6. ASSUME NEW p \in Producers
      PROVE  SampleInv(p) /\ FullInv(p) /\ WriterInv(p)
  BY <1>6 DEF SampleInv, FullInv, WriterInv, Writing, Pushing
<1>7. NoFalseFault  BY DEF NoFalseFault
<1>8. FullWasFull   BY DEF FullWasFull
<1>9. NoLostWake    BY DEF NoLostWake
<1>10. QED  BY <1>1, <1>2, <1>3, <1>4, <1>5, <1>6, <1>7, <1>8, <1>9 DEF IndInv

LEMMA StepInv == IndInv /\ [Next]_vars => IndInv'
<1> SUFFICES ASSUME IndInv, [Next]_vars  PROVE IndInv'
  OBVIOUS
<1>1. CASE Consumer
  <2>1. \A q \in Producers : SampleInv(q)' /\ FullInv(q)' /\ WriterInv(q)'
    BY <1>1, SampleConsumerStep, WriterConsumerStep
  <2>2. TypeProducers' /\ TypeSnapshots'
    BY <1>1 DEF IndInv, Consumer, prodVars, snapVars, TypeOK, TypeProducers,
       TypeSnapshots
  <2>3. TypeOK'
    BY <1>1, <2>2, TypeRingStep, TypeRestStep DEF TypeOK, Next
  <2>4. QED
    BY <1>1, <2>1, <2>3, CursorStep, CellConsumerStep, HistoryStep, FaultStep,
       ConsumerConsumerStep, FullWasFullStep, WakeConsumerStep DEF IndInv, Next
<1>2. ASSUME NEW p \in Producers, Producer(p)  PROVE IndInv'
  <2>1. \A q \in Producers : SampleInv(q)' /\ FullInv(q)' /\ WriterInv(q)'
    BY <1>2, SampleStep, FullStep, WriterStep
  <2>2. TypeOK'
    BY <1>2, TypeLocalsStep, TypeRingStep, TypeRestStep DEF TypeOK, Next
  <2>3. QED
    BY <1>2, <2>1, <2>2, CursorStep, CellStep, HistoryStep, FaultStep,
       ConsumerStep, FullWasFullStep, WakeStep DEF IndInv, Next
<1>3. CASE UNCHANGED vars
  BY <1>3, StutterKeeps, Zenon
<1>4. QED  BY <1>1, <1>2, <1>3 DEF Next

\* The invariant holds in every reachable state.
THEOREM Invariant == Spec => []IndInv
  BY InitInv, StepInv, PTL DEF Spec

\* Every reachable state is type correct: in particular no cursor, sequence or
\* retry counter of ring.rs leaves its range.
THEOREM TypeCorrect == Spec => []TypeOK
<1>1. IndInv => TypeOK  BY DEF IndInv
<1>2. QED  BY <1>1, Invariant, PTL

\* No peer that follows the protocol is reported as faulty by try_push, try_pop
\* or declare_park, however the loads interleave.
THEOREM NobodyAccused == Spec => []NoFalseFault
<1>1. IndInv => NoFalseFault  BY DEF IndInv
<1>2. QED  BY <1>1, Invariant, PTL

\* A reserved cell has one writer and no reader until it is published.
THEOREM ExclusiveCells == Spec => []CellExclusive
<1>1. IndInv => CellExclusive
  <2> SUFFICES ASSUME IndInv, NEW p \in Producers, Writing(p)
               PROVE  /\ firstTail[p] - head < Capacity
                      /\ \A q \in Producers \ {p} :
                           Writing(q) => Cell(firstTail[q]) # Cell(firstTail[p])
    BY DEF CellExclusive
  <2>1. firstTail[p] - head < Capacity
    BY WriterInLap, Zenon
  <2>2. QED  BY <2>1, WritersApart
<1>2. QED  BY <1>1, Invariant, PTL

\* The daemon consumes exactly what the kernel reserved, in that order.
THEOREM InOrder == Spec => []ConsumedInOrder
<1>1. IndInv => ConsumedInOrder
  BY Numbers DEF IndInv, CursorInv, HistoryInv, ConsumedInOrder
<1>2. QED  BY <1>1, Invariant, PTL

\* A push answers Full only for a ring that was full during the call.
THEOREM FullIsTrue == Spec => []FullWasFull
<1>1. IndInv => FullWasFull  BY DEF IndInv
<1>2. QED  BY <1>1, Invariant, PTL

\* A consumer never sleeps beside a published entry with nobody left to wake it.
THEOREM NoWakeLost == Spec => []NoLostWake
<1>1. IndInv => NoLostWake  BY DEF IndInv
<1>2. QED  BY <1>1, Invariant, PTL

\* Cursors and sequences of ring.rs never go back.
THEOREM CursorsNeverRegress == Spec => CursorsMonotone
<1> DEFINE Forward == /\ tail' >= tail /\ head' >= head
                      /\ validatedHead' >= validatedHead
                      /\ \A c \in Cells : seq'[c] >= seq[c]
                      /\ validatedHead' <= head'
<1>1. ASSUME IndInv, IndInv', [Next]_vars  PROVE Forward \/ UNCHANGED vars
  <2>1. validatedHead' <= head'
    BY <1>1 DEF IndInv, CursorInv
  <2>2. \A c \in Cells : seq[c] \in Nat
    BY <1>1, CursorAssumption DEF IndInv, TypeOK, TypeRing, Cursors
  <2>3. tail \in Nat /\ head \in Nat /\ validatedHead \in Nat
    BY <1>1, Numbers, Zenon DEF IndInv
  <2>4. CASE Consumer
    <3>1. UNCHANGED <<tail, seq, validatedHead>>
      BY <2>4 DEF Consumer
    <3>2. head' = head \/ head' = head + 1
      BY <2>4 DEF Consumer, SetPolling, PopLoadSequence, PopReadBody,
         PopStoreHead, DeclarePark, ParkRecheck, SetActive, Wait
    <3>3. QED  BY <2>1, <2>2, <2>3, <3>1, <3>2
  <2>5. ASSUME NEW p \in Producers, Producer(p)  PROVE Forward
    <3>1. UNCHANGED head
      BY <2>5 DEF Producer
    <3>2. CASE Examine(p) \/ WriteBody(p)
      <4>1. UNCHANGED <<tail, seq, validatedHead>>
        BY <3>2, ExamineFrame DEF WriteBody
      <4>2. QED  BY <2>1, <2>2, <2>3, <3>1, <4>1
    <3>3. CASE RefreshFetchMax(p)
      <4>1. UNCHANGED <<tail, seq>> /\ observed[p] \in Nat
        BY <1>1, <3>3, Numbers DEF IndInv, RefreshFetchMax
      <4>2. validatedHead' >= validatedHead
        BY <2>3, <3>3, <4>1 DEF RefreshFetchMax
      <4>3. QED  BY <2>1, <2>2, <2>3, <3>1, <4>1, <4>2
    <3>4. CASE Reserve(p)
      BY <2>1, <2>2, <2>3, <3>1, <3>4 DEF Reserve
    <3>5. CASE Publish(p)
      <4>1. /\ firstTail[p] \in Nat /\ head \in Nat
            /\ seq[Cell(firstTail[p])] \in Nat
        BY <1>1, Numbers, SequenceNumbers DEF IndInv
      <4>2. seq[Cell(firstTail[p])] <= head /\ head <= firstTail[p]
        BY <1>1, <3>5 DEF IndInv, Publish, WriterInv, Writing
      <4>3. UNCHANGED <<tail, validatedHead>>
        BY <3>5 DEF Publish
      <4>4. seq' = [seq EXCEPT ![Cell(firstTail[p])] = firstTail[p] + 1]
        BY <3>5 DEF Publish
      <4>5. seq \in [Cells -> Cursors]
        BY <1>1 DEF IndInv, TypeOK, TypeRing
      <4>6. \A c \in Cells : seq'[c] >= seq[c]
        BY <2>2, <4>1, <4>2, <4>4, <4>5
      <4>7. QED  BY <2>1, <2>3, <3>1, <4>3, <4>6
    <3>6. QED  BY <2>5, <3>2, <3>3, <3>4, <3>5 DEF Producer
  <2>6. QED  BY <1>1, <2>4, <2>5 DEF Next
<1>2. QED  BY <1>1, Invariant, PTL DEF Spec, CursorsMonotone

\* The submission ring implements the bounded channel: a successful compare and
\* exchange of tail is the put, the store of head the take, and every other step
\* of producers and consumer changes nothing a user of the channel sees.
THEOREM Implements == Spec => RefinesFifo
<1> DEFINE queue == SubSeq(reserved, head + 1, tail)
<1>1. Init => Fifo!Init
  <2> SUFFICES ASSUME Init  PROVE queue = << >> /\ consumed = << >>
    BY DEF Fifo!Init
  <2>1. head = 0 /\ tail = 0 /\ reserved = << >> /\ consumed = << >>
    BY DEF Init
  <2>2. QED  BY <2>1, WindowEmpty DEF Window
<1>2. IndInv /\ IndInv' /\ [Next]_vars => [Fifo!Next]_(Fifo!vars)
  <2> SUFFICES ASSUME IndInv, IndInv', [Next]_vars  PROVE [Fifo!Next]_(Fifo!vars)
    OBVIOUS
  <2>1. /\ head \in Nat /\ tail \in Nat /\ head <= tail /\ tail - head <= Capacity
        /\ reserved \in Seq(Bodies) /\ Len(reserved) = tail
    <3>1. TypeOK /\ CursorInv /\ HistoryInv
      BY DEF IndInv
    <3>2. head \in Nat /\ tail \in Nat /\ validatedHead \in Nat
      BY <3>1, Numbers
    <3>3. reserved \in Seq(Bodies)
      BY <3>1 DEF TypeOK, TypeHistory
    <3>4. QED  BY <3>1, <3>2, <3>3, CapacityAssumption DEF CursorInv, HistoryInv
  <2>2. queue = Window(reserved, head) /\ queue \in Seq(Bodies) /\ Len(queue) = tail - head
    <3>1. queue = Window(reserved, head)
      BY <2>1 DEF Window
    <3>2. QED  BY <2>1, <3>1, WindowShape
  <2>3. CASE UNCHANGED <<head, tail, reserved, consumed>>
    BY <2>3 DEF Fifo!vars
  <2>4. ASSUME NEW p \in Producers, Reserve(p), UNCHANGED <<head, consumed>>
        PROVE  Fifo!Next
    <3> DEFINE b == <<p, pushed[p]>>
    <3>1. tail' = tail + 1 /\ reserved' = Append(reserved, b) /\ b \in Bodies
      BY <2>4 DEF Reserve, NoteReserved, IndInv, TypeOK, TypeProducers, Bodies
    <3> HIDE DEF b
    <3>2. tail - head < Capacity
      <4>1. head' = head /\ tail' = tail + 1
        BY <2>4, <3>1
      <4>2. TypeOK' /\ CursorInv'
        BY DEF IndInv
      <4>3. PICK v \in Nat : tail + 1 <= v + Capacity /\ v <= head
        BY <4>1, <4>2, CursorAssumption DEF TypeOK, TypeRing, Cursors, CursorInv
      <4>4. head \in Nat /\ tail \in Nat
        BY <2>1
      <4>5. QED  BY <4>3, <4>4, CapacityAssumption
    <3>3. SubSeq(reserved', head' + 1, tail') = Append(queue, b)
      <4>1. Len(Append(reserved, b)) = tail + 1
        BY <2>1
      <4>2. Window(Append(reserved, b), head) = Append(Window(reserved, head), b)
        BY <2>1, <3>1, WindowGrows
      <4>3. QED  BY <2>2, <2>4, <3>1, <4>1, <4>2 DEF Window
    <3>4. Fifo!Put(b)
      BY <2>2, <2>4, <3>2, <3>3 DEF Fifo!Put
    <3>5. QED  BY <3>1, <3>4 DEF Fifo!Next
  <2>5. ASSUME PopStoreHead, UNCHANGED <<tail, reserved>>
        PROVE  Fifo!Next
    <3>1. popped = reserved[head + 1] /\ head < tail
      BY <2>5, HeadPublished DEF PopStoreHead, IndInv, ConsumerInv
    <3>2. head' = head + 1 /\ consumed' = Append(consumed, reserved[head + 1])
      BY <2>5, <3>1 DEF PopStoreHead, NoteConsumed
    <3>3. /\ queue # << >> /\ Head(queue) = reserved[head + 1]
          /\ SubSeq(reserved, head + 2, tail) = Tail(queue)
      <4>1. /\ Window(reserved, head) # << >> /\ Head(Window(reserved, head)) = reserved[head + 1]
            /\ Window(reserved, head + 1) = Tail(Window(reserved, head))
        BY <2>1, <3>1, WindowShrinks
      <4>2. Window(reserved, head + 1) = SubSeq(reserved, head + 2, tail)
        BY <2>1 DEF Window
      <4>3. QED  BY <2>2, <4>1, <4>2
    <3>4. SubSeq(reserved', head' + 1, tail') = Tail(queue)
      BY <2>1, <2>5, <3>2, <3>3
    <3>5. Fifo!Take
      BY <3>2, <3>3, <3>4 DEF Fifo!Take
    <3>6. QED  BY <3>5 DEF Fifo!Next
  <2>6. CASE Consumer
    <3>1. UNCHANGED <<tail, reserved>>
      BY <2>6 DEF Consumer
    <3>2. PopStoreHead \/ UNCHANGED <<head, consumed>>
      BY <2>6, Zenon DEF Consumer, SetPolling, PopLoadSequence, PopReadBody,
         DeclarePark, ParkRecheck, SetActive, Wait
    <3>3. QED  BY <2>3, <2>5, <3>1, <3>2
  <2>7. ASSUME NEW p \in Producers, Producer(p)  PROVE [Fifo!Next]_(Fifo!vars)
    <3>1. UNCHANGED <<head, consumed>>
      BY <2>7 DEF Producer
    <3>2. Reserve(p) \/ UNCHANGED <<tail, reserved>>
      BY <2>7, ExamineFrame, Zenon DEF Producer, RefreshFetchMax, WriteBody, Publish
    <3>3. QED  BY <2>3, <2>4, <3>1, <3>2
  <2>8. CASE UNCHANGED vars
    BY <2>3, <2>8 DEF vars, ringVars, consVars, histVars
  <2>9. QED  BY <2>6, <2>7, <2>8 DEF Next
<1>3. QED  BY <1>1, <1>2, Invariant, PTL DEF Spec, RefinesFifo, Fifo!Spec

=============================================================================
