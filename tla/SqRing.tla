------------------------------- MODULE SqRing -------------------------------
(***************************************************************************)
(* The submission ring of fsring-abi/src/ring.rs: a family of kernel       *)
(* producers (MpscProducer) that share one handle, the sole daemon         *)
(* consumer (SingleConsumer), the park state both look at, and the wake    *)
(* object the consumer sleeps on.                                          *)
(*                                                                         *)
(* Every load, store and read-modify-write of shared memory is a step of   *)
(* its own.  The steps interleave sequentially consistently: the code      *)
(* orders the accesses that matter with Acquire/Release pairs on head,     *)
(* tail and sequence and with SeqCst fences on both sides of park_state.   *)
(***************************************************************************)
EXTENDS Integers, Sequences

CONSTANTS Producers,   \* threads sharing the MpscProducer handle
          Capacity,    \* cells of the ring, a power of two
          MaxRetries,  \* MAX_RESERVE_RETRIES (64 in the code)
          MaxCursor    \* u64::MAX, the value no cursor can pass

ASSUME CapacityAssumption == Capacity \in Nat /\ Capacity >= 2
ASSUME RetriesAssumption  == MaxRetries \in Nat \ {0}
ASSUME CursorAssumption   == MaxCursor \in Nat /\ MaxCursor >= Capacity

VARIABLES
    tail, head, seq, body, park,   \* the shared pages and entries
    validatedHead,                 \* the floor shared by the producers
    pc, pass, tries,               \* per producer: control
    floor, observed,               \* per producer: refresh_validated_head
    firstTail, firstHead,          \* per producer: the first CapacitySnapshot
    secondTail,                    \* per producer: the second, until its head is loaded
    result, pushed,                \* per producer: outcome, pushes that succeeded
    cpc, popped, handled,          \* the consumer: control, body, stats.handled > 0
    signalled,                     \* the auto-reset wake object
    reserved, consumed, wasFull    \* history, read by properties only

ringVars == <<tail, head, seq, body, park, validatedHead>>
snapVars == <<firstTail, firstHead, secondTail>>
prodVars == <<pc, pass, tries, floor, observed, snapVars, result, pushed>>
consVars == <<cpc, popped, handled>>
histVars == <<reserved, consumed, wasFull>>
vars == <<ringVars, prodVars, consVars, signalled, histVars>>

Cells     == 0 .. Capacity - 1
Cursors   == 0 .. MaxCursor
Bodies    == Producers \X Cursors
Cell(pos) == pos % Capacity               \* position & mask
EmptyBody == <<>>

CursorFaults == {"Regressed", "AheadOfProducer", "OverCapacity", "Exhausted"}
Results      == CursorFaults \cup {"none", "Ok", "Full", "Contended"}

Init == /\ tail = 0 /\ head = 0 /\ validatedHead = 0 /\ park = "ACTIVE"
        /\ seq = [c \in Cells |-> 0]
        /\ body = [c \in Cells |-> EmptyBody]
        /\ pc = [p \in Producers |-> "idle"]
        /\ pass = [p \in Producers |-> 1]
        /\ tries = [p \in Producers |-> 0]
        /\ floor = [p \in Producers |-> 0]
        /\ observed = [p \in Producers |-> 0]
        /\ firstTail = [p \in Producers |-> 0]
        /\ firstHead = [p \in Producers |-> 0]
        /\ secondTail = [p \in Producers |-> 0]
        /\ result = [p \in Producers |-> "none"]
        /\ pushed = [p \in Producers |-> 0]
        /\ cpc = "poll" /\ popped = EmptyBody /\ handled = FALSE
        /\ signalled = FALSE
        /\ reserved = <<>> /\ consumed = <<>>
        /\ wasFull = {}

\* The histories: bodies in the order of their reservation and consumption.
NoteReserved(p) == reserved' = Append(reserved, <<p, pushed[p]>>)
NoteConsumed    == consumed' = Append(consumed, popped)

-----------------------------------------------------------------------------
(* Producers.                                                              *)

Goto(p, where) == pc' = [pc EXCEPT ![p] = where]

\* The snapshots go out of scope at the end of a turn of the loop.
DropSnapshots(p) == /\ firstTail' = [firstTail EXCEPT ![p] = 0]
                    /\ firstHead' = [firstHead EXCEPT ![p] = 0]
                    /\ secondTail' = [secondTail EXCEPT ![p] = 0]
                    /\ pass' = [pass EXCEPT ![p] = 1]

\* The call returns; a caller handed a fault stops using the ring.
Return(p, res) == /\ result' = [result EXCEPT ![p] = res]
                  /\ tries' = [tries EXCEPT ![p] = 0]
                  /\ DropSnapshots(p)
                  /\ Goto(p, IF res \in CursorFaults THEN "stopped" ELSE "idle")

\* The next turn of the bounded reservation loop, or Contended after the last.
Retry(p) == IF tries[p] + 1 = MaxRetries
            THEN Return(p, "Contended")
            ELSE /\ tries' = [tries EXCEPT ![p] = @ + 1]
                 /\ DropSnapshots(p)
                 /\ Goto(p, "floor")
                 /\ UNCHANGED result

\* A caller submits its next body, a first time or again after Full/Contended.
TryPush(p) == /\ pc[p] = "idle"
              /\ result' = [result EXCEPT ![p] = "none"]
              /\ Goto(p, "floor")
              /\ UNCHANGED <<pass, tries, floor, observed, snapVars, pushed,
                             signalled, wasFull>>

RefreshLoadFloor(p) ==
    /\ pc[p] = "floor"
    /\ floor' = [floor EXCEPT ![p] = validatedHead]
    /\ Goto(p, "head")
    /\ UNCHANGED <<pass, tries, observed, snapVars, result, pushed, signalled,
                   wasFull>>

RefreshLoadHead(p) ==
    /\ pc[p] = "head"
    /\ observed' = [observed EXCEPT ![p] = head]
    /\ wasFull' = IF pass[p] = 2 /\ tail - head = Capacity
                  THEN wasFull \cup {p} ELSE wasFull \ {p}
    /\ Goto(p, "tail")
    /\ UNCHANGED <<pass, tries, floor, snapVars, result, pushed, signalled>>

\* What refresh_validated_head makes of a head, a floor and a tail.
HeadVerdict(obs, flr, t) == IF obs < flr THEN "Regressed"
                            ELSE IF obs > t THEN "AheadOfProducer" ELSE "Ok"

\* Mutant: the floor is loaded after the head it is compared with.
FloorLoadedLate(p) ==
    LET verdict == HeadVerdict(observed[p], validatedHead, tail)
    IN /\ pc[p] = "tail"
       /\ floor' = [floor EXCEPT ![p] = 0]
       /\ IF verdict = "Ok"
          THEN /\ Goto(p, "fetchMax")
               /\ UNCHANGED <<observed, result, tries, snapVars, pass>>
          ELSE Return(p, verdict) /\ UNCHANGED observed
       /\ UNCHANGED <<pushed, signalled, wasFull>>

\* Tail is loaded after head; then the three comparisons.
RefreshLoadTail(p) ==
    LET verdict == HeadVerdict(observed[p], floor[p], tail)
    IN /\ pc[p] = "tail"
       /\ floor' = [floor EXCEPT ![p] = 0]
       /\ IF verdict = "Ok"
          THEN /\ IF observed[p] > floor[p]
                  THEN Goto(p, "fetchMax") /\ UNCHANGED observed
                  ELSE /\ Goto(p, "snapTail")
                       /\ observed' = [observed EXCEPT ![p] = 0]
               /\ UNCHANGED <<result, tries, snapVars, pass>>
          ELSE Return(p, verdict) /\ UNCHANGED observed
       /\ UNCHANGED <<pushed, signalled, wasFull>>

RefreshFetchMax(p) ==
    /\ pc[p] = "fetchMax"
    /\ validatedHead' = IF observed[p] > validatedHead THEN observed[p]
                        ELSE validatedHead
    /\ observed' = [observed EXCEPT ![p] = 0]
    /\ Goto(p, "snapTail")
    /\ UNCHANGED <<tail, seq, body, reserved, pass, tries, floor, snapVars,
                   result, pushed, signalled, wasFull>>

SnapshotTail(p) ==
    /\ pc[p] = "snapTail"
    /\ IF pass[p] = 1
       THEN firstTail' = [firstTail EXCEPT ![p] = tail] /\ UNCHANGED secondTail
       ELSE secondTail' = [secondTail EXCEPT ![p] = tail] /\ UNCHANGED firstTail
    /\ Goto(p, "snapHead")
    /\ UNCHANGED <<firstHead, pass, tries, floor, observed, result, pushed,
                   signalled, wasFull>>

Exhausted(t) == t = MaxCursor

\* Mutant: a full ring is taken for one with room.
RoomForOneMore(t, h) == t <= h + Capacity

HasRoom(t, h) == t < h + Capacity

\* The first snapshot: exhausted, inconsistent, apparently full, or room.
SnapshotHeadFirst(p) ==
    LET t == firstTail[p]
        h == validatedHead
        keep == /\ firstHead' = [firstHead EXCEPT ![p] = h]
                /\ UNCHANGED <<firstTail, secondTail>>
    IN /\ pc[p] = "snapHead" /\ pass[p] = 1
       /\ \/ Exhausted(t) /\ Return(p, "Exhausted")
          \/ ~Exhausted(t) /\ t < h /\ Retry(p)
          \/ /\ ~Exhausted(t) /\ t >= h /\ ~HasRoom(t, h)
             /\ keep
             /\ pass' = [pass EXCEPT ![p] = 2]
             /\ Goto(p, "floor")
             /\ UNCHANGED <<tries, result>>
          \/ /\ ~Exhausted(t) /\ t >= h /\ HasRoom(t, h)
             /\ keep
             /\ Goto(p, "cas")
             /\ UNCHANGED <<tries, pass, result>>
       /\ UNCHANGED <<floor, observed, pushed, signalled, wasFull>>

\* The second snapshot classifies only when nothing moved since the first.
CapacityVerdict(fst, snd) ==
    LET distance == snd[1] - snd[2]
    IN IF fst # snd \/ distance < Capacity THEN "Retry"
       ELSE IF distance = Capacity THEN "Full" ELSE "OverCapacity"

SnapshotHeadSecond(p) ==
    LET verdict == CapacityVerdict(<<firstTail[p], firstHead[p]>>,
                                   <<secondTail[p], validatedHead>>)
    IN /\ pc[p] = "snapHead" /\ pass[p] = 2
       /\ IF verdict = "Retry" THEN Retry(p) ELSE Return(p, verdict)
       /\ UNCHANGED <<floor, observed, pushed, signalled, wasFull>>

\* Mutant: a plain store replaces the compare-exchange.
StoreForCompareExchange(p) ==
    /\ pc[p] = "cas"
    /\ tail' = firstTail[p] + 1
    /\ NoteReserved(p)
    /\ Goto(p, "body")
    /\ UNCHANGED <<seq, body, validatedHead, pass, tries, floor, observed,
                   snapVars, result, pushed, signalled, wasFull>>

\* The weak compare-exchange on tail reserves a position.
Reserve(p) == /\ pc[p] = "cas"
              /\ tail = firstTail[p]
              /\ tail' = tail + 1
              /\ NoteReserved(p)
              /\ Goto(p, "body")
              /\ UNCHANGED <<seq, body, validatedHead, pass, tries, floor,
                             observed, snapVars, result, pushed, signalled,
                             wasFull>>

\* It fails when tail moved, and may fail spuriously.
ReserveFail(p) == /\ pc[p] = "cas"
                  /\ Retry(p)
                  /\ UNCHANGED <<floor, observed, pushed, signalled, wasFull>>

WriteBody(p) == /\ pc[p] = "body"
                /\ body' = [body EXCEPT ![Cell(firstTail[p])] = <<p, pushed[p]>>]
                /\ Goto(p, "publish")
                /\ UNCHANGED <<tail, seq, validatedHead, reserved, pass, tries,
                               floor, observed, snapVars, result, pushed,
                               signalled, wasFull>>

Publish(p) == /\ pc[p] = "publish"
              /\ seq' = [seq EXCEPT ![Cell(firstTail[p])] = firstTail[p] + 1]
              /\ Goto(p, "shouldWake")
              /\ UNCHANGED <<tail, body, validatedHead, reserved, pass, tries,
                             floor, observed, snapVars, result, pushed,
                             signalled, wasFull>>

\* The park state is read after publication and decides the receipt.
ShouldWake(p) == /\ pc[p] = "shouldWake"
                 /\ pushed' = [pushed EXCEPT ![p] = @ + 1]
                 /\ result' = [result EXCEPT ![p] = "Ok"]
                 /\ tries' = [tries EXCEPT ![p] = 0]
                 /\ DropSnapshots(p)
                 /\ Goto(p, IF park = "PARKED" THEN "signal" ELSE "idle")
                 /\ UNCHANGED <<floor, observed, signalled, wasFull>>

\* The caller honours a receipt whose should_wake is set.
Signal(p) == /\ pc[p] = "signal"
             /\ signalled' = TRUE
             /\ Goto(p, "idle")
             /\ UNCHANGED <<pass, tries, floor, observed, snapVars, result,
                            pushed, wasFull>>

\* The steps of a push that only look at the ring.
Examine(p) == /\ \/ TryPush(p)
                 \/ RefreshLoadFloor(p) \/ RefreshLoadHead(p) \/ RefreshLoadTail(p)
                 \/ SnapshotTail(p) \/ SnapshotHeadFirst(p) \/ SnapshotHeadSecond(p)
                 \/ ReserveFail(p) \/ ShouldWake(p) \/ Signal(p)
              /\ UNCHANGED <<tail, seq, body, validatedHead, reserved>>

\* A producer never writes the consumer's page.
Producer(p) == /\ \/ Examine(p) \/ RefreshFetchMax(p)
                  \/ Reserve(p) \/ WriteBody(p) \/ Publish(p)
               /\ UNCHANGED <<head, park, consVars, consumed>>

-----------------------------------------------------------------------------
(* The consumer: a loop of pump_once and, after a pass that handled         *)
(* nothing, declare_park and a blocking wait.                              *)

\* pump_once begins a pass by storing POLLING.
SetPolling == /\ cpc = "poll"
              /\ park' = "POLLING"
              /\ handled' = FALSE
              /\ cpc' = "pop"
              /\ UNCHANGED <<head, popped, signalled, consumed>>

\* try_pop: load the sequence of the next cell; no item ends the pass.
PopLoadSequence ==
    LET s == seq[Cell(head)]
    IN /\ cpc = "pop"
       /\ cpc' = IF head = MaxCursor THEN "Exhausted"
                 ELSE IF s > head + 1 THEN "FutureSequence"
                 ELSE IF s = head + 1 THEN "readBody"
                 ELSE IF handled THEN "poll" ELSE "declare"
       /\ UNCHANGED <<head, park, popped, handled, signalled, consumed>>

PopReadBody == /\ cpc = "readBody"
               /\ popped' = body[Cell(head)]
               /\ cpc' = "storeHead"
               /\ UNCHANGED <<head, park, handled, signalled, consumed>>

PopStoreHead == /\ cpc = "storeHead"
                /\ head' = head + 1
                /\ NoteConsumed
                /\ popped' = EmptyBody
                /\ handled' = TRUE
                /\ cpc' = "pop"
                /\ UNCHANGED <<park, signalled>>

\* Mutant: the recheck is made without storing PARKED first.
ParkWithoutDeclaring ==
    /\ cpc = "declare"
    /\ cpc' = "recheck"
    /\ UNCHANGED <<head, park, popped, handled, signalled, consumed>>

\* declare_park: store PARKED, then recheck the exact next sequence.
DeclarePark == /\ cpc = "declare"
               /\ park' = "PARKED"
               /\ cpc' = "recheck"
               /\ UNCHANGED <<head, popped, handled, signalled, consumed>>

\* Mutant: PARKED is stored and the sequence not looked at again.
ParkWithoutRecheck ==
    /\ cpc = "recheck"
    /\ cpc' = "wait"
    /\ UNCHANGED <<head, park, popped, handled, signalled, consumed>>

ParkRecheck ==
    LET s == seq[Cell(head)]
    IN /\ cpc = "recheck"
       /\ cpc' = IF s < head + 1 THEN "wait"
                 ELSE IF s = head + 1 THEN "setActive" ELSE "faultActive"
       /\ UNCHANGED <<head, park, popped, handled, signalled, consumed>>

\* Visible work or a fault restores ACTIVE before declare_park returns.
SetActive == /\ cpc \in {"setActive", "faultActive"}
             /\ park' = "ACTIVE"
             /\ cpc' = IF cpc = "setActive" THEN "poll" ELSE "FutureSequence"
             /\ UNCHANGED <<head, popped, handled, signalled, consumed>>

\* The wait consumes the one saturating pending signal.
Wait == /\ cpc = "wait" /\ signalled
        /\ signalled' = FALSE
        /\ cpc' = "poll"
        /\ UNCHANGED <<head, park, popped, handled, consumed>>

\* The consumer writes its own page and nothing of the producers'.
Consumer == /\ \/ SetPolling \/ PopLoadSequence \/ PopReadBody \/ PopStoreHead
               \/ DeclarePark \/ ParkRecheck \/ SetActive \/ Wait
            /\ UNCHANGED <<tail, seq, body, validatedHead, prodVars, reserved,
                           wasFull>>

Next == Consumer \/ \E p \in Producers : Producer(p)

Spec == Init /\ [][Next]_vars

\* The consumer's loop and a push under way keep running; nobody has to push.
FairSpec == /\ Spec
            /\ WF_vars(Consumer)
            /\ \A p \in Producers : WF_vars(pc[p] # "idle" /\ Producer(p))
-----------------------------------------------------------------------------
(* Properties.                                                             *)

ProducerPCs == {"idle", "floor", "head", "tail", "fetchMax", "snapTail",
                "snapHead", "cas", "body", "publish", "shouldWake", "signal",
                "stopped"}
ConsumerPCs == {"poll", "pop", "readBody", "storeHead", "declare", "recheck",
                "wait", "setActive", "faultActive", "Exhausted",
                "FutureSequence"}

TypeRing == /\ tail \in Cursors /\ head \in Cursors /\ validatedHead \in Cursors
            /\ seq \in [Cells -> Cursors]
            /\ body \in [Cells -> Bodies \cup {EmptyBody}]
            /\ park \in {"ACTIVE", "POLLING", "PARKED"}
TypeProducers == /\ pc \in [Producers -> ProducerPCs]
                 /\ pass \in [Producers -> {1, 2}]
                 /\ tries \in [Producers -> 0 .. MaxRetries - 1]
                 /\ floor \in [Producers -> Cursors]
                 /\ observed \in [Producers -> Cursors]
                 /\ result \in [Producers -> Results]
                 /\ pushed \in [Producers -> Cursors]
TypeSnapshots == /\ firstTail \in [Producers -> Cursors]
                 /\ firstHead \in [Producers -> Cursors]
                 /\ secondTail \in [Producers -> Cursors]
TypeConsumer == /\ cpc \in ConsumerPCs
                /\ popped \in Bodies \cup {EmptyBody}
                /\ signalled \in BOOLEAN /\ handled \in BOOLEAN
TypeHistory == /\ reserved \in Seq(Bodies) /\ consumed \in Seq(Bodies)
               /\ wasFull \in SUBSET Producers

\* Every variable has the type of the field or local it stands for; the loop
\* counter of try_push stays below MAX_RESERVE_RETRIES.
TypeOK == TypeRing /\ TypeProducers /\ TypeSnapshots /\ TypeConsumer /\ TypeHistory

\* Between a consumer and producers that all follow the protocol nobody is
\* accused: no push returns Regressed, AheadOfProducer or OverCapacity and no
\* pop returns FutureSequence, however stale the samples a push compares.
NoFalseFault ==
    /\ \A p \in Producers :
         result[p] \notin {"Regressed", "AheadOfProducer", "OverCapacity"}
    /\ cpc \notin {"faultActive", "FutureSequence"}

Writing(p) == pc[p] \in {"body", "publish"}

\* A cell being written belongs to one producer, and the consumer has already
\* consumed whatever the cell held before.
CellExclusive ==
    \A p \in Producers : Writing(p) =>
        /\ firstTail[p] - head < Capacity
        /\ \A q \in Producers \ {p} :
             Writing(q) => Cell(firstTail[q]) # Cell(firstTail[p])

\* The bodies consumed are exactly the bodies reserved, in reservation order:
\* none is lost, duplicated, reordered or read half written.
ConsumedInOrder ==
    \A i \in 1 .. Len(consumed) : i <= Len(reserved) /\ consumed[i] = reserved[i]

\* A push that answers Full saw a ring that was full at the moment it last
\* loaded head: a slow producer does not report a Full that never was.
FullWasFull == \A p \in Producers : result[p] = "Full" => p \in wasFull

\* No lost wake-up: a consumer asleep beside a published entry has a signal
\* pending, or a producer that is still going to look at the park state.
NoLostWake ==
    cpc = "wait" /\ seq[Cell(head)] = head + 1 =>
        signalled \/ \E p \in Producers : pc[p] \in {"shouldWake", "signal"}

\* The ring implements the bounded channel: a reservation is the put and the
\* store of head is the take.
Fifo == INSTANCE BoundedFifo WITH
            Items <- Bodies,
            queue <- SubSeq(reserved, head + 1, tail),
            taken <- consumed
RefinesFifo == Fifo!Spec

\* Cursors and sequences only grow, and the floor never passes the head.
CursorsMonotone ==
    [][/\ tail' >= tail /\ head' >= head /\ validatedHead' >= validatedHead
       /\ \A c \in Cells : seq'[c] >= seq[c]
       /\ validatedHead' <= head']_vars

\* Every position reserved is eventually consumed.  Tail stops growing at
\* MaxCursor at the latest, so catching up with it again and again is that.
EveryEntryConsumed == []<>(head = tail)
-----------------------------------------------------------------------------
(* The inductive invariant behind the safety properties above.             *)

\* A push in progress has not been answered yet.
Pushing(p) == pc[p] \notin {"idle", "stopped", "signal"}

\* The cursors in order; a reservation never gets a full lap past the floor.
CursorInv == /\ validatedHead <= head /\ head <= tail
             /\ tail <= validatedHead + Capacity

\* What the stale samples of producer p still guarantee.
SampleInv(p) ==
    /\ Pushing(p) => result[p] = "none"
    /\ pc[p] \in {"head", "tail"} => floor[p] <= validatedHead
    /\ pc[p] = "tail" => floor[p] <= observed[p]
    /\ pc[p] \in {"tail", "fetchMax"} => observed[p] <= head
    /\ pc[p] = "snapHead" \/ pass[p] = 2 =>
         firstTail[p] <= tail /\ firstTail[p] <= validatedHead + Capacity
    /\ pass[p] = 2 => /\ firstHead[p] <= validatedHead
                      /\ firstHead[p] + Capacity = firstTail[p]
    /\ pass[p] = 2 /\ pc[p] = "snapHead" =>
         secondTail[p] <= tail /\ secondTail[p] <= validatedHead + Capacity
    /\ pc[p] = "cas" => /\ firstHead[p] <= validatedHead
                        /\ firstTail[p] < firstHead[p] + Capacity
                        /\ firstTail[p] < MaxCursor

\* A second pass that started from a ring not full will see a cursor move.
FullInv(p) ==
    /\ pass[p] = 2 /\ pc[p] \in {"tail", "fetchMax"} =>
         p \in wasFull \/ observed[p] > firstHead[p] \/ tail > firstTail[p]
    /\ pass[p] = 2 /\ pc[p] = "snapTail" =>
         p \in wasFull \/ validatedHead > firstHead[p] \/ tail > firstTail[p]
    /\ pass[p] = 2 /\ pc[p] = "snapHead" =>
         p \in wasFull \/ validatedHead > firstHead[p]
                        \/ secondTail[p] > firstTail[p]

\* What a producer between its reservation and its publication owns.
WriterInv(p) ==
    /\ pushed[p] <= tail
    /\ Writing(p) \/ pc[p] = "shouldWake" =>
         pushed[p] <= firstTail[p] /\ firstTail[p] < tail
    /\ Writing(p) => /\ head <= firstTail[p]
                     /\ seq[Cell(firstTail[p])] <= head
                     /\ reserved[firstTail[p] + 1] = <<p, pushed[p]>>
    /\ pc[p] = "publish" => body[Cell(firstTail[p])] = <<p, pushed[p]>>

\* Each position of the lap ahead of head is published, with the body of its
\* reservation, or its cell still carries the sequence of an earlier lap.
CellInv == \A i \in head .. head + Capacity - 1 :
              \/ seq[Cell(i)] <= head
              \/ /\ seq[Cell(i)] = i + 1 /\ i < tail
                 /\ body[Cell(i)] = reserved[i + 1]

HistoryInv == /\ Len(reserved) = tail /\ Len(consumed) = head
              /\ \A i \in 1 .. head : consumed[i] = reserved[i]

ConsumerInv == /\ cpc \in {"readBody", "storeHead"} =>
                     seq[Cell(head)] = head + 1 /\ head < MaxCursor
               /\ cpc = "storeHead" => popped = reserved[head + 1]
               /\ cpc \in {"recheck", "wait"} => park = "PARKED"

IndInv == /\ TypeOK /\ CursorInv /\ CellInv /\ HistoryInv /\ ConsumerInv
          /\ \A p \in Producers : SampleInv(p) /\ FullInv(p) /\ WriterInv(p)
          /\ NoFalseFault /\ FullWasFull /\ NoLostWake

=============================================================================
