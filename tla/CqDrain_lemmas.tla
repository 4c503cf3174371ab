--------------------------- MODULE CqDrain_lemmas ---------------------------
(***************************************************************************)
(* Proofs about the completion ring, for every number of threads and       *)
(* credits and every bound.                                                *)
(*                                                                         *)
(* IndInv (module CqDrain) is inductive.  It is proved in three layers.    *)
(* ControlInv says what the control of threads and fence means for locks   *)
(* and roles; it needs nothing else.  RingInv is about cursors, cells and  *)
(* histories; it needs to know of the drain only that a head about to be   *)
(* advanced stands before a published record.  The rest is about credits.  *)
(* For it DrainCases lists the steps as the drain's data sees them, with   *)
(* DrainPc, the control of whichever thread holds the ring lock, in place  *)
(* of the threads.                                                         *)
(***************************************************************************)
EXTENDS CqDrain, TLAPS

\* What a step of a thread inside the driver does to its control and the locks.
LEMMA EnterControl ==
    ASSUME NEW t \in Threads, Enter(t), TypeControl
    PROVE  /\ UNCHANGED fenceVars
           /\ \E w \in EnterPcs : epc' = [epc EXCEPT ![t] = w]
           /\ \/ /\ epc[t] = "idle" /\ rundown = "open" /\ epc'[t] = "resolved"
                 /\ UNCHANGED lockVars
              \/ /\ epc[t] = "resolved" /\ epc'[t] \in {"idle", "acquireRole"}
                 /\ UNCHANGED lockVars
              \/ /\ epc[t] = "acquireRole" /\ epc'[t] = "idle" /\ UNCHANGED lockVars
              \/ /\ epc[t] = "acquireRole" /\ epc'[t] = "lockRing"
                 /\ cqOwner = Nobody /\ cqOwner' = t
                 /\ UNCHANGED <<ringSpin, grantSpin>>
              \/ /\ epc[t] = "lockRing" /\ epc'[t] = "lockGrant"
                 /\ ringSpin = Nobody /\ ringSpin' = t
                 /\ UNCHANGED <<cqOwner, grantSpin>>
              \/ /\ epc[t] = "lockGrant" /\ epc'[t] = "observe"
                 /\ grantSpin = Nobody /\ grantSpin' = t
                 /\ UNCHANGED <<cqOwner, ringSpin>>
              \/ /\ epc[t] \in Draining \ {"output", "unlock"}
                 /\ epc'[t] \in Draining \ {"unlock"}
                 /\ UNCHANGED lockVars
              \/ /\ epc[t] = "output" /\ epc'[t] = "unlock" /\ cqOwner' = Nobody
                 /\ UNCHANGED <<ringSpin, grantSpin>>
              \/ /\ epc[t] = "unlock" /\ epc'[t] = "idle"
                 /\ ringSpin' = Nobody /\ grantSpin' = Nobody /\ UNCHANGED cqOwner
<1> USE DEF TypeControl, Goto, lockVars, fenceVars, EnterPcs
<1>1. UNCHANGED fenceVars
  BY Zenon DEF Enter
<1>2. CASE Admit(t)
  BY <1>1, <1>2, Zenon DEF Admit, EnterResolve, EnterCheckPublished, AcquireRole
<1>3. CASE LockRing(t)
  BY <1>1, <1>3, Zenon DEF LockRing
<1>4. CASE LockGrant(t)
  BY <1>1, <1>4, Zenon DEF LockGrant
<1>5. CASE Drain(t)
  BY <1>1, <1>5 DEF Drain, ObserveCursors, ReadSequence, ReadBody, Classify, ClaimCredit,
     AdvanceCqHead, RefreshCredit, Draining, Holding
<1>6. CASE ReleaseRole(t)
  BY <1>1, <1>6, Zenon DEF ReleaseRole
<1>7. CASE Unlock(t)
  BY <1>1, <1>7, Zenon DEF Unlock
<1> QED
  BY <1>2, <1>3, <1>4, <1>5, <1>6, <1>7, Zenon DEF Enter

\* Locks, roles and the rundown agree with the control of threads and fence.
LEMMA ControlStep ==
    ASSUME TypeControl, LockInv, FenceInv, [Next]_vars
    PROVE  TypeControl' /\ LockInv' /\ FenceInv'
<1> USE ThreadAssumption DEF TypeControl, LockInv, FenceInv, Nobody
<1>1. CASE Daemon \/ UNCHANGED vars
  BY <1>1 DEF Daemon, lockVars, fenceVars, vars
<1>2. ASSUME NEW t \in Threads, Enter(t)
      PROVE  TypeControl' /\ LockInv' /\ FenceInv'
  <2> USE DEF fenceVars, lockVars
  <2>1. PICK w \in EnterPcs : epc' = [epc EXCEPT ![t] = w]
    BY <1>2, EnterControl, Zenon
  <2>2. TypeControl'
    BY <1>2, <2>1, EnterControl
  <2>3. LockInv'
    BY <1>2, <2>1, EnterControl DEF Holding, Draining, Owning
  <2>4. FenceInv'
    BY <1>2, <2>1, EnterControl, Zenon DEF Holding, Draining
  <2> QED  BY <2>2, <2>3, <2>4, Zenon
<1>3. CASE FenceBegin
  BY <1>3, Zenon DEF FenceBegin, FenceClose
<1>4. CASE FenceStep
  <2>0. UNCHANGED <<ringSpin, grantSpin, epc>>
    BY <1>4, Zenon DEF FenceStep
  <2>1. CASE FenceBeginWait \/ FenceEndWait \/ FenceUnmap
    BY <2>0, <2>1, Zenon DEF FenceBeginWait, FenceEndWait, FenceUnmap, Owning, Holding
  <2>2. CASE FenceAcquireConsumer
    BY <2>0, <2>2 DEF FenceAcquireConsumer, Owning, Holding
  <2>3. CASE FenceDrain \/ FenceRetire \/ FenceRelease
    BY <2>0, <2>3 DEF FenceDrain, FenceRetire, FenceRelease, Owning, Holding
  <2> QED  BY <1>4, <2>1, <2>2, <2>3, Zenon DEF FenceStep
<1> QED
  BY <1>1, <1>2, <1>3, <1>4, Zenon DEF Next

-----------------------------------------------------------------------------
(* The ring.                                                               *)

\* A position masked by the capacity is an index of the entry array.
LEMMA CellInRange == ASSUME NEW i \in Nat  PROVE Cell(i) \in Cells
  BY CapacityAssumption, SMT DEF Cell, Cells

\* Two positions less than a lap apart use different cells.
LEMMA CellDistinct ==
    ASSUME NEW i \in Nat, NEW j \in Nat, i < j, j < i + Capacity
    PROVE  Cell(i) # Cell(j)
<1> DEFINE a == j \div Capacity
           b == i \div Capacity
<1> SUFFICES ASSUME Cell(i) = Cell(j)  PROVE FALSE
  BY Zenon
<1>1. \A k \in Nat : /\ k = Capacity * (k \div Capacity) + (k % Capacity)
                     /\ k \div Capacity \in Int /\ k % Capacity \in Nat
  BY CapacityAssumption, SMT
<1>2. /\ a \in Int /\ b \in Int /\ Cell(i) \in Nat
      /\ i = Capacity * b + Cell(i) /\ j = Capacity * a + Cell(j)
  BY <1>1, Zenon DEF Cell
<1> HIDE DEF a, b
<1>3. j - i = Capacity * (a - b)
  BY <1>2, CapacityAssumption
<1>4. CASE a - b >= 1
  BY <1>2, <1>3, <1>4, CapacityAssumption
<1>5. CASE a - b <= 0
  BY <1>2, <1>3, <1>5, CapacityAssumption
<1> QED  BY <1>2, <1>4, <1>5

\* Only the daemon and the advance of the head touch the ring.
LEMMA RingFrame ==
    ASSUME [Next]_vars
    PROVE  \/ Daemon
           \/ \E t \in Threads : /\ AdvanceCqHead(t)
                                 /\ UNCHANGED <<tail, seq, body, daemonVars, reserved>>
           \/ UNCHANGED <<ringVars, daemonVars, reserved, consumed>>
<1> USE DEF ringVars, daemonVars
<1>1. ASSUME NEW t \in Threads, Enter(t), ~AdvanceCqHead(t)
      PROVE  UNCHANGED <<ringVars, daemonVars, reserved, consumed>>
  BY <1>1, Zenon DEF Enter, Admit, LockRing, LockGrant, Drain, ReleaseRole, Unlock,
     ObserveCursors, ReadSequence, ReadBody, Classify, ClaimCredit, RefreshCredit
<1>2. CASE FenceBegin \/ FenceStep \/ UNCHANGED vars
  BY <1>2, Zenon DEF FenceBegin, FenceStep, vars
<1>3. ASSUME NEW t \in Threads, Enter(t)
      PROVE  UNCHANGED <<tail, seq, body, daemonVars, reserved>>
  BY <1>3, Zenon DEF Enter
<1> QED  BY <1>1, <1>2, <1>3, Zenon DEF Next

\* What a drain about to advance the head has in its hands.
AdvanceReady == \A t \in Threads : epc[t] = "advance" => head < Ready /\ Fresh(obsBody)

\* The part of the invariant about the ring.
RingInv == TypeRing /\ CursorInv /\ CellInv

\* Cursors and histories in numbers.
LEMMA RingBasics ==
    ASSUME RingInv
    PROVE  /\ head \in Nat /\ tail \in Nat /\ Ready \in Int
           /\ head <= Ready /\ Ready <= tail /\ head <= tail /\ tail - head <= Capacity
           /\ reserved \in Seq(Records) /\ Len(reserved) = tail
           /\ consumed \in Seq(Records) /\ Len(consumed) = head
           /\ \A i \in 1 .. tail : reserved[i] \in Records
           /\ \A i \in 1 .. head : consumed[i] = reserved[i]
<1>1. /\ head \in Nat /\ tail \in Nat /\ Len(reserved) = tail /\ reserved \in Seq(Records)
      /\ head <= Ready /\ tail - head <= Capacity
      /\ consumed \in Seq(Records) /\ Len(consumed) = head
      /\ \A i \in 1 .. head : consumed[i] = reserved[i]
  BY DEF RingInv, TypeRing, CursorInv
<1>2. Ready \in Int /\ Ready <= tail
  BY <1>1 DEF Ready
<1>3. \A i \in 1 .. tail : reserved[i] \in Records
  BY <1>1
<1> QED  BY <1>1, <1>2, <1>3

\* The store of the tail.
LEMMA StoreTailRing ==
    ASSUME RingInv, PushStoreTail, UNCHANGED <<head, consumed>>
    PROVE  RingInv'
<1> USE CapacityAssumption, BoundAssumption DEF RingInv, TypeRing, CursorInv
<1>1. /\ dpc = "storeTail" /\ dpc' = "writeBody" /\ tail' = tail + 1 /\ pushing \in Records
      /\ UNCHANGED <<seq, body, validatedHead, pushing, head, consumed>>
      /\ reserved' = Append(reserved, pushing) /\ tail - head < Capacity /\ tail < MaxCursor
  BY Zenon DEF PushStoreTail, CellInv
<1>2. /\ reserved' \in Seq(Records) /\ Len(reserved') = tail + 1
      /\ reserved'[tail + 1] = pushing
      /\ \A i \in 1 .. tail : reserved'[i] = reserved[i]
  BY <1>1
<1>3. Ready = tail /\ Ready' = tail
  BY <1>1 DEF Ready, Writing
<1>4. TypeRing'
  BY <1>1, <1>2
<1>5. CursorInv'
  BY <1>1, <1>2, <1>3
<1>6. CellInv'
  BY <1>1, <1>2, <1>3 DEF CellInv, Writing
<1> QED  BY <1>4, <1>5, <1>6, Zenon

\* The store of the body.
LEMMA WriteBodyRing ==
    ASSUME RingInv, PushWriteBody, UNCHANGED <<head, consumed>>
    PROVE  RingInv'
<1> USE CapacityAssumption, BoundAssumption DEF RingInv, TypeRing, CursorInv
<1>1. /\ dpc = "writeBody" /\ dpc' = "publish" /\ tail \in Nat
      /\ UNCHANGED <<tail, seq, validatedHead, pushing, reserved, head, consumed>>
      /\ body' = [body EXCEPT ![Cell(tail - 1)] = pushing] /\ pushing = reserved[tail]
  BY DEF PushWriteBody, CellInv, Writing
<1>2. Ready = tail - 1 /\ Ready' = tail - 1 /\ tail > 0
  BY <1>1 DEF Ready, Writing
<1>3. Cell(tail - 1) \in Cells /\ body'[Cell(tail - 1)] = pushing
  BY <1>1, <1>2, CellInRange
<1>4. \A i \in head + 1 .. Ready : body'[Cell(i - 1)] = body[Cell(i - 1)]
  <2> TAKE i \in head + 1 .. Ready
  <2>1. i - 1 \in Nat /\ tail - 1 \in Nat /\ i - 1 < tail - 1 /\ tail - 1 < i - 1 + Capacity
    BY <1>1, <1>2
  <2>2. Cell(i - 1) # Cell(tail - 1) /\ Cell(i - 1) \in Cells
    BY <2>1, CellDistinct, CellInRange, Zenon
  <2> QED  BY <1>1, <2>2, Zenon
<1>5. TypeRing' /\ CursorInv'
  BY <1>1, <1>2, <1>3, Zenon
<1>6. CellInv'
  BY <1>1, <1>2, <1>3, <1>4 DEF CellInv, Writing
<1> QED  BY <1>5, <1>6, Zenon

\* The store of the sequence publishes the record.
LEMMA PublishRing ==
    ASSUME RingInv, PushPublish, UNCHANGED <<head, consumed>>
    PROVE  RingInv'
<1> USE CapacityAssumption, BoundAssumption DEF RingInv, TypeRing, CursorInv
<1>1. /\ dpc = "publish" /\ dpc' = "idle" /\ tail \in Nat /\ pushing' = Zeroed
      /\ UNCHANGED <<tail, body, validatedHead, reserved, head, consumed>>
      /\ seq' = [seq EXCEPT ![Cell(tail - 1)] = tail]
      /\ body[Cell(tail - 1)] = reserved[tail]
  BY DEF PushPublish, CellInv, Writing
<1>2. Ready = tail - 1 /\ Ready' = tail /\ tail > 0
  BY <1>1 DEF Ready, Writing
<1>3. Cell(tail - 1) \in Cells /\ seq'[Cell(tail - 1)] = tail
  BY <1>1, <1>2, CellInRange
<1>4. \A i \in head + 1 .. Ready : seq'[Cell(i - 1)] = seq[Cell(i - 1)]
  <2> TAKE i \in head + 1 .. Ready
  <2>1. i - 1 \in Nat /\ tail - 1 \in Nat /\ i - 1 < tail - 1 /\ tail - 1 < i - 1 + Capacity
    BY <1>1, <1>2
  <2>2. Cell(i - 1) # Cell(tail - 1) /\ Cell(i - 1) \in Cells
    BY <2>1, CellDistinct, CellInRange, Zenon
  <2> QED  BY <1>1, <2>2, Zenon
<1>5. TypeRing' /\ CursorInv'
  BY <1>1, <1>2, <1>3
<1>6. \A c \in Cells : seq'[c] <= Ready'
  BY <1>1, <1>2 DEF CellInv
<1>7. \A i \in head + 1 .. Ready' : /\ seq'[Cell(i - 1)] = i
                                    /\ body[Cell(i - 1)] = reserved[i]
  BY <1>1, <1>2, <1>3, <1>4 DEF CellInv
<1>8. CellInv'
  BY <1>1, <1>6, <1>7, Zenon DEF CellInv, Writing
<1> QED  BY <1>5, <1>8, Zenon

\* The load of the head.
LEMMA LoadHeadRing ==
    ASSUME RingInv, NEW r \in Records, PushLoadHead(r), UNCHANGED <<head, consumed>>
    PROVE  RingInv'
<1> USE CapacityAssumption, BoundAssumption DEF RingInv, TypeRing, CursorInv
<1>1. /\ dpc = "idle" /\ UNCHANGED <<tail, seq, body, reserved, head, consumed>>
      /\ Ready = tail /\ tail \in Nat /\ head \in Nat /\ validatedHead \in Nat
  BY DEF PushLoadHead, Ready, Writing
<1>2. PushVerdict \in {"Exhausted", "Full", "Ok"}
  BY <1>1 DEF PushVerdict
<1>3. validatedHead' = head
  BY <1>2, Zenon DEF PushLoadHead
<1>4. CASE PushVerdict = "Ok"
  <2>1. dpc' = "storeTail" /\ pushing' = r /\ tail # MaxCursor /\ tail - head # Capacity
    BY <1>4, Zenon DEF PushLoadHead, PushVerdict
  <2>2. Ready' = tail
    BY <1>1, <2>1, Zenon DEF Ready, Writing
  <2>3. TypeRing'
    BY <1>1, <1>3, <2>1, Zenon
  <2>4. CursorInv'
    <3>1. head <= tail /\ head <= head /\ tail - head <= Capacity
      BY <1>1
    <3>2. tail - head < Capacity /\ tail < MaxCursor
      BY <1>1, <2>1, <3>1
    <3> QED  BY <1>1, <1>3, <2>1, <2>2, <3>1, <3>2, Zenon
  <2> QED  BY <1>1, <2>1, <2>2, <2>3, <2>4, Zenon DEF CellInv, Writing
<1>5. CASE PushVerdict # "Ok"
  <2>1. dpc' \in {"idle", "Exhausted"} /\ pushing' = pushing
    BY <1>2, <1>5, Zenon DEF PushLoadHead
  <2>2. Ready' = tail
    BY <1>1, <2>1, Zenon DEF Ready, Writing
  <2>3. TypeRing' /\ CursorInv'
    BY <1>1, <1>3, <2>1, <2>2 DEF Faulted
  <2> QED  BY <1>1, <2>1, <2>2, <2>3, Zenon DEF CellInv, Writing
<1> QED  BY <1>4, <1>5, Zenon

\* The advance of the head over a published record.
LEMMA AdvanceRing ==
    ASSUME RingInv, AdvanceReady, NEW t \in Threads, AdvanceCqHead(t),
           UNCHANGED <<tail, seq, body, daemonVars, reserved>>
    PROVE  RingInv'
<1>0. tail \in Nat /\ head \in Nat /\ Ready \in Int /\ Ready <= tail
  BY RingBasics, Zenon
<1>1. /\ head' = head + 1 /\ head < Ready /\ head < tail /\ consumed' = Append(consumed, obsBody)
      /\ obsBody = reserved[head + 1]
      /\ UNCHANGED <<tail, seq, body, validatedHead, dpc, pushing, reserved>>
  BY Zenon DEF AdvanceCqHead, AdvanceReady, Fresh, daemonVars
<1>2. Ready' = Ready
  BY <1>1, Zenon DEF Ready, Writing
<1>3. /\ consumed' \in Seq(Records) /\ Len(consumed') = head + 1
      /\ \A i \in 1 .. head + 1 : consumed'[i] = reserved[i]
  <2>1. /\ consumed \in Seq(Records) /\ Len(consumed) = head /\ obsBody \in Records
        /\ \A i \in 1 .. head : consumed[i] = reserved[i]
    BY <1>0, <1>1, RingBasics
  <2> QED  BY <1>0, <1>1, <2>1
<1>4. TypeRing'
  BY <1>0, <1>1, <1>3, BoundAssumption DEF RingInv, TypeRing
<1>5. CursorInv'
  BY <1>0, <1>1, <1>2, <1>3, CapacityAssumption DEF RingInv, TypeRing, CursorInv
<1>6. CellInv'
  BY <1>0, <1>1, <1>2 DEF RingInv, CellInv, Writing
<1> QED  BY <1>4, <1>5, <1>6, Zenon DEF RingInv

\* The ring's part of the invariant is preserved.
LEMMA RingStep ==
    ASSUME RingInv, AdvanceReady, held \subseteq Tokens, [Next]_vars
    PROVE  RingInv'
<1>1. CASE Daemon
  <2>1. UNCHANGED <<head, consumed>>
    BY <1>1, Zenon DEF Daemon
  <2>2. ASSUME NEW r \in held \cup OtherRecords, PushLoadHead(r)  PROVE RingInv'
    <3>1. r \in Records
      BY Zenon DEF Records
    <3> QED  BY <2>1, <2>2, <3>1, LoadHeadRing, Zenon
  <2> QED
    BY <1>1, <2>1, <2>2, StoreTailRing, WriteBodyRing, PublishRing, Zenon DEF Daemon
<1>2. ASSUME NEW t \in Threads, AdvanceCqHead(t),
             UNCHANGED <<tail, seq, body, daemonVars, reserved>>
      PROVE  RingInv'
  BY <1>2, AdvanceRing, Zenon
<1>3. CASE UNCHANGED <<ringVars, daemonVars, reserved, consumed>>
  BY <1>3, Zenon DEF ringVars, daemonVars, RingInv, TypeRing, CursorInv, CellInv, Ready, Writing
<1> QED  BY <1>1, <1>2, <1>3, RingFrame, Zenon

-----------------------------------------------------------------------------
(* The steps as the drain's data sees them.                                *)

\* The part of the invariant that needs nothing of the data.
ControlInv == TypeControl /\ LockInv /\ FenceInv

\* What the steps below leave alone: the drain's own data, the room it was given,
\* and the producer's side.
dataVars == <<head, grants, held, out, obsSeq, obsBody, consumed, lost>>
roomVars == <<budget, slots>>
producerVars == <<tail, seq, body, daemonVars, reserved>>

\* The thread that holds the ring lock is the drain.
LEMMA HolderPc ==
    ASSUME ControlInv, NEW t \in Threads
    PROVE  /\ epc[t] \in Holding => DrainPc = epc[t]
           /\ (\E u \in Threads : epc[u] = "refresh") <=> DrainPc = "refresh"
           /\ DrainPc \in Holding \cup {"none"}
           /\ (\A u \in Threads : epc[u] = "idle") => DrainPc = "none"
<1> USE ThreadAssumption DEF ControlInv, TypeControl, LockInv, Nobody
<1>1. epc[t] \in Holding => DrainPc = epc[t]
  BY Zenon DEF DrainPc
<1>2. DrainPc \in Holding \cup {"none"}
  BY Zenon DEF DrainPc
<1>3. (\E u \in Threads : epc[u] = "refresh") <=> DrainPc = "refresh"
  BY Zenon DEF DrainPc, Holding
<1>4. (\A u \in Threads : epc[u] = "idle") => DrainPc = "none"
  BY Zenon DEF DrainPc, Holding
<1> QED  BY <1>1, <1>2, <1>3, <1>4, Zenon

\* The steps as the drain's data sees them, whichever thread takes them.
Quietly == /\ UNCHANGED <<dataVars, roomVars, producerVars>> /\ DrainPc' = DrainPc
           /\ fpc \in {"retired", "done"} => fpc' \in {"retired", "done"}
Turn == /\ UNCHANGED <<dataVars, roomVars, producerVars, fpc>>
        /\ <<DrainPc, DrainPc'>> \in {<<"lockGrant", "observe">>, <<"observe", "read">>,
                                      <<"observe", "output">>, <<"output", "unlock">>}
Begins == /\ DrainPc = "none" /\ DrainPc' = "lockGrant"
          /\ budget' \in 1 .. MaxBudget /\ slots' \in 0 .. MaxSlots
          /\ UNCHANGED <<dataVars, producerVars, fpc>>
Ends(t) == /\ DrainPc = "unlock" /\ DrainPc' = "none" /\ Unlock(t)
           /\ UNCHANGED <<producerVars, fpc>>
Moves(t, from, to) ==
    /\ DrainPc = from /\ DrainPc' \in to /\ DrainPc' = epc'[t]
    /\ UNCHANGED <<producerVars, roomVars, fpc, held, lost>>
Retires == /\ FenceRetire /\ fpc' = "retired" /\ DrainPc = "none" /\ DrainPc' = "none"
           /\ UNCHANGED <<head, held, out, obsSeq, obsBody, consumed, lost, roomVars,
                          producerVars>>
\* Every step is one of these.
LEMMA DrainCases ==
    ASSUME ControlInv, ControlInv', [Next]_vars
    PROVE  \/ Daemon /\ DrainPc' = DrainPc
           \/ Quietly \/ Turn \/ Begins \/ Retires
           \/ \E t \in Threads :
                 \/ Ends(t)
                 \/ ReadSequence(t) /\ Moves(t, "read", {"read", "classify"})
                 \/ ReadBody(t) /\ Moves(t, "read", {"read", "classify"})
                 \/ Classify(t) /\ Moves(t, "classify", {"claim", "output"})
                 \/ ClaimCredit(t) /\ Moves(t, "claim", {"advance"})
                 \/ AdvanceCqHead(t) /\ Moves(t, "advance", {"refresh"})
                 \/ RefreshCredit(t) /\ Moves(t, "refresh", {"observe", "output"})
<1> USE DEF dataVars, roomVars, producerVars
<1>1. CASE Daemon
  <2>1. DrainPc' = DrainPc
    BY <1>1, Zenon DEF Daemon, DrainPc, lockVars
  <2> QED  BY <1>1, <2>1, Zenon
<1>2. CASE UNCHANGED vars
  <2>1. Quietly
    BY <1>2, Zenon DEF Quietly, vars, DrainPc, ringVars, lockVars, drainVars, fenceVars
  <2> QED  BY <2>1, Zenon
<1>3. CASE FenceBegin
  <2>1. Quietly
    BY <1>3, Zenon DEF Quietly, FenceBegin, FenceClose, DrainPc, ringVars, drainVars
  <2> QED  BY <2>1, Zenon
<1>4. CASE FenceStep
  <2>1. CASE FenceRetire
    <3>1. DrainPc = "none" /\ DrainPc' = "none"
      BY <1>4, <2>1, HolderPc, Zenon DEF FenceRetire, FenceStep, ControlInv, FenceInv,
         TypeControl, DrainPc, drainVars, Nobody, LockInv, Holding
    <3>2. Retires
      BY <1>4, <2>1, <3>1, Zenon DEF Retires, FenceStep, FenceRetire, ringVars, drainVars
    <3> QED  BY <3>2, Zenon
  <2>2. CASE ~FenceRetire
    <3>1. Quietly
      BY <1>4, <2>2, Zenon DEF Quietly, FenceStep, FenceBeginWait, FenceEndWait, FenceUnmap,
         FenceAcquireConsumer, FenceDrain, FenceRelease, DrainPc, ringVars, drainVars
    <3> QED  BY <3>1, Zenon
  <2> QED  BY <2>1, <2>2, Zenon
<1>5. ASSUME NEW t \in Threads, Enter(t)
      PROVE  \/ Quietly \/ Turn \/ Begins \/ Ends(t)
             \/ ReadSequence(t) /\ Moves(t, "read", {"read", "classify"})
             \/ ReadBody(t) /\ Moves(t, "read", {"read", "classify"})
             \/ Classify(t) /\ Moves(t, "classify", {"claim", "output"})
             \/ ClaimCredit(t) /\ Moves(t, "claim", {"advance"})
             \/ AdvanceCqHead(t) /\ Moves(t, "advance", {"refresh"})
             \/ RefreshCredit(t) /\ Moves(t, "refresh", {"observe", "output"})
  <2> USE <1>5
  <2>1. UNCHANGED <<producerVars, fpc>>
    BY Zenon DEF Enter, fenceVars
  <2>2. /\ epc \in [Threads -> EnterPcs] /\ (epc[t] \in Holding <=> ringSpin = t)
        /\ (epc'[t] \in Holding <=> ringSpin' = t)
        /\ epc[t] \in Holding => DrainPc = epc[t]
        /\ epc'[t] \in Holding => DrainPc' = epc'[t]
    BY Zenon DEF ControlInv, LockInv, TypeControl, DrainPc
  <2>3. CASE Admit(t)
    <3>1. DrainPc' = DrainPc
      BY <2>2, <2>3, Zenon DEF Admit, EnterResolve, EnterCheckPublished, AcquireRole, Goto,
         DrainPc, Holding
    <3>2. Quietly
      BY <2>1, <2>3, <3>1, Zenon DEF Quietly, Admit, drainVars
    <3> QED  BY <3>2, Zenon
  <2>4. CASE LockRing(t)
    <3>1. DrainPc = "none"
      BY <2>4, ThreadAssumption, Zenon DEF LockRing, DrainPc, Nobody
    <3>2. DrainPc' = "lockGrant"
      BY <2>2, <2>4, Zenon DEF LockRing, Goto, Holding
    <3>3. Begins
      BY <2>1, <2>4, <3>1, <3>2, Zenon DEF Begins, LockRing
    <3> QED  BY <3>3, Zenon
  <2>5. CASE LockGrant(t)
    <3>1. epc[t] = "lockGrant" /\ epc'[t] = "observe"
      BY <2>2, <2>5, Zenon DEF LockGrant, Goto
    <3>2. Turn
      BY <2>1, <2>2, <2>5, <3>1, Zenon DEF Turn, LockGrant, Holding, drainVars
    <3> QED  BY <3>2, Zenon
  <2>6. CASE ReleaseRole(t)
    <3>1. epc[t] = "output" /\ epc'[t] = "unlock"
      BY <2>2, <2>6, Zenon DEF ReleaseRole, Goto
    <3>2. Turn
      BY <2>1, <2>2, <2>6, <3>1, Zenon DEF Turn, ReleaseRole, Holding, drainVars
    <3> QED  BY <3>2, Zenon
  <2>7. CASE Unlock(t)
    <3>1. epc[t] = "unlock" /\ ringSpin' = Nobody
      BY <2>7, Zenon DEF Unlock
    <3>2. DrainPc = "unlock" /\ DrainPc' = "none"
      BY <2>2, <3>1, ThreadAssumption, Zenon DEF DrainPc, Nobody, Holding
    <3>3. Ends(t)
      BY <2>1, <2>7, <3>2, Zenon DEF Ends
    <3> QED  BY <3>3, Zenon
  <2>8. CASE Drain(t)
    <3>1. UNCHANGED <<roomVars, held, lost>>
      BY <2>8, Zenon DEF Drain
    <3>2. CASE ObserveCursors(t)
      <4>1. epc[t] = "observe" /\ epc'[t] \in {"output", "read"}
        BY <2>2, <3>2, Zenon DEF ObserveCursors, Goto
      <4>2. Turn
        BY <2>1, <2>2, <3>1, <3>2, <4>1, Zenon DEF Turn, ObserveCursors, Holding
      <4> QED  BY <4>2, Zenon
    <3>3. CASE ReadSequence(t)
      <4>1. epc[t] = "read" /\ epc'[t] \in {"read", "classify"}
        BY <2>2, <3>3, Zenon DEF ReadSequence, Goto
      <4> QED  BY <2>1, <2>2, <3>1, <3>3, <4>1, Zenon DEF Moves, Holding
    <3>4. CASE ReadBody(t)
      <4>1. epc[t] = "read" /\ epc'[t] \in {"read", "classify"}
        BY <2>2, <3>4, Zenon DEF ReadBody, Goto
      <4> QED  BY <2>1, <2>2, <3>1, <3>4, <4>1, Zenon DEF Moves, Holding
    <3>5. CASE Classify(t)
      <4>1. epc[t] = "classify" /\ epc'[t] \in {"claim", "output"}
        BY <2>2, <3>5, Zenon DEF Classify, Goto
      <4> QED  BY <2>1, <2>2, <3>1, <3>5, <4>1, Zenon DEF Moves, Holding
    <3>6. CASE ClaimCredit(t)
      <4>1. epc[t] = "claim" /\ epc'[t] = "advance"
        BY <2>2, <3>6, Zenon DEF ClaimCredit, Goto
      <4> QED  BY <2>1, <2>2, <3>1, <3>6, <4>1, Zenon DEF Moves, Holding
    <3>7. CASE AdvanceCqHead(t)
      <4>1. epc[t] = "advance" /\ epc'[t] = "refresh"
        BY <2>2, <3>7, Zenon DEF AdvanceCqHead, Goto
      <4> QED  BY <2>1, <2>2, <3>1, <3>7, <4>1, Zenon DEF Moves, Holding
    <3>8. CASE RefreshCredit(t)
      <4>1. epc[t] = "refresh" /\ epc'[t] \in {"observe", "output"}
        BY <2>2, <3>8, Zenon DEF RefreshCredit, Goto
      <4> QED  BY <2>1, <2>2, <3>1, <3>8, <4>1, Zenon DEF Moves, Holding
    <3> QED  BY <2>8, <3>2, <3>3, <3>4, <3>5, <3>6, <3>7, <3>8, Zenon DEF Drain
  <2> QED  BY <2>3, <2>4, <2>5, <2>6, <2>7, <2>8, Zenon DEF Enter
<1> QED  BY <1>1, <1>2, <1>3, <1>4, <1>5, Zenon DEF Next

-----------------------------------------------------------------------------
(* Records and the drain's types.                                          *)

\* The kinds of a record tell tokens, other records and the markers apart.
LEMMA RecordFacts ==
    /\ Tokens \cap OtherRecords = {}
    /\ Zeroed \notin Records /\ Unread \notin Records \cup {Zeroed}
    /\ \A r \in Records \cup {Zeroed} :
          r[1] \notin {"completion", "abort"} /\ r # Zeroed => r \in Tokens
    /\ \A r \in Tokens : r[1] \in Credits /\ r[2] \in 1 .. MaxGeneration
  BY RecordAssumption, BoundAssumption, Zenon DEF Tokens, OtherRecords, Records, Zeroed, Unread

\* A renewed token is a token.
LEMMA NextTokenType ==
    ASSUME NEW r \in Tokens, r[2] < MaxGeneration
    PROVE  NextToken(r) \in Tokens /\ NextToken(r)[1] = r[1] /\ NextToken(r)[2] = r[2] + 1
  BY BoundAssumption DEF NextToken, Tokens


\* Grants are renewed by a refresh.
LEMMA RefreshGrants ==
    ASSUME TypeDrain, GrantInv, DrainPc = "refresh", NEW t \in Threads, RefreshCredit(t)
    PROVE  /\ grants' \in [Credits -> [gen : 1 .. MaxGeneration,
                                       state : {"Issued", "Claimed", "Retired"}]]
           /\ obsBody \in Tokens /\ obsBody[1] \in Credits /\ grants[obsBody[1]].gen = obsBody[2]
           /\ grants'[obsBody[1]] = [gen |-> obsBody[2] + 1, state |-> "Issued"]
           /\ \A c \in Credits \ {obsBody[1]} : grants'[c] = grants[c]
           /\ out' = Append(out, NextToken(obsBody)) /\ NextToken(obsBody) \in Tokens
           /\ NextToken(obsBody)[1] = obsBody[1] /\ NextToken(obsBody)[2] = obsBody[2] + 1
           /\ obsBody' = Unread
<1>1. /\ obsBody \in Tokens /\ obsBody[2] < MaxGeneration /\ obsBody[1] \in Credits
      /\ obsBody[2] \in 1 .. MaxGeneration /\ grants[obsBody[1]].gen = obsBody[2]
  BY RecordFacts, Zenon DEF GrantInv
<1>2. /\ NextToken(obsBody) \in Tokens /\ NextToken(obsBody)[1] = obsBody[1]
      /\ NextToken(obsBody)[2] = obsBody[2] + 1
  BY <1>1, NextTokenType, Zenon
<1>3. /\ grants' = [grants EXCEPT ![obsBody[1]] = [gen |-> obsBody[2] + 1, state |-> "Issued"]]
      /\ out' = Append(out, NextToken(obsBody)) /\ obsBody' = Unread
  BY <1>2, Zenon DEF RefreshCredit, Refreshed
<1> QED  BY <1>1, <1>2, <1>3, BoundAssumption DEF TypeDrain

\* A claim marks the entry and keeps every generation.
LEMMA ClaimGrants ==
    ASSUME TypeDrain, GrantInv, DrainPc = "claim", NEW t \in Threads, ClaimCredit(t)
    PROVE  /\ grants' \in [Credits -> [gen : 1 .. MaxGeneration,
                                       state : {"Issued", "Claimed", "Retired"}]]
           /\ \A c \in Credits : grants'[c].gen = grants[c].gen
           /\ \A c \in Credits \ {obsBody[1]} : grants'[c] = grants[c]
           /\ grants'[obsBody[1]].state = "Claimed"
<1>1. obsBody[1] \in Credits
  BY RecordFacts, Zenon DEF GrantInv
<1>2. grants' = [grants EXCEPT ![obsBody[1]] = [grants[obsBody[1]] EXCEPT !.state = "Claimed"]]
  BY <1>1, Zenon DEF ClaimCredit, TypeDrain
<1>3. grants[obsBody[1]] \in [gen : 1 .. MaxGeneration, state : {"Issued", "Claimed", "Retired"}]
  BY <1>1, Zenon DEF TypeDrain
<1>4. /\ [grants[obsBody[1]] EXCEPT !.state = "Claimed"]
           \in [gen : 1 .. MaxGeneration, state : {"Issued", "Claimed", "Retired"}]
      /\ [grants[obsBody[1]] EXCEPT !.state = "Claimed"].gen = grants[obsBody[1]].gen
      /\ [grants[obsBody[1]] EXCEPT !.state = "Claimed"].state = "Claimed"
  BY <1>3, Zenon
<1> QED  BY <1>1, <1>2, <1>4, Zenon DEF TypeDrain

\* Retirement keeps every generation.
LEMMA RetireGrants ==
    ASSUME TypeDrain, FenceRetire
    PROVE  /\ grants' \in [Credits -> [gen : 1 .. MaxGeneration,
                                       state : {"Issued", "Claimed", "Retired"}]]
           /\ \A c \in Credits : grants'[c].gen = grants[c].gen /\ grants'[c].state = "Retired"
  BY Zenon DEF TypeDrain, FenceRetire

\* The drain's variables keep their types.
LEMMA TypeDrainStep ==
    ASSUME ControlInv, ControlInv', RingInv, TypeDrain, ReadInv, GrantInv, [Next]_vars
    PROVE  TypeDrain'
<1> USE BoundAssumption DEF dataVars, roomVars
<1>1. CASE Daemon
  <2>1. held' \subseteq held
    BY <1>1, Zenon DEF Daemon, PushLoadHead, PushStoreTail, PushWriteBody, PushPublish
  <2>2. UNCHANGED <<grants, out, obsSeq, obsBody, lost, budget, slots>>
    BY <1>1, Zenon DEF Daemon, drainVars
  <2> QED  BY <2>1, <2>2, Zenon DEF TypeDrain
<1>2. CASE Quietly \/ Turn
  BY <1>2, Zenon DEF Quietly, Turn, TypeDrain
<1>3. CASE Begins
  <2>1. out = << >>
    BY <1>3, Zenon DEF Begins, ReadInv
  <2> QED  BY <1>3, <2>1 DEF Begins, TypeDrain
<1>4. CASE Retires
  BY <1>4, RetireGrants, Zenon DEF Retires, TypeDrain
<1>5. ASSUME NEW t \in Threads, Ends(t)  PROVE TypeDrain'
  <2>1. Returned \subseteq Tokens
    BY DEF Returned, TypeDrain
  <2>2. held' \subseteq Tokens /\ lost' \subseteq Tokens
    BY <1>5, <2>1, Zenon DEF Ends, Unlock, TypeDrain
  <2>3. /\ UNCHANGED <<grants, obsSeq, obsBody>>
        /\ budget' = 0 /\ slots' = 0 /\ out' = << >>
    BY <1>5, Zenon DEF Ends, Unlock
  <2> QED  BY <2>2, <2>3 DEF TypeDrain
<1>6. ASSUME NEW t \in Threads, ReadSequence(t) /\ Moves(t, "read", {"read", "classify"})
      PROVE  TypeDrain'
  <2>1. seq[Cell(head)] \in 0 .. MaxCursor
    BY CellInRange DEF RingInv, TypeRing
  <2> QED  BY <1>6, <2>1, Zenon DEF Moves, ReadSequence, TypeDrain
<1>7. ASSUME NEW t \in Threads, ReadBody(t) /\ Moves(t, "read", {"read", "classify"})
      PROVE  TypeDrain'
  <2>1. body[Cell(head)] \in Records \cup {Zeroed}
    BY CellInRange DEF RingInv, TypeRing
  <2> QED  BY <1>7, <2>1, Zenon DEF Moves, ReadBody, TypeDrain
<1>8. ASSUME NEW t \in Threads, Classify(t) /\ Moves(t, "classify", {"claim", "output"})
      PROVE  TypeDrain'
  <2>1. obsBody' \in {obsBody, Unread} /\ obsSeq' = NotLoaded /\ UNCHANGED <<out, grants>>
    BY <1>8, Zenon DEF Moves, Classify
  <2> QED  BY <1>8, <2>1, Zenon DEF Moves, TypeDrain
<1>9. ASSUME NEW t \in Threads, ClaimCredit(t) /\ Moves(t, "claim", {"advance"})
      PROVE  TypeDrain'
  <2>1. UNCHANGED <<out, obsSeq, obsBody, held, lost, roomVars>>
    BY <1>9, Zenon DEF Moves, ClaimCredit
  <2>2. DrainPc = "claim" /\ ClaimCredit(t)
    BY <1>9, Zenon DEF Moves
  <2> QED  BY <2>1, <2>2, ClaimGrants, Zenon DEF TypeDrain
<1>10. ASSUME NEW t \in Threads, AdvanceCqHead(t) /\ Moves(t, "advance", {"refresh"})
       PROVE  TypeDrain'
  BY <1>10, Zenon DEF Moves, AdvanceCqHead, TypeDrain
<1>11. ASSUME NEW t \in Threads, RefreshCredit(t) /\ Moves(t, "refresh", {"observe", "output"})
       PROVE  TypeDrain'
  <2>1. DrainPc = "refresh" /\ RefreshCredit(t) /\ UNCHANGED <<obsSeq, held, lost, roomVars>>
    BY <1>11, Zenon DEF Moves, RefreshCredit
  <2>2. Len(out) < slots /\ Len(out) < budget
    BY <2>1, Zenon DEF GrantInv
  <2>3. /\ out' = Append(out, NextToken(obsBody)) /\ NextToken(obsBody) \in Tokens
        /\ obsBody' = Unread
    BY <2>1, RefreshGrants, Zenon
  <2>4. out' \in Seq(Tokens) /\ Len(out') = Len(out) + 1
    BY <2>3 DEF TypeDrain
  <2>5. grants' \in [Credits -> [gen : 1 .. MaxGeneration,
                                 state : {"Issued", "Claimed", "Retired"}]]
    BY <2>1, RefreshGrants, Zenon
  <2>6. Len(out') <= budget' /\ Len(out') <= slots'
    <3>1. Len(out) \in Nat /\ budget \in Nat /\ slots \in Nat
      BY DEF TypeDrain
    <3> QED  BY <2>1, <2>2, <2>4, <3>1
  <2>7. obsBody' \in Records \cup {Zeroed, Unread}
    BY <2>3, Zenon
  <2> QED  BY <2>1, <2>4, <2>5, <2>6, <2>7, Zenon DEF TypeDrain
<1> QED
  BY <1>1, <1>2, <1>3, <1>4, <1>5, <1>6, <1>7, <1>8, <1>9, <1>10, <1>11, DrainCases, Zenon

-----------------------------------------------------------------------------
(* What the drain has read, and the cells it reads from.                   *)

\* The daemon only extends what is reserved and what is ready.
LEMMA DaemonGrows ==
    ASSUME RingInv, Daemon
    PROVE  /\ tail' \in Nat /\ tail <= tail' /\ Ready <= Ready' /\ Ready' \in Int /\ Ready \in Int
           /\ \A i \in 1 .. tail : reserved'[i] = reserved[i]
           /\ UNCHANGED <<head, grants, out, obsSeq, obsBody, consumed, lost, budget, slots, fpc>>
<1>0. head \in Nat /\ tail \in Nat /\ Len(reserved) = tail /\ reserved \in Seq(Records)
  BY RingBasics, Zenon
<1>1. UNCHANGED <<head, grants, out, obsSeq, obsBody, consumed, lost, budget, slots, fpc>>
  BY Zenon DEF Daemon, drainVars, fenceVars
<1>2. CASE \E r \in held \cup OtherRecords : PushLoadHead(r)
  <2>1. UNCHANGED <<tail, reserved>> /\ ~Writing /\ ~Writing'
    BY <1>2, Zenon DEF PushLoadHead, PushVerdict, Writing
  <2> QED  BY <1>0, <1>1, <2>1 DEF Ready
<1>3. CASE PushStoreTail
  <2>1. /\ tail' = tail + 1 /\ ~Writing /\ Writing' /\ reserved' = Append(reserved, pushing)
        /\ pushing \in Records
    BY <1>3, Zenon DEF PushStoreTail, Writing, RingInv, CellInv
  <2>2. \A i \in 1 .. tail : reserved'[i] = reserved[i]
    BY <1>0, <2>1
  <2>3. Ready = tail /\ Ready' = tail
    BY <1>0, <2>1 DEF Ready
  <2>4. tail' \in Nat /\ tail <= tail' /\ tail \in Int /\ tail <= tail
    BY <1>0, <2>1
  <2> QED  BY <1>1, <2>2, <2>3, <2>4, Zenon
<1>4. CASE PushWriteBody \/ PushPublish
  <2>1. UNCHANGED <<tail, reserved>> /\ Writing
    BY <1>4, Zenon DEF PushWriteBody, PushPublish, Writing
  <2> QED  BY <1>0, <1>1, <2>1 DEF Ready
<1> QED  BY <1>2, <1>3, <1>4, Zenon DEF Daemon

\* Reading a cell finds the next record or a stale one, and the next record when
\* its sequence has been seen.
LEMMA CellRead ==
    ASSUME RingInv, BodyInv, DrainPc = "read"
    PROVE  /\ Stale(body[Cell(head)]) \/ Fresh(body[Cell(head)])
           /\ head < Ready => Fresh(body[Cell(head)])
           /\ body[Cell(head)] # Unread
           /\ seq[Cell(head)] = head + 1 => head < Ready
<1> USE CapacityAssumption
<1>1. head \in Nat /\ tail \in Nat /\ Cell(head) \in Cells /\ tail - head <= Capacity
  BY RingBasics, CellInRange, Zenon
<1>2. Ready \in Int /\ Ready <= tail
  BY RingBasics, Zenon
<1>3. Stale(body[Cell(head)]) \/ Fresh(body[Cell(head)])
  <2>1. CASE Stale(body[Cell(head)])
    BY <2>1, Zenon
  <2>2. ASSUME NEW i \in head + 1 .. tail, Cell(i - 1) = Cell(head),
               body[Cell(head)] = reserved[i]
        PROVE  Fresh(body[Cell(head)])
    <3>1. CASE i - 1 = head
      BY <1>1, <2>2, <3>1 DEF Fresh
    <3>2. CASE i - 1 # head
      <4>1. i - 1 \in Nat /\ head < i - 1 /\ i - 1 < head + Capacity
        BY <1>1, <3>2
      <4> QED  BY <1>1, <2>2, <4>1, CellDistinct, Zenon
    <3> QED  BY <3>1, <3>2, Zenon
  <2> QED  BY <1>1, <2>1, <2>2, Zenon DEF BodyInv
<1>4. head < Ready => Fresh(body[Cell(head)])
  <2> SUFFICES ASSUME head < Ready  PROVE Fresh(body[Cell(head)])
    BY Zenon
  <2>1. head + 1 \in head + 1 .. Ready /\ head + 1 - 1 = head
    BY <1>1, <1>2
  <2>2. body[Cell(head)] = reserved[head + 1]
    <3>1. \A i \in head + 1 .. Ready : body[Cell(i - 1)] = reserved[i]
      BY Zenon DEF RingInv, CellInv
    <3> DEFINE k == head + 1
    <3>2. k \in head + 1 .. Ready /\ k - 1 = head
      BY <1>1, <1>2
    <3> HIDE DEF k
    <3>3. body[Cell(k - 1)] = reserved[k]
      BY <3>1, <3>2, Zenon
    <3> QED  BY <3>2, <3>3, Zenon DEF k
  <2>3. head < tail
    BY <1>1, <1>2
  <2> QED  BY <2>2, <2>3, Zenon DEF Fresh
<1>5. body[Cell(head)] # Unread
  BY <1>1, RecordFacts, Zenon DEF RingInv, TypeRing
<1>6. seq[Cell(head)] = head + 1 => head < Ready
  <2>1. seq[Cell(head)] <= Ready
    BY <1>1, Zenon DEF RingInv, CellInv
  <2> QED  BY <1>1, <1>2, <2>1
<1> QED  BY <1>3, <1>4, <1>5, <1>6, Zenon

\* A record classified NOTIFY is the next one, current, and has room.
LEMMA NotifyIsCurrent ==
    ASSUME RingInv, TypeDrain, ReadInv, DrainPc = "classify", Classified = "Notify"
    PROVE  /\ head < Ready /\ Fresh(obsBody) /\ obsBody \in Tokens
           /\ grants[obsBody[1]].gen = obsBody[2] /\ obsBody[2] < MaxGeneration
           /\ Len(out) < slots /\ Len(out) < budget
<1>1. /\ SequenceStable /\ obsBody[1] \notin {"completion", "abort"} /\ obsBody # Zeroed
      /\ ~(Len(out) >= slots) /\ ~(Len(out) >= budget) /\ PreflightNotify(obsBody) = "Notify"
  BY Zenon DEF Classified
<1>2. obsBody \in Tokens /\ obsBody[1] \in Credits /\ obsBody[2] \in 1 .. MaxGeneration
  <2>1. obsBody \in Records \cup {Zeroed}
    BY Zenon DEF ReadInv, TypeDrain
  <2> QED  BY <1>1, <2>1, RecordFacts, Zenon
<1>3. grants[obsBody[1]].gen = obsBody[2] /\ obsBody[2] # MaxGeneration
  BY <1>1, Zenon DEF PreflightNotify
<1>4. ~Stale(obsBody)
  BY <1>1, <1>2, <1>3, BoundAssumption DEF Stale
<1>5. head < Ready /\ Fresh(obsBody)
  BY <1>1, <1>4, Zenon DEF ReadInv, SequenceStable
<1> QED  BY <1>1, <1>2, <1>3, <1>5, BoundAssumption DEF TypeDrain

\* What the drain has read stays what ReadInv says.
LEMMA ReadStep ==
    ASSUME ControlInv, ControlInv', RingInv, TypeDrain, BodyInv, ReadInv, GrantInv, [Next]_vars
    PROVE  ReadInv'
<1> USE DEF dataVars, roomVars, producerVars, daemonVars
<1>0. head \in Nat /\ tail \in Nat /\ Ready \in Int /\ Ready <= tail
  BY RingBasics, Zenon
<1>1. CASE Daemon /\ DrainPc' = DrainPc
  <2>0. /\ tail' \in Nat /\ tail <= tail' /\ Ready <= Ready' /\ Ready' \in Int
        /\ \A i \in 1 .. tail : reserved'[i] = reserved[i]
        /\ UNCHANGED <<head, grants, out, obsSeq, obsBody>>
    BY <1>1, DaemonGrows, Zenon
  <2>1. Fresh(obsBody) => Fresh(obsBody)'
    BY <1>0, <2>0 DEF Fresh
  <2>2. Stale(obsBody) => Stale(obsBody)'
    BY <2>0, Zenon DEF Stale
  <2>3. head > 0 => reserved'[head] = reserved[head]
    <3>1. head > 0 => head \in 1 .. tail
      BY <1>0, RingBasics
    <3> QED  BY <2>0, <3>1, Zenon
  <2>4. head < Ready => head < Ready'
    BY <1>0, <2>0
  <2>5. obsBody' = obsBody /\ obsSeq' = obsSeq /\ out' = out /\ head' = head
    BY <2>0, Zenon
  <2> QED  BY <1>1, <2>1, <2>2, <2>3, <2>4, <2>5, Zenon DEF ReadInv
<1>2. CASE Quietly
  BY <1>2, Zenon DEF Quietly, ReadInv, Stale, Fresh, Ready, Writing
<1>3. CASE Turn
  BY <1>3, Zenon DEF Turn, ReadInv, Ready, Writing
<1>4. CASE Begins
  BY <1>4, Zenon DEF Begins, ReadInv, Ready, Writing
<1>5. CASE Retires
  BY <1>5, Zenon DEF Retires, ReadInv, Ready, Writing
<1>6. ASSUME NEW t \in Threads, Ends(t)  PROVE ReadInv'
  BY <1>6, Zenon DEF Ends, Unlock, ReadInv, Ready, Writing
<1>7. ASSUME NEW t \in Threads,
             ReadSequence(t) /\ Moves(t, "read", {"read", "classify"})
      PROVE  ReadInv'
  <2>1. /\ DrainPc = "read" /\ obsSeq' = seq[Cell(head)]
        /\ DrainPc' = IF obsBody = Unread THEN "read" ELSE "classify"
        /\ UNCHANGED <<head, grants, obsBody, tail, dpc, reserved>>
    BY <1>7, Zenon DEF ReadSequence, Moves, Goto, ControlInv, TypeControl
  <2>2. /\ (Ready' = Ready) /\ (Fresh(obsBody)' <=> Fresh(obsBody))
        /\ (Stale(obsBody)' <=> Stale(obsBody))
    BY <2>1, Zenon DEF Ready, Writing, Fresh, Stale
  <2> QED  BY <2>1, <2>2, CellRead, Zenon DEF ReadInv
<1>8. ASSUME NEW t \in Threads, ReadBody(t) /\ Moves(t, "read", {"read", "classify"})
      PROVE  ReadInv'
  <2>1. /\ DrainPc = "read" /\ obsBody' = body[Cell(head)]
        /\ DrainPc' = IF obsSeq = NotLoaded THEN "read" ELSE "classify"
        /\ UNCHANGED <<head, grants, obsSeq, tail, dpc, reserved>>
    BY <1>8, Zenon DEF ReadBody, Moves, Goto, ControlInv, TypeControl
  <2>2. /\ (Ready' = Ready) /\ (Fresh(obsBody)' <=> Fresh(body[Cell(head)]))
        /\ (Stale(obsBody)' <=> Stale(body[Cell(head)]))
    BY <2>1, Zenon DEF Ready, Writing, Fresh, Stale
  <2> QED  BY <2>1, <2>2, CellRead, Zenon DEF ReadInv
<1>9. ASSUME NEW t \in Threads, Classify(t) /\ Moves(t, "classify", {"claim", "output"})
      PROVE  ReadInv'
  <2>1. /\ DrainPc = "classify" /\ obsSeq' = NotLoaded
        /\ UNCHANGED <<head, out, grants, tail, dpc, reserved>>
    BY <1>9, Zenon DEF Classify, Moves
  <2>2. Ready' = Ready /\ (Fresh(obsBody)' <=> Fresh(obsBody'))
    BY <2>1, Zenon DEF Ready, Writing, Fresh
  <2>3. CASE Classified = "Notify"
    <3>1. DrainPc' = "claim" /\ obsBody' = obsBody
      BY <1>9, <2>3, Zenon DEF Classify, Moves, Goto, ControlInv, TypeControl
    <3> QED  BY <1>0, <2>1, <2>2, <2>3, <3>1, NotifyIsCurrent, Zenon DEF ReadInv, NotLoaded
  <2>4. CASE Classified # "Notify"
    <3>1. DrainPc' = "output" /\ obsBody' = Unread
      BY <1>9, <2>4, Zenon DEF Classify, Moves, Goto, ControlInv, TypeControl
    <3> QED  BY <1>0, <2>1, <2>2, <3>1 DEF ReadInv, NotLoaded
  <2> QED  BY <2>3, <2>4, Zenon
<1>10. ASSUME NEW t \in Threads, ClaimCredit(t) /\ Moves(t, "claim", {"advance"})
       PROVE  ReadInv'
  BY <1>10, Zenon DEF ClaimCredit, Moves, ReadInv, Fresh, Ready, Writing
<1>11. ASSUME NEW t \in Threads, AdvanceCqHead(t) /\ Moves(t, "advance", {"refresh"})
       PROVE  ReadInv'
  <2>1. /\ DrainPc = "advance" /\ DrainPc' = "refresh" /\ head' = head + 1
        /\ UNCHANGED <<obsSeq, obsBody, tail, reserved>>
    BY <1>11, Zenon DEF AdvanceCqHead, Moves
  <2> QED  BY <1>0, <2>1 DEF ReadInv, Fresh, NotLoaded
<1>12. ASSUME NEW t \in Threads,
              RefreshCredit(t) /\ Moves(t, "refresh", {"observe", "output"})
       PROVE  ReadInv'
  <2>1. /\ DrainPc = "refresh" /\ DrainPc' \in {"observe", "output"}
        /\ UNCHANGED <<obsSeq, head, tail, reserved>> /\ obsBody' = Unread
    BY <1>12, Zenon DEF RefreshCredit, Moves
  <2> QED  BY <1>0, <2>1 DEF ReadInv, NotLoaded
<1> QED
  BY <1>1, <1>2, <1>3, <1>4, <1>5, <1>6, <1>7, <1>8, <1>9, <1>10, <1>11, <1>12, DrainCases, Zenon

-----------------------------------------------------------------------------
(* The ring as a queue: what its histories hold after the head, and what a  *)
(* reservation and an advance make of that part.                           *)

\* What a history holds after its first h elements.
Window(s, h) == SubSeq(s, h + 1, Len(s))

\* Sequences with the same elements are equal.
LEMMA SameElements ==
    ASSUME NEW S, NEW s \in Seq(S), NEW t \in Seq(S),
           Len(s) = Len(t), \A i \in 1 .. Len(s) : s[i] = t[i]
    PROVE  s = t
<1>1. s \in [1 .. Len(s) -> S] /\ t \in [1 .. Len(s) -> S]
  OBVIOUS
<1> QED  BY <1>1

\* The window of the empty history is empty.
LEMMA WindowEmpty == Window(<< >>, 0) = << >>
  BY DEF Window

\* Its elements are the history's, in order.
LEMMA WindowShape ==
    ASSUME NEW S, NEW s \in Seq(S), NEW h \in Nat, h <= Len(s)
    PROVE  /\ Window(s, h) \in Seq(S) /\ Len(Window(s, h)) = Len(s) - h
           /\ \A i \in 1 .. Len(s) - h : Window(s, h)[i] = s[h + i]
<1>1. h + 1 \in Int /\ Len(s) \in Nat /\ \A i \in h + 1 .. Len(s) : s[i] \in S
  OBVIOUS
<1>2. /\ Window(s, h) \in Seq(S)
      /\ Len(Window(s, h)) = IF h + 1 <= Len(s) THEN Len(s) - (h + 1) + 1 ELSE 0
      /\ \A i \in 1 .. Len(s) - (h + 1) + 1 : Window(s, h)[i] = s[h + 1 + i - 1]
  BY <1>1 DEF Window
<1>3. Len(Window(s, h)) = Len(s) - h
  BY <1>1, <1>2
<1>4. ASSUME NEW i \in 1 .. Len(s) - h
      PROVE  Window(s, h)[i] = s[h + i]
  <2>1. i \in 1 .. Len(s) - (h + 1) + 1 /\ h + 1 + i - 1 = h + i
    BY <1>1
  <2> QED  BY <1>2, <2>1, Zenon
<1> QED  BY <1>2, <1>3, <1>4, Zenon

\* A reservation appends to the window.
LEMMA WindowGrows ==
    ASSUME NEW S, NEW s \in Seq(S), NEW h \in Nat, h <= Len(s), NEW e \in S
    PROVE  Window(Append(s, e), h) = Append(Window(s, h), e)
<1> DEFINE w == Window(s, h)
           v == Window(Append(s, e), h)
<1>1. /\ Append(s, e) \in Seq(S) /\ Len(Append(s, e)) = Len(s) + 1
      /\ \A i \in 1 .. Len(s) : Append(s, e)[i] = s[i]
      /\ Append(s, e)[Len(s) + 1] = e /\ Len(s) \in Nat
  OBVIOUS
<1>2. /\ w \in Seq(S) /\ Len(w) = Len(s) - h
      /\ \A i \in 1 .. Len(s) - h : w[i] = s[h + i]
  BY WindowShape, Zenon
<1>3. /\ v \in Seq(S) /\ Len(v) = Len(s) + 1 - h
      /\ \A i \in 1 .. Len(s) + 1 - h : v[i] = Append(s, e)[h + i]
  <2> DEFINE a == Append(s, e)
  <2>1. a \in Seq(S) /\ Len(a) = Len(s) + 1 /\ h <= Len(a)
    BY <1>1
  <2> HIDE DEF a
  <2>2. /\ Window(a, h) \in Seq(S) /\ Len(Window(a, h)) = Len(a) - h
        /\ \A i \in 1 .. Len(a) - h : Window(a, h)[i] = a[h + i]
    BY <2>1, WindowShape, Zenon
  <2> QED  BY <2>1, <2>2 DEF a
<1> HIDE DEF w, v
<1>4. /\ Append(w, e) \in Seq(S) /\ Len(Append(w, e)) = Len(s) - h + 1
      /\ \A i \in 1 .. Len(s) - h : Append(w, e)[i] = w[i]
      /\ Append(w, e)[Len(s) - h + 1] = e
  BY <1>2
<1>5. ASSUME NEW i \in 1 .. Len(s) + 1 - h  PROVE v[i] = Append(w, e)[i]
  <2>1. CASE i = Len(s) - h + 1
    <3>1. h + i = Len(s) + 1 /\ Append(s, e)[Len(s) + 1] = e
      BY <1>1, <2>1
    <3>2. v[i] = Append(s, e)[h + i]
      BY <1>3, Zenon
    <3> QED  BY <1>4, <2>1, <3>1, <3>2, Zenon
  <2>2. CASE i # Len(s) - h + 1
    <3>1. i \in 1 .. Len(s) - h /\ h + i \in 1 .. Len(s)
      BY <1>1, <2>2
    <3>2. v[i] = Append(s, e)[h + i] /\ Append(w, e)[i] = w[i] /\ w[i] = s[h + i]
      BY <1>2, <1>3, <1>4, <3>1, Zenon
    <3>3. Append(s, e)[h + i] = s[h + i]
      BY <3>1
    <3> QED  BY <3>2, <3>3, Zenon
  <2> QED  BY <2>1, <2>2, Zenon
<1>6. v = Append(w, e)
  <2>1. Len(v) = Len(Append(w, e)) /\ \A i \in 1 .. Len(v) : v[i] = Append(w, e)[i]
    <3>1. Len(v) = Len(s) + 1 - h /\ Len(Append(w, e)) = Len(s) + 1 - h
      BY <1>1, <1>3, <1>4
    <3>2. \A i \in 1 .. Len(s) + 1 - h : v[i] = Append(w, e)[i]
      BY <1>5, Zenon
    <3> QED  BY <3>1, <3>2, Zenon
  <2>2. v \in Seq(S) /\ Append(w, e) \in Seq(S)
    BY <1>3, <1>4, Zenon
  <2> QED  BY <2>1, <2>2, SameElements, Zenon
<1> QED  BY <1>6, Zenon DEF v, w

\* An advance takes its first element.
LEMMA WindowShrinks ==
    ASSUME NEW S, NEW s \in Seq(S), NEW h \in Nat, h < Len(s)
    PROVE  /\ Window(s, h) # << >> /\ Head(Window(s, h)) = s[h + 1]
           /\ Window(s, h + 1) = Tail(Window(s, h))
<1>1. h + 1 \in 1 .. Len(s) /\ Len(s) \in h + 1 .. Len(s)
  OBVIOUS
<1>2. Len(Window(s, h)) > 0
  BY WindowShape
<1>3. Window(s, h) # << >>
  BY <1>2
<1>4. /\ Head(SubSeq(s, h + 1, Len(s))) = s[h + 1]
      /\ Tail(SubSeq(s, h + 1, Len(s))) = SubSeq(s, h + 1 + 1, Len(s))
  BY <1>1
<1> QED  BY <1>3, <1>4, Zenon DEF Window

=============================================================================
