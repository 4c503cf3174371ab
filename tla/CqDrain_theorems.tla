-------------------------- MODULE CqDrain_theorems --------------------------
(***************************************************************************)
(* The credits of the completion ring and the theorems.                    *)
(*                                                                         *)
(* A token is followed from place to place: held by the daemon, being      *)
(* pushed, in the ring, in the hands of a drain, in its output, lost.      *)
(* Five steps move a token (LoadHeadHomes to EndHomes); every other leaves *)
(* all places alone (SameHomes).  That a record read before its sequence   *)
(* can only be the next one or a stale one (BodyInv, CellRead) is what     *)
(* keeps credits conserved even when read_cqe copies the body first.       *)
(***************************************************************************)
EXTENDS CqDrain_lemmas

-----------------------------------------------------------------------------
(* The grant table and stale records.                                      *)

\* Only a refresh changes a generation, and it goes up.
LEMMA GensGrow ==
    ASSUME ControlInv, ControlInv', RingInv, TypeDrain, GrantInv, [Next]_vars
    PROVE  /\ \A c \in Credits : /\ grants[c].gen \in Nat /\ grants'[c].gen \in Nat
                                 /\ grants[c].gen <= grants'[c].gen
           /\ \/ \A c \in Credits : grants'[c].gen = grants[c].gen
              \/ \E t \in Threads :
                   RefreshCredit(t) /\ Moves(t, "refresh", {"observe", "output"})
<1> USE DEF dataVars, roomVars, producerVars
<1>1. \A c \in Credits : grants[c].gen \in Nat
  BY BoundAssumption DEF TypeDrain
<1>2. CASE grants' = grants
  BY <1>1, <1>2
<1>3. CASE Retires
  BY <1>1, <1>3, RetireGrants DEF Retires
<1>4. ASSUME NEW t \in Threads, ClaimCredit(t) /\ Moves(t, "claim", {"advance"})
      PROVE  \A c \in Credits : grants'[c].gen = grants[c].gen
  BY <1>4, ClaimGrants, Zenon DEF Moves
<1>5. ASSUME NEW t \in Threads,
             RefreshCredit(t) /\ Moves(t, "refresh", {"observe", "output"})
      PROVE  \A c \in Credits : grants'[c].gen \in Nat /\ grants[c].gen <= grants'[c].gen
  <2>1. /\ obsBody[1] \in Credits /\ grants[obsBody[1]].gen = obsBody[2]
        /\ grants'[obsBody[1]].gen = obsBody[2] + 1
        /\ \A c \in Credits \ {obsBody[1]} : grants'[c] = grants[c]
    BY <1>5, RefreshGrants DEF Moves
  <2> QED  BY <1>1, <2>1
<1>6. CASE Daemon
  BY <1>2, <1>6, Zenon DEF Daemon
<1>7. CASE Quietly \/ Turn \/ Begins
  BY <1>2, <1>7, Zenon DEF Quietly, Turn, Begins
<1>8. ASSUME NEW t \in Threads,
             \/ Ends(t)
             \/ ReadSequence(t) \/ ReadBody(t) \/ Classify(t) \/ AdvanceCqHead(t)
      PROVE  grants' = grants
  BY <1>8, Zenon DEF Ends, Unlock, ReadSequence, ReadBody, Classify, AdvanceCqHead
<1> QED
  BY <1>1, <1>2, <1>3, <1>4, <1>5, <1>6, <1>7, <1>8, DrainCases

\* A record that is out of date stays so.
LEMMA StaleStays ==
    ASSUME ControlInv, ControlInv', RingInv, TypeDrain, GrantInv, [Next]_vars,
           NEW r, Stale(r)
    PROVE  r = Zeroed \/ (r \in Tokens /\ r[2] < grants'[r[1]].gen)
<1>1. CASE r = Zeroed
  BY <1>1, Zenon
<1>2. CASE r \in Tokens /\ r[2] < grants[r[1]].gen
  <2>1. r[1] \in Credits /\ r[2] \in Nat
    BY <1>2, RecordFacts, BoundAssumption
  <2>2. grants[r[1]].gen \in Nat /\ grants'[r[1]].gen \in Nat
        /\ grants[r[1]].gen <= grants'[r[1]].gen
    BY <2>1, GensGrow, Zenon
  <2> QED  BY <1>2, <2>1, <2>2
<1> QED  BY <1>1, <1>2, Zenon DEF Stale

\* The spent token's entry, its room, and nobody else's claim.
LEMMA GrantStep ==
    ASSUME ControlInv, ControlInv', RingInv, TypeDrain, ReadInv, GrantInv, [Next]_vars
    PROVE  GrantInv'
<1> USE DEF dataVars, roomVars, producerVars
<1>1. CASE Daemon /\ DrainPc' = DrainPc
  BY <1>1, DaemonGrows, Zenon DEF GrantInv
<1>2. CASE Quietly
  BY <1>2, Zenon DEF Quietly, GrantInv
<1>3. CASE Turn
  BY <1>3, Zenon DEF Turn, GrantInv
<1>4. CASE Begins
  BY <1>4, Zenon DEF Begins, GrantInv
<1>5. CASE Retires
  BY <1>5, RetireGrants, Zenon DEF Retires, GrantInv
<1>6. ASSUME NEW t \in Threads, Ends(t)  PROVE GrantInv'
  BY <1>6, Zenon DEF Ends, Unlock, GrantInv
<1>7. ASSUME NEW t \in Threads,
             \/ ReadSequence(t) /\ Moves(t, "read", {"read", "classify"})
             \/ ReadBody(t) /\ Moves(t, "read", {"read", "classify"})
      PROVE  GrantInv'
  BY <1>7, Zenon DEF ReadSequence, ReadBody, Moves, GrantInv
<1>8. ASSUME NEW t \in Threads, Classify(t) /\ Moves(t, "classify", {"claim", "output"})
      PROVE  GrantInv'
  <2>1. DrainPc = "classify" /\ UNCHANGED <<out, grants, roomVars, fpc>>
    BY <1>8, Zenon DEF Classify, Moves
  <2>2. \A c \in Credits : /\ grants[c].state # "Claimed"
                           /\ grants[c].state = "Retired" => fpc \in {"retired", "done"}
    BY <2>1, Zenon DEF GrantInv
  <2>3. CASE Classified = "Notify"
    <3>1. obsBody' = obsBody
      BY <1>8, <2>3, Zenon DEF Classify
    <3> QED  BY <2>1, <2>2, <2>3, <3>1, NotifyIsCurrent, Zenon DEF GrantInv
  <2>4. CASE Classified # "Notify"
    <3>1. DrainPc' = "output"
      BY <1>8, <2>4, Zenon DEF Classify, Moves, Goto, ControlInv, TypeControl
    <3> QED  BY <2>1, <2>2, <3>1, Zenon DEF GrantInv
  <2> QED  BY <2>3, <2>4, Zenon
<1>9. ASSUME NEW t \in Threads, ClaimCredit(t) /\ Moves(t, "claim", {"advance"})
      PROVE  GrantInv'
  <2>1. /\ DrainPc = "claim" /\ DrainPc' = "advance" /\ ClaimCredit(t)
        /\ UNCHANGED <<out, obsBody, roomVars, fpc>>
    BY <1>9, Zenon DEF ClaimCredit, Moves
  <2>2. obsBody \in Tokens /\ obsBody[1] \in Credits
    BY <2>1, RecordFacts, Zenon DEF GrantInv
  <2> QED  BY <2>1, <2>2, ClaimGrants DEF GrantInv
<1>10. ASSUME NEW t \in Threads, AdvanceCqHead(t) /\ Moves(t, "advance", {"refresh"})
       PROVE  GrantInv'
  BY <1>10, Zenon DEF AdvanceCqHead, Moves, GrantInv
<1>11. ASSUME NEW t \in Threads,
              RefreshCredit(t) /\ Moves(t, "refresh", {"observe", "output"})
       PROVE  GrantInv'
  <2>1. /\ DrainPc = "refresh" /\ DrainPc' \in {"observe", "output"} /\ RefreshCredit(t)
        /\ fpc' = fpc
    BY <1>11, Zenon DEF Moves
  <2>2. /\ grants'[obsBody[1]].state = "Issued" /\ obsBody[1] \in Credits
        /\ \A c \in Credits \ {obsBody[1]} : grants'[c] = grants[c]
    BY <2>1, RefreshGrants
  <2> QED  BY <2>1, <2>2, Zenon DEF GrantInv
<1> QED
  BY <1>1, <1>2, <1>3, <1>4, <1>5, <1>6, <1>7, <1>8, <1>9, <1>10, <1>11, DrainCases, Zenon

\* A cell keeps a record of the ring, the one just taken, or a stale one.
LEMMA BodyStep ==
    ASSUME ControlInv, ControlInv', RingInv, TypeDrain, BodyInv, ReadInv, GrantInv, [Next]_vars
    PROVE  BodyInv'
<1> USE DEF dataVars, roomVars, producerVars
<1>0. head \in Nat /\ tail \in Nat /\ body \in [Cells -> Records \cup {Zeroed}]
  BY DEF RingInv, TypeRing
<1> SUFFICES ASSUME NEW c \in Cells
             PROVE  \/ body'[c] = Zeroed \/ (body'[c] \in Tokens /\ body'[c][2] < grants'[body'[c][1]].gen)
                    \/ \E i \in head' + 1 .. tail' : Cell(i - 1) = c /\ body'[c] = reserved'[i]
                    \/ DrainPc' = "refresh" /\ body'[c] = obsBody'
  BY Zenon DEF BodyInv, Stale
<1>1. CASE Daemon
  <2>0. DrainPc' = DrainPc
    BY <1>1, Zenon DEF Daemon, DrainPc, lockVars
  <2>1. CASE PushWriteBody /\ c = Cell(tail - 1)
    <3>1. /\ body'[c] = reserved[tail] /\ reserved' = reserved /\ tail' = tail /\ head' = head
          /\ head < tail
      BY <1>0, <1>1, <2>1 DEF PushWriteBody, RingInv, CellInv, Writing, Daemon, CursorInv, Ready
    <3> QED  BY <1>0, <2>1, <3>1
  <2>2. CASE ~(PushWriteBody /\ c = Cell(tail - 1))
    <3>1. body'[c] = body[c]
      BY <1>0, <1>1, <2>2, Zenon DEF Daemon, PushLoadHead, PushStoreTail, PushWriteBody, PushPublish
    <3>2. CASE Stale(body[c])
      BY <3>1, <3>2, StaleStays, Zenon
    <3>3. ASSUME NEW i \in head + 1 .. tail, Cell(i - 1) = c, body[c] = reserved[i]
          PROVE  i \in head' + 1 .. tail' /\ body'[c] = reserved'[i]
      BY <1>0, <1>1, <3>1, <3>3, DaemonGrows
    <3>4. CASE DrainPc = "refresh" /\ body[c] = obsBody
      BY <1>1, <2>0, <3>1, <3>4, DaemonGrows, Zenon
    <3> QED  BY <3>2, <3>3, <3>4, Zenon DEF BodyInv
  <2> QED  BY <2>1, <2>2, Zenon
<1>2. CASE ~Daemon
  <2>1. UNCHANGED <<tail, body, reserved>>
    BY <1>2, RingFrame, Zenon DEF ringVars
  <2>2. CASE Stale(body[c])
    BY <2>1, <2>2, StaleStays, Zenon
  <2>3. CASE ~Stale(body[c])
    <3>1. \/ Quietly
          \/ DrainPc # "refresh" /\ head' = head
          \/ \E t \in Threads : AdvanceCqHead(t) /\ Moves(t, "advance", {"refresh"})
          \/ \E t \in Threads : RefreshCredit(t) /\ Moves(t, "refresh", {"observe", "output"})
      BY <1>2, DrainCases DEF Turn, Begins, Retires, Ends, Unlock, Moves, ReadSequence, ReadBody,
         Classify, ClaimCredit
    <3>2. CASE Quietly
      BY <2>1, <2>3, <3>2, Zenon DEF Quietly, BodyInv
    <3>3. CASE DrainPc # "refresh" /\ head' = head
      BY <2>1, <2>3, <3>3, Zenon DEF BodyInv
    <3>4. ASSUME NEW t \in Threads, AdvanceCqHead(t), Moves(t, "advance", {"refresh"})
          PROVE  \/ \E i \in head' + 1 .. tail' : Cell(i - 1) = c /\ body'[c] = reserved'[i]
                 \/ DrainPc' = "refresh" /\ body'[c] = obsBody'
      <4>1. /\ DrainPc = "advance" /\ DrainPc' = "refresh" /\ head' = head + 1
            /\ obsBody' = obsBody /\ obsBody = reserved[head + 1]
        BY <3>4, Zenon DEF AdvanceCqHead, Moves, ReadInv, Fresh
      <4>2. PICK i \in head + 1 .. tail : Cell(i - 1) = c /\ body[c] = reserved[i]
        BY <2>3, <4>1, Zenon DEF BodyInv
      <4>3. CASE i = head + 1
        BY <2>1, <4>1, <4>2, <4>3, Zenon
      <4>4. CASE i # head + 1
        BY <1>0, <2>1, <4>1, <4>2, <4>4
      <4> QED  BY <4>3, <4>4, Zenon
    <3>5. ASSUME NEW t \in Threads, RefreshCredit(t), Moves(t, "refresh", {"observe", "output"})
          PROVE  \/ body'[c] = Zeroed \/ (body'[c] \in Tokens /\ body'[c][2] < grants'[body'[c][1]].gen)
                 \/ \E i \in head' + 1 .. tail' : Cell(i - 1) = c /\ body'[c] = reserved'[i]
      <4>1. head' = head /\ DrainPc = "refresh" /\ obsBody \in Tokens
        BY <3>5, RefreshGrants, Zenon DEF RefreshCredit, Moves
      <4>2. grants'[obsBody[1]].gen = obsBody[2] + 1
        BY <3>5, <4>1, RefreshGrants
      <4>3. CASE body[c] = obsBody
        BY <2>1, <4>1, <4>2, <4>3, RecordFacts, BoundAssumption
      <4>4. CASE body[c] # obsBody
        BY <2>1, <2>3, <4>1, <4>4, Zenon DEF BodyInv
      <4> QED  BY <4>3, <4>4, Zenon
    <3> QED  BY <3>1, <3>2, <3>3, <3>4, <3>5, Zenon
  <2> QED  BY <2>2, <2>3, Zenon
<1> QED  BY <1>1, <1>2, Zenon

-----------------------------------------------------------------------------
(* Tokens have one home.                                                   *)

\* The place names, told apart by what they say of a token.
LEMMA Placed ==
    ASSUME ControlInv, ControlInv', NEW token, NEW h \in Places
    PROVE  /\ At(token, h) <=> \/ h = "held" /\ token \in held
                               \/ h = "pushing" /\ dpc = "storeTail" /\ pushing = token
                               \/ h = "ring" /\ InRing(token)
                               \/ h = "drain" /\ obsBody = token /\ DrainPc = "refresh"
                               \/ h = "out" /\ token \in Returned
                               \/ h = "lost" /\ token \in lost
           /\ At(token, h)' <=> \/ h = "held" /\ token \in held'
                                \/ h = "pushing" /\ dpc' = "storeTail" /\ pushing' = token
                                \/ h = "ring" /\ InRing(token)'
                                \/ h = "drain" /\ obsBody' = token /\ DrainPc' = "refresh"
                                \/ h = "out" /\ token \in Returned'
                                \/ h = "lost" /\ token \in lost'
<1> USE ThreadAssumption DEF ControlInv, TypeControl, LockInv, Nobody
<1>1. (\E u \in Threads : epc[u] = "refresh") <=> DrainPc = "refresh"
  BY DEF DrainPc, Holding
<1>2. (\E u \in Threads : epc'[u] = "refresh") <=> DrainPc' = "refresh"
  BY DEF DrainPc, Holding
<1> QED  BY <1>1, <1>2, Zenon DEF At, InDrain

\* What HomeInv says of one token.
Housed(token) ==
    /\ token[2] = grants[token[1]].gen <=> \E h \in Places : At(token, h)
    /\ \A h, k \in Places : At(token, h) /\ At(token, k) => h = k

\* A token whose places and currency do not change.
LEMMA HomeStays ==
    ASSUME NEW token \in Tokens, Housed(token),
           token[2] = grants'[token[1]].gen <=> token[2] = grants[token[1]].gen,
           \A h \in Places : At(token, h)' <=> At(token, h)
    PROVE  Housed(token)'
  BY Zenon DEF Housed

\* A token that moves to one place.
LEMMA HomeMoves ==
    ASSUME NEW token \in Tokens, NEW to \in Places,
           token[2] = grants'[token[1]].gen,
           \A h \in Places : At(token, h)' <=> h = to
    PROVE  Housed(token)'
  BY Zenon DEF Housed

\* A step that moves no token.
LEMMA SameHomes ==
    ASSUME ControlInv, ControlInv', HomeInv,
           UNCHANGED <<held, head, tail, reserved, out, lost>>,
           \A c \in Credits : grants'[c].gen = grants[c].gen,
           dpc' = "storeTail" <=> dpc = "storeTail",
           dpc = "storeTail" => pushing' = pushing,
           DrainPc' = "refresh" <=> DrainPc = "refresh",
           DrainPc = "refresh" => obsBody' = obsBody
    PROVE  HomeInv'
<1> SUFFICES ASSUME NEW token \in Tokens  PROVE Housed(token)'
  BY Zenon DEF HomeInv, Housed
<1>1. Housed(token) /\ token[1] \in Credits
  BY RecordFacts, Zenon DEF HomeInv, Housed
<1>2. (InRing(token)' <=> InRing(token)) /\ Returned' = Returned
  BY Zenon DEF InRing, Returned
<1>3. \A h \in Places : At(token, h)' <=> At(token, h)
  BY <1>2, Placed
<1> QED  BY <1>1, <1>3, HomeStays, Zenon

\* A push takes the token out of the daemon's hands.
LEMMA LoadHeadHomes ==
    ASSUME ControlInv, ControlInv', RingInv, HomeInv, Daemon, DrainPc' = DrainPc,
           NEW r \in held \cup OtherRecords, PushLoadHead(r)
    PROVE  HomeInv'
<1>1. /\ dpc = "idle" /\ UNCHANGED <<head, tail, reserved, out, lost, grants, obsBody>>
  BY Zenon DEF Daemon, PushLoadHead, drainVars
<1>2. CASE PushVerdict = "Ok"
  <2>1. dpc' = "storeTail" /\ pushing' = r /\ held' = held \ {r}
    BY <1>2, Zenon DEF PushLoadHead
  <2> SUFFICES ASSUME NEW token \in Tokens  PROVE Housed(token)'
    BY Zenon DEF HomeInv, Housed
  <2>2. Housed(token)
    BY Zenon DEF HomeInv, Housed
  <2>3. (InRing(token)' <=> InRing(token)) /\ Returned' = Returned
    BY <1>1, Zenon DEF InRing, Returned
  <2>4. CASE token = r
    <3>1. token \in held
      BY <2>4, RecordFacts, Zenon
    <3>2. At(token, "held") /\ "held" \in Places /\ "pushing" \in Places
      BY <3>1, Zenon DEF At, Places
    <3>3. \A h \in Places : At(token, h) => h = "held"
      BY <2>2, <3>2, Zenon DEF Housed
    <3>4. token[2] = grants'[token[1]].gen
      BY <1>1, <2>2, <3>2, Zenon DEF Housed
    <3>5. \A h \in Places : At(token, h)' <=> h = "pushing"
      BY <1>1, <2>1, <2>3, <2>4, <3>3, Placed
    <3> QED  BY <3>2, <3>4, <3>5, HomeMoves, Zenon
  <2>5. CASE token # r
    <3>1. \A h \in Places : At(token, h)' <=> At(token, h)
      BY <1>1, <2>1, <2>3, <2>5, Placed, Zenon
    <3> QED  BY <1>1, <2>2, <3>1, HomeStays, Zenon
  <2> QED  BY <2>4, <2>5, Zenon
<1>3. CASE PushVerdict # "Ok"
  <2>1. dpc' # "storeTail" /\ UNCHANGED held
    BY <1>3, Zenon DEF PushLoadHead, PushVerdict
  <2> QED  BY <1>1, <2>1, SameHomes, Zenon
<1> QED  BY <1>2, <1>3, Zenon

\* The store of the tail puts it into the ring.
LEMMA StoreTailHomes ==
    ASSUME ControlInv, ControlInv', RingInv, HomeInv, Daemon, DrainPc' = DrainPc, PushStoreTail
    PROVE  HomeInv'
<1>1. /\ dpc = "storeTail" /\ dpc' = "writeBody" /\ tail' = tail + 1
      /\ reserved' = Append(reserved, pushing)
      /\ UNCHANGED <<held, pushing, head, out, lost, grants, obsBody>>
  BY Zenon DEF Daemon, PushStoreTail, drainVars
<1>2. /\ head \in Nat /\ tail \in Nat /\ Len(reserved) = tail /\ reserved \in Seq(Records)
      /\ pushing \in Records /\ head <= tail
  BY <1>1 DEF RingInv, TypeRing, CursorInv, CellInv, Ready, Writing
<1>3. /\ reserved'[tail + 1] = pushing
      /\ \A i \in 1 .. tail : reserved'[i] = reserved[i]
  BY <1>1, <1>2
<1> SUFFICES ASSUME NEW token \in Tokens  PROVE Housed(token)'
  BY Zenon DEF HomeInv, Housed
<1>4. Housed(token) /\ Returned' = Returned
  BY <1>1, Zenon DEF HomeInv, Housed, Returned
<1>5. InRing(token)' <=> InRing(token) \/ token = pushing
  BY <1>1, <1>2, <1>3 DEF InRing
<1>6. CASE token = pushing
  <2>1. At(token, "pushing") /\ "pushing" \in Places /\ "ring" \in Places
    BY <1>1, <1>6, Zenon DEF At, Places
  <2>2. \A h \in Places : At(token, h) => h = "pushing"
    BY <1>4, <2>1, Zenon DEF Housed
  <2>3. token[2] = grants'[token[1]].gen
    BY <1>1, <1>4, <2>1, Zenon DEF Housed
  <2>4. \A h \in Places : At(token, h)' <=> h = "ring"
    BY <1>1, <1>4, <1>5, <1>6, <2>2, Placed, Zenon
  <2> QED  BY <2>1, <2>3, <2>4, HomeMoves, Zenon
<1>7. CASE token # pushing
  <2>1. \A h \in Places : At(token, h)' <=> At(token, h)
    BY <1>1, <1>4, <1>5, <1>7, Placed, Zenon
  <2> QED  BY <1>1, <1>4, <2>1, HomeStays, Zenon
<1> QED  BY <1>6, <1>7, Zenon

\* The advance of the head takes it out of the ring into the drain.
LEMMA AdvanceHomes ==
    ASSUME ControlInv, ControlInv', RingInv, ReadInv, GrantInv, HomeInv, SpentInv,
           NEW t \in Threads, AdvanceCqHead(t), Moves(t, "advance", {"refresh"})
    PROVE  HomeInv'
<1>1. /\ DrainPc = "advance" /\ DrainPc' = "refresh" /\ head' = head + 1
      /\ UNCHANGED <<held, tail, reserved, dpc, pushing, out, lost, grants, obsBody>>
  BY Zenon DEF Moves, AdvanceCqHead, producerVars, daemonVars
<1>2. /\ head \in Nat /\ tail \in Nat /\ head < tail /\ obsBody = reserved[head + 1]
      /\ obsBody \in Tokens
  <2>1. head \in Nat /\ tail \in Nat
    BY RingBasics, Zenon
  <2> QED  BY <1>1, <2>1, Zenon DEF ReadInv, Fresh, GrantInv
<1> SUFFICES ASSUME NEW token \in Tokens  PROVE Housed(token)'
  BY Zenon DEF HomeInv, Housed
<1>3. Housed(token) /\ Returned' = Returned
  BY <1>1, Zenon DEF HomeInv, Housed, Returned
<1>4. InRing(token)' <=> InRing(token) /\ token # obsBody
  <2>1. ASSUME NEW i \in head + 2 .. tail, reserved[i] = obsBody  PROVE FALSE
    <3>1. i \in head + 1 .. tail /\ head + 1 \in head + 1 .. tail /\ i # head + 1
      BY <1>2
    <3> QED  BY <1>2, <2>1, <3>1 DEF SpentInv
  <2> QED  BY <1>1, <1>2, <2>1 DEF InRing
<1>5. CASE token = obsBody
  <2>1. InRing(token)
    BY <1>2, <1>5 DEF InRing
  <2>2. At(token, "ring") /\ "ring" \in Places /\ "drain" \in Places
    BY <2>1, Zenon DEF At, Places
  <2>3. \A h \in Places : At(token, h) => h = "ring"
    BY <1>3, <2>2, Zenon DEF Housed
  <2>4. token[2] = grants'[token[1]].gen
    BY <1>1, <1>3, <2>2, Zenon DEF Housed
  <2>5. \A h \in Places : At(token, h)' <=> h = "drain"
    BY <1>1, <1>3, <1>4, <1>5, <2>3, Placed
  <2> QED  BY <2>2, <2>4, <2>5, HomeMoves, Zenon
<1>6. CASE token # obsBody
  <2>1. \A h \in Places : At(token, h)' <=> At(token, h)
    BY <1>1, <1>3, <1>4, <1>6, Placed, Zenon
  <2> QED  BY <1>1, <1>3, <2>1, HomeStays, Zenon
<1> QED  BY <1>5, <1>6, Zenon

\* The refresh ends one token and puts the next into the output.
LEMMA RefreshHomes ==
    ASSUME ControlInv, ControlInv', TypeDrain, ReadInv, GrantInv, HomeInv,
           NEW t \in Threads, RefreshCredit(t), Moves(t, "refresh", {"observe", "output"})
    PROVE  HomeInv'
<1> DEFINE next == NextToken(obsBody)
<1>1. /\ DrainPc = "refresh" /\ DrainPc' # "refresh"
      /\ UNCHANGED <<held, head, tail, reserved, dpc, pushing, lost>>
  BY Zenon DEF Moves, RefreshCredit, producerVars, daemonVars
<1>2. /\ obsBody \in Tokens /\ obsBody[1] \in Credits /\ grants[obsBody[1]].gen = obsBody[2]
      /\ grants'[obsBody[1]].gen = obsBody[2] + 1
      /\ \A c \in Credits \ {obsBody[1]} : grants'[c] = grants[c]
      /\ out' = Append(out, next) /\ next \in Tokens
      /\ next[1] = obsBody[1] /\ next[2] = obsBody[2] + 1
  BY <1>1, RefreshGrants
<1>3. obsBody[2] \in Nat
  BY <1>2, RecordFacts, BoundAssumption
<1>4. \A token : token \in Returned' <=> token \in Returned \/ token = next
  <2>1. out \in Seq(Tokens)
    BY Zenon DEF TypeDrain
  <2> QED  BY <1>2, <2>1 DEF Returned
<1> HIDE DEF next
<1> SUFFICES ASSUME NEW token \in Tokens  PROVE Housed(token)'
  BY Zenon DEF HomeInv, Housed
<1>5. Housed(token) /\ (InRing(token)' <=> InRing(token))
  BY <1>1, Zenon DEF HomeInv, Housed, InRing
<1>6. token[1] \in Credits /\ token[2] \in Nat
  BY RecordFacts, BoundAssumption
<1>7. CASE token = obsBody
  <2>1. At(token, "drain") /\ "drain" \in Places
    BY <1>1, <1>7, Placed, Zenon DEF Places
  <2>2. \A h \in Places : At(token, h) => h = "drain"
    BY <1>5, <2>1, Zenon DEF Housed
  <2>3. token # next /\ token[2] # grants'[token[1]].gen
    BY <1>2, <1>3, <1>7
  <2>4. \A h \in Places : ~At(token, h)'
    BY <1>1, <1>4, <1>5, <2>2, <2>3, Placed
  <2> QED  BY <2>3, <2>4, Zenon DEF Housed
<1>8. CASE token = next
  <2>1. token[2] # grants[token[1]].gen /\ token[2] = grants'[token[1]].gen
    BY <1>2, <1>3, <1>8
  <2>2. \A h \in Places : ~At(token, h)
    BY <1>5, <2>1, Zenon DEF Housed
  <2>3. "out" \in Places
    BY Zenon DEF Places
  <2>4. \A h \in Places : At(token, h)' <=> h = "out"
    BY <1>1, <1>4, <1>5, <1>8, <2>2, Placed, Zenon
  <2> QED  BY <2>1, <2>3, <2>4, HomeMoves, Zenon
<1>9. CASE token # obsBody /\ token # next
  <2>1. token[2] = grants'[token[1]].gen <=> token[2] = grants[token[1]].gen
    <3>1. CASE token[1] # obsBody[1]
      BY <1>2, <1>6, <3>1, Zenon
    <3>2. CASE token[1] = obsBody[1]
      <4>1. token[2] # obsBody[2] /\ token[2] # obsBody[2] + 1
        BY <1>2, <1>9, <3>2 DEF Tokens
      <4> QED  BY <1>2, <3>2, <4>1, Zenon
    <3> QED  BY <3>1, <3>2, Zenon
  <2>2. \A h \in Places : At(token, h)' <=> At(token, h)
    BY <1>1, <1>4, <1>5, <1>9, Placed, Zenon
  <2> QED  BY <1>5, <2>1, <2>2, HomeStays, Zenon
<1> QED  BY <1>7, <1>8, <1>9, Zenon

\* The end of the call hands the output to the daemon or loses it.
LEMMA EndHomes ==
    ASSUME ControlInv, ControlInv', HomeInv, NEW t \in Threads, Ends(t)
    PROVE  HomeInv'
<1>1. /\ DrainPc # "refresh" /\ DrainPc' # "refresh" /\ out' = << >>
      /\ UNCHANGED <<head, tail, reserved, dpc, pushing, grants>>
  BY Zenon DEF Ends, Unlock, producerVars, daemonVars
<1>2. PICK to \in {"held", "lost"} :
        /\ held' = IF to = "held" THEN held \cup Returned ELSE held
        /\ lost' = IF to = "lost" THEN lost \cup Returned ELSE lost
  <2>1. CASE result[t].status = "SUCCESS"
    <3>1. held' = held \cup Returned /\ lost' = lost
      BY <2>1, Zenon DEF Ends, Unlock
    <3> QED  BY <3>1, Zenon
  <2>2. CASE result[t].status # "SUCCESS"
    <3>1. lost' = lost \cup Returned /\ held' = held
      BY <2>2, Zenon DEF Ends, Unlock
    <3> QED  BY <3>1, Zenon
  <2> QED  BY <2>1, <2>2, Zenon
<1>3. Returned' = {} /\ to \in Places
  BY <1>1 DEF Returned, Places
<1> SUFFICES ASSUME NEW token \in Tokens  PROVE Housed(token)'
  BY Zenon DEF HomeInv, Housed
<1>4. Housed(token) /\ (InRing(token)' <=> InRing(token))
  BY <1>1, Zenon DEF HomeInv, Housed, InRing
<1>5. CASE token \in Returned
  <2>1. At(token, "out") /\ "out" \in Places
    BY <1>5, Zenon DEF At, Places
  <2>2. \A h \in Places : At(token, h) => h = "out"
    BY <1>4, <2>1, Zenon DEF Housed
  <2>3. token[2] = grants'[token[1]].gen
    BY <1>1, <1>4, <2>1, Zenon DEF Housed
  <2>4. \A h \in Places : At(token, h)' <=> h = to
    BY <1>1, <1>2, <1>3, <1>4, <1>5, <2>2, Placed
  <2> QED  BY <1>3, <2>3, <2>4, HomeMoves, Zenon
<1>6. CASE token \notin Returned
  <2>1. \A h \in Places : At(token, h)' <=> At(token, h)
    BY <1>1, <1>2, <1>3, <1>4, <1>6, Placed, Zenon
  <2> QED  BY <1>1, <1>4, <2>1, HomeStays, Zenon
<1> QED  BY <1>5, <1>6, Zenon

\* Tokens keep their one home.
LEMMA HomeStep ==
    ASSUME ControlInv, ControlInv', RingInv, TypeDrain, ReadInv, GrantInv, HomeInv, SpentInv,
           [Next]_vars
    PROVE  HomeInv'
<1>1. CASE Daemon
  <2>1. DrainPc' = DrainPc
    BY <1>1, Zenon DEF Daemon, DrainPc, lockVars
  <2>2. CASE PushWriteBody \/ PushPublish
    <3>1. /\ dpc # "storeTail" /\ dpc' # "storeTail"
          /\ UNCHANGED <<held, head, tail, reserved, out, lost, grants, obsBody>>
      BY <1>1, <2>2, Zenon DEF Daemon, PushWriteBody, PushPublish, drainVars
    <3> QED  BY <2>1, <3>1, SameHomes, Zenon
  <2> QED  BY <1>1, <2>1, <2>2, LoadHeadHomes, StoreTailHomes, Zenon DEF Daemon
<1>2. CASE ~Daemon /\ UNCHANGED <<held, head, out, lost>>
  <2>1. UNCHANGED <<tail, reserved, dpc, pushing>>
    BY <1>2, RingFrame, Zenon DEF ringVars, daemonVars
  <2>2. CASE \E t \in Threads : RefreshCredit(t) /\ Moves(t, "refresh", {"observe", "output"})
    BY <2>2, RefreshHomes, Zenon
  <2>3. CASE ~\E t \in Threads : RefreshCredit(t) /\ Moves(t, "refresh", {"observe", "output"})
    <3>1. \A c \in Credits : grants'[c].gen = grants[c].gen
      BY <2>3, GensGrow, Zenon
    <3>2. CASE Quietly
      BY <1>2, <2>1, <3>1, <3>2, SameHomes, Zenon DEF Quietly, dataVars
    <3>3. CASE ~Quietly
      <4>1. \/ DrainPc # "refresh" /\ DrainPc' # "refresh"
            \/ \E t \in Threads : AdvanceCqHead(t) /\ Moves(t, "advance", {"refresh"})
        BY <1>2, <2>3, <3>3, DrainCases, Zenon DEF Turn, Begins, Retires, Ends, Moves
      <4> QED  BY <1>2, <2>1, <3>1, <4>1, SameHomes, AdvanceHomes, Zenon
    <3> QED  BY <3>2, <3>3, Zenon
  <2> QED  BY <2>2, <2>3, Zenon
<1>3. CASE ~Daemon /\ ~UNCHANGED <<held, head, out, lost>>
  <2>1. \E t \in Threads : \/ Ends(t)
                           \/ AdvanceCqHead(t) /\ Moves(t, "advance", {"refresh"})
                           \/ RefreshCredit(t) /\ Moves(t, "refresh", {"observe", "output"})
    BY <1>3, DrainCases, Zenon DEF Quietly, Turn, Begins, Retires, Moves, ReadSequence, ReadBody,
       Classify, ClaimCredit, dataVars
  <2> QED  BY <2>1, EndHomes, AdvanceHomes, RefreshHomes, Zenon
<1> QED  BY <1>1, <1>2, <1>3, Zenon

\* A token is in the ring once, and spent once.
LEMMA SpentStep ==
    ASSUME ControlInv, ControlInv', RingInv, TypeDrain, ReadInv, GrantInv, HomeInv, SpentInv,
           [Next]_vars
    PROVE  SpentInv'
<1>0. /\ head \in Nat /\ tail \in Nat /\ Len(reserved) = tail /\ reserved \in Seq(Records)
      /\ Len(consumed) = head /\ consumed \in Seq(Records) /\ head <= tail
      /\ \A i \in 1 .. head : consumed[i] = reserved[i]
  BY RingBasics, Zenon
<1>a. \A i, j \in head + 1 .. tail :
         reserved[i] \in Tokens /\ reserved[i] = reserved[j] => i = j
  BY Zenon DEF SpentInv
<1>b. \A i \in 1 .. head : /\ consumed[i] \in Tokens
                           /\ \/ consumed[i][2] < grants[consumed[i][1]].gen
                              \/ i = head /\ DrainPc = "refresh"
  BY Zenon DEF SpentInv
<1>c. \A i, j \in 1 .. head : consumed[i] = consumed[j] => i = j
  BY Zenon DEF SpentInv
<1>1. CASE Daemon
  <2>1. DrainPc' = DrainPc /\ UNCHANGED <<head, consumed, grants>>
    BY <1>1, Zenon DEF Daemon, DrainPc, lockVars
  <2>2. CASE UNCHANGED <<tail, reserved>>
    BY <2>1, <2>2 DEF SpentInv
  <2>3. CASE PushStoreTail
    <3>1. /\ dpc = "storeTail" /\ tail' = tail + 1 /\ reserved' = Append(reserved, pushing)
          /\ pushing \in Records
      BY <2>3, Zenon DEF PushStoreTail, RingInv, CellInv
    <3>2. /\ reserved'[tail + 1] = pushing
          /\ \A i \in 1 .. tail : reserved'[i] = reserved[i]
      BY <1>0, <3>1
    <3>3. ASSUME NEW i \in head + 1 .. tail, reserved[i] = pushing, pushing \in Tokens
          PROVE  FALSE
      <4>1. At(pushing, "pushing") /\ At(pushing, "ring")
        BY <3>1, <3>3, Zenon DEF At, InRing
      <4>2. "pushing" \in Places /\ "ring" \in Places /\ "pushing" # "ring"
        BY Zenon DEF Places
      <4> QED  BY <3>3, <4>1, <4>2, Zenon DEF HomeInv
    <3>4. \A i, j \in head + 1 .. tail + 1 :
             reserved'[i] \in Tokens /\ reserved'[i] = reserved'[j] => i = j
      BY <1>0, <1>a, <3>2, <3>3
    <3> QED  BY <2>1, <3>1, <3>4, Zenon DEF SpentInv
  <2> QED
    BY <1>1, <2>2, <2>3, Zenon DEF Daemon, PushLoadHead, PushWriteBody, PushPublish
<1>2. ASSUME NEW t \in Threads, AdvanceCqHead(t), Moves(t, "advance", {"refresh"})
      PROVE  SpentInv'
  <2>1. /\ DrainPc = "advance" /\ DrainPc' = "refresh" /\ head' = head + 1
        /\ consumed' = Append(consumed, obsBody) /\ UNCHANGED <<tail, reserved, grants>>
    BY <1>2, Zenon DEF Moves, AdvanceCqHead, producerVars
  <2>2. obsBody \in Tokens /\ obsBody \in Records
    BY <2>1, Zenon DEF GrantInv, Records
  <2>3. /\ consumed'[head + 1] = obsBody
        /\ \A i \in 1 .. head : consumed'[i] = consumed[i]
    BY <1>0, <2>1, <2>2
  <2>4. \A i, j \in head' + 1 .. tail' :
             reserved'[i] \in Tokens /\ reserved'[i] = reserved'[j] => i = j
    BY <1>0, <1>a, <2>1
  <2>5. \A i \in 1 .. head' :
          /\ consumed'[i] \in Tokens
          /\ \/ consumed'[i][2] < grants'[consumed'[i][1]].gen
             \/ i = head' /\ DrainPc' = "refresh"
    BY <1>0, <1>b, <2>1, <2>2, <2>3
  <2>6. \A i \in 1 .. head : consumed[i] # obsBody
    <3>1. obsBody[2] = grants[obsBody[1]].gen /\ obsBody[2] \in Nat
      BY <2>1, <2>2, RecordFacts, BoundAssumption DEF GrantInv
    <3> QED  BY <1>b, <2>1, <3>1
  <2>7. \A i, j \in 1 .. head' : consumed'[i] = consumed'[j] => i = j
    <3>1. \A i \in 1 .. head' : i \in 1 .. head \/ i = head + 1
      BY <1>0, <2>1
    <3> QED  BY <1>c, <2>3, <2>6, <3>1, Zenon
  <2> QED  BY <2>4, <2>5, <2>7, Zenon DEF SpentInv
<1>3. ASSUME NEW t \in Threads, RefreshCredit(t), Moves(t, "refresh", {"observe", "output"})
      PROVE  SpentInv'
  <2>1. DrainPc = "refresh" /\ UNCHANGED <<head, tail, reserved, consumed>>
    BY <1>3, Zenon DEF Moves, RefreshCredit, producerVars
  <2>2. obsBody = consumed[head] /\ obsBody \in Tokens /\ head > 0
    BY <1>0, <2>1 DEF ReadInv, GrantInv
  <2>3. grants'[obsBody[1]].gen = obsBody[2] + 1
    BY <1>3, <2>1, RefreshGrants
  <2>4. ASSUME NEW i \in 1 .. head
        PROVE  consumed[i] \in Tokens /\ consumed[i][2] < grants'[consumed[i][1]].gen
    <3>1. consumed[i] \in Tokens
      BY <1>b, Zenon
    <3>2. CASE i = head
      BY <2>2, <2>3, <3>2, RecordFacts, BoundAssumption
    <3>3. CASE i # head
      <4>1. Stale(consumed[i])
        BY <1>b, <3>1, <3>3, Zenon DEF Stale
      <4> QED  BY <3>1, <4>1, StaleStays, RecordFacts, Zenon DEF Records
    <3> QED  BY <3>1, <3>2, <3>3, Zenon
  <2> QED  BY <2>1, <2>4 DEF SpentInv
<1>4. CASE /\ ~Daemon
           /\ ~\E t \in Threads : AdvanceCqHead(t) /\ Moves(t, "advance", {"refresh"})
           /\ ~\E t \in Threads : RefreshCredit(t) /\ Moves(t, "refresh", {"observe", "output"})
  <2>1. UNCHANGED <<tail, reserved>>
    BY <1>4, RingFrame, Zenon DEF ringVars
  <2>2. /\ UNCHANGED <<head, consumed>>
        /\ DrainPc = "refresh" => DrainPc' = "refresh"
    BY <1>4, DrainCases, Zenon DEF Quietly, Turn, Begins, Retires, Ends, Unlock, Moves, ReadSequence,
       ReadBody, Classify, ClaimCredit, dataVars
  <2>3. \A c \in Credits : grants'[c].gen = grants[c].gen
    BY <1>4, GensGrow, Zenon
  <2>4. \A i \in 1 .. head : consumed[i] \in Tokens => consumed[i][1] \in Credits
    BY RecordFacts, Zenon
  <2> QED  BY <2>1, <2>2, <2>3, <2>4 DEF SpentInv
<1> QED  BY <1>1, <1>2, <1>3, <1>4, Zenon

-----------------------------------------------------------------------------
(* The answers.                                                            *)

\* The answers keep their types, and only a classification answers a fault.
LEMMA AnswerStep ==
    ASSUME TypeAnswer, [Next]_vars
    PROVE  /\ TypeAnswer'
           /\ \A t \in Threads : \/ result'[t].last \in {result[t].last, "Empty", "Notify"}
                                 \/ Classify(t) /\ result'[t].last = Classified
<1> USE DEF TypeAnswer
<1>1. CASE UNCHANGED result
  BY <1>1, Zenon
<1>2. CASE Daemon \/ FenceBegin \/ FenceStep \/ UNCHANGED vars
  BY <1>1, <1>2 DEF Daemon, FenceBegin, FenceStep, vars
<1>3. ASSUME NEW t \in Threads, Enter(t)
      PROVE  \/ UNCHANGED result
             \/ \E a \in [status : {"SUCCESS", "INVALID_DEVICE_STATE", "INSUFFICIENT_RESOURCES"},
                          flag : {"None", "NotifyBlocked", "Contended"}, last : Outcomes] :
                  /\ result' = [result EXCEPT ![t] = a]
                  /\ a.last \in {"Empty", "Notify"} \/ (Classify(t) /\ a.last = Classified)
  <2> DEFINE Answers == [status : {"SUCCESS", "INVALID_DEVICE_STATE", "INSUFFICIENT_RESOURCES"},
                         flag : {"None", "NotifyBlocked", "Contended"}, last : Outcomes]
  <2>0. result[t] \in Answers
    BY Zenon
  <2>1. CASE Admit(t)
    BY <2>1 DEF Admit, EnterResolve, EnterCheckPublished, AcquireRole, Answer, NoAnswer, Outcomes
  <2>2. CASE LockRing(t) \/ LockGrant(t) \/ ReleaseRole(t) \/ Unlock(t)
    BY <2>2, Zenon DEF LockRing, LockGrant, ReleaseRole, Unlock
  <2>3. CASE ReadSequence(t) \/ ReadBody(t) \/ ClaimCredit(t) \/ AdvanceCqHead(t)
    BY <2>3, Zenon DEF ReadSequence, ReadBody, ClaimCredit, AdvanceCqHead
  <2>4. CASE ObserveCursors(t)
    <3>1. \/ UNCHANGED result
          \/ result' = [result EXCEPT ![t] = [result[t] EXCEPT !.last = "Empty"]]
      BY <2>4, Zenon DEF ObserveCursors
    <3>2. /\ [result[t] EXCEPT !.last = "Empty"] \in Answers
          /\ [result[t] EXCEPT !.last = "Empty"].last = "Empty"
      BY <2>0, Zenon DEF Outcomes
    <3> QED  BY <3>1, <3>2, Zenon
  <2>5. CASE RefreshCredit(t)
    <3>1. result' = [result EXCEPT ![t] = [result[t] EXCEPT !.last = "Notify"]]
      BY <2>5, Zenon DEF RefreshCredit
    <3>2. /\ [result[t] EXCEPT !.last = "Notify"] \in Answers
          /\ [result[t] EXCEPT !.last = "Notify"].last = "Notify"
      BY <2>0, Zenon DEF Outcomes
    <3> QED  BY <3>1, <3>2, Zenon
  <2>6. CASE Classify(t)
    <3>1. CASE Classified = "Notify"
      BY <2>6, <3>1, Zenon DEF Classify
    <3>2. CASE Classified # "Notify"
      <4>1. Classified \in Outcomes
        BY Zenon DEF Classified, PreflightNotify, Outcomes, Faults
      <4>2. PICK st \in {"SUCCESS", "INVALID_DEVICE_STATE"},
                 fl \in {"None", "NotifyBlocked", "Contended"} :
              result' = [result EXCEPT ![t] = [status |-> st, flag |-> fl, last |-> Classified]]
        BY <2>6, <3>2, Zenon DEF Classify, Answer
      <4>3. [status |-> st, flag |-> fl, last |-> Classified] \in Answers
        BY <4>1, Zenon
      <4> QED  BY <2>6, <4>2, <4>3, Zenon
    <3> QED  BY <3>1, <3>2, Zenon
  <2> QED  BY <1>3, <2>1, <2>2, <2>3, <2>4, <2>5, <2>6, Zenon DEF Enter, Drain
<1>4. ASSUME NEW t \in Threads, Enter(t)
      PROVE  /\ TypeAnswer'
             /\ \A u \in Threads : \/ result'[u].last \in {result[u].last, "Empty", "Notify"}
                                   \/ Classify(u) /\ result'[u].last = Classified
  BY <1>1, <1>3, <1>4
<1> QED  BY <1>2, <1>4, Zenon DEF Next

\* A record of the daemon's that is copied whole is never taken for a fault, and
\* an abort or a completion is reported only for a record copied whole.
LEMMA WholeNeverFault ==
    ASSUME RingInv, TypeDrain, ReadInv, GrantInv, HomeInv, FenceInv, ControlInv,
           NEW t \in Threads, epc[t] = "classify"
    PROVE  /\ Classified = "ProtocolFault" => obsBody # reserved[head + 1]
           /\ Classified \in {"CompletionFault", "ProtocolAbort"} => obsBody = reserved[head + 1]
<1>1. DrainPc = "classify" /\ fpc \notin {"retired", "done"}
  <2>1. epc[t] = "classify" /\ epc[t] \in Holding
    BY Zenon DEF Holding
  <2> QED  BY <2>1, HolderPc, Zenon DEF FenceInv, ControlInv, TypeControl
<1>2. Stale(obsBody) \/ Fresh(obsBody)
  BY <1>1, Zenon DEF ReadInv
<1>3. ASSUME Classified \in {"CompletionFault", "ProtocolAbort"}
      PROVE  obsBody = reserved[head + 1]
  <2>1. obsBody[1] \in {"completion", "abort"}
    BY <1>3, Zenon DEF Classified, PreflightNotify
  <2>2. obsBody # Zeroed
    BY <2>1 DEF Zeroed
  <2>3. obsBody \notin Tokens
    BY <2>1, RecordAssumption, Zenon DEF Tokens
  <2> QED  BY <1>2, <2>2, <2>3, Zenon DEF Stale, Fresh
<1>4. ASSUME Classified = "ProtocolFault", obsBody = reserved[head + 1]
      PROVE  FALSE
  <2>0. SequenceStable /\ obsBody[1] \notin {"completion", "abort"}
    BY <1>4, Zenon DEF Classified
  <2>1. head < Ready
    BY <2>0, Zenon DEF ReadInv, SequenceStable
  <2>2. /\ head \in Nat /\ tail \in Nat /\ head < tail
        /\ reserved \in Seq(Records) /\ Len(reserved) = tail
    BY <2>1 DEF Ready, RingInv, TypeRing, CursorInv
  <2>3. head + 1 \in head + 1 .. tail /\ obsBody \in Records
    BY <1>4, <2>2
  <2>4. obsBody \in Tokens /\ obsBody # Zeroed /\ obsBody[1] \in Credits
    BY <2>0, <2>3, RecordFacts, Zenon
  <2>5. At(obsBody, "ring") /\ "ring" \in Places
    BY <1>4, <2>3, Zenon DEF At, InRing, Places
  <2>6. obsBody[2] = grants[obsBody[1]].gen
    BY <2>4, <2>5, Zenon DEF HomeInv
  <2>7. grants[obsBody[1]].state = "Issued"
    BY <1>1, <2>4, Zenon DEF GrantInv, TypeDrain
  <2>8. PreflightNotify(obsBody) # "ProtocolFault"
    BY <2>6, <2>7, Zenon DEF PreflightNotify
  <2> QED  BY <1>4, <2>0, <2>4, <2>8, Zenon DEF Classified
<1> QED  BY <1>3, <1>4, Zenon

-----------------------------------------------------------------------------
(* The theorems.                                                           *)

\* The invariant holds when the session is set up.
LEMMA InitInv == Init => IndInv
<1> SUFFICES ASSUME Init  PROVE IndInv
  BY Zenon
<1> USE BoundAssumption, CapacityAssumption
<1>0. /\ head = 0 /\ tail = 0 /\ consumed = << >> /\ reserved = << >> /\ out = << >>
      /\ obsBody = Unread /\ obsSeq = NotLoaded /\ dpc = "idle" /\ lost = {}
      /\ epc = [t \in Threads |-> "idle"] /\ ringSpin = Nobody
      /\ grants = [c \in Credits |-> [gen |-> 1, state |-> "Issued"]]
      /\ held = {<<c, 1>> : c \in Credits}
  BY Zenon DEF Init
<1>1. TypeRing
  BY DEF Init, TypeRing
<1>2. held \subseteq Tokens
  BY <1>0 DEF Tokens
<1>3. TypeDrain
  <2>1. grants \in [Credits -> [gen : 1 .. MaxGeneration,
                               state : {"Issued", "Claimed", "Retired"}]]
    BY <1>0
  <2>2. budget = 0 /\ slots = 0
    BY Zenon DEF Init
  <2>3. out \in Seq(Tokens) /\ Len(out) = 0
    BY <1>0
  <2> QED  BY <1>0, <1>2, <2>1, <2>2, <2>3 DEF TypeDrain
<1>4. TypeControl /\ LockInv /\ FenceInv
  BY ThreadAssumption, Zenon
     DEF Init, TypeControl, LockInv, FenceInv, EnterPcs, Holding, Draining, Owning, Nobody
<1>5. TypeAnswer
  BY Zenon DEF Init, TypeAnswer, NoAnswer, Outcomes
<1>6. Ready = 0 /\ DrainPc = "none" /\ ~Writing
  BY <1>0, ThreadAssumption, Zenon DEF Ready, Writing, DrainPc, Nobody
<1>7. CursorInv /\ CellInv
  <2>1. CursorInv
    BY <1>6 DEF Init, CursorInv
  <2>2. \A c \in Cells : seq[c] = 0
    BY Zenon DEF Init
  <2> QED  BY <1>0, <1>6, <2>1, <2>2 DEF CellInv
<1>8. BodyInv
  <2>1. \A c \in Cells : body[c] = Zeroed
    BY Zenon DEF Init
  <2>2. Zeroed \notin Tokens
    BY RecordFacts, Zenon DEF Records
  <2> QED  BY <1>0, <2>1, <2>2, Zenon DEF BodyInv, Stale
<1>9. ReadInv /\ GrantInv
  BY <1>0, <1>6 DEF ReadInv, GrantInv, NotLoaded
<1>10. SpentInv
  <2>1. head + 1 .. tail = {} /\ 1 .. head = {}
    BY <1>0
  <2> QED  BY <2>1, Zenon DEF SpentInv
<1>11. HomeInv
  <2> SUFFICES ASSUME NEW token \in Tokens
               PROVE  /\ token[2] = grants[token[1]].gen <=> \E h \in Places : At(token, h)
                      /\ \A h, k \in Places : At(token, h) /\ At(token, k) => h = k
    BY Zenon DEF HomeInv
  <2>1. token[1] \in Credits /\ token = <<token[1], token[2]>>
    BY DEF Tokens
  <2>2. ~InRing(token) /\ ~InDrain(token) /\ token \notin Returned
    BY <1>0 DEF InRing, InDrain, Returned
  <2>3. \A h \in Places : At(token, h) <=> h = "held" /\ token \in held
    BY <1>0, <2>2, Zenon DEF At
  <2>4. token \in held <=> token[2] = 1
    BY <1>0, <2>1
  <2>5. grants[token[1]].gen = 1 /\ "held" \in Places
    BY <1>0, <2>1, Zenon DEF Places
  <2> QED  BY <2>3, <2>4, <2>5, Zenon
<1> QED
  BY <1>1, <1>3, <1>4, <1>5, <1>7, <1>8, <1>9, <1>10, <1>11, Zenon DEF IndInv, TypeOK

\* The invariant is preserved by every step.
LEMMA InvStep == IndInv /\ [Next]_vars => IndInv'
<1> SUFFICES ASSUME IndInv, [Next]_vars  PROVE IndInv'
  BY Zenon
<1>1. /\ ControlInv /\ RingInv /\ TypeDrain /\ TypeControl /\ TypeAnswer /\ LockInv /\ FenceInv
      /\ BodyInv /\ ReadInv /\ GrantInv /\ HomeInv /\ SpentInv
  BY Zenon DEF IndInv, TypeOK, ControlInv, RingInv
<1>2. ControlInv'
  BY <1>1, ControlStep, Zenon DEF ControlInv
<1>3. AdvanceReady
  <2>1. ASSUME NEW t \in Threads, epc[t] = "advance"  PROVE DrainPc = "advance"
    BY <1>1, <2>1, HolderPc, Zenon DEF Holding
  <2> QED  BY <1>1, <2>1, Zenon DEF AdvanceReady, ReadInv
<1>4. RingInv'
  BY <1>1, <1>3, RingStep, Zenon DEF TypeDrain
<1>5. TypeDrain' /\ TypeAnswer'
  BY <1>1, <1>2, TypeDrainStep, AnswerStep, Zenon
<1>6. BodyInv' /\ ReadInv' /\ GrantInv'
  BY <1>1, <1>2, BodyStep, ReadStep, GrantStep, Zenon
<1>7. HomeInv' /\ SpentInv'
  BY <1>1, <1>2, HomeStep, SpentStep, Zenon
<1> QED
  BY <1>2, <1>4, <1>5, <1>6, <1>7, Zenon DEF IndInv, TypeOK, ControlInv, RingInv

\* The inductive invariant, for every number of threads and credits, every
\* capacity, budget, output size, generation and cursor limit, and both orders
\* in which read_cqe may copy a record.
THEOREM Invariant == Spec => []IndInv
  BY InitInv, InvStep, PTL DEF Spec

\* Every variable keeps its type, and a drain never returns more credits than its
\* budget and its output have room for (the checks of classify_cq).
THEOREM TypeCorrect == Spec => []TypeOK
<1>1. IndInv => TypeOK
  BY Zenon DEF IndInv
<1> QED  BY <1>1, Invariant, PTL

\* The thread between acquire_role and the release is the recorded owner of the
\* role, and the fence never finds the role still taken.
THEOREM RolesKept == Spec => []RoleNotLeaked
<1>1. IndInv => RoleNotLeaked
  <2> SUFFICES ASSUME IndInv  PROVE RoleNotLeaked
    BY Zenon
  <2>1. fpc # "refused"
    BY Zenon DEF IndInv, TypeOK, TypeControl, FenceInv
  <2> QED  BY <2>1, Zenon DEF IndInv, LockInv, RoleNotLeaked, Owning, Holding
<1> QED  BY <1>1, Invariant, PTL

\* Credits are conserved through claim, advance, refresh, output and the end of
\* the call, also when read_cqe pairs a new sequence with an old body.
THEOREM Conserved == Spec => []CreditConservation
<1>1. IndInv => CreditConservation
  <2> SUFFICES ASSUME IndInv, NEW token \in Tokens
               PROVE  IF token[2] = grants[token[1]].gen
                      THEN \E h \in Places : Homes(token) = {h}  ELSE Homes(token) = {}
    BY Zenon DEF CreditConservation
  <2>1. /\ token[2] = grants[token[1]].gen <=> \E h \in Places : At(token, h)
        /\ \A h, k \in Places : At(token, h) /\ At(token, k) => h = k
    BY Zenon DEF IndInv, HomeInv
  <2>2. CASE token[2] = grants[token[1]].gen
    <3>1. PICK h \in Places : At(token, h)
      BY <2>1, <2>2, Zenon
    <3>2. Homes(token) = {h}
      BY <2>1, <3>1, Zenon DEF Homes
    <3> QED  BY <2>2, <3>1, <3>2, Zenon
  <2>3. CASE token[2] # grants[token[1]].gen
    <3>1. Homes(token) = {}
      BY <2>1, <2>3, Zenon DEF Homes
    <3> QED  BY <2>3, <3>1, Zenon
  <2> QED  BY <2>2, <2>3, Zenon
<1> QED  BY <1>1, Invariant, PTL

\* No two drains consume the same generation of a credit.
THEOREM SpentOnce == Spec => []TokenSpentOnce
<1>1. IndInv => TokenSpentOnce
  <2> SUFFICES ASSUME IndInv  PROVE TokenSpentOnce
    BY Zenon
  <2>1. consumed \in Seq(Records) /\ Len(consumed) = head
    BY Zenon DEF IndInv, TypeOK, TypeRing, CursorInv
  <2>2. DOMAIN consumed = 1 .. head
    BY <2>1
  <2> QED  BY <2>2, Zenon DEF IndInv, SpentInv, TokenSpentOnce
<1> QED  BY <1>1, Invariant, PTL

\* Whichever half of a record is copied first, an honest daemon is accused over a
\* torn copy only: classify_cq never answers a protocol fault for a record it
\* copied whole, nor reports an abort that is not there, nor try_push a cursor
\* fault.
THEOREM TornAlone == Spec => []AccusedOnlyTorn
<1>1. IndInv => AccusedOnlyTorn
  <2> SUFFICES ASSUME IndInv  PROVE AccusedOnlyTorn
    BY Zenon
  <2>1. dpc \notin {"Regressed", "AheadOfProducer", "OverCapacity"}
    BY Zenon DEF IndInv, CursorInv
  <2>2. /\ RingInv /\ TypeDrain /\ ReadInv /\ GrantInv /\ HomeInv /\ FenceInv
        /\ ControlInv
    BY Zenon DEF IndInv, TypeOK, RingInv, ControlInv
  <2> QED  BY <2>1, <2>2, WholeNeverFault, Zenon DEF AccusedOnlyTorn
<1> QED  BY <1>1, Invariant, PTL

\* After the access rundown no thread moves the head, changes a grant or hands a
\* credit to the daemon; the fence only retires.
THEOREM QuietAfterFence == Spec => FencedIsQuiet
<1> DEFINE Quiet == rundown = "complete" =>
               /\ head' = head /\ held' \subseteq held
               /\ \A c \in Credits : grants'[c] # grants[c] =>
                    grants'[c].state = "Retired" /\ grants[c].state # "Retired"
<1>1. IndInv /\ [Next]_vars => [Quiet]_vars
  <2> SUFFICES ASSUME IndInv, [Next]_vars, rundown = "complete"
               PROVE  /\ head' = head /\ held' \subseteq held
                      /\ \A c \in Credits : grants'[c] # grants[c] =>
                           grants'[c].state = "Retired" /\ grants[c].state # "Retired"
    BY Zenon
  <2>1. \A t \in Threads : epc[t] = "idle"
    BY Zenon DEF IndInv, FenceInv
  <2>2. TypeDrain /\ TypeControl
    BY Zenon DEF IndInv, TypeOK
  <2>3. ~\E t \in Threads : Enter(t)
    BY <2>1, <2>2, EnterControl, Zenon DEF Draining, Holding
  <2>4. CASE Daemon
    BY <2>4, Zenon DEF Daemon, PushLoadHead, PushStoreTail, PushWriteBody, PushPublish
  <2>5. CASE FenceBegin \/ UNCHANGED vars
    BY <2>5, Zenon DEF FenceBegin, FenceClose, vars, ringVars
  <2>6. CASE FenceStep
    <3>1. UNCHANGED <<head, held>>
      BY <2>6, Zenon DEF FenceStep, ringVars
    <3>2. CASE FenceRetire
      <4>1. ASSUME NEW c \in Credits
            PROVE  LET entries == [gen : 1 .. MaxGeneration,
                                   state : {"Issued", "Claimed", "Retired"}]
                   IN /\ grants'[c].state = "Retired" /\ grants'[c].gen = grants[c].gen
                      /\ grants'[c] \in entries /\ grants[c] \in entries
        BY <2>2, <3>2, RetireGrants, Zenon DEF TypeDrain
      <4> QED  BY <3>1, <4>1
    <3>3. CASE UNCHANGED grants
      BY <3>1, <3>3, Zenon
    <3> QED
      BY <2>6, <3>2, <3>3, Zenon DEF FenceStep, FenceBeginWait, FenceEndWait, FenceUnmap,
         FenceAcquireConsumer, FenceDrain, FenceRelease
  <2> QED  BY <2>3, <2>4, <2>5, <2>6, Zenon DEF Next
<1> QED  BY <1>1, Invariant, PTL DEF Spec, FencedIsQuiet

\* The completion ring implements the bounded channel: records come off it in the
\* order of their reservation, each once, and never more than Capacity are on it.
THEOREM Implements == Spec => RefinesFifo
<1> DEFINE queue == SubSeq(reserved, head + 1, tail)
<1>1. Init => Fifo!Init
  <2> SUFFICES ASSUME Init  PROVE queue = << >> /\ consumed = << >>
    BY Zenon DEF Fifo!Init
  <2>1. head = 0 /\ tail = 0 /\ reserved = << >> /\ consumed = << >>
    BY Zenon DEF Init
  <2> QED  BY <2>1, WindowEmpty, Zenon DEF Window
<1>2. IndInv /\ IndInv' /\ [Next]_vars => [Fifo!Next]_(Fifo!vars)
  <2> SUFFICES ASSUME IndInv, IndInv', [Next]_vars  PROVE [Fifo!Next]_(Fifo!vars)
    BY Zenon
  <2>1. /\ head \in Nat /\ tail \in Nat /\ head <= tail /\ reserved \in Seq(Records)
        /\ Len(reserved) = tail /\ tail - head <= Capacity /\ RingInv
    <3>1. RingInv
      BY Zenon DEF IndInv, TypeOK, RingInv
    <3> QED  BY <3>1, RingBasics, Zenon
  <2>2. queue = Window(reserved, head) /\ queue \in Seq(Records) /\ Len(queue) = tail - head
    <3>1. queue = Window(reserved, head)
      BY <2>1, Zenon DEF Window
    <3> QED  BY <2>1, <3>1, WindowShape, Zenon
  <2>3. CASE UNCHANGED <<head, tail, reserved, consumed>>
    BY <2>3, Zenon DEF Fifo!vars
  <2>4. CASE Daemon
    <3>1. UNCHANGED <<head, consumed>>
      BY <2>4, Zenon DEF Daemon
    <3>2. CASE PushStoreTail
      <4>1. /\ tail' = tail + 1 /\ reserved' = Append(reserved, pushing) /\ pushing \in Records
            /\ tail - head < Capacity
        BY <3>2, Zenon DEF PushStoreTail, IndInv, CellInv, CursorInv
      <4>2. SubSeq(reserved', head + 1, tail + 1) = Append(queue, pushing)
        <5>1. Len(Append(reserved, pushing)) = tail + 1
          BY <2>1
        <5>2. Window(Append(reserved, pushing), head) = Append(Window(reserved, head), pushing)
          BY <2>1, <4>1, WindowGrows
        <5> QED  BY <2>2, <4>1, <5>1, <5>2, Zenon DEF Window
      <4>3. Fifo!Put(pushing)
        BY <2>2, <3>1, <4>1, <4>2, Zenon DEF Fifo!Put
      <4> QED  BY <4>1, <4>3, Zenon DEF Fifo!Next
    <3>3. CASE ~PushStoreTail
      <4>1. UNCHANGED <<tail, reserved>>
        BY <2>4, <3>3, Zenon DEF Daemon, PushLoadHead, PushWriteBody, PushPublish
      <4> QED  BY <2>3, <3>1, <4>1, Zenon
    <3> QED  BY <3>2, <3>3, Zenon
  <2>5. ASSUME NEW t \in Threads, AdvanceCqHead(t), UNCHANGED <<tail, reserved>>
        PROVE  Fifo!Next
    <3>1. DrainPc = "advance"
      <4>1. epc[t] = "advance" /\ epc[t] \in Holding /\ ControlInv
        BY <2>5, Zenon DEF AdvanceCqHead, Holding, IndInv, TypeOK, ControlInv
      <4> QED  BY <4>1, HolderPc, Zenon
    <3>2. /\ head' = head + 1 /\ head < tail /\ consumed' = Append(consumed, reserved[head + 1])
      BY <2>5, <3>1, Zenon DEF AdvanceCqHead, IndInv, ReadInv, Fresh
    <3>3. /\ queue # << >> /\ Head(queue) = reserved[head + 1]
          /\ SubSeq(reserved, head + 2, tail) = Tail(queue)
      <4>1. /\ Window(reserved, head) # << >> /\ Head(Window(reserved, head)) = reserved[head + 1]
            /\ Window(reserved, head + 1) = Tail(Window(reserved, head))
        BY <2>1, <3>2, WindowShrinks, Zenon
      <4>2. Window(reserved, head + 1) = SubSeq(reserved, head + 2, tail)
        BY <2>1 DEF Window
      <4> QED  BY <2>2, <4>1, <4>2, Zenon
    <3>4. SubSeq(reserved', head' + 1, tail') = Tail(queue)
      BY <2>1, <2>5, <3>2, <3>3
    <3>5. Fifo!Take
      BY <3>2, <3>3, <3>4, Zenon DEF Fifo!Take
    <3> QED  BY <3>5, Zenon DEF Fifo!Next
  <2> QED  BY <2>3, <2>4, <2>5, RingFrame, Zenon DEF ringVars, daemonVars
<1> QED  BY <1>1, <1>2, Invariant, PTL DEF Spec, RefinesFifo, Fifo!Spec
=============================================================================
