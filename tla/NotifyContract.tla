--------------------------- MODULE NotifyContract ---------------------------
(***************************************************************************)
(* The acknowledged notification lanes between a provider and the kernel:   *)
(* the durable external-change lane with its ATTACH barrier, and the         *)
(* pass-through lanes, one per ring and kind.  Sessions are lost with        *)
(* everything on the rings; each side keeps its watermarks.                  *)
(*                                                                         *)
(* fsring-abi holds the records' validators, the classifiers and the        *)
(* ordinals' rules; nothing in the driver calls them yet.  What each side    *)
(* does with a verdict is external and follows docs/design/03-messages.md    *)
(* 9.3 and 9.5.  The counter a barrier compares a cut with is the value read *)
(* when the cut was taken.                                                  *)
(***************************************************************************)
EXTENDS NotifyBody

CONSTANTS Changes,      \* the external changes, in order: [change_kind, object_kind, old, new]
          Lanes,        \* pass-through lanes in use: <<kind, ring>>
          OutboxRows, LastPt, MaxLosses

VARIABLES prov, kern, lane, klane, cq, sq, applied, turns, losses, faulted

vars == <<prov, kern, lane, klane, cq, sq, applied, turns, losses, faulted>>

NoTuple == [first |-> 0, through |-> 0, sequence |-> 0, digest |-> NoSlice]
RetainedTuple(row) == [first |-> row.first, through |-> row.through, sequence |-> row.through, digest |-> row.change]

Init ==
    /\ prov = [counter |-> 0, outbox |-> <<>>, latest |-> NoTuple, frozen |-> FALSE, sent |-> FALSE,
               cut |-> -1, cuts |-> 0, ready |-> TRUE, honest |-> TRUE]
    /\ kern = [high |-> 0, latest |-> NoTuple, stored_cut |-> -1, counter |-> 0, progressed |-> FALSE,
               ready |-> TRUE, active |-> TRUE]
    /\ lane = [l \in Lanes |-> [high |-> 0, pending |-> 0, processed |-> 0, sent |-> FALSE, ready |-> TRUE]]
    /\ klane = [l \in Lanes |-> [high |-> 0, ready |-> TRUE]]
    /\ cq = <<>> /\ sq = <<>> /\ applied = <<>> /\ turns = [l \in Lanes |-> 0]
    /\ losses = 0 /\ faulted = FALSE

-----------------------------------------------------------------------------
(* What a provider publishes.                                               *)

Envelope(code, token, file, body) ==
    [version |-> 2, required_flags |-> 0, notify_flags |-> 0, notify_code |-> code, token |-> token,
     file_id |-> file, struct_size |-> 56 + BodyLength(body),
     body |-> [offset |-> 56, length |-> BodyLength(body)]]
Body(prefix, tail, record) ==
    [prefix |-> prefix, tail |-> tail, record |-> record, version |-> 1,
     struct_size |-> prefix + 2 * Len(tail)]
Message(ring, code, token, file, body) ==
    [ring |-> ring, envelope |-> Envelope(code, token, file, body), body |-> body]
Control(code, size, record) == Message(0, code, ZeroToken, 0, Body(size, <<>>, record))

\* One external row: the names follow each other, padded to eight bytes.
DirChange(row) ==
    LET c == row.change
        names == c.old \o c.new
        padding == [i \in 1..((4 - (Len(names) % 4)) % 4) |-> "zero"]
        Side(units, at) == IF units = <<>> THEN NoSide
                           ELSE [parent |-> 1, generation |-> 1,
                                 name |-> [offset |-> at, length |-> 2 * Len(units)]]
        overflow == c.change_kind = "OVERFLOW"
        record == [flags |-> 0, change_kind |-> c.change_kind, object_kind |-> c.object_kind,
                   filter |-> CASE overflow -> {}
                                [] c.change_kind = "MODIFY" -> {"LAST_WRITE"}
                                [] c.object_kind = "FILE" -> {"FILE_NAME"}
                                [] OTHER -> {"DIR_NAME"},
                   volume_commit_sequence |-> row.through, first_ordinal |-> row.first,
                   through_ordinal |-> row.through, target_link |-> IF overflow THEN 0 ELSE 1,
                   target_generation |-> IF overflow THEN 0 ELSE 1, replaced |-> NoReplacement,
                   old |-> Side(c.old, 176), new |-> Side(c.new, 176 + 2 * Len(c.old))]
    IN Message(0, "DIR_CHANGE", external_dir_change_ack_token(row.first), IF overflow THEN 0 ELSE 1,
               Body(176, names \o padding, record))

PtNotification(l) ==
    Message(l[2], IF l[1] = PT_REVOKE_ROUTE THEN "PT_REVOKE_ROUTE" ELSE "PT_EXTERNAL_MUTATION_SAFE",
            pt_ack_token(l[1], l[2], lane[l].pending), 1, Body(16, <<>>, [pt_epoch |-> 1]))

-----------------------------------------------------------------------------
(* The provider.                                                            *)

Overflow == [change_kind |-> "OVERFLOW", object_kind |-> "NONE", old |-> <<>>, new |-> <<>>]

\* A change that no longer fits replaces the unpublished rows after the cut by one overflow.
Mutate ==
    LET next == prov.counter + 1
        kept == SelectSeq(prov.outbox, LAMBDA r : r.first <= prov.cut)
        fixed == IF prov.frozen /\ kept = <<>> THEN <<Head(prov.outbox)>> ELSE kept
        from == Len(fixed) + 1
        row == IF Len(prov.outbox) < OutboxRows \/ from > Len(prov.outbox)
               THEN [first |-> next, through |-> next, change |-> Changes[next]]
               ELSE [first |-> prov.outbox[from].first, through |-> next, change |-> Overflow]
    IN /\ prov.counter < Len(Changes)
       /\ prov' = [prov EXCEPT !.counter = next,
                               !.outbox = IF row.first = next THEN Append(@, row) ELSE Append(fixed, row)]
       /\ UNCHANGED <<kern, lane, klane, cq, sq, applied, turns, losses, faulted>>

Publishes(message) == cq' = Append(cq, message) /\ UNCHANGED <<kern, klane, sq, applied, turns, losses, faulted>>

SendCut ==
    /\ ~prov.ready /\ ~prov.sent /\ prov.cuts < 2
    /\ prov' = [prov EXCEPT !.cuts = @ + 1]
    /\ Publishes(Control("EXTERNAL_CHANGE_CUT", 24, [flags |-> 0, reconcile_cut |-> prov.cut]))
    /\ UNCHANGED lane

SendRow ==
    /\ prov.outbox # <<>> /\ ~prov.sent
    /\ prov.ready \/ (prov.cuts > 0 /\ Head(prov.outbox).first <= prov.cut)
    /\ prov' = [prov EXCEPT !.sent = TRUE, !.frozen = TRUE, !.cuts = 2]
    /\ Publishes(DirChange(Head(prov.outbox))) /\ UNCHANGED lane

SendReady ==
    /\ ~prov.ready /\ prov.cuts > 0 /\ ~prov.sent
    /\ \A i \in DOMAIN prov.outbox : prov.outbox[i].first > prov.cut
    /\ prov' = [prov EXCEPT !.ready = TRUE]
    /\ Publishes(Control("EXTERNAL_CHANGE_READY", 32,
                         [flags |-> 0, cut |-> prov.cut, processed |-> prov.latest.through]))
    /\ UNCHANGED lane

\* The notifications nobody acknowledges, bounded to the time before the first change.
HintBody(code) ==
    CASE code = "INVALIDATE_FILE" -> Body(40, <<>>, [flags |-> 0, offset |-> 0, length |-> 0, content_epoch |-> 1])
      [] code = "INVALIDATE_ENTRY" ->
             Body(32, <<"plain", "zero", "zero", "zero">>,
                  [flags |-> 0, namespace_generation |-> 1, name |-> [offset |-> 32, length |-> 2]])
      [] code = "PT_GRANT" -> Body(24, <<>>, [flags |-> 0, pt_epoch |-> 1, sector_size |-> 512])
      [] code = "RESIZE" ->
             Body(48, <<>>, [volume_commit_sequence |-> 1,
                             sizes |-> [allocation |-> MAX_FILE_SIZE, file |-> 1, valid |-> 0, epoch |-> 1]])
SendHint(code) ==
    /\ prov.counter = 0 /\ losses = 0 /\ cq = <<>> /\ sq = <<>>
    /\ Publishes(Message(0, code, ZeroToken, 1, HintBody(code))) /\ UNCHANGED <<prov, lane>>

\* A provider that declares itself caught up too early.
HastyReady ==
    /\ ~prov.ready /\ prov.cuts > 0 /\ prov.outbox # <<>> /\ Head(prov.outbox).first <= prov.cut
    /\ prov' = [prov EXCEPT !.ready = TRUE, !.honest = FALSE]
    /\ Publishes(Control("EXTERNAL_CHANGE_READY", 32,
                         [flags |-> 0, cut |-> prov.cut, processed |-> prov.cut]))
    /\ UNCHANGED lane

ProbeWaits(l) == \E i \in DOMAIN sq : sq[i].lane = l
SendLaneReady(l) ==
    /\ ~lane[l].ready /\ ~ProbeWaits(l)
    /\ lane' = [lane EXCEPT ![l].ready = TRUE]
    /\ Publishes(Message(l[2], "PT_LANE_READY", ZeroToken, 0,
                         Body(24, <<>>, [flags |-> 0, kind_ordinal |-> l[1],
                                         high_watermark |-> lane[l].processed])))
    /\ UNCHANGED prov

\* A new transition, or the one pending since an earlier session.
StartPt(l) ==
    /\ lane[l].high < LastPt /\ pt_lane_can_publish_v21(lane[l], lane[l].high + 1)
    /\ lane' = [lane EXCEPT ![l].pending = lane[l].high + 1, ![l].high = @ + 1]
    /\ UNCHANGED <<prov, kern, klane, cq, sq, applied, turns, losses, faulted>>
SendPt(l) ==
    /\ lane[l].ready /\ lane[l].pending # 0 /\ ~lane[l].sent
    /\ lane' = [lane EXCEPT ![l].sent = TRUE]
    /\ Publishes(PtNotification(l)) /\ UNCHANGED prov

TakeDirAck(ack) ==
    LET head == prov.outbox # <<>> /\ prov.frozen
                /\ validate_pdir_change_ack_v1(ack, RetainedTuple(Head(prov.outbox)))
        latest == validate_pdir_change_ack_v1(ack, prov.latest)
    IN /\ prov' = IF head THEN [prov EXCEPT !.outbox = Tail(@), !.latest = RetainedTuple(Head(prov.outbox)),
                                            !.frozen = FALSE, !.sent = FALSE]
                  ELSE prov
       /\ faulted' = (faulted \/ (~head /\ ~latest))
       /\ UNCHANGED <<lane, turns>>

TakePtAck(l, ack) ==
    LET ordinal == TokenParts(ack.token).ordinal
        verdict == IF validate_pnotify_ack_v21(ack, l[1], l[2], 1)
                   THEN classify_pt_ack_v21(lane[l], ordinal) ELSE "ProtocolFault"
    IN /\ lane' = IF verdict = "Apply"
                  THEN [lane EXCEPT ![l].pending = 0, ![l].processed = ordinal, ![l].sent = FALSE]
                  ELSE lane
       /\ turns' = IF verdict = "Apply" THEN [turns EXCEPT ![l] = @ + 1] ELSE turns
       /\ faulted' = (faulted \/ verdict = "ProtocolFault")
       /\ UNCHANGED prov

ProviderTake ==
    /\ sq # <<>> /\ sq' = Tail(sq)
    /\ IF Head(sq).lane = <<DIR_CHANGE, 0>> THEN TakeDirAck(Head(sq).ack)
       ELSE TakePtAck(Head(sq).lane, Head(sq).ack)
    /\ UNCHANGED <<kern, klane, cq, applied, losses>>

-----------------------------------------------------------------------------
(* The kernel.                                                              *)

DirAck(tuple) == [lane |-> <<DIR_CHANGE, 0>>,
                  ack |-> [token |-> external_dir_change_ack_token(tuple.first), through |-> tuple.through,
                           sequence |-> tuple.sequence, digest |-> tuple.digest]]
PtAck(l, ordinal) == [lane |-> l, ack |-> [token |-> pt_ack_token(l[1], l[2], ordinal), epoch |-> 1]]

TakeCut(record) ==
    LET verdict == classify_external_change_cut_v21(record.reconcile_cut,
                       [kernel_high |-> kern.high, stored_cut |-> kern.stored_cut,
                        ordinal_counter |-> kern.counter, progressed |-> kern.progressed])
    IN /\ kern' = IF verdict = "Accept" THEN [kern EXCEPT !.stored_cut = record.reconcile_cut] ELSE kern
       /\ sq' = IF verdict = "Accept" /\ kern.high # 0 THEN Append(sq, DirAck(kern.latest)) ELSE sq
       /\ faulted' = (faulted \/ verdict = "ProtocolFault" \/ kern.active)
       /\ UNCHANGED <<klane, applied>>

TakeReady(record) ==
    LET verdict == classify_external_change_ready_v21(record,
                       [stored_cut |-> kern.stored_cut, kernel_high |-> kern.high,
                        ordinal_counter |-> kern.counter, already_ready |-> kern.ready, active |-> kern.active])
    IN /\ kern' = [kern EXCEPT !.ready = @ \/ verdict = "Accept"]
       /\ faulted' = (faulted \/ verdict = "ProtocolFault")
       /\ UNCHANGED <<klane, sq, applied>>

TakeChange(r, change) ==
    LET tuple == [first |-> r.first_ordinal, through |-> r.through_ordinal,
                  sequence |-> r.volume_commit_sequence, digest |-> change]
        fresh == r.first_ordinal = kern.high + 1 /\ (kern.active \/ kern.stored_cut >= 0)
        repeat == tuple = kern.latest
    IN /\ kern' = IF fresh THEN [kern EXCEPT !.high = r.through_ordinal, !.latest = tuple, !.progressed = TRUE]
                  ELSE kern
       /\ applied' = IF fresh THEN applied \o [i \in 1..(r.through_ordinal - kern.high) |-> kern.high + i]
                     ELSE applied
       /\ sq' = IF fresh \/ repeat THEN Append(sq, DirAck(tuple)) ELSE sq
       /\ faulted' = (faulted \/ ~(fresh \/ repeat))
       /\ UNCHANGED klane

TakeLaneReady(l, record) ==
    LET verdict == classify_pt_lane_ready_v21(record, klane[l].high, klane[l].ready, kern.active) IN
    /\ klane' = [klane EXCEPT ![l].ready = @ \/ verdict = "Accept"]
    /\ faulted' = (faulted \/ verdict = "ProtocolFault")
    /\ UNCHANGED <<kern, sq, applied>>

TakePt(l, ordinal) ==
    LET known == ordinal \in {klane[l].high, klane[l].high + 1} IN
    /\ klane' = [klane EXCEPT ![l].high = IF known THEN ordinal ELSE @]
    /\ sq' = IF known THEN Append(sq, PtAck(l, ordinal)) ELSE sq
    /\ faulted' = (faulted \/ ~known)
    /\ UNCHANGED <<kern, applied>>

\* The digest a change's acknowledgement carries is the one of the bytes received.
ChangeOf(body) ==
    LET Name(side) == IF side = NoSide THEN <<>>
                      ELSE Units(body, side.name.offset, side.name.offset + side.name.length)
    IN [change_kind |-> body.record.change_kind, object_kind |-> body.record.object_kind,
        old |-> Name(body.record.old), new |-> Name(body.record.new)]

KernelTake ==
    /\ ~faulted /\ cq # <<>> /\ cq' = Tail(cq)
    /\ \E m \in {Head(cq)} :
         IF ~validate_notify_envelope_v2(m.envelope, m.body)
         THEN faulted' = TRUE /\ UNCHANGED <<kern, klane, sq, applied>>
         ELSE CASE m.envelope.notify_code = "EXTERNAL_CHANGE_CUT" -> TakeCut(m.body.record)
                [] m.envelope.notify_code = "EXTERNAL_CHANGE_READY" -> TakeReady(m.body.record)
                [] m.envelope.notify_code = "DIR_CHANGE" -> TakeChange(m.body.record, ChangeOf(m.body))
                [] m.envelope.notify_code = "PT_LANE_READY" ->
                       TakeLaneReady(<<m.body.record.kind_ordinal, m.ring>>, m.body.record)
                [] m.envelope.token = ZeroToken -> UNCHANGED <<kern, klane, sq, applied, faulted>>
                [] OTHER -> TakePt(<<TokenParts(m.envelope.token).kind, TokenParts(m.envelope.token).ring>>,
                                   TokenParts(m.envelope.token).ordinal)
    /\ UNCHANGED <<prov, lane, turns, losses>>

Activate ==
    /\ ~faulted /\ ~kern.active /\ kern.ready /\ \A l \in Lanes : klane[l].ready
    /\ kern' = [kern EXCEPT !.active = TRUE]
    /\ UNCHANGED <<prov, lane, klane, cq, sq, applied, turns, losses, faulted>>

\* The session is lost and the next one attaches: the cut is taken and the lanes' probes are
\* published before the provider sees the rings.
Reattach ==
    /\ losses < MaxLosses /\ losses' = losses + 1
    /\ prov' = [prov EXCEPT !.cut = prov.counter, !.cuts = 0, !.ready = FALSE, !.sent = FALSE]
    /\ kern' = [kern EXCEPT !.stored_cut = -1, !.counter = prov.counter, !.progressed = FALSE,
                            !.ready = FALSE, !.active = FALSE]
    /\ lane' = [l \in Lanes |-> [lane[l] EXCEPT !.ready = FALSE, !.sent = FALSE]]
    /\ klane' = [l \in Lanes |-> [klane[l] EXCEPT !.ready = FALSE]]
    /\ cq' = <<>>
    /\ sq' = SetToSeq({PtAck(l, klane[l].high) : l \in {x \in Lanes : klane[x].high # 0}})
    /\ UNCHANGED <<applied, turns, faulted>>

Provider == \/ SendCut \/ SendRow \/ SendReady \/ ProviderTake
            \/ \E l \in Lanes : SendLaneReady(l) \/ SendPt(l)
Kernel == KernelTake \/ Activate
Next == \/ Provider \/ Kernel \/ Reattach
        \/ Mutate \/ HastyReady
        \/ \E code \in {"INVALIDATE_FILE", "INVALIDATE_ENTRY", "PT_GRANT", "RESIZE"} : SendHint(code)
        \/ \E l \in Lanes : StartPt(l)

Spec == Init /\ [][Next]_vars
FairSpec == Spec /\ WF_vars(Provider) /\ WF_vars(Kernel)

-----------------------------------------------------------------------------
(* Properties.                                                              *)

\* Neither side of an honest pair is ever accused by a validator or a classifier, whatever was
\* lost, republished, probed twice or acknowledged twice.
NobodyAccused == faulted => ~prov.honest

\* No external change is lost or applied twice: the kernel has applied every ordinal up to its
\* watermark once, and the outbox still holds every later one, without a gap.
ChangesOnce ==
    /\ applied = [i \in 1..kern.high |-> i]
    /\ LET rows == {i : i \in DOMAIN prov.outbox} IN
       \A n \in (kern.high + 1)..prov.counter :
          Cardinality({i \in rows : prov.outbox[i].first <= n /\ n <= prov.outbox[i].through}) = 1

\* A pass-through transition is performed once per ordinal, and only after the kernel knew of it.
TransitionsOnce == \A l \in Lanes : turns[l] = lane[l].processed /\ lane[l].processed <= klane[l].high

\* When notification admission reopens the kernel has seen every change up to the cut, even if
\* the provider declares itself caught up too early.
ReopenedCaughtUp == kern.active /\ kern.stored_cut >= 0 => kern.high >= kern.stored_cut

\* Every change reaches the kernel, every transition is performed, and admission reopens.
LanesCatchUp ==
    <>[](prov.honest => /\ kern.active /\ kern.high = prov.counter
                        /\ \A l \in Lanes : lane[l].pending = 0)
=============================================================================
