---------------------------- MODULE PagingLedger ----------------------------
(***************************************************************************)
(* The per-FCB paging WRITE sequencer: issue numbers, the set of active    *)
(* issues and their terminal prefix, and the failure ledger that says      *)
(* which bytes above the valid data length nobody has proved written.      *)
(* Writes complete in any order; memory pressure makes the ledger merge    *)
(* its evidence into one UNKNOWN span instead of dropping any.             *)
(*                                                                         *)
(* A terminal update runs under the size gate and the sequencer lock, so   *)
(* the size snapshot it passes in is the current one.                      *)
(***************************************************************************)
EXTENDS Integers, Sequences, FiniteSets, SequencesExt, FiniteSetsExt

CONSTANTS MAX_FILE_SIZE,       \* bytes of the file domain
          ACTIVE_CAPACITY,     \* active paging WRITE contexts of one FCB
          INLINE_INTERVALS,    \* intervals that need no overflow node
          MAX_INTERVALS,       \* ordinary intervals of one FCB
          PRECLAIM_NODES,      \* nodes a terminal update may preclaim
          LastIssue,           \* the last issue number
          Requests, Sizes      \* bound: ranges written, file sizes and VDLs

PagingConstants ==
    /\ {MAX_FILE_SIZE, ACTIVE_CAPACITY, MAX_INTERVALS, LastIssue} \subseteq Nat \ {0}
    /\ {INLINE_INTERVALS, PRECLAIM_NODES} \subseteq Nat
    /\ \A r \in Requests : r.start < r.end /\ {r.start, r.end} \subseteq 0 .. MAX_FILE_SIZE
    /\ Sizes \subseteq 1 .. MAX_FILE_SIZE

VARIABLES last_issued, active, admission,
          ordinary, unknown,    \* the ledger: sorted intervals, the UNKNOWN span
          vdl, file_size,       \* the verified VDL baseline and the file size
          unproved,             \* history: per byte, the writes that failed there
                                \* since a commit or the VDL last covered it
          past                  \* history: "overspent" once an update took more nodes
                                \* than it had, "merged" once there was an UNKNOWN span

vars == <<last_issued, active, admission, ordinary, unknown, vdl, file_size, unproved, past>>

Bytes == 0 .. MAX_FILE_SIZE - 1

In(r) == r.start .. r.end - 1

NoSpan == [start |-> 0, end |-> 0, issue |-> 0, status |-> "none"]
Exhausted == [NoSpan EXCEPT !.status = "exhausted"]

Unnumbered == LastIssue + 1     \* a write that failed without an issue number

(* ---- intervals ---- *)

Interval(start, end, issue, status) ==
    [start |-> start, end |-> end, issue |-> issue, status |-> status]

MaxOf(a, b) == IF a < b THEN b ELSE a
MinOf(a, b) == IF a < b THEN a ELSE b

touches(i, j) == i.start <= j.end /\ j.start <= i.end

\* The union keeps the lowest issue and that issue's status.
fused(spans) ==
    LET first == CHOOSE i \in spans : \A j \in spans : i.issue <= j.issue
    IN  [first EXCEPT !.start = Min({i.start : i \in spans}), !.end = Max({i.end : i \in spans})]

NonEmpty(pieces) == {p \in pieces : p.start < p.end}

Below(i, from) == [i EXCEPT !.end = MinOf(@, from)]
Above(i, to) == [i EXCEPT !.start = MaxOf(@, to)]

minus(i, from, to) == NonEmpty({Below(i, from), Above(i, to)})

ByStart(i, j) == i.start < j.start

(* ---- the ledger ---- *)

Evidence == ToSet(ordinary) \cup ({unknown} \ {NoSpan})

overflow_nodes(n) == MaxOf(n - INLINE_INTERVALS, 0)

\* The exact representation does not fit: the interval bound, a failed node
\* reservation, or more nodes than were preclaimed.
degradation(before, projected, budget, granted) ==
    LET needed == MaxOf(overflow_nodes(projected) - overflow_nodes(before), 0)
    IN  \/ projected > MAX_INTERVALS
        \/ needed > 0 /\ ~granted
        \/ needed > budget

\* Everything unresolved goes into the UNKNOWN span.
merge_to_unknown(l, extra) ==
    LET spans == extra \cup ToSet(l.ordinary) \cup ({l.unknown} \ {NoSpan})
    IN  [ordinary |-> <<>>, unknown |-> IF spans = {} THEN NoSpan ELSE fused(spans)]

insert_fusing(l, iv) ==
    LET met == {e \in ToSet(l.ordinary) : touches(e, iv)}
        kept == ToSet(l.ordinary) \ met
    IN  [l EXCEPT !.ordinary = SetToSortSeq(kept \cup {fused(met \cup {iv})}, ByStart)]

record_failure(l, range, from, budget, granted) ==
    LET clamped == Above(range, from)
        met == {e \in ToSet(l.ordinary) : touches(e, clamped)}
        projected == Len(l.ordinary) - Cardinality(met) + 1
    IN  IF clamped.start >= clamped.end THEN l
        ELSE IF degradation(Len(l.ordinary), projected, budget, granted)
        THEN merge_to_unknown(l, {clamped})
        ELSE insert_fusing(l, clamped)

\* Adjacent pieces are fused, in order of their start.
FuseSorted(pieces) ==
    LET step(done, p) ==
            IF done # <<>> /\ touches(Last(done), p)
              THEN Front(done) \o <<fused({Last(done), p})>>
              ELSE Append(done, p)
    IN  FoldLeft(step, <<>>, pieces)

\* The subtraction of [from, to), before anything changes.  An UNKNOWN span
\* split in the middle keeps one side inline; the other becomes ordinary.
project_subtraction(l, from, to, lowerInline) ==
    LET split == IF l.unknown = NoSpan THEN {} ELSE minus(l.unknown, from, to)
        low == Below(l.unknown, from)
        high == Above(l.unknown, to)
        inline == IF split = {} THEN NoSpan
                  ELSE IF Cardinality(split) = 1 THEN CHOOSE p \in split : TRUE
                  ELSE IF lowerInline THEN low ELSE high
        pieces == UNION {minus(e, from, to) : e \in ToSet(l.ordinary)}
                  \cup (split \ {inline})
    IN  [ordinary |-> FuseSorted(SetToSortSeq(pieces, ByStart)), unknown |-> inline]

subtract_proven(l, range, low, budget, granted) ==
    LET from == MaxOf(range.start, low)
        lower == project_subtraction(l, from, range.end, TRUE)
        upper == project_subtraction(l, from, range.end, FALSE)
        nodes(p) == MaxOf(overflow_nodes(Len(p.ordinary)) - overflow_nodes(Len(l.ordinary)), 0)
        best == IF nodes(upper) < nodes(lower) THEN upper ELSE lower
    IN  IF from >= range.end THEN l
        ELSE IF degradation(Len(l.ordinary), Len(best.ordinary), budget, granted)
        THEN merge_to_unknown(l, {})
        ELSE best

after_spending(budget, before, after) ==
    MaxOf(budget - MaxOf(overflow_nodes(after) - overflow_nodes(before), 0), 0)

apply_vdl(l, low) ==
    LET trim(i) == IF i.end <= low THEN NoSpan ELSE Above(i, low)
    IN  [ordinary |-> SelectSeq([k \in DOMAIN l.ordinary |-> trim(l.ordinary[k])],
                                LAMBDA i : i # NoSpan),
         unknown |-> IF l.unknown = NoSpan THEN NoSpan ELSE trim(l.unknown)]

Blocking(from, target) == {i \in Evidence : i.end > from /\ i.start < target}

target_vdl(end_of_file, size) == MinOf(end_of_file, size)

\* Mutant: the barrier looks at the ordinary intervals alone.
BarrierSkipsUnknown(from, target) ==
    LET blocking == Blocking(from, target) \ {unknown}
    IN  IF admission = "IssuesExhausted" THEN Exhausted
        ELSE IF blocking = {} THEN NoSpan
        ELSE CHOOSE i \in blocking : \A j \in blocking : i.issue <= j.issue

\* No answer once the issue numbers are spent; otherwise Clear (NoSpan) or the
\* lowest-issue evidence in [from, target), from being a snapshot's VDL.
advance_only_barrier(from, target) ==
    IF admission = "IssuesExhausted" THEN Exhausted
    ELSE IF target <= from \/ Blocking(from, target) = {} THEN NoSpan
    ELSE CHOOSE i \in Blocking(from, target) :
            \A j \in Blocking(from, target) : i.issue <= j.issue

(* ---- the sequencer ---- *)

terminal_prefix(writes, last) ==
    IF writes = {} THEN last ELSE Min({w.issue : w \in writes}) - 1

Ledger == [ordinary |-> ordinary, unknown |-> unknown]

Store(l) == ordinary' = l.ordinary /\ unknown' = l.unknown

\* History: a failed byte is unproved from the VDL up.
Fails(u, issue, bytes) ==
    [b \in Bytes |-> IF b \in bytes /\ b >= vdl THEN u[b] \cup {issue} ELSE u[b]]

Commits(u, bytes) == [b \in Bytes |-> IF b \in bytes THEN {} ELSE u[b]]

Spends(l, budget) ==
    LET taken == overflow_nodes(Len(l.ordinary)) - overflow_nodes(Len(ordinary))
    IN  past' = past \cup {m \in {"overspent", "merged"} :
                             IF m = "merged" THEN l.unknown # NoSpan ELSE taken > budget}

(* A WriteIrpContext was claimed: the issue is linearized and active. *)
Admit(range) ==
    /\ admission = "Open"
    /\ Cardinality(active) < ACTIVE_CAPACITY
    /\ last_issued < LastIssue
    /\ last_issued' = last_issued + 1
    /\ active' = active \cup {[issue |-> last_issued + 1, start |-> range.start, end |-> range.end]}
    /\ UNCHANGED <<admission, ordinary, unknown, vdl, file_size, unproved, past>>

(* No context, or no room in the active set: the whole range fails at once,
   numbered, with no node to spend. *)
ClaimRejected(range) ==
    LET issue == last_issued + 1
        l == record_failure(Ledger,
                 Interval(range.start, range.end, issue, "INSUFFICIENT_RESOURCES"), vdl, 0, FALSE)
    IN  /\ admission = "Open"
        /\ last_issued < LastIssue
        /\ last_issued' = issue
        /\ Store(l)
        /\ unproved' = Fails(unproved, issue, In(range))
        /\ Spends(l, 0)
        /\ UNCHANGED <<active, admission, vdl, file_size>>

(* The issue counter is exhausted: admission closes for good, and the write
   fails without leaving evidence.  A later one fails alike and changes nothing. *)
MountFatal(range) ==
    /\ admission = "Open" /\ last_issued = LastIssue
    /\ admission' = "IssuesExhausted"
    /\ unproved' = Fails(unproved, Unnumbered, In(range))
    /\ UNCHANGED <<last_issued, active, ordinary, unknown, vdl, file_size, past>>

(* A write completes: its proven prefix [start, upTo) is credited, the
   unproven suffix is recorded as an I/O error; both share the budget. *)
Complete(w, upTo, budget, granted) ==
    LET proven == [start |-> w.start, end |-> upTo]
        suffix == Interval(upTo, w.end, w.issue, "IO_DEVICE_ERROR")
        l1 == IF upTo > w.start
                THEN subtract_proven(Ledger, proven, vdl, budget, granted) ELSE Ledger
        rest == after_spending(budget, Len(ordinary), Len(l1.ordinary))
        l2 == IF upTo < w.end THEN record_failure(l1, suffix, vdl, rest, granted) ELSE l1
    IN  /\ w \in active
        /\ active' = active \ {w}
        /\ Store(l2)
        /\ unproved' = Fails(Commits(unproved, In(proven)), w.issue, In(suffix))
        /\ Spends(l2, budget)
        /\ UNCHANGED <<last_issued, admission, vdl, file_size>>

(* A write fails: its whole range is recorded. *)
Terminalize(w, budget, granted) ==
    LET l == record_failure(Ledger, Interval(w.start, w.end, w.issue, "FAILED"),
                            vdl, budget, granted)
    IN  /\ w \in active
        /\ active' = active \ {w}
        /\ Store(l)
        /\ unproved' = Fails(unproved, w.issue, In(w))
        /\ Spends(l, budget)
        /\ UNCHANGED <<last_issued, admission, vdl, file_size>>

Covered(u, low) == [b \in Bytes |-> IF b < low THEN {} ELSE u[b]]

(* A verified returned snapshot: whatever VDL it carries, not below the
   baseline, trims the evidence and becomes the baseline.  Nothing here asks the
   barrier, nor whether admission is open. *)
ApplyVerifiedVdl(low, size) ==
    /\ vdl <= low /\ low <= size
    /\ size >= file_size        \* a reduction goes through the truncate sequence
    /\ Store(apply_vdl(Ledger, low))
    /\ vdl' = low /\ file_size' = size
    /\ unproved' = Covered(unproved, low)
    /\ UNCHANGED <<last_issued, active, admission, past>>

(* A truncate commit clamps the VDL to the reduced size and resets the baseline. *)
TruncateReset(size) ==
    LET low == MinOf(vdl, size)
    IN  /\ size < file_size
        /\ file_size' = size
        /\ vdl' = low
        /\ Store(apply_vdl(Ledger, low))
        /\ unproved' = Covered(unproved, low)
        /\ UNCHANGED <<last_issued, active, admission, past>>

Init ==
    /\ last_issued = 0 /\ active = {} /\ admission = "Open"
    /\ ordinary = <<>> /\ unknown = NoSpan
    /\ vdl = 0 /\ file_size = MAX_FILE_SIZE
    /\ unproved = [b \in Bytes |-> {}]
    /\ past = {}

\* A refused reservation has the same effect whatever was preclaimed.
Offers == (0 .. PRECLAIM_NODES) \X {TRUE} \cup {<<PRECLAIM_NODES, FALSE>>}

Terminal ==
    \E w \in active, offer \in Offers :
        \/ \E upTo \in w.start .. w.end : Complete(w, upTo, offer[1], offer[2])
        \/ Terminalize(w, offer[1], offer[2])

Next ==
    \/ \E r \in Requests : Admit(r) \/ ClaimRejected(r)
    \/ \E r \in Requests : MountFatal(r)
    \/ Terminal
    \/ \E size \in Sizes :
        \/ \E low \in Sizes \cup {vdl} : ApplyVerifiedVdl(low, size)
        \/ TruncateReset(size)

Spec == Init /\ [][Next]_vars

(* ---- properties ---- *)

Numbered(b) == unproved[b] \ {Unnumbered}

\* Nothing is ever dropped: every byte above the VDL that some issue failed to
\* write, and no later commit proved, is covered by evidence whose issue is no
\* newer than the oldest such failure, whatever merged, split, fused or was
\* trimmed in between (record_failure, subtract_proven, merge_to_unknown).
EvidenceCovers ==
    \A b \in Bytes : Numbered(b) # {} =>
        \E i \in Evidence : b \in In(i) /\ \A n \in Numbered(b) : i.issue <= n

\* Evidence is not invented either: until something is merged to UNKNOWN,
\* an ordinary interval contains only bytes that are unproved, the intervals
\* are in order, and no two of them touch (insert_fusing,
\* project_subtraction).
OrdinaryIsExact ==
    /\ \A k \in 1 .. Len(ordinary) - 1 : ordinary[k].end < ordinary[k + 1].start
    /\ Len(ordinary) <= MAX_INTERVALS
    /\ "merged" \notin past => \A i \in Evidence : \A b \in In(i) : Numbered(b) # {}

\* A terminal update never takes more overflow nodes than it preclaimed before
\* it entered the lock, though it may subtract and record in one go
\* (NodeBudget::after_spending).
BudgetRespected == "overspent" \notin past

\* The barrier's answer can be acted on, for every VDL a snapshot may carry and
\* every target: Clear means that every byte between them is proved, also the
\* bytes of writes that failed unnumbered when the issues ran out, and a
\* blocking interval is no newer than any failure it stands for
\* (advance_only_barrier, mount_fatal).
BarrierSound ==
    \A from \in vdl .. file_size : \A end_of_file \in from .. file_size + 1 :
        LET target == target_vdl(end_of_file, file_size)
            answer == advance_only_barrier(from, target)
            failed == UNION {unproved[b] : b \in from .. target - 1}
        IN  answer # Exhausted =>
                /\ answer = NoSpan => failed = {}
                /\ answer # NoSpan => \A n \in failed : answer.issue <= n

\* A step: the terminal prefix never moves back although writes complete in any order
\* and fail without ever becoming active (terminal_prefix, claim_rejected).
PrefixMonotone == terminal_prefix(active, last_issued) <= terminal_prefix(active', last_issued')

=============================================================================
