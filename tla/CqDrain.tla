------------------------------ MODULE CqDrain ------------------------------
(***************************************************************************)
(* The completion ring of one session ring and everything that touches it: *)
(* the daemon's SpscProducer (fsring-abi/src/ring.rs), the DRAIN form of   *)
(* ENTER (fsring-fsd/src/session.rs driving the plan of                    *)
(* fsring-core/src/adapter/enter.rs), the notification credits of          *)
(* fsring-core/src/grant.rs, and the fence that closes the session.        *)
(*                                                                         *)
(* A NOTIFY record carries a credit token <<credit, generation>>.  A drain *)
(* claims the credit, advances the head, refreshes the credit to the next  *)
(* generation and returns the new token to the daemon.                     *)
(***************************************************************************)
EXTENDS Integers, Sequences

CONSTANTS Threads,        \* daemon threads that issue ENTER(DRAIN_CQ)
          Credits,        \* the notification credits of the ring
          OtherKinds,     \* what else a daemon pushes: "completion", "abort"
          Capacity,       \* cells of the ring
          MaxBudget,      \* largest cq_budget of a request
          MaxSlots,       \* largest number of descriptors an output can hold
          MaxGeneration,  \* the generation no credit can pass
          MaxCursor       \* u64::MAX

ASSUME CapacityAssumption == Capacity \in Nat /\ Capacity >= 2
ASSUME BoundAssumption == /\ MaxBudget \in Nat \ {0} /\ MaxSlots \in Nat
                          /\ MaxGeneration \in Nat \ {0} /\ MaxCursor \in Nat
ASSUME RecordAssumption == /\ OtherKinds \subseteq {"completion", "abort"}
                           /\ Credits \cap {"completion", "abort", "zeroed", "unread"} = {}
ASSUME ThreadAssumption == Threads \cap {"nobody", "fence"} = {}

VARIABLES
    tail, head, seq, body,       \* the shared completion ring
    validatedHead, dpc, pushing, \* the daemon's producer: floor, control, body
    held,                        \* credit tokens in the daemon's hands
    grants,                      \* the grant table: credit -> [gen, state]
    cqOwner,                     \* RingEnterState.cq_owner
    ringSpin, grantSpin,         \* the two spin locks
    epc, result,                 \* per thread: control, the answer of ENTER
    budget, slots, out,          \* the drain in progress: request, new credits
    obsSeq, obsBody,             \* the drain in progress: the copied record
    published, rundown, mapped,  \* admission, access rundown, producer mapping
    fpc,                         \* the fence
    reserved, consumed,          \* history: records pushed, records drained
    lost, readyTo                \* history: credits not returned; the records
                                 \* that were ready when the drain began
ringVars   == <<tail, head, seq, body>>
daemonVars == <<validatedHead, dpc, pushing>>
lockVars   == <<cqOwner, ringSpin, grantSpin>>
drainVars  == <<budget, slots, out, obsSeq, obsBody, readyTo>>
fenceVars  == <<published, rundown, mapped, fpc>>
vars == <<ringVars, daemonVars, held, grants, lockVars, epc, result, drainVars,
          fenceVars, reserved, consumed, lost>>

Cells     == 0 .. Capacity - 1
Cell(pos) == pos % Capacity
Tokens    == Credits \X (1 .. MaxGeneration)
OtherRecords == OtherKinds \X {0}
Records   == Tokens \cup OtherRecords
Zeroed    == <<"zeroed", 0>>    \* the body of a cell never written: kind 0
Unread    == <<"unread", 0>>
NotLoaded == -1
Nobody    == "nobody"

NoAnswer == [status |-> "SUCCESS", flag |-> "None", last |-> "Empty"]

Init == /\ tail = 0 /\ head = 0
        /\ seq = [c \in Cells |-> 0] /\ body = [c \in Cells |-> Zeroed]
        /\ validatedHead = 0 /\ dpc = "idle" /\ pushing = Zeroed
        /\ grants = [c \in Credits |-> [gen |-> 1, state |-> "Issued"]]
        /\ held = {<<c, 1>> : c \in Credits}
        /\ cqOwner = Nobody /\ ringSpin = Nobody /\ grantSpin = Nobody
        /\ epc = [t \in Threads |-> "idle"]
        /\ result = [t \in Threads |-> NoAnswer]
        /\ budget = 0 /\ slots = 0 /\ out = <<>> /\ readyTo = 0
        /\ obsSeq = NotLoaded /\ obsBody = Unread
        /\ published = TRUE /\ rundown = "open" /\ mapped = TRUE /\ fpc = "open"
        /\ reserved = <<>> /\ consumed = <<>> /\ lost = {}

-----------------------------------------------------------------------------
(* The daemon's producer.                                                  *)

\* Mutant: a full ring is taken for one with room.
RoomForOneMore ==
    IF head < validatedHead THEN "Regressed"
    ELSE IF head > tail THEN "AheadOfProducer"
    ELSE IF tail = MaxCursor THEN "Exhausted"
    ELSE IF tail - head > Capacity THEN "Full" ELSE "Ok"

\* What try_push makes of the head it loads.
PushVerdict ==
    IF head < validatedHead THEN "Regressed"
    ELSE IF head > tail THEN "AheadOfProducer"
    ELSE IF tail = MaxCursor THEN "Exhausted"
    ELSE IF tail - head = Capacity THEN "Full"
    ELSE IF tail - head > Capacity THEN "OverCapacity" ELSE "Ok"

\* Load head and compare.  A token pushed leaves the daemon's hands; a caller
\* handed a fault stops using the ring.
PushLoadHead(r) ==
    /\ dpc = "idle"
    /\ validatedHead' = IF PushVerdict \in {"Regressed", "AheadOfProducer"}
                        THEN validatedHead ELSE head
    /\ IF PushVerdict = "Ok"
       THEN dpc' = "storeTail" /\ pushing' = r /\ held' = held \ {r}
       ELSE /\ dpc' = IF PushVerdict = "Full" THEN "idle" ELSE PushVerdict
            /\ UNCHANGED <<pushing, held>>
    /\ UNCHANGED <<tail, seq, body, reserved>>

\* The tail is stored before the body: it reserves and publishes nothing.
PushStoreTail == /\ dpc = "storeTail"
                 /\ tail' = tail + 1
                 /\ reserved' = Append(reserved, pushing)
                 /\ dpc' = "writeBody"
                 /\ UNCHANGED <<seq, body, validatedHead, pushing, held>>

PushWriteBody == /\ dpc = "writeBody"
                 /\ body' = [body EXCEPT ![Cell(tail - 1)] = pushing]
                 /\ dpc' = "publish"
                 /\ UNCHANGED <<tail, seq, validatedHead, pushing, held, reserved>>

PushPublish == /\ dpc = "publish"
               /\ seq' = [seq EXCEPT ![Cell(tail - 1)] = tail]
               /\ dpc' = "idle" /\ pushing' = Zeroed
               /\ UNCHANGED <<tail, body, validatedHead, held, reserved>>

\* The daemon reaches the ring through the producer mapping only.
Daemon == /\ mapped
          /\ \/ \E r \in held \cup OtherRecords : PushLoadHead(r)
             \/ PushStoreTail \/ PushWriteBody \/ PushPublish
          /\ UNCHANGED <<head, grants, lockVars, epc, result, drainVars, fenceVars,
                         consumed, lost>>

-----------------------------------------------------------------------------
(* ENTER(DRAIN_CQ).  From LockRing to Unlock a thread holds ringSpin, so   *)
(* the drain variables have one owner.                                     *)

Goto(t, where) == epc' = [epc EXCEPT ![t] = where]

Answer(t, status, flag, last) ==
    result' = [result EXCEPT ![t] = [status |-> status, flag |-> flag, last |-> last]]

\* The locator resolves and the access rundown is acquired.
EnterResolve(t) == /\ epc[t] = "idle" /\ rundown = "open"
                   /\ Goto(t, "resolved")
                   /\ result' = [result EXCEPT ![t] = NoAnswer]
                   /\ UNCHANGED cqOwner

EnterCheckPublished(t) ==
    /\ epc[t] = "resolved"
    /\ IF published
       THEN Goto(t, "acquireRole") /\ UNCHANGED result
       ELSE Goto(t, "idle") /\ Answer(t, "INVALID_DEVICE_STATE", "None", "Empty")
    /\ UNCHANGED cqOwner

\* acquire_role under a brief ring lock; a busy role ends the call.
AcquireRole(t) ==
    /\ epc[t] = "acquireRole" /\ ringSpin = Nobody
    /\ IF cqOwner = Nobody
       THEN cqOwner' = t /\ Goto(t, "lockRing") /\ UNCHANGED result
       ELSE /\ Goto(t, "idle") /\ Answer(t, "INSUFFICIENT_RESOURCES", "None", "Empty")
            /\ UNCHANGED cqOwner

\* The steps before the drain takes its locks.
Admit(t) == /\ EnterResolve(t) \/ EnterCheckPublished(t) \/ AcquireRole(t)
            /\ UNCHANGED <<head, grants, ringSpin, grantSpin, drainVars, held,
                           consumed, lost>>

\* One past the last record of the published prefix.
ReadyPrefix == LET run == {i \in head .. tail :
                             \A j \in head .. i - 1 : seq[Cell(j)] = j + 1}
               IN CHOOSE i \in run : \A j \in run : j <= i

\* The first preflight takes RingSpin, then GrantSpin, for the whole drain.
LockRing(t) ==
    /\ epc[t] = "lockRing" /\ ringSpin = Nobody
    /\ ringSpin' = t
    /\ \E b \in 1 .. MaxBudget, s \in 0 .. MaxSlots : budget' = b /\ slots' = s
    /\ readyTo' = ReadyPrefix
    /\ Goto(t, "lockGrant")
    /\ UNCHANGED <<head, grants, cqOwner, grantSpin, result, out, obsSeq, obsBody,
                   held, consumed, lost>>

LockGrant(t) ==
    /\ epc[t] = "lockGrant" /\ grantSpin = Nobody
    /\ grantSpin' = t
    /\ Goto(t, "observe")
    /\ UNCHANGED <<head, grants, cqOwner, ringSpin, result, drainVars, held,
                   consumed, lost>>

\* observe_cq loads both cursors; an empty ring ends the drain.
ObserveCursors(t) ==
    /\ epc[t] = "observe"
    /\ IF tail = head
       THEN Goto(t, "output") /\ result' = [result EXCEPT ![t].last = "Empty"]
       ELSE Goto(t, "read") /\ UNCHANGED result
    /\ UNCHANGED <<obsSeq, obsBody, out, head, grants, consumed>>

\* The two halves of the record that read_cqe copies.  It is one plain read of
\* memory the daemon may be writing, so either half may be copied first.
ReadSequence(t) ==
    /\ epc[t] = "read" /\ obsSeq = NotLoaded
    /\ obsSeq' = seq[Cell(head)]
    /\ Goto(t, IF obsBody = Unread THEN "read" ELSE "classify")
    /\ UNCHANGED <<result, obsBody, out, head, grants, consumed>>

ReadBody(t) ==
    /\ epc[t] = "read" /\ obsBody = Unread
    /\ obsBody' = body[Cell(head)]
    /\ Goto(t, IF obsSeq = NotLoaded THEN "read" ELSE "classify")
    /\ UNCHANGED <<result, obsSeq, out, head, grants, consumed>>

SequenceStable == obsSeq = head + 1

\* preflight_notify: the token must be the credit's current one.
PreflightNotify(token) ==
    LET entry == grants[token[1]]
    IN IF entry.state # "Issued" \/ entry.gen # token[2] THEN "ProtocolFault"
       ELSE IF token[2] = MaxGeneration THEN "GenerationExhausted" ELSE "Notify"

\* classify_cq, with the room left in the output and in the budget.
Classified ==
    IF ~SequenceStable THEN "Contended"
    ELSE IF obsBody[1] = "completion" THEN "CompletionFault"
    ELSE IF obsBody[1] = "abort" THEN "ProtocolAbort"
    ELSE IF obsBody = Zeroed THEN "ProtocolFault"
    ELSE IF Len(out) >= slots \/ Len(out) >= budget THEN "NotifyBlocked"
    ELSE PreflightNotify(obsBody)

Faults == {"ProtocolFault", "ProtocolAbort", "CompletionFault"}

\* classify_phase: a NOTIFY goes on to its claim, anything else to the output.
Classify(t) ==
    /\ epc[t] = "classify"
    /\ IF Classified = "Notify"
       THEN Goto(t, "claim") /\ UNCHANGED <<obsBody, result>>
       ELSE /\ Goto(t, "output") /\ obsBody' = Unread
            /\ Answer(t, IF Classified \in Faults THEN "INVALID_DEVICE_STATE"
                         ELSE "SUCCESS",
                      IF Classified \in {"NotifyBlocked", "Contended"}
                      THEN Classified ELSE "None",
                      Classified)
    /\ obsSeq' = NotLoaded
    /\ UNCHANGED <<out, head, grants, consumed>>

\* claim_notify: the preflighted entry becomes Claimed.  Both locks are held
\* since the preflight, so the checks it repeats cannot come out differently.
ClaimCredit(t) ==
    /\ epc[t] = "claim"
    /\ grants' = [grants EXCEPT ![obsBody[1]].state = "Claimed"]
    /\ Goto(t, "advance")
    /\ UNCHANGED <<result, obsSeq, obsBody, out, head, consumed>>

\* The Release store of the head commits the record.
AdvanceCqHead(t) ==
    /\ epc[t] = "advance"
    /\ head' = head + 1
    /\ consumed' = Append(consumed, obsBody)
    /\ Goto(t, "refresh")
    /\ UNCHANGED <<result, obsSeq, obsBody, out, grants>>

\* Mutant: the entry is reissued under its old generation.
EntryKeepsGeneration(c, next) == [grants EXCEPT ![c].state = "Issued"]

\* Mutant: the refreshed entry stays claimed.
EntryKeepsClaim(c, next) == [grants EXCEPT ![c].gen = next]

\* The entry takes the next generation whatever it holds.
Refreshed(c, next) == [grants EXCEPT ![c] = [gen |-> next, state |-> "Issued"]]

NextToken(token) == <<token[1], token[2] + 1>>

\* The credit is issued again, one generation on, into the output; the drain
\* goes round while budget remains.
RefreshCredit(t) ==
    LET next == NextToken(obsBody)
    IN /\ epc[t] = "refresh"
       /\ grants' = Refreshed(obsBody[1], next[2])
       /\ out' = Append(out, next)
       /\ obsBody' = Unread
       /\ Goto(t, IF Len(out) + 1 < budget THEN "observe" ELSE "output")
       /\ result' = [result EXCEPT ![t].last = "Notify"]
       /\ UNCHANGED <<obsSeq, head, consumed>>

\* The loop under both locks.
Drain(t) == /\ \/ ObserveCursors(t) \/ ReadSequence(t) \/ ReadBody(t)
               \/ Classify(t) \/ ClaimCredit(t) \/ AdvanceCqHead(t)
               \/ RefreshCredit(t)
            /\ UNCHANGED <<lockVars, budget, slots, readyTo, held, lost>>

\* The output is written and the role released, still under the locks.
ReleaseRole(t) ==
    /\ epc[t] = "output"
    /\ cqOwner' = Nobody
    /\ Goto(t, "unlock")
    /\ UNCHANGED <<head, grants, ringSpin, grantSpin, result, drainVars, held,
                   consumed, lost>>

Returned == {out[i] : i \in DOMAIN out}

\* Mutant: the grant lock is not dropped.
GrantSpinKept(t) ==
    /\ epc[t] = "unlock"
    /\ ringSpin' = Nobody /\ UNCHANGED grantSpin
    /\ held' = held \cup Returned /\ UNCHANGED lost
    /\ budget' = 0 /\ slots' = 0 /\ out' = <<>> /\ readyTo' = 0
    /\ Goto(t, "idle")
    /\ UNCHANGED <<head, grants, cqOwner, result, obsSeq, obsBody, consumed>>

\* The guards drop and the call returns.  The daemon reads the credits of a
\* success; an error status goes with Information = 0 and returns none.
Unlock(t) ==
    /\ epc[t] = "unlock"
    /\ ringSpin' = Nobody /\ grantSpin' = Nobody
    /\ IF result[t].status = "SUCCESS"
       THEN held' = held \cup Returned /\ UNCHANGED lost
       ELSE lost' = lost \cup Returned /\ UNCHANGED held
    /\ budget' = 0 /\ slots' = 0 /\ out' = <<>> /\ readyTo' = 0
    /\ Goto(t, "idle")
    /\ UNCHANGED <<head, grants, cqOwner, result, obsSeq, obsBody, consumed>>

\* ENTER writes nothing the producer owns.
Enter(t) == /\ \/ Admit(t) \/ LockRing(t) \/ LockGrant(t) \/ Drain(t)
               \/ ReleaseRole(t) \/ Unlock(t)
            /\ UNCHANGED <<tail, seq, body, daemonVars, fenceVars, reserved>>

-----------------------------------------------------------------------------
(* The fence, row by row.                                                  *)

\* close_generation_admission.
FenceClose == /\ fpc = "open"
              /\ published' = FALSE
              /\ fpc' = "closed"
              /\ UNCHANGED <<rundown, mapped, cqOwner, grants>>

\* The access rundown refuses from here on, and waits for those inside.
FenceBeginWait == /\ fpc = "closed"
                  /\ rundown' = "waiting"
                  /\ fpc' = "waiting"
                  /\ UNCHANGED <<published, mapped, cqOwner, grants>>

\* Mutant: the fence does not wait for the threads inside.
RundownNotAwaited == /\ fpc = "waiting"
                     /\ rundown' = "complete"
                     /\ fpc' = "waited"
                     /\ UNCHANGED <<published, mapped, cqOwner, grants>>

FenceEndWait == /\ fpc = "waiting"
                /\ \A t \in Threads : epc[t] = "idle"
                /\ rundown' = "complete"
                /\ fpc' = "waited"
                /\ UNCHANGED <<published, mapped, cqOwner, grants>>

\* unmap_producer_aliases: the daemon's writes end here.
FenceUnmap == /\ fpc = "waited"
              /\ mapped' = FALSE
              /\ fpc' = "unmapped"
              /\ UNCHANGED <<published, rundown, cqOwner, grants>>

\* acquire_consumers_increasing: a busy role refuses the fence.
FenceAcquireConsumer ==
    /\ fpc = "unmapped" /\ ringSpin = Nobody
    /\ IF cqOwner = Nobody
       THEN cqOwner' = "fence" /\ fpc' = "acquired"
       ELSE fpc' = "refused" /\ UNCHANGED cqOwner
    /\ UNCHANGED <<published, rundown, mapped, grants>>

\* drain_stable_prefixes_bounded looks at the SQ roles and moves no cursor.
FenceDrain == /\ fpc = "acquired"
              /\ fpc' = "drained"
              /\ UNCHANGED <<published, rundown, mapped, cqOwner, grants>>

\* retire_grants, under GrantSpin.
FenceRetire ==
    /\ fpc = "drained" /\ grantSpin = Nobody
    /\ grants' = [c \in Credits |-> [grants[c] EXCEPT !.state = "Retired"]]
    /\ fpc' = "retired"
    /\ UNCHANGED <<published, rundown, mapped, cqOwner>>

FenceRelease == /\ fpc = "retired" /\ ringSpin = Nobody
                /\ cqOwner' = Nobody
                /\ fpc' = "done"
                /\ UNCHANGED <<published, rundown, mapped, grants>>

FenceStep == /\ \/ FenceBeginWait \/ FenceEndWait \/ FenceUnmap
                \/ FenceAcquireConsumer \/ FenceDrain \/ FenceRetire \/ FenceRelease
             /\ UNCHANGED <<ringVars, daemonVars, held, ringSpin, grantSpin, epc,
                            result, drainVars, reserved, consumed, lost>>

FenceBegin == /\ FenceClose
              /\ UNCHANGED <<ringVars, daemonVars, held, ringSpin, grantSpin, epc,
                             result, drainVars, reserved, consumed, lost>>

Next == \/ Daemon
        \/ \E t \in Threads : Enter(t)
        \/ FenceBegin \/ FenceStep

Spec == Init /\ [][Next]_vars

\* A thread inside the driver and a fence under way keep running.
FairSpec == /\ Spec
            /\ \A t \in Threads : WF_vars(epc[t] # "idle" /\ Enter(t))
            /\ WF_vars(FenceStep)
-----------------------------------------------------------------------------
(* Properties.                                                             *)

Faulted == {"Regressed", "AheadOfProducer", "Exhausted", "OverCapacity"}

EnterPcs == {"idle", "resolved", "acquireRole", "lockRing", "lockGrant", "observe",
             "read", "classify", "claim", "advance", "refresh", "output", "unlock"}

\* The types of the ring and its producer.
TypeRing ==
    /\ tail \in 0 .. MaxCursor /\ head \in 0 .. MaxCursor
    /\ validatedHead \in 0 .. MaxCursor
    /\ seq \in [Cells -> 0 .. MaxCursor]
    /\ body \in [Cells -> Records \cup {Zeroed}]
    /\ dpc \in {"idle", "storeTail", "writeBody", "publish"} \cup Faulted
    /\ pushing \in Records \cup {Zeroed}
    /\ reserved \in Seq(Records) /\ consumed \in Seq(Records)

\* The types of the credits and of the drain; a drain returns no more credits
\* than its budget and its output have room for.
TypeDrain ==
    /\ held \subseteq Tokens /\ lost \subseteq Tokens
    /\ grants \in [Credits -> [gen : 1 .. MaxGeneration,
                               state : {"Issued", "Claimed", "Retired"}]]
    /\ budget \in 0 .. MaxBudget /\ slots \in 0 .. MaxSlots
    /\ out \in Seq(Tokens) /\ Len(out) <= budget /\ Len(out) <= slots
    /\ obsSeq \in 0 .. MaxCursor \cup {NotLoaded}
    /\ obsBody \in Records \cup {Zeroed, Unread}

\* The types of the locks, the threads and the fence.
TypeControl ==
    /\ cqOwner \in Threads \cup {Nobody, "fence"}
    /\ ringSpin \in Threads \cup {Nobody} /\ grantSpin \in Threads \cup {Nobody}
    /\ epc \in [Threads -> EnterPcs]
    /\ published \in BOOLEAN /\ mapped \in BOOLEAN
    /\ rundown \in {"open", "waiting", "complete"}
    /\ fpc \in {"open", "closed", "waiting", "waited", "unmapped", "acquired",
                "drained", "retired", "done", "refused"}

Outcomes == {"Empty", "Notify", "NotifyBlocked", "Contended", "GenerationExhausted"} \cup Faults

\* The types of what ENTER answers.
TypeAnswer ==
    result \in [Threads -> [status : {"SUCCESS", "INVALID_DEVICE_STATE", "INSUFFICIENT_RESOURCES"},
                            flag : {"None", "NotifyBlocked", "Contended"},
                            last : Outcomes]]

\* Every variable has the type of the field or local it stands for.
TypeOK == TypeRing /\ TypeDrain /\ TypeControl /\ TypeAnswer

\* Where a token can be.
InRing(token)  == \E i \in head + 1 .. tail : reserved[i] = token
InDrain(token) == obsBody = token /\ \E t \in Threads : epc[t] = "refresh"
Places == {"held", "pushing", "ring", "drain", "out", "lost"}
At(token, h) == \/ h = "held" /\ token \in held
                \/ h = "pushing" /\ dpc = "storeTail" /\ pushing = token
                \/ h = "ring" /\ InRing(token)
                \/ h = "drain" /\ InDrain(token)
                \/ h = "out" /\ token \in Returned
                \/ h = "lost" /\ token \in lost
Homes(token) == {h \in Places : At(token, h)}

\* Credits are conserved: whatever threads and fence are doing, the token of a
\* credit's current generation is in exactly one place and no other
\* generation of it is anywhere.
CreditConservation ==
    \A token \in Tokens :
        IF token[2] = grants[token[1]].gen THEN \E h \in Places : Homes(token) = {h}
                                           ELSE Homes(token) = {}

\* What an honest daemon can be accused of: a record copied whole is never a
\* protocol fault, so only a copy torn between the two halves is; an abort or
\* a completion that is reported is one the daemon pushed, never the residue
\* of an earlier lap; and no push is a cursor fault (read_cqe, classify_cq,
\* try_push).
AccusedOnlyTorn ==
    /\ \A t \in Threads : epc[t] = "classify" =>
         /\ Classified = "ProtocolFault" => obsBody # reserved[head + 1]
         /\ Classified \in {"CompletionFault", "ProtocolAbort"} => obsBody = reserved[head + 1]
    /\ dpc \notin {"Regressed", "AheadOfProducer", "OverCapacity"}

\* 02-transport: the body is copied after the Acquire load of the sequence, so
\* a daemon that pushes only tokens it was given is never accused.  The plain
\* read does not have that order.
NoFalseAccusation == \A t \in Threads : result[t].last # "ProtocolFault"

\* A token is spent once: no drain consumes the same generation of a credit
\* as an earlier one.
TokenSpentOnce ==
    \A i, j \in DOMAIN consumed : consumed[i] = consumed[j] => i = j

\* At most one thread is between acquiring and releasing the CQ role, it is
\* the recorded owner, and once the access rundown is complete no ENTER has
\* left the role behind for the fence to trip over.
RoleNotLeaked ==
    /\ \A t \in Threads : epc[t] \in {"lockRing", "lockGrant", "observe", "read",
                                      "classify", "claim", "advance", "refresh",
                                      "output"} <=> cqOwner = t
    /\ fpc # "refused"

\* The ring implements the bounded channel: the store of tail is the put and
\* the store of head is the take.
Fifo == INSTANCE BoundedFifo WITH
            Items <- Records,
            queue <- SubSeq(reserved, head + 1, tail),
            taken <- consumed
RefinesFifo == Fifo!Spec

\* Once the fence has waited for the access rundown no drain moves the head,
\* touches a grant or hands the daemon a credit; only the fence's own
\* retirement changes the table, and a retired credit stays retired.
FencedIsQuiet ==
    [][rundown = "complete" =>
         /\ head' = head /\ held' \subseteq held
         /\ \A c \in Credits : grants'[c] # grants[c] =>
              grants'[c].state = "Retired" /\ grants[c].state # "Retired"]_vars

\* A fence that has begun completes, whatever ENTERs were inside.
FenceCompletes == fpc = "closed" ~> fpc = "done"

\* 02-transport: CQ_REMAINING is set iff a validated ready record remains.
RemainingReported ==
    \A t \in Threads :
        epc[t] = "unlock" /\ result[t].status = "SUCCESS" /\ head < readyTo =>
            result[t].flag \in {"Remaining", "NotifyBlocked"}

\* 02-transport: with every consumer token in hand the fence walks the ring's
\* stable prefix, captures each record and releases the head past it.
FenceConsumesPrefix == fpc \in {"drained", "retired", "done"} => head = ReadyPrefix
-----------------------------------------------------------------------------
(* The inductive invariant behind the safety properties above.             *)

Holding  == {"lockGrant", "observe", "read", "classify", "claim", "advance",
             "refresh", "output", "unlock"}
Draining == Holding \ {"lockGrant"}
Owning   == (Holding \ {"unlock"}) \cup {"lockRing"}

\* The control of a thread says exactly which locks and roles it holds.
LockInv ==
    /\ \A t \in Threads : /\ epc[t] \in Holding <=> ringSpin = t
                          /\ epc[t] \in Draining <=> grantSpin = t
                          /\ epc[t] \in Owning <=> cqOwner = t
    /\ cqOwner = "fence" <=> fpc \in {"acquired", "drained", "retired"}

\* The fence passes the rundown only when no thread is inside.
FenceInv ==
    /\ rundown = "open" <=> fpc \in {"open", "closed"}
    /\ rundown = "waiting" <=> fpc = "waiting"
    /\ rundown = "complete" =>
         /\ \A t \in Threads : epc[t] = "idle"
         /\ fpc \in {"waited", "unmapped", "acquired", "drained", "retired", "done"}

\* The daemon between its store of the tail and its store of the sequence.
Writing == dpc \in {"writeBody", "publish"}
Ready   == IF Writing THEN tail - 1 ELSE tail

CursorInv ==
    /\ validatedHead <= head /\ head <= Ready /\ tail - head <= Capacity
    /\ dpc = "storeTail" => tail - head < Capacity /\ tail < MaxCursor
    /\ dpc \notin {"Regressed", "AheadOfProducer", "OverCapacity"}
    /\ Len(reserved) = tail /\ Len(consumed) = head
    /\ \A i \in 1 .. head : consumed[i] = reserved[i]

\* Published records carry their sequence and their body, no cell a later
\* sequence, and the record being written is the last one reserved.
CellInv ==
    /\ \A c \in Cells : seq[c] <= Ready
    /\ \A i \in head + 1 .. Ready : /\ seq[Cell(i - 1)] = i
                                   /\ body[Cell(i - 1)] = reserved[i]
    /\ dpc = "storeTail" => pushing \in Records
    /\ Writing => pushing = reserved[tail]
    /\ dpc = "publish" => body[Cell(tail - 1)] = pushing

\* What an earlier lap leaves in a cell: nothing, or a token since renewed.
Stale(r) == r = Zeroed \/ (r \in Tokens /\ r[2] < grants[r[1]].gen)

\* The record next to be drained, if it has been reserved.
Fresh(r) == head < tail /\ r = reserved[head + 1]

\* Where the thread that holds the ring lock stands.
DrainPc == IF ringSpin \in Threads THEN epc[ringSpin] ELSE "none"

\* A cell holds a record in the ring, the one just taken off it, or a stale one.
BodyInv ==
    \A c \in Cells :
        \/ Stale(body[c])
        \/ \E i \in head + 1 .. tail : Cell(i - 1) = c /\ body[c] = reserved[i]
        \/ DrainPc = "refresh" /\ body[c] = obsBody

\* What the drain in progress has read.
ReadInv ==
    /\ DrainPc \in {"read", "classify"} /\ obsBody # Unread =>
          Stale(obsBody) \/ Fresh(obsBody)
    /\ DrainPc = "classify" => obsBody # Unread
    /\ obsSeq = head + 1 => head < Ready
    /\ DrainPc \notin {"read", "classify"} => obsSeq = NotLoaded
    /\ DrainPc \in {"claim", "advance"} => head < Ready /\ Fresh(obsBody)
    /\ DrainPc = "refresh" => head > 0 /\ obsBody = reserved[head]
    /\ DrainPc \notin {"read", "classify", "claim", "advance", "refresh"} =>
          obsBody = Unread
    /\ DrainPc = "none" => out = << >>

\* The token a drain has decided to spend is current and can be renewed into
\* the output.
GrantInv ==
    /\ DrainPc \in {"claim", "advance", "refresh"} =>
          /\ obsBody \in Tokens
          /\ grants[obsBody[1]].gen = obsBody[2] /\ obsBody[2] < MaxGeneration
          /\ Len(out) < slots /\ Len(out) < budget
    /\ \A c \in Credits :
          /\ grants[c].state = "Claimed" =>
                DrainPc \in {"advance", "refresh"} /\ obsBody[1] = c
          /\ grants[c].state = "Retired" => fpc \in {"retired", "done"}

\* The current token of a credit has one home and no other token has any.
HomeInv ==
    \A token \in Tokens :
        /\ token[2] = grants[token[1]].gen <=> \E h \in Places : At(token, h)
        /\ \A h, k \in Places : At(token, h) /\ At(token, k) => h = k

\* A token is in the ring once; a consumed one is out of date once renewed.
SpentInv ==
    /\ \A i, j \in head + 1 .. tail :
          reserved[i] \in Tokens /\ reserved[i] = reserved[j] => i = j
    /\ \A i \in 1 .. head :
          /\ consumed[i] \in Tokens
          /\ \/ consumed[i][2] < grants[consumed[i][1]].gen
             \/ i = head /\ DrainPc = "refresh"
    /\ \A i, j \in 1 .. head : consumed[i] = consumed[j] => i = j

IndInv == /\ TypeOK /\ LockInv /\ FenceInv /\ CursorInv /\ CellInv /\ BodyInv
          /\ ReadInv /\ GrantInv /\ HomeInv /\ SpentInv
=============================================================================
