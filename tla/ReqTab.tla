------------------------------- MODULE ReqTab -------------------------------
(***************************************************************************)
(* The request table of one mounted volume (fsring-core/src/reqtab.rs).    *)
(* Every kernel request that travels over the rings owns a slot.  The slot *)
(* gives each wire phase of the request a fresh request identifier, which  *)
(* the daemon quotes in its answer, and it keeps the completion owner of   *)
(* the IRP until exactly one party takes it away to complete it.           *)
(*                                                                         *)
(* Application slots are linked into an intrusive free list; the control   *)
(* lanes (OPEN lifecycle, route and safe acknowledgements, external change *)
(* acknowledgement) have one fixed slot each.  The two kinds share their   *)
(* life cycle, so Available and Occupied are called Free and Live here.    *)
(*                                                                         *)
(* Keys are Copy in the code: whoever was admitted may present its key at  *)
(* any later time.  Capture tokens, captured candidates, terminal packages *)
(* and receipts are affine: `held' is the set of those in someone's hands. *)
(* Opcodes, CQ kinds and lane/phase compatibility only select error codes  *)
(* and are left out.                                                       *)
(***************************************************************************)
EXTENDS Integers, FiniteSets

CONSTANTS MaxInflight,    \* application slots (topology.max_inflight)
          LaneCount,      \* control slots
          MaxGeneration,  \* REQ_GENERATION_MAX
          MaxEpoch        \* bound on session epochs explored

ASSUME SlotAssumption == MaxInflight \in Nat \ {0} /\ LaneCount \in Nat
ASSUME IdentityAssumption == MaxGeneration \in Nat \ {0} /\ MaxEpoch \in Nat \ {0}

VARIABLES
    epoch,         \* session_epoch
    mode,          \* TableMode
    freeHead,      \* free_head, NoSlot for None
    retired,       \* application_retired
    needsQuiesce,  \* needs_quiesce
    slot,          \* application, _system and _global backing
    held,          \* affine values outside the table
    handedOut,     \* history: how often each request identifier was handed out
    issued,        \* history: keys returned by admission
    completed      \* history: keys whose owner was completed or released

table == <<epoch, mode, freeHead, retired, needsQuiesce, slot>>
history == <<handedOut, issued, completed>>
vars == <<epoch, mode, freeHead, retired, needsQuiesce, slot, held,
          handedOut, issued, completed>>

AppSlots == 0 .. (MaxInflight - 1)
Lanes == MaxInflight .. (MaxInflight + LaneCount - 1)
Slots == AppSlots \cup Lanes
NoSlot == -1

Epochs == 1 .. MaxEpoch
Generations == 0 .. MaxGeneration

\* A request is known by its slot and by the epoch and generation of its birth.
Births == (0 .. MaxEpoch) \X Generations
NoBirth == <<0, 0>>
Keys == Slots \X Births

WireStates == {"BetweenPhases", "PreparedNotVisible", "Visible", "Capturing",
               "Captured", "Quarantined", "GenerationExhausted"}

\* `generation' is that of the current, terminal or last request identifier;
\* `wireEpoch' is the epoch a terminal identifier belongs to; `cancel' is the
\* birth named by the key that recorded a cancel, NoBirth when none did.
SlotRecords ==
    [st : {"Free", "Retired", "Live", "Terminalizing"},
     wire : WireStates \cup {"None"}, birth : Births, generation : Generations,
     wireEpoch : 0 .. MaxEpoch, cancel : Births, next : AppSlots \cup {NoSlot}]

\* `answer' is the epoch and generation the daemon's record quoted.
Artifacts ==
    [kind : {"capture", "captured", "terminal", "receipt"}, slot : Slots,
     birth : Births, wireEpoch : Epochs, generation : Generations,
     answer : Births]

Vacant(st, g, next) ==
    [st |-> st, wire |-> "None", birth |-> NoBirth, generation |-> g,
     wireEpoch |-> 0, cancel |-> NoBirth, next |-> next]

LiveSlot(birth, g) ==
    [st |-> "Live", wire |-> "PreparedNotVisible", birth |-> birth,
     generation |-> g, wireEpoch |-> 0, cancel |-> NoBirth, next |-> NoSlot]

TerminalSlot(s) ==
    [st |-> "Terminalizing", wire |-> "None", birth |-> slot[s].birth,
     generation |-> slot[s].generation, wireEpoch |-> epoch,
     cancel |-> NoBirth, next |-> NoSlot]

Artifact(kind, s, answer) ==
    [kind |-> kind, slot |-> s, birth |-> slot[s].birth, wireEpoch |-> epoch,
     generation |-> slot[s].generation, answer |-> answer]

-----------------------------------------------------------------------------
(* The table is built with every application slot on the free list.        *)

Init ==
    /\ epoch = 1
    /\ mode = "Active"
    /\ freeHead = 0
    /\ retired = 0
    /\ needsQuiesce = FALSE
    /\ slot = [s \in Slots |->
                 Vacant("Free", 0,
                        IF s \in AppSlots /\ s + 1 \in AppSlots THEN s + 1
                                                                ELSE NoSlot)]
    /\ held = {}
    /\ handedOut = [id \in Slots \X Epochs \X Generations |-> 0]
    /\ issued = {}
    /\ completed = {}

HandOut(s, g) ==
    handedOut' = [handedOut EXCEPT ![<<s, epoch, g>>] = @ + 1]

SetWire(s, w) == slot' = [slot EXCEPT ![s].wire = w]

KeyValid(key) ==
    /\ slot[key[1]].st = "Live"
    /\ slot[key[1]].birth = key[2]

-----------------------------------------------------------------------------
(* Admission.                                                              *)

Occupy(s) ==
    LET g == slot[s].generation + 1 IN
    /\ slot' = [slot EXCEPT ![s] = LiveSlot(<<epoch, g>>, g)]
    /\ HandOut(s, g)
    /\ issued' = issued \cup {<<s, <<epoch, g>>>>}
    /\ UNCHANGED <<epoch, mode, retired, needsQuiesce, held, completed>>

Refuse(exhausted) ==
    /\ needsQuiesce' = (needsQuiesce \/ exhausted)
    /\ UNCHANGED <<epoch, mode, freeHead, retired, slot, held, history>>

\* An empty list is exhaustion only when every application slot is retired.
AdmitApplication ==
    /\ mode = "Active"
    /\ IF freeHead = NoSlot
       THEN Refuse(retired = MaxInflight)
       ELSE IF slot[freeHead].st # "Free"
       THEN Refuse(FALSE)
       ELSE IF slot[freeHead].generation >= MaxGeneration
       THEN Refuse(TRUE)
       ELSE Occupy(freeHead) /\ freeHead' = slot[freeHead].next

AdmitControl(s) ==
    /\ mode = "Active"
    /\ IF \/ slot[s].st = "Retired"
          \/ slot[s].st = "Live" /\ slot[s].wire = "GenerationExhausted"
          \/ slot[s].st = "Free" /\ slot[s].generation >= MaxGeneration
       THEN Refuse(TRUE)
       ELSE slot[s].st = "Free" /\ Occupy(s) /\ UNCHANGED freeHead

-----------------------------------------------------------------------------
(* Wire phases.                                                            *)

MarkVisible(key) ==
    /\ mode = "Active"
    /\ KeyValid(key)
    /\ slot[key[1]].wire = "PreparedNotVisible"
    /\ SetWire(key[1], "Visible")
    /\ UNCHANGED <<epoch, mode, freeHead, retired, needsQuiesce, held, history>>

\* The next phase of a retained request; the last generation is never passed.
BeginPhase(key) ==
    LET s == key[1]  g == slot[s].generation + 1 IN
    /\ mode = "Active"
    /\ KeyValid(key)
    /\ slot[s].wire = "BetweenPhases"
    /\ IF slot[s].generation >= MaxGeneration
       THEN /\ SetWire(s, "GenerationExhausted")
            /\ needsQuiesce' = TRUE
            /\ UNCHANGED handedOut
       ELSE /\ slot' = [slot EXCEPT ![s].wire = "PreparedNotVisible",
                                    ![s].generation = g]
            /\ HandOut(s, g)
            /\ UNCHANGED needsQuiesce
    /\ UNCHANGED <<epoch, mode, freeHead, retired, held, issued, completed>>

\* An answer is captured only for the visible identifier of this session.
BeginCapture(s, answer) ==
    /\ mode # "Draining"
    /\ answer[1] = epoch
    /\ answer[2] # 0
    /\ slot[s].st = "Live"
    /\ slot[s].generation = answer[2]
    /\ slot[s].wire = "Visible"
    /\ SetWire(s, "Capturing")
    /\ held' = held \cup {Artifact("capture", s, answer)}
    /\ UNCHANGED <<epoch, mode, freeHead, retired, needsQuiesce, history>>

\* The identity checks every token passes before it acts on its slot.
TokenMatches(t, w) ==
    /\ slot[t.slot].st = "Live"
    /\ slot[t.slot].birth = t.birth
    /\ t.wireEpoch = epoch
    /\ slot[t.slot].generation = t.generation
    /\ slot[t.slot].wire = w

InstallCandidate(t) ==
    /\ t.kind = "capture"
    /\ TokenMatches(t, "Capturing")
    /\ SetWire(t.slot, "Captured")
    /\ held' = (held \ {t}) \cup {[t EXCEPT !.kind = "captured"]}
    /\ UNCHANGED <<epoch, mode, freeHead, retired, needsQuiesce, history>>

-----------------------------------------------------------------------------
(* Dispositions of a captured candidate.                                   *)

FinishDisposition(t, w) ==
    /\ t.kind = "captured"
    /\ TokenMatches(t, "Captured")
    /\ SetWire(t.slot, w)
    /\ held' = held \ {t}
    /\ UNCHANGED <<epoch, mode, freeHead, retired, needsQuiesce, history>>

Retain(t) == mode # "Draining" /\ FinishDisposition(t, "BetweenPhases")

\* Mutant: quarantine is refused while draining, as its siblings are.
QuarantineRefused(t) ==
    mode # "Draining" /\ FinishDisposition(t, "Quarantined")

\* The one disposition a draining table still accepts.
Quarantine(t) == FinishDisposition(t, "Quarantined")

\* The owner leaves the table inside a terminal package.
Extract(s, rest) ==
    /\ slot' = [slot EXCEPT ![s] = TerminalSlot(s)]
    /\ held' = rest \cup {Artifact("terminal", s, NoBirth)}
    /\ UNCHANGED <<epoch, mode, freeHead, retired, needsQuiesce, history>>

Terminalize(t) ==
    /\ mode # "Draining"
    /\ t.kind = "captured"
    /\ TokenMatches(t, "Captured")
    /\ Extract(t.slot, held \ {t})

Withdraw(key) ==
    /\ KeyValid(key)
    /\ slot[key[1]].wire = "PreparedNotVisible"
    /\ Extract(key[1], held)

\* TerminalApplication::complete and TerminalControl::release.
Complete(t) ==
    /\ t.kind = "terminal"
    /\ held' = (held \ {t}) \cup {[t EXCEPT !.kind = "receipt"]}
    /\ completed' = completed \cup {<<t.slot, t.birth>>}
    /\ UNCHANGED <<table, handedOut, issued>>

ReceiptMatches(t) ==
    /\ t.kind = "receipt"
    /\ slot[t.slot].st = "Terminalizing"
    /\ slot[t.slot].birth = t.birth
    /\ slot[t.slot].wireEpoch = t.wireEpoch
    /\ slot[t.slot].generation = t.generation

\* Mutant: the epoch compared is that of the birth, not of the terminal id.
BirthEpochCompared(t) ==
    IF t.birth[1] = epoch THEN t.generation ELSE 0

\* A slot resumes after the last generation of this epoch, or at zero.
ResumeGeneration(t) ==
    IF t.wireEpoch = epoch THEN t.generation ELSE 0

RetireSlot(s, g) ==
    /\ slot' = [slot EXCEPT ![s] = Vacant("Retired", g, NoSlot)]
    /\ retired' = IF s \in AppSlots THEN retired + 1 ELSE retired
    /\ needsQuiesce' = TRUE
    /\ UNCHANGED freeHead

PushFree(s, g) ==
    /\ slot' = [slot EXCEPT ![s] =
                   Vacant("Free", g, IF s \in AppSlots THEN freeHead ELSE NoSlot)]
    /\ freeHead' = IF s \in AppSlots THEN s ELSE freeHead
    /\ UNCHANGED <<retired, needsQuiesce>>

Reclaim(t) ==
    /\ ReceiptMatches(t)
    /\ IF t.wireEpoch = epoch /\ t.generation = MaxGeneration
       THEN RetireSlot(t.slot, t.generation)
       ELSE PushFree(t.slot, ResumeGeneration(t))
    /\ held' = held \ {t}
    /\ UNCHANGED <<epoch, mode, history>>

-----------------------------------------------------------------------------
(* Cancellation.                                                           *)

\* Mutant: a key is compared by birth generation only.
CancelByGeneration(key) ==
    /\ slot[key[1]].st = "Live"
    /\ slot[key[1]].birth[2] = key[2][2]
    /\ slot' = [slot EXCEPT ![key[1]].cancel = key[2]]
    /\ UNCHANGED <<epoch, mode, freeHead, retired, needsQuiesce, held, history>>

RecordCancel(key) ==
    /\ KeyValid(key)
    /\ slot' = [slot EXCEPT ![key[1]].cancel = key[2]]
    /\ UNCHANGED <<epoch, mode, freeHead, retired, needsQuiesce, held, history>>

-----------------------------------------------------------------------------
(* Fence, rebind to the next session, drain.                               *)

BeginFence ==
    /\ mode = "Active"
    /\ mode' = "Fencing"
    /\ UNCHANGED <<epoch, freeHead, retired, needsQuiesce, slot, held, history>>

RetainAfterFence(key) ==
    /\ mode = "Fencing"
    /\ KeyValid(key)
    /\ slot[key[1]].wire = "Visible"
    /\ SetWire(key[1], "BetweenPhases")
    /\ UNCHANGED <<epoch, mode, freeHead, retired, needsQuiesce, held, history>>

\* Only a cancelled application request is given up; a control lane always is.
TerminalizeAfterFence(key) ==
    /\ mode = "Fencing"
    /\ KeyValid(key)
    /\ key[1] \in AppSlots => slot[key[1]].cancel # NoBirth
    /\ slot[key[1]].wire \in {"Visible", "BetweenPhases", "GenerationExhausted"}
    /\ Extract(key[1], held)

\* No phase may straddle two sessions, and no control lane survives one.
AllResolved ==
    /\ \A s \in AppSlots :
          slot[s].wire \notin
             {"Capturing", "PreparedNotVisible", "Visible", "Captured"}
    /\ \A s \in Lanes : slot[s].st # "Live"

Vacancies == {s \in AppSlots : slot[s].st \in {"Free", "Retired"}}

\* The free list is rebuilt from the highest vacant index down.
NextVacancy(s) ==
    IF \E u \in Vacancies : u > s
    THEN CHOOSE u \in Vacancies : u > s /\ \A v \in Vacancies : v > s => u <= v
    ELSE NoSlot

\* Mutant: whatever is not being completed is returned to the free list.
LiveSlotsFreed(s) ==
    IF slot[s].st # "Terminalizing"
    THEN Vacant("Free", 0, IF s \in AppSlots THEN NextVacancy(s) ELSE NoSlot)
    ELSE slot[s]

\* A retained request keeps its owner and its key but starts at generation 0.
Rebound(s) ==
    CASE slot[s].st \in {"Free", "Retired"} ->
           Vacant("Free", 0, IF s \in AppSlots THEN NextVacancy(s) ELSE NoSlot)
      [] slot[s].st = "Live" ->
           [slot[s] EXCEPT !.generation = 0,
                           !.wire = IF @ = "GenerationExhausted"
                                    THEN "BetweenPhases" ELSE @]
      [] OTHER -> slot[s]

RebindSession ==
    /\ mode = "Fencing"
    /\ epoch < MaxEpoch
    /\ AllResolved
    /\ epoch' = epoch + 1
    /\ mode' = "Active"
    /\ freeHead' = NextVacancy(NoSlot)
    /\ retired' = 0
    /\ needsQuiesce' = FALSE
    /\ slot' = [s \in Slots |-> Rebound(s)]
    /\ UNCHANGED <<held, history>>

BeginDrain ==
    /\ mode' = "Draining"
    /\ UNCHANGED <<epoch, freeHead, retired, needsQuiesce, slot, held, history>>

Drainable(s) ==
    slot[s].st = "Live" /\ slot[s].wire \notin {"Capturing", "Captured"}

DrainNext(group) ==
    /\ mode = "Draining"
    /\ \E s \in group :
          /\ Drainable(s)
          /\ \A u \in group : u < s => ~Drainable(u)
          /\ Extract(s, held)

DrainNextApplication == DrainNext(AppSlots)
DrainNextControl == DrainNext(Lanes)

-----------------------------------------------------------------------------
ByKey(key) ==
    \/ MarkVisible(key)
    \/ BeginPhase(key)
    \/ Withdraw(key)
    \/ TerminalizeAfterFence(key)
    \/ key[1] \in AppSlots /\ (RecordCancel(key) \/ RetainAfterFence(key))

ByToken(t) ==
    \/ InstallCandidate(t)
    \/ Retain(t)
    \/ Quarantine(t)
    \/ Terminalize(t)
    \/ Complete(t)
    \/ Reclaim(t)

Next ==
    \/ AdmitApplication
    \/ \E s \in Lanes : AdmitControl(s)
    \/ \E key \in issued : ByKey(key)
    \/ \E s \in Slots, answer \in Births : BeginCapture(s, answer)
    \/ \E t \in held : ByToken(t)
    \/ BeginFence
    \/ RebindSession
    \/ BeginDrain
    \/ DrainNextApplication
    \/ DrainNextControl

Spec == Init /\ [][Next]_vars

\* Whoever holds a token carries on with it: a capture is installed and
\* disposed of, a package completed and its receipt returned, by straight-line
\* code of one caller, and the drain loop calls until nothing is returned.
FairSpec ==
    /\ Spec
    /\ WF_vars(DrainNextApplication)
    /\ WF_vars(DrainNextControl)
    /\ WF_vars(\E t \in held : InstallCandidate(t))
    /\ WF_vars(\E t \in held : Quarantine(t))
    /\ WF_vars(\E t \in held : Complete(t))
    /\ WF_vars(\E t \in held : Reclaim(t))

-----------------------------------------------------------------------------
(* Properties.                                                             *)

TypeTable ==
    /\ epoch \in Epochs
    /\ mode \in {"Active", "Fencing", "Draining"}
    /\ freeHead \in AppSlots \cup {NoSlot}
    /\ retired \in Nat
    /\ needsQuiesce \in BOOLEAN
TypeSlot == slot \in [Slots -> SlotRecords]
TypeHeld == held \subseteq Artifacts
TypeHistory ==
    /\ handedOut \in [Slots \X Epochs \X Generations -> Nat]
    /\ issued \subseteq Keys
    /\ completed \subseteq Keys

\* Every variable keeps its type; no generation passes REQ_GENERATION_MAX.
TypeOK == TypeTable /\ TypeSlot /\ TypeHeld /\ TypeHistory

\* A request identifier is handed out at most once in a session epoch, over
\* all the requests and phases that pass through its slot: a late or repeated
\* answer can therefore never be taken for the answer to a later phase.
NoReqIdReuse == \A id \in DOMAIN handedOut : handedOut[id] <= 1

\* A candidate in someone's hands answers the very identifier its slot shows.
AnswerMatchesPhase ==
    \A t \in held : t.kind \in {"capture", "captured"} =>
        t.answer = <<epoch, slot[t.slot].generation>>

\* What a token expects to find in its slot.
Expected(t) ==
    IF t.kind \in {"terminal", "receipt"}
    THEN /\ slot[t.slot].st = "Terminalizing"
         /\ slot[t.slot].birth = t.birth
         /\ slot[t.slot].wireEpoch = t.wireEpoch
         /\ slot[t.slot].generation = t.generation
    ELSE TokenMatches(t, IF t.kind = "capture" THEN "Capturing" ELSE "Captured")

\* A slot waiting for somebody: being captured, captured, or terminalizing.
Awaiting(s) ==
    slot[s].st = "Terminalizing" \/ slot[s].wire \in {"Capturing", "Captured"}

\* Affine values and slots agree: each value in someone's hands is still the
\* one its slot waits for, whatever fence, rebind or drain happened since, and
\* each slot that waits has exactly one such value to wait for.
HoldersMatch ==
    /\ \A t \in held : Expected(t)
    /\ \A t, u \in held : t.slot = u.slot => t = u
    /\ \A s \in Slots : Awaiting(s) => \E t \in held : t.slot = s

LiveKeys == {<<s, slot[s].birth>> : s \in {u \in Slots : slot[u].st = "Live"}}
PackagedKeys ==
    {<<t.slot, t.birth>> : t \in {u \in held : u.kind = "terminal"}}

\* No completion owner is lost or used twice: each admitted request is in its
\* slot, or in a terminal package, or completed, and in only one of the three.
OwnerConserved ==
    /\ issued = LiveKeys \cup PackagedKeys \cup completed
    /\ LiveKeys \cap PackagedKeys = {}
    /\ LiveKeys \cap completed = {}
    /\ PackagedKeys \cap completed = {}

\* A key that outlived its request never cancels the slot's later occupant.
CancelHitsOwner ==
    \A s \in Slots : slot[s].cancel \in {NoBirth, slot[s].birth}

RetiredSlots == {s \in AppSlots : slot[s].st = "Retired"}
OutOfGenerations(s) ==
    slot[s].st = "Retired" \/ slot[s].wire = "GenerationExhausted"
RetiredCounted == retired = Cardinality(RetiredSlots)
LossAnnounced == (\E s \in Slots : OutOfGenerations(s)) => needsQuiesce

\* Lost capacity is always announced: while a slot is retired or a request is
\* out of generations, the session has been asked to quiesce, and the count
\* that tells "exhausted" from "full" is the number of retired slots.
ExhaustionAnnounced == RetiredCounted /\ LossAnnounced

\* The slot reached after n links from the head of the free list.
FreeChain[n \in 0 .. MaxInflight] ==
    IF n = 0 THEN freeHead
    ELSE IF FreeChain[n - 1] = NoSlot THEN NoSlot
    ELSE slot[FreeChain[n - 1]].next

\* The intrusive free list ends, and holds the free application slots, all of
\* them and nothing else, through every pop, push and rebuild.
FreeListExact ==
    /\ FreeChain[MaxInflight] = NoSlot
    /\ {FreeChain[n] : n \in 0 .. MaxInflight} \ {NoSlot} =
         {s \in AppSlots : slot[s].st = "Free"}

\* A drain ends with no request left in the table, though captures were in
\* progress when it began and their holders may no longer retain or complete.
DrainCompletes ==
    mode = "Draining" ~>
        \A s \in Slots : slot[s].st \in {"Free", "Retired"}
-----------------------------------------------------------------------------
(* The inductive invariant behind the safety properties above.             *)

WireInv == \A s \in Slots : slot[s].wire # "None" <=> slot[s].st = "Live"

\* The epoch of a terminal identifier is past or present.
EpochInv ==
    \A s \in Slots : slot[s].st = "Terminalizing" =>
        1 <= slot[s].wireEpoch /\ slot[s].wireEpoch <= epoch

\* The last generation slot s handed out in the current epoch.
LastGeneration(s) ==
    IF slot[s].st = "Terminalizing" /\ slot[s].wireEpoch # epoch
    THEN 0 ELSE slot[s].generation

\* Nothing beyond the last generation, or of a later epoch, was handed out.
HandedOutInv ==
    \A s \in Slots, e \in Epochs, g \in Generations :
        e > epoch \/ (e = epoch /\ g > LastGeneration(s)) =>
            handedOut[<<s, e, g>>] = 0

\* The birth of an issued key is an identifier that was handed out.
KeyInv ==
    \A key \in issued :
        key[2][1] \in Epochs /\ handedOut[<<key[1], key[2][1], key[2][2]>>] > 0

\* A token was made for the identifier its answer quoted.
AnswerInv ==
    \A t \in held : t.kind \in {"capture", "captured"} =>
        t.answer = <<t.wireEpoch, t.generation>>

IdentityInv == /\ WireInv /\ EpochInv /\ HandedOutInv /\ NoReqIdReuse /\ KeyInv
               /\ CancelHitsOwner /\ ExhaustionAnnounced

IndInv == TypeOK /\ IdentityInv /\ AnswerInv /\ HoldersMatch /\ OwnerConserved
=============================================================================
