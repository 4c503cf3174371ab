-------------------------- MODULE ReqTab_theorems --------------------------
(* The request table keeps its types; its identifiers and births name one  *)
(* phase of one request each; the affine values outside the table and the  *)
(* owners they carry agree with it.  The theorems hold for any number of   *)
(* slots, lanes, generations and epochs.                                   *)
EXTENDS ReqTab, TLAPS, WellFoundedInduction, FiniteSetTheorems

USE SlotAssumption, IdentityAssumption

\* A vacant slot record is well typed, and says what it was made from.
LEMMA VacantType ==
    ASSUME NEW st \in {"Free", "Retired"}, NEW g \in Generations,
           NEW next \in AppSlots \cup {NoSlot}
    PROVE  /\ Vacant(st, g, next) \in SlotRecords
           /\ Vacant(st, g, next).st = st
           /\ Vacant(st, g, next).wire = "None"
           /\ Vacant(st, g, next).birth = NoBirth
           /\ Vacant(st, g, next).cancel = NoBirth
           /\ Vacant(st, g, next).generation = g
BY DEF Vacant, SlotRecords, Births, NoBirth, Generations

\* The record of a newly admitted request.
LEMMA LiveType ==
    ASSUME NEW birth \in Births, NEW g \in Generations
    PROVE  /\ LiveSlot(birth, g) \in SlotRecords
           /\ LiveSlot(birth, g).st = "Live"
           /\ LiveSlot(birth, g).wire = "PreparedNotVisible"
           /\ LiveSlot(birth, g).birth = birth
           /\ LiveSlot(birth, g).cancel = NoBirth
           /\ LiveSlot(birth, g).generation = g
BY DEF LiveSlot, SlotRecords, Births, NoBirth, Generations, WireStates

\* The record left behind when the owner is taken out.
LEMMA TerminalType ==
    ASSUME TypeTable, TypeSlot, NEW s \in Slots
    PROVE  /\ TerminalSlot(s) \in SlotRecords
           /\ TerminalSlot(s).st = "Terminalizing"
           /\ TerminalSlot(s).wire = "None"
           /\ TerminalSlot(s).birth = slot[s].birth
           /\ TerminalSlot(s).cancel = NoBirth
           /\ TerminalSlot(s).generation = slot[s].generation
           /\ TerminalSlot(s).wireEpoch = epoch
<1>1. slot[s] \in SlotRecords
  BY DEF TypeSlot
<1>2. epoch \in 0 .. MaxEpoch
  BY DEF TypeTable, Epochs
<1> QED
  BY <1>1, <1>2 DEF TerminalSlot, SlotRecords, Births, NoBirth, Generations

\* Changing the wire state of one slot leaves the rest of every slot alone.
LEMMA SetWireType ==
    ASSUME TypeSlot, NEW s \in Slots, NEW w \in WireStates, SetWire(s, w)
    PROVE  /\ TypeSlot'
           /\ slot'[s].wire = w
           /\ \A u \in Slots \ {s} : slot'[u] = slot[u]
           /\ \A u \in Slots : /\ slot'[u].st = slot[u].st
                               /\ slot'[u].birth = slot[u].birth
                               /\ slot'[u].generation = slot[u].generation
                               /\ slot'[u].wireEpoch = slot[u].wireEpoch
                               /\ slot'[u].cancel = slot[u].cancel
<1>1. slot[s] \in SlotRecords
  BY DEF TypeSlot
<1>2. [slot[s] EXCEPT !.wire = w] \in SlotRecords
  BY <1>1 DEF SlotRecords
<1>3. slot' = [slot EXCEPT ![s] = [slot[s] EXCEPT !.wire = w]]
  BY DEF SetWire, TypeSlot
<1>4. TypeSlot'
  BY <1>2, <1>3 DEF TypeSlot
<1>5. slot'[s] = [slot[s] EXCEPT !.wire = w] /\ \A u \in Slots \ {s} : slot'[u] = slot[u]
  BY <1>3 DEF TypeSlot
<1> QED
  BY <1>1, <1>4, <1>5 DEF SlotRecords

\* An artifact made from a slot is well typed.
LEMMA ArtifactType ==
    ASSUME TypeTable, TypeSlot, NEW s \in Slots, NEW answer \in Births,
           NEW kind \in {"capture", "captured", "terminal", "receipt"}
    PROVE  /\ Artifact(kind, s, answer) \in Artifacts
           /\ Artifact(kind, s, answer).kind = kind
           /\ Artifact(kind, s, answer).slot = s
           /\ Artifact(kind, s, answer).birth = slot[s].birth
           /\ Artifact(kind, s, answer).wireEpoch = epoch
           /\ Artifact(kind, s, answer).generation = slot[s].generation
           /\ Artifact(kind, s, answer).answer = answer
<1>1. slot[s] \in SlotRecords
  BY DEF TypeSlot
<1> QED
  BY <1>1 DEF Artifact, Artifacts, SlotRecords, TypeTable

\* A token that passes on to its next kind keeps everything else.
LEMMA TokenType ==
    ASSUME NEW t \in Artifacts,
           NEW kind \in {"capture", "captured", "terminal", "receipt"}
    PROVE  /\ [t EXCEPT !.kind = kind] \in Artifacts
           /\ [t EXCEPT !.kind = kind].kind = kind
           /\ [t EXCEPT !.kind = kind].slot = t.slot
           /\ [t EXCEPT !.kind = kind].birth = t.birth
           /\ [t EXCEPT !.kind = kind].wireEpoch = t.wireEpoch
           /\ [t EXCEPT !.kind = kind].generation = t.generation
           /\ [t EXCEPT !.kind = kind].answer = t.answer
BY DEF Artifacts

LEMMA KeyType ==
    ASSUME NEW key \in Keys
    PROVE  key[1] \in Slots /\ key[2] \in Births /\ key = <<key[1], key[2]>>
BY DEF Keys

LEMMA NoBirthType == NoBirth \in Births
BY DEF NoBirth, Births, Generations

\* The next vacancy is an application slot, or there is none.
LEMMA NextVacancyType ==
    ASSUME NEW s \in Slots \cup {NoSlot}
    PROVE  NextVacancy(s) \in AppSlots \cup {NoSlot}
<1> DEFINE V == {u \in Vacancies : u > s}
<1>1. CASE V = {}
  BY <1>1 DEF NextVacancy
<1>2. CASE V # {}
  <2>1. V \subseteq Nat
    BY DEF Vacancies, AppSlots
  <2>2. PICK u \in V : \A v \in V : ~(<<v, u>> \in OpToRel(<, Nat))
    BY ONLY <1>2, <2>1, NatLessThanWellFounded, WFMin, Zenon
  <2>3. \A v \in V : ~(v < u)
    BY ONLY <2>1, <2>2, Zenon DEF OpToRel
  <2>4. u \in Vacancies /\ u > s /\ \A v \in Vacancies : v > s => u <= v
    BY <2>1, <2>3
  <2>5. NextVacancy(s) \in Vacancies
    BY <2>4 DEF NextVacancy
  <2> QED
    BY <2>5 DEF Vacancies
<1> QED
  BY <1>1, <1>2

-----------------------------------------------------------------------------
LEMMA InitType == Init => TypeOK
<1> SUFFICES ASSUME Init PROVE TypeOK
  OBVIOUS
<1> USE DEF Init
<1>1. TypeTable
  <2>1. epoch \in Epochs /\ freeHead \in AppSlots /\ retired \in Nat
    BY DEF Epochs, AppSlots
  <2>2. mode \in {"Active", "Fencing", "Draining"} /\ needsQuiesce \in BOOLEAN
    BY Zenon
  <2> QED
    BY <2>1, <2>2, Zenon DEF TypeTable
<1>2. TypeSlot
  <2>1. \A s \in Slots : (IF s \in AppSlots /\ s + 1 \in AppSlots THEN s + 1
                          ELSE NoSlot) \in AppSlots \cup {NoSlot}
    OBVIOUS
  <2>2. 0 \in Generations
    BY DEF Generations
  <2> QED
    BY <2>1, <2>2, VacantType DEF TypeSlot
<1>3. TypeHeld /\ TypeHistory
  BY DEF TypeHeld, TypeHistory
<1> QED
  BY <1>1, <1>2, <1>3 DEF TypeOK

\* Taking the owner out of a live slot.
LEMMA ExtractType ==
    ASSUME TypeOK, NEW s \in Slots, NEW rest \in SUBSET held, Extract(s, rest)
    PROVE  /\ TypeOK'
           /\ slot'[s] = TerminalSlot(s)
           /\ \A u \in Slots \ {s} : slot'[u] = slot[u]
<1> USE DEF TypeOK
<1>1. TypeTable' /\ TypeHistory'
  BY DEF Extract, TypeTable, TypeHistory, history
<1>2. TerminalSlot(s) \in SlotRecords
  BY TerminalType
<1>3. slot' = [slot EXCEPT ![s] = TerminalSlot(s)]
  BY DEF Extract
<1>4. Artifact("terminal", s, NoBirth) \in Artifacts
  BY ArtifactType, NoBirthType
<1>5. TypeHeld'
  BY <1>4 DEF Extract, TypeHeld
<1> QED
  BY <1>1, <1>2, <1>3, <1>5 DEF TypeSlot

\* Admission into slot s.
LEMMA OccupyType ==
    ASSUME TypeOK, NEW s \in Slots, slot[s].generation < MaxGeneration, Occupy(s)
    PROVE  LET g == slot[s].generation + 1 IN
           /\ g \in Generations /\ g > 0 /\ <<epoch, g>> \in Births
           /\ TypeSlot' /\ TypeHeld' /\ TypeHistory'
           /\ slot'[s] = LiveSlot(<<epoch, g>>, g)
           /\ \A u \in Slots \ {s} : slot'[u] = slot[u]
           /\ handedOut' = [handedOut EXCEPT ![<<s, epoch, g>>] = @ + 1]
<1> USE DEF TypeOK
<1> DEFINE g == slot[s].generation + 1
<1>1. slot[s].generation \in Generations
  BY DEF TypeSlot, SlotRecords
<1>2. g \in Generations /\ g > 0
  BY <1>1 DEF Generations
<1>3. <<epoch, g>> \in Births
  BY <1>2 DEF Births, TypeTable, Epochs
<1>4. LiveSlot(<<epoch, g>>, g) \in SlotRecords
  BY <1>2, <1>3, LiveType
<1> HIDE DEF g
<1>5. slot' = [slot EXCEPT ![s] = LiveSlot(<<epoch, g>>, g)]
  BY DEF Occupy, g
<1>6. handedOut' = [handedOut EXCEPT ![<<s, epoch, g>>] = @ + 1]
  BY DEF Occupy, HandOut, g
<1>7. <<s, <<epoch, g>>>> \in Keys
  BY <1>3 DEF Keys
<1>8. TypeHistory'
  <2>1. issued' = issued \cup {<<s, <<epoch, g>>>>} /\ completed' = completed
    BY DEF Occupy, g
  <2>2. handedOut' \in [Slots \X Epochs \X Generations -> Nat]
    BY <1>2, <1>6 DEF TypeHistory, TypeTable
  <2> QED
    BY <1>7, <2>1, <2>2 DEF TypeHistory
<1>9. TypeHeld'
  BY DEF Occupy, TypeHeld
<1> QED
  BY <1>2, <1>3, <1>4, <1>5, <1>6, <1>8, <1>9 DEF TypeSlot, g

\* What reclaim leaves in the slot.
LEMMA ReclaimType ==
    ASSUME TypeOK, NEW t \in held, Reclaim(t)
    PROVE  /\ TypeOK'
           /\ t \in Artifacts /\ t.slot \in Slots
           /\ \A u \in Slots \ {t.slot} : slot'[u] = slot[u]
           /\ \/ /\ t.wireEpoch = epoch /\ t.generation = MaxGeneration
                 /\ slot'[t.slot] = Vacant("Retired", t.generation, NoSlot)
                 /\ needsQuiesce' = TRUE
                 /\ retired' = IF t.slot \in AppSlots THEN retired + 1 ELSE retired
              \/ \E next \in AppSlots \cup {NoSlot} :
                    /\ slot'[t.slot] = Vacant("Free", ResumeGeneration(t), next)
                    /\ needsQuiesce' = needsQuiesce /\ retired' = retired
<1> USE DEF TypeOK
<1>1. t \in Artifacts
  BY DEF TypeHeld
<1>2. t.slot \in Slots /\ t.generation \in Generations
  BY <1>1 DEF Artifacts
<1>3. ResumeGeneration(t) \in Generations
  BY <1>2 DEF ResumeGeneration, Generations
<1>4. TypeHeld' /\ TypeHistory'
  BY DEF Reclaim, TypeHeld, TypeHistory, history
<1>5. CASE t.wireEpoch = epoch /\ t.generation = MaxGeneration
  <2>1. RetireSlot(t.slot, t.generation) /\ UNCHANGED <<epoch, mode>>
    BY <1>5 DEF Reclaim
  <2>2. Vacant("Retired", t.generation, NoSlot) \in SlotRecords
    BY <1>2, VacantType
  <2>3. slot' = [slot EXCEPT ![t.slot] = Vacant("Retired", t.generation, NoSlot)]
    BY <2>1 DEF RetireSlot
  <2>4. needsQuiesce' = TRUE
    BY <2>1, Zenon DEF RetireSlot
  <2>5. retired' = IF t.slot \in AppSlots THEN retired + 1 ELSE retired
    BY <2>1 DEF RetireSlot
  <2>6. retired' \in Nat
    BY <2>5 DEF TypeTable
  <2>7. TypeTable'
    BY <2>1, <2>4, <2>6, Zenon DEF RetireSlot, TypeTable
  <2>8. TypeSlot' /\ slot'[t.slot] = Vacant("Retired", t.generation, NoSlot)
        /\ \A u \in Slots \ {t.slot} : slot'[u] = slot[u]
    BY <1>2, <2>2, <2>3 DEF TypeSlot
  <2> QED
    BY <1>1, <1>2, <1>4, <1>5, <2>4, <2>5, <2>7, <2>8, Zenon
<1>6. CASE ~(t.wireEpoch = epoch /\ t.generation = MaxGeneration)
  <2> DEFINE next == IF t.slot \in AppSlots THEN freeHead ELSE NoSlot
  <2>1. PushFree(t.slot, ResumeGeneration(t)) /\ UNCHANGED <<epoch, mode>>
    BY <1>6 DEF Reclaim
  <2>2. next \in AppSlots \cup {NoSlot}
    BY DEF TypeTable
  <2>3. Vacant("Free", ResumeGeneration(t), next) \in SlotRecords
    BY <1>3, <2>2, VacantType
  <2>4. slot' = [slot EXCEPT ![t.slot] = Vacant("Free", ResumeGeneration(t), next)]
    BY <2>1 DEF PushFree
  <2>5. TypeTable' /\ needsQuiesce' = needsQuiesce /\ retired' = retired
    BY <2>1 DEF PushFree, TypeTable
  <2> HIDE DEF next
  <2> QED
    BY <1>1, <1>2, <1>4, <2>2, <2>3, <2>4, <2>5 DEF TypeSlot
<1> QED
  BY <1>5, <1>6, Zenon

\* What rebinding leaves in every slot.
LEMMA RebindType ==
    ASSUME TypeOK, RebindSession
    PROVE  /\ TypeOK'
           /\ \A s \in Slots : slot'[s] = Rebound(s)
           /\ \A s \in Slots :
                 \/ /\ slot[s].st \in {"Free", "Retired"}
                    /\ \E next \in AppSlots \cup {NoSlot} :
                          slot'[s] = Vacant("Free", 0, next)
                 \/ /\ slot[s].st = "Live" /\ slot'[s].st = "Live"
                    /\ slot'[s].birth = slot[s].birth
                    /\ slot'[s].cancel = slot[s].cancel
                    /\ slot'[s].generation = 0
                    /\ slot'[s].wire = IF slot[s].wire = "GenerationExhausted"
                                       THEN "BetweenPhases" ELSE slot[s].wire
                 \/ slot[s].st = "Terminalizing" /\ slot'[s] = slot[s]
<1> USE DEF TypeOK
<1>1. \A s \in Slots : slot'[s] = Rebound(s)
  BY DEF RebindSession
<1>2. ASSUME NEW s \in Slots
      PROVE  /\ Rebound(s) \in SlotRecords
             /\ \/ /\ slot[s].st \in {"Free", "Retired"}
                   /\ \E next \in AppSlots \cup {NoSlot} :
                          Rebound(s) = Vacant("Free", 0, next)
                \/ /\ slot[s].st = "Live" /\ Rebound(s).st = "Live"
                   /\ Rebound(s).birth = slot[s].birth
                   /\ Rebound(s).cancel = slot[s].cancel
                   /\ Rebound(s).generation = 0
                   /\ Rebound(s).wire = IF slot[s].wire = "GenerationExhausted"
                                       THEN "BetweenPhases" ELSE slot[s].wire
                \/ slot[s].st = "Terminalizing" /\ Rebound(s) = slot[s]
  <2>1. slot[s] \in SlotRecords /\ 0 \in Generations
    BY DEF TypeSlot, Generations
  <2>2. CASE slot[s].st \in {"Free", "Retired"}
    <3> DEFINE next == IF s \in AppSlots THEN NextVacancy(s) ELSE NoSlot
    <3>1. next \in AppSlots \cup {NoSlot}
      BY NextVacancyType
    <3>2. Rebound(s) = Vacant("Free", 0, next)
      BY <2>2 DEF Rebound
    <3> HIDE DEF next
    <3> QED
      BY <2>1, <2>2, <3>1, <3>2, VacantType
  <2>3. CASE slot[s].st = "Live"
    BY <2>1, <2>3, Zenon DEF Rebound, SlotRecords, WireStates
  <2>4. CASE slot[s].st = "Terminalizing"
    BY <2>1, <2>4 DEF Rebound
  <2> QED
    BY <2>1, <2>2, <2>3, <2>4 DEF SlotRecords
<1>3. TypeSlot'
  BY <1>2 DEF RebindSession, TypeSlot
<1>4. TypeTable'
  <2>1. epoch' \in Epochs /\ retired' \in Nat
    BY DEF RebindSession, TypeTable, Epochs
  <2>2. freeHead' \in AppSlots \cup {NoSlot}
    BY NextVacancyType DEF RebindSession
  <2> QED
    BY <2>1, <2>2, Zenon DEF RebindSession, TypeTable
<1>5. TypeHeld' /\ TypeHistory'
  BY DEF RebindSession, TypeHeld, TypeHistory, history
<1> QED
  BY <1>1, <1>2, <1>3, <1>4, <1>5

-----------------------------------------------------------------------------
LEMMA AdmitType ==
    ASSUME TypeOK, AdmitApplication \/ \E s \in Lanes : AdmitControl(s)
    PROVE  TypeOK'
<1> USE DEF TypeOK
<1>1. ASSUME NEW exhausted \in BOOLEAN, Refuse(exhausted) PROVE TypeOK'
  <2>1. needsQuiesce' \in BOOLEAN
    BY <1>1, Zenon DEF Refuse, TypeTable
  <2>2. TypeTable'
    BY <1>1, <2>1, Zenon DEF Refuse, TypeTable
  <2> QED
    BY <1>1, <2>2 DEF Refuse, TypeSlot, TypeHeld, TypeHistory, history
<1>2. ASSUME NEW s \in Slots, slot[s].generation < MaxGeneration, Occupy(s),
             freeHead' \in AppSlots \cup {NoSlot}
      PROVE  TypeOK'
  <2>1. TypeSlot' /\ TypeHeld' /\ TypeHistory'
    BY <1>2, OccupyType, Zenon
  <2>2. TypeTable'
    BY <1>2, Zenon DEF Occupy, TypeTable
  <2> QED
    BY <2>1, <2>2
<1>3. CASE AdmitApplication
  <2>1. CASE freeHead = NoSlot
    BY <1>1, <1>3, <2>1, Zenon DEF AdmitApplication
  <2>2. CASE freeHead # NoSlot
    <3>1. freeHead \in AppSlots /\ freeHead \in Slots
      BY <2>2 DEF TypeTable, Slots
    <3>2. slot[freeHead] \in SlotRecords
      BY <3>1 DEF TypeSlot
    <3>3. slot[freeHead].generation \in Nat /\ slot[freeHead].next \in AppSlots \cup {NoSlot}
      BY <3>2 DEF SlotRecords, Generations
    <3>4. \/ \E exhausted \in BOOLEAN : Refuse(exhausted)
          \/ /\ ~(slot[freeHead].generation >= MaxGeneration)
             /\ Occupy(freeHead) /\ freeHead' = slot[freeHead].next
      BY <1>3, <2>2, Zenon DEF AdmitApplication
    <3> QED
      BY <1>1, <1>2, <3>1, <3>3, <3>4
  <2> QED
    BY <2>1, <2>2
<1>4. ASSUME NEW s \in Lanes, AdmitControl(s) PROVE TypeOK'
  <2>1. s \in Slots
    BY DEF Slots
  <2>2. slot[s] \in SlotRecords
    BY <2>1 DEF TypeSlot
  <2>3. slot[s].generation \in Nat
    BY <2>2 DEF SlotRecords, Generations
  <2>4. \/ Refuse(TRUE)
        \/ ~(slot[s].generation >= MaxGeneration) /\ Occupy(s) /\ freeHead' = freeHead
    BY <1>4, Zenon DEF AdmitControl
  <2>5. CASE Refuse(TRUE)
    BY <1>1, <2>5, Zenon
  <2>6. CASE ~(slot[s].generation >= MaxGeneration) /\ Occupy(s) /\ freeHead' = freeHead
    <3>1. slot[s].generation < MaxGeneration
      BY <2>3, <2>6
    <3> QED
      BY <1>2, <2>1, <2>6, <3>1, Zenon DEF TypeTable
  <2> QED
    BY <2>4, <2>5, <2>6
<1> QED
  BY <1>3, <1>4

LEMMA KeyStepType ==
    ASSUME TypeOK, NEW key \in issued, ByKey(key)
    PROVE  TypeOK'
<1> USE DEF TypeOK
<1>1. key \in Keys /\ key[1] \in Slots /\ key[2] \in Births
  BY KeyType DEF TypeHistory
<1>2. ASSUME NEW w \in WireStates, SetWire(key[1], w),
             UNCHANGED <<epoch, mode, freeHead, retired, needsQuiesce, held, history>>
      PROVE  TypeOK'
  <2>1. TypeSlot'
    BY <1>1, <1>2, SetWireType
  <2> QED
    BY <1>2, <2>1 DEF TypeTable, TypeHeld, TypeHistory, history
<1>3. CASE MarkVisible(key) \/ RetainAfterFence(key)
  <2>1. "Visible" \in WireStates /\ "BetweenPhases" \in WireStates
    BY DEF WireStates
  <2> QED
    BY <1>2, <1>3, <2>1 DEF MarkVisible, RetainAfterFence
<1>4. CASE BeginPhase(key)
  <2>1. slot[key[1]] \in SlotRecords
    BY <1>1 DEF TypeSlot
  <2>2. slot[key[1]].generation \in 0 .. MaxGeneration
    BY <2>1 DEF SlotRecords, Generations
  <2>3. "GenerationExhausted" \in WireStates /\ "PreparedNotVisible" \in WireStates
    BY DEF WireStates
  <2>4. CASE slot[key[1]].generation >= MaxGeneration
    <3>1. SetWire(key[1], "GenerationExhausted")
      BY <1>4, <2>4, Zenon DEF BeginPhase
    <3>2. TypeSlot'
      BY <1>1, <2>3, <3>1, SetWireType
    <3>3. needsQuiesce' = TRUE
      BY <1>4, <2>4, Zenon DEF BeginPhase
    <3>4. TypeTable'
      BY <1>4, <3>3, Zenon DEF BeginPhase, TypeTable
    <3>5. TypeHeld' /\ TypeHistory'
      BY <1>4, <2>4, Zenon DEF BeginPhase, TypeHeld, TypeHistory
    <3> QED
      BY <3>2, <3>4, <3>5
  <2>5. CASE ~(slot[key[1]].generation >= MaxGeneration)
    <3> DEFINE g == slot[key[1]].generation + 1
    <3>1. g \in Generations
      BY <2>2, <2>5 DEF Generations
    <3>2. /\ slot' = [slot EXCEPT ![key[1]].wire = "PreparedNotVisible",
                                  ![key[1]].generation = g]
          /\ HandOut(key[1], g)
          /\ UNCHANGED needsQuiesce
      BY <1>4, <2>5, Zenon DEF BeginPhase
    <3> HIDE DEF g
    <3>3. [slot[key[1]] EXCEPT !.wire = "PreparedNotVisible", !.generation = g]
            \in SlotRecords
      BY <2>1, <2>3, <3>1, Zenon DEF SlotRecords
    <3>4. TypeSlot'
      BY <1>1, <3>2, <3>3, Zenon DEF TypeSlot
    <3>5. TypeTable' /\ TypeHeld'
      BY <1>4, <3>2, Zenon DEF BeginPhase, TypeTable, TypeHeld
    <3>6. handedOut' \in [Slots \X Epochs \X Generations -> Nat]
      BY <1>1, <3>1, <3>2 DEF HandOut, TypeHistory, TypeTable
    <3>7. TypeHistory'
      BY <1>4, <3>6 DEF BeginPhase, TypeHistory
    <3> QED
      BY <3>4, <3>5, <3>7
  <2> QED
    BY <2>4, <2>5
<1>5. CASE Withdraw(key) \/ TerminalizeAfterFence(key)
  BY <1>1, <1>5, ExtractType DEF Withdraw, TerminalizeAfterFence
<1>6. CASE RecordCancel(key)
  <2>1. slot[key[1]] \in SlotRecords
    BY <1>1 DEF TypeSlot
  <2>2. [slot[key[1]] EXCEPT !.cancel = key[2]] \in SlotRecords
    BY <1>1, <2>1 DEF SlotRecords
  <2>3. TypeSlot'
    BY <1>1, <1>6, <2>2 DEF RecordCancel, TypeSlot
  <2> QED
    BY <1>6, <2>3 DEF RecordCancel, TypeTable, TypeHeld, TypeHistory, history
<1> QED
  BY <1>3, <1>4, <1>5, <1>6 DEF ByKey

LEMMA TokenStepType ==
    ASSUME TypeOK, NEW t \in held, ByToken(t)
    PROVE  TypeOK'
<1> USE DEF TypeOK
<1>1. t \in Artifacts
  BY DEF TypeHeld
<1>2. t.slot \in Slots /\ <<t.slot, t.birth>> \in Keys
  BY <1>1 DEF Artifacts, Keys
<1>3. ASSUME NEW w \in WireStates, SetWire(t.slot, w), TypeHeld',
             UNCHANGED <<epoch, mode, freeHead, retired, needsQuiesce, history>>
      PROVE  TypeOK'
  <2>1. TypeSlot'
    BY <1>2, <1>3, SetWireType
  <2> QED
    BY <1>3, <2>1 DEF TypeTable, TypeHistory, history
<1>4. {"Captured", "BetweenPhases", "Quarantined"} \subseteq WireStates
  BY DEF WireStates
<1>5. CASE InstallCandidate(t)
  <2>1. TypeHeld'
    BY <1>1, <1>5, TokenType, Zenon DEF InstallCandidate, TypeHeld
  <2> QED
    BY <1>3, <1>4, <1>5, <2>1 DEF InstallCandidate
<1>6. ASSUME NEW w \in WireStates, FinishDisposition(t, w) PROVE TypeOK'
  BY <1>3, <1>6 DEF FinishDisposition, TypeHeld
<1>7. CASE Retain(t) \/ Quarantine(t)
  BY <1>4, <1>6, <1>7 DEF Retain, Quarantine
<1>8. CASE Terminalize(t)
  BY <1>2, <1>8, ExtractType DEF Terminalize
<1>9. CASE Complete(t)
  <2>1. TypeHeld'
    BY <1>1, <1>9, TokenType, Zenon DEF Complete, TypeHeld
  <2> QED
    BY <1>2, <1>9, <2>1 DEF Complete, table, TypeTable, TypeSlot, TypeHistory
<1>10. CASE Reclaim(t)
  BY <1>10, ReclaimType, Zenon
<1> QED
  BY <1>5, <1>7, <1>8, <1>9, <1>10 DEF ByToken

\* No step of the table breaks its types.
LEMMA TypeStep ==
    ASSUME TypeOK, Next
    PROVE  TypeOK'
<1>1. ASSUME NEW s \in Slots, NEW answer \in Births, BeginCapture(s, answer)
      PROVE  TypeOK'
  <2>1. TypeSlot'
    BY <1>1, SetWireType DEF BeginCapture, WireStates, TypeOK
  <2>2. TypeHeld'
    BY <1>1, ArtifactType DEF BeginCapture, TypeHeld, TypeOK
  <2> QED
    BY <1>1, <2>1, <2>2 DEF BeginCapture, TypeOK, TypeTable, TypeHistory, history
<1>2. CASE BeginFence \/ BeginDrain
  <2>1. mode' \in {"Active", "Fencing", "Draining"}
    BY <1>2 DEF BeginFence, BeginDrain
  <2> QED
    BY <1>2, <2>1, Zenon DEF BeginFence, BeginDrain, TypeOK, TypeTable, TypeSlot, TypeHeld,
                       TypeHistory, history
<1>3. CASE DrainNextApplication \/ DrainNextControl
  <2>1. PICK s \in Slots : Extract(s, held)
    BY <1>3 DEF DrainNextApplication, DrainNextControl, DrainNext, Slots
  <2> QED
    BY <2>1, ExtractType
<1> QED
  BY <1>1, <1>2, <1>3, AdmitType, KeyStepType, TokenStepType, RebindType DEF Next

-----------------------------------------------------------------------------
(* Request identifiers and births.                                         *)

\* The retired slots are finitely many.
LEMMA RetiredFinite == IsFiniteSet(RetiredSlots)
<1>1. IsFiniteSet(AppSlots)
  BY FS_Interval DEF AppSlots
<1>2. RetiredSlots \subseteq AppSlots
  BY DEF RetiredSlots
<1> QED
  BY <1>1, <1>2, FS_Subset

\* Retirement is counted and announced as long as nothing becomes retired or
\* runs out of generations without needs_quiesce.
LEMMA NoNewLoss ==
    ASSUME ExhaustionAnnounced, retired' = retired,
           \A s \in Slots : slot'[s].st = "Retired" <=> slot[s].st = "Retired",
           needsQuiesce => needsQuiesce',
           \A s \in Slots : slot'[s].wire = "GenerationExhausted" =>
               slot[s].wire = "GenerationExhausted" \/ needsQuiesce'
    PROVE  ExhaustionAnnounced'
<1>1. RetiredSlots' = RetiredSlots
  BY DEF RetiredSlots, Slots
<1>2. RetiredCounted'
  BY <1>1 DEF ExhaustionAnnounced, RetiredCounted
<1>3. LossAnnounced'
  BY Zenon DEF ExhaustionAnnounced, LossAnnounced, OutOfGenerations
<1> QED
  BY <1>2, <1>3 DEF ExhaustionAnnounced

\* Identifiers are safe while none is handed out and no slot forgets one.
LEMMA NothingHandedOut ==
    ASSUME TypeOK, TypeOK', HandedOutInv, NoReqIdReuse, KeyInv,
           epoch' = epoch, handedOut' = handedOut, issued' = issued,
           \A s \in Slots : LastGeneration(s)' >= LastGeneration(s)
    PROVE  HandedOutInv' /\ NoReqIdReuse' /\ KeyInv'
<1>1. \A s \in Slots : LastGeneration(s) \in Int /\ LastGeneration(s)' \in Int
  BY DEF TypeOK, TypeSlot, SlotRecords, Generations, LastGeneration
<1>2. HandedOutInv'
  BY <1>1 DEF HandedOutInv, Generations
<1> QED
  BY <1>2 DEF NoReqIdReuse, KeyInv

\* One identifier is handed out: the next of slot s.
LEMMA OneHandedOut ==
    ASSUME TypeOK, HandedOutInv, NoReqIdReuse, KeyInv, epoch' = epoch,
           NEW s \in Slots, NEW g \in Generations, g > LastGeneration(s),
           LastGeneration(s)' = g,
           \A u \in Slots \ {s} : LastGeneration(u)' = LastGeneration(u),
           handedOut' = [handedOut EXCEPT ![<<s, epoch, g>>] = @ + 1],
           issued' \subseteq issued \cup {<<s, <<epoch, g>>>>}
    PROVE  HandedOutInv' /\ NoReqIdReuse' /\ KeyInv'
<1>1. epoch \in Epochs /\ <<s, epoch, g>> \in Slots \X Epochs \X Generations
  BY DEF TypeOK, TypeTable
<1>2. handedOut \in [Slots \X Epochs \X Generations -> Nat]
  BY DEF TypeOK, TypeHistory
<1>3. handedOut[<<s, epoch, g>>] = 0
  BY <1>1 DEF HandedOutInv
<1>4. handedOut'[<<s, epoch, g>>] = 1
  BY <1>1, <1>2, <1>3
<1>5. \A id \in Slots \X Epochs \X Generations :
         id # <<s, epoch, g>> => handedOut'[id] = handedOut[id]
  BY <1>2
<1>6. NoReqIdReuse'
  BY <1>2, <1>4, <1>5 DEF NoReqIdReuse
<1>7. HandedOutInv'
  <2> SUFFICES ASSUME NEW u \in Slots, NEW e \in Epochs, NEW h \in Generations,
                      e > epoch \/ (e = epoch /\ h > LastGeneration(u)')
               PROVE  handedOut'[<<u, e, h>>] = 0
    BY DEF HandedOutInv
  <2>1. <<u, e, h>> # <<s, epoch, g>>
    BY <1>1 DEF Epochs, Generations
  <2>2. e > epoch \/ (e = epoch /\ h > LastGeneration(u))
    <3>1. LastGeneration(s) \in Int
      BY DEF TypeOK, TypeSlot, SlotRecords, Generations, LastGeneration
    <3> QED
      BY <3>1 DEF Generations
  <2> QED
    BY <1>5, <2>1, <2>2 DEF HandedOutInv
<1>8. KeyInv'
  <2> SUFFICES ASSUME NEW key \in issued'
               PROVE  /\ key[2][1] \in Epochs
                      /\ handedOut'[<<key[1], key[2][1], key[2][2]>>] > 0
    BY Zenon DEF KeyInv
  <2>1. CASE key = <<s, <<epoch, g>>>>
    BY <1>1, <1>4, <2>1
  <2>2. CASE key \in issued
    <3>1. key[1] \in Slots /\ key[2] \in Births
      BY <2>2, KeyType DEF TypeOK, TypeHistory
    <3>2. key[2][2] \in Generations
      BY <3>1 DEF Births
    <3>3. key[2][1] \in Epochs /\ handedOut[<<key[1], key[2][1], key[2][2]>>] > 0
      BY <2>2 DEF KeyInv
    <3> QED
      BY <1>3, <1>5, <3>1, <3>2, <3>3
  <2> QED
    BY <2>1, <2>2
<1> QED
  BY <1>6, <1>7, <1>8

\* A change of wire state in a live slot disturbs no identity.
LEMMA WireStepIdentity ==
    ASSUME TypeOK, TypeOK', IdentityInv, NEW s \in Slots, NEW w \in WireStates,
           slot[s].st = "Live", SetWire(s, w), UNCHANGED <<epoch, retired, history>>,
           needsQuiesce => needsQuiesce',
           w = "GenerationExhausted" => needsQuiesce'
    PROVE  IdentityInv'
<1> USE DEF IdentityInv
<1>1. /\ slot'[s].wire = w
      /\ \A u \in Slots \ {s} : slot'[u] = slot[u]
      /\ \A u \in Slots : /\ slot'[u].st = slot[u].st
                          /\ slot'[u].birth = slot[u].birth
                          /\ slot'[u].generation = slot[u].generation
                          /\ slot'[u].wireEpoch = slot[u].wireEpoch
                          /\ slot'[u].cancel = slot[u].cancel
  BY SetWireType DEF TypeOK
<1>2. w # "None"
  BY DEF WireStates
<1>3. WireInv'
  BY <1>1, <1>2 DEF WireInv
<1>4. EpochInv' /\ CancelHitsOwner'
  BY <1>1 DEF EpochInv, CancelHitsOwner
<1>5. \A u \in Slots : LastGeneration(u) \in Int /\ LastGeneration(u)' = LastGeneration(u)
  BY <1>1 DEF LastGeneration, TypeOK, TypeSlot, SlotRecords, Generations
<1>6. HandedOutInv' /\ NoReqIdReuse' /\ KeyInv'
  BY <1>5, NothingHandedOut DEF history
<1>7. ExhaustionAnnounced'
  <2>1. \A u \in Slots : slot'[u].wire = "GenerationExhausted" =>
            slot[u].wire = "GenerationExhausted" \/ needsQuiesce'
    BY <1>1, Zenon
  <2> QED
    BY <1>1, <2>1, NoNewLoss
<1> QED
  BY <1>3, <1>4, <1>6, <1>7

\* Taking the owner out of a live slot keeps the slot's last generation.
LEMMA ExtractIdentity ==
    ASSUME TypeOK, IdentityInv, NEW s \in Slots, NEW rest \in SUBSET held,
           slot[s].st = "Live", Extract(s, rest)
    PROVE  IdentityInv'
<1> USE DEF IdentityInv
<1>1. TypeOK' /\ slot'[s] = TerminalSlot(s) /\ \A u \in Slots \ {s} : slot'[u] = slot[u]
  BY ExtractType
<1>2. /\ slot'[s].st = "Terminalizing" /\ slot'[s].wire = "None"
      /\ slot'[s].cancel = NoBirth /\ slot'[s].wireEpoch = epoch
      /\ slot'[s].generation = slot[s].generation
  BY <1>1, TerminalType DEF TypeOK
<1>3. UNCHANGED <<epoch, retired, needsQuiesce, handedOut, issued>>
  BY DEF Extract, history
<1>4. WireInv' /\ CancelHitsOwner'
  BY <1>1, <1>2 DEF WireInv, CancelHitsOwner
<1>5. EpochInv'
  BY <1>1, <1>2, <1>3 DEF EpochInv, TypeOK, TypeTable, Epochs
<1>6. \A u \in Slots : LastGeneration(u)' >= LastGeneration(u)
  BY <1>1, <1>2, <1>3 DEF LastGeneration, TypeOK, TypeSlot, SlotRecords, Generations
<1>7. HandedOutInv' /\ NoReqIdReuse' /\ KeyInv'
  BY <1>1, <1>3, <1>6, NothingHandedOut
<1>8. ExhaustionAnnounced'
  <2>1. \A u \in Slots : slot'[u].st = "Retired" <=> slot[u].st = "Retired"
    BY <1>1, <1>2
  <2>2. \A u \in Slots : slot'[u].wire = "GenerationExhausted" =>
            slot[u].wire = "GenerationExhausted"
    BY <1>1, <1>2
  <2>3. needsQuiesce => needsQuiesce'
    BY <1>3, Zenon
  <2> QED
    BY <1>3, <2>1, <2>2, <2>3, NoNewLoss, Zenon
<1> QED
  BY <1>4, <1>5, <1>7, <1>8

\* Admission hands out the generation after the slot's last one.
LEMMA OccupyIdentity ==
    ASSUME TypeOK, TypeOK', IdentityInv, NEW s \in Slots, slot[s].st = "Free",
           slot[s].generation < MaxGeneration, Occupy(s)
    PROVE  IdentityInv'
<1> USE DEF IdentityInv
<1> DEFINE g == slot[s].generation + 1
<1>1. /\ g \in Generations /\ g > 0 /\ <<epoch, g>> \in Births
      /\ slot'[s] = LiveSlot(<<epoch, g>>, g)
      /\ \A u \in Slots \ {s} : slot'[u] = slot[u]
      /\ handedOut' = [handedOut EXCEPT ![<<s, epoch, g>>] = @ + 1]
  BY OccupyType
<1>2. /\ slot'[s].st = "Live" /\ slot'[s].wire = "PreparedNotVisible"
      /\ slot'[s].cancel = NoBirth /\ slot'[s].generation = g
  BY <1>1, LiveType
<1>3. UNCHANGED <<epoch, retired, needsQuiesce>> /\ issued' = issued \cup {<<s, <<epoch, g>>>>}
  BY DEF Occupy
<1>4. LastGeneration(s) = slot[s].generation /\ slot[s].generation \in Int
  BY DEF LastGeneration, TypeOK, TypeSlot, SlotRecords, Generations
<1>5. g > LastGeneration(s)
  BY <1>4
<1> HIDE DEF g
<1>6. WireInv' /\ CancelHitsOwner' /\ EpochInv'
  BY <1>1, <1>2, <1>3 DEF WireInv, CancelHitsOwner, EpochInv
<1>7. LastGeneration(s)' = g /\ \A u \in Slots \ {s} : LastGeneration(u)' = LastGeneration(u)
  BY <1>1, <1>2, <1>3 DEF LastGeneration
<1>8. HandedOutInv' /\ NoReqIdReuse' /\ KeyInv'
  BY <1>1, <1>3, <1>5, <1>7, OneHandedOut, Zenon
<1>9. ExhaustionAnnounced'
  <2>1. \A u \in Slots : slot'[u].st = "Retired" <=> slot[u].st = "Retired"
    BY <1>1, <1>2
  <2>2. \A u \in Slots : slot'[u].wire = "GenerationExhausted" =>
            slot[u].wire = "GenerationExhausted"
    BY <1>1, <1>2
  <2>3. needsQuiesce => needsQuiesce'
    BY <1>3, Zenon
  <2> QED
    BY <1>3, <2>1, <2>2, <2>3, NoNewLoss, Zenon
<1> QED
  BY <1>6, <1>8, <1>9

\* The next phase of a retained request hands out the next generation.
LEMMA PhaseIdentity ==
    ASSUME TypeOK, TypeOK', IdentityInv, NEW key \in issued, BeginPhase(key)
    PROVE  IdentityInv'
<1> USE DEF IdentityInv
<1> DEFINE s == key[1]
<1>1. s \in Slots
  BY KeyType DEF TypeOK, TypeHistory
<1>2. slot[s] \in SlotRecords
  BY <1>1 DEF TypeOK, TypeSlot
<1>3. slot[s].st = "Live" /\ slot[s].generation \in 0 .. MaxGeneration
  BY <1>2 DEF BeginPhase, KeyValid, SlotRecords, Generations
<1>4. UNCHANGED <<epoch, retired, issued>>
  BY DEF BeginPhase
<1>5. CASE slot[s].generation >= MaxGeneration
  <2>1. SetWire(s, "GenerationExhausted") /\ needsQuiesce' = TRUE /\ handedOut' = handedOut
    BY <1>5, Zenon DEF BeginPhase
  <2>2. "GenerationExhausted" \in WireStates
    BY DEF WireStates
  <2>3. needsQuiesce'
    BY <2>1, Zenon
  <2>4. UNCHANGED <<epoch, retired, history>>
    BY <2>1 DEF BeginPhase, history
  <2> HIDE DEF s
  <2> QED
    BY <1>1, <1>3, <2>1, <2>2, <2>3, <2>4, WireStepIdentity, Zenon
<1>6. CASE ~(slot[s].generation >= MaxGeneration)
  <2> DEFINE g == slot[s].generation + 1
  <2>1. g \in Generations /\ g > slot[s].generation
    BY <1>3, <1>6 DEF Generations
  <2>2. /\ slot' = [slot EXCEPT ![s].wire = "PreparedNotVisible", ![s].generation = g]
        /\ handedOut' = [handedOut EXCEPT ![<<s, epoch, g>>] = @ + 1]
        /\ needsQuiesce' = needsQuiesce
    BY <1>6, Zenon DEF BeginPhase, HandOut
  <2> HIDE DEF g, s
  <2>3. \A u \in Slots \ {s} : slot'[u] = slot[u]
    BY <2>2 DEF TypeOK, TypeSlot
  <2>4. /\ slot'[s].st = "Live" /\ slot'[s].wire = "PreparedNotVisible"
        /\ slot'[s].generation = g /\ slot'[s].cancel = slot[s].cancel
        /\ slot'[s].birth = slot[s].birth
    BY <1>1, <1>2, <1>3, <2>2 DEF TypeOK, TypeSlot, SlotRecords
  <2>5. WireInv' /\ CancelHitsOwner' /\ EpochInv'
    BY <1>4, <2>3, <2>4 DEF WireInv, CancelHitsOwner, EpochInv
  <2>6. /\ LastGeneration(s) = slot[s].generation /\ LastGeneration(s)' = g
        /\ \A u \in Slots \ {s} : LastGeneration(u)' = LastGeneration(u)
    BY <1>3, <1>4, <2>3, <2>4 DEF LastGeneration
  <2>7. HandedOutInv' /\ NoReqIdReuse' /\ KeyInv'
    BY <1>1, <1>4, <2>1, <2>2, <2>6, OneHandedOut, Zenon
  <2>8. \A u \in Slots : slot'[u].st = "Retired" <=> slot[u].st = "Retired"
    BY <1>3, <2>3, <2>4
  <2>9. \A u \in Slots : slot'[u].wire = "GenerationExhausted" =>
            slot[u].wire = "GenerationExhausted"
    BY <2>3, <2>4
  <2>10. needsQuiesce => needsQuiesce'
    BY <2>2, Zenon
  <2>11. ExhaustionAnnounced'
    BY <1>4, <2>8, <2>9, <2>10, NoNewLoss, Zenon
  <2> QED
    BY <2>5, <2>7, <2>11
<1> QED
  BY <1>5, <1>6

\* A reclaimed slot resumes where the epoch left it, or is retired and said so.
LEMMA ReclaimIdentity ==
    ASSUME TypeOK, IdentityInv, NEW t \in held, Reclaim(t)
    PROVE  IdentityInv'
<1> USE DEF IdentityInv
<1> DEFINE s == t.slot
<1>1. /\ TypeOK' /\ s \in Slots /\ t \in Artifacts
      /\ \A u \in Slots \ {s} : slot'[u] = slot[u]
      /\ \/ /\ t.wireEpoch = epoch /\ t.generation = MaxGeneration
            /\ slot'[s] = Vacant("Retired", t.generation, NoSlot)
            /\ needsQuiesce' = TRUE
            /\ retired' = IF s \in AppSlots THEN retired + 1 ELSE retired
         \/ \E next \in AppSlots \cup {NoSlot} :
               /\ slot'[s] = Vacant("Free", ResumeGeneration(t), next)
               /\ needsQuiesce' = needsQuiesce /\ retired' = retired
  BY ReclaimType, Zenon
<1>2. UNCHANGED <<epoch, handedOut, issued>>
  BY DEF Reclaim, history
<1>3. t.generation \in Generations /\ ResumeGeneration(t) \in Generations
  BY <1>1 DEF Artifacts, ResumeGeneration, Generations
<1>4. /\ slot[s].st = "Terminalizing" /\ slot[s].wireEpoch = t.wireEpoch
      /\ slot[s].generation = t.generation
  BY DEF Reclaim, ReceiptMatches
<1>5. LastGeneration(s) = ResumeGeneration(t)
  BY <1>4 DEF LastGeneration, ResumeGeneration
<1> HIDE DEF s
<1>6. PICK st \in {"Free", "Retired"}, g \in Generations, next \in AppSlots \cup {NoSlot} :
         slot'[s] = Vacant(st, g, next) /\ g = ResumeGeneration(t)
  BY <1>1, <1>3 DEF ResumeGeneration
<1>7. /\ slot'[s].st = st /\ slot'[s].wire = "None" /\ slot'[s].cancel = NoBirth
      /\ slot'[s].generation = g
  BY <1>6, VacantType
<1>8. WireInv' /\ CancelHitsOwner' /\ EpochInv'
  BY <1>1, <1>2, <1>7 DEF WireInv, CancelHitsOwner, EpochInv
<1>9. \A u \in Slots : LastGeneration(u)' = LastGeneration(u)
  BY <1>1, <1>2, <1>5, <1>6, <1>7 DEF LastGeneration
<1>10. \A u \in Slots : LastGeneration(u) \in Int
  BY DEF LastGeneration, TypeOK, TypeSlot, SlotRecords, Generations
<1>11. HandedOutInv' /\ NoReqIdReuse' /\ KeyInv'
  BY <1>1, <1>2, <1>9, <1>10, NothingHandedOut
<1>12. ExhaustionAnnounced'
  <2>1. CASE /\ slot'[s] = Vacant("Retired", t.generation, NoSlot)
             /\ needsQuiesce' = TRUE
             /\ retired' = IF s \in AppSlots THEN retired + 1 ELSE retired
    <3>1. slot'[s].st = "Retired"
      BY <1>3, <2>1, VacantType
    <3>2. RetiredSlots' = IF s \in AppSlots THEN RetiredSlots \cup {s} ELSE RetiredSlots
      BY <1>1, <3>1 DEF RetiredSlots, Slots
    <3>3. s \notin RetiredSlots
      BY <1>4 DEF RetiredSlots, s
    <3>4. Cardinality(RetiredSlots \cup {s}) = Cardinality(RetiredSlots) + 1
      BY <3>3, RetiredFinite, FS_AddElement, Zenon
    <3>5. RetiredCounted'
      BY <2>1, <3>2, <3>4 DEF ExhaustionAnnounced, RetiredCounted
    <3>6. LossAnnounced'
      BY <2>1, Zenon DEF LossAnnounced
    <3> QED
      BY <3>5, <3>6 DEF ExhaustionAnnounced
  <2>2. CASE \E n \in AppSlots \cup {NoSlot} :
               /\ slot'[s] = Vacant("Free", ResumeGeneration(t), n)
               /\ needsQuiesce' = needsQuiesce /\ retired' = retired
    <3>1. slot'[s].st = "Free"
      BY <1>3, <2>2, VacantType
    <3>2. \A u \in Slots : slot'[u].st = "Retired" <=> slot[u].st = "Retired"
      BY <1>1, <1>4, <3>1 DEF s
    <3>3. \A u \in Slots : slot'[u].wire = "GenerationExhausted" =>
            slot[u].wire = "GenerationExhausted"
      BY <1>1, <1>7
    <3>4. needsQuiesce' = needsQuiesce /\ retired' = retired
      BY <2>2
    <3>5. needsQuiesce => needsQuiesce'
      BY <3>4, Zenon
    <3> QED
      BY <3>2, <3>3, <3>4, <3>5, NoNewLoss, Zenon
  <2> QED
    BY <1>1, <2>1, <2>2, Zenon
<1> QED
  BY <1>8, <1>11, <1>12

\* The next epoch starts with no identifier handed out and nothing retired.
LEMMA RebindIdentity ==
    ASSUME TypeOK, IdentityInv, RebindSession
    PROVE  IdentityInv'
<1> USE DEF IdentityInv
<1>1. TypeOK'
  BY RebindType
<1>2. ASSUME NEW s \in Slots
      PROVE  /\ slot'[s].st # "Retired" /\ slot'[s].wire # "GenerationExhausted"
             /\ slot'[s].wire # "None" <=> slot'[s].st = "Live"
             /\ slot'[s].cancel \in {NoBirth, slot'[s].birth}
             /\ slot'[s].st = "Terminalizing" => slot[s].st = "Terminalizing"
                                                /\ slot'[s].wireEpoch = slot[s].wireEpoch
  <2>1. CASE \E next \in AppSlots \cup {NoSlot} : slot'[s] = Vacant("Free", 0, next)
    <3>1. 0 \in Generations
      BY DEF Generations
    <3> QED
      BY <2>1, <3>1, VacantType
  <2>2. CASE /\ slot[s].st = "Live" /\ slot'[s].st = "Live"
             /\ slot'[s].birth = slot[s].birth
             /\ slot'[s].cancel = slot[s].cancel
             /\ slot'[s].wire = IF slot[s].wire = "GenerationExhausted"
                                THEN "BetweenPhases" ELSE slot[s].wire
    BY <2>2 DEF WireInv, CancelHitsOwner
  <2>3. CASE slot[s].st = "Terminalizing" /\ slot'[s] = slot[s]
    BY <2>3 DEF WireInv, CancelHitsOwner
  <2> QED
    BY <2>1, <2>2, <2>3, RebindType
<1>3. epoch' = epoch + 1 /\ UNCHANGED <<handedOut, issued>> /\ retired' = 0
  BY DEF RebindSession, history
<1>4. WireInv' /\ CancelHitsOwner'
  BY <1>2 DEF WireInv, CancelHitsOwner
<1>5. EpochInv'
  BY <1>2, <1>3 DEF EpochInv, TypeOK, TypeTable, Epochs, TypeSlot, SlotRecords
<1>6. HandedOutInv'
  BY <1>3 DEF HandedOutInv, TypeOK, TypeTable, Epochs
<1>7. NoReqIdReuse' /\ KeyInv'
  BY <1>3 DEF NoReqIdReuse, KeyInv
<1>8. RetiredSlots' = {}
  BY <1>2 DEF RetiredSlots, Slots
<1>9. RetiredCounted' /\ LossAnnounced'
  BY <1>2, <1>3, <1>8, FS_EmptySet DEF RetiredCounted, LossAnnounced, OutOfGenerations
<1> QED
  BY <1>4, <1>5, <1>6, <1>7, <1>9 DEF ExhaustionAnnounced

\* No step of the table reissues an identifier, lets a key act on another
\* request, or loses capacity in silence.
LEMMA IdentityStep ==
    ASSUME TypeOK, IdentityInv, Next
    PROVE  IdentityInv'
<1>0. TypeOK'
  BY TypeStep
<1>1. ASSUME UNCHANGED <<epoch, slot, retired, handedOut, issued>>,
             needsQuiesce => needsQuiesce'
      PROVE  IdentityInv'
  <2>1. \A s \in Slots : LastGeneration(s) \in Int /\ LastGeneration(s)' = LastGeneration(s)
    BY <1>1 DEF LastGeneration, TypeOK, TypeSlot, SlotRecords, Generations
  <2>2. HandedOutInv' /\ NoReqIdReuse' /\ KeyInv'
    BY <1>0, <1>1, <2>1, NothingHandedOut DEF IdentityInv
  <2>3. ExhaustionAnnounced'
    BY <1>1, NoNewLoss, Zenon DEF IdentityInv
  <2> QED
    BY <1>1, <2>2, <2>3 DEF IdentityInv, WireInv, EpochInv, CancelHitsOwner
<1>2. CASE AdmitApplication
  <2>1. CASE \E exhausted \in BOOLEAN : Refuse(exhausted)
    BY <1>1, <2>1, Zenon DEF Refuse, history
  <2>2. CASE /\ freeHead # NoSlot /\ slot[freeHead].st = "Free"
             /\ ~(slot[freeHead].generation >= MaxGeneration) /\ Occupy(freeHead)
    <3>1. freeHead \in Slots
      BY <2>2 DEF TypeOK, TypeTable, Slots
    <3>2. slot[freeHead].generation < MaxGeneration
      BY <2>2, <3>1 DEF TypeOK, TypeSlot, SlotRecords, Generations
    <3> QED
      BY <1>0, <2>2, <3>1, <3>2, OccupyIdentity
  <2> QED
    BY <1>2, <2>1, <2>2, Zenon DEF AdmitApplication
<1>3. ASSUME NEW s \in Lanes, AdmitControl(s) PROVE IdentityInv'
  <2>1. CASE Refuse(TRUE)
    BY <1>1, <2>1, Zenon DEF Refuse, history
  <2>2. CASE slot[s].st = "Free" /\ ~(slot[s].generation >= MaxGeneration) /\ Occupy(s)
    <3>1. s \in Slots
      BY DEF Slots
    <3>2. slot[s].generation < MaxGeneration
      BY <2>2, <3>1 DEF TypeOK, TypeSlot, SlotRecords, Generations
    <3> QED
      BY <1>0, <2>2, <3>1, <3>2, OccupyIdentity
  <2> QED
    BY <1>3, <2>1, <2>2, Zenon DEF AdmitControl
<1>4. WireStates = {"BetweenPhases", "PreparedNotVisible", "Visible", "Capturing",
                    "Captured", "Quarantined", "GenerationExhausted"}
  BY DEF WireStates
<1>5. ASSUME NEW s \in Slots, NEW w \in WireStates, slot[s].st = "Live", SetWire(s, w),
             UNCHANGED <<epoch, retired, needsQuiesce, history>>,
             w # "GenerationExhausted"
      PROVE  IdentityInv'
  <2>1. needsQuiesce => needsQuiesce'
    BY <1>5, Zenon
  <2> QED
    BY <1>0, <1>5, <2>1, WireStepIdentity, Zenon
<1>6. ASSUME NEW key \in issued, ByKey(key) PROVE IdentityInv'
  <2>1. key[1] \in Slots /\ key[2] \in Births
    BY KeyType DEF TypeOK, TypeHistory
  <2>2. CASE MarkVisible(key) \/ RetainAfterFence(key)
    BY <1>4, <1>5, <2>1, <2>2 DEF MarkVisible, RetainAfterFence, KeyValid
  <2>3. CASE BeginPhase(key)
    BY <1>0, <2>3, PhaseIdentity
  <2>4. CASE Withdraw(key) \/ TerminalizeAfterFence(key)
    BY <2>1, <2>4, ExtractIdentity DEF Withdraw, TerminalizeAfterFence, KeyValid
  <2>5. CASE RecordCancel(key)
    <3> DEFINE s == key[1]
    <3>1. slot[s] \in SlotRecords
      BY <2>1 DEF TypeOK, TypeSlot
    <3>2. slot' = [slot EXCEPT ![s].cancel = key[2]] /\ slot[s].birth = key[2]
          /\ UNCHANGED <<epoch, retired, needsQuiesce, history>>
      BY <2>5 DEF RecordCancel, KeyValid
    <3> HIDE DEF s
    <3>3. \A u \in Slots \ {s} : slot'[u] = slot[u]
      BY <3>2 DEF TypeOK, TypeSlot
    <3>4. /\ slot'[s].st = slot[s].st /\ slot'[s].wire = slot[s].wire
          /\ slot'[s].generation = slot[s].generation
          /\ slot'[s].birth = slot[s].birth
          /\ slot'[s].cancel = slot[s].birth
          /\ slot'[s].wireEpoch = slot[s].wireEpoch
      BY <2>1, <3>1, <3>2 DEF TypeOK, TypeSlot, SlotRecords, s
    <3>5. WireInv' /\ EpochInv' /\ CancelHitsOwner'
      BY <3>2, <3>3, <3>4 DEF IdentityInv, WireInv, EpochInv, CancelHitsOwner
    <3>6. \A u \in Slots : LastGeneration(u) \in Int /\ LastGeneration(u)' = LastGeneration(u)
      BY <3>2, <3>3, <3>4 DEF LastGeneration, TypeOK, TypeSlot, SlotRecords, Generations
    <3>7. HandedOutInv' /\ NoReqIdReuse' /\ KeyInv'
      BY <1>0, <3>2, <3>6, NothingHandedOut DEF IdentityInv, history
    <3>8. \A u \in Slots : slot'[u].st = slot[u].st /\ slot'[u].wire = slot[u].wire
      BY <3>3, <3>4
    <3>9. needsQuiesce => needsQuiesce'
      BY <3>2, Zenon
    <3>10. ExhaustionAnnounced'
      BY <3>2, <3>8, <3>9, NoNewLoss, Zenon DEF IdentityInv
    <3> QED
      BY <3>5, <3>7, <3>10 DEF IdentityInv
  <2> QED
    BY <1>6, <2>2, <2>3, <2>4, <2>5 DEF ByKey
<1>7. ASSUME NEW s \in Slots, NEW answer \in Births, BeginCapture(s, answer)
      PROVE  IdentityInv'
  BY <1>4, <1>5, <1>7 DEF BeginCapture
<1>8. ASSUME NEW t \in held, ByToken(t) PROVE IdentityInv'
  <2>1. t.slot \in Slots
    BY DEF TypeOK, TypeHeld, Artifacts
  <2>2. CASE InstallCandidate(t) \/ Retain(t) \/ Quarantine(t)
    BY <1>4, <1>5, <2>1, <2>2 DEF InstallCandidate, Retain, Quarantine, FinishDisposition,
                                  TokenMatches
  <2>3. CASE Terminalize(t)
    BY <2>1, <2>3, ExtractIdentity DEF Terminalize, TokenMatches
  <2>4. CASE Complete(t)
    <3>1. UNCHANGED <<epoch, slot, retired, needsQuiesce, handedOut, issued>>
      BY <2>4 DEF Complete, table
    <3> QED
      BY <1>1, <3>1, Zenon
  <2>5. CASE Reclaim(t)
    BY <2>5, ReclaimIdentity
  <2> QED
    BY <1>8, <2>2, <2>3, <2>4, <2>5 DEF ByToken
<1>9. CASE BeginFence \/ BeginDrain
  BY <1>1, <1>9, Zenon DEF BeginFence, BeginDrain, history
<1>10. CASE DrainNextApplication \/ DrainNextControl
  <2>1. PICK s \in Slots : slot[s].st = "Live" /\ Extract(s, held)
    BY <1>10 DEF DrainNextApplication, DrainNextControl, DrainNext, Drainable, Slots
  <2> QED
    BY <2>1, ExtractIdentity
<1> QED
  BY <1>2, <1>3, <1>6, <1>7, <1>8, <1>9, <1>10, RebindIdentity DEF Next

-----------------------------------------------------------------------------
(* Who holds what.                                                         *)

\* A slot that waits for nobody has no token out.
LEMMA NobodyHolds ==
    ASSUME HoldersMatch, NEW s, ~Awaiting(s)
    PROVE  {u \in held : u.slot # s} = held
BY DEF HoldersMatch, Expected, Awaiting, TokenMatches

\* The token out for a slot is the only one.
LEMMA OnlyHolder ==
    ASSUME HoldersMatch, NEW t \in held
    PROVE  {u \in held : u.slot # t.slot} = held \ {t}
BY DEF HoldersMatch

\* A step that touches one slot and replaces the token out for it.
LEMMA HolderReplaced ==
    ASSUME TypeHeld, HoldersMatch, epoch' = epoch, NEW s \in Slots,
           \A u \in Slots \ {s} : slot'[u] = slot[u],
           NEW new, held' = {u \in held : u.slot # s} \cup new,
           \A t \in new : t.slot = s /\ Expected(t)',
           \A t, u \in new : t = u,
           Awaiting(s)' => new # {}
    PROVE  HoldersMatch'
<1>1. \A t \in held : t.slot \in Slots
  BY DEF TypeHeld, Artifacts
<1>2. ASSUME NEW t \in held' PROVE Expected(t)'
  <2>1. CASE t \in new
    BY <2>1
  <2>2. CASE t \in held /\ t.slot # s
    <3>1. Expected(t) /\ slot'[t.slot] = slot[t.slot]
      BY <1>1, <2>2 DEF HoldersMatch
    <3> QED
      BY <3>1 DEF Expected, TokenMatches
  <2> QED
    BY <2>1, <2>2
<1>3. ASSUME NEW t \in held', NEW u \in held', t.slot = u.slot PROVE t = u
  BY <1>3 DEF HoldersMatch
<1>4. ASSUME NEW u \in Slots, Awaiting(u)' PROVE \E t \in held' : t.slot = u
  <2>1. CASE u = s
    BY <1>4, <2>1
  <2>2. CASE u # s
    <3>1. Awaiting(u)
      BY <1>4, <2>2 DEF Awaiting
    <3> QED
      BY <2>2, <3>1 DEF HoldersMatch
  <2> QED
    BY <2>1, <2>2
<1> QED
  BY <1>2, <1>3, <1>4 DEF HoldersMatch

\* The same, for a token that goes and nothing that comes.
LEMMA HolderGone ==
    ASSUME TypeHeld, HoldersMatch, epoch' = epoch, NEW s \in Slots,
           \A u \in Slots \ {s} : slot'[u] = slot[u],
           held' = {u \in held : u.slot # s}, ~Awaiting(s)'
    PROVE  HoldersMatch'
<1> DEFINE new == {}
<1>1. held' = {u \in held : u.slot # s} \cup new
  OBVIOUS
<1>2. /\ \A t \in new : t.slot = s /\ Expected(t)'
      /\ \A t, u \in new : t = u
      /\ Awaiting(s)' => new # {}
  OBVIOUS
<1> HIDE DEF new
<1> QED
  BY <1>1, <1>2, HolderReplaced, Zenon

\* The same, for a new token.
LEMMA HolderNew ==
    ASSUME TypeHeld, HoldersMatch, epoch' = epoch, NEW s \in Slots,
           \A u \in Slots \ {s} : slot'[u] = slot[u],
           NEW n, held' = {u \in held : u.slot # s} \cup {n}, n.slot = s, Expected(n)'
    PROVE  HoldersMatch'
<1> DEFINE new == {n}
<1>1. held' = {u \in held : u.slot # s} \cup new
  OBVIOUS
<1>2. \A t \in new : t = n
  OBVIOUS
<1>3. n \in new
  OBVIOUS
<1> HIDE DEF new
<1>4. \A t \in new : t.slot = s /\ Expected(t)'
  BY <1>2, Zenon
<1>5. \A t, u \in new : t = u
  BY <1>2, Zenon
<1>6. new # {}
  BY <1>3, Zenon
<1> QED
  BY <1>1, <1>4, <1>5, <1>6, HolderReplaced, Zenon

\* Tokens look at st, birth, wire, generation and epoch of their slot only.
LEMMA HoldersUndisturbed ==
    ASSUME TypeHeld, HoldersMatch, epoch' = epoch, held' = held,
           \A u \in Slots : /\ slot'[u].st = slot[u].st
                            /\ slot'[u].wire = slot[u].wire
                            /\ slot'[u].birth = slot[u].birth
                            /\ slot'[u].generation = slot[u].generation
                            /\ slot'[u].wireEpoch = slot[u].wireEpoch
    PROVE  HoldersMatch'
<1>1. \A t \in held : t.slot \in Slots
  BY DEF TypeHeld, Artifacts
<1>2. \A t \in held : Expected(t)' <=> Expected(t)
  BY <1>1 DEF Expected, TokenMatches
<1>3. \A u \in Slots : Awaiting(u)' <=> Awaiting(u)
  BY DEF Awaiting
<1> QED
  BY <1>2, <1>3 DEF HoldersMatch

\* A step that changes one slot nobody holds a token for, before or after.
LEMMA HoldersElsewhere ==
    ASSUME TypeHeld, HoldersMatch, epoch' = epoch, held' = held, NEW s \in Slots,
           \A u \in Slots \ {s} : slot'[u] = slot[u],
           ~Awaiting(s), ~Awaiting(s)'
    PROVE  HoldersMatch'
<1>1. held' = {u \in held : u.slot # s}
  BY NobodyHolds
<1> QED
  BY <1>1, HolderGone, Zenon

\* The terminal package is the one token out for its slot.
LEMMA ExtractHolders ==
    ASSUME TypeOK, HoldersMatch, NEW s \in Slots, NEW rest \in SUBSET held,
           rest = {u \in held : u.slot # s}, Extract(s, rest)
    PROVE  HoldersMatch'
<1> PICK t : t = Artifact("terminal", s, NoBirth)
  OBVIOUS
<1>1. slot'[s] = TerminalSlot(s) /\ \A u \in Slots \ {s} : slot'[u] = slot[u]
  BY ExtractType
<1>2. /\ slot'[s].st = "Terminalizing" /\ slot'[s].birth = slot[s].birth
      /\ slot'[s].wireEpoch = epoch /\ slot'[s].generation = slot[s].generation
  BY <1>1, TerminalType DEF TypeOK
<1>3. /\ t.kind = "terminal" /\ t.slot = s /\ t.birth = slot[s].birth
      /\ t.wireEpoch = epoch /\ t.generation = slot[s].generation
  BY ArtifactType, NoBirthType DEF TypeOK
<1>4. epoch' = epoch /\ held' = rest \cup {t}
  BY DEF Extract
<1>5. Expected(t)'
  BY <1>2, <1>3 DEF Expected
<1> QED
  BY <1>1, <1>3, <1>4, <1>5, HolderNew, Zenon DEF TypeOK

LEMMA KeyStepHolders ==
    ASSUME TypeOK, WireInv, HoldersMatch, NEW key \in issued, ByKey(key)
    PROVE  HoldersMatch'
<1> USE DEF TypeOK
<1> DEFINE s == key[1]
<1>1. s \in Slots /\ slot[s] \in SlotRecords
  BY KeyType DEF TypeHistory, TypeSlot
<1>2. CASE MarkVisible(key) \/ RetainAfterFence(key)
  <2>1. PICK w \in {"Visible", "BetweenPhases"} : SetWire(s, w)
    BY <1>2 DEF MarkVisible, RetainAfterFence
  <2>2. w \in WireStates
    BY DEF WireStates
  <2>3. /\ slot[s].st = "Live" /\ slot[s].wire \in {"PreparedNotVisible", "Visible"}
        /\ epoch' = epoch /\ held' = held
    BY <1>2 DEF MarkVisible, RetainAfterFence, KeyValid
  <2> HIDE DEF s
  <2>4. slot'[s].wire = w /\ slot'[s].st = slot[s].st /\ \A u \in Slots \ {s} : slot'[u] = slot[u]
    BY <1>1, <2>1, <2>2, SetWireType
  <2>5. ~Awaiting(s) /\ ~Awaiting(s)'
    BY <2>3, <2>4 DEF Awaiting
  <2> QED
    BY <1>1, <2>3, <2>4, <2>5, HoldersElsewhere
<1>3. CASE BeginPhase(key)
  <2>1. slot[s].st = "Live" /\ slot[s].wire = "BetweenPhases" /\ epoch' = epoch /\ held' = held
    BY <1>3 DEF BeginPhase, KeyValid
  <2>2. \/ slot' = [slot EXCEPT ![s].wire = "GenerationExhausted"]
        \/ \E g : slot' = [slot EXCEPT ![s].wire = "PreparedNotVisible", ![s].generation = g]
    BY <1>3, Zenon DEF BeginPhase, SetWire
  <2> HIDE DEF s
  <2>3. /\ slot'[s].st = "Live" /\ slot'[s].wire \in {"GenerationExhausted", "PreparedNotVisible"}
        /\ \A u \in Slots \ {s} : slot'[u] = slot[u]
    BY <1>1, <2>1, <2>2 DEF TypeSlot, SlotRecords
  <2>4. ~Awaiting(s) /\ ~Awaiting(s)'
    BY <2>1, <2>3 DEF Awaiting
  <2> QED
    BY <1>1, <2>1, <2>3, <2>4, HoldersElsewhere
<1>4. CASE Withdraw(key) \/ TerminalizeAfterFence(key)
  <2>1. Extract(s, held) /\ ~Awaiting(s)
    BY <1>4 DEF Withdraw, TerminalizeAfterFence, KeyValid, Awaiting
  <2> HIDE DEF s
  <2> QED
    BY <1>1, <2>1, NobodyHolds, ExtractHolders
<1>5. CASE RecordCancel(key)
  <2>1. slot' = [slot EXCEPT ![s].cancel = key[2]] /\ epoch' = epoch /\ held' = held
    BY <1>5 DEF RecordCancel
  <2> HIDE DEF s
  <2>2. \A u \in Slots : /\ slot'[u].st = slot[u].st
                         /\ slot'[u].wire = slot[u].wire
                         /\ slot'[u].birth = slot[u].birth
                         /\ slot'[u].generation = slot[u].generation
                         /\ slot'[u].wireEpoch = slot[u].wireEpoch
    BY <1>1, <2>1 DEF TypeSlot, SlotRecords
  <2> QED
    BY <2>1, <2>2, HoldersUndisturbed
<1> QED
  BY <1>2, <1>3, <1>4, <1>5 DEF ByKey

LEMMA TokenStepHolders ==
    ASSUME TypeOK, HoldersMatch, NEW t \in held, ByToken(t)
    PROVE  HoldersMatch'
<1> USE DEF TypeOK
<1> DEFINE s == t.slot
<1>1. t \in Artifacts /\ s \in Slots
  BY DEF TypeHeld, Artifacts
<1>2. held \ {t} = {u \in held : u.slot # s}
  BY OnlyHolder
<1>3. {"Captured", "BetweenPhases", "Quarantined"} \subseteq WireStates
  BY DEF WireStates
<1>4. CASE InstallCandidate(t)
  <2> DEFINE n == [t EXCEPT !.kind = "captured"]
  <2>1. /\ slot[s].st = "Live" /\ slot[s].birth = t.birth /\ t.wireEpoch = epoch
        /\ slot[s].generation = t.generation /\ SetWire(s, "Captured")
        /\ epoch' = epoch /\ held' = (held \ {t}) \cup {n}
    BY <1>4 DEF InstallCandidate, TokenMatches
  <2>2. /\ n.kind = "captured" /\ n.slot = s /\ n.birth = t.birth
        /\ n.wireEpoch = t.wireEpoch /\ n.generation = t.generation
    BY <1>1, TokenType
  <2> HIDE DEF n, s
  <2>3. /\ slot'[s].wire = "Captured" /\ \A u \in Slots \ {s} : slot'[u] = slot[u]
        /\ slot'[s].st = slot[s].st /\ slot'[s].birth = slot[s].birth
        /\ slot'[s].generation = slot[s].generation
    BY <1>1, <1>3, <2>1, SetWireType
  <2>4. Expected(n)'
    BY <2>1, <2>2, <2>3 DEF Expected, TokenMatches
  <2> QED
    BY <1>1, <1>2, <2>1, <2>2, <2>3, <2>4, HolderNew, Zenon
<1>5. ASSUME NEW w \in {"BetweenPhases", "Quarantined"}, FinishDisposition(t, w)
      PROVE  HoldersMatch'
  <2>1. slot[s].st = "Live" /\ SetWire(s, w) /\ epoch' = epoch /\ held' = held \ {t}
    BY <1>5 DEF FinishDisposition, TokenMatches
  <2> HIDE DEF s
  <2>2. /\ slot'[s].wire = w /\ \A u \in Slots \ {s} : slot'[u] = slot[u]
        /\ slot'[s].st = slot[s].st
    BY <1>1, <1>3, <2>1, SetWireType
  <2>3. ~Awaiting(s)' /\ held' = {u \in held : u.slot # s}
    BY <1>2, <2>1, <2>2 DEF Awaiting
  <2> QED
    BY <1>1, <2>1, <2>2, <2>3, HolderGone, Zenon
<1>6. CASE Retain(t) \/ Quarantine(t)
  BY <1>5, <1>6 DEF Retain, Quarantine
<1>7. CASE Terminalize(t)
  <2>1. Extract(s, held \ {t})
    BY <1>7 DEF Terminalize
  <2> HIDE DEF s
  <2> QED
    BY <1>1, <1>2, <2>1, ExtractHolders
<1>8. CASE Complete(t)
  <2> DEFINE n == [t EXCEPT !.kind = "receipt"]
  <2>1. slot' = slot /\ epoch' = epoch /\ held' = (held \ {t}) \cup {n} /\ t.kind = "terminal"
    BY <1>8 DEF Complete, table
  <2>2. /\ n.kind = "receipt" /\ n.slot = s /\ n.birth = t.birth
        /\ n.wireEpoch = t.wireEpoch /\ n.generation = t.generation
    BY <1>1, TokenType
  <2>3. Expected(t)
    BY DEF HoldersMatch
  <2> HIDE DEF n
  <2>4. Expected(n)'
    BY <2>1, <2>2, <2>3 DEF Expected
  <2> HIDE DEF s
  <2>5. \A u \in Slots \ {s} : slot'[u] = slot[u]
    BY <2>1
  <2> QED
    BY <1>1, <1>2, <2>1, <2>2, <2>4, <2>5, HolderNew, Zenon
<1>9. CASE Reclaim(t)
  <2>1. \A u \in Slots \ {s} : slot'[u] = slot[u]
    BY <1>9, ReclaimType, Zenon
  <2>2. slot'[s].st \in {"Free", "Retired"} /\ slot'[s].wire = "None"
    <3>1. t.generation \in Generations /\ ResumeGeneration(t) \in Generations
      BY <1>1 DEF Artifacts, ResumeGeneration, Generations
    <3>2. ASSUME NEW st \in {"Free", "Retired"}, NEW g \in Generations,
                 NEW next \in AppSlots \cup {NoSlot}, slot'[s] = Vacant(st, g, next)
          PROVE  slot'[s].st \in {"Free", "Retired"} /\ slot'[s].wire = "None"
      BY ONLY <3>2, VacantType, SMT
    <3>3. NoSlot \in AppSlots \cup {NoSlot}
      OBVIOUS
    <3> QED
      BY <1>9, <3>1, <3>2, <3>3, ReclaimType, Zenon
  <2>3. epoch' = epoch /\ held' = held \ {t}
    BY <1>9 DEF Reclaim
  <2> HIDE DEF s
  <2>4. ~Awaiting(s)' /\ held' = {u \in held : u.slot # s}
    BY <1>2, <2>2, <2>3 DEF Awaiting
  <2> QED
    BY <1>1, <2>1, <2>3, <2>4, HolderGone, Zenon
<1> QED
  BY <1>4, <1>6, <1>7, <1>8, <1>9 DEF ByToken

\* An admission refuses, or occupies a free slot with a generation left.
LEMMA AdmitCases ==
    ASSUME TypeOK, AdmitApplication \/ \E s \in Lanes : AdmitControl(s)
    PROVE  \/ UNCHANGED <<epoch, slot, held, issued, completed>>
           \/ \E s \in Slots : /\ slot[s].st = "Free" /\ Occupy(s)
                               /\ slot[s].generation < MaxGeneration
<1>1. \A s \in Slots : slot[s].generation \in Int
  BY DEF TypeOK, TypeSlot, SlotRecords, Generations
<1>2. freeHead # NoSlot => freeHead \in Slots
  BY DEF TypeOK, TypeTable, Slots
<1>3. CASE AdmitApplication
  BY <1>1, <1>2, <1>3 DEF AdmitApplication, Refuse, history
<1>4. ASSUME NEW s \in Lanes, AdmitControl(s)
      PROVE  \/ UNCHANGED <<epoch, slot, held, issued, completed>>
             \/ slot[s].st = "Free" /\ Occupy(s) /\ slot[s].generation < MaxGeneration
  BY <1>1, <1>4 DEF AdmitControl, Refuse, history, Slots
<1> QED
  BY <1>3, <1>4 DEF Slots

LEMMA CaptureHolders ==
    ASSUME TypeOK, HoldersMatch, NEW s \in Slots, NEW answer \in Births,
           BeginCapture(s, answer)
    PROVE  HoldersMatch'
<1> USE DEF TypeOK
<1> PICK t : t = Artifact("capture", s, answer)
  OBVIOUS
<1>1. /\ t.kind = "capture" /\ t.slot = s /\ t.birth = slot[s].birth
      /\ t.wireEpoch = epoch /\ t.generation = slot[s].generation
  BY ArtifactType
<1>2. /\ slot[s].st = "Live" /\ slot[s].wire = "Visible" /\ SetWire(s, "Capturing")
      /\ epoch' = epoch /\ held' = held \cup {t}
  BY DEF BeginCapture
<1>3. "Capturing" \in WireStates
  BY DEF WireStates
<1>4. /\ slot'[s].wire = "Capturing" /\ \A u \in Slots \ {s} : slot'[u] = slot[u]
      /\ slot'[s].st = slot[s].st /\ slot'[s].birth = slot[s].birth
      /\ slot'[s].generation = slot[s].generation
  BY <1>2, <1>3, SetWireType
<1>5. Expected(t)'
  BY <1>1, <1>2, <1>4 DEF Expected, TokenMatches
<1>6. held' = {u \in held : u.slot # s} \cup {t}
  BY <1>2, NobodyHolds DEF Awaiting
<1> QED
  BY <1>1, <1>2, <1>4, <1>5, <1>6, HolderNew, Zenon

\* No capture is under way when the session is rebound, and a package or a
\* receipt names the epoch of its own identifier, not the table's.
LEMMA RebindHolders ==
    ASSUME TypeOK, WireInv, HoldersMatch, RebindSession
    PROVE  HoldersMatch'
<1>1. held' = held /\ AllResolved
  BY DEF RebindSession
<1>2. \A t \in held : t.slot \in Slots /\ t.kind \in {"capture", "captured", "terminal", "receipt"}
  BY DEF TypeOK, TypeHeld, Artifacts
<1>3. \A u \in Slots : /\ slot[u].st = "Terminalizing" => slot'[u] = slot[u]
                       /\ slot[u].st # "Terminalizing" => slot'[u].st # "Terminalizing"
  <2>1. NoSlot \in AppSlots \cup {NoSlot} /\ 0 \in Generations
    BY DEF Generations
  <2> QED
    BY <2>1, RebindType, VacantType
<1>4. \A u \in Slots : ~(slot[u].st = "Live" /\ slot[u].wire \in {"Capturing", "Captured"})
  BY <1>1 DEF AllResolved, Slots
<1>5. ASSUME NEW t \in held PROVE Expected(t)'
  <2>1. Expected(t)
    BY DEF HoldersMatch
  <2>2. t.kind \in {"terminal", "receipt"}
    BY <1>2, <1>4, <2>1 DEF Expected, TokenMatches
  <2> QED
    BY <1>2, <1>3, <2>1, <2>2 DEF Expected
<1>6. \A u \in Slots : slot[u].st # "Terminalizing" =>
                       slot'[u].wire \in {"None", slot[u].wire, "BetweenPhases"}
  <2>1. NoSlot \in AppSlots \cup {NoSlot} /\ 0 \in Generations
    BY DEF Generations
  <2> QED
    BY <2>1, RebindType, VacantType
<1>7. ASSUME NEW u \in Slots, Awaiting(u)' PROVE Awaiting(u)
  BY <1>3, <1>6, <1>7 DEF Awaiting
<1> QED
  BY <1>1, <1>5, <1>7 DEF HoldersMatch

LEMMA HolderStep ==
    ASSUME TypeOK, IdentityInv, HoldersMatch, Next
    PROVE  HoldersMatch'
<1>1. WireInv
  BY DEF IdentityInv
<1>2. ASSUME UNCHANGED <<epoch, slot, held>> PROVE HoldersMatch'
  BY <1>2 DEF HoldersMatch, Expected, TokenMatches, Awaiting
<1>3. ASSUME NEW s \in Slots, slot[s].st = "Free", Occupy(s),
             slot[s].generation < MaxGeneration
      PROVE  HoldersMatch'
  <2> DEFINE g == slot[s].generation + 1
  <2>1. /\ g \in Generations /\ <<epoch, g>> \in Births
        /\ slot'[s] = LiveSlot(<<epoch, g>>, g)
        /\ \A u \in Slots \ {s} : slot'[u] = slot[u]
    BY <1>3, OccupyType, Zenon
  <2>2. slot'[s].wire = "PreparedNotVisible" /\ slot'[s].st = "Live"
    BY <2>1, LiveType
  <2>3. ~Awaiting(s) /\ ~Awaiting(s)'
    BY <1>1, <1>3, <2>2 DEF Awaiting, WireInv
  <2>4. epoch' = epoch /\ held' = held
    BY <1>3 DEF Occupy
  <2> HIDE DEF g
  <2> QED
    BY <2>1, <2>3, <2>4, HoldersElsewhere, Zenon DEF TypeOK
<1>4. CASE AdmitApplication \/ \E s \in Lanes : AdmitControl(s)
  BY <1>2, <1>3, <1>4, AdmitCases, Zenon
<1>5. CASE BeginFence \/ BeginDrain
  BY <1>2, <1>5, Zenon DEF BeginFence, BeginDrain
<1>6. CASE DrainNextApplication \/ DrainNextControl
  <2>1. PICK s \in Slots : Drainable(s) /\ Extract(s, held)
    BY <1>6 DEF DrainNextApplication, DrainNextControl, DrainNext, Slots
  <2>2. ~Awaiting(s)
    BY <2>1 DEF Drainable, Awaiting
  <2> QED
    BY <2>1, <2>2, NobodyHolds, ExtractHolders
<1> QED
  BY <1>1, <1>4, <1>5, <1>6, KeyStepHolders, TokenStepHolders, CaptureHolders, RebindHolders
     DEF Next

-----------------------------------------------------------------------------
(* Every token still quotes the identifier it was made for.                *)

LEMMA AnswerStep ==
    ASSUME TypeOK, AnswerInv, HoldersMatch, Next
    PROVE  AnswerInv'
<1> USE DEF AnswerInv
<1>1. ASSUME held' \subseteq held PROVE AnswerInv'
  BY <1>1
<1>2. ASSUME NEW s \in Slots, NEW rest \in SUBSET held, Extract(s, rest) PROVE AnswerInv'
  <2> PICK t : t = Artifact("terminal", s, NoBirth)
    OBVIOUS
  <2>1. t.kind = "terminal"
    BY ArtifactType, NoBirthType DEF TypeOK
  <2>2. held' = rest \cup {t}
    BY <1>2 DEF Extract
  <2> QED
    BY <2>1, <2>2
<1>3. ASSUME NEW s \in Slots, NEW answer \in Births, BeginCapture(s, answer) PROVE AnswerInv'
  <2> PICK t : t = Artifact("capture", s, answer)
    OBVIOUS
  <2>1. /\ t.wireEpoch = epoch /\ t.generation = slot[s].generation
        /\ t.answer = answer
    BY ArtifactType DEF TypeOK
  <2>2. /\ answer[1] = epoch /\ answer[2] = slot[s].generation
        /\ held' = held \cup {t}
    BY <1>3 DEF BeginCapture
  <2>3. answer = <<answer[1], answer[2]>>
    BY DEF Births
  <2> QED
    BY <2>1, <2>2, <2>3
<1>4. ASSUME NEW t \in held, NEW kind \in {"captured", "receipt"},
             held' = (held \ {t}) \cup {[t EXCEPT !.kind = kind]},
             kind = "captured" => t.kind = "capture"
      PROVE  AnswerInv'
  <2> DEFINE n == [t EXCEPT !.kind = kind]
  <2>1. t \in Artifacts
    BY DEF TypeOK, TypeHeld
  <2>2. /\ n.kind = kind /\ n.wireEpoch = t.wireEpoch /\ n.generation = t.generation
        /\ n.answer = t.answer
    BY <2>1, TokenType
  <2> HIDE DEF n
  <2>3. held' = (held \ {t}) \cup {n}
    BY <1>4 DEF n
  <2> QED
    BY <1>4, <2>2, <2>3
<1>5. ASSUME NEW t \in held, ByToken(t) PROVE AnswerInv'
  <2>1. t.slot \in Slots
    BY DEF TypeOK, TypeHeld, Artifacts
  <2>2. CASE InstallCandidate(t) \/ Complete(t)
    BY <1>4, <2>2 DEF InstallCandidate, Complete
  <2>3. CASE Terminalize(t)
    BY <1>2, <2>1, <2>3 DEF Terminalize
  <2>4. CASE Retain(t) \/ Quarantine(t) \/ Reclaim(t)
    <3>1. held' = held \ {t}
      BY <2>4, Zenon DEF Retain, Quarantine, FinishDisposition, Reclaim
    <3> QED
      BY <1>1, <3>1
  <2> QED
    BY <1>5, <2>2, <2>3, <2>4 DEF ByToken
<1>6. ASSUME NEW key \in issued, ByKey(key) PROVE AnswerInv'
  <2>1. key[1] \in Slots
    BY KeyType DEF TypeOK, TypeHistory
  <2>2. CASE Withdraw(key) \/ TerminalizeAfterFence(key)
    BY <1>2, <2>1, <2>2 DEF Withdraw, TerminalizeAfterFence
  <2>3. CASE MarkVisible(key) \/ BeginPhase(key) \/ RecordCancel(key) \/ RetainAfterFence(key)
    <3>1. held' = held
      BY <2>3, Zenon DEF MarkVisible, BeginPhase, RecordCancel, RetainAfterFence
    <3> QED
      BY <1>1, <3>1
  <2> QED
    BY <1>6, <2>2, <2>3 DEF ByKey
<1>7. CASE AdmitApplication \/ \E s \in Lanes : AdmitControl(s)
  <2>1. held' = held
    BY <1>7, AdmitCases, Zenon DEF Occupy
  <2> QED
    BY <1>1, <2>1
<1>8. CASE BeginFence \/ BeginDrain \/ RebindSession
  <2>1. held' = held
    BY <1>8, Zenon DEF BeginFence, BeginDrain, RebindSession
  <2> QED
    BY <1>1, <2>1
<1>9. CASE DrainNextApplication \/ DrainNextControl
  BY <1>2, <1>9 DEF DrainNextApplication, DrainNextControl, DrainNext, Slots
<1> QED
  BY <1>3, <1>5, <1>6, <1>7, <1>8, <1>9, Zenon DEF Next

-----------------------------------------------------------------------------
(* Where each completion owner is.                                         *)

LEMMA InLiveKeys ==
    ASSUME NEW k
    PROVE  k \in LiveKeys <=> \E s \in Slots : slot[s].st = "Live" /\ k = <<s, slot[s].birth>>
BY DEF LiveKeys

LEMMA InPackagedKeys ==
    ASSUME NEW k
    PROVE  k \in PackagedKeys <=> \E t \in held : t.kind = "terminal" /\ k = <<t.slot, t.birth>>
BY DEF PackagedKeys

LEMMA LiveKept ==
    ASSUME \A u \in Slots : /\ slot'[u].st = "Live" <=> slot[u].st = "Live"
                            /\ slot[u].st = "Live" => slot'[u].birth = slot[u].birth
    PROVE  LiveKeys' = LiveKeys
BY DEF LiveKeys

LEMMA PackagedKept ==
    ASSUME \A t : t.kind = "terminal" => (t \in held' <=> t \in held)
    PROVE  PackagedKeys' = PackagedKeys
BY DEF PackagedKeys

LEMMA OwnersKept ==
    ASSUME OwnerConserved, issued' = issued, completed' = completed,
           LiveKeys' = LiveKeys, PackagedKeys' = PackagedKeys
    PROVE  OwnerConserved'
BY DEF OwnerConserved

\* The owner moves from the slot into the package.
LEMMA ExtractOwners ==
    ASSUME TypeOK, OwnerConserved, NEW s \in Slots, slot[s].st = "Live",
           NEW rest \in SUBSET held, \A u \in held \ rest : u.kind # "terminal",
           Extract(s, rest)
    PROVE  OwnerConserved'
<1> DEFINE k == <<s, slot[s].birth>>
<1> PICK t : t = Artifact("terminal", s, NoBirth)
  OBVIOUS
<1>1. t.kind = "terminal" /\ <<t.slot, t.birth>> = k
  BY ArtifactType, NoBirthType DEF TypeOK
<1>2. held' = rest \cup {t} /\ issued' = issued /\ completed' = completed
  BY DEF Extract, history
<1>3. slot'[s] = TerminalSlot(s) /\ \A u \in Slots \ {s} : slot'[u] = slot[u]
  BY ExtractType
<1>4. slot'[s].st = "Terminalizing"
  BY <1>3, TerminalType DEF TypeOK
<1>5. LiveKeys' = LiveKeys \ {k} /\ k \in LiveKeys
  BY <1>3, <1>4 DEF LiveKeys
<1> HIDE DEF k
<1>6. PackagedKeys' = PackagedKeys \cup {k}
  BY <1>1, <1>2 DEF PackagedKeys
<1> QED
  BY <1>2, <1>5, <1>6 DEF OwnerConserved

\* The package gives its owner up to the caller that completes it.
LEMMA CompleteOwners ==
    ASSUME TypeOK, HoldersMatch, OwnerConserved, NEW t \in held, Complete(t)
    PROVE  OwnerConserved'
<1> DEFINE k == <<t.slot, t.birth>>
           n == [t EXCEPT !.kind = "receipt"]
<1>1. n.kind = "receipt"
  BY TokenType DEF TypeOK, TypeHeld
<1>2. /\ slot' = slot /\ issued' = issued /\ t.kind = "terminal"
      /\ held' = (held \ {t}) \cup {n} /\ completed' = completed \cup {k}
  BY DEF Complete, table
<1>3. LiveKeys' = LiveKeys
  BY <1>2 DEF LiveKeys
<1>4. \A u \in held : u.kind = "terminal" /\ <<u.slot, u.birth>> = k => u = t
  BY DEF HoldersMatch
<1> HIDE DEF n
<1>5. PackagedKeys' = PackagedKeys \ {k} /\ k \in PackagedKeys
  BY <1>1, <1>2, <1>4 DEF PackagedKeys
<1> HIDE DEF k
<1> QED
  BY <1>2, <1>3, <1>5 DEF OwnerConserved

\* A newly admitted request has a key nobody had before.
LEMMA OccupyOwners ==
    ASSUME TypeOK, IdentityInv, OwnerConserved, NEW s \in Slots, slot[s].st = "Free",
           slot[s].generation < MaxGeneration, Occupy(s)
    PROVE  OwnerConserved'
<1> DEFINE g == slot[s].generation + 1
           k == <<s, <<epoch, g>>>>
<1>1. /\ g \in Generations /\ <<epoch, g>> \in Births
      /\ slot'[s] = LiveSlot(<<epoch, g>>, g)
      /\ \A u \in Slots \ {s} : slot'[u] = slot[u]
  BY OccupyType, Zenon
<1>2. held' = held /\ completed' = completed /\ issued' = issued \cup {k}
  BY DEF Occupy
<1>3. k \notin issued
  <2>1. LastGeneration(s) = slot[s].generation /\ slot[s].generation \in Int
    BY DEF LastGeneration, TypeOK, TypeSlot, SlotRecords, Generations
  <2>2. epoch \in Epochs /\ g > LastGeneration(s)
    BY <2>1 DEF TypeOK, TypeTable
  <2>3. handedOut[<<s, epoch, g>>] = 0
    BY <1>1, <2>2 DEF IdentityInv, HandedOutInv
  <2> HIDE DEF g
  <2>4. k \in issued => handedOut[<<s, epoch, g>>] > 0
    BY DEF IdentityInv, KeyInv
  <2> QED
    BY <2>3, <2>4
<1> HIDE DEF g
<1>4. slot'[s].st = "Live" /\ slot'[s].birth = <<epoch, g>>
  BY <1>1, LiveType
<1>5. LiveKeys' = LiveKeys \cup {k}
  BY <1>1, <1>4 DEF LiveKeys
<1> HIDE DEF k
<1>6. PackagedKeys' = PackagedKeys
  BY <1>2 DEF PackagedKeys
<1> QED
  BY <1>2, <1>3, <1>5, <1>6 DEF OwnerConserved

LEMMA WireOwners ==
    ASSUME TypeOK, OwnerConserved, NEW s \in Slots, NEW w \in WireStates, SetWire(s, w),
           issued' = issued, completed' = completed,
           \A t : t.kind = "terminal" => (t \in held' <=> t \in held)
    PROVE  OwnerConserved'
<1>1. \A u \in Slots : slot'[u].st = slot[u].st /\ slot'[u].birth = slot[u].birth
  <2>1. /\ slot'[s].st = slot[s].st /\ slot'[s].birth = slot[s].birth
        /\ \A u \in Slots \ {s} : slot'[u] = slot[u]
    BY SetWireType DEF TypeOK
  <2> QED
    BY <2>1
<1>2. LiveKeys' = LiveKeys
  BY <1>1, LiveKept
<1>3. PackagedKeys' = PackagedKeys
  BY PackagedKept
<1> QED
  BY <1>2, <1>3, OwnersKept

LEMMA KeyStepOwners ==
    ASSUME TypeOK, OwnerConserved, NEW key \in issued, ByKey(key)
    PROVE  OwnerConserved'
<1> DEFINE s == key[1]
<1>1. s \in Slots /\ slot[s] \in SlotRecords
  BY KeyType DEF TypeOK, TypeHistory, TypeSlot
<1>2. ASSUME held' = held, issued' = issued, completed' = completed,
             \A u \in Slots : slot'[u].st = slot[u].st /\ slot'[u].birth = slot[u].birth
      PROVE  OwnerConserved'
  <2>1. PackagedKeys' = PackagedKeys
    BY <1>2 DEF PackagedKeys
  <2> QED
    BY <1>2, <2>1, LiveKept, OwnersKept
<1>3. CASE MarkVisible(key) \/ RetainAfterFence(key)
  <2>1. PICK w \in {"Visible", "BetweenPhases"} : SetWire(s, w)
    BY <1>3 DEF MarkVisible, RetainAfterFence
  <2>2. held' = held /\ issued' = issued /\ completed' = completed
    BY <1>3 DEF MarkVisible, RetainAfterFence, history
  <2>3. w \in WireStates
    BY DEF WireStates
  <2> HIDE DEF s
  <2> QED
    BY <1>1, <2>1, <2>2, <2>3, WireOwners, Zenon
<1>4. CASE BeginPhase(key) \/ RecordCancel(key)
  <2>1. \/ slot' = [slot EXCEPT ![s].wire = "GenerationExhausted"]
        \/ \E g : slot' = [slot EXCEPT ![s].wire = "PreparedNotVisible", ![s].generation = g]
        \/ slot' = [slot EXCEPT ![s].cancel = key[2]]
    BY <1>4, Zenon DEF BeginPhase, SetWire, RecordCancel
  <2>2. held' = held /\ issued' = issued /\ completed' = completed
    BY <1>4, Zenon DEF BeginPhase, RecordCancel, history
  <2> HIDE DEF s
  <2>3. \A u \in Slots : slot'[u].st = slot[u].st /\ slot'[u].birth = slot[u].birth
    BY <1>1, <2>1 DEF TypeOK, TypeSlot, SlotRecords
  <2> QED
    BY <1>2, <2>2, <2>3
<1>5. CASE Withdraw(key) \/ TerminalizeAfterFence(key)
  <2>1. Extract(s, held) /\ slot[s].st = "Live"
    BY <1>5 DEF Withdraw, TerminalizeAfterFence, KeyValid
  <2> HIDE DEF s
  <2> QED
    BY <1>1, <2>1, ExtractOwners
<1> QED
  BY <1>3, <1>4, <1>5 DEF ByKey

LEMMA TokenStepOwners ==
    ASSUME TypeOK, HoldersMatch, OwnerConserved, NEW t \in held, ByToken(t)
    PROVE  OwnerConserved'
<1>1. t \in Artifacts /\ t.slot \in Slots
  BY DEF TypeOK, TypeHeld, Artifacts
<1>2. {"Captured", "BetweenPhases", "Quarantined"} \subseteq WireStates
  BY DEF WireStates
<1>3. CASE InstallCandidate(t)
  <2> DEFINE n == [t EXCEPT !.kind = "captured"]
  <2>1. n.kind = "captured"
    BY <1>1, TokenType
  <2> HIDE DEF n
  <2>2. /\ SetWire(t.slot, "Captured") /\ t.kind = "capture" /\ held' = (held \ {t}) \cup {n}
        /\ issued' = issued /\ completed' = completed
    BY <1>3 DEF InstallCandidate, history, n
  <2>3. \A u : u.kind = "terminal" => (u \in held' <=> u \in held)
    BY <2>1, <2>2
  <2> QED
    BY <1>1, <1>2, <2>2, <2>3, WireOwners
<1>4. CASE Retain(t) \/ Quarantine(t)
  <2>1. PICK w \in {"BetweenPhases", "Quarantined"} : FinishDisposition(t, w)
    BY <1>4 DEF Retain, Quarantine
  <2>2. /\ SetWire(t.slot, w) /\ t.kind = "captured" /\ held' = held \ {t}
        /\ issued' = issued /\ completed' = completed
    BY <2>1 DEF FinishDisposition, history
  <2>3. \A u : u.kind = "terminal" => (u \in held' <=> u \in held)
    BY <2>2
  <2> QED
    BY <1>1, <1>2, <2>2, <2>3, WireOwners
<1>5. CASE Terminalize(t)
  <2>1. Extract(t.slot, held \ {t}) /\ t.kind = "captured" /\ slot[t.slot].st = "Live"
    BY <1>5 DEF Terminalize, TokenMatches
  <2> QED
    BY <1>1, <2>1, ExtractOwners
<1>6. CASE Reclaim(t)
  <2>1. /\ t.kind = "receipt" /\ held' = held \ {t} /\ issued' = issued
        /\ completed' = completed /\ slot[t.slot].st = "Terminalizing"
    BY <1>6 DEF Reclaim, ReceiptMatches, history
  <2>2. slot'[t.slot].st # "Live"
    <3>1. t.generation \in Generations /\ ResumeGeneration(t) \in Generations
      BY <1>1 DEF Artifacts, ResumeGeneration, Generations
    <3>2. ASSUME NEW st \in {"Free", "Retired"}, NEW g \in Generations,
                 NEW next \in AppSlots \cup {NoSlot}, slot'[t.slot] = Vacant(st, g, next)
          PROVE  slot'[t.slot].st # "Live"
      BY ONLY <3>2, VacantType, SMT
    <3>3. NoSlot \in AppSlots \cup {NoSlot}
      OBVIOUS
    <3> QED
      BY <1>6, <3>1, <3>2, <3>3, ReclaimType, Zenon
  <2>3. \A u \in Slots \ {t.slot} : slot'[u] = slot[u]
    BY <1>6, ReclaimType, Zenon
  <2>4. LiveKeys' = LiveKeys
    BY <2>1, <2>2, <2>3, LiveKept
  <2>5. PackagedKeys' = PackagedKeys
    BY <2>1, PackagedKept
  <2> QED
    BY <2>1, <2>4, <2>5, OwnersKept
<1> QED
  BY <1>3, <1>4, <1>5, <1>6, CompleteOwners DEF ByToken

LEMMA OwnerStep ==
    ASSUME TypeOK, IdentityInv, HoldersMatch, OwnerConserved, Next
    PROVE  OwnerConserved'
<1>1. ASSUME UNCHANGED <<slot, held, issued, completed>> PROVE OwnerConserved'
  BY <1>1 DEF OwnerConserved, LiveKeys, PackagedKeys
<1>2. CASE AdmitApplication \/ \E s \in Lanes : AdmitControl(s)
  BY <1>1, <1>2, AdmitCases, OccupyOwners, Zenon
<1>3. CASE BeginFence \/ BeginDrain
  BY <1>1, <1>3, Zenon DEF BeginFence, BeginDrain, history
<1>4. CASE DrainNextApplication \/ DrainNextControl
  <2>1. PICK s \in Slots : slot[s].st = "Live" /\ Extract(s, held)
    BY <1>4 DEF DrainNextApplication, DrainNextControl, DrainNext, Drainable, Slots
  <2> QED
    BY <2>1, ExtractOwners
<1>5. ASSUME NEW s \in Slots, NEW answer \in Births, BeginCapture(s, answer)
      PROVE  OwnerConserved'
  <2> PICK t : t = Artifact("capture", s, answer)
    OBVIOUS
  <2>1. t.kind = "capture" /\ "Capturing" \in WireStates
    BY ArtifactType DEF TypeOK, WireStates
  <2>2. /\ SetWire(s, "Capturing") /\ held' = held \cup {t}
        /\ issued' = issued /\ completed' = completed
    BY <1>5 DEF BeginCapture, history
  <2>3. \A u : u.kind = "terminal" => (u \in held' <=> u \in held)
    BY <2>1, <2>2
  <2> QED
    BY <2>1, <2>2, <2>3, WireOwners
<1>6. CASE RebindSession
  <2>1. held' = held /\ issued' = issued /\ completed' = completed
    BY <1>6 DEF RebindSession, history
  <2>2. NoSlot \in AppSlots \cup {NoSlot} /\ 0 \in Generations
    BY DEF Generations
  <2>3. \A u \in Slots : /\ slot'[u].st = "Live" <=> slot[u].st = "Live"
                         /\ slot[u].st = "Live" => slot'[u].birth = slot[u].birth
    BY <1>6, <2>2, RebindType, VacantType
  <2>4. LiveKeys' = LiveKeys
    BY <2>3, LiveKept
  <2>5. PackagedKeys' = PackagedKeys
    BY <2>1 DEF PackagedKeys
  <2> QED
    BY <2>1, <2>4, <2>5, OwnersKept
<1> QED
  BY <1>2, <1>3, <1>4, <1>5, <1>6, KeyStepOwners, TokenStepOwners DEF Next

-----------------------------------------------------------------------------
(* The table as built.                                                     *)

LEMMA InitInv == Init => IndInv
<1> SUFFICES ASSUME Init PROVE IndInv
  OBVIOUS
<1>1. TypeOK
  BY InitType
<1>2. ASSUME NEW s \in Slots
      PROVE  /\ slot[s].st = "Free" /\ slot[s].wire = "None" /\ slot[s].generation = 0
             /\ slot[s].birth = NoBirth /\ slot[s].cancel = NoBirth
  BY DEF Init, Vacant
<1>3. RetiredCounted
  <2>1. RetiredSlots = {}
    BY <1>2 DEF RetiredSlots, Slots
  <2>2. retired = 0
    BY DEF Init
  <2> QED
    BY <2>1, <2>2, FS_EmptySet DEF RetiredCounted
<1>4. LossAnnounced
  BY <1>2, Zenon DEF LossAnnounced, OutOfGenerations
<1>5. WireInv /\ EpochInv /\ CancelHitsOwner
  BY <1>2 DEF WireInv, EpochInv, CancelHitsOwner
<1>6. HandedOutInv /\ NoReqIdReuse /\ KeyInv
  BY DEF Init, HandedOutInv, NoReqIdReuse, KeyInv
<1>7. AnswerInv /\ HoldersMatch
  BY <1>2 DEF Init, AnswerInv, HoldersMatch, Awaiting
<1>8. LiveKeys = {}
  BY <1>2 DEF LiveKeys
<1>9. OwnerConserved
  BY <1>8 DEF Init, OwnerConserved, PackagedKeys
<1> QED
  BY <1>1, <1>3, <1>4, <1>5, <1>6, <1>7, <1>9 DEF IndInv, IdentityInv, ExhaustionAnnounced

LEMMA InvStep == IndInv /\ [Next]_vars => IndInv'
<1> SUFFICES ASSUME IndInv, [Next]_vars PROVE IndInv'
  OBVIOUS
<1>1. TypeOK /\ IdentityInv /\ AnswerInv /\ HoldersMatch /\ OwnerConserved
  BY DEF IndInv
<1>2. CASE Next
  <2>1. TypeOK'
    BY <1>1, <1>2, TypeStep, Zenon
  <2>2. IdentityInv'
    BY <1>1, <1>2, IdentityStep, Zenon
  <2>3. AnswerInv' /\ HoldersMatch'
    BY <1>1, <1>2, AnswerStep, HolderStep, Zenon
  <2>4. OwnerConserved'
    BY <1>1, <1>2, OwnerStep, Zenon
  <2> QED
    BY <2>1, <2>2, <2>3, <2>4, Zenon DEF IndInv
<1>3. CASE UNCHANGED vars
  <2> USE <1>3 DEF vars, table, history
  <2>1. TypeOK'
    BY <1>1, Zenon DEF TypeOK, TypeTable, TypeSlot, TypeHeld, TypeHistory
  <2>2. WireInv' /\ EpochInv' /\ CancelHitsOwner'
    BY <1>1 DEF IdentityInv, WireInv, EpochInv, CancelHitsOwner
  <2>3. HandedOutInv' /\ NoReqIdReuse' /\ KeyInv'
    BY <1>1 DEF IdentityInv, HandedOutInv, LastGeneration, NoReqIdReuse, KeyInv
  <2>4. ExhaustionAnnounced'
    BY <1>1, Zenon DEF IdentityInv, ExhaustionAnnounced, RetiredCounted, RetiredSlots,
                       LossAnnounced, OutOfGenerations
  <2>5. AnswerInv' /\ HoldersMatch'
    BY <1>1 DEF AnswerInv, HoldersMatch, Expected, TokenMatches, Awaiting
  <2>6. OwnerConserved'
    BY <1>1 DEF OwnerConserved, LiveKeys, PackagedKeys
  <2> QED
    BY <2>1, <2>2, <2>3, <2>4, <2>5, <2>6, Zenon DEF IndInv, IdentityInv
<1> QED
  BY <1>2, <1>3

-----------------------------------------------------------------------------
(* The theorems.                                                           *)

\* The inductive invariant of the request table (reqtab.rs, every method).
THEOREM Invariant == Spec => []IndInv
BY InitInv, InvStep, PTL DEF Spec

\* Every field keeps its type and no generation passes REQ_GENERATION_MAX.
THEOREM TypeCorrect == Spec => []TypeOK
<1>1. IndInv => TypeOK
  BY DEF IndInv
<1> QED
  BY <1>1, Invariant, PTL

\* admit_*, begin_*_phase, reclaim_* and rebind_session together never hand a
\* request identifier out twice in an epoch.
THEOREM IdentifiersFresh == Spec => []NoReqIdReuse
<1>1. IndInv => NoReqIdReuse
  BY DEF IndInv, IdentityInv
<1> QED
  BY <1>1, Invariant, PTL

\* What begin_capture accepted is still the slot's identifier while the
\* candidate is in hand, whatever fence or rebind was called meanwhile.
THEOREM AnswersCurrent == Spec => []AnswerMatchesPhase
<1>1. IndInv => AnswerMatchesPhase
  BY DEF IndInv, AnswerInv, HoldersMatch, Expected, TokenMatches, AnswerMatchesPhase
<1> QED
  BY <1>1, Invariant, PTL

\* Capture tokens, candidates, terminal packages and receipts stay in
\* one-to-one agreement with the slots that wait for them.
THEOREM HoldersAgree == Spec => []HoldersMatch
<1>1. IndInv => HoldersMatch
  BY DEF IndInv
<1> QED
  BY <1>1, Invariant, PTL

\* Every admitted owner is in one slot, in one package, or completed once.
THEOREM OwnersConserved == Spec => []OwnerConserved
<1>1. IndInv => OwnerConserved
  BY DEF IndInv
<1> QED
  BY <1>1, Invariant, PTL

\* record_cancel marks only the request its key was issued for.
THEOREM CancelsHitOwner == Spec => []CancelHitsOwner
<1>1. IndInv => CancelHitsOwner
  BY DEF IndInv, IdentityInv
<1> QED
  BY <1>1, Invariant, PTL

\* Retired slots are counted, and no generation is lost unannounced.
THEOREM ExhaustionReported == Spec => []ExhaustionAnnounced
<1>1. IndInv => ExhaustionAnnounced
  BY DEF IndInv, IdentityInv
<1> QED
  BY <1>1, Invariant, PTL
=============================================================================
