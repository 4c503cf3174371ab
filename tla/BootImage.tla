----------------------------- MODULE BootImage ------------------------------
(***************************************************************************)
(* The records of the BootContext section: how the driver plans, seals and  *)
(* stores the header word by word, how a header and a slot are validated,   *)
(* and the tokens derived from them.  BootLoad models who publishes when;   *)
(* here a record is looked at while its words are being stored.             *)
(*                                                                         *)
(* The driver publishes the header and writes FREE slots; it validates      *)
(* every slot but no code of it stages one yet.  The publisher of the other *)
(* slot states and the caller that asks for tokens are external.            *)
(***************************************************************************)
EXTENDS StreamDigest

CONSTANTS U64_MAX,                  \* one less than a power of two
          BOOT_CONTEXT_SLOT_COUNT,
          LastHeaderSequence,       \* bound: the last header publication looked at
          TokenInputs               \* what tokens are asked for

VARIABLES header, slots,   \* the stored records
          from, to,        \* the publication in progress, or the last one
          target,          \* the record it stores into: 0 is the header
          left,            \* the words still to be stored
          token

bootvars == <<header, slots, from, to, target, left, token>>

BOOT_CONTEXT_HEADER_DIGEST_DOMAIN == Domain(3, 22)
BOOT_CONTEXT_SLOT_DIGEST_DOMAIN == Domain(4, 20)
RETIRE_TOKEN_DOMAIN_V2 == Domain(5, 17)
STATE_TOKEN_DOMAIN_V2 == Domain(6, 22)

ServiceSid(n) == <<1, 6, 0, 0, 0, 0, 0, 5, 80, 0, 0, 0>> \o [i \in 1..20 |-> n]
is_dedicated_service_sid_v1(sid) == Len(sid) = 32 /\ SubSeq(sid, 1, 12) = <<1, 6, 0, 0, 0, 0, 0, 5, 80, 0, 0, 0>>

\* The digest field of a record is four words; two are told apart here.
DigestWords(digest) == [w \in 1..2 |-> <<w, digest>>]
NoDigest == DigestWords(<<>>)

-----------------------------------------------------------------------------
(* Images and digests.                                                      *)

encode_header(h) ==
    Image(256, <<put_u64(0, h.magic), put_u32(8, h.format_version), put_u32(12, h.header_size), put_u32(16, h.context_size),
                 put_u32(20, h.slot_size), put_u32(24, h.slot_count), put_u32(28, h.init_state), put_u32(32, h.flags),
                 put_u32(36, h.reserved0), put_u64(40, h.header_sequence), put_u64(48, h.mount_sequence),
                 put_u64(56, h.mount_sequence_complement), put_u64(64, h.load_generation),
                 put_u64(72, h.load_generation_complement), PutId(80, h.boot_instance_id),
                 <<96, h.per_boot_retire_key>>, <<128, Zeros(32)>>, <<160, h.reserved>>>>)

encode_slot(s) ==
    Image(256, <<put_u64(0, s.sequence), put_u32(8, s.state), put_u32(12, s.service_sid_length), put_u64(16, s.load_generation),
                 put_u64(24, s.mount_sequence), put_u64(32, s.mount_lo), put_u64(40, s.mount_hi), PutId(48, s.boot_instance_id),
                 put_u64(64, s.latest_session_epoch), put_u64(72, s.features), put_u64(80, s.features_high),
                 put_u32(88, s.journal_version), put_u32(92, s.flags), <<96, s.service_sid>>, <<164, s.reserved>>,
                 <<224, Zeros(32)>>>>)

boot_context_header_digest_v1(h) ==
    DigestWords(Sha256_finalize(Updates(Sha256_new, <<BOOT_CONTEXT_HEADER_DIGEST_DOMAIN, encode_header(h)>>)))

boot_context_slot_digest_v1(slot_index, s) ==
    IF slot_index >= BOOT_CONTEXT_SLOT_COUNT THEN NoDigest
    ELSE DigestWords(Sha256_finalize(
             Updates(Sha256_new, <<BOOT_CONTEXT_SLOT_DIGEST_DOMAIN, LE(slot_index, 4), encode_slot(s)>>)))

-----------------------------------------------------------------------------
(* The validators.  They return "Ok" or the error.                          *)

BOOT_CONTEXT_MAGIC == 77
BOOT_CONTEXT_VERSION == 1
BOOT_CONTEXT_HEADER_BYTES == 256
BOOT_CONTEXT_SECTION_BYTES == 65536
BOOT_CONTEXT_SLOT_BYTES == 256
INITIALIZING == 1
READY == 2
FREE == 0
STAGING == 1
LIVE == 2
TERMINALIZING == 3
TERMINAL == 4

Odd(n) == n % 2 # 0
Complement(n) == U64_MAX - n
fixed_or_reduce(bytes) == Max(Range(bytes))

\* The sequence after so many publications; zero when there is no such number.
checked_boot_context_publication_sequence(current, publications) ==
    IF current = 0 \/ Odd(current) \/ publications = 0 \/ current + 2 * publications > U64_MAX THEN 0
    ELSE current + 2 * publications

validate_header_record(h) ==
    CASE \/ h.magic # BOOT_CONTEXT_MAGIC \/ h.format_version # BOOT_CONTEXT_VERSION
         \/ h.header_size # BOOT_CONTEXT_HEADER_BYTES \/ h.context_size # BOOT_CONTEXT_SECTION_BYTES
         \/ h.slot_size # BOOT_CONTEXT_SLOT_BYTES \/ h.slot_count # BOOT_CONTEXT_SLOT_COUNT -> "HeaderFormat"
      [] h.init_state # READY -> "HeaderInitState"
      [] h.header_sequence = 0 \/ Odd(h.header_sequence) -> "HeaderSequence"
      [] boot_context_header_digest_v1(h) # h.digest -> "HeaderDigest"
      [] h.flags # 0 \/ h.reserved0 # 0 \/ fixed_or_reduce(h.reserved) # 0 -> "HeaderFlagsOrReserved"
      [] \/ h.mount_sequence_complement # Complement(h.mount_sequence)
         \/ h.load_generation_complement # Complement(h.load_generation) -> "HeaderComplement"
      [] h.boot_instance_id = 0 -> "HeaderBootInstanceId"
      [] fixed_or_reduce(h.per_boot_retire_key) = 0 -> "HeaderRetireKey"
      [] h.load_generation = 0 -> "HeaderLoadGeneration"
      [] OTHER -> "Ok"

\* The mandatory feature bits 0x1c, among the known ones 0x9f.
LegalFeatures == {28 + a + b : a \in 0..3, b \in {0, 128}}

validate_non_free_slot_common(h, s) ==
    CASE \/ s.service_sid_length # 32 \/ ~is_dedicated_service_sid_v1(SubSeq(s.service_sid, 1, 32))
         \/ fixed_or_reduce(SubSeq(s.service_sid, 33, 68)) # 0 -> "SlotServiceSid"
      [] s.boot_instance_id # h.boot_instance_id -> "SlotBootInstanceId"
      [] s.mount_sequence \notin 1..h.mount_sequence \/ s.mount_lo # s.mount_sequence -> "SlotMountSequence"
      [] s.mount_hi = 0 -> "SlotMountId"
      [] s.load_generation \notin 1..h.load_generation -> "SlotLoadGeneration"
      [] s.latest_session_epoch = 0 -> "SlotSessionEpoch"
      [] s.features \notin LegalFeatures \/ s.features_high # 0 -> "SlotFeatures"
      [] s.journal_version # 1 -> "SlotJournalVersion"
      [] OTHER -> "Ok"

MinimumSequence(state) == CASE state = STAGING -> 4 [] state = LIVE -> 6 [] state \in {TERMINALIZING, TERMINAL} -> 8

\* The publications a slot still needs before it is free again.
RemainingPublications(state) ==
    CASE state = STAGING -> 4 [] state = LIVE -> 3 [] state = TERMINALIZING -> 2 [] state = TERMINAL -> 1

\* The words of a slot between its sequence and its digest.
FreeSlot(sequence) ==
    [sequence |-> sequence, state |-> FREE, service_sid_length |-> 0, load_generation |-> 0, mount_sequence |-> 0,
     mount_lo |-> 0, mount_hi |-> 0, boot_instance_id |-> 0, latest_session_epoch |-> 0, features |-> 0,
     features_high |-> 0, journal_version |-> 0, flags |-> 0, service_sid |-> Zeros(68), reserved |-> Zeros(60),
     digest |-> NoDigest]

validate_slot_record(h, slot_index, s) ==
    CASE s.state \notin FREE..TERMINAL -> "SlotState"
      [] s.sequence = 0 \/ Odd(s.sequence) -> "SlotSequence"
      [] boot_context_slot_digest_v1(slot_index, s) # s.digest -> "SlotDigest"
      [] s.flags # 0 \/ fixed_or_reduce(s.reserved) # 0 -> "SlotFlagsOrReserved"
      [] s.state = FREE -> IF [s EXCEPT !.digest = NoDigest] # FreeSlot(s.sequence) THEN "SlotFreeShape" ELSE "Ok"
      [] validate_non_free_slot_common(h, s) # "Ok" -> validate_non_free_slot_common(h, s)
      [] \/ s.sequence < MinimumSequence(s.state)
         \/ checked_boot_context_publication_sequence(s.sequence, RemainingPublications(s.state)) = 0 -> "SlotSequence"
      [] s.state = STAGING /\ s.load_generation # h.load_generation -> "SlotLoadGeneration"
      [] s.state = STAGING /\ s.latest_session_epoch # 1 -> "SlotSessionEpoch"
      [] OTHER -> "Ok"

validate_boot_context_slot_v1(h, slot_index, s) ==
    IF slot_index >= BOOT_CONTEXT_SLOT_COUNT THEN "SlotIndex"
    ELSE IF validate_header_record(h) # "Ok" THEN validate_header_record(h)
    ELSE validate_slot_record(h, slot_index, s)

\* The bytes after the slots never change: they are zero.
validate_boot_context_section_v1(h, stored) ==
    LET active == {i \in DOMAIN stored : stored[i].state # FREE}
    IN /\ validate_header_record(h) = "Ok"
       /\ \A i \in DOMAIN stored : validate_slot_record(h, i, stored[i]) = "Ok"
       /\ \A i, j \in active : i # j => stored[i].mount_sequence # stored[j].mount_sequence

-----------------------------------------------------------------------------
(* The driver's planners.                                                   *)

seal_header(h) == [h EXCEPT !.digest = boot_context_header_digest_v1(h)]
seal_slot(slot_index, s) == [s EXCEPT !.digest = boot_context_slot_digest_v1(slot_index, s)]

plan_new_context(boot_instance_id, per_boot_retire_key) ==
    seal_header([magic |-> BOOT_CONTEXT_MAGIC, format_version |-> BOOT_CONTEXT_VERSION,
                 header_size |-> BOOT_CONTEXT_HEADER_BYTES, context_size |-> BOOT_CONTEXT_SECTION_BYTES,
                 slot_size |-> BOOT_CONTEXT_SLOT_BYTES, slot_count |-> BOOT_CONTEXT_SLOT_COUNT, init_state |-> READY,
                 flags |-> 0, reserved0 |-> 0, header_sequence |-> 2, mount_sequence |-> 0,
                 mount_sequence_complement |-> Complement(0), load_generation |-> 1,
                 load_generation_complement |-> Complement(1), boot_instance_id |-> boot_instance_id,
                 per_boot_retire_key |-> per_boot_retire_key, digest |-> NoDigest, reserved |-> Zeros(96)])

InitialHeader(committed) == seal_header([committed EXCEPT !.init_state = INITIALIZING, !.header_sequence = 1])

plan_existing_check(h, stored) ==
    LET active == {i \in DOMAIN stored : stored[i].state # FREE}
    IN IF \/ validate_header_record(h) # "Ok"
          \/ \E i \in DOMAIN stored : validate_boot_context_slot_v1(h, i, stored[i]) # "Ok"
          \/ \E i, j \in active : i < j /\ stored[i].mount_sequence = stored[j].mount_sequence
       THEN "Validation"
       ELSE IF active # {} THEN "ActivePermanentSlot" ELSE "Ok"

checked_next_mount_sequence(current) == IF current = U64_MAX THEN 0 ELSE current + 1
checked_next_load_generation(current) == IF current \in {0, U64_MAX} THEN 0 ELSE current + 1
NextSequence(h) == checked_boot_context_publication_sequence(h.header_sequence, 1)

CanAdopt(h, stored) ==
    /\ plan_existing_check(h, stored) = "Ok"
    /\ checked_next_load_generation(h.load_generation) # 0 /\ NextSequence(h) # 0
plan_existing_context(h) ==
    LET generation == checked_next_load_generation(h.load_generation)
    IN seal_header([h EXCEPT !.header_sequence = NextSequence(h), !.load_generation = generation,
                             !.load_generation_complement = Complement(generation)])

CanBurn(h) ==
    /\ validate_header_record(h) = "Ok"
    /\ checked_next_mount_sequence(h.mount_sequence) # 0 /\ NextSequence(h) # 0
plan_mount_burn(h) ==
    LET next == checked_next_mount_sequence(h.mount_sequence)
    IN seal_header([h EXCEPT !.header_sequence = NextSequence(h), !.mount_sequence = next,
                             !.mount_sequence_complement = Complement(next)])

\* The next publication of a slot.  Only the FREE state is the driver's.
SlotAfter(s, h) ==
    CASE s.state = FREE ->
            [FreeSlot(s.sequence + 2) EXCEPT
                !.state = STAGING, !.service_sid_length = 32, !.load_generation = h.load_generation,
                !.mount_sequence = h.mount_sequence, !.mount_lo = h.mount_sequence, !.mount_hi = 9,
                !.boot_instance_id = h.boot_instance_id, !.latest_session_epoch = 1, !.features = 28,
                !.journal_version = 1, !.service_sid = ServiceSid(3) \o Zeros(36)]
      [] s.state \in STAGING..TERMINALIZING -> [s EXCEPT !.state = @ + 1, !.sequence = @ + 2]
      [] s.state = TERMINAL -> FreeSlot(s.sequence + 2)

-----------------------------------------------------------------------------
(* Tokens.  The empty sequence stands for a refusal.                        *)

key_is_all_zero(key) == fixed_or_reduce(key) = 0
token_from_hmac(hmac) == HmacSha256_finalize(hmac)
HmacOf(key, inputs) == FoldLeft(HmacSha256_update, HmacSha256_new(key), inputs)

derive_retire_token_v2(key, boot_instance_id, mount_lo, mount_hi, sid) ==
    IF \/ key_is_all_zero(key) \/ boot_instance_id = 0 \/ mount_lo = 0 \/ mount_hi = 0
       \/ ~is_dedicated_service_sid_v1(sid) THEN <<>>
    ELSE token_from_hmac(HmacOf(key, <<RETIRE_TOKEN_DOMAIN_V2, Image(16, <<PutId(0, boot_instance_id)>>),
                                       LE(mount_lo, 8), LE(mount_hi, 8), LE(32, 4), sid>>))

StateFieldsLegal(q) ==
    CASE q.mount_state = "ABSENT" ->
            q.latest_session_epoch = 0 /\ q.features = 0 /\ q.features_high = 0 /\ q.journal_version = 0
      [] q.mount_state \in {"ACTIVE", "GRACE", "BOUND_RECONCILING"} ->
            /\ q.latest_session_epoch # 0 /\ q.features \in LegalFeatures /\ q.features_high = 0
            /\ q.journal_version = 1 /\ q.mount_lo # 0 /\ q.mount_hi # 0
      [] OTHER -> FALSE

RetireMountState == [ABSENT |-> 0, ACTIVE |-> 1, GRACE |-> 2, TERMINAL |-> 3, BOUND_RECONCILING |-> 4]

derive_state_token_v2(key, q, sid) ==
    IF \/ key_is_all_zero(key) \/ q.boot_instance_id = 0 \/ ~StateFieldsLegal(q)
       \/ ~is_dedicated_service_sid_v1(sid) THEN <<>>
    ELSE token_from_hmac(HmacOf(key, <<STATE_TOKEN_DOMAIN_V2, Image(16, <<PutId(0, q.boot_instance_id)>>),
                                       LE(q.mount_lo, 8), LE(q.mount_hi, 8), LE(RetireMountState[q.mount_state], 2), LE(0, 2),
                                       LE(q.latest_session_epoch, 8), LE(q.features, 8), LE(q.features_high, 8),
                                       LE(q.journal_version, 4), LE(32, 4), sid>>))

retire_token_eq(left_token, right_token) == left_token = right_token

TokenOf(q) ==
    IF q.kind = "retire" THEN derive_retire_token_v2(q.key, q.boot_instance_id, q.mount_lo, q.mount_hi, q.sid)
    ELSE derive_state_token_v2(q.key, q, q.sid)

-----------------------------------------------------------------------------
(* Publication, word by word.                                               *)

PerBootRetireKey == [i \in 1..32 |-> i]
Slots == 0..BOOT_CONTEXT_SLOT_COUNT - 1
NoToken == [asked |-> {}, answer |-> <<>>]

HeaderWords ==
    {<<f>> : f \in {"init_state", "mount_sequence", "mount_sequence_complement", "load_generation", "load_generation_complement"}}
    \cup {<<"digest", w>> : w \in 1..2}

\* In the order of their offsets: a slot's words are stored in that order only.
SlotWords ==
    <<<<"state">>, <<"service_sid_length">>, <<"load_generation">>, <<"mount_sequence">>, <<"mount_lo">>, <<"mount_hi">>,
      <<"boot_instance_id">>, <<"latest_session_epoch">>, <<"features">>, <<"journal_version">>, <<"service_sid">>,
      <<"digest", 1>>, <<"digest", 2>>>>

Store(record, image, word) ==
    IF Len(word) = 1 THEN [record EXCEPT ![word[1]] = image[word[1]]]
    ELSE [record EXCEPT !.digest[word[2]] = image.digest[word[2]]]

BootInit ==
    LET committed == plan_new_context(7, PerBootRetireKey)
    IN /\ header = InitialHeader(committed)
       /\ slots = [i \in Slots |-> seal_slot(i, FreeSlot(2))]
       /\ from = InitialHeader(committed) /\ to = committed /\ target = -1
       /\ left = HeaderWords
       /\ token = NoToken

\* publish_record: the odd sequence first.
PublishHeader(plan) ==
    /\ left = {} /\ plan.header_sequence <= LastHeaderSequence
    /\ header' = [header EXCEPT !.header_sequence = plan.header_sequence - 1]
    /\ from' = header /\ to' = plan /\ target' = -1
    /\ left' = {w \in HeaderWords : Store(header, plan, w) # header}
    /\ UNCHANGED <<slots, token>>

PublishLoadGeneration == CanAdopt(header, slots) /\ PublishHeader(plan_existing_context(header))
BurnMountId == CanBurn(header) /\ PublishHeader(plan_mount_burn(header))

\* A slot may be staged again only with five publications in hand.
PublishSlot(i) ==
    LET plan == seal_slot(i, SlotAfter(slots[i], header))
    IN /\ left = {} /\ header.mount_sequence > 0
       /\ slots[i].state = FREE => checked_boot_context_publication_sequence(slots[i].sequence, 5) # 0
       /\ slots' = [slots EXCEPT ![i].sequence = plan.sequence - 1]
       /\ from' = slots[i] /\ to' = plan /\ target' = i
       /\ left' = Range(SlotWords)
       /\ UNCHANGED <<header, token>>

\* Relaxed stores between two fences: the header's in any order.
StoreHeaderWord(word) ==
    /\ target = -1 /\ word \in left
    /\ left' = left \ {word}
    /\ header' = [Store(header, to, word) EXCEPT
                    !.header_sequence = IF left' = {} THEN to.header_sequence ELSE @]
    /\ UNCHANGED <<slots, from, to, target, token>>

StoreSlotWord ==
    LET next == SelectSeq(SlotWords, LAMBDA w : w \in left)
    IN /\ target # -1 /\ left # {}
       /\ left' = left \ {Head(next)}
       /\ slots' = [slots EXCEPT ![target] =
                       [Store(@, to, Head(next)) EXCEPT !.sequence = IF left' = {} THEN to.sequence ELSE @]]
       /\ UNCHANGED <<header, from, to, target, token>>

DeriveToken(q) ==
    /\ left = {} /\ header.header_sequence = 2 /\ token = NoToken
    /\ token' = [asked |-> {q}, answer |-> TokenOf(q)]
    /\ UNCHANGED <<header, slots, from, to, target, left>>

BootNext ==
    \/ token = NoToken /\ PublishLoadGeneration
    \/ token = NoToken /\ BurnMountId
    \/ \E i \in Slots : token = NoToken /\ PublishSlot(i)
    \/ \E w \in HeaderWords : StoreHeaderWord(w)
    \/ StoreSlotWord
    \/ \E q \in TokenInputs : DeriveToken(q)

-----------------------------------------------------------------------------
(* Properties.                                                              *)

\* The validators alone refuse a torn record: whatever mixture of the words of
\* two publications capture_record may have put together, with the sequence of
\* either, it validates only if it is one of the two.
TornRefused ==
    IF target = -1
    THEN \A n \in {from.header_sequence, to.header_sequence} :
            LET seen == [header EXCEPT !.header_sequence = n]
            IN validate_header_record(seen) = "Ok" => seen \in {from, to}
    ELSE \A n \in {from.sequence, to.sequence} :
            LET seen == [slots[target] EXCEPT !.sequence = n]
            IN validate_slot_record(header, target, seen) = "Ok" => seen \in {from, to}

\* What the planners publish, the validators accept: the header after every
\* publication, and every slot down to the one that frees it again.
PublishedValidates ==
    left = {} =>
        /\ validate_header_record(header) = "Ok"
        /\ target # -1 => validate_slot_record(header, target, slots[target]) = "Ok"

\* A slot is sealed to its place: copied to another index it is refused.
SlotsBound ==
    left = {} /\ target # -1 =>
        \A j \in Slots \ {target} : validate_slot_record(header, j, slots[target]) # "Ok"

\* plan_existing_context checks the records itself and agrees with the
\* validator of a whole section, two slots of one mount included.
SectionAgrees ==
    left = {} => (plan_existing_check(header, slots) # "Validation") = validate_boot_context_section_v1(header, slots)

AllTokens == {<<q, TokenOf(q)>> : q \in TokenInputs}

\* A token names what it was derived for: no two requests that differ in the
\* kind, the key, the boot, the mount, its state, the epoch, the features or the
\* service get the same token.
TokensDistinct ==
    token.answer # <<>> => \A t \in AllTokens : retire_token_eq(t[2], token.answer) => {t[1]} = token.asked
=============================================================================
