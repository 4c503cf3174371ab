--------------------------- MODULE MirrorData ---------------------------
(***************************************************************************)
(* What the provider daemon does with one file's data and metadata: the    *)
(* dispatcher of fsring-user (daemon.rs) with the validators both ends of  *)
(* the ring share (fsring-abi validate/messages.rs), driving the mirrorfs  *)
(* provider (lib.rs, opens.rs, identity.rs).  The volume holds the file's  *)
(* bytes and knows its allocation and its end; the registry adds the valid *)
(* data length and the generations under which the kernel is told what the *)
(* file looks like, and which a later request must echo.                   *)
(*                                                                         *)
(* A request is one action: the daemon serves one at a time.  Byte values  *)
(* and timestamps are left out; a security descriptor is a version number. *)
(* Other programs leave the file alone (MirrorNamespace has them).         *)
(***************************************************************************)
EXTENDS Integers

CONSTANTS
  Opens,          \* kernel open ids
  MAX_FILE_SIZE,
  LastGeneration, \* reserve_one fails past this, for every counter
  Dispositions    \* create dispositions the file is opened with

VARIABLES
  native,         \* the volume's [alloc, file, sd]
  rec,            \* the registry's FileRecord [ns, sec, epoch, vdl]
  ctr,            \* the registry's next generations [ns, sec, epoch, seq]
  pending,        \* open -> the prepared open
  live,           \* the committed opens
  told,           \* history: the sizes replies carried
  last            \* how the last request ended

vars == <<native, rec, ctr, pending, live, told, last>>

----------------------------------------------------------------------------
(* The completion statuses registered for each opcode.                     *)

Common == {"DATA_ERROR", "INSUFFICIENT_RESOURCES", "DEVICE_NOT_READY", "IO_TIMEOUT",
           "FILE_CORRUPT_ERROR", "CANCELLED"}

OPEN_FAILURES ==
  Common \cup {"ACCESS_DENIED", "OBJECT_NAME_NOT_FOUND", "OBJECT_NAME_COLLISION",
               "OBJECT_PATH_NOT_FOUND", "SHARING_VIOLATION", "DELETE_PENDING", "DISK_FULL",
               "MEDIA_WRITE_PROTECTED", "FILE_IS_A_DIRECTORY", "NOT_SUPPORTED", "NOT_A_DIRECTORY"}

READ_FAILURES == Common \cup {"ACCESS_DENIED", "FILE_LOCK_CONFLICT"}

WRITE_FAILURES ==
  Common \cup {"ACCESS_DENIED", "FILE_LOCK_CONFLICT", "DISK_FULL", "MEDIA_WRITE_PROTECTED", "RETRY"}

FLUSH_FAILURES == Common \cup {"MEDIA_WRITE_PROTECTED"}

QUERY_FAILURES == Common \cup {"ACCESS_DENIED", "NOT_SUPPORTED"}

MUTATE_FAILURES ==
  (OPEN_FAILURES \ {"FILE_IS_A_DIRECTORY"})
    \cup {"PRIVILEGE_NOT_HELD", "INVALID_SECURITY_DESCR", "DIRECTORY_NOT_EMPTY",
          "CANNOT_DELETE", "RETRY", "USER_MAPPED_FILE"}

Registered(op, status) ==
  status \in CASE op = "PREPARE_OPEN" -> OPEN_FAILURES
               [] op = "COMMIT_OPEN" -> OPEN_FAILURES \cup {"RETRY"}
               [] op = "READ" -> READ_FAILURES \cup {"END_OF_FILE"}
               [] op = "WRITE" -> WRITE_FAILURES
               [] op = "FLUSH" -> FLUSH_FAILURES
               [] op \in {"QUERY_INFO", "QUERY_SECURITY", "QUERY_VOLUME"} -> QUERY_FAILURES
               [] op = "MUTATE" -> MUTATE_FAILURES

\* The statuses a Windows error is first translated to.
IoStatuses ==
  {"OBJECT_NAME_NOT_FOUND", "OBJECT_PATH_NOT_FOUND", "ACCESS_DENIED", "MEDIA_WRITE_PROTECTED",
   "DEVICE_NOT_READY", "SHARING_VIOLATION", "DISK_FULL", "OBJECT_NAME_COLLISION",
   "DIRECTORY_NOT_EMPTY", "PRIVILEGE_NOT_HELD", "INVALID_SECURITY_DESCR", "IO_TIMEOUT", "DATA_ERROR"}

select_for_opcode(op, status) == IF Registered(op, status) THEN status ELSE "DATA_ERROR"

----------------------------------------------------------------------------
(* How a request ends: "ok" and "refused" are completions; "stopped" ends  *)
(* the pump with a DaemonError; so does "unregistered", a refusal the      *)
(* opcode has no status for, and "unanswerable", an effect whose result    *)
(* record the runtime's own validator refuses.                             *)

Running == last \in {"ok", "refused"}

Unchanged == UNCHANGED <<native, rec, ctr, pending, live, told>>

Ending(op, status) == IF Registered(op, status) THEN "refused" ELSE "unregistered"

provider_failure(op, status) == last' = Ending(op, status) /\ Unchanged

\* A native call fails before it had an effect.
from_io(op) ==
  /\ last' \in {Ending(op, select_for_opcode(op, status)) : status \in IoStatuses}
  /\ Unchanged

\* ProviderError::internal, with the volume and the registry as they then are.
Stop(n, r) ==
  /\ last' = "stopped"
  /\ native' = n
  /\ rec' = r
  /\ UNCHANGED <<ctr, pending, live, told>>

Sizes(n, r) == [alloc |-> n.alloc, file |-> n.file, vdl |-> r.vdl, epoch |-> r.epoch]

ValidSizes(s) ==
  /\ s.epoch # 0
  /\ MAX_FILE_SIZE >= s.alloc /\ s.alloc >= s.file /\ s.file >= s.vdl

\* The reply carries the sizes as n and r have them; `valid` is the success validator's verdict.
Answer(n, r, valid) ==
  /\ native' = n
  /\ rec' = r
  /\ IF valid /\ ValidSizes(Sizes(n, r))
     THEN last' = "ok" /\ told' = told \cup {Sizes(n, r)}
     ELSE last' = "unanswerable" /\ UNCHANGED told

CanReserve(counters) == \A c \in counters : ctr[c] < LastGeneration

Drawn(counters) == [c \in DOMAIN ctr |-> IF c \in counters THEN ctr[c] + 1 ELSE ctr[c]]

----------------------------------------------------------------------------
(* PREPARE_OPEN and COMMIT_OPEN of the file.  PREPARE tells the kernel the *)
(* security descriptor it checks access against.                           *)

Replaces(disp) == disp \in {"SUPERSEDE", "OVERWRITE", "OVERWRITE_IF"}

Prepare(k) ==
  /\ Running
  /\ k \notin live /\ k \notin DOMAIN pending
  /\ \/ from_io("PREPARE_OPEN")
     \/ \E disp \in Dispositions, changes \in BOOLEAN :
          /\ pending' = [x \in DOMAIN pending \cup {k} |->
                           IF x # k THEN pending[x]
                           ELSE [disp |-> disp, changes |-> changes /\ Replaces(disp), rec |-> rec, sd |-> native.sd]]
          /\ Answer(native, rec, TRUE)
          /\ UNCHANGED <<ctr, live>>

Forgotten(k) == [x \in DOMAIN pending \ {k} |-> pending[x]]

Abort(k) ==
  /\ Running
  /\ k \in DOMAIN pending
  /\ pending' = Forgotten(k)
  /\ last' = "ok"
  /\ UNCHANGED <<native, rec, ctr, live, told>>

\* The security generation is not compared.
PreparedSizesHold(p) == rec.ns = p.rec.ns /\ rec.epoch = p.rec.epoch

\* The generations PREPARE answered, which the kernel echoes, are still the registry's.
prepare_existing_open(p) == rec.ns = p.rec.ns /\ rec.sec = p.rec.sec /\ rec.epoch = p.rec.epoch

OpenDraws(p) ==
  {"seq"} \cup (IF Replaces(p.disp) THEN {"epoch"} ELSE {}) \cup (IF p.changes THEN {"ns"} ELSE {})

OpenedNative(p) == IF Replaces(p.disp) THEN [native EXCEPT !.alloc = 0, !.file = 0] ELSE native

OpenedRec(p) ==
  [rec EXCEPT !.epoch = IF Replaces(p.disp) THEN ctr.epoch ELSE @,
              !.vdl = IF Replaces(p.disp) THEN 0 ELSE @,
              !.ns = IF p.changes THEN ctr.ns ELSE @]

Commit(k) ==
  /\ Running
  /\ k \in DOMAIN pending
  /\ LET p == pending[k]
     IN  IF ~prepare_existing_open(p) THEN provider_failure("COMMIT_OPEN", "RETRY")
         ELSE IF ~CanReserve(OpenDraws(p)) THEN provider_failure("COMMIT_OPEN", "INSUFFICIENT_RESOURCES")
         ELSE \/ from_io("COMMIT_OPEN")
              \/ /\ Replaces(p.disp)
                 /\ Stop(OpenedNative(p), rec)
              \/ /\ ~Replaces(p.disp) /\ p.rec.vdl > native.file
                 /\ provider_failure("COMMIT_OPEN", "RETRY")
              \/ /\ ~(~Replaces(p.disp) /\ p.rec.vdl > native.file)
                 /\ ctr' = Drawn(OpenDraws(p))
                 /\ pending' = Forgotten(k)
                 /\ live' = live \cup {k}
                 /\ Answer(OpenedNative(p), OpenedRec(p), TRUE)

----------------------------------------------------------------------------
(* READ, WRITE, FLUSH and the queries.  An action is the dispatcher's arm, *)
(* from decoding the request to the completion; the operator it uses is    *)
(* the provider's method.                                                  *)

LesserOf(a, b) == IF a < b THEN a ELSE b

GreaterOf(a, b) == IF a > b THEN a ELSE b

\* A request the decoder refuses ends the pump.
Malformed == last' = "stopped" /\ Unchanged

\* A nonempty range inside the file-size limit.
ValidRange(offset, length) == length > 0 /\ offset + length <= MAX_FILE_SIZE

\* The open lacks the access, or the volume does not answer for its handle.
validate_open_native(op) == provider_failure(op, "ACCESS_DENIED") \/ from_io(op)

\* The same for the open's path, which must not have become a reparse point.
validate_open_path(op) == provider_failure(op, "NOT_SUPPORTED") \/ from_io(op)

\* How many bytes the volume gives from offset on.
read_at(offset, length) == 0 .. GreaterOf(0, LesserOf(length, native.file - offset))

ValidRead(information, length) == 0 < information /\ information <= length

\* Zero bytes are the end of the file, which is no success.
Read(k) ==
  /\ Running
  /\ k \in live
  /\ \E offset \in 0 .. MAX_FILE_SIZE, length \in 0 .. MAX_FILE_SIZE :
       IF ~ValidRange(offset, length) THEN Malformed
       ELSE \/ validate_open_native("READ")
            \/ \E read \in read_at(offset, length) :
                 IF read = 0 THEN provider_failure("READ", "END_OF_FILE")
                 ELSE /\ last' = IF ValidRead(read, length) THEN "ok" ELSE "unanswerable"
                      /\ Unchanged

MayChange(offset, length) == offset + length > native.file \/ offset + length > rec.vdl

preflight_write(offset, length) ==
  CanReserve(IF MayChange(offset, length) THEN {"epoch", "seq"} ELSE {"seq"})

\* The valid data grow and the epoch stays.
KeepsEpoch(changed, vdl) == IF changed THEN [rec EXCEPT !.vdl = vdl] ELSE rec

finalize_write(changed, vdl) ==
  IF changed THEN [rec EXCEPT !.epoch = ctr.epoch, !.vdl = vdl] ELSE rec

Covered(end, n, r) == end <= n.file /\ end <= r.vdl

ValidWrite(offset, information, length, n, r) ==
  /\ 0 < information /\ information <= length
  /\ Covered(offset + information, n, r)

\* The volume's metadata as it is queried after the write: the allocation is the
\* volume's own affair, also when nothing else changed.
AfterWrite(end) ==
  LET file == GreaterOf(native.file, end)
  IN  {[native EXCEPT !.file = file, !.alloc = a] : a \in file .. MAX_FILE_SIZE}

\* The volume took `written` bytes, a prefix of the request.
Written(offset, length, written) ==
  LET end == offset + written
      vdl == GreaterOf(rec.vdl, end)
  IN  \E after \in AfterWrite(end) :
        LET changed == after.file # native.file \/ vdl # rec.vdl
            final == finalize_write(changed, vdl)
        IN  \/ Stop(after, rec)
            \/ IF changed /\ ~MayChange(offset, length) THEN Stop(after, rec)
               ELSE /\ ctr' = Drawn(IF changed THEN {"epoch", "seq"} ELSE {"seq"})
                    /\ Answer(after, final, ValidWrite(offset, written, length, after, final))
                    /\ UNCHANGED <<pending, live>>

write_preflight_error(expected) ==
  provider_failure("WRITE", IF rec.epoch # expected THEN "RETRY" ELSE "INSUFFICIENT_RESOURCES")

write(offset, length, expected) ==
  IF rec.epoch # expected \/ ~preflight_write(offset, length) THEN write_preflight_error(expected)
  ELSE \/ validate_open_native("WRITE")
       \/ provider_failure("WRITE", "DATA_ERROR")
       \/ \E written \in 1 .. length : Written(offset, length, written)

Write(k) ==
  /\ Running
  /\ k \in live
  /\ \E offset \in 0 .. MAX_FILE_SIZE, length \in 0 .. MAX_FILE_SIZE, expected \in {0, 1, rec.epoch} :
       IF ~(ValidRange(offset, length) /\ expected # 0) THEN Malformed
       ELSE write(offset, length, expected)

Flush(k) ==
  /\ Running
  /\ k \in live
  /\ from_io("FLUSH") \/ (last' = "ok" /\ Unchanged)

QueryInfo(k) ==
  /\ Running
  /\ k \in live
  /\ \/ validate_open_native("QUERY_INFO")
     \/ Answer(native, rec, TRUE) /\ UNCHANGED <<ctr, pending, live>>

\* The volume was swapped for another, or its geometry leaves the contract, or it answers.
QueryVolume ==
  /\ Running
  /\ \/ from_io("QUERY_VOLUME")
     \/ Stop(native, rec)
     \/ last' = "ok" /\ Unchanged

QuerySecurity(k) ==
  /\ Running
  /\ k \in live
  /\ \/ provider_failure("QUERY_SECURITY", "DATA_ERROR")
     \/ validate_open_native("QUERY_SECURITY")
     \/ validate_open_path("QUERY_SECURITY")
     \/ last' = "ok" /\ Unchanged

----------------------------------------------------------------------------
(* MUTATE: the three sizes, the basic information and the security         *)
(* descriptor.  Each kind is conditional on one generation, its lane.      *)

SizeKinds == {"SET_ALLOCATION_SIZE", "SET_END_OF_FILE", "SET_VALID_DATA_LENGTH"}

Lane(kind) ==
  CASE kind \in SizeKinds -> "epoch"
    [] kind = "SET_BASIC_INFO" -> "ns"
    [] kind = "SET_SECURITY" -> "sec"

\* What a request may expect: some current or earlier generation, in some lane.
Expectations ==
  {[x \in {"ns", "sec", "epoch"} |-> IF x = lane THEN g ELSE 0] :
     lane \in {"ns", "sec", "epoch"}, g \in {0, 1, rec.ns, rec.sec, rec.epoch}}

\* The expectation in the kind's own lane, and in no other.
ValidMutation(kind, expects) ==
  \A lane \in DOMAIN expects : (expects[lane] # 0) = (lane = Lane(kind))

\* `sane` stands for the masks, times, attributes and descriptor length of the other bodies.
ValidBody(kind, size, sane) == IF kind \in SizeKinds THEN size <= MAX_FILE_SIZE ELSE sane

\* The success validator: n and r as the effect left them, native and rec as the provider
\* retained them.
ValidSuccess(kind, expects, size, n, r) ==
  /\ kind = "SET_BASIC_INFO" => r.ns > expects.ns
  /\ kind = "SET_SECURITY" => r.sec > expects.sec
  /\ kind \in SizeKinds => r.epoch > expects.epoch
  /\ kind \notin SizeKinds => r.epoch >= rec.epoch
  /\ kind = "SET_VALID_DATA_LENGTH" => n.alloc = native.alloc /\ n.file = native.file /\ r.vdl = size
  /\ kind = "SET_END_OF_FILE" => n.file = size
  /\ kind = "SET_ALLOCATION_SIZE" => n.alloc >= size /\ n.alloc >= n.file

Mutated(kind, expects, size, n, r) ==
  /\ ctr' = Drawn({Lane(kind), "seq"})
  /\ Answer(n, r, ValidSuccess(kind, expects, size, n, r))
  /\ UNCHANGED <<pending, live>>

preflight_mutation_open == validate_open_native("MUTATE") \/ validate_open_path("MUTATE")

\* What the volume makes of a new size.  An allocation below the end cuts the file off there.
Resized(kind, size) ==
  CASE kind = "SET_END_OF_FILE" -> {[native EXCEPT !.file = size, !.alloc = a] :
                                      a \in size .. GreaterOf(native.alloc, size)}
    [] kind = "SET_VALID_DATA_LENGTH" -> {native}
    [] kind = "SET_ALLOCATION_SIZE" -> {[native EXCEPT !.alloc = a, !.file = LesserOf(@, size)] :
                                          a \in size .. GreaterOf(native.alloc, size)}

ResizedVdl(kind, size) ==
  CASE kind = "SET_ALLOCATION_SIZE" -> rec.vdl
    [] kind = "SET_END_OF_FILE" -> LesserOf(rec.vdl, size)
    [] kind = "SET_VALID_DATA_LENGTH" -> size

\* What set_size itself demands of the volume after the effect, or stops.
RelationshipHolds(kind, size, n) ==
  CASE kind = "SET_ALLOCATION_SIZE" -> n.file = native.file /\ n.alloc >= GreaterOf(size, n.file)
    [] kind = "SET_END_OF_FILE" -> n.file = size /\ n.alloc >= n.file
    [] kind = "SET_VALID_DATA_LENGTH" -> n.file = native.file /\ n.alloc = native.alloc

preflight_size_commit(expected) == rec.epoch = expected /\ CanReserve({"epoch", "seq"})

size_preflight_error(expected) ==
  provider_failure("MUTATE", IF rec.epoch # expected THEN "RETRY" ELSE "INSUFFICIENT_RESOURCES")

SizeCommit(vdl) == [rec EXCEPT !.epoch = ctr.epoch, !.vdl = vdl]

set_size(kind, expects, size) ==
  \/ preflight_mutation_open
  \/ IF ~preflight_size_commit(expects.epoch) THEN size_preflight_error(expects.epoch)
     ELSE IF kind = "SET_VALID_DATA_LENGTH" /\ ~(rec.vdl <= size /\ size <= native.file)
     THEN provider_failure("MUTATE", "DATA_ERROR")
     ELSE \E n \in Resized(kind, size) :
            LET r == SizeCommit(ResizedVdl(kind, size))
            IN  \/ Stop(n, r)
                \/ IF RelationshipHolds(kind, size, n) THEN Mutated(kind, expects, size, n, r)
                   ELSE Stop(n, r)

preflight_metadata_commit(expected) == rec.ns = expected /\ CanReserve({"ns", "seq"})

metadata_preflight_error(expected) ==
  provider_failure("MUTATE", IF rec.ns # expected THEN "RETRY" ELSE "INSUFFICIENT_RESOURCES")

MetadataCommit == [rec EXCEPT !.ns = ctr.ns]

\* Some attributes and times set and others not: the generation moves and the daemon stops.
set_basic_info(expects) ==
  \/ preflight_mutation_open
  \/ IF ~preflight_metadata_commit(expects.ns) THEN metadata_preflight_error(expects.ns)
     ELSE \/ Stop(native, MetadataCommit)
          \/ Mutated("SET_BASIC_INFO", expects, 0, native, MetadataCommit)

preflight_security_commit(expected) == rec.sec = expected /\ CanReserve({"sec", "seq"})

security_preflight_error(expected) ==
  provider_failure("MUTATE", IF rec.sec # expected THEN "RETRY" ELSE "INSUFFICIENT_RESOURCES")

SecurityCommit == [rec EXCEPT !.sec = ctr.sec]

set_security(expects) ==
  LET n == [native EXCEPT !.sd = @ + 1]
  IN  \/ provider_failure("MUTATE", "INVALID_SECURITY_DESCR")
      \/ preflight_mutation_open
      \/ IF ~preflight_security_commit(expects.sec) THEN security_preflight_error(expects.sec)
         ELSE \/ Stop(n, SecurityCommit)
              \/ Mutated("SET_SECURITY", expects, 0, n, SecurityCommit)

mutate_open(kind, expects, size) ==
  CASE kind \in SizeKinds -> set_size(kind, expects, size)
    [] kind = "SET_BASIC_INFO" -> set_basic_info(expects)
    [] kind = "SET_SECURITY" -> set_security(expects)

SizesAsked(kind) == IF kind \in SizeKinds THEN 0 .. MAX_FILE_SIZE + 1 ELSE {0}

Mutate(k, kind) ==
  /\ Running
  /\ k \in live
  /\ \/ Malformed    \* the expectation is in another lane, or the body does not validate
     \/ \E size \in {s \in SizesAsked(kind) : ValidBody(kind, s, TRUE)},
           expects \in {e \in Expectations : ValidMutation(kind, e)} : mutate_open(kind, expects, size)

----------------------------------------------------------------------------

\* The file as it is first observed: all of it valid.
Init ==
  /\ \E size \in 0 .. MAX_FILE_SIZE :
       /\ native = [alloc |-> size, file |-> size, sd |-> 1]
       /\ rec = [ns |-> 1, sec |-> 1, epoch |-> 1, vdl |-> size]
  /\ ctr = [ns |-> 2, sec |-> 2, epoch |-> 2, seq |-> 1]
  /\ pending = <<>>
  /\ live = {}
  /\ told = {}
  /\ last = "ok"

Next ==
  \/ \E k \in Opens : Prepare(k) \/ Abort(k) \/ Commit(k)
  \/ \E k \in Opens : Read(k) \/ Write(k) \/ Flush(k) \/ QueryInfo(k) \/ QuerySecurity(k)
  \/ QueryVolume
  \/ \E k \in Opens, kind \in SizeKinds \cup {"SET_BASIC_INFO", "SET_SECURITY"} : Mutate(k, kind)

Spec == Init /\ [][Next]_vars

----------------------------------------------------------------------------
(* Properties                                                              *)

\* What the kernel was told of the file's end and its valid data under one size epoch is one
\* thing, and under the current epoch it is how the file still is.  So a WRITE or a size
\* mutation that carries the epoch of an earlier reply acts on the end that reply showed, or is
\* refused, whatever the other open wrote, cut off or replaced in between.
EpochNamesSizes ==
  /\ \A s, t \in told : s.epoch = t.epoch => s.file = t.file /\ s.vdl = t.vdl
  /\ Running => \A s \in told : s.epoch = rec.epoch => s.file = native.file /\ s.vdl = rec.vdl

\* docs/design/02-transport.md: "an equal counter requires byte-identical corresponding state".
\* The allocation a reply shows is queried anew and draws no epoch.
EqualEpochEqualState == \A s, t \in told : s.epoch = t.epoch => s = t

\* The two ends agree on the protocol: every refusal of the provider is a status the opcode has
\* (is_registered_completion_status_v21), and every effect it commits makes a result record
\* the success validators take.  Otherwise the daemon would stop on it.
RepliesAccepted == last \notin {"unregistered", "unanswerable"}

\* A step: an open is granted on the security descriptor the kernel checked: a SET_SECURITY through
\* another open between PREPARE_OPEN and COMMIT_OPEN makes the COMMIT answer RETRY.
GrantedOnChecked == \A k \in live' \ live : pending[k].sd = native.sd

\* What docs/design/05-irp-dispatch.md says of a SET_ALLOCATION_SIZE below the end of the file:
\* the end and the valid data move there with it in the one transaction, or it is refused
\* without effect.  In no transaction that draws an epoch does the end of the file pass the
\* valid data length by.
AllocationShrinks == [][rec'.epoch # rec.epoch => rec'.vdl <= native'.file]_vars
=========================================================================
