------------------------------ MODULE DirQuery ------------------------------
(***************************************************************************)
(* Listing a directory through the provider daemon: the QUERY_DIR request   *)
(* the driver sends and fsring-abi validates (validate/queries.rs), the      *)
(* mirror provider's scan, which gives every name it meets a registered      *)
(* identity (lib.rs, identity.rs), the enumerator that freezes the matches   *)
(* of one scan and hands them out in batches (direnum.rs), and the records    *)
(* the answer is made of.  QUERY_INFO, QUERY_VOLUME and QUERY_SECURITY are    *)
(* the same request and answer with one record.                              *)
(*                                                                          *)
(* A name is a sequence of two-byte units.  The directory holds files only,   *)
(* so no path is ambiguous.  The driver's half (which request comes next) is  *)
(* outside the program: docs/design/05-irp-dispatch.md 12.5 to 12.10.         *)
(***************************************************************************)
EXTENDS NotifyBody, FiniteSetsExt

CONSTANTS
  Opens,          \* kernel opens of the one directory
  Names,          \* the names files can have
  Seeds,          \* the directory at mount: names and native keys
  Patterns,       \* search expressions, <<>> for none
  Capacities,     \* output grants
  Geometries,     \* what the volume reports
  Descriptors,    \* descriptor lengths: first call, second call
  LastId,         \* the largest value of a registry counter
  LastGeneration, \* scans per open
  MaxChanges,     \* changes of the directory
  MaxOutside      \* of which behind the provider's back

VARIABLES
  dir,            \* name -> native key
  sizes,          \* native key -> file size
  reg,            \* the identity registry
  snapshots,      \* <<open, generation>> -> the frozen matches
  scan,           \* the driver's scan of each open
  answer,         \* the last answer
  changes, outside

dqvars == <<dir, sizes, reg, snapshots, scan, answer, changes, outside>>

MAX_CONTROL_BLOB == 16777216
MAX_CANONICAL_DIR_ENTRY_BYTES == 648
Refused == [form |-> "refused"]

-----------------------------------------------------------------------------
(* Requests.                                                                *)

Wildcards == {"star", "question"}

\* Whether the pattern is legal, and whether it is exact.
validate_dir_pattern_utf16(units) ==
  [ok    |-> /\ units # <<>> /\ Len(units) <= MAX_COMPONENT_UTF16_CODE_UNITS
             /\ \A i \in DOMAIN units :
                  /\ units[i] \notin {"zero", "reserved"}
                  /\ units[i] = "high" => i < Len(units) /\ units[i + 1] = "low"
                  /\ units[i] = "low" => i > 1 /\ units[i - 1] = "high",
   exact |-> ToSet(units) \cap Wildcards = {}]

\* The request as the driver encodes it: a 64-byte prefix, the pattern, zero padding.
Zeros(n) == [i \in 1 .. n |-> "zero"]
QueryDirV2(generation, cookie, single, pattern, capacity) ==
  [version    |-> 2, required_flags |-> 0,
   size       |-> Align8(64 + 2 * Len(pattern)),
   flags      |-> (IF cookie = 0 THEN {"RESTART"} ELSE {}) \cup (IF single THEN {"SINGLE"} ELSE {})
                    \cup (IF pattern # <<>> /\ validate_dir_pattern_utf16(pattern).exact
                          THEN {"EXACT_PATTERN"} ELSE {}),
   generation |-> generation, cookie |-> cookie,
   pattern    |-> IF pattern = <<>> THEN NoSlice ELSE [offset |-> 64, length |-> 2 * Len(pattern)],
   tail       |-> pattern \o Zeros((Align8(2 * Len(pattern)) - 2 * Len(pattern)) \div 2),
   output     |-> capacity]

validate_query_header(request, version, size) ==
  request.version = version /\ request.required_flags = 0 /\ request.size = size

\* The output grant: exactly the one issued, written by the daemon.
validate_output(grant, least, most) == grant \in least .. most

ExpressionForm(request, blob) ==
  LET units == request.pattern.length \div 2
      pattern == validate_dir_pattern_utf16(SubSeq(request.tail, 1, units))
  IN IF /\ request.pattern.offset = 64 /\ request.pattern.length # 0
        /\ blob = Align8(64 + request.pattern.length)
        /\ \A i \in units + 1 .. Len(request.tail) : request.tail[i] = "zero"
        /\ pattern.ok /\ pattern.exact = ("EXACT_PATTERN" \in request.flags)
     THEN [form |-> "InitialExpression", exact |-> pattern.exact]
     ELSE Refused

RestartForm(request, blob) ==
  IF request.cookie # 0 THEN Refused
  ELSE IF request.pattern = NoSlice
       THEN IF blob = 64 /\ "EXACT_PATTERN" \notin request.flags
            THEN [form |-> "InitialMatchAll"] ELSE Refused
       ELSE ExpressionForm(request, blob)

ContinuationForm(request, blob) ==
  IF /\ request.cookie # 0 /\ "EXACT_PATTERN" \notin request.flags
     /\ request.pattern = NoSlice /\ blob = 64
  THEN [form |-> "Continuation"] ELSE Refused

validate_query_dir_v2(request) ==
  LET blob == 64 + 2 * Len(request.tail) IN
  IF /\ validate_query_header(request, 2, blob) /\ request.generation # 0
     /\ validate_output(request.output, 40, MAX_CONTROL_BLOB)
  THEN IF "RESTART" \in request.flags THEN RestartForm(request, blob) ELSE ContinuationForm(request, blob)
  ELSE Refused

\* QueryDirRequest: the form, and the pattern copied out of the blob.
decode_query_dir(request) ==
  LET validated == validate_query_dir_v2(request) IN
  [form     |-> validated.form,
   pattern  |-> IF validated.form = "InitialExpression"
                THEN SubSeq(request.tail, 1, request.pattern.length \div 2) ELSE <<>>,
   generation |-> request.generation, cookie |-> request.cookie,
   single   |-> "SINGLE" \in request.flags, capacity |-> request.output]

-----------------------------------------------------------------------------
(* Names in expressions.  The two native calls are outside the program.     *)

RtlUpcase(units) == [i \in DOMAIN units |-> CASE units[i] = "a" -> "A" [] units[i] = "b" -> "B" [] OTHER -> units[i]]

\* Suffixes of the name by suffixes of the expression.
RtlIsNameInExpression(expression, name) ==
  LET upper == RtlUpcase(name)
      fits[e \in 0 .. Len(expression), n \in 0 .. Len(name)] ==
        IF e = Len(expression) THEN n = Len(name)
        ELSE LET unit == expression[e + 1] IN
             IF unit = "star" THEN \E m \in n .. Len(name) : fits[e + 1, m]
             ELSE /\ n < Len(name) /\ unit \in {"question", upper[n + 1]}
                  /\ fits[e + 1, n + 1]
  IN fits[0, 0]

compile(pattern) == IF pattern = <<>> THEN [all |-> TRUE] ELSE [all |-> FALSE, upcased |-> RtlUpcase(pattern)]
matches(matcher, name) == IF matcher.all THEN TRUE ELSE RtlIsNameInExpression(matcher.upcased, name)

-----------------------------------------------------------------------------
(* Identities.  `files` is indexed by FileId and only grows; a link carries   *)
(* its LinkId, child and namespace generation.                              *)

reserve_one(counter) == counter < LastId

Keyed(r, key) == {f \in DOMAIN r.files : r.files[f].native = key}

\* A new name, and a new FileId unless the file is known under another name.
InstallEntry(r, name, key) ==
  LET known == Keyed(r, key)
      file == IF known = {} THEN Len(r.files) + 1 ELSE Min(known)
      grown == IF known # {} THEN r
               ELSE [r EXCEPT !.files = Append(@, [native |-> key, vdl |-> sizes[key], ns |-> r.ns]), !.ns = @ + 1]
      fits == reserve_one(file) /\ reserve_one(grown.ns) /\ reserve_one(grown.next)
  IN IF ~fits THEN r
     ELSE [grown EXCEPT !.links = (name :> [id |-> grown.next, child |-> file, ns |-> grown.ns]) @@ @,
                        !.next = @ + 1, !.ns = @ + 1]

\* One observation, after the ones before it: a registered name must still be the same file.
ObserveEntry(plan, name) ==
  LET r == IF name \in DOMAIN plan.reg.links THEN plan.reg ELSE InstallEntry(plan.reg, name, dir[name])
      link == r.links[name]
  IN IF plan.st # "ok" THEN plan
     ELSE IF name \notin DOMAIN r.links THEN [plan EXCEPT !.st = "CounterExhausted"]
     ELSE IF r.files[link.child].native # dir[name] THEN [plan EXCEPT !.st = "NameCollision"]
     ELSE [st |-> "ok", reg |-> r,
           entries |-> Append(plan.entries, [name |-> name, file |-> link.child, link |-> link.id, ns |-> link.ns])]

\* The whole listing, in the volume's order of names, is planned on the side...
preflight_directory_observations(order) ==
  FoldLeft(ObserveEntry, [st |-> "ok", reg |-> reg, entries |-> <<>>], order)

\* ... and installed only as a whole.
finalize_directory_observations(plan) == IF plan.st = "ok" THEN plan.reg ELSE reg

-----------------------------------------------------------------------------
(* Records.  Attributes and times of the directory's files are in range.      *)

SizeState(file, r) ==
  LET size == sizes[r.files[file].native] IN
  [allocation |-> size, file |-> size, valid |-> r.files[file].vdl, epoch |-> 1]

checked_sizes(file, r) == validate_size_state_v21(SizeState(file, r))

dir_entry_fields(entry, r) ==
  [file_id |-> entry.file, link_id |-> entry.link, namespace_generation |-> entry.ns,
   sizes |-> SizeState(entry.file, r)]

\* DirCandidate: the name and the fields, as scanned.
Candidate(entry, r) == [name |-> entry.name, fields |-> dir_entry_fields(entry, r)]

EntrySize(name) == Align8(136 + 2 * Len(name))

EncodeEntry(candidate) ==
  [version |-> 1, required_flags |-> 0, size |-> EntrySize(candidate.name),
   name    |-> [offset |-> 136, length |-> 2 * Len(candidate.name)],
   units   |-> candidate.name \o Zeros((EntrySize(candidate.name) - 136) \div 2 - Len(candidate.name)),
   fields  |-> candidate.fields]

validate_dir_entry(entry, left) ==
  /\ entry.version = 1 /\ entry.required_flags = 0
  /\ entry.size % 8 = 0 /\ entry.size >= 136 /\ entry.size <= left
  /\ entry.name.offset = 136 /\ entry.name.length # 0
  /\ entry.size = Align8(136 + entry.name.length) /\ entry.size <= MAX_CANONICAL_DIR_ENTRY_BYTES
  /\ entry.fields.file_id # 0 /\ entry.fields.link_id # 0 /\ entry.fields.namespace_generation # 0
  /\ validate_size_state_v21(entry.fields.sizes)
  /\ validate_stored_component_utf16(SubSeq(entry.units, 1, entry.name.length \div 2))
  /\ \A i \in entry.name.length \div 2 + 1 .. Len(entry.units) : entry.units[i] = "zero"

\* QueryDirResultV1 over the packed entries.
EncodeResult(entries, next_cookie, eof) ==
  LET length == FoldLeft(LAMBDA n, e : n + e.size, 0, entries) IN
  [version |-> 1, required_flags |-> 0, size |-> 40 + length,
   next_cookie |-> next_cookie, eof |-> eof, count |-> Len(entries),
   entries |-> IF length = 0 THEN NoSlice ELSE [offset |-> 40, length |-> length], packed |-> entries]

\* The walk over the packed entries: each fits in what is left, and together they fill the blob.
WalkEntries(result) ==
  FoldLeft(LAMBDA left, e : IF left >= 136 /\ validate_dir_entry(e, left) THEN left - e.size ELSE -1,
           result.size - 40, SubSeq(result.packed, 1, result.count)) = 0

validate_query_dir_result_v1(result, input_cookie) ==
  /\ validate_query_header(result, 1, 40 + result.entries.length) /\ result.size >= 40
  /\ IF result.entries = NoSlice THEN result.count = 0 /\ result.eof
     ELSE result.entries.offset = 40 /\ result.count # 0 /\ WalkEntries(result)
  /\ result.next_cookie = IF result.eof THEN 0 ELSE input_cookie + result.count

encode_result(candidates, input_cookie, next_cookie, eof) ==
  LET result == EncodeResult([i \in DOMAIN candidates |-> EncodeEntry(candidates[i])], next_cookie, eof)
  IN IF validate_query_dir_result_v1(result, input_cookie) THEN [st |-> "ok", result |-> result]
     ELSE [st |-> "Encode"]

-----------------------------------------------------------------------------
(* The enumerator.                                                          *)

\* How many of the candidates fit, one at most for SINGLE.
Fitting(candidates, budget, single) ==
  LET used(n) == FoldLeft(LAMBDA total, c : total + EntrySize(c.name), 0, SubSeq(candidates, 1, n))
      most == IF single THEN 1 ELSE Len(candidates)
  IN Max({n \in 0 .. most : used(n) <= budget})

batch(seq, cookie, capacity, single) ==
  LET count == Fitting(SubSeq(seq, cookie + 1, Len(seq)), capacity - 40, single)
      eof == cookie + count = Len(seq)
  IN CASE cookie > Len(seq) -> [st |-> "CookieOutOfRange"]
       [] cookie = Len(seq) -> [st |-> "NoMoreEntries"]
       [] capacity < 40 -> [st |-> "OutputTooSmall"]
       [] OTHER -> IF count = 0 THEN [st |-> "OutputTooSmall"]
                   ELSE encode_result(SubSeq(seq, cookie + 1, cookie + count), cookie,
                                      IF eof THEN 0 ELSE cookie + count, eof)

\* The snapshots after a first request: the matches of this scan, under the open and generation.
open(o, request, candidates) ==
  (<<o, request.generation>> :> SelectSeq(candidates, LAMBDA c : matches(compile(request.pattern), c.name)))
    @@ snapshots

Batch(snaps, o, request) ==
  IF <<o, request.generation>> \notin DOMAIN snaps THEN [st |-> "UnknownGeneration"]
  ELSE batch(snaps[<<o, request.generation>>], request.cookie, request.capacity, request.single)

\* A later batch is cut from the directory as it is now.
ContinueRescans(o, request) ==
  Batch((<<o, request.generation>> :>
           [i \in 1 .. Cardinality(DOMAIN reg.links) |->
              LET n == SetToSeq(DOMAIN reg.links)[i] IN
              Candidate([name |-> n, file |-> reg.links[n].child, link |-> reg.links[n].id, ns |-> reg.links[n].ns], reg)])
          @@ snapshots, o, request)

continue_(o, request) == Batch(snapshots, o, request)

-----------------------------------------------------------------------------
(* The daemon's QUERY_DIR arm.  An attempt the driver abandons (cancelled     *)
(* before its answer is taken) is repeated unchanged.                        *)

Serving == answer # "stopped"

\* An error no completion status stands for ends the daemon.
StopDaemon == answer' = "stopped" /\ UNCHANGED <<dir, sizes, scan, changes, outside>>

Reply(st) == answer' = st /\ UNCHANGED <<dir, sizes, changes, outside>>

\* write_output: the blob goes to the front of the grant.
write_output(result, capacity) == result.size <= capacity

build_query_dir_completion(result) == result.size # 0

\* What the driver makes of a batch it accepts.
Taken(s, result, truth) ==
  [s EXCEPT !.phase = IF result.eof THEN "done" ELSE "active",
            !.cookie = result.next_cookie,
            !.truth = truth,
            !.got = @ \o [i \in DOMAIN result.packed |->
                            [name |-> SubSeq(result.packed[i].units, 1, result.packed[i].name.length \div 2),
                             file |-> result.packed[i].fields.file_id]]]

\* `now` is the scan before the answer is taken; an abandoned attempt leaves it so.
Deliver(o, now, request, b, truth) ==
  CASE b.st = "ok" ->
         IF write_output(b.result, request.capacity) /\ build_query_dir_completion(b.result)
         THEN /\ Reply("SUCCESS")
              /\ scan' \in {[now EXCEPT ![o] = Taken(@, b.result, truth)], now}
         ELSE StopDaemon
    [] b.st = "NoMoreEntries" ->
         /\ Reply(IF request.form = "Continuation" THEN "NO_MORE_FILES" ELSE "NO_SUCH_FILE")
         /\ scan' \in {[now EXCEPT ![o].phase = "done", ![o].truth = truth], now}
    [] OTHER -> StopDaemon

Listed(pattern) == {<<n, dir[n]>> : n \in {m \in DOMAIN dir : matches(compile(pattern), m)}}

\* MirrorFs::query_dir, then DirEnumerator::open.
QueryDirFirst(o) ==
  /\ Serving /\ scan[o].phase = "start"
  /\ \E capacity \in Capacities, single \in BOOLEAN :
       LET request == decode_query_dir(QueryDirV2(scan[o].generation, 0, single, scan[o].pattern, capacity))
           plan == preflight_directory_observations(SetToSeq(DOMAIN dir))
           candidates == [i \in DOMAIN plan.entries |-> Candidate(plan.entries[i], plan.reg)]
           opened == open(o, request, candidates)
           key == <<o, request.generation>>
           now == [scan EXCEPT ![o].first = IF key \in DOMAIN snapshots THEN @ ELSE opened[key]]
       IN IF request.form = "refused" \/ plan.st = "NameCollision"
          THEN StopDaemon /\ UNCHANGED <<reg, snapshots>>
          ELSE IF plan.st = "CounterExhausted"
          THEN /\ Reply("INSUFFICIENT_RESOURCES") /\ reg' = finalize_directory_observations(plan)
               /\ UNCHANGED <<snapshots, scan>>
          ELSE IF \E i \in DOMAIN plan.entries : ~checked_sizes(plan.entries[i].file, plan.reg)
          THEN StopDaemon /\ UNCHANGED <<reg, snapshots>>
          ELSE /\ reg' = finalize_directory_observations(plan)
               /\ snapshots' = opened
               /\ Deliver(o, now, request, Batch(opened, o, request), Listed(scan[o].pattern))

QueryDirNext(o) ==
  /\ Serving /\ scan[o].phase = "active"
  /\ \E capacity \in Capacities, single \in BOOLEAN :
       LET request == decode_query_dir(QueryDirV2(scan[o].generation, scan[o].cookie, single, <<>>, capacity))
       IN /\ IF request.form = "refused" THEN StopDaemon
             ELSE Deliver(o, scan, request, continue_(o, request), scan[o].truth)
          /\ UNCHANGED <<reg, snapshots>>

\* A scan from the start, with the next generation and the expression of the first call.
Rescan(o) ==
  /\ Serving /\ scan[o].generation < LastGeneration
  /\ \E pattern \in Patterns :
       scan' = [scan EXCEPT ![o] = [phase |-> "start", generation |-> @.generation + 1, cookie |-> 0,
                                    pattern |-> pattern, got |-> <<>>, truth |-> {}, first |-> <<>>]]
  /\ UNCHANGED <<dir, sizes, reg, snapshots, answer, changes, outside>>

-----------------------------------------------------------------------------
(* One-record queries.                                                      *)

validate_file_info_v1(info) == info.namespace_generation # 0 /\ validate_size_state_v21(info.sizes)

build_file_info(file) ==
  [namespace_generation |-> reg.files[file].ns, sizes |-> SizeState(file, reg)]

query_info(name) ==
  LET file == reg.links[name].child IN
  /\ Serving /\ name \in DOMAIN reg.links \cap DOMAIN dir /\ reg.files[file].native = dir[name]
  /\ IF checked_sizes(file, reg) /\ validate_file_info_v1(build_file_info(file))
     THEN Reply("SUCCESS") /\ UNCHANGED scan ELSE StopDaemon
  /\ UNCHANGED <<reg, snapshots>>

\* The caller's quota bounds the space it is told of, the volume the space there is.
validate_volume_counts(g) ==
  LET unit == g.sectors * g.bytes IN
  [ok |-> /\ unit # 0 /\ g.free <= g.clusters
          /\ g.available_bytes <= g.total_bytes /\ g.available_bytes <= g.total_free
          /\ g.total_bytes \div unit # 0,
   total |-> g.total_bytes \div unit, available |-> g.available_bytes \div unit]

PowersOfTwo == {2 ^ i : i \in 0 .. 20}

validate_volume_size_info_v1(total, available, g) ==
  /\ available <= total
  /\ g.bytes \in PowersOfTwo /\ g.bytes \in 512 .. 65536
  /\ g.sectors \in PowersOfTwo /\ g.bytes * g.sectors <= 16777216

query_volume ==
  /\ Serving
  /\ \E g \in Geometries :
       LET counts == validate_volume_counts(g) IN
       IF ~counts.ok THEN Reply("IO_DEVICE_ERROR") /\ UNCHANGED scan
       ELSE IF validate_volume_size_info_v1(counts.total, counts.available, g)
            THEN Reply("SUCCESS") /\ UNCHANGED scan ELSE StopDaemon
  /\ UNCHANGED <<reg, snapshots>>

validate_descriptor_length(length) == length \in 20 .. 65536

\* The first native call tells the length, the second fills a buffer of that length.
native_query_security(needed, present) ==
  IF /\ validate_descriptor_length(needed) /\ present <= needed /\ validate_descriptor_length(present)
  THEN present ELSE 0

build_query_security_completion(length) == length \in 20 .. 65536

query_security ==
  /\ Serving
  /\ \E d \in Descriptors :
       LET length == native_query_security(d.needed, d.present) IN
       IF length = 0 THEN Reply("IO_DEVICE_ERROR") /\ UNCHANGED scan
       ELSE IF build_query_security_completion(length) THEN Reply("SUCCESS") /\ UNCHANGED scan ELSE StopDaemon
  /\ UNCHANGED <<reg, snapshots>>

-----------------------------------------------------------------------------
(* The directory changes: through the mount, which keeps the registry in      *)
(* step, or by another program.                                             *)

FreshKey == Cardinality(DOMAIN sizes) + 1

Change(d, sz, r, behind) ==
  /\ Serving /\ changes < MaxChanges /\ outside + behind <= MaxOutside
  /\ dir' = d /\ sizes' = sz /\ reg' = r
  /\ changes' = changes + 1 /\ outside' = outside + behind
  /\ UNCHANGED <<snapshots, scan, answer>>

WithoutName(f, n) == [m \in DOMAIN f \ {n} |-> f[m]]

\* A new name for a registered file; the link, the file and the directory each get a new
\* namespace generation.
create_link(r, f, n) ==
  [r EXCEPT !.links = (n :> [id |-> r.next, child |-> f, ns |-> r.ns]) @@ @,
            !.files[f].ns = r.ns + 1, !.next = @ + 1, !.ns = @ + 3]

MountLink(n) ==
  \E f \in DOMAIN reg.files :
    /\ n \notin DOMAIN dir \cup DOMAIN reg.links /\ reg.files[f].native \in Range(dir)
    /\ reserve_one(reg.next) /\ reg.ns + 3 <= LastId
    /\ Change((n :> reg.files[f].native) @@ dir, sizes, create_link(reg, f, n), 0)

MountUnlink(n) ==
  /\ n \in DOMAIN dir \cap DOMAIN reg.links /\ reg.files[reg.links[n].child].native = dir[n]
  /\ Change(WithoutName(dir, n), sizes, [reg EXCEPT !.links = WithoutName(@, n)], 0)

OutsideCreate(n) ==
  /\ n \notin DOMAIN dir
  /\ Change((n :> FreshKey) @@ dir, (FreshKey :> 1) @@ sizes, reg, 1)

OutsideRemove(n) == n \in DOMAIN dir /\ Change(WithoutName(dir, n), sizes, reg, 1)

OutsideTruncate(n) ==
  /\ n \in DOMAIN dir /\ sizes[dir[n]] = 1
  /\ Change(dir, [sizes EXCEPT ![dir[n]] = 0], reg, 1)

-----------------------------------------------------------------------------

DirInit ==
  /\ dir \in Seeds
  /\ sizes = [k \in Range(dir) |-> 1]
  /\ reg = [files |-> <<>>, links |-> <<>>, next |-> 1, ns |-> 1]
  /\ snapshots = <<>>
  /\ scan = [o \in Opens |-> [phase |-> "done", generation |-> 0, cookie |-> 0, pattern |-> <<>>,
                              got |-> <<>>, truth |-> {}, first |-> <<>>]]
  /\ answer = "SUCCESS" /\ changes = 0 /\ outside = 0

DirNext ==
  \/ \E o \in Opens : QueryDirFirst(o) \/ QueryDirNext(o) \/ Rescan(o)
  \/ \E n \in Names : \/ query_info(n) \/ MountLink(n) \/ MountUnlink(n)
                      \/ OutsideCreate(n) \/ OutsideRemove(n) \/ OutsideTruncate(n)
  \/ query_volume \/ query_security

-----------------------------------------------------------------------------
(* Properties.                                                              *)

\* However the batches are cut, whatever attempts are abandoned and repeated, and however the
\* directory changes meanwhile, a scan lists exactly the names that matched when its first batch was
\* taken, each once and with the file it named then (direnum.rs batch, DirEnumerator::open).
ListedOnce ==
  \A o \in Opens :
    LET s == scan[o]
        listed == {<<s.got[i].name, reg.files[s.got[i].file].native>> : i \in DOMAIN s.got}
    IN /\ \A i, j \in DOMAIN s.got : s.got[i].name = s.got[j].name => i = j
       /\ listed \subseteq s.truth
       /\ s.phase = "done" => listed = s.truth

\* docs/design/05-irp-dispatch.md 12.7: the first accepted observation of a generation creates one
\* immutable match sequence, which only the next generation supersedes.  DirEnumerator::open makes a
\* new one for a repeated first request.
SnapshotFrozen ==
  \A o \in Opens : <<o, scan[o].generation>> \in DOMAIN snapshots =>
                    snapshots[<<o, scan[o].generation>>] = scan[o].first

Entries == UNION {ToSet(snapshots[k]) : k \in DOMAIN snapshots}

\* A FileId stands for one file of the volume and a LinkId for one name of one file, over every
\* listing ever made: a name removed and made again is a new link, a file with two names one file
\* (identity.rs preflight_directory_observations).
IdentitiesHold ==
  /\ \A f, g \in DOMAIN reg.files : reg.files[f].native = reg.files[g].native => f = g
  /\ \A n, m \in DOMAIN reg.links : reg.links[n].id = reg.links[m].id => n = m
  /\ \A e, d \in Entries : e.fields.link_id = d.fields.link_id => e.name = d.name /\ e.fields.file_id = d.fields.file_id
  /\ \A e \in Entries, n \in DOMAIN reg.links :
       e.fields.link_id = reg.links[n].id => n = e.name /\ reg.links[n].child = e.fields.file_id

\* The daemon ends only over a change made behind its back: a registered name that another program
\* replaced, or a file it shortened.  No request, batch, record or native answer of its own makes it
\* fail (lib.rs query_dir_registry_error, metadata.rs checked_sizes).
StopsOnlyOnOutside ==
  answer = "stopped" =>
    \/ \E n \in DOMAIN dir \cap DOMAIN reg.links : reg.files[reg.links[n].child].native # dir[n]
    \/ \E f \in DOMAIN reg.files : reg.files[f].vdl > sizes[reg.files[f].native]

=============================================================================
