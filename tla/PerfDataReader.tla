---------------------------- MODULE PerfDataReader ---------------------------
(***************************************************************************)
(* PerfDataReader: from the records of a perf.data file to PerfEvents.     *)
(*                                                                         *)
(* A file is what was recorded: the attributes (one per event, each with   *)
(* the fields its samples have, its name and the ids its samples carry),   *)
(* how they are stored, and the records with the facts they stand for.     *)
(* A sample's payload is memory as the kernel lays it out: a length in     *)
(* bytes and the values at the offsets that hold one.  The reader knows    *)
(* the facts of a sample only through this memory.                         *)
(*                                                                         *)
(* The kind of an event is its probe and whether it fires on return.       *)
(***************************************************************************)
EXTENDS PerfEvents, Integers, Sequences, FiniteSets

CONSTANTS
  Files,     \* the files to read
  AttrSize,  \* attr_size of the file header, in bytes
  GpuCalls   \* the CUDA and NCCL probes classify_event knows, as a sequence

Entry(probe) == [probe |-> probe, ret |-> FALSE]
OnReturn(probe) == [probe |-> probe, ret |-> TRUE]
Other == Entry("other")

\* PerfEvent's constructor.  arg is the thread in the type-specific data:
\* next_tid, target_tid or child_tid.
PerfEvent == [kind : [probe : STRING, ret : BOOLEAN], ts : Nat, tid : Nat, arg : Nat]
Fresh == [kind |-> Other, ts |-> 0, tid |-> 0, arg |-> 0]

\* Events as PerfEventGreater and the reorder buffer see them.
OrderKind(kind) ==
  CASE kind = Entry("sched_switch")       -> "switch"
    [] kind = Entry("sched_process_fork") -> "fork"
    [] OTHER                              -> "other"
Ordered(es) ==
  [k \in DOMAIN es |-> [ts |-> es[k].ts, kind |-> OrderKind(es[k].kind)]]

\* f[x] = y.
With(f, x, y) == [z \in DOMAIN f \cup {x} |-> IF z = x THEN y ELSE f[z]]

\* The least and the n-th element of a set of positions.
Least(S) == CHOOSE k \in S : \A j \in S : k <= j
Nth(S, n) == CHOOSE k \in S : Cardinality({j \in S : j <= k}) = n

-----------------------------------------------------------------------------
(* What the kernel and perf write. *)

\* The fields of a sample, in the order in which the kernel writes them.
AbiOrder ==
  <<"IDENTIFIER", "IP", "TID", "TIME", "ADDR", "ID", "STREAM_ID", "CPU", "PERIOD",
    "READ", "CALLCHAIN", "RAW", "BRANCH_STACK", "REGS_USER", "STACK_USER", "WEIGHT",
    "DATA_SRC", "TRANSACTION", "REGS_INTR", "PHYS_ADDR", "CGROUP",
    "DATA_PAGE_SIZE", "CODE_PAGE_SIZE", "AUX">>

\* The fields of the tracepoints: their size, and where the thread stands.
Tracepoint ==
  [sched_switch |-> [size |-> 56, at |-> 48], sched_wakeup |-> [size |-> 28, at |-> 16],
   sched_process_fork |-> [size |-> 40, at |-> 36]]

\* The common fields before them, which some versions of perf leave out.
CommonBytes(r) == IF r.raw = "common" THEN 8 ELSE 0

\* The size of the raw data of sample r, padded so that the next field is
\* aligned.  "short" raw data ends before the tracepoint's fields.
RawBytes(name, r) ==
  LET body == IF name.probe \in DOMAIN Tracepoint /\ r.raw # "short"
              THEN Tracepoint[name.probe].size + CommonBytes(r) ELSE 8
  IN  ((body + 11) \div 8) * 8 - 4

\* Field f of a sample: its size and the value it begins with.  Variable
\* fields hold one element each (the user stack holds eight bytes).
Written(name, r, f) ==
  CASE f \in {"IDENTIFIER", "ID"} -> [bytes |-> 8, value |-> r.id]
    [] f = "TID"                  -> [bytes |-> 8, value |-> r.tid]
    [] f = "TIME"                 -> [bytes |-> 8, value |-> r.ts]
    [] f = "CALLCHAIN"            -> [bytes |-> 16, value |-> 1]
    [] f = "BRANCH_STACK"         -> [bytes |-> 32, value |-> 1]
    [] f = "STACK_USER"           -> [bytes |-> 24, value |-> 8]
    [] f = "AUX"                  -> [bytes |-> 16, value |-> 8]
    [] f = "RAW"                  -> [bytes |-> 4 + RawBytes(name, r),
                                      value |-> RawBytes(name, r)]
    [] OTHER                      -> [bytes |-> 8, value |-> 0]

\* The memory mem with field f of sample r at p.
WithField(mem, name, r, f, p) ==
  LET field == With(mem, p, Written(name, r, f).value)
  IN  IF f = "RAW" /\ r.raw # "short" /\ name.probe \in DOMAIN Tracepoint
      THEN With(field, p + 4 + CommonBytes(r) + Tracepoint[name.probe].at, r.arg)
      ELSE field

\* The memory of a sample's payload, field by field; a cut one lacks its last
\* eight bytes.
Payload(attr, r) ==
  LET laid[i \in 0 .. Len(AbiOrder)] ==
        IF i = 0 THEN [len |-> 0, mem |-> <<>>]
        ELSE LET before == laid[i - 1]
                 f == AbiOrder[i]
             IN  IF f \notin attr.fields THEN before
                 ELSE [len |-> before.len + Written(attr.name, r, f).bytes,
                       mem |-> WithField(before.mem, attr.name, r, f, before.len)]
      whole == laid[Len(AbiOrder)]
  IN  [len |-> whole.len - (IF r.cut THEN 8 ELSE 0), mem |-> whole.mem]

Read(b, p) == IF p \in DOMAIN b.mem THEN b.mem[p] ELSE 0

-----------------------------------------------------------------------------
(* The constructor: attributes, ids and names. *)

\* parse_attrs takes the section for attributes paired with id sections if
\* its size allows it.
IsPaired(size) ==
  LET n == size \div (AttrSize + 16) IN n > 0 /\ n * (AttrSize + 16) = size

AttrsBytes(file) ==
  Len(file.attrs) * (IF file.paired THEN AttrSize + 16 ELSE AttrSize)

\* That guess is right for every file of this model.
ASSUME FormatAssumption ==
  \A f \in Files : IsPaired(AttrsBytes(f)) = f.paired

IdsOf(attrs) ==
  [id \in UNION {attrs[i].ids : i \in DOMAIN attrs} |->
     CHOOSE i \in DOMAIN attrs : id \in attrs[i].ids]

\* The constructor: parse_attrs, then parse_event_desc_section if the file has
\* that feature.  Both fill id_to_attr_; only the latter knows names.
Parsed(file) ==
  [attrs |-> [i \in DOMAIN file.attrs |->
                [fields |-> file.attrs[i].fields, software |-> file.attrs[i].software]],
   names |-> [i \in DOMAIN file.attrs |->
                IF file.desc THEN file.attrs[i].name ELSE Entry("")],
   ids   |-> IF file.paired \/ file.desc THEN IdsOf(file.attrs) ELSE <<>>]

-----------------------------------------------------------------------------
(* Which event a sample belongs to, and what it is. *)

IdOrder == <<"IDENTIFIER", "IP", "TID", "TIME", "ADDR", "ID">>

\* Where the sample's i-th field of IdOrder stands, if its fields are these.
IdAt(fields, i) == 8 * Cardinality({j \in 1 .. i - 1 : IdOrder[j] \in fields})

\* A plausible mistake in the definition that follows: only the ID field is looked at.
FindAttrById(h, b) ==
  LET fields == h.attrs[1].fields
      known == {i \in DOMAIN IdOrder : /\ IdOrder[i] \in {"ID"} \cap fields
                                       /\ IdAt(fields, i) + 8 <= b.len
                                       /\ Read(b, IdAt(fields, i)) \in DOMAIN h.ids}
  IN  IF Len(h.attrs) <= 1 \/ known = {} THEN 1
      ELSE h.ids[Read(b, IdAt(fields, Least(known)))]

\* find_attr_index: the first attribute says where the id is; without one that
\* is known the sample is taken for the first attribute's.
FindAttr(h, b) ==
  LET fields == h.attrs[1].fields
      known == {i \in DOMAIN IdOrder : /\ IdOrder[i] \in {"IDENTIFIER", "ID"} \cap fields
                                       /\ IdAt(fields, i) + 8 <= b.len
                                       /\ Read(b, IdAt(fields, i)) \in DOMAIN h.ids}
  IN  IF Len(h.attrs) <= 1 \/ known = {} THEN 1
      ELSE h.ids[Read(b, IdAt(fields, Least(known)))]

\* The names classify_event looks for, in its order.
Patterns ==
  <<Entry("sched_switch"), Entry("sched_wakeup"), Entry("sched_process_fork"),
    Entry("sched_stat_runtime"), Entry("context-switches"),
    OnReturn("take_gil"), Entry("take_gil"), Entry("drop_gil")>>
  \o [i \in 1 .. 2 * Len(GpuCalls) |-> IF i % 2 = 1 THEN OnReturn(GpuCalls[(i + 1) \div 2])
                                                   ELSE Entry(GpuCalls[(i + 1) \div 2])]

\* The names of the calls are none of the others.
ASSUME GpuAssumption ==
  /\ Len(GpuCalls) \in Nat /\ DOMAIN GpuCalls = 1 .. Len(GpuCalls)
  /\ \A i \in DOMAIN GpuCalls :
       GpuCalls[i] \notin {"", "other", "sched_switch", "sched_wakeup", "sched_process_fork",
                          "sched_stat_runtime", "context-switches", "take_gil", "drop_gil"}

\* name.find: the name of a return probe contains that of the entry probe.
NameHas(name, pattern) == pattern.probe = name.probe /\ (pattern.ret => name.ret)

\* classify_event
Classify(h, a) ==
  LET hits == {i \in DOMAIN Patterns : NameHas(h.names[a], Patterns[i])}
  IN  IF hits # {} THEN Patterns[Least(hits)]
      ELSE IF h.attrs[a].software THEN Entry("context-switches") ELSE Other

-----------------------------------------------------------------------------
(* decode_sample. *)

FieldOrder ==
  <<"IDENTIFIER", "IP", "TID", "TIME", "ADDR", "ID", "STREAM_ID", "CPU", "PERIOD",
    "READ", "CALLCHAIN", "BRANCH_STACK", "REGS_USER", "STACK_USER", "WEIGHT",
    "DATA_SRC", "TRANSACTION", "REGS_INTR", "PHYS_ADDR", "AUX", "CGROUP",
    "DATA_PAGE_SIZE", "CODE_PAGE_SIZE", "RAW">>

Precedes(order, x, y) ==
  \E i, j \in DOMAIN order : i < j /\ order[i] = x /\ order[j] = y

\* The reader takes RAW for the last field and AUX for an earlier one than the
\* kernel does: no attribute of this model combines them with fields between.
ASSUME LayoutAssumption ==
  \A fields \in UNION {{f.attrs[i].fields : i \in DOMAIN f.attrs} : f \in Files} :
    \A x, y \in fields : Precedes(AbiOrder, x, y) => Precedes(FieldOrder, x, y)

Undecodable == {"READ", "REGS_USER", "REGS_INTR"}
Failed == -1

\* How many bytes the field at p takes.
FieldBytes(b, f, p) ==
  LET n == Read(b, p) IN
  CASE f = "CALLCHAIN"    -> 8 + 8 * n
    [] f = "BRANCH_STACK" -> 8 + 24 * n
    [] f = "STACK_USER"   -> 8 + n + (IF n > 0 THEN 8 ELSE 0)
    [] f = "AUX"          -> 8 + n
    [] f = "RAW"          -> 4 + n
    [] OTHER              -> 8

\* The position after the field at p.
Skip(b, f, p) ==
  IF \/ f \in Undecodable
     \/ f = "CALLCHAIN" /\ Read(b, p) > 1024
     \/ p + FieldBytes(b, f, p) > b.len
  THEN Failed ELSE p + FieldBytes(b, f, p)

\* How much raw data a tracepoint needs without the common fields, and where
\* its thread stands.
RawFields ==
  [sched_switch |-> [need |-> 56, at |-> 48], sched_wakeup |-> [need |-> 24, at |-> 16],
   sched_process_fork |-> [need |-> 40, at |-> 36]]

\* The type-specific data from raw data at p: too little leaves it as it was,
\* eight bytes to spare are taken for the common fields.
RawThread(b, e, p) ==
  IF e.kind.probe \in DOMAIN RawFields /\ Read(b, p) >= RawFields[e.kind.probe].need
  THEN LET raw == RawFields[e.kind.probe]
       IN  Read(b, p + 4 + (IF Read(b, p) >= raw.need + 8 THEN 8 ELSE 0) + raw.at)
  ELSE e.arg

\* The part of event e that the field at p sets.
Store(b, e, f, p) ==
  CASE f = "TID"  -> [e EXCEPT !.tid = Read(b, p)]
    [] f = "TIME" -> [e EXCEPT !.ts = Read(b, p)]
    [] f = "RAW"  -> [e EXCEPT !.arg = RawThread(b, e, p)]
    [] OTHER      -> e

\* decode_sample into event e, field by field up to the one it fails at.
DecodeSample(b, fields, e) ==
  LET decoded[i \in 0 .. Len(FieldOrder)] ==
        IF i = 0 THEN [ok |-> TRUE, at |-> 0, event |-> e]
        ELSE LET before == decoded[i - 1]
                 f == FieldOrder[i]
                 next == Skip(b, f, before.at)
             IN  IF ~before.ok \/ f \notin fields THEN before
                 ELSE IF next = Failed THEN [before EXCEPT !.ok = FALSE]
                 ELSE [ok |-> TRUE, at |-> next, event |-> Store(b, before.event, f, before.at)]
      last == decoded[Len(FieldOrder)]
  IN  [ok |-> last.ok, event |-> last.event]

-----------------------------------------------------------------------------
(* The records of the data section. *)

\* decode_fork: the event is the parent's.
DecodeFork(r, e) ==
  IF r.cut THEN [ok |-> FALSE, event |-> e]
  ELSE [ok |-> TRUE, event |-> [kind |-> Entry("sched_process_fork"), ts |-> r.ts,
                                tid |-> r.tid, arg |-> r.arg]]

\* What next_event makes of record r of a file with header h, writing to e.
\* Without attributes a sample is passed over, and so are other records.
Decode(h, e, r) ==
  CASE r.type = "sample" /\ h.attrs # <<>> ->
         LET a == FindAttr(h, r.payload)
         IN  DecodeSample(r.payload, h.attrs[a].fields, [e EXCEPT !.kind = Classify(h, a)])
    [] r.type = "fork" -> DecodeFork(r, e)
    [] OTHER           -> [ok |-> FALSE, event |-> e]

\* A plausible mistake in the definition that follows: a thread keeps its first name.
DecodeCommOnce(names, r) ==
  IF r.type = "comm" /\ ~r.cut /\ r.name # "" /\ r.tid \notin DOMAIN names
  THEN With(names, r.tid, r.name) ELSE names

\* decode_comm: a record that is too short or names nothing is ignored.
DecodeComm(names, r) ==
  IF r.type = "comm" /\ ~r.cut /\ r.name # "" THEN With(names, r.tid, r.name) ELSE names

\* The first record the cursor does not pass: one with an impossible size, or
\* the end of the data.
Stop(file) ==
  LET bad == {k \in DOMAIN file.records : file.records[k].type = "bad"}
  IN  IF bad = {} THEN Len(file.records) + 1 ELSE Least(bad)

\* The records from the cursor on that become events.
Decodable(file, h, cursor) ==
  {k \in cursor .. Stop(file) - 1 : Decode(h, Fresh, file.records[k]).ok}

\* Event e and the names after the records from the cursor to `last`.
PassedBy(file, h, cursor, last, e, names) ==
  LET after[k \in cursor - 1 .. last] ==
        IF k = cursor - 1 THEN [event |-> e, names |-> names]
        ELSE LET before == after[k - 1]
             IN  [event |-> Decode(h, before.event, file.records[k]).event,
                  names |-> DecodeComm(before.names, file.records[k])]
  IN  after[last]

\* next_event(out) with out = e: where it leaves the cursor, the event and the
\* names; found is FALSE at the end.
NextEvent(file, h, cursor, e, names) ==
  LET good   == Decodable(file, h, cursor)
      after  == IF good = {} THEN Stop(file) ELSE Least(good) + 1
      passed == PassedBy(file, h, cursor, after - 1, e, names)
  IN  [found |-> good # {}, cursor |-> after, event |-> passed.event, names |-> passed.names]

\* read_all_events: a new PerfEvent for every record.
AllEvents(file, h) ==
  LET good == Decodable(file, h, 1)
  IN  [n \in 1 .. Cardinality(good) |-> Decode(h, Fresh, file.records[Nth(good, n)]).event]

AllNames(file, h) == PassedBy(file, h, 1, Stop(file) - 1, Fresh, <<>>).names

-----------------------------------------------------------------------------
(* What was recorded. *)

\* The records that are events: whole, and without fields of unknown size.
IsEvent(file, r) ==
  \/ r.type = "fork" /\ ~r.cut
  \/ r.type = "sample" /\ ~r.cut /\ file.attrs[r.attr].fields \cap Undecodable = {}

KindOf(file, r) ==
  IF r.type = "fork" THEN Entry("sched_process_fork") ELSE file.attrs[r.attr].name

\* Events that have a thread in their data, and enough raw data to hold it.
HasArg(file, r) ==
  \/ r.type = "fork"
  \/ /\ file.attrs[r.attr].name.probe \in DOMAIN Tracepoint /\ r.raw # "short"
     /\ "RAW" \in file.attrs[r.attr].fields

Recorded(file) ==
  LET good == {k \in 1 .. Stop(file) - 1 : IsEvent(file, file.records[k])}
  IN  [n \in 1 .. Cardinality(good) |-> file.records[Nth(good, n)]]

\* What perf record writes: every sample says when and where it was taken.  Of
\* several attributes it says which one, by an id of that attribute alone: in a
\* field that comes first, or one that all have at the same place, for then
\* perf asks for the same fields.
IsHeader(file) ==
  LET attrs == file.attrs IN
  /\ Len(attrs) \in Nat /\ DOMAIN attrs = 1 .. Len(attrs)
  /\ \A i \in DOMAIN attrs : {"TID", "TIME"} \subseteq attrs[i].fields
  /\ \A i, j \in DOMAIN attrs : i # j => attrs[i].ids \cap attrs[j].ids = {}
  /\ Len(attrs) > 1 =>
       \/ /\ file.paired \/ file.desc
          /\ \A i \in DOMAIN attrs : "IDENTIFIER" \in attrs[i].fields
       \/ \A i, j \in DOMAIN attrs : /\ attrs[i].fields = attrs[j].fields
                                    /\ "ID" \in attrs[i].fields
  /\ file.desc => \A i \in DOMAIN attrs :
                    \/ \E n \in DOMAIN Patterns : attrs[i].name = Patterns[n]
                    \/ attrs[i].name = Other /\ ~attrs[i].software

IsRecord(file, r) ==
  /\ r.type \in {"sample", "fork", "comm", "mmap", "bad"}
  /\ r.type \in {"sample", "fork", "comm"} => r.cut \in BOOLEAN
  /\ r.type = "sample" =>
       /\ r.attr \in DOMAIN file.attrs
       /\ r.id \in file.attrs[r.attr].ids
       /\ r.raw \in {"common", "stripped", "short"}
       /\ r.payload = Payload(file.attrs[r.attr], r)

ASSUME FileAssumption ==
  \A f \in Files :
    /\ IsHeader(f)
    /\ Len(f.records) \in Nat /\ DOMAIN f.records = 1 .. Len(f.records)
    /\ \A k \in DOMAIN f.records : IsRecord(f, f.records[k])

\* The last name of each thread.
RecordedNames(file) ==
  LET comms == {k \in 1 .. Stop(file) - 1 :
                  /\ file.records[k].type = "comm"
                  /\ ~file.records[k].cut /\ file.records[k].name # ""}
      last(t) == CHOOSE k \in comms :
        /\ file.records[k].tid = t
        /\ \A j \in comms : file.records[j].tid = t => j <= k
  IN  [t \in {file.records[k].tid : k \in comms} |-> file.records[last(t)].name]
=============================================================================
