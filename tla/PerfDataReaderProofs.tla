------------------------- MODULE PerfDataReaderProofs -----------------------
(***************************************************************************)
(* What the reader makes of a file, for every file perf record may write.  *)
(*                                                                         *)
(* The loops of the model are recursive functions: each of them is first   *)
(* read as turns that satisfy its equation (PayloadByTurns, DecodeByTurns, *)
(* PassedByTurns), and what holds after every turn follows by Counting.    *)
(* The memory of a sample holds each of its fields where the kernel laid   *)
(* it (FieldsHeld), the decoder arrives at each of them (ReaderMeetsFields)*)
(* and stores what they hold (DecodeExact).  With the attribute            *)
(* (FindAttrExact) and its name (ClassifyIs) that settles a record         *)
(* (RecordTaken), and with the records that are passed over a call of      *)
(* next_event (NextEventIs) and of read_all_events (AllEventsAre).         *)
(***************************************************************************)
EXTENDS PerfDataReader, FiniteSetTheorems, SequenceTheorems, WellFoundedInduction, TLAPS

\* Induction over the turns of a loop, stated of the turns at which a claim holds.
LEMMA Counting ==
  ASSUME NEW n \in Nat, NEW T, 0 \in T, \A i \in 1 .. n : i - 1 \in T => i \in T
  PROVE  \A i \in 0 .. n : i \in T
<1> DEFINE R == OpToRel(<, Nat)
           S == {i \in 0 .. n : i \notin T}
<1>1. IsWellFoundedOn(R, Nat)
  BY NatLessThanWellFounded
<1>2. \A x \in Nat, y \in Nat : y < x => <<y, x>> \in R
  BY DEF OpToRel
<1> HIDE DEF R
<1>3. ASSUME S # {}
      PROVE  FALSE
  <2>1. S \subseteq Nat
    OBVIOUS
  <2>2. PICK x \in S : \A y \in S : ~ (<<y, x>> \in R)
    BY <1>1, <1>3, <2>1, WFMin
  <2>3. x \in 1 .. n /\ x - 1 \in 0 .. n /\ x \in Nat /\ x - 1 \in Nat /\ x - 1 < x
    OBVIOUS
  <2>4. x - 1 \notin S
    BY <1>2, <2>2, <2>3
  <2>5. QED BY <2>2, <2>3, <2>4
<1>4. QED BY <1>3

-----------------------------------------------------------------------------
(* The payload of a sample, field by field. *)

\* What a turn of Payload makes of the memory it has laid so far.
LaidNext(attr, r, before, f) ==
  IF f \notin attr.fields THEN before
  ELSE [len |-> before.len + Written(attr.name, r, f).bytes,
        mem |-> WithField(before.mem, attr.name, r, f, before.len)]

NothingLaid == [len |-> 0, mem |-> <<>>]

LaidTurns(L, attr, r) ==
  L = [i \in 0 .. Len(AbiOrder) |->
         IF i = 0 THEN NothingLaid ELSE LaidNext(attr, r, L[i - 1], AbiOrder[i])]

\* The fields in the kernel's order, one by one.
LEMMA AbiFields ==
  /\ Len(AbiOrder) = 24 /\ DOMAIN AbiOrder = 1 .. 24
  /\ AbiOrder[1] = "IDENTIFIER" /\ AbiOrder[2] = "IP" /\ AbiOrder[3] = "TID"
  /\ AbiOrder[4] = "TIME" /\ AbiOrder[5] = "ADDR" /\ AbiOrder[6] = "ID"
  /\ AbiOrder[7] = "STREAM_ID" /\ AbiOrder[8] = "CPU" /\ AbiOrder[9] = "PERIOD"
  /\ AbiOrder[10] = "READ" /\ AbiOrder[11] = "CALLCHAIN" /\ AbiOrder[12] = "RAW"
  /\ AbiOrder[13] = "BRANCH_STACK" /\ AbiOrder[14] = "REGS_USER"
  /\ AbiOrder[15] = "STACK_USER" /\ AbiOrder[16] = "WEIGHT" /\ AbiOrder[17] = "DATA_SRC"
  /\ AbiOrder[18] = "TRANSACTION" /\ AbiOrder[19] = "REGS_INTR"
  /\ AbiOrder[20] = "PHYS_ADDR" /\ AbiOrder[21] = "CGROUP"
  /\ AbiOrder[22] = "DATA_PAGE_SIZE" /\ AbiOrder[23] = "CODE_PAGE_SIZE"
  /\ AbiOrder[24] = "AUX"
BY DEF AbiOrder

\* The fields in the reader's order, one by one.
LEMMA CodeFields ==
  /\ Len(FieldOrder) = 24 /\ DOMAIN FieldOrder = 1 .. 24
  /\ FieldOrder[1] = "IDENTIFIER" /\ FieldOrder[2] = "IP" /\ FieldOrder[3] = "TID"
  /\ FieldOrder[4] = "TIME" /\ FieldOrder[5] = "ADDR" /\ FieldOrder[6] = "ID"
  /\ FieldOrder[7] = "STREAM_ID" /\ FieldOrder[8] = "CPU" /\ FieldOrder[9] = "PERIOD"
  /\ FieldOrder[10] = "READ" /\ FieldOrder[11] = "CALLCHAIN"
  /\ FieldOrder[12] = "BRANCH_STACK" /\ FieldOrder[13] = "REGS_USER"
  /\ FieldOrder[14] = "STACK_USER" /\ FieldOrder[15] = "WEIGHT"
  /\ FieldOrder[16] = "DATA_SRC" /\ FieldOrder[17] = "TRANSACTION"
  /\ FieldOrder[18] = "REGS_INTR" /\ FieldOrder[19] = "PHYS_ADDR"
  /\ FieldOrder[20] = "AUX" /\ FieldOrder[21] = "CGROUP"
  /\ FieldOrder[22] = "DATA_PAGE_SIZE" /\ FieldOrder[23] = "CODE_PAGE_SIZE"
  /\ FieldOrder[24] = "RAW"
BY DEF FieldOrder

\* Payload is what its turns lay, and they can all be taken.
LEMMA PayloadByTurns ==
  ASSUME NEW attr, NEW r
  PROVE  \E L : /\ LaidTurns(L, attr, r)
                /\ Payload(attr, r) = [len |-> L[24].len - (IF r.cut THEN 8 ELSE 0),
                                       mem |-> L[24].mem]
<1> DEFINE Upto(L, k) ==
             L = [i \in 0 .. k |->
                    IF i = 0 THEN NothingLaid ELSE LaidNext(attr, r, L[i - 1], AbiOrder[i])]
           T == {k \in 0 .. 24 : \E L : Upto(L, k)}
<1>1. 0 \in T
  <2>1. PICK L : L = [i \in 0 .. 0 |-> NothingLaid]
    OBVIOUS
  <2>2. Upto(L, 0)
    BY <2>1
  <2>3. QED BY <2>2
<1>2. ASSUME NEW k \in 1 .. 24, k - 1 \in T
      PROVE  k \in T
  <2>1. PICK L : Upto(L, k - 1)
    BY <1>2
  <2>2. PICK v : v = LaidNext(attr, r, L[k - 1], AbiOrder[k])
    OBVIOUS
  <2>3. PICK g : g = [i \in 0 .. k |-> IF i = k THEN v ELSE L[i]]
    OBVIOUS
  <2>4. ASSUME NEW i \in 0 .. k
        PROVE  g[i] = IF i = 0 THEN NothingLaid ELSE LaidNext(attr, r, g[i - 1], AbiOrder[i])
    <3>1. CASE i = k
      <4>1. i # 0 /\ g[i - 1] = L[k - 1] /\ g[i] = v
        BY <2>3, <3>1
      <4>2. QED BY <2>2, <3>1, <4>1
    <3>2. CASE i \in 0 .. k - 1
      <4>1. g[i] = L[i] /\ (i # 0 => g[i - 1] = L[i - 1])
        BY <2>3, <3>2
      <4>2. QED BY <2>1, <3>2, <4>1
    <3>3. QED BY <3>1, <3>2
  <2>5. Upto(g, k)
    BY <2>3, <2>4
  <2>6. QED BY <2>5
<1>3. 24 \in T
  <2> HIDE DEF T
  <2>1. \A k \in 1 .. 24 : k - 1 \in T => k \in T
    BY <1>2
  <2>2. \A k \in 0 .. 24 : k \in T
    BY <1>1, <2>1, Counting
  <2>3. QED BY <2>2
<1>4. \E L : LaidTurns(L, attr, r)
  BY <1>3, AbiFields DEF LaidTurns
<1>5. PICK L : L = (CHOOSE M : LaidTurns(M, attr, r))
  OBVIOUS
<1>6. Payload(attr, r) = [len |-> L[Len(AbiOrder)].len - (IF r.cut THEN 8 ELSE 0),
                          mem |-> L[Len(AbiOrder)].mem]
  BY <1>5 DEF Payload, LaidTurns, LaidNext, NothingLaid
<1>7. LaidTurns(L, attr, r)
  BY <1>4, <1>5
<1>8. QED BY <1>6, <1>7, AbiFields

\* The raw data of a sample: with or without the common fields, or too short.
RawForm(r) == r.raw \in {"common", "stripped", "short"}

\* The raw data has room for the tracepoint's thread; where it has, the reader finds the
\* thread there, for it tells by the size whether the common fields are written.
LEMMA RawSizes ==
  ASSUME NEW name, NEW r, RawForm(r)
  PROVE  /\ RawBytes(name, r) \in Nat /\ RawBytes(name, r) >= 12
         /\ CommonBytes(r) \in Nat
         /\ r.raw = "short" \/ name.probe \notin DOMAIN Tracepoint => RawBytes(name, r) = 12
         /\ r.raw # "short" /\ name.probe \in DOMAIN Tracepoint =>
              /\ Tracepoint[name.probe].at \in Nat
              /\ Tracepoint[name.probe].at + CommonBytes(r) < RawBytes(name, r)
              /\ name.probe \in DOMAIN RawFields
              /\ RawBytes(name, r) >= RawFields[name.probe].need
              /\ Tracepoint[name.probe].at = RawFields[name.probe].at
              /\ CommonBytes(r)
                   = IF RawBytes(name, r) >= RawFields[name.probe].need + 8 THEN 8 ELSE 0
<1>1. DOMAIN Tracepoint = {"sched_switch", "sched_wakeup", "sched_process_fork"}
  BY DEF Tracepoint
<1>2. /\ Tracepoint["sched_switch"].size = 56 /\ Tracepoint["sched_switch"].at = 48
      /\ Tracepoint["sched_wakeup"].size = 28 /\ Tracepoint["sched_wakeup"].at = 16
      /\ Tracepoint["sched_process_fork"].size = 40 /\ Tracepoint["sched_process_fork"].at = 36
  BY DEF Tracepoint
<1>3. /\ RawFields["sched_switch"].need = 56 /\ RawFields["sched_switch"].at = 48
      /\ RawFields["sched_wakeup"].need = 24 /\ RawFields["sched_wakeup"].at = 16
      /\ RawFields["sched_process_fork"].need = 40 /\ RawFields["sched_process_fork"].at = 36
      /\ DOMAIN RawFields = {"sched_switch", "sched_wakeup", "sched_process_fork"}
  BY DEF RawFields
<1>4. /\ CommonBytes(r) \in {0, 8} /\ (r.raw = "common" => CommonBytes(r) = 8)
      /\ (r.raw = "stripped" => CommonBytes(r) = 0)
  BY DEF CommonBytes
<1>5. CASE r.raw = "short" \/ name.probe \notin DOMAIN Tracepoint
  <2>1. RawBytes(name, r) = 12
    BY <1>5 DEF RawBytes
  <2>2. QED BY <1>4, <1>5, <2>1
<1>6. CASE r.raw # "short" /\ name.probe \in DOMAIN Tracepoint
  <2> USE DEF RawForm
  <2>1. PICK body \in Nat : body = Tracepoint[name.probe].size + CommonBytes(r)
    BY <1>1, <1>2, <1>4, <1>6
  <2>2. RawBytes(name, r) = ((body + 11) \div 8) * 8 - 4
    BY <1>6, <2>1 DEF RawBytes
  <2>3. CASE name.probe = "sched_switch"
    <3>1. CASE r.raw = "common"
      <4>1. body = 64
        BY <1>2, <1>4, <2>1, <2>3, <3>1
      <4>2. RawBytes(name, r) = 68
        BY <2>2, <4>1
      <4>3. QED BY <1>2, <1>3, <1>4, <1>6, <2>3, <3>1, <4>2
    <3>2. CASE r.raw = "stripped"
      <4>1. body = 56
        BY <1>2, <1>4, <2>1, <2>3, <3>2
      <4>2. RawBytes(name, r) = 60
        BY <2>2, <4>1
      <4>3. QED BY <1>2, <1>3, <1>4, <1>6, <2>3, <3>2, <4>2
    <3>3. QED BY <1>6, <3>1, <3>2
  <2>4. CASE name.probe = "sched_wakeup"
    <3>1. CASE r.raw = "common"
      <4>1. body = 36
        BY <1>2, <1>4, <2>1, <2>4, <3>1
      <4>2. RawBytes(name, r) = 36
        BY <2>2, <4>1
      <4>3. QED BY <1>2, <1>3, <1>4, <1>6, <2>4, <3>1, <4>2
    <3>2. CASE r.raw = "stripped"
      <4>1. body = 28
        BY <1>2, <1>4, <2>1, <2>4, <3>2
      <4>2. RawBytes(name, r) = 28
        BY <2>2, <4>1
      <4>3. QED BY <1>2, <1>3, <1>4, <1>6, <2>4, <3>2, <4>2
    <3>3. QED BY <1>6, <3>1, <3>2
  <2>5. CASE name.probe = "sched_process_fork"
    <3>1. CASE r.raw = "common"
      <4>1. body = 48
        BY <1>2, <1>4, <2>1, <2>5, <3>1
      <4>2. RawBytes(name, r) = 52
        BY <2>2, <4>1
      <4>3. QED BY <1>2, <1>3, <1>4, <1>6, <2>5, <3>1, <4>2
    <3>2. CASE r.raw = "stripped"
      <4>1. body = 40
        BY <1>2, <1>4, <2>1, <2>5, <3>2
      <4>2. RawBytes(name, r) = 44
        BY <2>2, <4>1
      <4>3. QED BY <1>2, <1>3, <1>4, <1>6, <2>5, <3>2, <4>2
    <3>3. QED BY <1>6, <3>1, <3>2
  <2>6. QED BY <1>1, <1>6, <2>3, <2>4, <2>5
<1>7. QED BY <1>5, <1>6

\* No field takes less than eight bytes.
LEMMA FieldTakesBytes ==
  ASSUME NEW name, NEW r, RawForm(r), NEW f
  PROVE  Written(name, r, f).bytes \in Nat /\ Written(name, r, f).bytes >= 8
<1>1. RawBytes(name, r) \in Nat /\ RawBytes(name, r) >= 12
  BY RawSizes
<1>2. CASE f = "RAW"
  BY <1>1, <1>2 DEF Written
<1>3. CASE f # "RAW"
  BY <1>3 DEF Written
<1>4. QED BY <1>2, <1>3

\* Where the fields stand that the kernel has laid.
InOrder(L, attr, r) ==
  /\ L[0].len = 0 /\ \A i \in 0 .. 24 : L[i].len \in Nat
  /\ \A i \in 1 .. 24 : AbiOrder[i] \notin attr.fields => L[i] = L[i - 1]
  /\ \A i \in 1 .. 24 : AbiOrder[i] \in attr.fields =>
       L[i].len = L[i - 1].len + Written(attr.name, r, AbiOrder[i]).bytes
  /\ \A i, j \in 0 .. 24 : i <= j => L[i].len <= L[j].len

\* Every field stands behind those before it.
LEMMA FieldsInOrder ==
  ASSUME NEW attr, NEW r, RawForm(r),
         NEW L, LaidTurns(L, attr, r)
  PROVE  InOrder(L, attr, r)
<1>1. L[0] = NothingLaid /\ \A i \in 1 .. 24 : L[i] = LaidNext(attr, r, L[i - 1], AbiOrder[i])
  BY AbiFields DEF LaidTurns
<1>2. L[0].len = 0
  BY <1>1 DEF NothingLaid
<1>3. \A i \in 1 .. 24 : AbiOrder[i] \notin attr.fields => L[i] = L[i - 1]
  BY <1>1 DEF LaidNext
<1>4. \A i \in 1 .. 24 : AbiOrder[i] \in attr.fields =>
        L[i].len = L[i - 1].len + Written(attr.name, r, AbiOrder[i]).bytes
  BY <1>1 DEF LaidNext
<1>5. \A i \in 1 .. 24 : /\ Written(attr.name, r, AbiOrder[i]).bytes \in Nat
                         /\ Written(attr.name, r, AbiOrder[i]).bytes >= 8
  BY FieldTakesBytes
<1>6. \A i \in 0 .. 24 : L[i].len \in Nat
  <2> DEFINE T == {i \in 0 .. 24 : L[i].len \in Nat}
  <2>1. 0 \in T
    BY <1>2
  <2>2. ASSUME NEW i \in 1 .. 24, i - 1 \in T
        PROVE  i \in T
    <3>1. L[i - 1].len \in Nat
      BY <2>2
    <3>2. CASE AbiOrder[i] \notin attr.fields
      BY <1>3, <3>1, <3>2
    <3>3. CASE AbiOrder[i] \in attr.fields
      <4>1. L[i].len = L[i - 1].len + Written(attr.name, r, AbiOrder[i]).bytes
        BY <1>4, <3>3
      <4>2. L[i].len \in Nat
        BY <1>5, <3>1, <4>1
      <4>3. QED BY <4>2
    <3>4. QED BY <3>2, <3>3
  <2> HIDE DEF T
  <2>3. \A i \in 0 .. 24 : i \in T
    BY <2>1, <2>2, Counting
  <2>4. QED BY <2>3 DEF T
<1>7. \A i \in 1 .. 24 : L[i - 1].len <= L[i].len
  <2> TAKE i \in 1 .. 24
  <2>1. i - 1 \in 0 .. 24 /\ L[i - 1].len \in Nat
    BY <1>6
  <2>2. CASE AbiOrder[i] \notin attr.fields
    BY <1>3, <2>1, <2>2
  <2>3. CASE AbiOrder[i] \in attr.fields
    <3>1. L[i].len = L[i - 1].len + Written(attr.name, r, AbiOrder[i]).bytes
      BY <1>4, <2>3
    <3>2. QED BY <1>5, <2>1, <3>1
  <2>4. QED BY <2>2, <2>3
<1>8. ASSUME NEW i \in 0 .. 24
      PROVE  \A j \in 0 .. 24 : i <= j => L[i].len <= L[j].len
  <2> DEFINE T == {j \in 0 .. 24 : i <= j => L[i].len <= L[j].len}
  <2>1. 0 \in T
    BY <1>2, <1>6
  <2>2. ASSUME NEW j \in 1 .. 24, j - 1 \in T
        PROVE  j \in T
    <3>1. j - 1 \in 0 .. 24 /\ L[j - 1].len \in Nat /\ L[i].len \in Nat /\ L[j].len \in Nat
      BY <1>6
    <3>2. L[j - 1].len <= L[j].len
      BY <1>7
    <3>3. CASE i = j
      BY <3>1, <3>3
    <3>4. CASE i <= j - 1
      BY <2>2, <3>1, <3>2, <3>4
    <3>5. QED BY <3>3, <3>4
  <2> HIDE DEF T
  <2>3. \A j \in 0 .. 24 : j \in T
    BY <2>1, <2>2, Counting
  <2>4. QED BY <2>3 DEF T
<1>9. QED BY <1>2, <1>3, <1>4, <1>6, <1>8 DEF InOrder

\* The memory of the first i fields: it ends with them, and each holds its value.
Holds(L, attr, r, i) ==
  /\ \A p \in DOMAIN L[i].mem : p \in Nat /\ p < L[i].len
  /\ \A j \in 1 .. i : AbiOrder[j] \in attr.fields =>
       /\ L[j - 1].len \in DOMAIN L[i].mem
       /\ L[i].mem[L[j - 1].len] = Written(attr.name, r, AbiOrder[j]).value
       /\ AbiOrder[j] = "RAW" /\ r.raw # "short" /\ attr.name.probe \in DOMAIN Tracepoint =>
            LET q == L[j - 1].len + 4 + CommonBytes(r) + Tracepoint[attr.name.probe].at
            IN  q \in DOMAIN L[i].mem /\ L[i].mem[q] = r.arg

\* A field is written past all that the memory holds, so it disturbs nothing.
FieldAdded(mem, new, name, r, f, p) ==
  /\ \A q \in DOMAIN new : q \in Nat /\ q < p + Written(name, r, f).bytes
  /\ \A q \in DOMAIN mem : q \in DOMAIN new /\ new[q] = mem[q]
  /\ p \in DOMAIN new /\ new[p] = Written(name, r, f).value
  /\ f = "RAW" /\ r.raw # "short" /\ name.probe \in DOMAIN Tracepoint =>
       LET q == p + 4 + CommonBytes(r) + Tracepoint[name.probe].at
       IN  q \in DOMAIN new /\ new[q] = r.arg

\* WithField keeps the fields before it.
LEMMA WithFieldKeeps ==
  ASSUME NEW mem, NEW p \in Nat, \A q \in DOMAIN mem : q \in Nat /\ q < p,
         NEW name, NEW r, RawForm(r), NEW f,
         NEW new, new = WithField(mem, name, r, f, p)
  PROVE  FieldAdded(mem, new, name, r, f, p)
<1>1. PICK v, n : v = Written(name, r, f).value /\ n = Written(name, r, f).bytes
  OBVIOUS
<1>2. n \in Nat /\ n >= 8
  BY <1>1, FieldTakesBytes
<1>3. PICK field : field = [z \in DOMAIN mem \cup {p} |-> IF z = p THEN v ELSE mem[z]]
  OBVIOUS
<1>4. /\ DOMAIN field = DOMAIN mem \cup {p} /\ field[p] = v
      /\ \A q \in DOMAIN mem : field[q] = mem[q]
  BY <1>3
<1>5. CASE f = "RAW" /\ r.raw # "short" /\ name.probe \in DOMAIN Tracepoint
  <2>1. PICK a : a = Tracepoint[name.probe].at
    OBVIOUS
  <2>2. PICK c : c = CommonBytes(r)
    OBVIOUS
  <2>3. a \in Nat /\ c \in Nat /\ a + c < RawBytes(name, r) /\ RawBytes(name, r) \in Nat
    BY <1>5, <2>1, <2>2, RawSizes
  <2>4. n = 4 + RawBytes(name, r)
    BY <1>1, <1>5 DEF Written
  <2>5. PICK q \in Nat : q = p + 4 + c + a
    BY <2>3
  <2>6. q > p /\ q < p + n /\ q \notin DOMAIN mem /\ q # p
    BY <2>3, <2>4, <2>5
  <2>7. new = [z \in DOMAIN field \cup {q} |-> IF z = q THEN r.arg ELSE field[z]]
    BY <1>1, <1>3, <1>5, <2>1, <2>2, <2>5 DEF WithField, With
  <2>8. /\ DOMAIN new = DOMAIN mem \cup {p, q} /\ new[q] = r.arg /\ new[p] = v
        /\ \A x \in DOMAIN mem : new[x] = mem[x]
    BY <1>4, <2>6, <2>7
  <2>9. \A x \in DOMAIN new : x \in Nat /\ x < p + n
    BY <1>2, <2>6, <2>8
  <2>10. QED BY <1>1, <2>1, <2>2, <2>5, <2>8, <2>9 DEF FieldAdded
<1>6. CASE ~ (f = "RAW" /\ r.raw # "short" /\ name.probe \in DOMAIN Tracepoint)
  <2>1. new = field
    BY <1>1, <1>3, <1>6 DEF WithField, With
  <2>2. \A x \in DOMAIN new : x \in Nat /\ x < p + n
    BY <1>2, <1>4, <2>1
  <2>3. QED BY <1>1, <1>4, <1>6, <2>1, <2>2 DEF FieldAdded
<1>7. QED BY <1>5, <1>6

\* The whole payload holds every field.
LEMMA FieldsHeld ==
  ASSUME NEW attr, NEW r, RawForm(r),
         NEW L, LaidTurns(L, attr, r)
  PROVE  Holds(L, attr, r, 24)
<1>1. L[0] = NothingLaid /\ \A i \in 1 .. 24 : L[i] = LaidNext(attr, r, L[i - 1], AbiOrder[i])
  BY AbiFields DEF LaidTurns
<1>2. InOrder(L, attr, r)
  BY FieldsInOrder
<1>3. /\ \A i \in 0 .. 24 : L[i].len \in Nat
      /\ \A i \in 1 .. 24 : AbiOrder[i] \notin attr.fields => L[i] = L[i - 1]
  BY <1>2 DEF InOrder
<1> DEFINE T == {i \in 0 .. 24 : Holds(L, attr, r, i)}
<1>4. 0 \in T
  <2>1. L[0].mem = <<>>
    BY <1>1 DEF NothingLaid
  <2>2. DOMAIN L[0].mem = {}
    BY <2>1
  <2>3. QED BY <2>2 DEF Holds
<1>5. ASSUME NEW i \in 1 .. 24, i - 1 \in T
      PROVE  i \in T
  <2>1. Holds(L, attr, r, i - 1) /\ i - 1 \in 0 .. 24
    BY <1>5
  <2>2. CASE AbiOrder[i] \notin attr.fields
    <3>1. L[i] = L[i - 1]
      BY <1>3, <2>2
    <3>2. \A j \in 1 .. i : AbiOrder[j] \in attr.fields => j \in 1 .. i - 1
      BY <2>2
    <3>3. Holds(L, attr, r, i)
      BY <2>1, <3>1, <3>2 DEF Holds
    <3>4. QED BY <3>3
  <2>3. CASE AbiOrder[i] \in attr.fields
    <3>1. PICK p, mem : p \in Nat /\ p = L[i - 1].len /\ mem = L[i - 1].mem
      BY <1>3, <2>1
    <3>2. PICK new : new = WithField(mem, attr.name, r, AbiOrder[i], p)
      OBVIOUS
    <3>3. L[i].mem = new /\ L[i].len = p + Written(attr.name, r, AbiOrder[i]).bytes
      <4>1. L[i] = LaidNext(attr, r, L[i - 1], AbiOrder[i])
        BY <1>1
      <4>2. L[i] = [len |-> p + Written(attr.name, r, AbiOrder[i]).bytes, mem |-> new]
        BY <2>3, <3>1, <3>2, <4>1 DEF LaidNext
      <4>3. QED BY <4>2
    <3>4. \A q \in DOMAIN mem : q \in Nat /\ q < p
      BY <2>1, <3>1 DEF Holds
    <3>5. FieldAdded(mem, new, attr.name, r, AbiOrder[i], p)
      <4>1. PICK name, f : name = attr.name /\ f = AbiOrder[i]
        OBVIOUS
      <4>2. new = WithField(mem, name, r, f, p)
        BY <3>2, <4>1
      <4>3. FieldAdded(mem, new, name, r, f, p)
        BY <3>1, <3>4, <4>2, WithFieldKeeps
      <4>4. QED BY <4>1, <4>3
    <3>6. ASSUME NEW j \in 1 .. i, AbiOrder[j] \in attr.fields
          PROVE  /\ L[j - 1].len \in DOMAIN L[i].mem
                 /\ L[i].mem[L[j - 1].len] = Written(attr.name, r, AbiOrder[j]).value
                 /\ AbiOrder[j] = "RAW" /\ r.raw # "short"
                      /\ attr.name.probe \in DOMAIN Tracepoint =>
                      LET q == L[j - 1].len + 4 + CommonBytes(r)
                                 + Tracepoint[attr.name.probe].at
                      IN  q \in DOMAIN L[i].mem /\ L[i].mem[q] = r.arg
      <4>1. CASE j = i
        BY <3>1, <3>3, <3>5, <4>1 DEF FieldAdded
      <4>2. CASE j \in 1 .. i - 1
        <5>1. /\ L[j - 1].len \in DOMAIN mem
              /\ mem[L[j - 1].len] = Written(attr.name, r, AbiOrder[j]).value
              /\ AbiOrder[j] = "RAW" /\ r.raw # "short"
                   /\ attr.name.probe \in DOMAIN Tracepoint =>
                   LET q == L[j - 1].len + 4 + CommonBytes(r) + Tracepoint[attr.name.probe].at
                   IN  q \in DOMAIN mem /\ mem[q] = r.arg
          BY <2>1, <3>1, <3>6, <4>2 DEF Holds
        <5>2. QED BY <3>3, <3>5, <5>1 DEF FieldAdded
      <4>3. QED BY <4>1, <4>2
    <3>7. Holds(L, attr, r, i)
      BY <3>3, <3>5, <3>6 DEF Holds, FieldAdded
    <3>8. QED BY <3>7
  <2>4. QED BY <2>2, <2>3
<1> HIDE DEF T
<1>6. \A i \in 0 .. 24 : i \in T
  BY <1>4, <1>5, Counting
<1>7. QED BY <1>6 DEF T

-----------------------------------------------------------------------------
(* Where the reader looks for the fields. *)

\* What LayoutAssumption says of one attribute.
Laid(fields) ==
  /\ "RAW" \in fields => \A i \in 13 .. 24 : AbiOrder[i] \notin fields
  /\ "AUX" \in fields => \A i \in 21 .. 23 : AbiOrder[i] \notin fields

\* LayoutAssumption, of the attributes of one file.
LEMMA LayoutIs ==
  ASSUME NEW f \in Files, NEW a \in DOMAIN f.attrs, NEW fields, fields = f.attrs[a].fields
  PROVE  Laid(fields)
<1>1. fields \in UNION {{g.attrs[i].fields : i \in DOMAIN g.attrs} : g \in Files}
  OBVIOUS
<1>2. \A x, y \in fields : Precedes(AbiOrder, x, y) => Precedes(FieldOrder, x, y)
  BY <1>1, LayoutAssumption DEF LayoutAssumption
<1>3. ASSUME "RAW" \in fields, NEW i \in 13 .. 24, AbiOrder[i] \in fields
      PROVE  FALSE
  <2>1. Precedes(AbiOrder, "RAW", AbiOrder[i])
    BY AbiFields DEF Precedes
  <2>2. Precedes(FieldOrder, "RAW", AbiOrder[i])
    BY <1>2, <1>3, <2>1
  <2>3. PICK k, j \in 1 .. 24 : k < j /\ FieldOrder[k] = "RAW"
    BY <2>2, CodeFields DEF Precedes
  <2>4. k = 24
    BY <2>3, CodeFields
  <2>5. QED BY <2>3, <2>4
<1>4. ASSUME "AUX" \in fields, NEW i \in 21 .. 23, AbiOrder[i] \in fields
      PROVE  FALSE
  <2>1. Precedes(AbiOrder, AbiOrder[i], "AUX")
    BY AbiFields DEF Precedes
  <2>2. Precedes(FieldOrder, AbiOrder[i], "AUX")
    BY <1>2, <1>4, <2>1
  <2>3. PICK k, j \in 1 .. 24 : k < j /\ FieldOrder[k] = AbiOrder[i] /\ FieldOrder[j] = "AUX"
    BY <2>2, CodeFields DEF Precedes
  <2>4. j = 20
    BY <2>3, CodeFields
  <2>5. FieldOrder[k] \in {"CGROUP", "DATA_PAGE_SIZE", "CODE_PAGE_SIZE"}
    BY <2>3, AbiFields
  <2>6. k \in 21 .. 23
    BY <2>5, CodeFields
  <2>7. QED BY <2>3, <2>4, <2>6
<1>5. QED BY <1>3, <1>4 DEF Laid

\* How many of the kernel's fields precede the place the reader has come to after its
\* k-th field.
Reached(fields, k) ==
  CASE k <= 11 -> k
    [] k > 11 /\ "RAW" \in fields -> IF k = 24 THEN 24 ELSE 11
    [] k > 11 /\ "RAW" \notin fields ->
         IF k <= 19 THEN k + 1 ELSE IF "AUX" \in fields \/ k = 24 THEN 24 ELSE k

\* The k-th field of the reader stands where the kernel has laid it, and a field that is
\* not there takes no room.
Meets(L, fields, k) ==
  /\ FieldOrder[k] \notin fields =>
       L[Reached(fields, k)].len = L[Reached(fields, k - 1)].len
  /\ FieldOrder[k] \in fields =>
       \E i \in 1 .. 24 : /\ AbiOrder[i] = FieldOrder[k]
                          /\ L[Reached(fields, k - 1)].len = L[i - 1].len
                          /\ L[Reached(fields, k)].len = L[i].len

\* The two orders meet in every field an attribute has.
LEMMA ReaderMeetsFields ==
  ASSUME NEW attr, Laid(attr.fields), NEW r, NEW L, InOrder(L, attr, r), NEW k \in 1 .. 24
  PROVE  Meets(L, attr.fields, k) /\ Reached(attr.fields, k) \in 0 .. 24
<1>1. PICK fields : fields = attr.fields
  OBVIOUS
<1>2. \A i \in 1 .. 24 : AbiOrder[i] \notin fields => L[i] = L[i - 1]
  BY <1>1 DEF InOrder
<1>3. CASE k <= 11
  <2>1. Reached(fields, k) = k /\ Reached(fields, k - 1) = k - 1
    BY <1>3 DEF Reached
  <2>2. FieldOrder[k] = AbiOrder[k]
    BY <1>3, AbiFields, CodeFields
  <2>3. Meets(L, fields, k)
    BY <1>2, <2>1, <2>2 DEF Meets
  <2>4. QED BY <1>1, <2>1, <2>3
<1>4. CASE k > 11 /\ "RAW" \in fields
  <2>1. \A i \in 13 .. 24 : AbiOrder[i] \notin fields
    BY <1>1, <1>4 DEF Laid
  <2>2. Reached(fields, k - 1) = 11
    BY <1>4 DEF Reached
  <2>3. CASE k < 24
    <3>1. Reached(fields, k) = 11
      BY <1>4, <2>3 DEF Reached
    <3>2. \E i \in 13 .. 24 : FieldOrder[k] = AbiOrder[i]
      <4>1. CASE k <= 19
        <5>1. FieldOrder[k] = AbiOrder[k + 1]
          BY <1>4, <4>1, AbiFields, CodeFields
        <5>2. QED BY <1>4, <4>1, <5>1
      <4>2. CASE k = 20
        BY <4>2, AbiFields, CodeFields
      <4>3. CASE k > 20
        <5>1. FieldOrder[k] = AbiOrder[k]
          BY <2>3, <4>3, AbiFields, CodeFields
        <5>2. QED BY <4>3, <5>1
      <4>4. QED BY <4>1, <4>2, <4>3
    <3>3. FieldOrder[k] \notin fields
      BY <2>1, <3>2
    <3>4. Meets(L, fields, k)
      BY <2>2, <3>1, <3>3 DEF Meets
    <3>5. QED BY <1>1, <3>1, <3>4
  <2>4. CASE k = 24
    <3>1. Reached(fields, k) = 24
      BY <1>4, <2>4 DEF Reached
    <3>2. /\ L[13] = L[12] /\ L[14] = L[13] /\ L[15] = L[14] /\ L[16] = L[15]
          /\ L[17] = L[16] /\ L[18] = L[17] /\ L[19] = L[18] /\ L[20] = L[19]
          /\ L[21] = L[20] /\ L[22] = L[21] /\ L[23] = L[22] /\ L[24] = L[23]
      <4>1. \A i \in 13 .. 24 : L[i] = L[i - 1]
        BY <1>2, <2>1
      <4>2. QED BY <4>1
    <3>3. L[24] = L[12] /\ FieldOrder[k] = AbiOrder[12]
      BY <2>4, <3>2, AbiFields, CodeFields
    <3>4. FieldOrder[k] \in fields
      BY <1>4, <2>4, CodeFields
    <3>5. Meets(L, fields, k)
      BY <2>2, <3>1, <3>3, <3>4 DEF Meets
    <3>6. QED BY <1>1, <3>1, <3>5
  <2>5. QED BY <2>3, <2>4
<1>5. CASE k > 11 /\ "RAW" \notin fields
  <2>1. L[12] = L[11]
    BY <1>2, <1>5, AbiFields
  <2>2. CASE k <= 19
    <3>1. Reached(fields, k) = k + 1 /\ Reached(fields, k - 1) = IF k = 12 THEN 11 ELSE k
      BY <1>5, <2>2 DEF Reached
    <3>2. L[Reached(fields, k - 1)] = L[k]
      BY <2>1, <3>1
    <3>3. FieldOrder[k] = AbiOrder[k + 1]
      BY <1>5, <2>2, AbiFields, CodeFields
    <3>4. k + 1 \in 1 .. 24 /\ (k + 1) - 1 = k
      BY <2>2
    <3>5. AbiOrder[k + 1] \notin fields => L[k + 1] = L[k]
      BY <1>2, <3>4
    <3>6. Meets(L, fields, k)
      BY <3>1, <3>2, <3>3, <3>4, <3>5 DEF Meets
    <3>7. QED BY <1>1, <3>1, <3>4, <3>6
  <2>3. CASE k = 20
    <3>1. Reached(fields, 19) = 20 /\ FieldOrder[20] = "AUX" /\ AbiOrder[24] = "AUX"
      BY <1>5, AbiFields, CodeFields DEF Reached
    <3>2. CASE "AUX" \in fields
      <4>1. Reached(fields, 20) = 24
        BY <1>5, <3>2 DEF Reached
      <4>2. \A i \in 21 .. 23 : AbiOrder[i] \notin fields
        BY <1>1, <3>2 DEF Laid
      <4>3. L[21] = L[20] /\ L[22] = L[21] /\ L[23] = L[22]
        <5>1. \A i \in 21 .. 23 : L[i] = L[i - 1]
          BY <1>2, <4>2
        <5>2. QED BY <5>1
      <4>4. Meets(L, fields, 20)
        BY <3>1, <3>2, <4>1, <4>3 DEF Meets
      <4>5. QED BY <1>1, <2>3, <4>1, <4>4
    <3>3. CASE "AUX" \notin fields
      <4>1. Reached(fields, 20) = 20
        BY <1>5, <3>3 DEF Reached
      <4>2. Meets(L, fields, 20)
        BY <3>1, <3>3, <4>1 DEF Meets
      <4>3. QED BY <1>1, <2>3, <4>1, <4>2
    <3>4. QED BY <3>2, <3>3
  <2>4. CASE k \in 21 .. 23
    <3>1. FieldOrder[k] = AbiOrder[k]
      BY <2>4, AbiFields, CodeFields
    <3>2. CASE "AUX" \in fields
      <4>1. Reached(fields, k) = 24 /\ Reached(fields, k - 1) = 24
        BY <1>5, <2>4, <3>2 DEF Reached
      <4>2. FieldOrder[k] \notin fields
        BY <1>1, <2>4, <3>1, <3>2 DEF Laid
      <4>3. Meets(L, fields, k)
        BY <4>1, <4>2 DEF Meets
      <4>4. QED BY <1>1, <4>1, <4>3
    <3>3. CASE "AUX" \notin fields
      <4>1. Reached(fields, k) = k /\ Reached(fields, k - 1) = k - 1
        BY <1>5, <2>4, <3>3 DEF Reached
      <4>2. Meets(L, fields, k)
        BY <1>2, <3>1, <4>1 DEF Meets
      <4>3. QED BY <1>1, <4>1, <4>2
    <3>4. QED BY <3>2, <3>3
  <2>5. CASE k = 24
    <3>1. FieldOrder[24] = "RAW" /\ AbiOrder[24] = "AUX" /\ Reached(fields, 24) = 24
      BY <1>5, AbiFields, CodeFields DEF Reached
    <3>2. Reached(fields, 23) = IF "AUX" \in fields THEN 24 ELSE 23
      BY <1>5 DEF Reached
    <3>3. L[Reached(fields, 23)] = L[24]
      BY <1>2, <3>1, <3>2
    <3>4. Meets(L, fields, 24)
      BY <1>5, <3>1, <3>3 DEF Meets
    <3>5. QED BY <1>1, <2>5, <3>1, <3>4
  <2>6. QED BY <1>5, <2>2, <2>3, <2>4, <2>5
<1>6. QED BY <1>3, <1>4, <1>5

\* What a turn of DecodeSample makes of what it has decoded so far.
DecodedNext(b, fields, before, f) ==
  IF ~before.ok \/ f \notin fields THEN before
  ELSE IF Skip(b, f, before.at) = Failed THEN [before EXCEPT !.ok = FALSE]
  ELSE [ok |-> TRUE, at |-> Skip(b, f, before.at),
        event |-> Store(b, before.event, f, before.at)]

Undecoded(e) == [ok |-> TRUE, at |-> 0, event |-> e]

DecodedTurns(D, b, fields, e) ==
  D = [i \in 0 .. Len(FieldOrder) |->
         IF i = 0 THEN Undecoded(e) ELSE DecodedNext(b, fields, D[i - 1], FieldOrder[i])]

\* DecodeSample is what its turns decode, and they can all be taken.
LEMMA DecodeByTurns ==
  ASSUME NEW b, NEW fields, NEW e
  PROVE  \E D : /\ DecodedTurns(D, b, fields, e)
                /\ DecodeSample(b, fields, e) = [ok |-> D[24].ok, event |-> D[24].event]
<1> DEFINE Upto(D, k) ==
             D = [i \in 0 .. k |->
                    IF i = 0 THEN Undecoded(e)
                    ELSE DecodedNext(b, fields, D[i - 1], FieldOrder[i])]
           T == {k \in 0 .. 24 : \E D : Upto(D, k)}
<1>1. 0 \in T
  <2>1. PICK D : D = [i \in 0 .. 0 |-> Undecoded(e)]
    OBVIOUS
  <2>2. Upto(D, 0)
    BY <2>1
  <2>3. QED BY <2>2
<1>2. ASSUME NEW k \in 1 .. 24, k - 1 \in T
      PROVE  k \in T
  <2>1. PICK D : Upto(D, k - 1)
    BY <1>2
  <2>2. PICK v : v = DecodedNext(b, fields, D[k - 1], FieldOrder[k])
    OBVIOUS
  <2>3. PICK g : g = [i \in 0 .. k |-> IF i = k THEN v ELSE D[i]]
    OBVIOUS
  <2>4. ASSUME NEW i \in 0 .. k
        PROVE  g[i] = IF i = 0 THEN Undecoded(e)
                      ELSE DecodedNext(b, fields, g[i - 1], FieldOrder[i])
    <3>1. CASE i = k
      <4>1. i # 0 /\ g[i - 1] = D[k - 1] /\ g[i] = v
        BY <2>3, <3>1
      <4>2. QED BY <2>2, <3>1, <4>1
    <3>2. CASE i \in 0 .. k - 1
      <4>1. g[i] = D[i] /\ (i # 0 => g[i - 1] = D[i - 1])
        BY <2>3, <3>2
      <4>2. QED BY <2>1, <3>2, <4>1
    <3>3. QED BY <3>1, <3>2
  <2>5. Upto(g, k)
    BY <2>3, <2>4
  <2>6. QED BY <2>5
<1>3. 24 \in T
  <2> HIDE DEF T
  <2>1. \A k \in 1 .. 24 : k - 1 \in T => k \in T
    BY <1>2
  <2>2. \A k \in 0 .. 24 : k \in T
    BY <1>1, <2>1, Counting
  <2>3. QED BY <2>2
<1>4. \E D : DecodedTurns(D, b, fields, e)
  BY <1>3, CodeFields DEF DecodedTurns
<1>5. PICK D : D = (CHOOSE M : DecodedTurns(M, b, fields, e))
  OBVIOUS
<1>6. DecodeSample(b, fields, e) = [ok |-> D[Len(FieldOrder)].ok,
                                    event |-> D[Len(FieldOrder)].event]
  BY <1>5 DEF DecodeSample, DecodedTurns, DecodedNext, Undecoded
<1>7. DecodedTurns(D, b, fields, e)
  BY <1>4, <1>5
<1>8. QED BY <1>6, <1>7, CodeFields

\* A field that stands where the reader looks for it is read as it was written.
AsWritten(attr, r, b, f, p) ==
  /\ p \in Nat
  /\ Read(b, p) = Written(attr.name, r, f).value
  /\ FieldBytes(b, f, p) = Written(attr.name, r, f).bytes
  /\ f = "CALLCHAIN" => Read(b, p) = 1
  /\ f = "RAW" /\ r.raw # "short" /\ attr.name.probe \in DOMAIN Tracepoint =>
       Read(b, p + 4 + CommonBytes(r) + Tracepoint[attr.name.probe].at) = r.arg

\* Every field of a payload is read as it was written.
LEMMA FieldRead ==
  ASSUME NEW attr, NEW r, RawForm(r), NEW L, LaidTurns(L, attr, r),
         NEW b, b.mem = L[24].mem, NEW i \in 1 .. 24, AbiOrder[i] \in attr.fields,
         NEW f, f = AbiOrder[i], NEW p, p = L[i - 1].len
  PROVE  AsWritten(attr, r, b, f, p)
<1>1. Holds(L, attr, r, 24) /\ InOrder(L, attr, r)
  BY FieldsHeld, FieldsInOrder
<1>2. p \in Nat
  BY <1>1 DEF InOrder
<1>3. Read(b, p) = Written(attr.name, r, f).value
  BY <1>1 DEF Holds, Read
<1>4. f = "RAW" /\ r.raw # "short" /\ attr.name.probe \in DOMAIN Tracepoint =>
        Read(b, p + 4 + CommonBytes(r) + Tracepoint[attr.name.probe].at) = r.arg
  BY <1>1 DEF Holds, Read
<1>5. f = "CALLCHAIN" => Read(b, p) = 1
  BY <1>3 DEF Written
<1>6. FieldBytes(b, f, p) = Written(attr.name, r, f).bytes
  <2>1. CASE f = "RAW"
    BY <1>3, <2>1 DEF FieldBytes, Written
  <2>2. CASE f \in {"CALLCHAIN", "BRANCH_STACK", "STACK_USER", "AUX"}
    <3>1. CASE f = "CALLCHAIN"
      BY <1>3, <3>1 DEF FieldBytes, Written
    <3>2. CASE f = "BRANCH_STACK"
      BY <1>3, <3>2 DEF FieldBytes, Written
    <3>3. CASE f = "STACK_USER"
      BY <1>3, <3>3 DEF FieldBytes, Written
    <3>4. CASE f = "AUX"
      BY <1>3, <3>4 DEF FieldBytes, Written
    <3>5. QED BY <2>2, <3>1, <3>2, <3>3, <3>4
  <2>3. CASE f \notin {"RAW", "CALLCHAIN", "BRANCH_STACK", "STACK_USER", "AUX"}
    <3>1. FieldBytes(b, f, p) = 8
      BY <2>3 DEF FieldBytes
    <3>2. Written(attr.name, r, f).bytes = 8
      BY <2>3 DEF Written
    <3>3. QED BY <3>1, <3>2
  <2>4. QED BY <2>1, <2>2, <2>3
<1>7. QED BY <1>2, <1>3, <1>4, <1>5, <1>6 DEF AsWritten

\* A record of the type PerfEvent, whatever its fields hold.
IsPerfEvent(e) == e = [kind |-> e.kind, ts |-> e.ts, tid |-> e.tid, arg |-> e.arg]

\* A record with the fields of a PerfEvent is one.
LEMMA PerfEventFields ==
  ASSUME NEW k, NEW ts, NEW tid, NEW arg, NEW e,
         e = [kind |-> k, ts |-> ts, tid |-> tid, arg |-> arg]
  PROVE  IsPerfEvent(e) /\ e.kind = k /\ e.ts = ts /\ e.tid = tid /\ e.arg = arg
BY DEF IsPerfEvent

\* What a field writes into the event.
LEMMA StoreIs ==
  ASSUME NEW b, NEW e, IsPerfEvent(e), NEW f, NEW p, NEW new, new = Store(b, e, f, p)
  PROVE  /\ IsPerfEvent(new) /\ new.kind = e.kind
         /\ new.tid = IF f = "TID" THEN Read(b, p) ELSE e.tid
         /\ new.ts = IF f = "TIME" THEN Read(b, p) ELSE e.ts
         /\ new.arg = IF f = "RAW" THEN RawThread(b, e, p) ELSE e.arg
<1>1. PICK k, ts, tid, arg : e = [kind |-> k, ts |-> ts, tid |-> tid, arg |-> arg]
  BY DEF IsPerfEvent
<1>2. e.kind = k /\ e.ts = ts /\ e.tid = tid /\ e.arg = arg
  BY <1>1
<1>3. CASE f = "TID"
  <2>1. new = [kind |-> k, ts |-> ts, tid |-> Read(b, p), arg |-> arg]
    BY <1>1, <1>3 DEF Store
  <2>2. QED BY <1>2, <1>3, <2>1, PerfEventFields
<1>4. CASE f = "TIME"
  <2>1. new = [kind |-> k, ts |-> Read(b, p), tid |-> tid, arg |-> arg]
    BY <1>1, <1>4 DEF Store
  <2>2. QED BY <1>2, <1>4, <2>1, PerfEventFields
<1>5. CASE f = "RAW"
  <2>1. new = [kind |-> k, ts |-> ts, tid |-> tid, arg |-> RawThread(b, e, p)]
    BY <1>1, <1>5 DEF Store
  <2>2. QED BY <1>2, <1>5, <2>1, PerfEventFields
<1>6. CASE f \notin {"TID", "TIME", "RAW"}
  <2>1. new = e
    BY <1>6 DEF Store
  <2>2. QED BY <1>6, <2>1
<1>7. QED BY <1>3, <1>4, <1>5, <1>6

-----------------------------------------------------------------------------
(* What the reader makes of a sample. *)

\* The thread in the type-specific data of event e after sample r.
ArgAfter(fields, r, e) ==
  IF "RAW" \in fields /\ r.raw # "short" /\ e.kind.probe \in DOMAIN RawFields
  THEN r.arg ELSE e.arg

\* The event is of the attribute's kind, or of one without a thread in its data.
OfAttr(attr, e) ==
  e.kind.probe = attr.name.probe \/ e.kind.probe \notin DOMAIN RawFields

\* The raw data of a sample is that of its event.
LEMMA RawThreadIs ==
  ASSUME NEW attr, NEW r, RawForm(r), NEW L, LaidTurns(L, attr, r),
         NEW b, b.mem = L[24].mem, "RAW" \in attr.fields, NEW p, p = L[11].len,
         NEW e, OfAttr(attr, e)
  PROVE  RawThread(b, e, p) = ArgAfter(attr.fields, r, e)
<1>1. PICK i, f : i \in 1 .. 24 /\ i = 12 /\ f = AbiOrder[i] /\ f = "RAW" /\ p = L[i - 1].len
  BY AbiFields
<1>2. /\ p \in Nat /\ Read(b, p) = Written(attr.name, r, f).value
      /\ f = "RAW" /\ r.raw # "short" /\ attr.name.probe \in DOMAIN Tracepoint =>
           Read(b, p + 4 + CommonBytes(r) + Tracepoint[attr.name.probe].at) = r.arg
  <2>1. AbiOrder[i] \in attr.fields
    BY <1>1
  <2>2. AsWritten(attr, r, b, f, p)
    BY <1>1, <2>1, FieldRead
  <2>3. QED BY <2>2 DEF AsWritten
<1>3. Read(b, p) = RawBytes(attr.name, r)
  BY <1>1, <1>2 DEF Written
<1>4. DOMAIN RawFields = DOMAIN Tracepoint
  BY DEF RawFields, Tracepoint
<1>5. CASE e.kind.probe \notin DOMAIN RawFields
  BY <1>5 DEF RawThread, ArgAfter
<1>6. CASE e.kind.probe \in DOMAIN RawFields /\ r.raw = "short"
  <2>1. Read(b, p) = 12
    BY <1>3, <1>6, RawSizes
  <2>2. \A x \in DOMAIN RawFields : RawFields[x].need \in Nat /\ RawFields[x].need > 12
    BY DEF RawFields
  <2>3. ~(Read(b, p) >= RawFields[e.kind.probe].need)
    BY <1>6, <2>1, <2>2
  <2>4. QED BY <1>6, <2>3 DEF RawThread, ArgAfter
<1>7. CASE e.kind.probe \in DOMAIN RawFields /\ r.raw # "short"
  <2>1. PICK x : x = attr.name.probe
    OBVIOUS
  <2>2. e.kind.probe = x /\ x \in DOMAIN Tracepoint
    BY <1>4, <1>7, <2>1 DEF OfAttr
  <2>3. PICK raw : raw = RawFields[x]
    OBVIOUS
  <2>4. PICK c : c = CommonBytes(r)
    OBVIOUS
  <2>5. /\ Read(b, p) >= raw.need
        /\ Tracepoint[x].at = raw.at
        /\ c = IF Read(b, p) >= raw.need + 8 THEN 8 ELSE 0
    BY <1>3, <1>7, <2>1, <2>2, <2>3, <2>4, RawSizes
  <2>6. RawThread(b, e, p) = Read(b, p + 4 + c + raw.at)
    BY <1>7, <2>2, <2>3, <2>5 DEF RawThread
  <2>7. Read(b, p + 4 + c + raw.at) = r.arg
    BY <1>1, <1>2, <1>7, <2>1, <2>2, <2>4, <2>5
  <2>8. QED BY <1>1, <1>7, <2>6, <2>7 DEF ArgAfter
<1>8. QED BY <1>5, <1>6, <1>7

\* The payload b of sample r of attribute attr is decoded, in turns D, into event e.
Decoding(attr, r, L, b, D, e) ==
  /\ Laid(attr.fields) /\ {"TID", "TIME"} \subseteq attr.fields
  /\ RawForm(r) /\ r.cut \in BOOLEAN
  /\ LaidTurns(L, attr, r) /\ InOrder(L, attr, r)
  /\ b.mem = L[24].mem /\ b.len = L[24].len - (IF r.cut THEN 8 ELSE 0)
  /\ DecodedTurns(D, b, attr.fields, e)
  /\ IsPerfEvent(e)

\* The state of that after the k-th field.
SoFar(attr, r, L, b, d, e, k) ==
  /\ d.ok \in BOOLEAN /\ d = [ok |-> d.ok, at |-> d.at, event |-> d.event]
  /\ IsPerfEvent(d.event) /\ d.event.kind = e.kind
  /\ k < 24 => d.event.arg = e.arg
  /\ d.ok => /\ d.at = L[Reached(attr.fields, k)].len
             /\ \A j \in 1 .. k : FieldOrder[j] \notin attr.fields \cap Undecodable
             /\ k >= 3 => d.event.tid = r.tid /\ d.at <= b.len
             /\ k >= 4 => d.event.ts = r.ts
             /\ k = 24 /\ OfAttr(attr, e) => d.event.arg = ArgAfter(attr.fields, r, e)
  /\ ~d.ok => r.cut \/ attr.fields \cap Undecodable # {}

\* Before its first field the reader has passed none, after its last field all of them.
LEMMA ReachedOf ==
  ASSUME NEW fields
  PROVE  /\ Reached(fields, 0) = 0 /\ Reached(fields, 24) = 24
         /\ "RAW" \in fields => Reached(fields, 23) = 11
BY DEF Reached

\* A field that is not there changes nothing.
LEMMA FieldAbsent ==
  ASSUME NEW attr, NEW r, NEW L, NEW b, NEW D, NEW e, Decoding(attr, r, L, b, D, e),
         NEW k \in 1 .. 24, SoFar(attr, r, L, b, D[k - 1], e, k - 1),
         FieldOrder[k] \notin attr.fields
  PROVE  SoFar(attr, r, L, b, D[k], e, k)
<1>1. PICK d, f : d = D[k - 1] /\ f = FieldOrder[k]
  OBVIOUS
<1>2. D[k] = d
  BY <1>1, CodeFields DEF Decoding, DecodedTurns, DecodedNext
<1>3. L[Reached(attr.fields, k)].len = L[Reached(attr.fields, k - 1)].len
  <2>1. Meets(L, attr.fields, k)
    BY ReaderMeetsFields DEF Decoding
  <2>2. QED BY <2>1 DEF Meets
<1>4. k # 3 /\ k # 4
  BY CodeFields DEF Decoding
<1>5. k = 24 => ArgAfter(attr.fields, r, e) = e.arg
  BY CodeFields DEF ArgAfter
<1>6. QED BY <1>1, <1>2, <1>3, <1>4, <1>5 DEF SoFar

\* A field that is there is stored, unless it cannot be skipped or runs over the end.
LEMMA FieldPresent ==
  ASSUME NEW attr, NEW r, NEW L, NEW b, NEW D, NEW e, Decoding(attr, r, L, b, D, e),
         NEW k \in 1 .. 24, SoFar(attr, r, L, b, D[k - 1], e, k - 1), D[k - 1].ok,
         FieldOrder[k] \in attr.fields
  PROVE  SoFar(attr, r, L, b, D[k], e, k)
<1>1. PICK d, f : d = D[k - 1] /\ f = FieldOrder[k]
  OBVIOUS
<1>2. PICK i \in 1 .. 24 : /\ AbiOrder[i] = f
                           /\ L[Reached(attr.fields, k - 1)].len = L[i - 1].len
                           /\ L[Reached(attr.fields, k)].len = L[i].len
  <2>1. Meets(L, attr.fields, k)
    BY ReaderMeetsFields DEF Decoding
  <2>2. QED BY <1>1, <2>1 DEF Meets
<1>3. PICK p : p = d.at
  OBVIOUS
<1>4. p = L[i - 1].len /\ d.ok
  BY <1>1, <1>2, <1>3 DEF SoFar
<1>5. /\ p \in Nat /\ Read(b, p) = Written(attr.name, r, f).value
      /\ FieldBytes(b, f, p) = Written(attr.name, r, f).bytes
      /\ f = "CALLCHAIN" => Read(b, p) = 1
  <2>1. AbiOrder[i] \in attr.fields /\ RawForm(r) /\ LaidTurns(L, attr, r) /\ b.mem = L[24].mem
    BY <1>1, <1>2 DEF Decoding
  <2>2. f = AbiOrder[i] /\ p = L[i - 1].len
    BY <1>2, <1>4
  <2>3. AsWritten(attr, r, b, f, p)
    BY <2>1, <2>2, FieldRead
  <2>4. QED BY <2>3 DEF AsWritten
<1>6. p + FieldBytes(b, f, p) = L[i].len /\ L[i].len \in Nat /\ L[24].len \in Nat
      /\ L[i].len <= L[24].len
  <2>1. /\ L[i].len = L[i - 1].len + Written(attr.name, r, AbiOrder[i]).bytes
        /\ L[i].len \in Nat /\ L[24].len \in Nat /\ L[i].len <= L[24].len
    <3>1. InOrder(L, attr, r)
      BY DEF Decoding
    <3>2. AbiOrder[i] \in attr.fields
      BY <1>1, <1>2
    <3>3. L[i].len = L[i - 1].len + Written(attr.name, r, AbiOrder[i]).bytes
      BY <3>1, <3>2 DEF InOrder
    <3>4. \A j \in 0 .. 24 : L[j].len \in Nat
      BY <3>1 DEF InOrder
    <3>5. \A x, y \in 0 .. 24 : x <= y => L[x].len <= L[y].len
      BY <3>1 DEF InOrder
    <3>6. i \in 0 .. 24 /\ 24 \in 0 .. 24 /\ i <= 24
      OBVIOUS
    <3>7. QED BY <3>3, <3>4, <3>5, <3>6
  <2>2. f = AbiOrder[i] /\ p = L[i - 1].len
    BY <1>2, <1>4
  <2>3. FieldBytes(b, f, p) = Written(attr.name, r, AbiOrder[i]).bytes
    BY <1>5, <2>2
  <2>4. QED BY <2>1, <2>2, <2>3
<1>7. PICK e0 : e0 = d.event
  OBVIOUS
<1>8. D[k] = IF Skip(b, f, p) = Failed THEN [d EXCEPT !.ok = FALSE]
             ELSE [ok |-> TRUE, at |-> Skip(b, f, p), event |-> Store(b, e0, f, p)]
  <2>1. D[k] = DecodedNext(b, attr.fields, d, f)
    BY <1>1, CodeFields DEF Decoding, DecodedTurns
  <2>2. QED BY <1>1, <1>3, <1>4, <1>7, <2>1 DEF DecodedNext
<1>9. d = [ok |-> d.ok, at |-> p, event |-> e0] /\ IsPerfEvent(e0) /\ e0.kind = e.kind
      /\ e0.arg = e.arg /\ [d EXCEPT !.ok = FALSE] = [ok |-> FALSE, at |-> p, event |-> e0]
  <2>1. d = [ok |-> d.ok, at |-> p, event |-> e0] /\ IsPerfEvent(e0) /\ e0.kind = e.kind
        /\ e0.arg = e.arg
    BY <1>1, <1>3, <1>7 DEF SoFar
  <2>2. PICK ok : ok = d.ok
    OBVIOUS
  <2>3. d = [ok |-> ok, at |-> p, event |-> e0]
    BY <2>1, <2>2
  <2>4. [d EXCEPT !.ok = FALSE] = [ok |-> FALSE, at |-> p, event |-> e0]
    <3>1. \A v : [[ok |-> ok, at |-> p, event |-> e0] EXCEPT !.ok = v]
                 = [ok |-> v, at |-> p, event |-> e0]
      OBVIOUS
    <3>2. QED BY <2>3, <3>1
  <2>5. QED BY <2>1, <2>4
<1>10. CASE f \in Undecodable
  <2>1. D[k] = [ok |-> FALSE, at |-> p, event |-> e0]
    BY <1>8, <1>9, <1>10 DEF Skip
  <2>2. k # 24 /\ f \in attr.fields \cap Undecodable
    BY <1>1, <1>10, CodeFields DEF Undecodable
  <2>3. QED BY <1>9, <2>1, <2>2 DEF SoFar
<1>11. CASE f \notin Undecodable /\ L[i].len > b.len
  <2>1. Skip(b, f, p) = Failed
    BY <1>6, <1>11 DEF Skip
  <2>2. D[k] = [ok |-> FALSE, at |-> p, event |-> e0]
    BY <1>8, <1>9, <2>1
  <2>3. r.cut
    BY <1>6, <1>11 DEF Decoding
  <2>4. QED BY <1>9, <2>2, <2>3 DEF SoFar
<1>12. CASE f \notin Undecodable /\ ~(L[i].len > b.len)
  <2>1. Skip(b, f, p) = L[i].len /\ L[i].len # Failed
    BY <1>5, <1>6, <1>12 DEF Skip, Failed
  <2>2. PICK new : new = Store(b, e0, f, p)
    OBVIOUS
  <2>3. D[k] = [ok |-> TRUE, at |-> L[i].len, event |-> new]
    BY <1>8, <2>1, <2>2
  <2>4. /\ IsPerfEvent(new) /\ new.kind = e0.kind
        /\ new.tid = IF f = "TID" THEN Read(b, p) ELSE e0.tid
        /\ new.ts = IF f = "TIME" THEN Read(b, p) ELSE e0.ts
        /\ new.arg = IF f = "RAW" THEN RawThread(b, e0, p) ELSE e0.arg
    BY <1>9, <2>2, StoreIs
  <2>5. L[i].len <= b.len
    BY <1>6, <1>12 DEF Decoding
  <2>6. \A j \in 1 .. k : FieldOrder[j] \notin attr.fields \cap Undecodable
    <3>1. \A j \in 1 .. k - 1 : FieldOrder[j] \notin attr.fields \cap Undecodable
      BY <1>1, <1>4 DEF SoFar
    <3>2. QED BY <1>1, <1>12, <3>1
  <2>7. k >= 3 => new.tid = r.tid
    <3>1. CASE f = "TID"
      BY <1>5, <2>4, <3>1 DEF Written
    <3>2. CASE f # "TID"
      <4>1. k # 3
        BY <1>1, <3>2, CodeFields
      <4>2. QED BY <1>1, <1>4, <1>7, <2>4, <3>2, <4>1 DEF SoFar
    <3>3. QED BY <3>1, <3>2
  <2>8. k >= 4 => new.ts = r.ts
    <3>1. CASE f = "TIME"
      BY <1>5, <2>4, <3>1 DEF Written
    <3>2. CASE f # "TIME"
      <4>1. k # 4
        BY <1>1, <3>2, CodeFields
      <4>2. QED BY <1>1, <1>4, <1>7, <2>4, <3>2, <4>1 DEF SoFar
    <3>3. QED BY <3>1, <3>2
  <2>9. k < 24 => new.arg = e.arg
    <3>1. k < 24 => f # "RAW"
      BY <1>1, CodeFields
    <3>2. QED BY <1>9, <2>4, <3>1
  <2>10. k = 24 /\ OfAttr(attr, e) => new.arg = ArgAfter(attr.fields, r, e)
    <3>1. SUFFICES ASSUME k = 24, OfAttr(attr, e)
          PROVE  new.arg = ArgAfter(attr.fields, r, e)
      OBVIOUS
    <3>2. f = "RAW" /\ i = 12
      BY <1>1, <1>2, <3>1, AbiFields, CodeFields
    <3>3. p = L[11].len
      BY <1>4, <3>2
    <3>4. RawThread(b, e0, p) = ArgAfter(attr.fields, r, e0)
      <4>1. /\ RawForm(r) /\ LaidTurns(L, attr, r) /\ b.mem = L[24].mem
            /\ "RAW" \in attr.fields
            /\ OfAttr(attr, e0)
        BY <1>1, <1>9, <3>1, <3>2 DEF Decoding, OfAttr
      <4>2. QED BY <3>3, <4>1, RawThreadIs
    <3>5. ArgAfter(attr.fields, r, e0) = ArgAfter(attr.fields, r, e)
      BY <1>9 DEF ArgAfter
    <3>6. QED BY <2>4, <3>2, <3>4, <3>5
  <2>11. D[k].ok /\ D[k].at = L[i].len /\ D[k].event = new
    BY <2>3
  <2>12. QED BY <1>2, <1>9, <2>3, <2>4, <2>5, <2>6, <2>7, <2>8, <2>9, <2>10, <2>11 DEF SoFar
<1>13. QED BY <1>10, <1>11, <1>12

\* After a failure nothing is decoded.
LEMMA FieldLost ==
  ASSUME NEW attr, NEW r, NEW L, NEW b, NEW D, NEW e, Decoding(attr, r, L, b, D, e),
         NEW k \in 1 .. 24, SoFar(attr, r, L, b, D[k - 1], e, k - 1), ~D[k - 1].ok
  PROVE  SoFar(attr, r, L, b, D[k], e, k)
<1>1. D[k] = D[k - 1]
  BY CodeFields DEF Decoding, DecodedTurns, DecodedNext
<1>2. QED BY <1>1 DEF SoFar

\* decode_sample succeeds for the samples that are whole and have no field of unknown
\* size, and says of them when, where and with which thread they were taken.
DecodedAs(out, attr, r, e) ==
  /\ out.ok \in BOOLEAN
  /\ out.ok <=> ~r.cut /\ attr.fields \cap Undecodable = {}
  /\ IsPerfEvent(out.event) /\ out.event.kind = e.kind
  /\ out.ok => /\ out.event.ts = r.ts /\ out.event.tid = r.tid
               /\ OfAttr(attr, e) => out.event.arg = ArgAfter(attr.fields, r, e)

\* decode_sample (perf_data_reader.cpp:442-712): of a whole sample without fields of
\* unknown size the reader finds the time, the thread and the data; any other fails.
THEOREM DecodeExact ==
  ASSUME NEW attr, Laid(attr.fields), {"TID", "TIME"} \subseteq attr.fields,
         NEW r, RawForm(r), r.cut \in BOOLEAN,
         NEW e, IsPerfEvent(e),
         NEW b, b = Payload(attr, r), NEW out, out = DecodeSample(b, attr.fields, e)
  PROVE  DecodedAs(out, attr, r, e)
<1>1. PICK L : /\ LaidTurns(L, attr, r)
               /\ b = [len |-> L[24].len - (IF r.cut THEN 8 ELSE 0), mem |-> L[24].mem]
  BY PayloadByTurns
<1>2. PICK D : /\ DecodedTurns(D, b, attr.fields, e)
               /\ out = [ok |-> D[24].ok, event |-> D[24].event]
  <2>1. PICK fields : fields = attr.fields
    OBVIOUS
  <2>2. PICK D : /\ DecodedTurns(D, b, fields, e)
                 /\ DecodeSample(b, fields, e) = [ok |-> D[24].ok, event |-> D[24].event]
    BY DecodeByTurns
  <2>3. DecodedTurns(D, b, attr.fields, e) /\ out = [ok |-> D[24].ok, event |-> D[24].event]
    BY <2>1, <2>2
  <2>4. QED BY <2>3
<1>3. InOrder(L, attr, r)
  BY <1>1, FieldsInOrder
<1>4. b.mem = L[24].mem /\ b.len = L[24].len - (IF r.cut THEN 8 ELSE 0)
  BY <1>1
<1>5. Decoding(attr, r, L, b, D, e)
  BY <1>1, <1>2, <1>3, <1>4 DEF Decoding
<1> DEFINE T == {k \in 0 .. 24 : SoFar(attr, r, L, b, D[k], e, k)}
<1>6. 0 \in T
  <2>1. D[0] = [ok |-> TRUE, at |-> 0, event |-> e]
    BY <1>2, CodeFields DEF DecodedTurns, Undecoded
  <2>2. L[Reached(attr.fields, 0)].len = 0
    BY <1>3, ReachedOf DEF InOrder
  <2>3. D[0].ok /\ D[0].at = 0 /\ D[0].event = e
    BY <2>1
  <2>4. SoFar(attr, r, L, b, D[0], e, 0)
    BY <2>1, <2>2, <2>3 DEF SoFar
  <2>5. QED BY <2>4
<1>7. ASSUME NEW k \in 1 .. 24, k - 1 \in T
      PROVE  k \in T
  <2>1. SoFar(attr, r, L, b, D[k - 1], e, k - 1)
    BY <1>7
  <2>2. SoFar(attr, r, L, b, D[k], e, k)
    BY <1>5, <2>1, FieldAbsent, FieldPresent, FieldLost
  <2>3. QED BY <2>2
<1> HIDE DEF T
<1>8. \A k \in 0 .. 24 : k \in T
  BY <1>6, <1>7, Counting
<1>9. SoFar(attr, r, L, b, D[24], e, 24)
  BY <1>8 DEF T
<1>10. PICK d : d = D[24]
  OBVIOUS
<1>11. out.ok = d.ok /\ out.event = d.event
  BY <1>2, <1>10
<1>12. ASSUME d.ok
       PROVE  ~r.cut /\ attr.fields \cap Undecodable = {}
  <2>1. d.at = L[24].len /\ d.at <= b.len
    BY <1>9, <1>10, <1>12, ReachedOf DEF SoFar
  <2>2. L[24].len \in Nat
    BY <1>3 DEF InOrder
  <2>3. ~r.cut
    BY <1>4, <2>1, <2>2
  <2>4. \A j \in 1 .. 24 : FieldOrder[j] \notin attr.fields \cap Undecodable
    BY <1>9, <1>10, <1>12 DEF SoFar
  <2>5. \A x \in Undecodable : \E j \in 1 .. 24 : FieldOrder[j] = x
    BY CodeFields DEF Undecodable
  <2>6. QED BY <2>3, <2>4, <2>5
<1>13. QED BY <1>9, <1>10, <1>11, <1>12 DEF SoFar, DecodedAs

-----------------------------------------------------------------------------
(* Which attribute a sample belongs to. *)

\* The fields up to the id stand in the same place in both orders.
LEMMA IdFields ==
  /\ DOMAIN IdOrder = 1 .. 6 /\ IdOrder[1] = "IDENTIFIER" /\ IdOrder[6] = "ID"
  /\ \A i \in 1 .. 6 : IdOrder[i] = AbiOrder[i] /\ IdOrder[i] \notin {"RAW", "CALLCHAIN",
       "BRANCH_STACK", "STACK_USER", "AUX"}
  /\ \A i \in 2 .. 5 : IdOrder[i] \notin {"IDENTIFIER", "ID"}
BY DEF IdOrder, AbiOrder

\* Each of the fields that may precede the id takes eight bytes.
LEMMA IdStands ==
  ASSUME NEW attr, NEW r, NEW L, InOrder(L, attr, r)
  PROVE  IdAt(attr.fields, 1) = 0 /\ IdAt(attr.fields, 6) = L[5].len
<1> DEFINE S(n) == {j \in 1 .. n : IdOrder[j] \in attr.fields}
           T == {n \in 0 .. 5 : L[n].len = 8 * Cardinality(S(n))}
<1>1. S(0) = {} /\ Cardinality(S(0)) = 0
  BY FS_EmptySet
<1>2. 0 \in T
  BY <1>1 DEF InOrder
<1>3. ASSUME NEW n \in 1 .. 5, n - 1 \in T
      PROVE  n \in T
  <2>1. IsFiniteSet(S(n - 1)) /\ Cardinality(S(n - 1)) \in Nat
    <3>1. IsFiniteSet(1 .. n - 1) /\ S(n - 1) \subseteq 1 .. n - 1
      BY FS_Interval
    <3>2. QED BY <3>1, FS_Subset, FS_CardinalityType
  <2>2. L[n - 1].len = 8 * Cardinality(S(n - 1))
    BY <1>3
  <2>3. IdOrder[n] = AbiOrder[n] /\ n \in 1 .. 24
    BY IdFields
  <2>4. CASE IdOrder[n] \notin attr.fields
    <3>1. S(n) = S(n - 1)
      BY <2>4
    <3>2. L[n] = L[n - 1]
      BY <2>3, <2>4 DEF InOrder
    <3>3. Cardinality(S(n)) = Cardinality(S(n - 1))
      BY <3>1
    <3>4. L[n].len = 8 * Cardinality(S(n))
      BY <2>2, <3>2, <3>3
    <3>5. QED BY <3>4
  <2>5. CASE IdOrder[n] \in attr.fields
    <3>1. S(n) = S(n - 1) \cup {n} /\ n \notin S(n - 1)
      BY <2>5
    <3>2. Cardinality(S(n)) = Cardinality(S(n - 1)) + 1
      BY <2>1, <3>1, FS_AddElement
    <3>3. Written(attr.name, r, AbiOrder[n]).bytes = 8
      BY <2>3, IdFields DEF Written
    <3>4. L[n].len = L[n - 1].len + 8
      BY <2>3, <2>5, <3>3 DEF InOrder
    <3>5. QED BY <2>1, <2>2, <3>2, <3>4
  <2>6. QED BY <2>4, <2>5
<1> HIDE DEF T
<1>4. \A n \in 0 .. 5 : n \in T
  <2>1. \A n \in 1 .. 5 : n - 1 \in T => n \in T
    BY <1>3
  <2>2. QED BY <1>2, <2>1, Counting
<1>5. L[5].len = 8 * Cardinality(S(5))
  BY <1>4 DEF T
<1>6. /\ {j \in 1 .. 1 - 1 : IdOrder[j] \in attr.fields} = S(0)
      /\ {j \in 1 .. 6 - 1 : IdOrder[j] \in attr.fields} = S(5)
  OBVIOUS
<1>7. IdAt(attr.fields, 1) = 0 /\ IdAt(attr.fields, 6) = L[5].len
  BY <1>1, <1>5, <1>6 DEF IdAt
<1>8. QED BY <1>7

\* An id names its attribute.
LEMMA IdNames ==
  ASSUME NEW attrs, NEW a \in DOMAIN attrs, NEW id \in attrs[a].ids,
         \A i, j \in DOMAIN attrs : i # j => attrs[i].ids \cap attrs[j].ids = {}
  PROVE  id \in DOMAIN IdsOf(attrs) /\ IdsOf(attrs)[id] = a
<1>1. id \in UNION {attrs[i].ids : i \in DOMAIN attrs}
  OBVIOUS
<1>2. \A i \in DOMAIN attrs : id \in attrs[i].ids => i = a
  OBVIOUS
<1>3. (CHOOSE i \in DOMAIN attrs : id \in attrs[i].ids) = a
  BY <1>2
<1>4. QED BY <1>1, <1>3 DEF IdsOf

\* An element that none is less than is the least.
LEMMA LeastIs ==
  ASSUME NEW S \in SUBSET Nat, NEW k \in S, \A j \in S : k <= j
  PROVE  Least(S) = k
<1>1. \A i \in S : (\A j \in S : i <= j) => i = k
  OBVIOUS
<1>2. QED BY <1>1 DEF Least

\* A set of naturals that is not empty has a least element.
LEMMA LeastIn ==
  ASSUME NEW S \in SUBSET Nat, S # {}
  PROVE  Least(S) \in S /\ \A j \in S : Least(S) <= j
<1> DEFINE R == OpToRel(<, Nat)
<1>1. IsWellFoundedOn(R, Nat)
  BY NatLessThanWellFounded
<1>2. \A x \in Nat, y \in Nat : y < x => <<y, x>> \in R
  BY DEF OpToRel
<1> HIDE DEF R
<1>3. PICK x \in S : \A y \in S : ~ (<<y, x>> \in R)
  BY <1>1, WFMin
<1>4. ASSUME NEW y \in S
      PROVE  x <= y
  <2>1. x \in Nat /\ y \in Nat /\ ~(y < x)
    BY <1>2, <1>3
  <2>2. QED BY <2>1
<1>5. \E k \in S : \A j \in S : k <= j
  BY <1>4
<1>6. QED BY <1>5 DEF Least

\* The memory of the sample, where find_attr_index looks into it.
LEMMA IdRead ==
  ASSUME NEW attr, NEW r, RawForm(r), r.cut \in BOOLEAN, {"TID", "TIME"} \subseteq attr.fields,
         NEW b, b = Payload(attr, r)
  PROVE  /\ "IDENTIFIER" \in attr.fields =>
              0 + 8 <= b.len /\ Read(b, 0) = r.id
         /\ "ID" \in attr.fields =>
              /\ Read(b, IdAt(attr.fields, 6)) = r.id
              /\ ~r.cut => IdAt(attr.fields, 6) + 8 <= b.len
<1>1. PICK L : /\ LaidTurns(L, attr, r)
               /\ b = [len |-> L[24].len - (IF r.cut THEN 8 ELSE 0), mem |-> L[24].mem]
  BY PayloadByTurns
<1>2. b.mem = L[24].mem /\ b.len = L[24].len - (IF r.cut THEN 8 ELSE 0)
  BY <1>1
<1>3. InOrder(L, attr, r)
  BY <1>1, FieldsInOrder
<1>4. L[0].len = 0 /\ \A i \in 0 .. 24 : L[i].len \in Nat
  BY <1>3 DEF InOrder
<1>5. ASSUME NEW i \in 1 .. 24, AbiOrder[i] \in attr.fields
      PROVE  L[i].len >= L[i - 1].len + 8
  <2>1. L[i].len = L[i - 1].len + Written(attr.name, r, AbiOrder[i]).bytes
    BY <1>3, <1>5 DEF InOrder
  <2>2. QED BY <1>4, <2>1, FieldTakesBytes
<1>6. ASSUME NEW i \in 0 .. 24, NEW j \in 0 .. 24, i <= j PROVE L[i].len <= L[j].len
  BY <1>3, <1>6 DEF InOrder
<1>7. ASSUME "IDENTIFIER" \in attr.fields
      PROVE  0 + 8 <= b.len /\ Read(b, 0) = r.id
  <2>1. AbiOrder[1] = "IDENTIFIER" /\ AbiOrder[3] = "TID"
    BY AbiFields
  <2>2. L[1].len >= 8 /\ L[3].len >= L[2].len + 8 /\ L[1].len <= L[2].len
        /\ L[3].len <= L[24].len
    BY <1>4, <1>5, <1>6, <1>7, <2>1
  <2>3. L[24].len >= 16
    BY <1>4, <2>2
  <2>4. PICK i, f, p : i \in 1 .. 24 /\ i = 1 /\ f = AbiOrder[i] /\ p = L[i - 1].len
    OBVIOUS
  <2>5. AbiOrder[i] \in attr.fields
    BY <1>7, <2>1, <2>4
  <2>6. AsWritten(attr, r, b, f, p)
    BY <1>1, <1>2, <2>4, <2>5, FieldRead
  <2>7. Read(b, p) = r.id
    BY <2>1, <2>4, <2>6 DEF AsWritten, Written
  <2>8. QED BY <1>2, <1>4, <2>3, <2>4, <2>7
<1>8. ASSUME "ID" \in attr.fields
      PROVE  /\ Read(b, IdAt(attr.fields, 6)) = r.id
             /\ ~r.cut => IdAt(attr.fields, 6) + 8 <= b.len
  <2>1. AbiOrder[6] = "ID"
    BY AbiFields
  <2>2. IdAt(attr.fields, 6) = L[5].len
    BY <1>3, IdStands
  <2>3. L[6].len >= L[5].len + 8 /\ L[6].len <= L[24].len
    BY <1>5, <1>6, <1>8, <2>1
  <2>4. PICK i, f, p : i \in 1 .. 24 /\ i = 6 /\ f = AbiOrder[i] /\ p = L[i - 1].len
    OBVIOUS
  <2>5. AbiOrder[i] \in attr.fields
    BY <1>8, <2>1, <2>4
  <2>6. AsWritten(attr, r, b, f, p)
    BY <1>1, <1>2, <2>4, <2>5, FieldRead
  <2>7. Read(b, p) = r.id
    BY <2>1, <2>4, <2>6 DEF AsWritten, Written
  <2>8. QED BY <1>2, <1>4, <2>2, <2>3, <2>4, <2>7
<1>9. QED BY <1>7, <1>8

\* A sample is taken for its own attribute's, or for one with the same fields: the latter
\* if it is cut, or if the file gives neither ids nor names.
AttrFound(file, r, a) ==
  /\ a \in DOMAIN file.attrs
  /\ file.attrs[a].fields = file.attrs[r.attr].fields
  /\ ~r.cut /\ file.desc => a = r.attr

\* find_attr_index (perf_data_reader.cpp:260-297) finds an attribute with the fields of the
\* sample's own, and that attribute itself in a file that names its attributes.
THEOREM FindAttrExact ==
  ASSUME NEW f, IsHeader(f), NEW r, IsRecord(f, r), r.type = "sample",
         NEW h, h = Parsed(f), NEW a, a = FindAttr(h, r.payload)
  PROVE  AttrFound(f, r, a)
<1>1. PICK attrs, b, n : attrs = f.attrs /\ b = r.payload /\ n = Len(attrs)
  OBVIOUS
<1>2. /\ n \in Nat /\ DOMAIN attrs = 1 .. n
      /\ \A i \in 1 .. n : {"TID", "TIME"} \subseteq attrs[i].fields
      /\ \A i, j \in DOMAIN attrs : i # j => attrs[i].ids \cap attrs[j].ids = {}
  BY <1>1 DEF IsHeader
<1>3. /\ r.attr \in 1 .. n /\ r.id \in attrs[r.attr].ids /\ RawForm(r) /\ r.cut \in BOOLEAN
      /\ b = Payload(attrs[r.attr], r)
  BY <1>1, <1>2 DEF IsRecord, RawForm
<1>4. /\ DOMAIN h.attrs = 1 .. n /\ \A i \in 1 .. n : h.attrs[i].fields = attrs[i].fields
      /\ h.ids = IF f.paired \/ f.desc THEN IdsOf(attrs) ELSE <<>>
  BY <1>1, <1>2 DEF Parsed
<1>5. Len(h.attrs) = n
  <2>1. h.attrs = [i \in 1 .. n |-> [fields |-> attrs[i].fields, software |-> attrs[i].software]]
    BY <1>1, <1>2 DEF Parsed
  <2>2. QED BY <1>2, <2>1
<1>6. CASE n = 1
  <2>1. a = 1
    BY <1>1, <1>5, <1>6 DEF FindAttr
  <2>2. QED BY <1>1, <1>2, <1>3, <1>6, <2>1 DEF AttrFound
<1>7. CASE n > 1
  <2>1. r.id \in DOMAIN IdsOf(attrs) /\ IdsOf(attrs)[r.id] = r.attr
    BY <1>2, <1>3, IdNames
  <2>2. PICK fields : fields = h.attrs[1].fields
    OBVIOUS
  <2>3. fields = attrs[1].fields
    <3>1. 1 \in 1 .. n
      BY <1>2, <1>7
    <3>2. QED BY <1>4, <2>2, <3>1
  <2> DEFINE known == {i \in DOMAIN IdOrder : /\ IdOrder[i] \in {"IDENTIFIER", "ID"} \cap fields
                                             /\ IdAt(fields, i) + 8 <= b.len
                                             /\ Read(b, IdAt(fields, i)) \in DOMAIN h.ids}
  <2>4. a = IF known = {} THEN 1 ELSE h.ids[Read(b, IdAt(fields, Least(known)))]
    BY <1>1, <1>5, <1>7, <2>2 DEF FindAttr
  <2>5. known \in SUBSET Nat /\ \A i \in known : i = 1 \/ i = 6
    BY IdFields
  <2>6. IdAt(fields, 1) = 0
    <3>1. {j \in 1 .. 1 - 1 : IdOrder[j] \in fields} = {}
      OBVIOUS
    <3>2. QED BY <3>1, FS_EmptySet DEF IdAt
  <2>7. PICK attr : attr = attrs[r.attr]
    OBVIOUS
  <2>8. /\ "IDENTIFIER" \in attr.fields => 0 + 8 <= b.len /\ Read(b, 0) = r.id
        /\ "ID" \in attr.fields =>
              /\ Read(b, IdAt(attr.fields, 6)) = r.id
              /\ ~r.cut => IdAt(attr.fields, 6) + 8 <= b.len
    <3>1. {"TID", "TIME"} \subseteq attr.fields /\ b = Payload(attr, r)
      BY <1>2, <1>3, <2>7
    <3>2. QED BY <1>3, <3>1, IdRead
  <2>9. CASE (f.paired \/ f.desc) /\ \A i \in DOMAIN attrs : "IDENTIFIER" \in attrs[i].fields
    <3>1. "IDENTIFIER" \in fields /\ "IDENTIFIER" \in attr.fields
      BY <1>2, <1>3, <1>7, <2>3, <2>7, <2>9
    <3>2. h.ids = IdsOf(attrs)
      BY <1>4, <2>9
    <3>3. 1 \in known
      BY <2>1, <2>6, <2>8, <3>1, <3>2, IdFields
    <3>4. Least(known) = 1
      <4>1. \A j \in known : 1 <= j
        BY <2>5
      <4>2. QED BY <2>5, <3>3, <4>1, LeastIs
    <3>5. a = r.attr
      BY <2>1, <2>4, <2>6, <2>8, <3>1, <3>2, <3>3, <3>4
    <3>6. QED BY <1>1, <1>2, <1>3, <3>5 DEF AttrFound
  <2>10. CASE \A i, j \in DOMAIN attrs : attrs[i].fields = attrs[j].fields
                                        /\ "ID" \in attrs[i].fields
    <3>1. fields = attr.fields /\ "ID" \in fields
      BY <1>2, <1>3, <1>7, <2>3, <2>7, <2>10
    <3>2. \A i \in known : Read(b, IdAt(fields, i)) = r.id
      <4> SUFFICES ASSUME NEW i \in known PROVE Read(b, IdAt(fields, i)) = r.id
        OBVIOUS
      <4>1. CASE i = 1
        BY <2>6, <2>8, <3>1, <4>1, IdFields
      <4>2. CASE i = 6
        BY <2>8, <3>1, <4>2
      <4>3. QED BY <2>5, <4>1, <4>2
    <3>3. CASE known = {}
      <4>1. a = 1
        BY <2>4, <3>3
      <4>2. f.desc => r.cut
        <5> SUFFICES ASSUME f.desc, ~r.cut PROVE FALSE
          BY <1>3
        <5>1. h.ids = IdsOf(attrs)
          BY <1>4
        <5>2. 6 \in known
          BY <2>1, <2>8, <3>1, <5>1, IdFields
        <5>3. QED BY <3>3, <5>2
      <4>3. QED BY <1>1, <1>2, <1>3, <1>7, <2>10, <4>1, <4>2 DEF AttrFound
    <3>4. CASE known # {}
      <4>1. Least(known) \in known
        BY <2>5, <3>4, LeastIn
      <4>2. a = h.ids[r.id] /\ r.id \in DOMAIN h.ids
        BY <2>4, <3>2, <3>4, <4>1
      <4>3. h.ids = IdsOf(attrs)
        <5>1. DOMAIN <<>> = {}
          OBVIOUS
        <5>2. QED BY <1>4, <4>2, <5>1
      <4>4. a = r.attr
        BY <2>1, <4>2, <4>3
      <4>5. QED BY <1>1, <1>2, <1>3, <4>4 DEF AttrFound
    <3>5. QED BY <3>3, <3>4
  <2>11. QED BY <1>1, <1>2, <1>7, <2>9, <2>10 DEF IsHeader
<1>8. QED BY <1>2, <1>3, <1>6, <1>7

-----------------------------------------------------------------------------
(* What a sample is. *)

\* Numbering two patterns per call.
LEMMA Halves ==
  \A i \in Nat : /\ i >= 1 => i - 1 \in Nat
                 /\ i % 2 = 0 \/ i % 2 = 1
                 /\ i >= 1 /\ i % 2 # 1 => (i - 1) % 2 = 1 /\ i >= 2
                                            /\ ((i - 1) + 1) \div 2 = (i + 1) \div 2
                 /\ \A n \in Nat : i >= 1 /\ i <= 2 * n => (i + 1) \div 2 \in 1 .. n
OBVIOUS

\* The names classify_event knows, one by one.
LEMMA PatternsAre ==
  /\ Len(GpuCalls) \in Nat /\ DOMAIN GpuCalls = 1 .. Len(GpuCalls)
  /\ DOMAIN Patterns = 1 .. 8 + 2 * Len(GpuCalls)
  /\ Patterns[1] = Entry("sched_switch") /\ Patterns[2] = Entry("sched_wakeup")
  /\ Patterns[3] = Entry("sched_process_fork") /\ Patterns[4] = Entry("sched_stat_runtime")
  /\ Patterns[5] = Entry("context-switches") /\ Patterns[6] = OnReturn("take_gil")
  /\ Patterns[7] = Entry("take_gil") /\ Patterns[8] = Entry("drop_gil")
  /\ \A i \in 1 .. 2 * Len(GpuCalls) :
       Patterns[8 + i] = IF i % 2 = 1 THEN OnReturn(GpuCalls[(i + 1) \div 2])
                                      ELSE Entry(GpuCalls[(i + 1) \div 2])
<1>1. PICK n \in Nat : n = Len(GpuCalls) /\ DOMAIN GpuCalls = 1 .. n
  BY GpuAssumption DEF GpuAssumption
<1>2. PICK s : s = [i \in 1 .. 2 * n |-> IF i % 2 = 1 THEN OnReturn(GpuCalls[(i + 1) \div 2])
                                                      ELSE Entry(GpuCalls[(i + 1) \div 2])]
  OBVIOUS
<1>3. 2 * n \in Nat /\ Len(s) = 2 * n /\ DOMAIN s = 1 .. 2 * n
  BY <1>2
<1>4. PICK t : t = <<Entry("sched_switch"), Entry("sched_wakeup"), Entry("sched_process_fork"),
                     Entry("sched_stat_runtime"), Entry("context-switches"),
                     OnReturn("take_gil"), Entry("take_gil"), Entry("drop_gil")>>
  OBVIOUS
<1>5. Len(t) = 8 /\ DOMAIN t = 1 .. 8
  BY <1>4
<1>6. PICK X : (\A i \in 1 .. 2 * n : s[i] \in X) /\ (\A i \in 1 .. 8 : t[i] \in X)
  <2>1. PICK X : X = {s[j] : j \in 1 .. 2 * n} \cup {t[j] : j \in 1 .. 8}
    OBVIOUS
  <2>2. (\A i \in 1 .. 2 * n : s[i] \in X) /\ (\A i \in 1 .. 8 : t[i] \in X)
    BY <2>1
  <2>3. QED BY <2>2
<1>7. s \in Seq(X) /\ t \in Seq(X)
  <2>1. s \in [1 .. 2 * n -> X]
    BY <1>2, <1>6
  <2>2. s \in Seq(X)
    BY <1>3, <2>1
  <2>3. t \in Seq(X)
    BY <1>4, <1>5, <1>6
  <2>4. QED BY <2>2, <2>3
<1>8. Patterns = t \o s
  BY <1>1, <1>2, <1>4 DEF Patterns
<1>9. /\ DOMAIN Patterns = 1 .. 8 + 2 * n
      /\ \A i \in 1 .. 8 : Patterns[i] = t[i]
      /\ \A i \in 1 .. 2 * n : Patterns[8 + i] = s[i]
  <2>1. Len(Patterns) = Len(t) + Len(s) /\ Patterns \in Seq(X)
    BY <1>7, <1>8, ConcatProperties
  <2>2. DOMAIN Patterns = 1 .. 8 + 2 * n
    BY <1>3, <1>5, <2>1
  <2>3. \A i \in 1 .. 8 + 2 * n : Patterns[i] = IF i <= 8 THEN t[i] ELSE s[i - 8]
    <3>1. \A i \in 1 .. Len(t) + Len(s) :
            Patterns[i] = IF i <= Len(t) THEN t[i] ELSE s[i - Len(t)]
      BY <1>7, <1>8, ConcatProperties
    <3>2. QED BY <1>3, <1>5, <3>1
  <2>4. \A i \in 1 .. 2 * n : Patterns[8 + i] = s[i]
    <3> TAKE i \in 1 .. 2 * n
    <3>1. 8 + i \in 1 .. 8 + 2 * n /\ ~(8 + i <= 8) /\ (8 + i) - 8 = i
      BY <1>3
    <3>2. QED BY <2>3, <3>1
  <2>5. \A i \in 1 .. 8 : Patterns[i] = t[i]
    BY <1>3, <2>3
  <2>6. QED BY <2>2, <2>4, <2>5
<1>10. QED BY <1>1, <1>2, <1>4, <1>9

\* The return probe of a call is looked for before its entry probe, and no pattern is
\* that of an event without a name.
LEMMA PatternOf ==
  ASSUME NEW m \in DOMAIN Patterns
  PROVE  /\ Patterns[m] = Entry(Patterns[m].probe) \/ Patterns[m] = OnReturn(Patterns[m].probe)
         /\ Patterns[m].probe \notin {"", "other"}
         /\ Patterns[m].ret = FALSE =>
              \/ \A n \in DOMAIN Patterns : Patterns[n].probe = Patterns[m].probe => ~Patterns[n].ret
              \/ m - 1 \in DOMAIN Patterns /\ Patterns[m - 1] = OnReturn(Patterns[m].probe)
<1>1. PICK g \in Nat : /\ g = Len(GpuCalls) /\ DOMAIN GpuCalls = 1 .. g
                       /\ DOMAIN Patterns = 1 .. 8 + 2 * g
  BY PatternsAre
<1> DEFINE Own == {"sched_switch", "sched_wakeup", "sched_process_fork", "sched_stat_runtime",
                   "context-switches", "take_gil", "drop_gil"}
           Of(i) == GpuCalls[(i + 1) \div 2]
<1>2. \A n \in 1 .. 8 :
        /\ Patterns[n].probe \in Own
        /\ Patterns[n] = IF n = 6 THEN OnReturn(Patterns[n].probe) ELSE Entry(Patterns[n].probe)
        /\ Patterns[n].ret <=> n = 6
        /\ Patterns[n].probe = "take_gil" <=> n \in {6, 7}
  <2>1. \A p : Entry(p).probe = p /\ Entry(p).ret = FALSE /\ OnReturn(p).probe = p
               /\ OnReturn(p).ret = TRUE
    BY DEF Entry, OnReturn
  <2>2. QED BY <2>1, PatternsAre
<1>3. \A n \in DOMAIN Patterns : n \notin 1 .. 8 => n - 8 \in 1 .. 2 * g
  BY <1>1
<1>4. ASSUME NEW n \in DOMAIN Patterns, n \notin 1 .. 8
      PROVE  /\ Patterns[n].probe \notin Own \cup {"", "other"}
             /\ Patterns[n] = Entry(Patterns[n].probe) \/ Patterns[n] = OnReturn(Patterns[n].probe)
             /\ Patterns[n].ret = FALSE =>
                  n - 1 \in DOMAIN Patterns /\ Patterns[n - 1] = OnReturn(Patterns[n].probe)
  <2>1. PICK i \in 1 .. 2 * g : n = 8 + i
    <3>1. n - 8 \in 1 .. 2 * g /\ n = 8 + (n - 8)
      BY <1>1, <1>3, <1>4
    <3>2. QED BY <3>1
  <2>2. PICK p : p = Of(i)
    OBVIOUS
  <2>3. (i + 1) \div 2 \in 1 .. g
    BY Halves
  <2>4. p \notin Own \cup {"", "other"}
    BY <1>1, <2>2, <2>3, GpuAssumption DEF GpuAssumption
  <2>5. Patterns[n] = IF i % 2 = 1 THEN OnReturn(p) ELSE Entry(p)
    BY <1>1, <2>1, <2>2, PatternsAre
  <2>6. /\ i % 2 = 1 => Patterns[n] = OnReturn(p) /\ Patterns[n].probe = p /\ Patterns[n].ret = TRUE
        /\ i % 2 # 1 => Patterns[n] = Entry(p) /\ Patterns[n].probe = p /\ Patterns[n].ret = FALSE
    BY <2>5 DEF Entry, OnReturn
  <2>7. ASSUME i % 2 # 1
        PROVE  n - 1 \in DOMAIN Patterns /\ Patterns[n - 1] = OnReturn(p)
    <3>1. PICK j \in 1 .. 2 * g : j = i - 1 /\ j % 2 = 1 /\ (j + 1) \div 2 = (i + 1) \div 2
      <4>1. i - 1 \in Nat /\ i >= 2 /\ (i - 1) % 2 = 1 /\ ((i - 1) + 1) \div 2 = (i + 1) \div 2
        BY <2>7, Halves
      <4>2. i - 1 \in 1 .. 2 * g
        BY <1>1, <4>1
      <4>3. QED BY <4>1, <4>2
    <3>2. Patterns[8 + j] = OnReturn(Of(j)) /\ Of(j) = p
      BY <1>1, <2>2, <3>1, PatternsAre
    <3>3. n - 1 = 8 + j /\ 8 + j \in 1 .. 8 + 2 * g
      BY <1>1, <2>1, <3>1
    <3>4. QED BY <1>1, <3>2, <3>3
  <2>8. QED BY <2>4, <2>6, <2>7
<1>5. \A n \in DOMAIN Patterns : n \in 1 .. 8 \/ n \notin 1 .. 8
  OBVIOUS
<1>6. Patterns[m] = Entry(Patterns[m].probe) \/ Patterns[m] = OnReturn(Patterns[m].probe)
  BY <1>2, <1>4
<1>7. Patterns[m].probe \notin {"", "other"}
  BY <1>2, <1>4
<1>8. ASSUME m \in 1 .. 8, Patterns[m].probe # "take_gil", NEW n \in DOMAIN Patterns,
             Patterns[n].probe = Patterns[m].probe
      PROVE  ~Patterns[n].ret
  <2>1. Patterns[m].probe \in Own
    BY <1>2, <1>8
  <2>2. n \in 1 .. 8
    BY <1>4, <1>8, <2>1
  <2>3. n # 6
    BY <1>2, <1>8, <2>2
  <2>4. QED BY <1>2, <2>2, <2>3
<1>9. ASSUME Patterns[m].ret = FALSE
      PROVE  \/ \A n \in DOMAIN Patterns : Patterns[n].probe = Patterns[m].probe => ~Patterns[n].ret
             \/ m - 1 \in DOMAIN Patterns /\ Patterns[m - 1] = OnReturn(Patterns[m].probe)
  <2>1. CASE m \notin 1 .. 8
    BY <1>4, <1>9, <2>1
  <2>2. CASE m \in 1 .. 8 /\ Patterns[m].probe # "take_gil"
    BY <1>8, <2>2
  <2>3. CASE m \in 1 .. 8 /\ Patterns[m].probe = "take_gil"
    <3>1. m = 7
      BY <1>2, <1>9, <2>3
    <3>2. 6 \in DOMAIN Patterns
      BY <1>1
    <3>3. m - 1 = 6 /\ Patterns[6] = OnReturn(Patterns[m].probe)
      BY <2>3, <3>1, PatternsAre
    <3>4. QED BY <3>2, <3>3
  <2>4. QED BY <2>1, <2>2, <2>3
<1>10. QED BY <1>6, <1>7, <1>9

\* An attribute has a name only if the file has the section that gives it, and then one
\* that classify_event tells from all others.
LEMMA ClassifyIs ==
  ASSUME NEW f, IsHeader(f), NEW h, h = Parsed(f), NEW a \in DOMAIN f.attrs,
         NEW kind, kind = Classify(h, a)
  PROVE  /\ f.desc => kind = f.attrs[a].name
         /\ ~f.desc => kind.probe \notin DOMAIN RawFields
<1>1. PICK name, software : name = h.names[a] /\ software = h.attrs[a].software
  OBVIOUS
<1> DEFINE hits == {i \in DOMAIN Patterns : NameHas(name, Patterns[i])}
<1>2. kind = IF hits # {} THEN Patterns[Least(hits)]
             ELSE IF software THEN Entry("context-switches") ELSE Other
  BY <1>1 DEF Classify
<1>3. hits \in SUBSET Nat
  BY PatternsAre
<1>4. \A i \in hits : Patterns[i].probe = name.probe /\ (Patterns[i].ret => name.ret)
  BY DEF NameHas
<1>5. hits # {} => /\ Least(hits) \in hits
                   /\ \A j \in hits : Least(hits) <= j
  BY <1>3, LeastIn
<1>6. ASSUME f.desc
      PROVE  kind = f.attrs[a].name
  <2>1. name = f.attrs[a].name /\ software = f.attrs[a].software
    BY <1>1, <1>6 DEF Parsed
  <2>2. CASE name = Other /\ ~software
    <3>1. name.probe = "other"
      BY <2>2 DEF Other, Entry
    <3>2. hits = {}
      BY <1>4, <3>1, PatternOf
    <3>3. QED BY <1>2, <2>1, <2>2, <3>2
  <2>3. CASE \E n \in DOMAIN Patterns : name = Patterns[n]
    <3>1. PICK n \in DOMAIN Patterns : name = Patterns[n]
      BY <2>3
    <3>2. n \in hits
      BY <3>1 DEF NameHas
    <3>3. PICK m \in hits : m = Least(hits) /\ \A j \in hits : m <= j
      BY <1>5, <3>2
    <3>4. kind = Patterns[m] /\ Patterns[m].probe = name.probe /\ (Patterns[m].ret => name.ret)
      BY <1>2, <1>4, <3>2, <3>3
    <3>5. /\ name = Entry(name.probe) \/ name = OnReturn(name.probe)
          /\ Patterns[m] = Entry(name.probe) \/ Patterns[m] = OnReturn(name.probe)
      BY <3>1, <3>4, PatternOf
    <3>6. \A p : Entry(p).ret = FALSE /\ OnReturn(p).ret = TRUE
      BY DEF Entry, OnReturn
    <3>7. ASSUME Patterns[m] = Entry(name.probe), name = OnReturn(name.probe)
          PROVE  FALSE
      <4>1. Patterns[m].ret = FALSE /\ Patterns[n].ret = TRUE
            /\ Patterns[n].probe = Patterns[m].probe
        BY <3>1, <3>4, <3>6, <3>7
      <4>2. m - 1 \in DOMAIN Patterns /\ Patterns[m - 1] = OnReturn(name.probe)
        BY <3>1, <3>4, <4>1, PatternOf
      <4>3. m - 1 \in hits
        BY <3>7, <4>2 DEF NameHas
      <4>4. m <= m - 1 /\ m \in Nat
        BY <1>3, <3>3, <4>3
      <4>5. QED BY <4>4
    <3>8. Patterns[m] = name
      BY <3>4, <3>5, <3>6, <3>7
    <3>9. QED BY <2>1, <3>4, <3>8
  <2>4. QED BY <1>6, <2>1, <2>2, <2>3 DEF IsHeader
<1>7. ASSUME ~f.desc
      PROVE  kind.probe \notin DOMAIN RawFields
  <2>1. name.probe = ""
    BY <1>1, <1>7 DEF Parsed, Entry
  <2>2. hits = {}
    BY <1>4, <2>1, PatternOf
  <2>3. kind.probe \in {"context-switches", "other"}
    BY <1>2, <2>2 DEF Entry, Other
  <2>4. QED BY <2>3 DEF RawFields
<1>8. QED BY <1>6, <1>7

-----------------------------------------------------------------------------
(* What the reader makes of a record, into whatever event it is handed. *)

\* The kind of what becomes of record r, known or not.
KindFor(h, r) ==
  IF r.type = "fork" THEN Entry("sched_process_fork") ELSE Classify(h, FindAttr(h, r.payload))

TakenAs(f, h, r, out, e) ==
  /\ out.ok \in BOOLEAN /\ IsPerfEvent(out.event)
  /\ out.ok <=> IsEvent(f, r)
  /\ out.ok =>
       /\ out.event.ts = r.ts /\ out.event.tid = r.tid /\ out.event.kind = KindFor(h, r)
       /\ f.desc => /\ out.event.kind = KindOf(f, r)
                    /\ HasArg(f, r) => out.event.arg = r.arg
       /\ ~HasArg(f, r) => out.event.arg = e.arg

\* What next_event makes of a sample.
LEMMA SampleTaken ==
  ASSUME NEW f \in Files, NEW r, IsHeader(f), IsRecord(f, r), r.type = "sample",
         NEW h, h = Parsed(f), NEW e, IsPerfEvent(e), NEW out, out = Decode(h, e, r)
  PROVE  TakenAs(f, h, r, out, e)
<1>1. PICK a, attr : a = FindAttr(h, r.payload) /\ attr = f.attrs[r.attr]
  OBVIOUS
<1>2. AttrFound(f, r, a)
  BY <1>1, FindAttrExact
<1>3. PICK kind : kind = Classify(h, a)
  OBVIOUS
<1>4. /\ f.desc => kind = f.attrs[a].name
      /\ ~f.desc => kind.probe \notin DOMAIN RawFields
  BY <1>2, <1>3, ClassifyIs DEF AttrFound
<1>5. r.attr \in DOMAIN f.attrs /\ RawForm(r) /\ r.cut \in BOOLEAN
      /\ r.payload = Payload(attr, r)
  BY <1>1 DEF IsRecord, RawForm
<1>6. DOMAIN h.attrs = DOMAIN f.attrs /\ h.attrs[a].fields = attr.fields
  BY <1>1, <1>2 DEF Parsed, AttrFound
<1>7. h.attrs # <<>>
  <2>1. DOMAIN <<>> = {}
    OBVIOUS
  <2>2. QED BY <1>5, <1>6, <2>1
<1>8. PICK e1 : e1 = [e EXCEPT !.kind = kind]
  OBVIOUS
<1>9. out = DecodeSample(r.payload, attr.fields, e1)
  BY <1>1, <1>3, <1>6, <1>7, <1>8 DEF Decode
<1>10. IsPerfEvent(e1) /\ e1.kind = kind /\ e1.arg = e.arg
  <2>1. PICK k, ts, tid, arg : e = [kind |-> k, ts |-> ts, tid |-> tid, arg |-> arg]
    BY DEF IsPerfEvent
  <2>2. e1 = [kind |-> kind, ts |-> ts, tid |-> tid, arg |-> arg] /\ e.arg = arg
    BY <1>8, <2>1
  <2>3. QED BY <2>2, PerfEventFields
<1>11. DecodedAs(out, attr, r, e1)
  <2>1. Laid(attr.fields) /\ {"TID", "TIME"} \subseteq attr.fields
    <3>1. attr.fields = f.attrs[r.attr].fields
      BY <1>1
    <3>2. QED BY <1>5, <3>1, LayoutIs DEF IsHeader
  <2>2. QED BY <1>5, <1>9, <1>10, <2>1, DecodeExact
<1>12. out.ok <=> IsEvent(f, r)
  BY <1>1, <1>11 DEF DecodedAs, IsEvent
<1>13. ASSUME out.ok
       PROVE  /\ f.desc => /\ out.event.kind = KindOf(f, r)
                           /\ HasArg(f, r) => out.event.arg = r.arg
              /\ ~HasArg(f, r) => out.event.arg = e.arg
  <2>1. ~r.cut /\ out.event.kind = kind
    BY <1>10, <1>11, <1>13 DEF DecodedAs
  <2>2. f.desc => kind = attr.name
    BY <1>1, <1>2, <1>4, <2>1 DEF AttrFound
  <2>3. OfAttr(attr, e1)
    BY <1>4, <1>10, <2>2 DEF OfAttr
  <2>4. out.event.arg = ArgAfter(attr.fields, r, e1)
    BY <1>11, <1>13, <2>3 DEF DecodedAs
  <2>5. DOMAIN Tracepoint = DOMAIN RawFields
    BY DEF Tracepoint, RawFields
  <2>6. HasArg(f, r) <=> /\ attr.name.probe \in DOMAIN RawFields /\ r.raw # "short"
                         /\ "RAW" \in attr.fields
    BY <1>1, <2>5 DEF HasArg
  <2>7. f.desc => out.event.kind = KindOf(f, r)
    BY <1>1, <2>1, <2>2 DEF KindOf
  <2>8. f.desc /\ HasArg(f, r) => out.event.arg = r.arg
    BY <1>10, <2>2, <2>4, <2>6 DEF ArgAfter
  <2>9. ~HasArg(f, r) => out.event.arg = e.arg
    BY <1>4, <1>10, <2>2, <2>4, <2>6 DEF ArgAfter
  <2>10. QED BY <2>7, <2>8, <2>9
<1>14. out.event.kind = KindFor(h, r)
  BY <1>1, <1>3, <1>10, <1>11 DEF DecodedAs, KindFor
<1>15. QED BY <1>11, <1>12, <1>13, <1>14 DEF TakenAs, DecodedAs

\* What next_event makes of a record, whichever event it writes to: records that are events
\* and only those are taken, for what was recorded; data they lack stay as they were.
THEOREM RecordTaken ==
  ASSUME NEW f \in Files, NEW r, IsHeader(f), IsRecord(f, r),
         NEW h, h = Parsed(f), NEW e, IsPerfEvent(e), NEW out, out = Decode(h, e, r)
  PROVE  TakenAs(f, h, r, out, e)
<1>1. CASE r.type = "sample"
  BY <1>1, SampleTaken
<1>2. CASE r.type = "fork"
  <2>1. out = DecodeFork(r, e) /\ r.cut \in BOOLEAN
    BY <1>2 DEF Decode, IsRecord
  <2>2. CASE r.cut
    <3>1. out = [ok |-> FALSE, event |-> e]
      BY <2>1, <2>2 DEF DecodeFork
    <3>2. ~IsEvent(f, r)
      BY <1>2, <2>2 DEF IsEvent
    <3>3. QED BY <3>1, <3>2 DEF TakenAs
  <2>3. CASE ~r.cut
    <3>1. PICK new : new = [kind |-> Entry("sched_process_fork"), ts |-> r.ts, tid |-> r.tid,
                            arg |-> r.arg]
      OBVIOUS
    <3>2. out = [ok |-> TRUE, event |-> new]
      BY <2>1, <2>3, <3>1 DEF DecodeFork
    <3>3. IsPerfEvent(new) /\ new.kind = Entry("sched_process_fork") /\ new.ts = r.ts
          /\ new.tid = r.tid /\ new.arg = r.arg
      BY <3>1, PerfEventFields
    <3>4. /\ IsEvent(f, r) /\ HasArg(f, r) /\ KindOf(f, r) = Entry("sched_process_fork")
          /\ KindFor(h, r) = Entry("sched_process_fork")
      BY <1>2, <2>3 DEF IsEvent, HasArg, KindOf, KindFor
    <3>5. QED BY <3>2, <3>3, <3>4 DEF TakenAs
  <2>4. QED BY <2>2, <2>3
<1>3. CASE r.type \notin {"sample", "fork"}
  <2>1. out = [ok |-> FALSE, event |-> e]
    BY <1>3 DEF Decode
  <2>2. ~IsEvent(f, r)
    BY <1>3 DEF IsEvent
  <2>3. QED BY <2>1, <2>2 DEF TakenAs
<1>4. QED BY <1>1, <1>2, <1>3

-----------------------------------------------------------------------------
(* The n-th of the records that are events. *)

\* How many elements of S are at most k.
Rank(S, k) == Cardinality({j \in S : j <= k})

\* Counting the elements up to k, and one step further.
LEMMA RankIs ==
  ASSUME NEW m \in Nat, NEW S \in SUBSET (1 .. m), NEW k \in Nat
  PROVE  /\ Rank(S, k) \in Nat /\ Rank(S, k) <= Cardinality(S) /\ Cardinality(S) \in Nat
         /\ Rank(S, 0) = 0 /\ Rank(S, m) = Cardinality(S)
         /\ k >= 1 => Rank(S, k) = Rank(S, k - 1) + IF k \in S THEN 1 ELSE 0
<1> DEFINE U(i) == {j \in S : j <= i}
<1>0. \A j \in S : j \in Nat /\ j >= 1 /\ j <= m
  OBVIOUS
<1>1. IsFiniteSet(S)
  <2>1. IsFiniteSet(1 .. m)
    BY FS_Interval
  <2>2. QED BY <2>1, FS_Subset
<1>2. Cardinality(S) \in Nat
  BY <1>1, FS_CardinalityType
<1>3. ASSUME NEW i \in Nat
      PROVE  IsFiniteSet(U(i)) /\ Cardinality(U(i)) \in Nat /\ Cardinality(U(i)) <= Cardinality(S)
  <2>1. U(i) \subseteq S
    OBVIOUS
  <2>2. QED BY <1>1, <2>1, FS_Subset, FS_CardinalityType
<1>4. Rank(S, 0) = 0
  <2>1. \A j \in S : ~(j <= 0)
    BY <1>0
  <2>2. U(0) = {}
    BY <2>1
  <2>3. QED BY <2>2, FS_EmptySet DEF Rank
<1>5. Rank(S, m) = Cardinality(S)
  <2>1. U(m) = S
    BY <1>0
  <2>2. QED BY <2>1 DEF Rank
<1>6. ASSUME k >= 1
      PROVE  Rank(S, k) = Rank(S, k - 1) + IF k \in S THEN 1 ELSE 0
  <2>1. k - 1 \in Nat /\ (\A j \in S : j <= k <=> j <= k - 1 \/ j = k) /\ ~(k <= k - 1)
    BY <1>0, <1>6
  <2>2. CASE k \in S
    <3>1. U(k) = U(k - 1) \cup {k} /\ k \notin U(k - 1)
      BY <2>1, <2>2
    <3>2. Cardinality(U(k)) = Cardinality(U(k - 1)) + 1
      BY <1>3, <2>1, <3>1, FS_AddElement
    <3>3. QED BY <2>2, <3>2 DEF Rank
  <2>3. CASE k \notin S
    <3>1. U(k) = U(k - 1)
      BY <2>1, <2>3
    <3>2. Rank(S, k) = Rank(S, k - 1) /\ Rank(S, k - 1) \in Nat
      BY <1>3, <2>1, <3>1 DEF Rank
    <3>3. QED BY <2>3, <3>2
  <2>4. QED BY <2>2, <2>3
<1>7. QED BY <1>2, <1>3, <1>4, <1>5, <1>6 DEF Rank

\* The further, the more elements.
LEMMA RankGrows ==
  ASSUME NEW m \in Nat, NEW S \in SUBSET (1 .. m), NEW k \in Nat, NEW i \in Nat, i <= k
  PROVE  Rank(S, i) <= Rank(S, k)
<1> DEFINE U(x) == {j \in S : j <= x}
<1>1. IsFiniteSet(S)
  <2>1. IsFiniteSet(1 .. m)
    BY FS_Interval
  <2>2. QED BY <2>1, FS_Subset
<1>2. U(i) \subseteq U(k) /\ U(k) \subseteq S
  <2>1. \A j \in S : j \in Nat
    OBVIOUS
  <2>2. \A j \in S : j <= i => j <= k
    BY <2>1
  <2>3. QED BY <2>2
<1>3. IsFiniteSet(U(k))
  BY <1>1, <1>2, FS_Subset
<1>4. Cardinality(U(i)) <= Cardinality(U(k))
  BY <1>2, <1>3, FS_Subset
<1>5. QED BY <1>4 DEF Rank

\* An element stands at its rank.
LEMMA NthIs ==
  ASSUME NEW m \in Nat, NEW S \in SUBSET (1 .. m), NEW k \in S, NEW n, n = Rank(S, k)
  PROVE  Nth(S, n) = k /\ n \in 1 .. Cardinality(S)
<1>1. k \in Nat /\ k >= 1 /\ k - 1 \in Nat
  OBVIOUS
<1>2. Rank(S, k) = Rank(S, k - 1) + 1 /\ Rank(S, k - 1) \in Nat /\ Rank(S, k) \in Nat
      /\ Rank(S, k) <= Cardinality(S) /\ Cardinality(S) \in Nat
  <2>1. Rank(S, k) = Rank(S, k - 1) + IF k \in S THEN 1 ELSE 0
    BY <1>1, RankIs
  <2>2. \A x \in Nat : Rank(S, x) \in Nat
    BY RankIs
  <2>3. Rank(S, k) <= Cardinality(S) /\ Cardinality(S) \in Nat
    BY <1>1, RankIs
  <2>4. QED BY <1>1, <2>1, <2>2, <2>3
<1>3. ASSUME NEW i \in S, Rank(S, i) = n
      PROVE  i = k
  <2>1. i \in Nat /\ i >= 1 /\ i - 1 \in Nat
    OBVIOUS
  <2>2. Rank(S, i) = Rank(S, i - 1) + 1 /\ Rank(S, i - 1) \in Nat /\ Rank(S, i) \in Nat
    <3>1. Rank(S, i) = Rank(S, i - 1) + IF i \in S THEN 1 ELSE 0
      BY <2>1, RankIs
    <3>2. \A x \in Nat : Rank(S, x) \in Nat
      BY RankIs
    <3>3. QED BY <2>1, <3>1, <3>2
  <2>3. CASE i < k
    <3>1. i <= k - 1
      BY <1>1, <2>1, <2>3
    <3>2. Rank(S, i) <= Rank(S, k - 1)
      BY <1>1, <2>1, <3>1, RankGrows
    <3>3. QED BY <1>2, <1>3, <2>2, <3>2
  <2>4. CASE k < i
    <3>1. k <= i - 1
      BY <1>1, <2>1, <2>4
    <3>2. Rank(S, k) <= Rank(S, i - 1)
      BY <1>1, <2>1, <3>1, RankGrows
    <3>3. QED BY <1>2, <1>3, <2>2, <3>2
  <2>5. QED BY <1>1, <2>1, <2>3, <2>4
<1>4. (CHOOSE i \in S : Rank(S, i) = n) = k
  BY <1>3
<1>5. Nth(S, n) = k
  BY <1>4 DEF Nth, Rank
<1>6. QED BY <1>2, <1>5

\* Every rank up to the number of elements has its element.
LEMMA NthIn ==
  ASSUME NEW m \in Nat, NEW S \in SUBSET (1 .. m), NEW n \in 1 .. Cardinality(S)
  PROVE  Nth(S, n) \in S /\ Rank(S, Nth(S, n)) = n
<1> DEFINE T == {i \in 0 .. m : n <= Rank(S, i) => \E k \in S : Rank(S, k) = n}
<1>1. 0 \in T
  <2>1. Rank(S, 0) = 0
    BY RankIs
  <2>2. n \in Nat /\ n >= 1
    <3>1. Cardinality(S) \in Nat
      BY RankIs
    <3>2. QED BY <3>1
  <2>3. QED BY <2>1, <2>2
<1>2. ASSUME NEW i \in 1 .. m, i - 1 \in T
      PROVE  i \in T
  <2>1. i \in Nat /\ i - 1 \in Nat /\ i >= 1
    OBVIOUS
  <2>2. Rank(S, i) = Rank(S, i - 1) + (IF i \in S THEN 1 ELSE 0)
        /\ Rank(S, i - 1) \in Nat /\ Rank(S, i) \in Nat
    BY <2>1, RankIs
  <2>3. SUFFICES ASSUME n <= Rank(S, i) PROVE \E k \in S : Rank(S, k) = n
    OBVIOUS
  <2>4. CASE n <= Rank(S, i - 1)
    BY <1>2, <2>4
  <2>5. CASE ~(n <= Rank(S, i - 1))
    <3>1. Cardinality(S) \in Nat /\ n \in Nat
      BY RankIs
    <3>2. i \in S
      BY <2>2, <2>3, <2>5, <3>1
    <3>3. Rank(S, i) = n
      BY <2>2, <2>3, <2>5, <3>1, <3>2
    <3>4. QED BY <3>2, <3>3
  <2>6. QED BY <2>4, <2>5
<1> HIDE DEF T
<1>3. m \in T
  <2>1. \A i \in 1 .. m : i - 1 \in T => i \in T
    BY <1>2
  <2>2. \A i \in 0 .. m : i \in T
    BY <1>1, <2>1, Counting
  <2>3. QED BY <2>2
<1>4. Rank(S, m) = Cardinality(S) /\ Cardinality(S) \in Nat
  BY RankIs
<1>5. \E k \in S : Rank(S, k) = n
  BY <1>3, <1>4 DEF T
<1>6. QED BY <1>5 DEF Nth, Rank

-----------------------------------------------------------------------------
(* The reader over the records of a file. *)

\* The records that are events, before the one the cursor does not pass.
Good(f) == {k \in 1 .. Stop(f) - 1 : IsEvent(f, f.records[k])}

\* The records before the one the cursor does not pass are those FileAssumption is about.
LEMMA StopIs ==
  ASSUME NEW f \in Files
  PROVE  /\ IsHeader(f) /\ Stop(f) \in Nat /\ Stop(f) >= 1
         /\ \A k \in 1 .. Stop(f) - 1 : IsRecord(f, f.records[k])
<1>1. /\ IsHeader(f) /\ Len(f.records) \in Nat /\ DOMAIN f.records = 1 .. Len(f.records)
      /\ \A k \in DOMAIN f.records : IsRecord(f, f.records[k])
  BY FileAssumption DEF FileAssumption
<1>2. PICK n \in Nat : n = Len(f.records) /\ DOMAIN f.records = 1 .. n
  BY <1>1
<1> DEFINE bad == {k \in DOMAIN f.records : f.records[k].type = "bad"}
<1>3. CASE bad = {}
  <2>1. Stop(f) = n + 1
    BY <1>2, <1>3 DEF Stop
  <2>2. QED BY <1>1, <1>2, <2>1
<1>4. CASE bad # {}
  <2>1. bad \in SUBSET Nat
    BY <1>2
  <2>2. Least(bad) \in bad
    BY <1>4, <2>1, LeastIn
  <2>3. Stop(f) = Least(bad)
    BY <1>4 DEF Stop
  <2>4. Stop(f) \in 1 .. n
    BY <1>2, <2>2, <2>3
  <2>5. QED BY <1>1, <1>2, <2>4
<1>5. QED BY <1>3, <1>4

\* A new PerfEvent is one without a thread in its data.
LEMMA FreshIs == IsPerfEvent(Fresh) /\ Fresh.arg = 0
BY DEF Fresh, IsPerfEvent

\* The records from the cursor on that become events are those that are events.
LEMMA DecodableIs ==
  ASSUME NEW f \in Files, NEW h, h = Parsed(f), NEW c \in Nat, c >= 1
  PROVE  Decodable(f, h, c) = {k \in Good(f) : c <= k}
<1>1. /\ IsHeader(f) /\ Stop(f) \in Nat
      /\ \A k \in 1 .. Stop(f) - 1 : IsRecord(f, f.records[k])
  BY StopIs
<1>2. ASSUME NEW k \in 1 .. Stop(f) - 1
      PROVE  Decode(h, Fresh, f.records[k]).ok <=> IsEvent(f, f.records[k])
  <2>1. PICK r, out : r = f.records[k] /\ out = Decode(h, Fresh, r)
    OBVIOUS
  <2>2. IsRecord(f, r)
    BY <1>1, <2>1
  <2>3. TakenAs(f, h, r, out, Fresh)
    BY <1>1, <2>1, <2>2, FreshIs, RecordTaken
  <2>4. QED BY <2>1, <2>3 DEF TakenAs
<1>3. \A k \in c .. Stop(f) - 1 : k \in 1 .. Stop(f) - 1
  BY <1>1
<1>4. \A k \in 1 .. Stop(f) - 1 : k \in c .. Stop(f) - 1 <=> c <= k
  BY <1>1
<1>5. Decodable(f, h, c) = {k \in c .. Stop(f) - 1 : IsEvent(f, f.records[k])}
  BY <1>2, <1>3 DEF Decodable
<1>6. QED BY <1>3, <1>4, <1>5 DEF Good

\* A turn of the cursor.
PassedNext(f, h, before, k) ==
  [event |-> Decode(h, before.event, f.records[k]).event,
   names |-> DecodeComm(before.names, f.records[k])]

PassedTurns(A, f, h, c, last, e, ns) ==
  A = [k \in c - 1 .. last |->
         IF k = c - 1 THEN [event |-> e, names |-> ns] ELSE PassedNext(f, h, A[k - 1], k)]

\* PassedBy is what its turns pass, and they can all be taken.
LEMMA PassedByTurns ==
  ASSUME NEW f, NEW h, NEW c \in Nat, NEW last \in Nat, c >= 1, c - 1 <= last, NEW e, NEW ns
  PROVE  \E A : /\ PassedTurns(A, f, h, c, last, e, ns)
                /\ PassedBy(f, h, c, last, e, ns) = A[last]
<1> DEFINE Upto(A, m) ==
             A = [k \in c - 1 .. m |->
                    IF k = c - 1 THEN [event |-> e, names |-> ns]
                    ELSE PassedNext(f, h, A[k - 1], k)]
           n == last - (c - 1)
           T == {i \in 0 .. n : \E A : Upto(A, c - 1 + i)}
<1>1. 0 \in T
  <2>1. PICK A : A = [k \in c - 1 .. c - 1 |-> [event |-> e, names |-> ns]]
    OBVIOUS
  <2>2. Upto(A, c - 1)
    BY <2>1
  <2>3. c - 1 + 0 = c - 1 /\ 0 \in 0 .. n
    OBVIOUS
  <2>4. QED BY <2>2, <2>3
<1>2. ASSUME NEW i \in 1 .. n, i - 1 \in T
      PROVE  i \in T
  <2>1. PICK m \in Nat : m = c - 1 + i /\ m - 1 = c - 1 + (i - 1) /\ m > c - 1
    OBVIOUS
  <2>2. PICK A : Upto(A, m - 1)
    BY <1>2, <2>1
  <2>3. PICK v : v = PassedNext(f, h, A[m - 1], m)
    OBVIOUS
  <2>4. PICK g : g = [k \in c - 1 .. m |-> IF k = m THEN v ELSE A[k]]
    OBVIOUS
  <2>5. ASSUME NEW k \in c - 1 .. m
        PROVE  g[k] = IF k = c - 1 THEN [event |-> e, names |-> ns]
                      ELSE PassedNext(f, h, g[k - 1], k)
    <3>1. CASE k = m
      <4>1. k # c - 1 /\ g[k - 1] = A[m - 1] /\ g[k] = v
        BY <2>1, <2>4, <3>1
      <4>2. QED BY <2>3, <3>1, <4>1
    <3>2. CASE k \in c - 1 .. m - 1
      <4>1. g[k] = A[k] /\ (k # c - 1 => g[k - 1] = A[k - 1])
        BY <2>1, <2>4, <3>2
      <4>2. QED BY <2>2, <3>2, <4>1
    <3>3. QED BY <2>1, <3>1, <3>2
  <2>6. Upto(g, m)
    BY <2>4, <2>5
  <2>7. QED BY <2>1, <2>6
<1>3. n \in Nat /\ n \in T
  <2>1. n \in Nat
    OBVIOUS
  <2> HIDE DEF T, n
  <2>2. \A i \in 1 .. n : i - 1 \in T => i \in T
    BY <1>2
  <2>3. \A i \in 0 .. n : i \in T
    BY <1>1, <2>1, <2>2, Counting
  <2>4. QED BY <2>1, <2>3
<1>4. \E A : PassedTurns(A, f, h, c, last, e, ns)
  <2>1. c - 1 + n = last
    OBVIOUS
  <2>2. \E A : Upto(A, c - 1 + n)
    BY <1>3
  <2>3. QED BY <2>1, <2>2 DEF PassedTurns
<1>5. PICK A : A = (CHOOSE B : PassedTurns(B, f, h, c, last, e, ns))
  OBVIOUS
<1>6. PassedBy(f, h, c, last, e, ns) = A[last]
  BY <1>5 DEF PassedBy, PassedTurns, PassedNext
<1>7. QED BY <1>4, <1>5, <1>6

\* The event stays one, and the last record is decoded into it.
LEMMA PassedEvent ==
  ASSUME NEW f \in Files, NEW h, h = Parsed(f), NEW c \in Nat, NEW last \in Nat,
         c >= 1, c - 1 <= last, last < Stop(f), NEW e, IsPerfEvent(e), NEW ns,
         NEW out, out = PassedBy(f, h, c, last, e, ns)
  PROVE  /\ IsPerfEvent(out.event)
         /\ c <= last => \E e0 : /\ IsPerfEvent(e0)
                                 /\ out.event = Decode(h, e0, f.records[last]).event
<1>1. /\ IsHeader(f) /\ Stop(f) \in Nat
      /\ \A k \in 1 .. Stop(f) - 1 : IsRecord(f, f.records[k])
  BY StopIs
<1>2. PICK A : PassedTurns(A, f, h, c, last, e, ns) /\ out = A[last]
  BY PassedByTurns
<1>3. A[c - 1] = [event |-> e, names |-> ns]
      /\ \A k \in c .. last : A[k] = PassedNext(f, h, A[k - 1], k)
  BY <1>2 DEF PassedTurns
<1>4. ASSUME NEW k \in c .. last
      PROVE  /\ A[k].event = Decode(h, A[k - 1].event, f.records[k]).event
             /\ IsRecord(f, f.records[k])
  <2>1. k \in 1 .. Stop(f) - 1
    BY <1>1
  <2>2. A[k] = PassedNext(f, h, A[k - 1], k)
    BY <1>3
  <2>3. A[k].event = Decode(h, A[k - 1].event, f.records[k]).event
    BY <2>2 DEF PassedNext
  <2>4. QED BY <1>1, <2>1, <2>3
<1>5. ASSUME NEW k \in c .. last, IsPerfEvent(A[k - 1].event)
      PROVE  IsPerfEvent(A[k].event)
  <2>1. PICK r, o, e0 : r = f.records[k] /\ e0 = A[k - 1].event /\ o = Decode(h, e0, r)
    OBVIOUS
  <2>2. TakenAs(f, h, r, o, e0)
    BY <1>1, <1>4, <1>5, <2>1, RecordTaken
  <2>3. QED BY <1>4, <2>1, <2>2 DEF TakenAs
<1> DEFINE n == last - (c - 1)
           T == {i \in 0 .. n : IsPerfEvent(A[c - 1 + i].event)}
<1>6. 0 \in T
  <2>1. c - 1 + 0 = c - 1 /\ 0 \in 0 .. n
    OBVIOUS
  <2>2. A[c - 1].event = e
    BY <1>3
  <2>3. QED BY <2>1, <2>2
<1>7. ASSUME NEW i \in 1 .. n, i - 1 \in T
      PROVE  i \in T
  <2>1. PICK k \in c .. last : k = c - 1 + i /\ k - 1 = c - 1 + (i - 1)
    OBVIOUS
  <2>2. IsPerfEvent(A[k - 1].event)
    BY <1>7, <2>1
  <2>3. IsPerfEvent(A[k].event)
    BY <1>5, <2>2
  <2>4. QED BY <2>1, <2>3
<1>8. ASSUME NEW k \in c - 1 .. last
      PROVE  IsPerfEvent(A[k].event)
  <2>1. n \in Nat /\ k - (c - 1) \in 0 .. n /\ c - 1 + (k - (c - 1)) = k
    OBVIOUS
  <2>2. k - (c - 1) \in T
    <3> HIDE DEF T, n
    <3>1. \A i \in 1 .. n : i - 1 \in T => i \in T
      BY <1>7
    <3>2. \A i \in 0 .. n : i \in T
      BY <1>6, <2>1, <3>1, Counting
    <3>3. QED BY <2>1, <3>2
  <2>3. QED BY <2>1, <2>2
<1>9. IsPerfEvent(out.event)
  <2>1. last \in c - 1 .. last
    OBVIOUS
  <2>2. QED BY <1>2, <1>8, <2>1
<1>10. ASSUME c <= last
       PROVE  \E e0 : IsPerfEvent(e0) /\ out.event = Decode(h, e0, f.records[last]).event
  <2>1. last \in c .. last /\ last - 1 \in c - 1 .. last
    BY <1>10
  <2>2. PICK e0 : e0 = A[last - 1].event
    OBVIOUS
  <2>3. IsPerfEvent(e0) /\ out.event = Decode(h, e0, f.records[last]).event
    BY <1>2, <1>4, <1>8, <2>1, <2>2
  <2>4. QED BY <2>3
<1>11. QED BY <1>9, <1>10

\* The records among the first m that name a thread, and the last name of each thread.
Comms(f, m) ==
  {k \in 1 .. m : /\ f.records[k].type = "comm"
                  /\ ~f.records[k].cut /\ f.records[k].name # ""}

LastSaid(f, m, t, k) ==
  /\ k \in Comms(f, m) /\ f.records[k].tid = t
  /\ \A j \in Comms(f, m) : f.records[j].tid = t => j <= k

NamesUpto(f, N, m) ==
  /\ N = [t \in DOMAIN N |-> N[t]]
  /\ DOMAIN N = {f.records[k].tid : k \in Comms(f, m)}
  /\ \A t \in DOMAIN N : \E k : LastSaid(f, m, t, k) /\ N[t] = f.records[k].name

\* A COMM record gives its thread the last name, any other record leaves the names.
LEMMA NameTold ==
  ASSUME NEW f, NEW m \in Nat, m >= 1, NEW N, NamesUpto(f, N, m - 1),
         NEW M, M = DecodeComm(N, f.records[m])
  PROVE  NamesUpto(f, M, m)
<1>0. \A k : k \in 1 .. m <=> k \in 1 .. m - 1 \/ k = m
  OBVIOUS
<1>1. PICK r : r = f.records[m]
  OBVIOUS
<1>2. CASE ~(r.type = "comm" /\ ~r.cut /\ r.name # "")
  <2>1. Comms(f, m) = Comms(f, m - 1)
    BY <1>0, <1>1, <1>2 DEF Comms
  <2>2. M = N
    BY <1>1, <1>2 DEF DecodeComm
  <2>3. \A t, k : LastSaid(f, m, t, k) <=> LastSaid(f, m - 1, t, k)
    BY <2>1 DEF LastSaid
  <2>4. QED BY <2>1, <2>2, <2>3 DEF NamesUpto
<1>3. CASE r.type = "comm" /\ ~r.cut /\ r.name # ""
  <2>1. Comms(f, m) = Comms(f, m - 1) \cup {m}
    BY <1>0, <1>1, <1>3 DEF Comms
  <2>2. M = [z \in DOMAIN N \cup {r.tid} |-> IF z = r.tid THEN r.name ELSE N[z]]
    BY <1>1, <1>3 DEF DecodeComm, With
  <2>3. M = [t \in DOMAIN M |-> M[t]] /\ DOMAIN M = DOMAIN N \cup {r.tid}
    BY <2>2
  <2>4. DOMAIN M = {f.records[k].tid : k \in Comms(f, m)}
    <3>1. DOMAIN N = {f.records[k].tid : k \in Comms(f, m - 1)}
      BY DEF NamesUpto
    <3>2. QED BY <1>1, <2>1, <2>3, <3>1
  <2>5. \A j \in Comms(f, m) : j <= m
    <3>1. \A j \in 1 .. m : j <= m
      OBVIOUS
    <3>2. QED BY <3>1 DEF Comms
  <2>6. ASSUME NEW t \in DOMAIN M
        PROVE  \E k : LastSaid(f, m, t, k) /\ M[t] = f.records[k].name
    <3>1. CASE t = r.tid
      <4>1. LastSaid(f, m, t, m)
        BY <1>1, <2>1, <2>5, <3>1 DEF LastSaid
      <4>2. M[t] = f.records[m].name
        BY <1>1, <2>2, <3>1
      <4>3. QED BY <4>1, <4>2
    <3>2. CASE t # r.tid
      <4>1. t \in DOMAIN N /\ M[t] = N[t]
        BY <2>2, <2>3, <3>2
      <4>2. PICK k : LastSaid(f, m - 1, t, k) /\ N[t] = f.records[k].name
        BY <4>1 DEF NamesUpto
      <4>3. LastSaid(f, m, t, k)
        BY <1>1, <2>1, <3>2, <4>2 DEF LastSaid
      <4>4. QED BY <4>1, <4>2, <4>3
    <3>3. QED BY <3>1, <3>2
  <2>7. QED BY <2>3, <2>4, <2>6 DEF NamesUpto
<1>4. QED BY <1>2, <1>3

\* Read to its end, the file has told the last name of every thread.
LEMMA AllNamesAre ==
  ASSUME NEW f \in Files, NEW h
  PROVE  AllNames(f, h) = RecordedNames(f)
<1>1. PICK last \in Nat : last = Stop(f) - 1
  BY StopIs
<1>2. PICK A : /\ PassedTurns(A, f, h, 1, last, Fresh, <<>>)
               /\ PassedBy(f, h, 1, last, Fresh, <<>>) = A[last]
  <2>1. 1 \in Nat /\ 1 >= 1 /\ 1 - 1 <= last
    OBVIOUS
  <2>2. QED BY <2>1, PassedByTurns
<1>3. A[0] = [event |-> Fresh, names |-> <<>>]
      /\ \A k \in 1 .. last : A[k] = PassedNext(f, h, A[k - 1], k)
  BY <1>2 DEF PassedTurns
<1> DEFINE T == {i \in 0 .. last : NamesUpto(f, A[i].names, i)}
<1>4. 0 \in T
  <2>1. Comms(f, 0) = {}
    BY DEF Comms
  <2>2. PICK N : N = <<>> /\ DOMAIN N = {} /\ N = [t \in DOMAIN N |-> N[t]]
    <3>1. <<>> = [t \in {} |-> <<>>[t]] /\ DOMAIN <<>> = {}
      OBVIOUS
    <3>2. QED BY <3>1
  <2>3. {f.records[k].tid : k \in Comms(f, 0)} = {}
    BY <2>1
  <2>4. NamesUpto(f, N, 0)
    BY <2>2, <2>3 DEF NamesUpto
  <2>5. A[0].names = N
    BY <1>3, <2>2
  <2>6. QED BY <2>4, <2>5
<1>5. ASSUME NEW i \in 1 .. last, i - 1 \in T
      PROVE  i \in T
  <2>1. A[i].names = DecodeComm(A[i - 1].names, f.records[i])
    <3>1. A[i] = PassedNext(f, h, A[i - 1], i)
      BY <1>3
    <3>2. QED BY <3>1 DEF PassedNext
  <2>2. PICK N, M : N = A[i - 1].names /\ M = A[i].names
    OBVIOUS
  <2>3. NamesUpto(f, N, i - 1) /\ M = DecodeComm(N, f.records[i])
    BY <1>5, <2>1, <2>2
  <2>4. i \in Nat /\ i >= 1
    OBVIOUS
  <2>5. NamesUpto(f, M, i)
    BY <2>3, <2>4, NameTold
  <2>6. QED BY <2>2, <2>5
<1> HIDE DEF T
<1>6. last \in T
  <2>1. \A i \in 0 .. last : i \in T
    BY <1>4, <1>5, Counting
  <2>2. QED BY <2>1
<1>7. PICK N : N = A[last].names
  OBVIOUS
<1>8. NamesUpto(f, N, last) /\ AllNames(f, h) = N
  BY <1>1, <1>2, <1>6, <1>7 DEF T, AllNames
<1> DEFINE comms == {k \in 1 .. Stop(f) - 1 :
                        /\ f.records[k].type = "comm"
                        /\ ~f.records[k].cut /\ f.records[k].name # ""}
           said(t) == CHOOSE k \in comms : /\ f.records[k].tid = t
                                           /\ \A j \in comms : f.records[j].tid = t => j <= k
<1>9. RecordedNames(f) = [t \in {f.records[k].tid : k \in comms} |-> f.records[said(t)].name]
  BY DEF RecordedNames
<1>10. comms = Comms(f, last)
  BY <1>1 DEF Comms
<1> HIDE DEF comms
<1>11. ASSUME NEW t \in DOMAIN N
       PROVE  N[t] = f.records[said(t)].name
  <2>1. PICK k : LastSaid(f, last, t, k) /\ N[t] = f.records[k].name
    BY <1>8 DEF NamesUpto
  <2>2. \A j \in comms : /\ f.records[j].tid = t
                         /\ \A i \in comms : f.records[i].tid = t => i <= j
                         => j = k
    <3>1. \A j \in comms : j \in Nat
      <4>1. \A j \in 1 .. last : j \in Nat
        OBVIOUS
      <4>2. QED BY <1>10, <4>1 DEF Comms
    <3>2. k \in comms /\ f.records[k].tid = t
          /\ \A j \in comms : f.records[j].tid = t => j <= k
      BY <1>10, <2>1 DEF LastSaid
    <3>3. QED BY <3>1, <3>2
  <2>3. said(t) = k
    BY <1>10, <2>1, <2>2 DEF LastSaid
  <2>4. QED BY <2>1, <2>3
<1>12. N = [t \in DOMAIN N |-> N[t]] /\ DOMAIN N = {f.records[k].tid : k \in comms}
  BY <1>8, <1>10 DEF NamesUpto
<1> HIDE DEF said
<1>13. QED BY <1>8, <1>9, <1>11, <1>12

-----------------------------------------------------------------------------
(* The events the reader returns. *)

\* Event e is what was recorded in record k of the file.
Delivered(f, h, e, k) ==
  /\ IsPerfEvent(e)
  /\ e.ts = f.records[k].ts /\ e.tid = f.records[k].tid /\ e.kind = KindFor(h, f.records[k])
  /\ f.desc => /\ e.kind = KindOf(f, f.records[k])
               /\ HasArg(f, f.records[k]) => e.arg = f.records[k].arg

\* The positions of the events are naturals, of records that are events.
LEMMA GoodIs ==
  ASSUME NEW f \in Files
  PROVE  \E m \in Nat : /\ m = Stop(f) - 1 /\ Good(f) \in SUBSET (1 .. m)
                        /\ \A k \in Good(f) : IsRecord(f, f.records[k]) /\ IsEvent(f, f.records[k])
<1>1. PICK m \in Nat : m = Stop(f) - 1
  BY StopIs
<1>2. Good(f) \in SUBSET (1 .. m)
  BY <1>1 DEF Good
<1>3. \A k \in Good(f) : IsRecord(f, f.records[k]) /\ IsEvent(f, f.records[k])
  BY StopIs DEF Good
<1>4. QED BY <1>1, <1>2, <1>3

\* A record that is an event is delivered for what it was.
LEMMA TakenDelivered ==
  ASSUME NEW f \in Files, NEW h, h = Parsed(f), NEW k \in Good(f), NEW e0, IsPerfEvent(e0),
         NEW e, e = Decode(h, e0, f.records[k]).event
  PROVE  /\ Delivered(f, h, e, k)
         /\ ~HasArg(f, f.records[k]) => e.arg = e0.arg
<1>1. IsRecord(f, f.records[k]) /\ IsEvent(f, f.records[k]) /\ IsHeader(f)
  BY GoodIs, StopIs
<1>2. PICK r, out : r = f.records[k] /\ out = Decode(h, e0, r)
  OBVIOUS
<1>3. TakenAs(f, h, r, out, e0)
  BY <1>1, <1>2, RecordTaken
<1>4. out.ok /\ out.event = e
  BY <1>1, <1>2, <1>3 DEF TakenAs
<1>5. /\ e.ts = r.ts /\ e.tid = r.tid /\ e.kind = KindFor(h, r) /\ IsPerfEvent(e)
      /\ f.desc => /\ e.kind = KindOf(f, r)
                   /\ HasArg(f, r) => e.arg = r.arg
      /\ ~HasArg(f, r) => e.arg = e0.arg
  <2>1. out.event.ts = r.ts /\ out.event.tid = r.tid /\ out.event.kind = KindFor(h, r)
    BY <1>3, <1>4 DEF TakenAs
  <2>2. ASSUME f.desc
        PROVE  /\ out.event.kind = KindOf(f, r)
               /\ HasArg(f, r) => out.event.arg = r.arg
    <3>1. out.event.kind = KindOf(f, r)
      BY <1>3, <1>4, <2>2 DEF TakenAs
    <3>2. HasArg(f, r) => out.event.arg = r.arg
      BY <1>3, <1>4, <2>2 DEF TakenAs
    <3>3. QED BY <3>1, <3>2
  <2>3. ~HasArg(f, r) => out.event.arg = e0.arg
    BY <1>3, <1>4 DEF TakenAs
  <2>4. IsPerfEvent(out.event)
    BY <1>3 DEF TakenAs
  <2>5. QED BY <1>4, <2>1, <2>2, <2>3, <2>4
<1>6. Delivered(f, h, e, k)
  BY <1>2, <1>5 DEF Delivered
<1>7. QED BY <1>2, <1>5, <1>6

\* Read to its end, the file gives all its events.
AllOf(f, h, es) ==
  /\ es = [n \in 1 .. Cardinality(Good(f)) |-> es[n]]
  /\ \A n \in 1 .. Cardinality(Good(f)) :
       /\ Delivered(f, h, es[n], Nth(Good(f), n))
       /\ ~HasArg(f, f.records[Nth(Good(f), n)]) => es[n].arg = 0

\* read_all_events (perf_data_reader.cpp:771-778) returns every event that was recorded.
THEOREM AllEventsAre ==
  ASSUME NEW f \in Files, NEW h, h = Parsed(f)
  PROVE  AllOf(f, h, AllEvents(f, h))
<1>1. PICK m \in Nat : m = Stop(f) - 1 /\ Good(f) \in SUBSET (1 .. m)
  BY GoodIs
<1>2. Decodable(f, h, 1) = Good(f)
  <2>1. Decodable(f, h, 1) = {k \in Good(f) : 1 <= k}
    BY DecodableIs
  <2>2. \A k \in Good(f) : 1 <= k
    BY <1>1
  <2>3. QED BY <2>1, <2>2
<1>3. PICK es : es = AllEvents(f, h)
  OBVIOUS
<1>4. es = [n \in 1 .. Cardinality(Good(f)) |->
              Decode(h, Fresh, f.records[Nth(Good(f), n)]).event]
  BY <1>2, <1>3 DEF AllEvents
<1>5. ASSUME NEW n \in 1 .. Cardinality(Good(f))
      PROVE  /\ Delivered(f, h, es[n], Nth(Good(f), n))
             /\ ~HasArg(f, f.records[Nth(Good(f), n)]) => es[n].arg = 0
  <2>1. PICK k \in Good(f) : k = Nth(Good(f), n)
    BY <1>1, NthIn
  <2>2. PICK e : e = es[n]
    OBVIOUS
  <2>3. e = Decode(h, Fresh, f.records[k]).event
    BY <1>4, <2>1, <2>2
  <2>4. Delivered(f, h, e, k) /\ (~HasArg(f, f.records[k]) => e.arg = Fresh.arg)
    BY <2>3, FreshIs, TakenDelivered
  <2>5. QED BY <2>1, <2>2, <2>4, FreshIs
<1>6. es = [n \in 1 .. Cardinality(Good(f)) |-> es[n]]
  BY <1>4
<1>7. QED BY <1>3, <1>5, <1>6 DEF AllOf

\* The next event of the file, and the cursor behind its record; at the end, neither.
NextIs(f, h, c, next) ==
  /\ IsPerfEvent(next.event) /\ next.found \in BOOLEAN
  /\ next.cursor \in Nat /\ next.cursor >= 1 /\ next.cursor <= Stop(f)
  /\ next.found =>
       /\ Rank(Good(f), c - 1) + 1 \in 1 .. Cardinality(Good(f))
       /\ Rank(Good(f), next.cursor - 1) = Rank(Good(f), c - 1) + 1
       /\ Delivered(f, h, next.event, Nth(Good(f), Rank(Good(f), c - 1) + 1))
  /\ ~next.found => /\ Rank(Good(f), c - 1) = Cardinality(Good(f))
                    /\ Rank(Good(f), next.cursor - 1) = Cardinality(Good(f))

\* next_event (perf_data_reader.cpp:780-824) returns the next event that was recorded, into
\* whichever event it is given.
THEOREM NextEventIs ==
  ASSUME NEW f \in Files, NEW h, h = Parsed(f), NEW c \in Nat, c >= 1, c <= Stop(f),
         NEW e, IsPerfEvent(e), NEW ns, NEW next, next = NextEvent(f, h, c, e, ns)
  PROVE  NextIs(f, h, c, next)
<1>1. PICK m \in Nat : m = Stop(f) - 1 /\ Good(f) \in SUBSET (1 .. m)
  BY GoodIs
<1>2. PICK S \in SUBSET (1 .. m) : S = Good(f)
  BY <1>1
<1>3. PICK good : good = {k \in S : c <= k}
  OBVIOUS
<1>4. Decodable(f, h, c) = good
  BY <1>2, <1>3, DecodableIs
<1>5. PICK after : after = IF good = {} THEN Stop(f) ELSE Least(good) + 1
  OBVIOUS
<1>6. PICK passed : passed = PassedBy(f, h, c, after - 1, e, ns)
  OBVIOUS
<1>7. /\ (next.found <=> good # {}) /\ next.found \in BOOLEAN /\ next.cursor = after /\ next.event = passed.event
  BY <1>4, <1>5, <1>6 DEF NextEvent
<1>8. \A j \in S : j \in Nat /\ j >= 1 /\ j <= m
  OBVIOUS
<1>9. c - 1 \in Nat /\ Stop(f) = m + 1 /\ c - 1 <= m
  BY <1>1, StopIs
<1>10. CASE good = {}
  <2>1. after = m + 1 /\ after - 1 = m
    BY <1>5, <1>9, <1>10
  <2>2. IsPerfEvent(passed.event)
    BY <1>6, <1>9, <2>1, PassedEvent
  <2>3. \A j \in S : j <= c - 1
    BY <1>3, <1>8, <1>10
  <2>4. {j \in S : j <= c - 1} = S
    BY <2>3
  <2>5. Rank(S, c - 1) = Cardinality(S) /\ Rank(S, m) = Cardinality(S)
    BY <2>4, RankIs DEF Rank
  <2>6. ~next.found /\ next.cursor \in Nat /\ next.cursor >= 1 /\ next.cursor <= Stop(f)
    <3>1. m + 1 >= 1 /\ m + 1 <= Stop(f) /\ m + 1 \in Nat
      BY <1>9
    <3>2. QED BY <1>7, <1>10, <2>1, <3>1
  <2>7. next.cursor - 1 = m
    BY <1>7, <2>1
  <2>8. QED BY <1>2, <1>7, <2>2, <2>5, <2>6, <2>7 DEF NextIs
<1>11. CASE good # {}
  <2>1. good \in SUBSET Nat
    BY <1>3, <1>8
  <2>2. PICK k \in good : k = Least(good) /\ \A j \in good : k <= j
    BY <1>11, <2>1, LeastIn
  <2>3. k \in S /\ k \in Nat /\ c <= k /\ k <= m /\ k - 1 \in Nat /\ k >= 1
    BY <1>3, <1>8, <2>2
  <2>4. after = k + 1 /\ after - 1 = k
    BY <1>5, <1>11, <2>2, <2>3
  <2>5. passed = PassedBy(f, h, c, k, e, ns)
    BY <1>6, <2>4
  <2>6. c - 1 <= k /\ k < Stop(f)
    BY <1>9, <2>3
  <2>7. PICK e0 : IsPerfEvent(e0) /\ passed.event = Decode(h, e0, f.records[k]).event
    BY <2>3, <2>5, <2>6, PassedEvent
  <2>8. Delivered(f, h, passed.event, k)
    BY <1>2, <2>3, <2>7, TakenDelivered
  <2>9. \A j \in S : j <= k - 1 <=> j <= c - 1
    <3> TAKE j \in S
    <3>1. j \in Nat /\ (c <= j => k <= j)
      BY <1>3, <1>8, <2>2
    <3>2. QED BY <2>3, <3>1
  <2>10. Rank(S, k - 1) = Rank(S, c - 1)
    BY <2>9 DEF Rank
  <2>11. Rank(S, k) = Rank(S, k - 1) + IF k \in S THEN 1 ELSE 0
    BY <2>3, RankIs
  <2>12. PICK n : n = Rank(S, c - 1) + 1
    OBVIOUS
  <2>13. Rank(S, k) = n
    BY <2>3, <2>10, <2>11, <2>12
  <2>14. Nth(S, n) = k /\ n \in 1 .. Cardinality(S)
    BY <2>3, <2>13, NthIs
  <2>15. IsPerfEvent(passed.event)
    BY <2>8 DEF Delivered
  <2>16. after \in Nat /\ after >= 1 /\ after <= Stop(f)
    BY <1>9, <2>3, <2>4
  <2>17. QED BY <1>2, <1>7, <1>11, <2>4, <2>8, <2>12, <2>13, <2>14, <2>15, <2>16 DEF NextIs
<1>12. QED BY <1>10, <1>11
=============================================================================
