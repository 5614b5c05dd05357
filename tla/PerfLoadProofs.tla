--------------------------- MODULE PerfLoadProofs ---------------------------
(***************************************************************************)
(* Proofs about ReorderBuffer, for every capacity and every set of files,  *)
(* and then about PerfLoad, whose streaming way runs that buffer and whose *)
(* other way sorts the whole file.                                         *)
(***************************************************************************)
EXTENDS PerfLoad, PerfDataReaderProofs, FiniteSetTheorems, SequenceTheorems, TLAPS

\* The lemmas about sorted streams, read with the buffer's mapping.
Abs == INSTANCE SortedStreamProofs WITH
  pending   <- heap \cup (read + 1 .. Len(input)),
  delivered <- output,
  done      <- phase = "serve" /\ ~hasOutput

\* The inductive invariant: types, the window, and what the flags stand for.
Flags ==
  /\ exhausted => read = Len(input)
  /\ phase = "fill" => ~hasOutput
  /\ phase = "serve" /\ ~hasOutput => exhausted /\ heap = {}

IInv == TypeOK /\ WindowFull /\ Flags

-----------------------------------------------------------------------------
LEMMA HeapFinite ==
  ASSUME NEW n \in Nat, NEW h \in SUBSET (1 .. n)
  PROVE  /\ IsFiniteSet(h)
         /\ Cardinality(h) \in Nat
<1>1. IsFiniteSet(1 .. n)
  BY FS_Interval
<1>2. QED BY <1>1, FS_Subset, FS_CardinalityType

\* There is something to read only where the end has not been reached.
LEMMA IntervalInhabited ==
  \A a \in Nat, b \in Nat : \A j \in a + 1 .. b : a # b
OBVIOUS

\* What was emitted of the first m events was emitted of the first n.
LEMMA SeqWidens ==
  ASSUME NEW m \in Nat, NEW n \in Nat, m <= n, NEW s \in Seq(1 .. m)
  PROVE  s \in Seq(1 .. n)
<1>1. 1 .. m \subseteq 1 .. n
  OBVIOUS
<1>2. QED BY <1>1

\* MergeMetadata keeps its type as events are read.
LEMMA MetaType ==
  ASSUME TypeOK, ReadOne
  PROVE  meta' \in [minTs : 0 .. TsMax, maxTs : 0 .. TsMax,
                    total : Nat, forks : SUBSET (1 .. read')]
<1>1. read + 1 \in 1 .. Len(input) /\ read' = read + 1 /\ read \in Nat
  BY DEF TypeOK, ReadOne
<1>2. input[read + 1] \in Event
  BY <1>1 DEF TypeOK
<1>3. input[read + 1].ts \in 0 .. TsMax
  BY <1>2 DEF Event
<1>4. /\ meta.minTs \in 0 .. TsMax /\ meta.maxTs \in 0 .. TsMax
      /\ meta.total \in Nat /\ meta.forks \subseteq 1 .. read
  BY DEF TypeOK
<1>5. meta.forks \cup {read + 1} \subseteq 1 .. read'
  BY <1>1, <1>4
<1>6. QED BY <1>1, <1>3, <1>4, <1>5 DEF ReadOne, TrackMetadata

\* What pop_next works on: the heap h its refill left, which accounts for the
\* same pending events, and holds Capacity + 1 of them while the file lasts.
Refilled(h) ==
  /\ h \subseteq 1 .. read'
  /\ read' \in 0 .. Len(input) /\ read <= read'
  /\ heap \cup (read + 1 .. Len(input)) = h \cup (read' + 1 .. Len(input))
  /\ exhausted' \in BOOLEAN
  /\ exhausted' => read' = Len(input) /\ Cardinality(h) <= Capacity
  /\ ~exhausted' => Cardinality(h) = Capacity + 1
  /\ meta' \in [minTs : 0 .. TsMax, maxTs : 0 .. TsMax,
                total : Nat, forks : SUBSET (1 .. read')]
  /\ Pop(h)

\* pop_next reads one more event, or has seen the end of the file, before it pops.
LEMMA PopNextRefills ==
  ASSUME IInv, PopNext, ~exhausted => Cardinality(heap) = Capacity
  PROVE  \E h \in SUBSET Nat : Refilled(h)
<1> USE DEF IInv
<1>0. /\ read \in 0 .. Len(input) /\ Len(input) \in Nat /\ read \in Nat
      /\ heap \subseteq 1 .. read /\ heap \in SUBSET Nat
      /\ Cardinality(heap) <= Capacity
  BY DEF TypeOK, WindowFull
<1>1. CASE exhausted /\ UNCHANGED <<exhausted, readerVars>> /\ Pop(heap)
  <2>1. Refilled(heap)
    BY <1>0, <1>1 DEF Refilled, readerVars, Flags, TypeOK
  <2>2. QED BY <1>0, <2>1
<1>2. CASE ~exhausted /\ ReadOne /\ UNCHANGED exhausted
           /\ Pop(heap \cup {read'})
  <2> DEFINE h == heap \cup {read'}
  <2>1. read' = read + 1 /\ read' \in 0 .. Len(input)
    BY <1>0, <1>2 DEF ReadOne
  <2>2. h \subseteq 1 .. read' /\ h \in SUBSET Nat
    BY <1>0, <2>1
  <2>3. heap \cup (read + 1 .. Len(input)) = h \cup (read' + 1 .. Len(input))
    BY <1>0, <2>1
  <2>4. Cardinality(h) = Capacity + 1
    <3>1. read' \notin heap
      BY <1>0, <2>1
    <3>2. QED BY <1>0, <1>2, <3>1, HeapFinite, FS_AddElement
  <2>5. meta' \in [minTs : 0 .. TsMax, maxTs : 0 .. TsMax,
                   total : Nat, forks : SUBSET (1 .. read')]
    BY <1>2, MetaType
  <2>6. Refilled(h)
    BY <1>0, <1>2, <2>1, <2>2, <2>3, <2>4, <2>5
       DEF Refilled, TypeOK
  <2>7. QED BY <2>2, <2>6
<1>3. CASE ~exhausted /\ ReaderAtEnd /\ exhausted' = TRUE /\ Pop(heap)
  <2>1. Refilled(heap)
    BY <1>0, <1>3 DEF Refilled, ReaderAtEnd, readerVars, TypeOK
  <2>2. QED BY <1>0, <2>1
<1>4. QED BY <1>1, <1>2, <1>3 DEF PopNext

\* A call of pop_next preserves the invariant.
LEMMA PopPreserves ==
  ASSUME IInv, NEW h \in SUBSET Nat, Refilled(h), input' = input,
         phase' = "serve"
  PROVE  IInv'
<1>0. /\ input \in Seq(Event) /\ read \in Nat /\ read' \in Nat
      /\ Len(input) \in Nat /\ read <= read'
      /\ output \in Seq(1 .. read) /\ current \in 0 .. read
      /\ h \subseteq 1 .. read'
  BY DEF IInv, TypeOK, Refilled
<1>1. IsFiniteSet(h) /\ Cardinality(h) \in Nat
  BY <1>0, HeapFinite
<1>2. output \in Seq(1 .. read') /\ current \in 0 .. read'
  BY <1>0, SeqWidens
<1>3. CASE /\ h = {} /\ hasOutput' = FALSE /\ heap' = h
           /\ UNCHANGED <<current, output>>
  <2>1. Cardinality(h) = 0
    BY <1>3, FS_EmptySet
  <2>2. exhausted'
    BY <2>1, CapacityAssumption DEF Refilled
  <2>3. TypeOK'
    BY <1>0, <1>2, <1>3 DEF TypeOK, Refilled
  <2>4. WindowFull'
    BY <1>3, <2>1, <2>2, CapacityAssumption DEF WindowFull
  <2>5. Flags'
    BY <1>3, <2>2 DEF Flags, Refilled
  <2>6. QED BY <2>3, <2>4, <2>5 DEF IInv
<1>4. CASE \E top \in Tops(h) :
             /\ current' = top /\ heap' = h \ {top} /\ hasOutput' = TRUE
             /\ output' = Append(output, top)
  <2>1. PICK top \in Tops(h) :
             /\ current' = top /\ heap' = h \ {top} /\ hasOutput' = TRUE
             /\ output' = Append(output, top)
    BY <1>4
  <2>2. top \in h /\ top \in 1 .. read'
    BY <1>0 DEF Tops
  <2>3. Cardinality(heap') = Cardinality(h) - 1
    BY <1>1, <2>1, <2>2, FS_RemoveElement
  <2>4. output' \in Seq(1 .. read')
    BY <1>2, <2>1, <2>2
  <2>5. TypeOK'
    BY <1>0, <2>1, <2>2, <2>4 DEF TypeOK, Refilled
  <2>6. WindowFull'
    BY <1>1, <2>3, CapacityAssumption DEF WindowFull, Refilled
  <2>7. Flags'
    BY <2>1 DEF Flags, Refilled
  <2>8. QED BY <2>5, <2>6, <2>7 DEF IInv
<1>5. QED BY <1>3, <1>4 DEF Refilled, Pop

\* fill_heap keeps the invariant.
LEMMA FillPreserves ==
  ASSUME IInv, FillHeap
  PROVE  IInv'
<1>0. /\ input \in Seq(Event) /\ read \in Nat /\ read \in 0 .. Len(input)
      /\ Len(input) \in Nat /\ heap \subseteq 1 .. read
      /\ output \in Seq(1 .. read) /\ current \in 0 .. read
      /\ UNCHANGED <<input, current, hasOutput, phase, output>>
      /\ phase = "fill" /\ ~hasOutput /\ ~exhausted
  BY DEF IInv, TypeOK, Flags, FillHeap, FillMore
<1>1. IsFiniteSet(heap) /\ Cardinality(heap) \in Nat
      /\ Cardinality(heap) < Capacity
  BY <1>0, HeapFinite DEF FillHeap, FillMore
<1>2. CASE ReadOne /\ heap' = heap \cup {read'} /\ UNCHANGED exhausted
  <2>1. read' = read + 1 /\ read' \in 0 .. Len(input)
    BY <1>0, <1>2 DEF ReadOne
  <2>2. Cardinality(heap') = Cardinality(heap) + 1
    <3>1. read' \notin heap
      BY <1>0, <2>1
    <3>2. QED BY <1>1, <1>2, <3>1, FS_AddElement
  <2>3. output' \in Seq(1 .. read')
    <3>1. output' = output /\ read' \in Nat /\ read <= read'
      BY <1>0, <2>1
    <3>2. QED BY <1>0, <3>1, SeqWidens
  <2>4. heap' \subseteq 1 .. read'
    BY <1>0, <1>2, <2>1
  <2>5. meta' \in [minTs : 0 .. TsMax, maxTs : 0 .. TsMax,
                   total : Nat, forks : SUBSET (1 .. read')]
    BY <1>2, MetaType DEF IInv
  <2>6. TypeOK'
    BY <1>0, <1>2, <2>1, <2>3, <2>4, <2>5 DEF IInv, TypeOK
  <2>7. WindowFull' /\ Flags'
    BY <1>0, <1>1, <1>2, <2>2, CapacityAssumption DEF WindowFull, Flags
  <2>8. QED BY <2>6, <2>7 DEF IInv
<1>3. CASE ReaderAtEnd /\ exhausted' = TRUE /\ UNCHANGED heap
  <2>1. UNCHANGED <<read, meta>> /\ read = Len(input)
    BY <1>3 DEF ReaderAtEnd, readerVars
  <2>2. TypeOK'
    BY <1>0, <1>3, <2>1 DEF IInv, TypeOK
  <2>3. WindowFull' /\ Flags'
    BY <1>0, <1>1, <1>3, <2>1, CapacityAssumption DEF WindowFull, Flags
  <2>4. QED BY <2>2, <2>3 DEF IInv
<1>4. QED BY <1>2, <1>3 DEF FillHeap

\* Both calls of pop_next come with a full window or an exhausted reader.
LEMMA PopCalls ==
  ASSUME IInv, FirstPop \/ Advance
  PROVE  /\ \E h \in SUBSET Nat : Refilled(h)
         /\ input' = input /\ phase' = "serve"
         /\ ~(phase = "serve" /\ ~hasOutput)
<1>1. ~exhausted => Cardinality(heap) = Capacity
  <2> read \in Nat /\ heap \in SUBSET (1 .. read)
    BY DEF IInv, TypeOK
  <2>1. Cardinality(heap) \in Nat /\ Cardinality(heap) <= Capacity
    BY HeapFinite DEF IInv, WindowFull
  <2>2. QED BY <2>1, CapacityAssumption
            DEF IInv, WindowFull, FirstPop, Advance, FillMore
<1>2. PopNext
  BY DEF FirstPop, Advance
<1>3. QED BY <1>1, <1>2, PopNextRefills DEF FirstPop, Advance

\* The invariant survives every step.
LEMMA IInvInductive == IInv /\ [Next]_vars => IInv'
<1> SUFFICES ASSUME IInv, [Next]_vars PROVE IInv'
  OBVIOUS
<1>1. CASE FillHeap
  BY <1>1, FillPreserves
<1>2. CASE FirstPop \/ Advance
  BY <1>2, PopCalls, PopPreserves
<1>3. CASE UNCHANGED vars
  BY <1>3 DEF vars, readerVars, IInv, TypeOK, WindowFull, Flags
<1>4. QED BY <1>1, <1>2, <1>3 DEF Next

\* Nothing has been read.
LEMMA IInvInit == Init => IInv
<1> SUFFICES ASSUME Init PROVE IInv
  OBVIOUS
<1>1. input \in Seq(Event)
  BY InputsAssumption DEF Init
<1>2. <<>> \in Seq(1 .. 0) /\ Cardinality({}) = 0
  BY FS_EmptySet
<1>3. TypeOK
  <2>1. /\ read = 0 /\ 1 .. read = {} /\ Len(input) \in Nat
        /\ output \in Seq(1 .. read) /\ current \in 0 .. read
        /\ read \in 0 .. Len(input) /\ heap \subseteq 1 .. read
    BY <1>1, <1>2 DEF Init
  <2>2. meta \in [minTs : 0 .. TsMax, maxTs : 0 .. TsMax,
                  total : Nat, forks : SUBSET (1 .. read)]
    BY <2>1, TsMaxAssumption DEF Init
  <2>3. QED BY <1>1, <2>1, <2>2 DEF Init, TypeOK
<1>4. WindowFull /\ Flags
  BY <1>2, CapacityAssumption DEF Init, WindowFull, Flags
<1>5. QED BY <1>3, <1>4 DEF IInv

\* The invariant holds whatever the file holds.
LEMMA IInvAlways == Spec => []IInv
BY IInvInit, IInvInductive, PTL DEF Spec

\* Every variable of the reorder buffer keeps its type.
THEOREM TypeCorrect == Spec => []TypeOK
BY IInvAlways, PTL DEF IInv

\* The heap never exceeds its capacity and stays full while the file lasts,
\* whatever the disorder of the file.
THEOREM WindowStaysFull == Spec => []WindowFull
BY IInvAlways, PTL DEF IInv

-----------------------------------------------------------------------------
\* The instances of the sorted stream order events as this module does.
LEMMA SameOrder ==
  /\ \A a, b : Stream!Greater(a, b) <=> Greater(a, b)
  /\ \A a, b : Abs!Greater(a, b) <=> Greater(a, b)
  /\ Abs!Event = Event
BY DEF Stream!Greater, Stream!Priority, Abs!Greater, Abs!Priority, Greater,
       Priority, Abs!Event, Abs!Kinds, Event, Kinds

\* The heart of the matter: in a file whose disorder fits the heap, no event
\* that is still unread sorts ahead of the least of Capacity + 1 events.
LEMMA NoLateEvent ==
  ASSUME NEW s \in Seq(Event), DisorderAtMost(s, Capacity),
         NEW n \in 0 .. Len(s), NEW h \in SUBSET (1 .. n),
         Cardinality(h) = Capacity + 1,
         NEW top \in h, \A k \in h : ~Greater(s[top], s[k]),
         NEW j \in n + 1 .. Len(s)
  PROVE  ~Greater(s[top], s[j])
<1> SUFFICES ASSUME Greater(s[top], s[j]) PROVE FALSE
  OBVIOUS
<1>1. /\ n \in Nat /\ Len(s) \in Nat /\ j \in 1 .. Len(s)
      /\ h \subseteq 1 .. j - 1
  OBVIOUS
<1>2. \A k \in 1 .. Len(s) : s[k] \in Event
  OBVIOUS
<1>3. \A k \in h : Greater(s[k], s[j])
  <2>1. \A a, b, c \in Event : Greater(a, b) /\ ~Greater(a, c) => Greater(c, b)
    <3>1. \A a \in Event : a.ts \in Int /\ Priority(a.kind) \in Int
      BY TsMaxAssumption DEF Event, Priority
    <3>2. SUFFICES ASSUME NEW a \in Event, NEW b \in Event, NEW c \in Event,
                          Greater(a, b), ~Greater(a, c)
                   PROVE  Greater(c, b)
      OBVIOUS
    <3>3. /\ a.ts \in Int /\ b.ts \in Int /\ c.ts \in Int
          /\ Priority(a.kind) \in Int /\ Priority(b.kind) \in Int
          /\ Priority(c.kind) \in Int
      BY <3>1
    <3>4. QED BY <3>2, <3>3 DEF Greater
  <2>2. \A k \in h : s[k] \in Event /\ s[top] \in Event /\ s[j] \in Event
    BY <1>1, <1>2
  <2>3. QED BY <2>1, <2>2
<1>4. h \subseteq Overtaken(s, j)
  BY <1>1, <1>3 DEF Overtaken
<1>5. Overtaken(s, j) \in SUBSET (1 .. Len(s))
  BY <1>1 DEF Overtaken
<1>6. IsFiniteSet(Overtaken(s, j)) /\ Cardinality(Overtaken(s, j)) \in Nat
  BY <1>1, <1>5, HeapFinite
<1>7. Cardinality(h) <= Cardinality(Overtaken(s, j))
  BY <1>4, <1>6, FS_Subset
<1>8. Cardinality(Overtaken(s, j)) <= Capacity
  BY <1>1 DEF DisorderAtMost
<1>9. QED BY <1>6, <1>7, <1>8, CapacityAssumption

\* A call of pop_next is a step of the sorted stream.
LEMMA PopIsStreamStep ==
  ASSUME IInv, DisorderAtMost(input, Capacity), FirstPop \/ Advance
  PROVE  Stream!Next
<1>1. PICK h \in SUBSET Nat : Refilled(h)
  BY PopCalls
<1>2. /\ input' = input /\ phase' = "serve"
      /\ ~(phase = "serve" /\ ~hasOutput)
  BY PopCalls
<1>3. heap \cup (read + 1 .. Len(input)) = h \cup (read' + 1 .. Len(input))
      /\ h \subseteq 1 .. read' /\ read' \in Nat /\ Len(input) \in Nat
  BY <1>1 DEF IInv, TypeOK, Refilled
<1>4. CASE /\ h = {} /\ hasOutput' = FALSE /\ heap' = h
           /\ UNCHANGED <<current, output>>
  <2>1. exhausted'
    BY <1>1, <1>4, FS_EmptySet, CapacityAssumption DEF Refilled
  <2>2. read' = Len(input)
    BY <1>1, <2>1 DEF Refilled
  <2>3. h \cup (read' + 1 .. Len(input)) = {}
    BY <1>3, <1>4, <2>2
  <2>4. Stream!Finish
    BY <1>2, <1>3, <1>4, <2>3 DEF Stream!Finish
  <2>5. QED BY <2>4 DEF Stream!Next
<1>5. CASE \E top \in Tops(h) :
             /\ current' = top /\ heap' = h \ {top} /\ hasOutput' = TRUE
             /\ output' = Append(output, top)
  <2>1. PICK top \in Tops(h) :
             /\ current' = top /\ heap' = h \ {top} /\ hasOutput' = TRUE
             /\ output' = Append(output, top)
    BY <1>5
  <2> DEFINE P == heap \cup (read + 1 .. Len(input))
  <2>2. top \in h /\ top \in P
    BY <1>3 DEF Tops
  <2>3. \A j \in P : ~Greater(input[top], input[j])
    <3> SUFFICES ASSUME NEW j \in P PROVE ~Greater(input[top], input[j])
      OBVIOUS
    <3>1. CASE j \in h
      BY <3>1 DEF Tops
    <3>2. CASE j \in read' + 1 .. Len(input)
      <4>1. ~exhausted'
        <5>1. read' # Len(input)
          <6>1. read' \in Nat /\ Len(input) \in Nat
            BY <1>3
          <6>2. QED BY <3>2, <6>1, IntervalInhabited
        <5>2. QED BY <1>1, <5>1 DEF Refilled
      <4>2. Cardinality(h) = Capacity + 1 /\ read' \in 0 .. Len(input)
        BY <1>1, <4>1 DEF Refilled
      <4>3. \A k \in h : ~Greater(input[top], input[k])
        BY DEF Tops
      <4>4. input \in Seq(Event) /\ h \in SUBSET (1 .. read')
        BY <1>3 DEF IInv, TypeOK
      <4>5. QED BY <2>2, <3>2, <4>2, <4>3, <4>4, NoLateEvent
    <3>3. QED BY <1>3, <3>1, <3>2
  <2>4. (heap \cup (read + 1 .. Len(input)))' = P \ {top}
    BY <1>2, <1>3, <2>1, <2>2
  <2>5. Stream!Deliver
    BY <1>2, <2>1, <2>2, <2>3, <2>4, SameOrder DEF Stream!Deliver
  <2>6. QED BY <2>5 DEF Stream!Next
<1>6. QED BY <1>1, <1>4, <1>5 DEF Refilled, Pop

\* Reading ahead is invisible to who consumes the stream.
LEMMA FillIsStutter ==
  ASSUME IInv, FillHeap
  PROVE  UNCHANGED Stream!vars
<1>0. /\ read \in Nat /\ read \in 0 .. Len(input) /\ Len(input) \in Nat
      /\ heap \subseteq 1 .. read
      /\ UNCHANGED <<input, current, hasOutput, phase, output>>
  BY DEF IInv, TypeOK, FillHeap
<1>1. (heap \cup (read + 1 .. Len(input)))'
        = heap \cup (read + 1 .. Len(input))
  <2>1. CASE ReadOne /\ heap' = heap \cup {read'}
    <3>1. read' = read + 1 /\ read < Len(input)
      BY <2>1 DEF ReadOne
    <3>2. QED BY <1>0, <2>1, <3>1
  <2>2. CASE ReaderAtEnd /\ UNCHANGED heap
    BY <1>0, <2>2 DEF ReaderAtEnd, readerVars
  <2>3. QED BY <2>1, <2>2 DEF FillHeap
<1>2. QED BY <1>0, <1>1 DEF Stream!vars

\* What the code's comment asks of a file, for every file.
FilesFitHeap == \A s \in Inputs : DisorderAtMost(s, Capacity)

Fits == DisorderAtMost(input, Capacity)

\* The file does not change.
LEMMA FitsInductive == Fits /\ [Next]_vars => Fits'
BY DEF Fits, Next, FillHeap, FirstPop, Advance, vars

\* A step of the reorder buffer delivers the next event of the sorted stream or is
\* invisible to its consumer.
LEMMA StepIsStreamStep ==
  ASSUME IInv, Fits, [Next]_vars
  PROVE  [Stream!Next]_(Stream!vars)
<1>1. CASE FillHeap
  BY <1>1, FillIsStutter
<1>2. CASE FirstPop \/ Advance
  BY <1>2, PopIsStreamStep DEF Fits
<1>3. CASE UNCHANGED vars
  BY <1>3 DEF vars, readerVars, Stream!vars
<1>4. QED BY <1>1, <1>2, <1>3 DEF Next

\* Everything is pending.
LEMMA InitIsStreamInit == Init => Stream!Init
<1> SUFFICES ASSUME Init PROVE Stream!Init
  OBVIOUS
<1>1. Len(input) \in Nat
  BY InputsAssumption DEF Init
<1>2. heap \cup (read + 1 .. Len(input)) = 1 .. Len(input)
  BY <1>1 DEF Init
<1>3. QED BY <1>2 DEF Init, Stream!Init

\* If every file's disorder fits the heap, the reorder buffer implements the
\* sorted stream: a proof of the guarantee in streaming_sort.h.
THEOREM Refinement ==
  ASSUME FilesFitHeap
  PROVE  Spec => IsSortedStream
<1>1. Init => Fits
  BY DEF FilesFitHeap, Init, Fits
<1>2. IInv /\ Fits /\ [Next]_vars => [Stream!Next]_(Stream!vars)
  BY StepIsStreamStep
<1>3. QED
  BY <1>1, <1>2, IInvAlways, FitsInductive, InitIsStreamInit, PTL
     DEF Spec, IsSortedStream, Stream!Spec

\* Then no event is emitted before one that sorts ahead of it.
THEOREM OutputIsSorted ==
  ASSUME FilesFitHeap
  PROVE  Spec => []OutputSorted
<1>1. Init => Abs!StreamInv
  <2>1. Init => Abs!Init
    BY InitIsStreamInit DEF Stream!Init, Abs!Init
  <2>2. Abs!InputsTyped
    BY InputsAssumption, SameOrder DEF Abs!InputsTyped
  <2>3. QED BY <2>1, <2>2, TsMaxAssumption, Abs!StreamInit
         DEF Abs!TsMaxAssumption
<1>2. IInv /\ Fits /\ Abs!StreamInv /\ [Next]_vars => Abs!StreamInv'
  <2>1. [Stream!Next]_(Stream!vars) => [Abs!Next]_(Abs!vars)
    BY SameOrder DEF Stream!Next, Stream!Deliver, Stream!Finish, Stream!vars,
           Abs!Next, Abs!Deliver, Abs!Finish, Abs!vars
  <2>2. QED BY <2>1, StepIsStreamStep, TsMaxAssumption, Abs!StreamStep
         DEF Abs!TsMaxAssumption
<1>3. Abs!StreamInv => OutputSorted
  BY SameOrder DEF Abs!StreamInv, Abs!Sorted, OutputSorted, Stream!Sorted
<1>4. Init => Fits
  BY DEF FilesFitHeap, Init, Fits
<1>5. QED
  BY <1>1, <1>2, <1>3, <1>4, IInvAlways, FitsInductive, PTL DEF Spec

-----------------------------------------------------------------------------
\* Popping any remaining event, least or not, keeps the count right.
LEMMA PopEmitsOnce ==
  ASSUME IInv, EmittedOnce, FirstPop \/ Advance
  PROVE  EmittedOnce'
<1>1. PICK h \in SUBSET Nat : Refilled(h)
  BY PopCalls
<1>2. input' = input /\ phase' = "serve"
  BY PopCalls
<1>3. /\ heap \cup (read + 1 .. Len(input)) = h \cup (read' + 1 .. Len(input))
      /\ h \subseteq 1 .. read' /\ read' \in Nat /\ Len(input) \in Nat
      /\ read' <= Len(input)
      /\ output \in Seq(1 .. read)
  BY <1>1 DEF IInv, TypeOK, Refilled
<1>4. CASE /\ h = {} /\ hasOutput' = FALSE /\ heap' = h
           /\ UNCHANGED <<current, output>>
  <2>1. exhausted'
    BY <1>1, <1>4, FS_EmptySet, CapacityAssumption DEF Refilled
  <2>2. read' = Len(input)
    BY <1>1, <2>1 DEF Refilled
  <2>3. h \cup (read' + 1 .. Len(input)) = {}
    BY <1>3, <1>4, <2>2
  <2>4. QED BY <1>2, <1>3, <1>4, <2>3 DEF EmittedOnce, Stream!ExactlyOnce
<1>5. CASE \E top \in Tops(h) :
             /\ current' = top /\ heap' = h \ {top} /\ hasOutput' = TRUE
             /\ output' = Append(output, top)
  <2>1. PICK top \in Tops(h) :
             /\ current' = top /\ heap' = h \ {top} /\ hasOutput' = TRUE
             /\ output' = Append(output, top)
    BY <1>5
  <2> DEFINE P == heap \cup (read + 1 .. Len(input))
  <2>2. top \in h /\ top \in P /\ top \in 1 .. Len(input)
    BY <1>3 DEF Tops
  <2>3. (heap \cup (read + 1 .. Len(input)))' = P \ {top}
    BY <1>2, <1>3, <2>1, <2>2
  <2>4. {output[m] : m \in 1 .. Len(output)} = (1 .. Len(input)) \ P
        /\ \A m, n \in 1 .. Len(output) : output[m] = output[n] => m = n
    BY DEF EmittedOnce, Stream!ExactlyOnce
  <2>5. /\ Len(output') = Len(output) + 1 /\ Len(output) \in Nat
        /\ output'[Len(output) + 1] = top
        /\ \A m \in 1 .. Len(output) : output'[m] = output[m]
    BY <1>3, <2>1
  <2>6. \A m \in 1 .. Len(output) : output[m] # top
    BY <2>2, <2>4
  <2>7. \A m, n \in 1 .. Len(output') : output'[m] = output'[n] => m = n
    BY <2>4, <2>5, <2>6
  <2>8. {output'[m] : m \in 1 .. Len(output')}
          = {output[m] : m \in 1 .. Len(output)} \cup {top}
    BY <2>5
  <2>9. {output'[m] : m \in 1 .. Len(output')} = (1 .. Len(input)) \ (P \ {top})
    BY <2>2, <2>4, <2>8
  <2>10. QED BY <1>2, <2>1, <2>3, <2>7, <2>9 DEF EmittedOnce, Stream!ExactlyOnce
<1>6. QED BY <1>1, <1>4, <1>5 DEF Refilled, Pop

\* Whatever the disorder, each event of the file is emitted exactly once, and
\* has_next turns false only when nothing is left.
THEOREM NothingLost == Spec => []EmittedOnce
<1>1. Init => EmittedOnce
  <2> SUFFICES ASSUME Init PROVE EmittedOnce
    OBVIOUS
  <2>1. /\ 1 .. Len(output) = {} /\ Len(input) \in Nat
        /\ phase = "fill" /\ heap = {} /\ read = 0
    BY InputsAssumption DEF Init
  <2>2. heap \cup (read + 1 .. Len(input)) = 1 .. Len(input)
    BY <2>1
  <2>3. QED BY <2>1, <2>2 DEF EmittedOnce, Stream!ExactlyOnce
<1>2. IInv /\ EmittedOnce /\ [Next]_vars => EmittedOnce'
  <2> SUFFICES ASSUME IInv, EmittedOnce, [Next]_vars PROVE EmittedOnce'
    OBVIOUS
  <2>1. CASE FillHeap
    <3>1. UNCHANGED Stream!vars
      BY <2>1, FillIsStutter
    <3>2. QED BY <3>1 DEF EmittedOnce, Stream!ExactlyOnce, Stream!vars
  <2>2. CASE FirstPop \/ Advance
    BY <2>2, PopEmitsOnce
  <2>3. CASE UNCHANGED vars
    BY <2>3 DEF vars, readerVars, EmittedOnce, Stream!ExactlyOnce
  <2>4. QED BY <2>1, <2>2, <2>3 DEF Next
<1>3. QED BY <1>1, <1>2, IInvAlways, PTL DEF Spec

-----------------------------------------------------------------------------
\* The events of the file are in the vector and sorted.
InMemory == path = "memory" /\ stage \in {"engine", "flushed"}

\* The bounds that track_metadata keeps are those of the events read so far.
LeastRead ==
  /\ \A i \in 1 .. read : meta.minTs <= input[i].ts
  /\ meta.minTs = TsMax \/ \E i \in 1 .. read : input[i].ts = meta.minTs

\* ts is when the trace starts.
First(ts) == output # <<>> => ts = input[output[1]].ts

\* How far main has got, and with it the buffer.
Stages ==
  /\ stage \in {"open", "build", "engine", "flushed"}
  /\ stage = "open" \/ (stage = "build" /\ path = "memory") => read = 0 /\ phase = "fill"
  /\ stage \in {"engine", "flushed"} => phase = "serve" /\ First(loaded.minTs)
  /\ stage \in {"open", "build"} => First(meta.minTs)
  /\ stage = "flushed" => ~hasOutput
  /\ phase = "fill" => output = <<>> /\ heap = 1 .. read
  /\ hasOutput => output # <<>>

\* What main knows of a file it has loaded into memory.
MemoryKnown ==
  /\ loaded.forks = Forks \/ input = <<>>
  /\ \A i \in 1 .. Len(input) : input[i].ts <= loaded.maxTs
  /\ input = <<>> \/ \E i \in 1 .. Len(input) : input[i].ts = loaded.maxTs

LInv ==
  /\ TypeOK /\ Flags /\ EmittedOnce /\ Stages
  /\ IF InMemory THEN exhausted /\ OutputSorted /\ MemoryKnown ELSE WindowFull /\ LeastRead

-----------------------------------------------------------------------------
\* What does not sort after another event is not later.
LEMMA NotGreaterTs ==
  ASSUME NEW a \in Event, NEW b \in Event, ~Greater(a, b)
  PROVE  a.ts \in Int /\ b.ts \in Int /\ a.ts <= b.ts
<1>1. a.ts \in Int /\ b.ts \in Int
  BY TsMaxAssumption DEF Event
<1>2. QED BY <1>1 DEF Greater

\* Reading one more event keeps the bounds right.
LEMMA ReadKeepsLeast ==
  ASSUME TypeOK, LeastRead, input' = input, ReadOne \/ UNCHANGED readerVars
  PROVE  LeastRead'
<1>1. /\ read \in Nat /\ Len(input) \in Nat /\ read <= Len(input) /\ TsMax \in Int
      /\ \A i \in 1 .. Len(input) : input[i].ts \in Int /\ input[i].ts <= TsMax
      /\ meta.minTs \in Int
  <2>1. read \in Nat /\ Len(input) \in Nat /\ read <= Len(input) /\ TsMax \in Int
    BY TsMaxAssumption DEF TypeOK
  <2>2. \A i \in 1 .. Len(input) : input[i] \in Event
    BY DEF TypeOK
  <2>3. \A e \in Event : e.ts \in Int /\ e.ts <= TsMax
    BY TsMaxAssumption DEF Event
  <2>4. meta.minTs \in 0 .. TsMax
    BY DEF TypeOK
  <2>5. QED BY <2>1, <2>2, <2>3, <2>4
<1>2. CASE UNCHANGED readerVars
  BY <1>2 DEF readerVars, LeastRead
<1>3. CASE ReadOne
  <2> DEFINE ts == input[read + 1].ts
  <2>1. /\ read' = read + 1 /\ read + 1 \in 1 .. Len(input) /\ ts \in Int /\ ts <= TsMax
        /\ meta'.minTs = IF ts < meta.minTs THEN ts ELSE meta.minTs
    BY <1>1, <1>3 DEF ReadOne, TrackMetadata
  <2>2. \A i \in 1 .. read' : i \in 1 .. read \/ i = read + 1
    BY <1>1, <2>1
  <2>3. \A i \in 1 .. read : i \in 1 .. read' /\ i \in 1 .. Len(input)
    BY <1>1, <2>1
  <2>4. \A i \in 1 .. read' : meta'.minTs <= input[i].ts
    <3>1. SUFFICES ASSUME NEW i \in 1 .. read' PROVE meta'.minTs <= input[i].ts
      OBVIOUS
    <3>2. CASE i = read + 1
      BY <1>1, <2>1, <3>2
    <3>3. CASE i \in 1 .. read
      <4>1. meta.minTs <= input[i].ts /\ input[i].ts \in Int
        BY <1>1, <2>3, <3>3 DEF LeastRead
      <4>2. QED BY <1>1, <2>1, <4>1
    <3>4. QED BY <2>2, <3>2, <3>3
  <2>5. meta'.minTs = TsMax \/ \E i \in 1 .. read' : input[i].ts = meta'.minTs
    <3>1. CASE ts < meta.minTs
      <4>1. read + 1 \in 1 .. read'
        BY <1>1, <2>1
      <4>2. QED BY <2>1, <3>1, <4>1
    <3>2. CASE ~(ts < meta.minTs)
      BY <2>1, <2>3, <3>2 DEF LeastRead
    <3>3. QED BY <3>1, <3>2
  <2>6. QED BY <2>4, <2>5 DEF LeastRead
<1>4. QED BY <1>2, <1>3

\* After a pop the first event handed over is the first one it was before; the very first
\* is a least one of the heap.
LEMMA PopFirst ==
  ASSUME output \in Seq(Nat), NEW h, Pop(h)
  PROVE  /\ output # <<>> => output' # <<>> /\ output'[1] = output[1]
         /\ output = <<>> /\ output' # <<>> => output'[1] \in Tops(h)
         /\ hasOutput' => output' # <<>>
<1>1. CASE h = {} /\ hasOutput' = FALSE /\ UNCHANGED output
  BY <1>1
<1>2. CASE \E top \in Tops(h) : hasOutput' = TRUE /\ output' = Append(output, top)
  <2>1. PICK top \in Tops(h) : hasOutput' = TRUE /\ output' = Append(output, top)
    BY <1>2
  <2>2. Len(output) \in Nat /\ Len(output') = Len(output) + 1
        /\ output'[Len(output) + 1] = top
        /\ \A i \in 1 .. Len(output) : output'[i] = output[i]
    <3>1. Len(output) \in Nat
      OBVIOUS
    <3>2. PICK n \in Nat : n = Len(output)
      BY <3>1
    <3>3. QED BY <2>1, <3>1
  <2>3. output' # <<>>
    BY <2>2
  <2>4. output # <<>> => output'[1] = output[1]
    BY <2>2
  <2>5. output = <<>> => output'[1] = top
    BY <2>2
  <2>6. QED BY <2>1, <2>3, <2>4, <2>5
<1>3. QED BY <1>1, <1>2 DEF Pop

\* The first window holds the least event read, so the first event popped is at min_ts_.
LEMMA FirstPopIsLeast ==
  ASSUME IInv, LeastRead, heap = 1 .. read, output = <<>>, FirstPop
  PROVE  First(meta.minTs)' /\ LeastRead' /\ (hasOutput' => output' # <<>>)
<1>1. input' = input /\ PopNext
  BY DEF FirstPop
<1>2. /\ read \in Nat /\ Len(input) \in Nat /\ read <= Len(input) /\ input \in Seq(Event)
      /\ output \in Seq(Nat)
  BY DEF IInv, TypeOK
<1>3. (ReadOne \/ UNCHANGED readerVars) /\ Pop(1 .. read') /\ read' <= Len(input) /\ read' \in Nat
  <2>1. CASE ReadOne /\ Pop(heap \cup {read'})
    <3>1. read' = read + 1 /\ read' <= Len(input)
      BY <1>2, <2>1 DEF ReadOne
    <3>2. heap \cup {read'} = 1 .. read'
      BY <1>2, <3>1
    <3>3. PICK h : h = heap \cup {read'} /\ Pop(h)
      BY <2>1
    <3>4. Pop(1 .. read')
      BY <3>2, <3>3
    <3>5. read' \in Nat
      BY <1>2, <3>1
    <3>6. QED BY <2>1, <3>1, <3>4, <3>5
  <2>2. CASE UNCHANGED readerVars /\ Pop(heap)
    BY <1>2, <2>2 DEF readerVars
  <2>3. QED BY <1>1, <2>1, <2>2 DEF PopNext, ReaderAtEnd
<1>4. LeastRead'
  BY <1>1, <1>3, ReadKeepsLeast DEF IInv
<1>5. hasOutput' => output' # <<>>
  BY <1>2, <1>3, PopFirst
<1>6. ASSUME output' # <<>>
      PROVE  meta'.minTs = input[output'[1]].ts
  <2>1. output'[1] \in Tops(1 .. read')
    BY <1>2, <1>3, <1>6, PopFirst
  <2>2. PICK top \in 1 .. read' :
          top = output'[1] /\ \A j \in 1 .. read' : ~Greater(input[top], input[j])
    BY <2>1 DEF Tops
  <2>3. \A j \in 1 .. read' : input[j] \in Event
    BY <1>2, <1>3
  <2>4. \A j \in 1 .. read' : /\ input[top].ts \in Int /\ input[j].ts \in Int
                              /\ input[top].ts <= input[j].ts
    BY <2>2, <2>3, NotGreaterTs
  <2>5. meta'.minTs <= input[top].ts
    BY <1>1, <1>4 DEF LeastRead
  <2>6. input[top].ts <= TsMax
    BY <2>3 DEF Event
  <2>7. meta'.minTs = TsMax \/ \E i \in 1 .. read' : input[i].ts = meta'.minTs
    BY <1>1, <1>4 DEF LeastRead
  <2>8. TsMax \in Int
    BY TsMaxAssumption
  <2>9. QED BY <2>2, <2>4, <2>5, <2>6, <2>7, <2>8
<1>7. QED BY <1>1, <1>4, <1>5, <1>6 DEF First

-----------------------------------------------------------------------------
\* Pending events and flags, as the sorted stream sees them.
Pending == heap \cup (read + 1 .. Len(input))

\* Once all of the file has been read, a pop of what is pending is a step of the sorted
\* stream, whatever the disorder of the file.
LEMMA MemoryPop ==
  ASSUME TypeOK, OutputSorted, EmittedOnce, input' = input,
         Pop(Pending), read' = Len(input), exhausted' = TRUE, meta' = meta,
         phase' = "serve", ~(phase = "serve" /\ ~hasOutput)
  PROVE  TypeOK' /\ Flags' /\ OutputSorted' /\ EmittedOnce'
<1>1. /\ input \in Seq(Event) /\ Len(input) \in Nat /\ read \in 0 .. Len(input)
      /\ read \in Nat /\ heap \subseteq 1 .. read /\ output \in Seq(1 .. read)
      /\ hasOutput \in BOOLEAN /\ phase \in {"fill", "serve"}
  BY DEF TypeOK
<1>2. output \in Seq(1 .. Len(input)) /\ Pending \subseteq 1 .. Len(input)
  <2>1. output \in Seq(1 .. Len(input))
    BY <1>1, SeqWidens
  <2>2. 1 .. read \subseteq 1 .. Len(input) /\ read + 1 .. Len(input) \subseteq 1 .. Len(input)
    BY <1>1
  <2>3. Pending \subseteq 1 .. Len(input)
    BY <1>1, <2>2 DEF Pending
  <2>4. QED BY <2>1, <2>3
<1>3. Abs!StreamInv
  <2>1. Abs!StreamTypeOK
    BY <1>1, <1>2, SameOrder DEF Abs!StreamTypeOK, Pending
  <2>2. Abs!Sorted /\ Abs!ExactlyOnce
    BY SameOrder DEF OutputSorted, Stream!Sorted, Abs!Sorted, EmittedOnce,
                     Stream!ExactlyOnce, Abs!ExactlyOnce
  <2>3. QED BY <2>1, <2>2 DEF Abs!StreamInv
<1>4. Pending' = heap'
  <2>1. read' + 1 .. Len(input) = {}
    BY <1>1
  <2>2. QED BY <2>1 DEF Pending
<1>5. PICK h : h = Pending
  OBVIOUS
<1>6. Abs!Next /\ TypeOK' /\ Flags'
  <2>1. CASE h = {} /\ hasOutput' = FALSE /\ heap' = h /\ UNCHANGED <<current, output>>
    <3>1. heap' = {} /\ Pending' = {} /\ Pending = {}
      BY <1>4, <1>5, <2>1
    <3>2. Abs!Finish
      BY <1>4, <2>1, <3>1 DEF Abs!Finish, Pending
    <3>3. current' \in 0 .. Len(input) /\ output' \in Seq(1 .. Len(input))
      BY <1>1, <1>2, <2>1 DEF TypeOK
    <3>4. meta \in [minTs : 0 .. TsMax, maxTs : 0 .. TsMax, total : Nat,
                    forks : SUBSET (1 .. Len(input))]
      <4>1. \A F \in SUBSET (1 .. read) : F \in SUBSET (1 .. Len(input))
        BY <1>1
      <4>2. QED BY <4>1 DEF TypeOK
    <3>5. TypeOK'
      <4>1. input' \in Seq(Event) /\ Len(input') = Len(input) /\ read' \in 0 .. Len(input)
        BY <1>1
      <4>2. hasOutput' \in BOOLEAN /\ exhausted' \in BOOLEAN
        BY <2>1
      <4>3. QED BY <3>1, <3>3, <3>4, <4>1, <4>2 DEF TypeOK
    <3>6. Flags'
      BY <2>1, <3>1 DEF Flags
    <3>7. QED BY <3>2, <3>5, <3>6 DEF Abs!Next
  <2>2. CASE \E top \in Tops(h) : /\ current' = top /\ heap' = h \ {top} /\ hasOutput' = TRUE
                                  /\ output' = Append(output, top)
    <3>1. PICK top \in Tops(h) : /\ current' = top /\ heap' = h \ {top} /\ hasOutput' = TRUE
                                 /\ output' = Append(output, top)
      BY <2>2
    <3>2. top \in h /\ \A j \in h : ~Greater(input[top], input[j])
      BY DEF Tops
    <3>3. top \in 1 .. Len(input) /\ heap' \subseteq 1 .. Len(input)
      BY <1>2, <1>5, <3>1, <3>2
    <3>4. Abs!Deliver
      <4>1. Pending' = Pending \ {top}
        BY <1>4, <1>5, <3>1
      <4>2. (phase = "serve" /\ ~hasOutput)' = (phase = "serve" /\ ~hasOutput)
        BY <3>1
      <4>3. top \in Pending /\ \A j \in Pending : ~Abs!Greater(input[top], input[j])
        BY <1>5, <3>2, SameOrder
      <4>4. QED BY <3>1, <4>1, <4>2, <4>3 DEF Abs!Deliver, Pending
    <3>5. output' \in Seq(1 .. Len(input))
      BY <1>2, <3>1, <3>3
    <3>6. meta \in [minTs : 0 .. TsMax, maxTs : 0 .. TsMax, total : Nat,
                    forks : SUBSET (1 .. Len(input))]
      <4>1. \A F \in SUBSET (1 .. read) : F \in SUBSET (1 .. Len(input))
        BY <1>1
      <4>2. QED BY <4>1 DEF TypeOK
    <3>7. TypeOK'
      BY <1>1, <3>1, <3>3, <3>5, <3>6 DEF TypeOK
    <3>8. Flags'
      BY <3>1 DEF Flags
    <3>9. QED BY <3>4, <3>7, <3>8 DEF Abs!Next
  <2>3. QED BY <1>5, <2>1, <2>2 DEF Pop
<1>7. Abs!StreamInv'
  BY <1>3, <1>6, TsMaxAssumption, Abs!StreamStep DEF Abs!TsMaxAssumption
<1>8. OutputSorted' /\ EmittedOnce'
  BY <1>7, SameOrder DEF Abs!StreamInv, OutputSorted, Stream!Sorted, Abs!Sorted, EmittedOnce,
                   Stream!ExactlyOnce, Abs!ExactlyOnce
<1>9. QED BY <1>6, <1>8

\* A stream on which nothing has been delivered is sorted.
LEMMA EmptySorted == output = <<>> => OutputSorted
<1>1. output = <<>> => 1 .. Len(output) = {}
  OBVIOUS
<1>2. QED BY <1>1 DEF OutputSorted, Stream!Sorted

-----------------------------------------------------------------------------
\* main has done nothing yet.
LEMMA LoadInitInv == LoadInit => LInv
<1>1. SUFFICES ASSUME LoadInit PROVE LInv
  OBVIOUS
<1>2. Init /\ stage = "open"
  BY <1>1 DEF LoadInit
<1>3. IInv
  BY <1>2, IInvInit
<1>4. /\ read = 0 /\ heap = {} /\ output = <<>> /\ ~hasOutput /\ phase = "fill"
      /\ meta.minTs = TsMax /\ Len(input) \in Nat
  BY <1>2, InputsAssumption DEF Init
<1>5. EmittedOnce
  <2>1. 1 .. Len(output) = {} /\ heap \cup (read + 1 .. Len(input)) = 1 .. Len(input)
    BY <1>4
  <2>2. QED BY <1>4, <2>1 DEF EmittedOnce, Stream!ExactlyOnce
<1>6. LeastRead
  BY <1>4 DEF LeastRead
<1>7. Stages
  BY <1>2, <1>4 DEF Stages, First
<1>8. QED BY <1>2, <1>3, <1>5, <1>6, <1>7 DEF LInv, IInv, InMemory

\* The events in memory are sorted and the first one is ready.
LEMMA LoadVectorInv == LInv /\ LoadVector => LInv'
<1>1. SUFFICES ASSUME LInv, LoadVector PROVE LInv'
  OBVIOUS
<1>2. /\ TypeOK /\ EmittedOnce /\ read = 0 /\ phase = "fill" /\ output = <<>> /\ heap = {}
      /\ ~InMemory /\ Len(input) \in Nat /\ input \in Seq(Event) /\ output \in Seq(Nat)
  <2>1. /\ TypeOK /\ EmittedOnce /\ Stages /\ stage = "build" /\ path = "memory"
    BY <1>1 DEF LInv, LoadVector
  <2>2. read = 0 /\ phase = "fill" /\ output = <<>> /\ heap = 1 .. read
    BY <2>1 DEF Stages
  <2>3. heap = {}
    BY <2>2
  <2>4. input \in Seq(Event) /\ Len(input) \in Nat
    BY <2>1 DEF TypeOK
  <2>5. QED BY <2>1, <2>2, <2>3, <2>4 DEF InMemory
<1>3. /\ read' = Len(input) /\ exhausted' = TRUE /\ phase' = "serve" /\ input' = input
      /\ meta' = meta /\ Pop(1 .. Len(input)) /\ path' = path /\ path = "memory"
      /\ stage' = "engine"
  BY <1>1 DEF LoadVector
<1>4. Pending = 1 .. Len(input)
  BY <1>2 DEF Pending
<1>5. TypeOK' /\ Flags' /\ OutputSorted' /\ EmittedOnce'
  BY <1>2, <1>3, <1>4, EmptySorted, MemoryPop
<1>6. CASE input = <<>>
  <2>1. Tops(1 .. Len(input)) = {} /\ Len(input) = 0
    BY <1>6 DEF Tops
  <2>2. output' = <<>> /\ hasOutput' = FALSE
    BY <1>2, <1>3, <2>1 DEF Pop
  <2>3. Stages'
    BY <1>3, <2>2 DEF Stages, First
  <2>4. MemoryKnown'
    BY <1>3, <1>6, <2>1 DEF MemoryKnown
  <2>5. QED BY <1>3, <1>5, <2>3, <2>4 DEF LInv, InMemory
<1>7. CASE input # <<>>
  <2>1. PICK front \in Tops(1 .. Len(input)), back \in 1 .. Len(input) :
          /\ \A j \in 1 .. Len(input) : ~Greater(input[j], input[back])
          /\ loaded' = [minTs |-> input[front].ts, maxTs |-> input[back].ts,
                        total |-> Len(input), forks |-> Forks]
    BY <1>1, <1>7 DEF LoadVector
  <2>2. loaded'.minTs = input[front].ts /\ loaded'.maxTs = input[back].ts
        /\ loaded'.forks = Forks
    BY <2>1
  <2>3. \A j \in 1 .. Len(input) : input[j] \in Event
    BY <1>2
  <2>4. \A j \in 1 .. Len(input) : input[j].ts <= loaded'.maxTs
    BY <2>1, <2>2, <2>3, NotGreaterTs
  <2>5. MemoryKnown'
    BY <1>3, <2>2, <2>4 DEF MemoryKnown, Forks
  <2>6. /\ output' # <<>> => output'[1] \in Tops(1 .. Len(input))
        /\ hasOutput' => output' # <<>>
    BY <1>2, <1>3, PopFirst
  <2>7. First(loaded.minTs)'
    <3>1. SUFFICES ASSUME output' # <<>> PROVE loaded'.minTs = input[output'[1]].ts
      BY <1>3 DEF First
    <3>2. PICK top \in Tops(1 .. Len(input)) : top = output'[1]
      BY <2>6, <3>1
    <3>3. /\ front \in 1 .. Len(input) /\ top \in 1 .. Len(input)
          /\ ~Greater(input[front], input[top]) /\ ~Greater(input[top], input[front])
      BY DEF Tops
    <3>4. input[front].ts \in Int /\ input[top].ts \in Int
          /\ input[front].ts <= input[top].ts /\ input[top].ts <= input[front].ts
      BY <2>3, <3>3, NotGreaterTs
    <3>5. QED BY <2>2, <3>2, <3>4
  <2>8. Stages'
    BY <1>3, <2>6, <2>7 DEF Stages
  <2>9. QED BY <1>3, <1>5, <2>5, <2>8 DEF LInv, InMemory
<1>8. QED BY <1>6, <1>7

\* Steps of main that leave the buffer alone.
LEMMA BufferIdle ==
  ASSUME UNCHANGED vars
  PROVE  /\ TypeOK /\ Flags /\ EmittedOnce => TypeOK' /\ Flags' /\ EmittedOnce'
         /\ WindowFull /\ LeastRead => WindowFull' /\ LeastRead'
         /\ exhausted /\ OutputSorted => exhausted' /\ OutputSorted'
         /\ UNCHANGED loaded => (MemoryKnown => MemoryKnown')
<1>1. TypeOK /\ Flags => TypeOK' /\ Flags'
  BY DEF vars, readerVars, TypeOK, Flags
<1>2. WindowFull /\ LeastRead => WindowFull' /\ LeastRead'
  BY DEF vars, readerVars, WindowFull, LeastRead
<1>3. EmittedOnce /\ OutputSorted => EmittedOnce' /\ OutputSorted'
  BY DEF vars, readerVars, EmittedOnce, Stream!ExactlyOnce, OutputSorted, Stream!Sorted
<1>4. EmittedOnce => EmittedOnce'
  BY DEF vars, readerVars, EmittedOnce, Stream!ExactlyOnce
<1>5. exhausted /\ OutputSorted => exhausted' /\ OutputSorted'
  BY DEF vars, readerVars, OutputSorted, Stream!Sorted, Stream!Greater, Stream!Priority
<1>6. UNCHANGED loaded => (MemoryKnown => MemoryKnown')
  BY DEF vars, MemoryKnown, Forks
<1>7. QED BY <1>1, <1>2, <1>4, <1>5, <1>6

\* Opening the reader, handing over, flushing, doing nothing.
LEMMA MainStepsInv ==
  ASSUME LInv, OpenReader \/ HandOver \/ Flush \/ UNCHANGED allVars
  PROVE  LInv'
<1>1. UNCHANGED vars /\ path' = path
  BY DEF OpenReader, HandOver, Flush, allVars, loadVars
<1>2. TypeOK' /\ Flags' /\ EmittedOnce'
  BY <1>1, BufferIdle DEF LInv
<1>3. /\ UNCHANGED <<read, heap, phase, output, hasOutput, input, meta>>
  BY <1>1 DEF vars, readerVars
<1>4. CASE OpenReader
  <2>1. stage = "open" /\ stage' = "build" /\ loaded' = loaded
    BY <1>4 DEF OpenReader
  <2>2. Stages'
    BY <1>1, <1>3, <2>1 DEF LInv, Stages, First
  <2>3. WindowFull' /\ LeastRead'
    BY <1>1, <2>1, BufferIdle DEF LInv, InMemory
  <2>4. QED BY <1>2, <2>1, <2>2, <2>3 DEF LInv, InMemory
<1>5. CASE HandOver
  <2>1. /\ stage = "build" /\ stage' = "engine" /\ path = "stream" /\ phase = "serve"
        /\ loaded' = meta
    BY <1>5 DEF HandOver
  <2>2. Stages'
    BY <1>1, <1>3, <2>1 DEF LInv, Stages, First
  <2>3. WindowFull' /\ LeastRead'
    BY <1>1, <2>1, BufferIdle DEF LInv, InMemory
  <2>4. QED BY <1>1, <1>2, <2>1, <2>2, <2>3 DEF LInv, InMemory
<1>6. CASE Flush
  <2>1. stage = "engine" /\ stage' = "flushed" /\ ~hasOutput /\ loaded' = loaded
    BY <1>6 DEF Flush
  <2>2. Stages'
    BY <1>1, <1>3, <2>1 DEF LInv, Stages, First
  <2>3. InMemory' <=> InMemory
    BY <1>1, <2>1 DEF InMemory
  <2>4. QED BY <1>1, <1>2, <2>1, <2>2, <2>3, BufferIdle DEF LInv
<1>7. CASE UNCHANGED allVars
  <2>1. stage' = stage /\ loaded' = loaded
    BY <1>7 DEF allVars, loadVars, mainVars
  <2>2. Stages'
    BY <1>1, <1>3, <2>1 DEF LInv, Stages, First
  <2>3. InMemory' <=> InMemory
    BY <1>1, <2>1 DEF InMemory
  <2>4. QED BY <1>1, <1>2, <2>1, <2>2, <2>3, BufferIdle DEF LInv
<1>8. QED BY <1>4, <1>5, <1>6, <1>7

\* fill_heap and the first pop, as the constructor of the iterator makes them.
LEMMA BuildStreamInv == LInv /\ BuildStream => LInv'
<1>1. SUFFICES ASSUME LInv, BuildStream PROVE LInv'
  OBVIOUS
<1>2. /\ IInv /\ EmittedOnce /\ LeastRead /\ Stages /\ ~InMemory
      /\ stage = "build" /\ path = "stream" /\ path' = path /\ stage' = stage
      /\ loaded' = loaded /\ (FillHeap \/ FirstPop)
  BY <1>1 DEF LInv, InMemory, IInv, BuildStream, mainVars
<1>3. phase = "fill" /\ output = <<>> /\ heap = 1 .. read /\ ~hasOutput
  <2>1. phase = "fill"
    BY <1>2 DEF FillHeap, FirstPop
  <2>2. QED BY <1>2, <2>1 DEF Stages, IInv, Flags
<1>4. CASE FillHeap
  <2>1. IInv'
    BY <1>2, <1>4, FillPreserves
  <2>2. EmittedOnce'
    <3>1. UNCHANGED Stream!vars
      BY <1>2, <1>4, FillIsStutter
    <3>2. QED BY <1>2, <3>1 DEF EmittedOnce, Stream!ExactlyOnce, Stream!vars
  <2>3. /\ input' = input /\ output' = output /\ phase' = phase /\ hasOutput' = hasOutput
        /\ ReadOne \/ UNCHANGED readerVars
    BY <1>4 DEF FillHeap, ReaderAtEnd
  <2>4. LeastRead'
    BY <1>2, <2>3, ReadKeepsLeast DEF IInv
  <2>5. heap' = 1 .. read'
    <3>1. read \in Nat
      BY <1>2 DEF IInv, TypeOK
    <3>2. CASE ReadOne /\ heap' = heap \cup {read'}
      <4>1. read' = read + 1
        BY <3>2 DEF ReadOne
      <4>2. QED BY <1>3, <3>1, <3>2, <4>1
    <3>3. CASE ReaderAtEnd /\ UNCHANGED heap
      BY <1>3, <3>3 DEF ReaderAtEnd, readerVars
    <3>4. QED BY <1>4, <3>2, <3>3 DEF FillHeap
  <2>6. Stages'
    BY <1>2, <1>3, <2>3, <2>5 DEF Stages, First
  <2>7. QED BY <1>2, <2>1, <2>2, <2>4, <2>6 DEF LInv, InMemory, IInv
<1>5. CASE FirstPop
  <2>1. IInv'
    BY <1>2, <1>5, PopCalls, PopPreserves
  <2>2. EmittedOnce'
    BY <1>2, <1>5, PopEmitsOnce
  <2>3. First(meta.minTs)' /\ LeastRead' /\ (hasOutput' => output' # <<>>)
    BY <1>2, <1>3, <1>5, FirstPopIsLeast
  <2>4. phase' = "serve"
    BY <1>5 DEF FirstPop
  <2>5. Stages'
    BY <1>2, <2>3, <2>4 DEF Stages
  <2>6. QED BY <1>2, <2>1, <2>2, <2>3, <2>5 DEF LInv, InMemory, IInv
<1>6. QED BY <1>2, <1>4, <1>5

\* What the consumer keeps of where main is, once it has popped the heap h.
LEMMA ConsumeStages ==
  ASSUME LInv, Consume, NEW h, Pop(h)
  PROVE  Stages'
<1>1. /\ TypeOK /\ Stages /\ stage = "engine" /\ stage' = stage /\ loaded' = loaded
      /\ hasOutput /\ input' = input /\ phase' = phase
  BY DEF LInv, Consume, Advance, mainVars
<1>2. phase = "serve" /\ First(loaded.minTs) /\ output # <<>>
  BY <1>1 DEF Stages
<1>3. output \in Seq(Nat)
  BY <1>1 DEF TypeOK
<1>4. output' # <<>> /\ output'[1] = output[1]
  BY <1>2, <1>3, PopFirst
<1>5. QED BY <1>1, <1>2, <1>4 DEF Stages, First

\* The engine takes an event: from the sorted vector, or from the buffer, which reads ahead.
LEMMA ConsumeInv == LInv /\ Consume => LInv'
<1>1. SUFFICES ASSUME LInv, Consume PROVE LInv'
  OBVIOUS
<1>2. /\ TypeOK /\ Flags /\ EmittedOnce /\ Stages /\ Advance /\ PopNext
      /\ stage = "engine" /\ path' = path /\ stage' = stage /\ loaded' = loaded
      /\ hasOutput /\ input' = input /\ phase' = phase /\ phase = "serve"
  BY <1>1 DEF LInv, Consume, Advance, mainVars
<1>3. InMemory' <=> InMemory
  BY <1>2 DEF InMemory
<1>4. CASE InMemory
  <2>1. exhausted /\ OutputSorted /\ MemoryKnown
    BY <1>1, <1>4 DEF LInv
  <2>2. read = Len(input) /\ Len(input) \in Nat
    BY <1>2, <2>1 DEF Flags, TypeOK
  <2>3. Pop(heap) /\ exhausted' = exhausted /\ read' = read /\ meta' = meta
    BY <1>2, <2>1 DEF PopNext, readerVars
  <2>4. heap = Pending
    <3>1. read + 1 .. Len(input) = {}
      BY <2>2
    <3>2. QED BY <3>1 DEF Pending
  <2>5. PICK h : h = heap /\ Pop(h)
    BY <2>3
  <2>6. Pop(Pending)
    BY <2>4, <2>5
  <2>7. TypeOK' /\ Flags' /\ OutputSorted' /\ EmittedOnce'
    BY <1>2, <2>1, <2>2, <2>3, <2>6, MemoryPop
  <2>8. Stages'
    BY <1>1, <2>3, ConsumeStages
  <2>9. MemoryKnown'
    BY <1>2, <2>1 DEF MemoryKnown, Forks
  <2>10. QED BY <1>3, <1>4, <2>1, <2>3, <2>7, <2>8, <2>9 DEF LInv
<1>5. CASE ~InMemory
  <2>1. IInv /\ LeastRead
    BY <1>1, <1>5 DEF LInv, IInv
  <2>2. IInv'
    BY <1>2, <2>1, PopCalls, PopPreserves
  <2>3. EmittedOnce'
    BY <1>2, <2>1, PopEmitsOnce
  <2>4. ReadOne \/ UNCHANGED readerVars
    BY <1>2 DEF PopNext, ReaderAtEnd
  <2>5. LeastRead'
    BY <1>2, <2>1, <2>4, ReadKeepsLeast DEF IInv
  <2>6. PICK h \in SUBSET Nat : Refilled(h)
    BY <1>2, <2>1, PopCalls
  <2>7. Stages'
    BY <1>1, <2>6, ConsumeStages DEF Refilled
  <2>8. QED BY <1>3, <1>5, <2>2, <2>3, <2>5, <2>7 DEF LInv, IInv
<1>6. QED BY <1>4, <1>5

\* The invariant survives every step of main.
LEMMA LoadNextInv == LInv /\ [LoadNext]_allVars => LInv'
BY MainStepsInv, LoadVectorInv, BuildStreamInv, ConsumeInv DEF LoadNext

\* It holds of whatever file is loaded, in either way.
LEMMA LoadInvariant == LoadSpec => []LInv
BY LoadInitInv, LoadNextInv, PTL DEF LoadSpec

-----------------------------------------------------------------------------
\* Both ways of loading put the start of the trace, which the clock alignment takes for
\* perf's first timestamp, at the first event the engine is handed, however disordered
\* the file: the first pop takes its event out of everything read so far.
THEOREM LoadStart == LoadSpec => []StartIsFirstEvent
<1>1. LInv => StartIsFirstEvent
  BY DEF LInv, Stages, First, StartIsFirstEvent
<1>2. QED BY <1>1, LoadInvariant, PTL

\* Through either way of loading the engine is handed each event of the file once.
THEOREM LoadEmitsOnce == LoadSpec => []EmittedOnce
<1>1. LInv => EmittedOnce
  BY DEF LInv
<1>2. QED BY <1>1, LoadInvariant, PTL

\* Handed over in order, the last event is a latest one once nothing is pending.
LEMMA LastIsLatest ==
  ASSUME TypeOK, OutputSorted, EmittedOnce, MemoryKnown, Flags, stage = "flushed",
         Stages, exhausted, output # <<>>
  PROVE  loaded.maxTs = input[output[Len(output)]].ts
<1>1. /\ Len(output) \in Nat /\ Len(output) \in 1 .. Len(output) /\ Len(input) \in Nat
      /\ \A n \in 1 .. Len(output) : output[n] \in 1 .. Len(input)
      /\ input \in Seq(Event) /\ read = Len(input)
  <2>1. /\ read \in 0 .. Len(input) /\ Len(input) \in Nat /\ input \in Seq(Event)
        /\ output \in Seq(1 .. read) /\ read = Len(input)
    BY DEF TypeOK, Flags
  <2>2. Len(output) \in Nat /\ Len(output) # 0
    BY <2>1
  <2>3. QED BY <2>1, <2>2
<1>2. phase = "serve" /\ ~hasOutput /\ heap = {}
  BY DEF Stages, Flags
<1>3. {output[m] : m \in 1 .. Len(output)} = 1 .. Len(input)
  <2>1. heap \cup (read + 1 .. Len(input)) = {}
    BY <1>1, <1>2
  <2>2. QED BY <2>1 DEF EmittedOnce, Stream!ExactlyOnce
<1> DEFINE last == output[Len(output)]
<1>4. input # <<>>
  BY <1>1
<1>5. PICK i \in 1 .. Len(input) : input[i].ts = loaded.maxTs
  BY <1>4 DEF MemoryKnown
<1>6. PICK m \in 1 .. Len(output) : output[m] = i
  BY <1>3
<1>7. input[last].ts <= loaded.maxTs
  BY <1>1 DEF MemoryKnown
<1>8. input[i].ts <= input[last].ts
  <2>1. CASE m = Len(output)
    <3>1. input[i] \in Event
      BY <1>1
    <3>2. input[i].ts \in Int
      BY <3>1, TsMaxAssumption DEF Event
    <3>3. QED BY <1>6, <2>1, <3>2
  <2>2. CASE m # Len(output)
    <3>1. ~Greater(input[output[m]], input[last])
      BY <1>1, <2>2, SameOrder DEF OutputSorted, Stream!Sorted
    <3>2. input[i] \in Event /\ input[last] \in Event
      BY <1>1
    <3>3. QED BY <1>6, <3>1, <3>2, NotGreaterTs
  <2>3. QED BY <2>1, <2>2
<1>9. input[i].ts \in Int /\ input[last].ts \in Int
  <2>1. input[i] \in Event /\ input[last] \in Event
    BY <1>1
  <2>2. QED BY <2>1, TsMaxAssumption DEF Event
<1>10. QED BY <1>5, <1>7, <1>8, <1>9

\* A file that is loaded into memory reaches the engine sorted, whatever its disorder
\* (no capacity bounds it), with the child of every fork known beforehand, and open spans
\* are flushed at its last event.
THEOREM MemoryLoad == LoadSpec => []MemoryLoadExact
<1>1. LInv => MemoryLoadExact
  <2> SUFFICES ASSUME LInv, path = "memory"
               PROVE  OutputSorted /\ ForksKnown /\ FlushAtLastEvent
    BY DEF MemoryLoadExact
  <2>1. TypeOK /\ Flags /\ EmittedOnce /\ Stages
    BY DEF LInv
  <2>2. CASE ~InMemory
    <3>1. stage \in {"open", "build"}
      BY <2>1, <2>2 DEF InMemory, Stages
    <3>2. phase = "fill" /\ output = <<>>
      BY <2>1, <3>1 DEF Stages
    <3>3. QED BY <3>1, <3>2, EmptySorted DEF ForksKnown, FlushAtLastEvent
  <2>3. CASE InMemory
    <3>1. exhausted /\ OutputSorted /\ MemoryKnown
      BY <2>3 DEF LInv
    <3>2. FlushAtLastEvent
      BY <2>1, <3>1, LastIsLatest DEF FlushAtLastEvent
    <3>3. ForksKnown
      <4> SUFFICES ASSUME NEW n \in 1 .. Len(output), input[output[n]].kind = "fork"
                   PROVE  output[n] \in loaded.forks
        BY DEF ForksKnown
      <4>1. read \in 0 .. Len(input) /\ Len(input) \in Nat /\ output \in Seq(1 .. read)
        BY <2>1 DEF TypeOK
      <4>2. output[n] \in 1 .. read
        BY <4>1
      <4>3. output[n] \in 1 .. Len(input) /\ Len(input) # 0
        BY <4>1, <4>2
      <4>4. input # <<>>
        BY <4>3
      <4>5. QED BY <3>1, <4>3, <4>4 DEF MemoryKnown, Forks
    <3>4. QED BY <3>1, <3>2, <3>3
  <2>4. QED BY <2>2, <2>3
<1>2. QED BY <1>1, LoadInvariant, PTL

-----------------------------------------------------------------------------
(* What the reader has returned so far. *)

\* The events es are those of the first n records of file f that are events.
Returned(f, h, es, n) ==
  /\ es = [i \in 1 .. n |-> es[i]]
  /\ \A i \in 1 .. n : Delivered(f, h, es[i], Nth(Good(f), i))

\* Events without a thread in their data show none.
NoThread(f, es, n) ==
  \A i \in 1 .. n : ~HasArg(f, f.records[Nth(Good(f), i)]) => es[i].arg = 0

\* The cursor is behind the records that have been returned, and what the buffer is going
\* to see are the events of the file.
ReadInv ==
  /\ file \in Files /\ path \in Paths /\ header = Parsed(file)
  /\ input = Ordered(AllEvents(file, header))
  /\ IsPerfEvent(scratch)
  /\ cursor \in Nat /\ cursor >= 1 /\ cursor <= Stop(file)
  /\ read = Rank(Good(file), cursor - 1)
  /\ Returned(file, header, events, read)
  /\ path = "memory" => NoThread(file, events, read)
  /\ InMemory => commMap = RecordedNames(file)

\* Appending keeps the elements of a sequence.
LEMMA AppendIs ==
  ASSUME NEW n \in Nat, NEW es, es = [i \in 1 .. n |-> es[i]], NEW e,
         NEW fs, fs = Append(es, e)
  PROVE  /\ fs = [i \in 1 .. n + 1 |-> fs[i]]
         /\ \A i \in 1 .. n : fs[i] = es[i]
         /\ fs[n + 1] = e
<1> DEFINE S == {es[i] : i \in 1 .. n} \cup {e}
<1>1. es \in Seq(S) /\ e \in S /\ Len(es) = n
  <2>1. \A i \in 1 .. n : es[i] \in S
    OBVIOUS
  <2> HIDE DEF S
  <2>2. es \in [1 .. n -> S]
    BY <2>1
  <2>3. es \in Seq(S) /\ Len(es) = n
    BY <2>2
  <2>4. QED BY <2>3 DEF S
<1> HIDE DEF S
<1>2. /\ fs \in Seq(S) /\ Len(fs) = n + 1
      /\ \A i \in 1 .. n : fs[i] = es[i]
      /\ fs[n + 1] = e
  BY <1>1, AppendProperties
<1>3. fs = [i \in 1 .. n + 1 |-> fs[i]]
  <2>1. fs \in [1 .. Len(fs) -> S]
    BY <1>2, LenProperties
  <2>2. QED BY <1>2, <2>1
<1>4. QED BY <1>2, <1>3

\* The buffer will see as many events as were recorded, each with its time and kind.
LEMMA InputIs ==
  ASSUME NEW f \in Files, NEW h, h = Parsed(f), NEW s, s = Ordered(AllEvents(f, h))
  PROVE  /\ Cardinality(Good(f)) \in Nat /\ Len(s) = Cardinality(Good(f))
         /\ s = [i \in 1 .. Cardinality(Good(f)) |->
                   [ts |-> AllEvents(f, h)[i].ts, kind |-> OrderKind(AllEvents(f, h)[i].kind)]]
<1>1. PICK es : es = AllEvents(f, h)
  OBVIOUS
<1>2. PICK n \in Nat : n = Cardinality(Good(f))
  <2>1. PICK m \in Nat : Good(f) \in SUBSET (1 .. m)
    BY GoodIs
  <2>2. QED BY <2>1, RankIs
<1>3. es = [i \in 1 .. n |-> es[i]]
  BY <1>1, <1>2, AllEventsAre DEF AllOf
<1>4. DOMAIN es = 1 .. n
  BY <1>3
<1>5. s = [i \in 1 .. n |-> [ts |-> es[i].ts, kind |-> OrderKind(es[i].kind)]]
  BY <1>1, <1>4 DEF Ordered
<1>6. Len(s) = n
  BY <1>5
<1>7. QED BY <1>1, <1>2, <1>5, <1>6

\* Events of the same record are alike in time and kind.
LEMMA DeliveredAlike ==
  ASSUME NEW f, NEW h, NEW k, NEW d, NEW e, Delivered(f, h, d, k), Delivered(f, h, e, k)
  PROVE  d.ts = e.ts /\ d.kind = e.kind
BY DEF Delivered

\* One call of next_event, for one event the buffer reads or for the end of the file.
LEMMA ReaderNextInv ==
  ASSUME ReadInv, NEW out, IsPerfEvent(out), ReaderNext(out),
         ReadOne \/ ReaderAtEnd,
         path # "memory", UNCHANGED <<file, path, header, input>>, IsPerfEvent(scratch')
  PROVE  ReadInv'
<1>1. PICK next : next = NextEvent(file, header, cursor, out, names)
  OBVIOUS
<1>2. /\ file \in Files /\ header = Parsed(file) /\ input = Ordered(AllEvents(file, header))
      /\ cursor \in Nat /\ cursor >= 1 /\ cursor <= Stop(file)
      /\ read = Rank(Good(file), cursor - 1)
  BY DEF ReadInv
<1>3. NextIs(file, header, cursor, next)
  BY <1>1, <1>2, NextEventIs
<1>4. cursor' = next.cursor /\ events' = IF next.found THEN Append(events, next.event) ELSE events
  BY <1>1 DEF ReaderNext
<1>5. PICK n \in Nat : n = Cardinality(Good(file)) /\ Len(input) = n
  BY <1>2, InputIs
<1>6. cursor' \in Nat /\ cursor' >= 1 /\ cursor' <= Stop(file)
  BY <1>3, <1>4 DEF NextIs
<1>7. CASE next.found
  <2>1. /\ read + 1 \in 1 .. n
        /\ Rank(Good(file), cursor' - 1) = read + 1
        /\ Delivered(file, header, next.event, Nth(Good(file), read + 1))
    BY <1>2, <1>3, <1>4, <1>5, <1>7 DEF NextIs
  <2>2. read \in Nat
    <3>1. PICK m \in Nat : Good(file) \in SUBSET (1 .. m)
      BY <1>2, GoodIs
    <3>2. cursor - 1 \in Nat
      BY <1>2
    <3>3. QED BY <1>2, <3>1, <3>2, RankIs
  <2>3. read' = read + 1
    <3>1. read # Len(input)
      BY <1>5, <2>1, <2>2
    <3>2. QED BY <3>1 DEF ReadOne, ReaderAtEnd
  <2>4. Returned(file, header, events, read)
    BY DEF ReadInv
  <2>5. PICK es, e, fs : es = events /\ e = next.event /\ fs = events'
    OBVIOUS
  <2>6. fs = Append(es, e)
    BY <1>4, <1>7, <2>5
  <2>7. es = [i \in 1 .. read |-> es[i]]
    BY <2>4, <2>5 DEF Returned
  <2>8. /\ fs = [i \in 1 .. read + 1 |-> fs[i]]
        /\ \A i \in 1 .. read : fs[i] = es[i]
        /\ fs[read + 1] = e
    BY <2>2, <2>6, <2>7, AppendIs
  <2>9. ASSUME NEW i \in 1 .. read + 1
        PROVE  Delivered(file, header, fs[i], Nth(Good(file), i))
    <3>1. CASE i \in 1 .. read
      BY <2>4, <2>5, <2>8, <3>1 DEF Returned
    <3>2. CASE i = read + 1
      BY <2>1, <2>5, <2>8, <3>2
    <3>3. QED BY <2>2, <3>1, <3>2
  <2>10. Returned(file, header, fs, read + 1)
    BY <2>8, <2>9 DEF Returned
  <2>11. Returned(file, header, events', read')
    BY <2>3, <2>5, <2>10
  <2>12. read' = Rank(Good(file), cursor' - 1)
    BY <2>1, <2>3
  <2>13. QED BY <1>6, <2>11, <2>12 DEF ReadInv, InMemory
<1>8. CASE ~next.found
  <2>1. /\ read = n /\ Rank(Good(file), cursor' - 1) = n
    BY <1>2, <1>3, <1>4, <1>5, <1>8 DEF NextIs
  <2>2. read' = read
    BY <1>5, <2>1 DEF ReadOne, ReaderAtEnd, readerVars
  <2>3. events' = events
    BY <1>4, <1>8
  <2>4. Returned(file, header, events', read')
    BY <2>2, <2>3 DEF ReadInv
  <2>5. read' = Rank(Good(file), cursor' - 1)
    BY <2>1, <2>2
  <2>6. QED BY <1>6, <2>4, <2>5 DEF ReadInv, InMemory
<1>9. next.found \in BOOLEAN
  BY <1>3 DEF NextIs
<1>10. QED BY <1>7, <1>8, <1>9

\* Nothing has been read and the names are not known yet.
LEMMA ReadInitInv == LoadInit => ReadInv
<1>1. SUFFICES ASSUME LoadInit PROVE ReadInv
  OBVIOUS
<1>2. /\ file \in Files /\ path \in Paths /\ header = Parsed(file)
      /\ input = Ordered(AllEvents(file, header)) /\ cursor = 1 /\ scratch = Fresh
      /\ events = <<>> /\ stage = "open" /\ read = 0
  BY <1>1 DEF LoadInit, Init
<1>3. IsPerfEvent(scratch)
  BY <1>2, FreshIs
<1>4. cursor \in Nat /\ cursor >= 1 /\ cursor <= Stop(file) /\ cursor - 1 = 0
  BY <1>2, StopIs
<1>5. read = Rank(Good(file), cursor - 1)
  <2>1. PICK m \in Nat : Good(file) \in SUBSET (1 .. m)
    BY <1>2, GoodIs
  <2>2. Rank(Good(file), 0) = 0
    BY <2>1, RankIs
  <2>3. QED BY <1>2, <1>4, <2>2
<1>6. Returned(file, header, events, read)
  BY <1>2 DEF Returned
<1>7. NoThread(file, events, read)
  BY <1>2 DEF NoThread
<1>8. QED BY <1>2, <1>3, <1>4, <1>5, <1>6, <1>7 DEF ReadInv, InMemory

\* read_all_events leaves the cursor at the end, with every event and every name.
LEMMA ReadAllInv == LInv /\ ReadInv /\ LoadVector => ReadInv'
<1>1. SUFFICES ASSUME LInv, ReadInv, LoadVector PROVE ReadInv'
  OBVIOUS
<1>2. /\ file \in Files /\ path \in Paths /\ header = Parsed(file)
      /\ input = Ordered(AllEvents(file, header)) /\ IsPerfEvent(scratch)
  BY <1>1 DEF ReadInv
<1>3. /\ read' = Len(input) /\ events' = AllEvents(file, header)
      /\ commMap' = AllNames(file, header) /\ cursor' = Stop(file)
      /\ UNCHANGED <<input, file, path, header, scratch>>
  BY <1>1 DEF LoadVector
<1>4. cursor' \in Nat /\ cursor' >= 1 /\ cursor' <= Stop(file)
  BY <1>2, <1>3, StopIs
<1>5. PICK n \in Nat : n = Cardinality(Good(file)) /\ read' = n
  BY <1>2, <1>3, InputIs
<1>6. read' = Rank(Good(file), cursor' - 1)
  <2>1. PICK m \in Nat : m = Stop(file) - 1 /\ Good(file) \in SUBSET (1 .. m)
    BY <1>2, GoodIs
  <2>2. Rank(Good(file), m) = Cardinality(Good(file))
    BY <2>1, RankIs
  <2>3. QED BY <1>3, <1>5, <2>1, <2>2
<1>7. AllOf(file, header, events')
  BY <1>2, <1>3, AllEventsAre
<1>8. Returned(file, header, events', read') /\ NoThread(file, events', read')
  BY <1>5, <1>7 DEF AllOf, Returned, NoThread
<1>9. commMap' = RecordedNames(file)
  BY <1>2, <1>3, AllNamesAre
<1>10. QED BY <1>2, <1>3, <1>4, <1>6, <1>8, <1>9 DEF ReadInv

\* The reader stands still.
LEMMA ReaderIdle ==
  ASSUME ReadInv, UNCHANGED <<file, path, header, input, read, cursor, scratch, events>>,
         InMemory' => InMemory, InMemory => commMap' = commMap
  PROVE  ReadInv'
BY DEF ReadInv

\* The calls of next_event while the buffer is built and emptied.
LEMMA StreamReadInv ==
  ASSUME LInv, ReadInv, BuildStream \/ Consume
  PROVE  ReadInv'
<1>1. UNCHANGED <<file, path, header, input>> /\ commMap' = commMap /\ stage' = stage
  BY DEF BuildStream, Consume, mainVars, FillHeap, FirstPop, Advance
<1>2. IsPerfEvent(scratch) /\ IsPerfEvent(Fresh)
  BY FreshIs DEF ReadInv
<1>3. CASE BuildStream /\ FillHeap
  <2>1. /\ path = "stream" /\ ReaderNext(scratch)
        /\ scratch' = NextEvent(file, header, cursor, scratch, names).event
    BY <1>3 DEF BuildStream, FillHeap, FirstPop, FillMore
  <2>2. ReadOne \/ ReaderAtEnd
    BY <1>3 DEF FillHeap
  <2>3. PICK next : next = NextEvent(file, header, cursor, scratch, names)
    OBVIOUS
  <2>4. NextIs(file, header, cursor, next)
    BY <1>2, <2>3, NextEventIs DEF ReadInv
  <2>5. IsPerfEvent(scratch')
    BY <2>1, <2>3, <2>4 DEF NextIs
  <2>6. QED BY <1>1, <1>2, <2>1, <2>2, <2>5, ReaderNextInv
<1>4. ASSUME FirstPop \/ Advance,
             IF exhausted THEN UNCHANGED readingVars ELSE ReaderNext(Fresh) /\ UNCHANGED scratch,
             ~exhausted => path # "memory"
      PROVE  ReadInv'
  <2>1. PopNext
    BY <1>4 DEF FirstPop, Advance
  <2>2. CASE exhausted
    <3>1. UNCHANGED <<read, cursor, scratch, events>>
      BY <1>4, <2>1, <2>2 DEF PopNext, readerVars, readingVars
    <3>2. InMemory' <=> InMemory
      BY <1>1 DEF InMemory
    <3>3. QED BY <1>1, <3>1, <3>2, ReaderIdle
  <2>3. CASE ~exhausted
    <3>1. ReaderNext(Fresh) /\ scratch' = scratch /\ path # "memory"
      BY <1>4, <2>3
    <3>2. ReadOne \/ ReaderAtEnd
      BY <2>1, <2>3 DEF PopNext
    <3>3. IsPerfEvent(scratch')
      BY <1>2, <3>1
    <3>4. QED BY <1>1, <1>2, <3>1, <3>2, <3>3, ReaderNextInv
  <2>4. QED BY <2>2, <2>3
<1>5. CASE BuildStream /\ ~FillHeap
  <2>1. /\ FirstPop /\ path # "memory"
        /\ IF exhausted THEN UNCHANGED readingVars
                        ELSE ReaderNext(Fresh) /\ UNCHANGED scratch
    BY <1>5 DEF BuildStream
  <2>2. QED BY <1>4, <2>1
<1>6. CASE Consume
  <2>1. /\ Advance /\ stage = "engine"
        /\ IF exhausted THEN UNCHANGED readingVars
                        ELSE ReaderNext(Fresh) /\ UNCHANGED scratch
    BY <1>6 DEF Consume
  <2>2. ~exhausted => path # "memory"
    BY <2>1 DEF LInv, InMemory
  <2>3. QED BY <1>4, <2>1, <2>2
<1>7. QED BY <1>3, <1>5, <1>6

\* The invariant of the reader survives every step of main.
LEMMA ReadNextInv == LInv /\ ReadInv /\ [LoadNext]_allVars => ReadInv'
<1>1. SUFFICES ASSUME LInv, ReadInv, [LoadNext]_allVars PROVE ReadInv'
  OBVIOUS
<1>2. CASE LoadVector
  BY <1>1, <1>2, ReadAllInv
<1>3. CASE BuildStream \/ Consume
  BY <1>1, <1>3, StreamReadInv
<1>4. CASE OpenReader \/ HandOver \/ Flush \/ UNCHANGED allVars
  <2>1. UNCHANGED <<file, path, header, input, read, cursor, scratch, events>>
    BY <1>4 DEF OpenReader, HandOver, Flush, allVars, loadVars, vars, readerVars, readingVars
  <2>2. InMemory' => InMemory
    BY <1>4 DEF OpenReader, HandOver, Flush, allVars, loadVars, mainVars, InMemory
  <2>3. InMemory => commMap' = commMap
    BY <1>4 DEF OpenReader, HandOver, Flush, allVars, loadVars, mainVars, InMemory
  <2>4. QED BY <1>1, <2>1, <2>2, <2>3, ReaderIdle
<1>5. QED BY <1>1, <1>2, <1>3, <1>4 DEF LoadNext

\* It holds of whatever file is loaded, in either way.
LEMMA ReadInvariant == LoadSpec => []ReadInv
BY ReadInitInv, ReadNextInv, LoadInvariant, PTL DEF LoadSpec

\* What was recorded, event by event.
LEMMA RecordedIs ==
  ASSUME NEW f \in Files, NEW n, n = Cardinality(Good(f))
  PROVE  Recorded(f) = [i \in 1 .. n |-> f.records[Nth(Good(f), i)]]
BY DEF Recorded, Good

\* The reader returns what was recorded, whichever way the file is loaded: the events in
\* their order and each once, with their time, thread and, where the file names its
\* attributes, their kind and data.
THEOREM ReaderIsExact == LoadSpec => []ReaderDelivers
<1>1. LInv /\ ReadInv => ReaderDelivers
  <2> SUFFICES ASSUME LInv, ReadInv PROVE ReaderDelivers
    OBVIOUS
  <2>1. /\ file \in Files /\ header = Parsed(file)
        /\ input = Ordered(AllEvents(file, header))
        /\ Returned(file, header, events, read)
    BY DEF ReadInv
  <2>2. PICK n \in Nat : /\ n = Cardinality(Good(file)) /\ Len(input) = n
                         /\ input = [i \in 1 .. n |->
                                       [ts |-> AllEvents(file, header)[i].ts,
                                        kind |-> OrderKind(AllEvents(file, header)[i].kind)]]
    BY <2>1, InputIs
  <2>3. PICK whole : whole = Recorded(file)
    OBVIOUS
  <2>4. whole = [i \in 1 .. n |-> file.records[Nth(Good(file), i)]]
    BY <2>1, <2>2, <2>3, RecordedIs
  <2>5. Len(whole) = n
    BY <2>4
  <2>6. read \in Nat /\ read <= n
    BY <2>2 DEF LInv, TypeOK
  <2>7. DOMAIN events = 1 .. read
    BY <2>1 DEF Returned
  <2>8. ASSUME NEW k \in DOMAIN events
        PROVE  /\ events[k].ts = whole[k].ts /\ events[k].tid = whole[k].tid
               /\ file.desc => /\ events[k].kind = KindOf(file, whole[k])
                               /\ HasArg(file, whole[k]) => events[k].arg = whole[k].arg
    <3>1. k \in 1 .. read /\ k \in 1 .. n
      BY <2>6, <2>7
    <3>2. PICK r : r = whole[k]
      OBVIOUS
    <3>3. r = file.records[Nth(Good(file), k)]
      BY <2>4, <3>1, <3>2
    <3>4. Delivered(file, header, events[k], Nth(Good(file), k))
      BY <2>1, <3>1 DEF Returned
    <3>5. /\ events[k].ts = r.ts /\ events[k].tid = r.tid
          /\ file.desc => events[k].kind = KindOf(file, r)
      BY <3>3, <3>4 DEF Delivered
    <3>6. ASSUME file.desc
          PROVE  HasArg(file, r) => events[k].arg = r.arg
      BY <3>3, <3>4, <3>6 DEF Delivered
    <3>7. QED BY <3>2, <3>5, <3>6
  <2>9. Ordered(events) = SubSeq(input, 1, read)
    <3>1. AllOf(file, header, AllEvents(file, header))
      BY <2>1, AllEventsAre
    <3>2. PICK all : all = AllEvents(file, header)
      OBVIOUS
    <3>3. \A i \in 1 .. read : all[i].ts = events[i].ts /\ all[i].kind = events[i].kind
      <4> TAKE i \in 1 .. read
      <4>1. PICK k : k = Nth(Good(file), i)
        OBVIOUS
      <4>2. i \in 1 .. n
        BY <2>6
      <4>3. Delivered(file, header, all[i], k)
        BY <2>2, <3>1, <3>2, <4>1, <4>2 DEF AllOf
      <4>4. Delivered(file, header, events[i], k)
        BY <2>1, <4>1 DEF Returned
      <4>5. QED BY <4>3, <4>4, DeliveredAlike
    <3>4. Ordered(events) = [i \in 1 .. read |->
                               [ts |-> events[i].ts, kind |-> OrderKind(events[i].kind)]]
      BY <2>7 DEF Ordered
    <3>5. \A i \in 1 .. read :
            input[i] = [ts |-> events[i].ts, kind |-> OrderKind(events[i].kind)]
      <4> TAKE i \in 1 .. read
      <4>1. i \in 1 .. n
        BY <2>6
      <4>2. input[i] = [ts |-> all[i].ts, kind |-> OrderKind(all[i].kind)]
        BY <2>2, <3>2, <4>1
      <4>3. QED BY <3>3, <4>2
    <3>6. SubSeq(input, 1, read) = [i \in 1 .. read |-> input[i]]
      BY <2>2, <2>6
    <3>7. QED BY <3>4, <3>5, <3>6
  <2>10. QED BY <2>2, <2>3, <2>5, <2>8, <2>9 DEF ReaderDelivers
<1>2. QED BY <1>1, LoadInvariant, ReadInvariant, PTL

\* Of a file that is loaded into memory main knows the last name of every thread before
\* the engine sees its first event, and no event shows another's thread.
THEOREM MemoryLoadsAll == LoadSpec => []MemoryLoadWhole
<1>1. LInv /\ ReadInv => MemoryLoadWhole
  <2> SUFFICES ASSUME LInv, ReadInv, path = "memory"
               PROVE  NamesCaptured /\ OwnData
    BY DEF MemoryLoadWhole
  <2>1. NamesCaptured
    BY DEF NamesCaptured, ReadInv, InMemory
  <2>2. /\ file \in Files /\ Returned(file, header, events, read)
        /\ NoThread(file, events, read)
    BY DEF ReadInv
  <2>3. PICK n \in Nat : n = Cardinality(Good(file)) /\ Len(input) = n
    BY InputIs DEF ReadInv
  <2>4. read \in Nat /\ read <= n
    BY <2>3 DEF LInv, TypeOK
  <2>5. Recorded(file) = [i \in 1 .. n |-> file.records[Nth(Good(file), i)]]
    BY <2>2, <2>3, RecordedIs
  <2>6. DOMAIN events = 1 .. read
    BY <2>2 DEF Returned
  <2>7. ASSUME NEW k \in DOMAIN events, ~HasArg(file, Recorded(file)[k])
        PROVE  events[k].arg = 0
    <3>1. k \in 1 .. read /\ k \in 1 .. n
      BY <2>4, <2>6
    <3>2. Recorded(file)[k] = file.records[Nth(Good(file), k)]
      BY <2>5, <3>1
    <3>3. QED BY <2>2, <2>7, <3>1, <3>2 DEF NoThread
  <2>8. QED BY <2>1, <2>7 DEF OwnData
<1>2. QED BY <1>1, LoadInvariant, ReadInvariant, PTL

-----------------------------------------------------------------------------
\* What main and the buffer say of the file is about its own events.
Known ==
  /\ loaded.minTs \in 0 .. TsMax /\ loaded.maxTs \in 0 .. TsMax
  /\ loaded.forks \subseteq Forks /\ meta.forks \subseteq Forks

\* track_metadata adds a fork where it reads one.
LEMMA ForkTracked ==
  ASSUME TypeOK, meta.forks \subseteq Forks, input' = input, ReadOne \/ UNCHANGED readerVars
  PROVE  meta'.forks \subseteq Forks'
<1>1. Forks' = Forks
  BY DEF Forks
<1>2. CASE UNCHANGED readerVars
  BY <1>1, <1>2 DEF readerVars
<1>3. CASE ReadOne
  <2>1. read + 1 \in 1 .. Len(input)
    BY <1>3 DEF TypeOK, ReadOne
  <2>2. meta'.forks = IF input[read + 1].kind = "fork" THEN meta.forks \cup {read + 1}
                                                       ELSE meta.forks
    BY <1>3 DEF ReadOne, TrackMetadata
  <2>3. QED BY <1>1, <2>1, <2>2 DEF Forks
<1>4. QED BY <1>2, <1>3

\* Known survives every step of main.
LEMMA KnownNext == LInv /\ Known /\ [LoadNext]_allVars => Known'
<1>1. SUFFICES ASSUME LInv, Known, [LoadNext]_allVars PROVE Known'
  OBVIOUS
<1>2. TypeOK /\ input' = input
  BY <1>1 DEF LInv, LoadNext, OpenReader, LoadVector, BuildStream, HandOver, Consume, Flush,
              FillHeap, FirstPop, Advance, allVars, vars
<1>3. Forks' = Forks
  BY <1>2 DEF Forks
<1>4. CASE LoadVector
  <2>1. meta' = meta
    BY <1>4 DEF LoadVector
  <2>2. CASE loaded' = loaded
    BY <1>1, <1>3, <2>1, <2>2 DEF Known
  <2>3. CASE loaded' # loaded
    <3>1. PICK front \in Tops(1 .. Len(input)), back \in 1 .. Len(input) :
            loaded' = [minTs |-> input[front].ts, maxTs |-> input[back].ts,
                       total |-> Len(input), forks |-> Forks]
      BY <1>4, <2>3 DEF LoadVector
    <3>2. input[front] \in Event /\ input[back] \in Event
      BY <1>2 DEF Tops, TypeOK
    <3>3. input[front].ts \in 0 .. TsMax /\ input[back].ts \in 0 .. TsMax
      BY <3>2 DEF Event
    <3>4. QED BY <1>1, <1>3, <2>1, <3>1, <3>3 DEF Known
  <2>4. QED BY <2>2, <2>3
<1>5. CASE BuildStream \/ Consume
  <2>1. loaded' = loaded /\ (ReadOne \/ UNCHANGED readerVars)
    BY <1>5 DEF BuildStream, Consume, mainVars, FillHeap, FirstPop, Advance, PopNext, ReaderAtEnd
  <2>2. meta'.forks \subseteq Forks'
    BY <1>1, <1>2, <2>1, ForkTracked DEF Known
  <2>3. QED BY <1>1, <1>3, <2>1, <2>2 DEF Known
<1>6. CASE HandOver
  <2>1. loaded' = meta /\ meta' = meta
    BY <1>6 DEF HandOver, vars, readerVars
  <2>2. meta.minTs \in 0 .. TsMax /\ meta.maxTs \in 0 .. TsMax
    BY <1>2 DEF TypeOK
  <2>3. QED BY <1>1, <1>3, <2>1, <2>2 DEF Known
<1>7. CASE OpenReader \/ Flush \/ UNCHANGED allVars
  <2>1. loaded' = loaded /\ meta' = meta
    BY <1>7 DEF OpenReader, Flush, allVars, loadVars, mainVars, vars, readerVars
  <2>2. QED BY <1>1, <1>3, <2>1 DEF Known
<1>8. QED BY <1>1, <1>4, <1>5, <1>6, <1>7 DEF LoadNext

\* Every variable of the loading keeps its type, the cursor stays in the data section and
\* the buffer has taken exactly the events the reader has returned.
THEOREM LoadTypeCorrect == LoadSpec => []LoadTypeOK
<1>1. LoadInit => Known
  BY TsMaxAssumption DEF LoadInit, Init, Known
<1>2. LInv /\ ReadInv /\ Known => LoadTypeOK
  <2> SUFFICES ASSUME LInv, ReadInv, Known PROVE LoadTypeOK
    OBVIOUS
  <2>1. TypeOK /\ stage \in {"open", "build", "engine", "flushed"}
    BY DEF LInv, Stages
  <2>2. cursor \in 1 .. Stop(file)
    BY StopIs DEF ReadInv
  <2>3. Len(events) = read
    <3>1. PICK es : es = events
      OBVIOUS
    <3>2. read \in Nat /\ es = [i \in 1 .. read |-> es[i]]
      BY <2>1, <3>1 DEF ReadInv, Returned, TypeOK
    <3>3. QED BY <3>1, <3>2
  <2>4. QED BY <2>1, <2>2, <2>3 DEF LoadTypeOK, ReadInv, Known
<1>3. QED BY <1>1, <1>2, KnownNext, LoadInvariant, ReadInvariant, PTL DEF LoadSpec
=============================================================================
