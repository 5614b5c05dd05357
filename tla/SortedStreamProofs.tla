------------------------- MODULE SortedStreamProofs -------------------------
(* Proofs about SortedStream: its order of delivery is sorted and complete *)
(* for every set of files.                                                 *)
EXTENDS SortedStream, TLAPS

\* PerfEventGreater is a strict weak order: never reflexive, and transitive
\* through events it does not order.
LEMMA GreaterOrder ==
  /\ \A a \in Event : ~Greater(a, a)
  /\ \A a, b, c \in Event : Greater(a, b) /\ ~Greater(c, b) => Greater(a, c)
  /\ \A a, b, c \in Event : ~Greater(a, b) /\ ~Greater(b, c) => ~Greater(a, c)
<1>1. \A a \in Event : a.ts \in Int /\ Priority(a.kind) \in Int
  BY TsMaxAssumption DEF Event, Priority
<1>2. QED BY <1>1 DEF Greater

StreamTypeOK ==
  /\ input \in Seq(Event)
  /\ pending \subseteq 1 .. Len(input)
  /\ delivered \in Seq(1 .. Len(input))
  /\ done \in BOOLEAN

\* What the theorems assume of the files.
InputsTyped == \A s \in Inputs : s \in Seq(Event)

\* Delivering keeps the types.
LEMMA StreamTypeStep == StreamTypeOK /\ [Next]_vars => StreamTypeOK'
<1> SUFFICES ASSUME StreamTypeOK, [Next]_vars PROVE StreamTypeOK'
  OBVIOUS
<1> USE DEF StreamTypeOK
<1>1. CASE Deliver
  <2>1. PICK i \in pending :
          /\ pending' = pending \ {i}
          /\ delivered' = Append(delivered, i)
    BY <1>1 DEF Deliver
  <2>2. input' = input /\ done' = done
    BY <1>1 DEF Deliver
  <2>3. delivered' \in Seq(1 .. Len(input))
    BY <2>1
  <2>4. QED BY <2>1, <2>2, <2>3
<1>2. CASE Finish
  BY <1>2 DEF Finish
<1>3. CASE UNCHANGED vars
  BY <1>3 DEF vars
<1>4. QED BY <1>1, <1>2, <1>3 DEF Next

StreamInv == StreamTypeOK /\ Sorted /\ ExactlyOnce

\* Nothing has been delivered.
LEMMA StreamInit ==
  ASSUME InputsTyped, Init
  PROVE  StreamInv
<1>1. input \in Seq(Event) /\ delivered = <<>> /\ Len(delivered) = 0
  BY DEF InputsTyped, Init
<1>2. StreamTypeOK
  <2>1. <<>> \in Seq(1 .. Len(input))
    OBVIOUS
  <2>2. pending \subseteq 1 .. Len(input) /\ done \in BOOLEAN
    BY DEF Init
  <2>3. QED BY <1>1, <2>1, <2>2 DEF StreamTypeOK
<1>3. 1 .. Len(delivered) = {}
  BY <1>1
<1>4. Sorted
  BY <1>3 DEF Sorted
<1>5. ExactlyOnce
  BY <1>3 DEF Init, ExactlyOnce
<1>6. QED BY <1>2, <1>4, <1>5 DEF StreamInv

\* The variables keep their types.
THEOREM StreamTypeCorrect ==
  ASSUME InputsTyped
  PROVE  Spec => []StreamTypeOK
<1>1. Init => StreamTypeOK
  BY StreamInit DEF StreamInv
<1>2. StreamTypeOK /\ [Next]_vars => StreamTypeOK'
  BY StreamTypeStep
<1>3. QED BY <1>1, <1>2, PTL DEF Spec

\* Delivering one of the least pending events keeps what has been delivered sorted.
LEMMA StreamStep == StreamInv /\ [Next]_vars => StreamInv'
<1> SUFFICES ASSUME StreamInv, [Next]_vars PROVE StreamInv'
  OBVIOUS
<1> USE DEF StreamInv
<1>1. StreamTypeOK'
  BY StreamTypeStep
<1>2. CASE Deliver
  <2>1. PICK i \in pending :
          /\ \A j \in pending : ~Greater(input[i], input[j])
          /\ pending' = pending \ {i}
          /\ delivered' = Append(delivered, i)
    BY <1>2 DEF Deliver
  <2>2. input' = input /\ done' = done /\ done = FALSE
    BY <1>2 DEF Deliver, StreamTypeOK
  <2>3. /\ i \in 1 .. Len(input)
        /\ Len(delivered') = Len(delivered) + 1
        /\ delivered'[Len(delivered) + 1] = i
        /\ \A m \in 1 .. Len(delivered) : delivered'[m] = delivered[m]
        /\ \A m \in 1 .. Len(delivered) : delivered[m] \in 1 .. Len(input)
        /\ Len(delivered) \in Nat
    BY <2>1 DEF StreamTypeOK
  <2>4. \A k \in 1 .. Len(input) : input[k] \in Event
    BY DEF StreamTypeOK
  <2>5. Sorted'
    <3> SUFFICES ASSUME NEW m \in 1 .. Len(delivered')
                 PROVE  /\ \A n \in m .. Len(delivered') :
                             ~Greater(input[delivered'[m]], input[delivered'[n]])
                        /\ \A j \in pending' :
                             ~Greater(input[delivered'[m]], input[j])
      BY <2>2 DEF Sorted
    <3>1. CASE m \in 1 .. Len(delivered)
      BY <3>1, <2>1, <2>3 DEF Sorted
    <3>2. CASE m = Len(delivered) + 1
      <4>1. \A n \in m .. Len(delivered') : n = m
        BY <3>2, <2>3
      <4>2. ~Greater(input[i], input[i])
        BY <2>3, <2>4, GreaterOrder
      <4>3. QED BY <3>2, <4>1, <4>2, <2>1, <2>3
    <3>3. QED BY <3>1, <3>2, <2>3
  <2>6. ExactlyOnce'
    <3>1. \A m, n \in 1 .. Len(delivered') :
            delivered'[m] = delivered'[n] => m = n
      BY <2>1, <2>3 DEF ExactlyOnce
    <3>2. {delivered'[m] : m \in 1 .. Len(delivered')}
            = {delivered[m] : m \in 1 .. Len(delivered)} \cup {i}
      BY <2>3
    <3>3. QED BY <3>1, <3>2, <2>1, <2>2, <2>3 DEF ExactlyOnce
  <2>7. QED BY <1>1, <2>5, <2>6
<1>3. CASE Finish
  BY <1>1, <1>3 DEF Finish, Sorted, ExactlyOnce
<1>4. CASE UNCHANGED vars
  BY <1>1, <1>4 DEF vars, Sorted, ExactlyOnce
<1>5. QED BY <1>2, <1>3, <1>4 DEF Next

\* A sorted stream delivers in order, loses nothing and repeats nothing.
THEOREM StreamCorrect ==
  ASSUME InputsTyped
  PROVE  Spec => [](Sorted /\ ExactlyOnce)
<1>1. Init => StreamInv
  BY StreamInit
<1>2. QED BY <1>1, StreamStep, PTL DEF Spec, StreamInv
=============================================================================
