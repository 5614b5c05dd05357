------------------------ MODULE ProbedProcessProofs -------------------------
(***************************************************************************)
(* First what the GIL and GPU state machines keep for every set of threads *)
(* and calls, whatever samples arrive in whatever order.  The invariant    *)
(* ties the engine's maps to the tracks: a slice is open for each of their *)
(* keys.  That is why an end, which a handler writes only for a key it     *)
(* has, always finds a slice to close.                                     *)
(*                                                                         *)
(* Then what the slices of a recorded process show, for every number of    *)
(* threads, calls and probes.  A sample that is still due explains how the *)
(* tracks may lag behind the thread: they show its state before or after   *)
(* the function was entered or left.  Probes that fire twice are absorbed  *)
(* because the first sample already makes the handlers' condition false.   *)
(***************************************************************************)
EXTENDS ProbedProcess, FiniteSetTheorems, SequenceTheorems, TLAPS

FiniteOpen == \A t \in Tids : IsFiniteSet(gpuOpen[t])

Inv == TypeOK /\ FiniteOpen /\ GpuDepth /\ GilDepth /\ NoMisplacedEnd

\* How much one key adds to the depth that GilDepth asks for.
LEMMA KeyCount ==
  ASSUME NEW S, NEW t
  PROVE  /\ t \in S => Cardinality({t} \cap S) = 1
         /\ t \notin S => Cardinality({t} \cap S) = 0
         /\ Cardinality({t} \cap S) \in 0 .. 1
<1>1. CASE t \in S
  <2>1. {t} \cap S = {t}
    BY <1>1
  <2>2. Cardinality({t}) = 1
    BY FS_Singleton
  <2> QED
    BY <2>1, <2>2, <1>1
<1>2. CASE t \notin S
  <2>1. {t} \cap S = {}
    BY <1>2
  <2>2. Cardinality({}) = 0
    BY FS_EmptySet
  <2> QED
    BY <2>1, <2>2, <1>2
<1> QED
  BY <1>1, <1>2

\* write_begin opens one more slice on one track.
LEMMA BegunDepth ==
  ASSUME NEW N, NEW track \in [Tids -> Seq(N)], NEW t \in Tids, NEW name \in N
  PROVE  /\ Begun(track, t, name) \in [Tids -> Seq(N)]
         /\ Len(Begun(track, t, name)[t]) = Len(track[t]) + 1
         /\ \A u \in Tids \ {t} : Begun(track, t, name)[u] = track[u]
BY DEF Begun

\* What is left of a sequence without its last element.
LEMMA FrontLength ==
  ASSUME NEW N, NEW s \in Seq(N), s # <<>>
  PROVE  /\ SubSeq(s, 1, Len(s) - 1) \in Seq(N)
         /\ Len(SubSeq(s, 1, Len(s) - 1)) = Len(s) - 1
<1>1. Len(s) \in Nat /\ Len(s) # 0
  OBVIOUS
<1>2. \A i \in 1 .. Len(s) - 1 : s[i] \in N
  BY <1>1
<1> DEFINE n == Len(s) - 1
<1>3. n \in Int /\ 1 \in Int /\ n >= 0
  BY <1>1
<1>4. \A i \in 1 .. n : s[i] \in N
  BY <1>2
<1> HIDE DEF n
<1>5. /\ SubSeq(s, 1, n) \in Seq(N)
      /\ Len(SubSeq(s, 1, n)) = IF 1 <= n THEN n - 1 + 1 ELSE 0
  BY <1>3, <1>4, SubSeqProperties
<1>6. Len(SubSeq(s, 1, n)) = n
  BY <1>3, <1>5
<1> QED
  BY <1>5, <1>6 DEF n

\* write_end closes one, if there is one.
LEMMA EndedDepth ==
  ASSUME NEW N, NEW track \in [Tids -> Seq(N)], NEW t \in Tids
  PROVE  /\ Ended(track, t) \in [Tids -> Seq(N)]
         /\ track[t] # <<>> => Len(Ended(track, t)[t]) = Len(track[t]) - 1
         /\ \A u \in Tids \ {t} : Ended(track, t)[u] = track[u]
<1>1. CASE track[t] = <<>>
  BY <1>1 DEF Ended
<1>2. CASE track[t] # <<>>
  <2>1. track[t] \in Seq(N)
    OBVIOUS
  <2>2. /\ SubSeq(track[t], 1, Len(track[t]) - 1) \in Seq(N)
        /\ Len(SubSeq(track[t], 1, Len(track[t]) - 1)) = Len(track[t]) - 1
    BY <1>2, <2>1, FrontLength
  <2> QED
    BY <1>2, <2>2 DEF Ended
<1> QED
  BY <1>1, <1>2

\* The names of the slices, for the provers, which see no literal of a set.
LEMMA GilNamesThere == "GIL acquire" \in GilNames /\ "GIL held" \in GilNames
BY DEF GilNames

\* The length of a track, from the type of the tracks.
LEMMA TrackLength ==
  ASSUME NEW N, NEW track \in [Tids -> Seq(N)], NEW t \in Tids
  PROVE  Len(track[t]) \in Nat /\ (track[t] = <<>> <=> Len(track[t]) = 0)
<1>1. track[t] \in Seq(N)
  OBVIOUS
<1> QED
  BY <1>1

\* No sample has been seen: maps and tracks are empty.
LEMMA InitInv == Init => Inv
<1> SUFFICES ASSUME Init PROVE Inv
  OBVIOUS
<1>1. TypeOK
  <2>1. <<>> \in Seq(GilNames) /\ <<>> \in Seq(Ops)
    OBVIOUS
  <2> QED
    BY <2>1 DEF Init, TypeOK
<1>2. FiniteOpen
  BY FS_EmptySet DEF Init, FiniteOpen
<1>3. GpuDepth
  BY FS_EmptySet DEF Init, GpuDepth
<1>4. GilDepth
  <2> SUFFICES ASSUME NEW t \in Tids
               PROVE  Len(gilTrack[t]) >=
                        Cardinality({t} \cap gilStart) + Cardinality({t} \cap gilHeld)
    BY DEF GilDepth
  <2>1. Cardinality({t} \cap gilStart) = 0 /\ Cardinality({t} \cap gilHeld) = 0
    BY KeyCount DEF Init
  <2>2. Len(gilTrack[t]) = 0
    BY DEF Init
  <2> QED
    BY <2>1, <2>2
<1>5. NoMisplacedEnd
  BY DEF Init, NoMisplacedEnd
<1> QED
  BY <1>1, <1>2, <1>3, <1>4, <1>5 DEF Inv

\* A filtered or duplicate sample changes nothing.
LEMMA SkipInv ==
  ASSUME Inv, UNCHANGED probeVars
  PROVE  Inv'
BY DEF Inv, TypeOK, FiniteOpen, GpuDepth, GilDepth, NoMisplacedEnd, probeVars,
       gilVars, gpuVars

\* A key is added to gil_start_ with the slice that GilDepth asks for.
LEMMA TakeGilInv ==
  ASSUME Inv, NEW t \in Tids, TakeGil(t)
  PROVE  Inv'
<1>1. CASE UNCHANGED probeVars
  BY <1>1, SkipInv
<1>2. CASE ~UNCHANGED probeVars
  <2>1. /\ t \in GilShown /\ t \notin gilStart
        /\ gilStart' = gilStart \cup {t}
        /\ gilTrack' = Begun(gilTrack, t, "GIL acquire")
        /\ UNCHANGED <<gilHeld, gpuVars, misplaced>>
    BY <1>2 DEF TakeGil, Skip
  <2>2. /\ gilTrack' \in [Tids -> Seq(GilNames)]
        /\ Len(gilTrack'[t]) = Len(gilTrack[t]) + 1
        /\ \A u \in Tids \ {t} : gilTrack'[u] = gilTrack[u]
    <3>1. gilTrack \in [Tids -> Seq(GilNames)]
      BY DEF Inv, TypeOK
    <3>2. "GIL acquire" \in GilNames
      BY GilNamesThere
    <3>3. PICK name \in GilNames : gilTrack' = Begun(gilTrack, t, name)
      BY <2>1, <3>2, Zenon
    <3> QED
      BY <3>1, <3>3, BegunDepth
  <2>3. TypeOK'
    BY <2>1, <2>2 DEF Inv, TypeOK, gpuVars
  <2>4. GilDepth'
    <3> SUFFICES ASSUME NEW u \in Tids
                 PROVE  Len(gilTrack'[u]) >=
                          Cardinality({u} \cap gilStart') + Cardinality({u} \cap gilHeld')
      BY DEF GilDepth
    <3>1. Len(gilTrack[u]) >=
            Cardinality({u} \cap gilStart) + Cardinality({u} \cap gilHeld)
      BY DEF Inv, GilDepth
    <3>2. Len(gilTrack[u]) \in Nat
      <4>1. gilTrack \in [Tids -> Seq(GilNames)]
        BY DEF Inv, TypeOK
      <4> QED
        BY <4>1, TrackLength
    <3>3. CASE u = t
      <4>1. t \in gilStart' /\ t \notin gilStart
        BY <2>1
      <4>2. Cardinality({t} \cap gilStart') = 1 /\ Cardinality({t} \cap gilStart) = 0
        BY <4>1, KeyCount
      <4>3. gilHeld' = gilHeld
        BY <2>1
      <4>4. Cardinality({t} \cap gilHeld) \in Nat
        BY KeyCount
      <4> QED
        BY <2>2, <3>1, <3>2, <3>3, <4>2, <4>3, <4>4
    <3>4. CASE u # t
      <4>1. {u} \cap gilStart' = {u} \cap gilStart /\ gilHeld' = gilHeld
        BY <2>1, <3>4
      <4> QED
        BY <2>2, <3>1, <3>4, <4>1
    <3> QED
      BY <3>3, <3>4
  <2> QED
    BY <2>1, <2>3, <2>4 DEF Inv, FiniteOpen, GpuDepth, NoMisplacedEnd, gpuVars
<1> QED
  BY <1>1, <1>2

\* The key moves from gil_start_ to gil_held_: a slice is closed and one is opened.
LEMMA TakeGilReturnInv ==
  ASSUME Inv, NEW t \in Tids, TakeGilReturn(t)
  PROVE  Inv'
<1>1. CASE UNCHANGED probeVars
  BY <1>1, SkipInv
<1>2. CASE ~UNCHANGED probeVars
  <2> DEFINE mid == Ended(gilTrack, t)
  <2>1. /\ t \in GilShown /\ t \in gilStart
        /\ gilStart' = gilStart \ {t}
        /\ gilHeld' = gilHeld \cup {t}
        /\ gilTrack' = Begun(mid, t, "GIL held")
        /\ misplaced' = (misplaced \/ gilTrack[t] = <<>>)
        /\ UNCHANGED gpuVars
    BY <1>2 DEF TakeGilReturn, Skip
  <2>2. gilTrack \in [Tids -> Seq(GilNames)]
    BY DEF Inv, TypeOK
  <2>3. Len(gilTrack[t]) >= 1 + Cardinality({t} \cap gilHeld)
    BY <2>1, KeyCount DEF Inv, GilDepth
  <2>4. gilTrack[t] # <<>>
    <3>1. Cardinality({t} \cap gilHeld) >= 0
      BY KeyCount
    <3> QED
      BY <2>2, <2>3, <3>1, KeyCount
  <2>5. /\ mid \in [Tids -> Seq(GilNames)]
        /\ Len(mid[t]) = Len(gilTrack[t]) - 1
        /\ \A u \in Tids \ {t} : mid[u] = gilTrack[u]
    BY <2>2, <2>4, EndedDepth
  <2>6. /\ gilTrack' \in [Tids -> Seq(GilNames)]
        /\ Len(gilTrack'[t]) = Len(mid[t]) + 1
        /\ \A u \in Tids \ {t} : gilTrack'[u] = mid[u]
    <3>1. "GIL held" \in GilNames
      BY GilNamesThere
    <3> HIDE DEF mid
    <3>2. PICK name \in GilNames : gilTrack' = Begun(mid, t, name)
      BY <2>1, <3>1, Zenon
    <3> QED
      BY <2>5, <3>2, BegunDepth
  <2>7. Len(gilTrack'[t]) = Len(gilTrack[t])
    BY <2>2, <2>5, <2>6
  <2>8. TypeOK'
    BY <2>1, <2>6 DEF Inv, TypeOK, gpuVars
  <2>9. GilDepth'
    <3> SUFFICES ASSUME NEW u \in Tids
                 PROVE  Len(gilTrack'[u]) >=
                          Cardinality({u} \cap gilStart') + Cardinality({u} \cap gilHeld')
      BY DEF GilDepth
    <3>1. Len(gilTrack[u]) >=
            Cardinality({u} \cap gilStart) + Cardinality({u} \cap gilHeld)
      BY DEF Inv, GilDepth
    <3>2. Len(gilTrack[u]) \in Nat
      <4>1. gilTrack \in [Tids -> Seq(GilNames)]
        BY DEF Inv, TypeOK
      <4> QED
        BY <4>1, TrackLength
    <3>3. CASE u = t
      <4>1. Cardinality({t} \cap gilStart') = 0
        <5>1. t \notin gilStart'
          BY <2>1
        <5> QED
          BY <5>1, KeyCount
      <4>2. Cardinality({t} \cap gilHeld') = 1
        <5>1. t \in gilHeld'
          BY <2>1
        <5> QED
          BY <5>1, KeyCount
      <4>3. Len(gilTrack[t]) >= 1
        BY <2>3, KeyCount
      <4> QED
        BY <3>3, <2>7, <4>1, <4>2, <4>3
    <3>4. CASE u # t
      <4>1. gilTrack'[u] = gilTrack[u]
        BY <2>5, <2>6, <3>4
      <4>2. {u} \cap gilStart' = {u} \cap gilStart /\ {u} \cap gilHeld' = {u} \cap gilHeld
        BY <2>1, <3>4
      <4> QED
        BY <3>1, <4>1, <4>2
    <3> QED
      BY <3>3, <3>4
  <2>10. NoMisplacedEnd'
    BY <2>1, <2>4 DEF Inv, NoMisplacedEnd
  <2> QED
    BY <2>1, <2>8, <2>9, <2>10 DEF Inv, FiniteOpen, GpuDepth, gpuVars
<1> QED
  BY <1>1, <1>2

\* The key leaves gil_held_ with its slice, which is there.
LEMMA DropGilInv ==
  ASSUME Inv, NEW t \in Tids, DropGil(t)
  PROVE  Inv'
<1>1. CASE UNCHANGED probeVars
  BY <1>1, SkipInv
<1>2. CASE ~UNCHANGED probeVars
  <2>1. /\ t \in GilShown /\ t \in gilHeld
        /\ gilHeld' = gilHeld \ {t}
        /\ gilTrack' = Ended(gilTrack, t)
        /\ misplaced' = (misplaced \/ gilTrack[t] = <<>>)
        /\ UNCHANGED <<gilStart, gpuVars>>
    BY <1>2 DEF DropGil, Skip
  <2>2. gilTrack \in [Tids -> Seq(GilNames)]
    BY DEF Inv, TypeOK
  <2>3. Len(gilTrack[t]) >= Cardinality({t} \cap gilStart) + 1
    BY <2>1, KeyCount DEF Inv, GilDepth
  <2>4. gilTrack[t] # <<>>
    BY <2>2, <2>3, KeyCount
  <2>5. /\ gilTrack' \in [Tids -> Seq(GilNames)]
        /\ Len(gilTrack'[t]) = Len(gilTrack[t]) - 1
        /\ \A u \in Tids \ {t} : gilTrack'[u] = gilTrack[u]
    BY <2>1, <2>2, <2>4, EndedDepth
  <2>6. TypeOK'
    BY <2>1, <2>5 DEF Inv, TypeOK, gpuVars
  <2>7. GilDepth'
    <3> SUFFICES ASSUME NEW u \in Tids
                 PROVE  Len(gilTrack'[u]) >=
                          Cardinality({u} \cap gilStart') + Cardinality({u} \cap gilHeld')
      BY DEF GilDepth
    <3>1. Len(gilTrack[u]) >=
            Cardinality({u} \cap gilStart) + Cardinality({u} \cap gilHeld)
      BY DEF Inv, GilDepth
    <3>2. Len(gilTrack[u]) \in Nat
      <4>1. gilTrack \in [Tids -> Seq(GilNames)]
        BY DEF Inv, TypeOK
      <4> QED
        BY <4>1, TrackLength
    <3>3. CASE u = t
      <4>1. Cardinality({t} \cap gilHeld') = 0
        BY <2>1, KeyCount
      <4>2. Cardinality({t} \cap gilStart') \in Nat
        BY KeyCount
      <4> QED
        BY <3>2, <3>3, <2>1, <2>3, <2>5, <4>1, <4>2
    <3>4. CASE u # t
      <4>1. {u} \cap gilStart' = {u} \cap gilStart /\ {u} \cap gilHeld' = {u} \cap gilHeld
        BY <2>1, <3>4
      <4> QED
        BY <3>1, <3>4, <2>5, <4>1
    <3> QED
      BY <3>3, <3>4
  <2>8. NoMisplacedEnd'
    BY <2>1, <2>4 DEF Inv, NoMisplacedEnd
  <2> QED
    BY <2>1, <2>6, <2>7, <2>8 DEF Inv, FiniteOpen, GpuDepth, gpuVars
<1> QED
  BY <1>1, <1>2

\* A name that was not open is added with its slice.
LEMMA GpuBeginInv ==
  ASSUME Inv, NEW t \in Tids, NEW op \in Ops, GpuBegin(t, op)
  PROVE  Inv'
<1>1. CASE UNCHANGED probeVars
  BY <1>1, SkipInv
<1>2. CASE ~UNCHANGED probeVars
  <2>1. /\ t \in GpuShown /\ op \notin gpuOpen[t]
        /\ gpuOpen' = [gpuOpen EXCEPT ![t] = @ \cup {op}]
        /\ gpuTrack' = Begun(gpuTrack, t, op)
        /\ UNCHANGED <<gilVars, misplaced>>
    BY <1>2 DEF GpuBegin, Skip
  <2>2. /\ gpuTrack' \in [Tids -> Seq(Ops)]
        /\ Len(gpuTrack'[t]) = Len(gpuTrack[t]) + 1
        /\ \A u \in Tids \ {t} : gpuTrack'[u] = gpuTrack[u]
    <3>1. gpuTrack \in [Tids -> Seq(Ops)]
      BY DEF Inv, TypeOK
    <3> QED
      BY <2>1, <3>1, BegunDepth
  <2>3. gpuOpen' \in [Tids -> SUBSET Ops]
    BY <2>1 DEF Inv, TypeOK
  <2>4. \A u \in Tids : gpuOpen'[u] = IF u = t THEN gpuOpen[t] \cup {op} ELSE gpuOpen[u]
    BY <2>1 DEF Inv, TypeOK
  <2>5. /\ IsFiniteSet(gpuOpen[t] \cup {op})
        /\ Cardinality(gpuOpen[t] \cup {op}) = Cardinality(gpuOpen[t]) + 1
    BY <2>1, FS_AddElement DEF Inv, FiniteOpen
  <2>6. FiniteOpen'
    BY <2>4, <2>5 DEF Inv, FiniteOpen
  <2>7. GpuDepth'
    BY <2>2, <2>4, <2>5 DEF Inv, GpuDepth
  <2>8. TypeOK'
    BY <2>1, <2>2, <2>3 DEF Inv, TypeOK, gilVars
  <2> QED
    BY <2>1, <2>6, <2>7, <2>8 DEF Inv, GilDepth, NoMisplacedEnd, gilVars
<1> QED
  BY <1>1, <1>2

\* A name that was open is erased with one slice.
LEMMA GpuEndInv ==
  ASSUME Inv, NEW t \in Tids, NEW op \in Ops, GpuEnd(t, op)
  PROVE  Inv'
<1>1. CASE UNCHANGED probeVars
  BY <1>1, SkipInv
<1>2. CASE ~UNCHANGED probeVars
  <2>1. /\ t \in GpuShown /\ op \in gpuOpen[t]
        /\ gpuOpen' = [gpuOpen EXCEPT ![t] = @ \ {op}]
        /\ gpuTrack' = Ended(gpuTrack, t)
        /\ misplaced' = (misplaced \/ gpuTrack[t] = <<>>)
        /\ UNCHANGED gilVars
    BY <1>2 DEF GpuEnd, Skip
  <2>2. /\ IsFiniteSet(gpuOpen[t] \ {op})
        /\ Cardinality(gpuOpen[t] \ {op}) = Cardinality(gpuOpen[t]) - 1
        /\ Cardinality(gpuOpen[t] \ {op}) \in Nat
    BY <2>1, FS_RemoveElement, FS_CardinalityType DEF Inv, FiniteOpen
  <2>3. gpuTrack \in [Tids -> Seq(Ops)] /\ Len(gpuTrack[t]) = Cardinality(gpuOpen[t])
    BY DEF Inv, TypeOK, GpuDepth
  <2>4. gpuTrack[t] # <<>>
    <3>1. Cardinality(gpuOpen[t]) >= 1
      BY <2>2, <2>3
    <3> QED
      BY <2>3, <3>1
  <2>5. /\ gpuTrack' \in [Tids -> Seq(Ops)]
        /\ Len(gpuTrack'[t]) = Len(gpuTrack[t]) - 1
        /\ \A u \in Tids \ {t} : gpuTrack'[u] = gpuTrack[u]
    BY <2>1, <2>3, <2>4, EndedDepth
  <2>6. gpuOpen' \in [Tids -> SUBSET Ops]
    BY <2>1 DEF Inv, TypeOK
  <2>7. \A u \in Tids : gpuOpen'[u] = IF u = t THEN gpuOpen[t] \ {op} ELSE gpuOpen[u]
    BY <2>1 DEF Inv, TypeOK
  <2>8. FiniteOpen'
    BY <2>2, <2>7 DEF Inv, FiniteOpen
  <2>9. GpuDepth'
    BY <2>2, <2>3, <2>5, <2>7 DEF Inv, GpuDepth
  <2>10. TypeOK'
    BY <2>1, <2>5, <2>6 DEF Inv, TypeOK, gilVars
  <2>11. NoMisplacedEnd'
    BY <2>1, <2>4 DEF Inv, NoMisplacedEnd
  <2> QED
    BY <2>1, <2>8, <2>9, <2>10, <2>11 DEF Inv, GilDepth, gilVars
<1> QED
  BY <1>1, <1>2

\* Every handler keeps the invariant, in whatever order they run.
LEMMA NextInv == Inv /\ [Next]_probeVars => Inv'
<1> SUFFICES ASSUME Inv, [Next]_probeVars PROVE Inv'
  OBVIOUS
<1>1. CASE UNCHANGED probeVars
  BY <1>1, SkipInv
<1>2. CASE Next
  <2> PICK t \in Tids :
        \/ TakeGil(t) \/ TakeGilReturn(t) \/ DropGil(t)
        \/ \E op \in Ops : GpuBegin(t, op) \/ GpuEnd(t, op)
    BY <1>2 DEF Next
  <2> QED
    BY TakeGilInv, TakeGilReturnInv, DropGilInv, GpuBeginInv, GpuEndInv
<1> QED
  BY <1>1, <1>2

\* The invariant holds whatever is sampled.
LEMMA InvHolds == Spec => []Inv
BY InitInv, NextInv, PTL DEF Spec

\* The maps and tracks of ProbeSpans keep their types, for every set of
\* threads, calls and filters.
THEOREM TypeCorrect == Spec => []TypeOK
BY InvHolds, PTL DEF Inv

\* Whatever samples arrive, emit_perf_event never writes an end to a track
\* on which nothing is open.
THEOREM EndsArePlaced == Spec => []NoMisplacedEnd
BY InvHolds, PTL DEF Inv

\* The GPU track of a thread has exactly as many open slices as gpu_open_ has
\* names, for every set of calls.
THEOREM GpuTrackFollowsMap == Spec => []GpuDepth
BY InvHolds, PTL DEF Inv

\* The GIL track never has fewer open slices than the GIL maps have keys.
THEOREM GilTrackCoversMaps == Spec => []GilDepth
BY InvHolds, PTL DEF Inv

-----------------------------------------------------------------------------
(* The slices of a recorded process. *)

Sample ==
  [probe : {"begin", "end"}, op : Ops] \cup
  [probe : {"take_gil", "take_gil_return", "drop_gil"}]

\* Every call in c is another one.
Distinct(c) == \A i, j \in 1 .. Len(c) : c[i] = c[j] => i = j

ProcessTypes ==
  /\ calls \in [Tids -> Seq(Ops)]
  /\ \A t \in Tids \ Recursive : Distinct(calls[t])
  /\ early \in [Tids -> Nat]
  /\ \A t \in Tids : early[t] <= Len(calls[t])
  /\ gil \in [Tids -> {"none", "acquiring", "holding", "dropping"}]
  /\ due \in [Tids -> Seq(Sample)]
  /\ \A t \in Tids : \A k \in 1 .. Len(due[t]) : due[t][k] = due[t][1]

\* A sample of this probe is due; the call it is about.
Pending(t, probe) == due[t] # <<>> /\ due[t][1].probe = probe
PendingOp(t) == due[t][1].op

\* The GIL maps and the GIL track of t stand for the state g.
GilShows(t, g) ==
  /\ gilTrack[t] = CASE t \in seen /\ g = "acquiring" -> <<"GIL acquire">>
                     [] t \in seen /\ g = "holding"   -> <<"GIL held">>
                     [] OTHER -> <<>>
  /\ t \in gilStart <=> t \in seen /\ g = "acquiring"
  /\ t \in gilHeld <=> t \in seen /\ g = "holding"

GilThread(t) ==
  /\ \/ GilShows(t, gil[t])
     \/ Pending(t, "take_gil") /\ GilShows(t, "none")
     \/ Pending(t, "take_gil_return") /\ GilShows(t, "acquiring")
     \/ Pending(t, "drop_gil") /\ GilShows(t, "holding")
  /\ Pending(t, "take_gil") => gil[t] = "acquiring" /\ t \in seen
  /\ Pending(t, "take_gil_return") => gil[t] = "holding"
  /\ Pending(t, "drop_gil") => gil[t] = "dropping"

\* Which calls of c the track and gpu_open_ stand for: q numbers the calls that opened
\* the names in gpu_open_, and each slice is named after a call p that is no later.
Opened(track, open, c, p, q) ==
  /\ \A i \in 1 .. Len(track) : p[i] <= q[i] /\ track[i] = c[p[i]] /\ c[q[i]] \in open
  /\ \A i, j \in 1 .. Len(track) : i < j => q[i] < q[j]
  /\ \A i, j \in 1 .. Len(track) : c[q[i]] = c[q[j]] => i = j
  /\ \A op \in open : \E i \in 1 .. Len(track) : c[q[i]] = op

Nested(track, open, c) ==
  \E p, q \in [1 .. Len(track) -> 1 .. Len(c)] : Opened(track, open, c, p, q)

\* Where no call recurses they are all the calls of c but for the first n.
AllOpened(track, open, c, n) ==
  /\ n <= Len(c)
  /\ Len(track) = Len(c) - n
  /\ \A i \in 1 .. Len(track) : track[i] = c[n + i]
  /\ open = {c[i] : i \in n + 1 .. Len(c)}

GpuShows(t, c) ==
  /\ Nested(gpuTrack[t], gpuOpen[t], c)
  /\ t \notin Recursive => AllOpened(gpuTrack[t], gpuOpen[t], c, early[t])

GpuThread(t) ==
  \/ /\ GpuShows(t, calls[t])
     /\ Pending(t, "begin") => PendingOp(t) \in gpuOpen[t]
     /\ Pending(t, "end") => PendingOp(t) \notin gpuOpen[t]
  \/ /\ Pending(t, "begin")
     /\ \E c \in Seq(Ops) : calls[t] = Append(c, PendingOp(t)) /\ GpuShows(t, c)
  \/ /\ Pending(t, "end")
     /\ t \notin Recursive => Distinct(Append(calls[t], PendingOp(t)))
     /\ GpuShows(t, Append(calls[t], PendingOp(t)))

Followed ==
  /\ \A t \in GilShown : GilThread(t)
  /\ \A t \in GpuShown : GpuThread(t)

PInv == Inv /\ ProcessTypes /\ (feed = "process" => Followed)

-----------------------------------------------------------------------------
\* A call that has not begun a slice yet changes nothing.
LEMMA NestedLonger ==
  ASSUME NEW track \in Seq(Ops), NEW open \in SUBSET Ops, NEW c \in Seq(Ops), NEW op \in Ops,
         Nested(track, open, c)
  PROVE  Nested(track, open, Append(c, op))
<1>1. PICK p, q \in [1 .. Len(track) -> 1 .. Len(c)] : Opened(track, open, c, p, q)
  BY DEF Nested
<1>2. Len(c) \in Nat /\ Len(track) \in Nat
  OBVIOUS
<1> DEFINE d == Append(c, op)
<1>3. Len(d) = Len(c) + 1 /\ \A i \in 1 .. Len(c) : d[i] = c[i]
  OBVIOUS
<1> HIDE DEF d
<1>4. p \in [1 .. Len(track) -> 1 .. Len(d)] /\ q \in [1 .. Len(track) -> 1 .. Len(d)]
  BY <1>2, <1>3
<1>5. Opened(track, open, d, p, q)
  BY <1>1, <1>3 DEF Opened
<1>6. QED BY <1>4, <1>5 DEF Nested, d

\* GpuBegin of a name that is not open: the slice of the last call is opened.
LEMMA NestedBegin ==
  ASSUME NEW track \in Seq(Ops), NEW open \in SUBSET Ops, NEW c \in Seq(Ops), NEW op \in Ops,
         Nested(track, open, c), op \notin open
  PROVE  Nested(Append(track, op), open \cup {op}, Append(c, op))
<1>1. PICK p, q \in [1 .. Len(track) -> 1 .. Len(c)] : Opened(track, open, c, p, q)
  BY DEF Nested
<1>2. Len(c) \in Nat /\ Len(track) \in Nat
  OBVIOUS
<1> DEFINE d == Append(c, op)
           longer == Append(track, op)
           n == Len(track) + 1
           pp == [i \in 1 .. n |-> IF i = n THEN Len(c) + 1 ELSE p[i]]
           qq == [i \in 1 .. n |-> IF i = n THEN Len(c) + 1 ELSE q[i]]
<1>3. Len(d) = Len(c) + 1 /\ d[Len(c) + 1] = op /\ \A i \in 1 .. Len(c) : d[i] = c[i]
  OBVIOUS
<1>4. Len(longer) = n /\ longer[n] = op /\ \A i \in 1 .. Len(track) : longer[i] = track[i]
  OBVIOUS
<1>5. \A i \in 1 .. n : i = n \/ i \in 1 .. Len(track)
  BY <1>2
<1>6. /\ pp \in [1 .. n -> 1 .. Len(d)] /\ qq \in [1 .. n -> 1 .. Len(d)]
      /\ pp[n] = Len(c) + 1 /\ qq[n] = Len(c) + 1
      /\ \A i \in 1 .. Len(track) : pp[i] = p[i] /\ qq[i] = q[i]
      /\ \A i \in 1 .. Len(track) : i # n /\ i < n /\ i \in 1 .. n
      /\ n \in 1 .. n
  BY <1>2, <1>3, <1>5
<1> HIDE DEF d, longer, n, pp, qq
<1>7. \A i \in 1 .. Len(track) : /\ p[i] \in 1 .. Len(c) /\ q[i] \in 1 .. Len(c)
                                 /\ d[pp[i]] = c[p[i]] /\ d[qq[i]] = c[q[i]]
  BY <1>3, <1>6
<1>8. d[pp[n]] = op /\ d[qq[n]] = op
  BY <1>3, <1>6
<1>9. ASSUME NEW i \in 1 .. n
      PROVE  pp[i] <= qq[i] /\ longer[i] = d[pp[i]] /\ d[qq[i]] \in open \cup {op}
  <2>1. CASE i = n
    BY <1>2, <1>4, <1>6, <1>8, <2>1
  <2>2. CASE i \in 1 .. Len(track)
    BY <1>1, <1>4, <1>6, <1>7, <2>2 DEF Opened
  <2>3. QED BY <1>5, <2>1, <2>2
<1>10. \A i, j \in 1 .. n : i < j => qq[i] < qq[j]
  BY <1>1, <1>2, <1>5, <1>6, <1>7 DEF Opened, n
<1>11. ASSUME NEW i \in 1 .. n, NEW j \in 1 .. n, d[qq[i]] = d[qq[j]]
       PROVE  i = j
  <2>1. \A k \in 1 .. Len(track) : d[qq[k]] \in open /\ d[qq[k]] # d[qq[n]]
    BY <1>1, <1>7, <1>8 DEF Opened
  <2>2. CASE i = n \/ j = n
    BY <1>5, <1>11, <2>1, <2>2
  <2>3. CASE i \in 1 .. Len(track) /\ j \in 1 .. Len(track)
    BY <1>1, <1>7, <1>11, <2>3 DEF Opened
  <2>4. QED BY <1>5, <2>2, <2>3
<1>12. ASSUME NEW x \in open \cup {op}
       PROVE  \E i \in 1 .. n : d[qq[i]] = x
  <2>1. CASE x = op
    BY <1>6, <1>8, <2>1
  <2>2. CASE x \in open
    <3>1. PICK i \in 1 .. Len(track) : c[q[i]] = x
      BY <1>1, <2>2 DEF Opened
    <3>2. i \in 1 .. n /\ d[qq[i]] = x
      BY <1>6, <1>7, <3>1
    <3>3. QED BY <3>2
  <2>3. QED BY <2>1, <2>2
<1>13. Opened(longer, open \cup {op}, d, pp, qq)
  BY <1>4, <1>9, <1>10, <1>11, <1>12 DEF Opened
<1>14. QED BY <1>4, <1>6, <1>13 DEF Nested, d, longer

\* A call that has ended and has no name in gpu_open_ opened none of the slices.
LEMMA NestedShorter ==
  ASSUME NEW track \in Seq(Ops), NEW open \in SUBSET Ops, NEW c \in Seq(Ops), NEW op \in Ops,
         Nested(track, open, Append(c, op)), op \notin open
  PROVE  Nested(track, open, c)
<1> DEFINE d == Append(c, op)
<1>1. PICK p, q \in [1 .. Len(track) -> 1 .. Len(d)] : Opened(track, open, d, p, q)
  BY DEF Nested
<1>2. Len(c) \in Nat /\ Len(track) \in Nat
  OBVIOUS
<1>3. Len(d) = Len(c) + 1 /\ d[Len(c) + 1] = op /\ \A i \in 1 .. Len(c) : d[i] = c[i]
  OBVIOUS
<1> HIDE DEF d
<1>4. \A i \in 1 .. Len(track) : q[i] \in 1 .. Len(c) /\ p[i] \in 1 .. Len(c)
  BY <1>1, <1>2, <1>3 DEF Opened
<1>5. p \in [1 .. Len(track) -> 1 .. Len(c)] /\ q \in [1 .. Len(track) -> 1 .. Len(c)]
  BY <1>1, <1>4
<1>6. Opened(track, open, c, p, q)
  BY <1>1, <1>3, <1>4 DEF Opened
<1>7. QED BY <1>5, <1>6 DEF Nested

\* GpuEnd of a name that is open: the innermost slice is closed, whichever call of that
\* name opened one, and the slices that stay are named after calls that stay.
LEMMA NestedEnd ==
  ASSUME NEW track \in Seq(Ops), NEW open \in SUBSET Ops, NEW c \in Seq(Ops), NEW op \in Ops,
         Nested(track, open, Append(c, op)), op \in open
  PROVE  /\ track # <<>>
         /\ Nested(SubSeq(track, 1, Len(track) - 1), open \ {op}, c)
<1> DEFINE d == Append(c, op)
           n == Len(track) - 1
           shorter == SubSeq(track, 1, n)
<1>1. PICK p, q \in [1 .. Len(track) -> 1 .. Len(d)] : Opened(track, open, d, p, q)
  BY DEF Nested
<1>2. PICK k \in 1 .. Len(track) : d[q[k]] = op
  BY <1>1 DEF Opened
<1>3. Len(c) \in Nat /\ Len(track) \in Nat /\ track # <<>> /\ n \in Nat
  BY <1>2
<1>4. Len(d) = Len(c) + 1 /\ d[Len(c) + 1] = op /\ \A i \in 1 .. Len(c) : d[i] = c[i]
  OBVIOUS
<1>5. Len(shorter) = n /\ \A i \in 1 .. n : shorter[i] = track[i]
  <2>1. \A i \in 1 .. n : track[i] \in Ops
    BY <1>3
  <2> HIDE DEF n
  <2>2. /\ Len(shorter) = IF 1 <= n THEN n - 1 + 1 ELSE 0
        /\ \A i \in 1 .. n - 1 + 1 : shorter[i] = track[1 + i - 1]
    BY <1>3, <2>1, SubSeqProperties
  <2>3. QED BY <1>3, <2>2
<1> DEFINE next(i) == IF i < k THEN i ELSE i + 1
           pp == [i \in 1 .. n |-> p[i]]
           qq == [i \in 1 .. n |-> q[next(i)]]
<1> HIDE DEF d, shorter
<1>6. \A i \in 1 .. n : /\ i \in 1 .. Len(track) /\ next(i) \in 1 .. Len(track)
                        /\ next(i) # k /\ i <= next(i)
  BY <1>3
<1>7. \A i, j \in 1 .. n : (i < j => next(i) < next(j)) /\ (next(i) = next(j) => i = j)
  BY <1>3
<1>8. \A i \in 1 .. Len(track) : i # k => \E j \in 1 .. n : next(j) = i
  <2> TAKE i \in 1 .. Len(track)
  <2> HAVE i # k
  <2>1. CASE i < k
    <3>1. i \in 1 .. n /\ next(i) = i
      BY <1>3, <2>1
    <3>2. QED BY <3>1
  <2>2. CASE i > k
    <3>1. i - 1 \in 1 .. n /\ next(i - 1) = i
      BY <1>3, <2>2
    <3>2. QED BY <3>1
  <2>3. QED BY <2>1, <2>2
<1>9. \A i \in 1 .. n : pp[i] = p[i] /\ qq[i] = q[next(i)]
  OBVIOUS
<1> HIDE DEF next, pp, qq, n
<1>10. \A i \in 1 .. Len(track) : /\ p[i] \in 1 .. Len(c) + 1 /\ q[i] \in 1 .. Len(c) + 1
                                  /\ i # k => q[i] \in 1 .. Len(c)
  <2> TAKE i \in 1 .. Len(track)
  <2>1. p[i] \in 1 .. Len(c) + 1 /\ q[i] \in 1 .. Len(c) + 1
    BY <1>4
  <2>2. i # k => d[q[i]] # op
    BY <1>1, <1>2 DEF Opened
  <2>3. QED BY <1>3, <1>4, <2>1, <2>2
<1>11. \A i \in 1 .. n : qq[i] \in 1 .. Len(c) /\ pp[i] <= qq[i]
  <2> TAKE i \in 1 .. n
  <2>1. qq[i] \in 1 .. Len(c)
    BY <1>6, <1>9, <1>10
  <2>2. p[i] <= q[i] /\ q[i] <= q[next(i)]
    BY <1>1, <1>6, <1>10 DEF Opened
  <2>3. p[i] \in Int /\ q[i] \in Int /\ q[next(i)] \in Int
    BY <1>6, <1>10
  <2>4. p[i] <= q[next(i)]
    BY <2>2, <2>3
  <2>5. QED BY <1>9, <2>1, <2>4
<1>12. \A i \in 1 .. n : pp[i] \in 1 .. Len(c)
  <2> TAKE i \in 1 .. n
  <2>1. pp[i] \in 1 .. Len(c) + 1
    BY <1>6, <1>9, <1>10
  <2>2. qq[i] \in 1 .. Len(c) /\ pp[i] <= qq[i]
    BY <1>11
  <2>3. QED BY <1>3, <2>1, <2>2
<1>13. pp \in [1 .. n -> 1 .. Len(c)] /\ qq \in [1 .. n -> 1 .. Len(c)]
  BY <1>11, <1>12 DEF pp, qq
<1>14. ASSUME NEW i \in 1 .. n
       PROVE  shorter[i] = c[pp[i]] /\ c[qq[i]] = d[q[next(i)]]
  <2>1. track[i] = d[p[i]]
    BY <1>1, <1>6 DEF Opened
  <2>2. d[pp[i]] = c[pp[i]]
    BY <1>4, <1>12
  <2>3. d[qq[i]] = c[qq[i]]
    BY <1>4, <1>11
  <2>4. shorter[i] = track[i] /\ pp[i] = p[i] /\ qq[i] = q[next(i)]
    BY <1>5, <1>9
  <2>5. shorter[i] = c[pp[i]]
    BY <2>1, <2>2, <2>4
  <2>6. c[qq[i]] = d[q[next(i)]]
    BY <2>3, <2>4
  <2>7. QED BY <2>5, <2>6
<1>15. \A i \in 1 .. n : c[qq[i]] \in open \ {op}
  <2> TAKE i \in 1 .. n
  <2>1. PICK j \in 1 .. Len(track) : j = next(i) /\ j # k
    BY <1>6
  <2>2. d[q[j]] \in open
    BY <1>1 DEF Opened
  <2>3. d[q[j]] # op
    BY <1>1, <1>2, <2>1 DEF Opened
  <2>4. c[qq[i]] = d[q[j]]
    BY <1>14, <2>1
  <2>5. QED BY <2>2, <2>3, <2>4
<1>16. \A i, j \in 1 .. n : i < j => qq[i] < qq[j]
  BY <1>1, <1>6, <1>7, <1>9 DEF Opened
<1>17. ASSUME NEW i \in 1 .. n, NEW j \in 1 .. n, c[qq[i]] = c[qq[j]]
       PROVE  i = j
  <2>1. d[q[next(i)]] = d[q[next(j)]]
    BY <1>14, <1>17
  <2>2. next(i) = next(j)
    BY <1>1, <1>6, <2>1 DEF Opened
  <2>3. QED BY <1>7, <2>2
<1>18. \A x \in open \ {op} : \E i \in 1 .. n : c[qq[i]] = x
  <2> TAKE x \in open \ {op}
  <2>1. PICK i \in 1 .. Len(track) : d[q[i]] = x
    BY <1>1 DEF Opened
  <2>2. PICK j \in 1 .. n : next(j) = i
    BY <1>2, <1>8, <2>1
  <2>3. c[qq[j]] = x
    BY <1>14, <2>1, <2>2
  <2>4. QED BY <2>3
<1>19. Opened(shorter, open \ {op}, c, pp, qq)
  BY <1>5, <1>11, <1>14, <1>15, <1>16, <1>17, <1>18 DEF Opened
<1>20. Nested(shorter, open \ {op}, c)
  BY <1>5, <1>13, <1>19 DEF Nested
<1>21. QED BY <1>3, <1>20 DEF shorter, n

\* GpuBegin where no call recurses: the last call is opened as well.
LEMMA AllOpenedBegin ==
  ASSUME NEW track \in Seq(Ops), NEW open \in SUBSET Ops, NEW c \in Seq(Ops), NEW op \in Ops,
         NEW n \in Nat, AllOpened(track, open, c, n)
  PROVE  AllOpened(Append(track, op), open \cup {op}, Append(c, op), n)
<1> DEFINE d == Append(c, op)
           longer == Append(track, op)
<1>1. Len(c) \in Nat /\ Len(track) \in Nat /\ Len(track) = Len(c) - n /\ n <= Len(c)
  BY DEF AllOpened
<1>2. Len(d) = Len(c) + 1 /\ d[Len(c) + 1] = op /\ \A i \in 1 .. Len(c) : d[i] = c[i]
  OBVIOUS
<1>3. /\ Len(longer) = Len(track) + 1 /\ longer[Len(track) + 1] = op
      /\ \A i \in 1 .. Len(track) : longer[i] = track[i]
  OBVIOUS
<1> HIDE DEF d, longer
<1>4. n <= Len(d) /\ Len(longer) = Len(d) - n
  BY <1>1, <1>2, <1>3
<1>5. ASSUME NEW i \in 1 .. Len(longer)
      PROVE  longer[i] = d[n + i]
  <2>1. CASE i = Len(track) + 1
    BY <1>1, <1>2, <1>3, <2>1
  <2>2. CASE i \in 1 .. Len(track)
    <3>1. n + i \in 1 .. Len(c) /\ track[i] = c[n + i]
      BY <1>1, <2>2 DEF AllOpened
    <3>2. QED BY <1>2, <1>3, <2>2, <3>1
  <2>3. QED BY <1>1, <1>3, <2>1, <2>2
<1>6. open \cup {op} = {d[i] : i \in n + 1 .. Len(d)}
  <2>1. open = {c[i] : i \in n + 1 .. Len(c)}
    BY DEF AllOpened
  <2>2. \A i \in n + 1 .. Len(d) : i = Len(c) + 1 \/ i \in n + 1 .. Len(c)
    BY <1>1, <1>2
  <2>3. Len(c) + 1 \in n + 1 .. Len(d) /\ \A i \in n + 1 .. Len(c) : i \in n + 1 .. Len(d)
    BY <1>1, <1>2
  <2>4. \A i \in n + 1 .. Len(c) : d[i] = c[i]
    BY <1>1, <1>2
  <2>5. QED BY <1>2, <2>1, <2>2, <2>3, <2>4
<1>7. QED BY <1>4, <1>5, <1>6 DEF AllOpened, d, longer

\* Where no call recurses, the last call is open unless it was there from the start.
LEMMA AllOpenedLast ==
  ASSUME NEW track \in Seq(Ops), NEW open \in SUBSET Ops, NEW c \in Seq(Ops), NEW op \in Ops,
         NEW n \in Nat, AllOpened(track, open, Append(c, op), n), n <= Len(c)
  PROVE  op \in open
<1>1. /\ Len(Append(c, op)) = Len(c) + 1 /\ Len(c) \in Nat
      /\ Append(c, op)[Len(c) + 1] = op
  OBVIOUS
<1>2. Len(c) + 1 \in n + 1 .. Len(Append(c, op))
  BY <1>1
<1>3. QED BY <1>1, <1>2 DEF AllOpened

\* GpuEnd where no call recurses: the slice it closes is the one of the call that ended.
LEMMA AllOpenedEnd ==
  ASSUME NEW track \in Seq(Ops), NEW open \in SUBSET Ops, NEW c \in Seq(Ops), NEW op \in Ops,
         NEW n \in Nat, AllOpened(track, open, Append(c, op), n), n <= Len(c),
         Distinct(Append(c, op))
  PROVE  AllOpened(SubSeq(track, 1, Len(track) - 1), open \ {op}, c, n)
<1> DEFINE d == Append(c, op)
           m == Len(track) - 1
           shorter == SubSeq(track, 1, m)
<1>1. Len(d) = Len(c) + 1 /\ d[Len(c) + 1] = op /\ \A i \in 1 .. Len(c) : d[i] = c[i]
  OBVIOUS
<1>2. Len(c) \in Nat /\ Len(track) = Len(c) + 1 - n /\ m = Len(c) - n /\ m \in Nat
  BY <1>1 DEF AllOpened
<1>3. Len(shorter) = m /\ \A i \in 1 .. m : shorter[i] = track[i]
  <2>1. \A i \in 1 .. m : track[i] \in Ops
    BY <1>2
  <2> HIDE DEF m
  <2>2. /\ Len(shorter) = IF 1 <= m THEN m - 1 + 1 ELSE 0
        /\ \A i \in 1 .. m - 1 + 1 : shorter[i] = track[1 + i - 1]
    BY <1>2, <2>1, SubSeqProperties
  <2>3. QED BY <1>2, <2>2
<1>4. \A i \in 1 .. Len(track) : track[i] = d[n + i]
  BY DEF AllOpened
<1>5. open = {d[i] : i \in n + 1 .. Len(d)}
  BY DEF AllOpened
<1>6. \A i, j \in 1 .. Len(d) : d[i] = d[j] => i = j
  BY DEF Distinct
<1> HIDE DEF d, shorter, m
<1>7. \A i \in 1 .. m : shorter[i] = c[n + i]
  <2> TAKE i \in 1 .. m
  <2>1. i \in 1 .. Len(track) /\ n + i \in 1 .. Len(c)
    BY <1>2
  <2>2. QED BY <1>1, <1>3, <1>4, <2>1
<1>8. open \ {op} = {c[i] : i \in n + 1 .. Len(c)}
  <2>1. \A i \in n + 1 .. Len(d) : i = Len(c) + 1 \/ i \in n + 1 .. Len(c)
    BY <1>1, <1>2
  <2>2. ASSUME NEW i \in n + 1 .. Len(c)
        PROVE  i \in n + 1 .. Len(d) /\ d[i] = c[i] /\ d[i] # op
    <3>1. i \in 1 .. Len(c) /\ i \in n + 1 .. Len(d)
      BY <1>1, <1>2
    <3>2. d[i] = c[i]
      BY <1>1, <3>1
    <3>3. i \in 1 .. Len(d) /\ Len(c) + 1 \in 1 .. Len(d) /\ i # Len(c) + 1
      BY <1>1, <1>2, <3>1
    <3>4. QED BY <1>1, <1>6, <3>1, <3>2, <3>3
  <2>3. QED BY <1>1, <1>5, <2>1, <2>2
<1>9. QED BY <1>2, <1>3, <1>7, <1>8 DEF AllOpened, shorter, m

-----------------------------------------------------------------------------
\* Nestings are sequences of calls, and of different calls unless the thread recurses.
LEMMA NestingsAre ==
  ASSUME NEW t, NEW c \in Nestings(t)
  PROVE  c \in Seq(Ops) /\ (t \notin Recursive => Distinct(c))
<1>1. PICK n \in 0 .. MaxNest : c \in [1 .. n -> Ops]
  BY DEF Nestings
<1>2. n \in Nat
  BY ProcessAssumption
<1>3. c \in Seq(Ops) /\ DOMAIN c = 1 .. Len(c)
  BY <1>1, <1>2
<1>4. t \notin Recursive => \A i, j \in DOMAIN c : c[i] = c[j] => i = j
  BY DEF Nestings, IsInjective
<1>5. QED BY <1>3, <1>4 DEF Distinct

\* A function that is entered or left makes its probes fire, all with the same sample.
LEMMA Fired ==
  ASSUME ProcessTypes, NEW t \in Tids, NEW sample \in Sample, Fire(t, sample)
  PROVE  /\ due' \in [Tids -> Seq(Sample)]
         /\ due'[t] # <<>> /\ due'[t][1] = sample
         /\ \A u \in Tids : \A k \in 1 .. Len(due'[u]) : due'[u][k] = due'[u][1]
         /\ \A u \in Tids \ {t} : due'[u] = due[u]
<1>1. PICK n \in 1 .. MaxProbes : due' = [due EXCEPT ![t] = [k \in 1 .. n |-> sample]]
  BY DEF Fire
<1> DEFINE s == [k \in 1 .. n |-> sample]
<1>2. n \in Nat /\ n >= 1
  BY ProcessAssumption
<1>3. s \in Seq(Sample) /\ Len(s) = n /\ \A k \in 1 .. n : s[k] = sample
  BY <1>2
<1>4. s # <<>> /\ s[1] = sample
  BY <1>2, <1>3
<1> HIDE DEF s
<1>5. due' = [due EXCEPT ![t] = s]
  BY <1>1 DEF s
<1>6. due \in [Tids -> Seq(Sample)]
  BY DEF ProcessTypes
<1>7. due'[t] = s /\ \A u \in Tids \ {t} : due'[u] = due[u]
  BY <1>5, <1>6
<1>8. due' \in [Tids -> Seq(Sample)]
  BY <1>3, <1>5, <1>6
<1>9. ASSUME NEW u \in Tids, NEW k \in 1 .. Len(due'[u])
      PROVE  due'[u][k] = due'[u][1]
  <2>1. CASE u = t
    BY <1>3, <1>4, <1>7, <1>9, <2>1
  <2>2. CASE u # t
    BY <1>7, <1>9, <2>2 DEF ProcessTypes
  <2>3. QED BY <2>1, <2>2
<1>10. QED BY <1>4, <1>7, <1>8, <1>9

\* The samples that are still due after one has been handled are the same as that one.
LEMMA Taken ==
  ASSUME ProcessTypes, NEW t \in Tids, ~Idle(t), due' = [due EXCEPT ![t] = Tail(@)]
  PROVE  /\ due' \in [Tids -> Seq(Sample)]
         /\ Head(due[t]) = due[t][1] /\ due[t][1] \in Sample
         /\ due'[t] = <<>> \/ due'[t][1] = due[t][1]
         /\ \A u \in Tids : \A k \in 1 .. Len(due'[u]) : due'[u][k] = due'[u][1]
         /\ \A u \in Tids \ {t} : due'[u] = due[u]
<1>1. due \in [Tids -> Seq(Sample)] /\ due[t] \in Seq(Sample) /\ due[t] # <<>>
  BY DEF ProcessTypes, Idle
<1>2. PICK s \in Seq(Sample) : s = due[t]
  BY <1>1
<1>3. /\ Tail(s) \in Seq(Sample) /\ Len(Tail(s)) = Len(s) - 1 /\ Len(s) \in Nat /\ Len(s) >= 1
      /\ \A k \in 1 .. Len(s) - 1 : Tail(s)[k] = s[k + 1]
      /\ Head(s) = s[1] /\ s[1] \in Sample
  BY <1>1, <1>2
<1>4. \A k \in 1 .. Len(s) : s[k] = s[1]
  BY <1>2 DEF ProcessTypes
<1>5. \A k \in 1 .. Len(Tail(s)) : Tail(s)[k] = s[1]
  BY <1>3, <1>4
<1>6. Tail(s) = <<>> \/ Tail(s)[1] = s[1]
  BY <1>3, <1>5
<1>7. due'[t] = Tail(s) /\ \A u \in Tids \ {t} : due'[u] = due[u]
  BY <1>1, <1>2
<1>8. due' \in [Tids -> Seq(Sample)]
  BY <1>1, <1>2, <1>3
<1>9. ASSUME NEW u \in Tids, NEW k \in 1 .. Len(due'[u])
      PROVE  due'[u][k] = due'[u][1]
  <2>1. CASE u = t
    <3>1. Len(Tail(s)) \in Nat /\ k \in 1 .. Len(Tail(s)) /\ 1 \in 1 .. Len(Tail(s))
      BY <1>3, <1>7, <1>9, <2>1
    <3>2. QED BY <1>5, <1>7, <2>1, <3>1
  <2>2. CASE u # t
    BY <1>7, <1>9, <2>2 DEF ProcessTypes
  <2>3. QED BY <2>1, <2>2
<1>10. QED BY <1>2, <1>3, <1>6, <1>7, <1>8, <1>9

-----------------------------------------------------------------------------
\* A probe of take_gil, its return or drop_gil is due; a probe of a CUDA or NCCL call.
GilDue(t) == Pending(t, "take_gil") \/ Pending(t, "take_gil_return") \/ Pending(t, "drop_gil")
GpuDue(t) == Pending(t, "begin") \/ Pending(t, "end")

\* The maps and the track of t stay as they are.
GilSame(t) ==
  /\ gilTrack'[t] = gilTrack[t]
  /\ t \in gilStart' <=> t \in gilStart
  /\ t \in gilHeld' <=> t \in gilHeld
GpuSame(t) == gpuTrack'[t] = gpuTrack[t] /\ gpuOpen'[t] = gpuOpen[t]

\* What other threads do.
LEMMA GilFrame ==
  ASSUME NEW t, GilThread(t), GilSame(t), gil'[t] = gil[t], t \in seen' <=> t \in seen,
         due'[t] = due[t]
  PROVE  GilThread(t)'
BY DEF GilThread, GilShows, Pending, GilSame

\* The same for the GPU track.
LEMMA GpuFrame ==
  ASSUME NEW t, GpuThread(t), GpuSame(t), calls'[t] = calls[t], early'[t] = early[t],
         due'[t] = due[t]
  PROVE  GpuThread(t)'
BY DEF GpuThread, GpuShows, Pending, PendingOp, GpuSame

\* What the thread does in its calls is nothing to the GIL, and the other way round.
LEMMA GilQuiet ==
  ASSUME NEW t, GilThread(t), GilSame(t), gil'[t] = gil[t], t \in seen' <=> t \in seen,
         ~GilDue(t), ~GilDue(t)'
  PROVE  GilThread(t)'
BY DEF GilThread, GilShows, GilDue, GilSame

\* The same for the GPU track.
LEMMA GpuQuiet ==
  ASSUME NEW t, GpuThread(t), GpuSame(t), calls'[t] = calls[t], early'[t] = early[t],
         ~GpuDue(t), ~GpuDue(t)'
  PROVE  GpuThread(t)'
BY DEF GpuThread, GpuShows, GpuDue, GpuSame

\* A step that runs no handler leaves every thread's tracks alone.
LEMMA ProbesSame ==
  ASSUME UNCHANGED probeVars
  PROVE  \A t : GilSame(t) /\ GpuSame(t)
BY DEF probeVars, gilVars, gpuVars, GilSame, GpuSame

\* No probe is due of an idle thread.
LEMMA IdleDue ==
  ASSUME NEW t, Idle(t)
  PROVE  ~GilDue(t) /\ ~GpuDue(t)
BY DEF Idle, GilDue, GpuDue, Pending

-----------------------------------------------------------------------------
\* Nothing has been sampled when recording starts, wherever the threads are.
LEMMA ProcessInitInv == ProcessInit => PInv
<1> SUFFICES ASSUME ProcessInit PROVE PInv
  OBVIOUS
<1>1. Inv
  BY InitInv DEF ProcessInit
<1>2. ASSUME NEW t \in Tids
      PROVE  /\ calls[t] \in Seq(Ops) /\ (t \notin Recursive => Distinct(calls[t]))
             /\ early[t] = Len(calls[t]) /\ Len(calls[t]) \in Nat
  <2>1. calls[t] \in Nestings(t) /\ early[t] = Len(calls[t])
    BY DEF ProcessInit
  <2>2. calls[t] \in Seq(Ops) /\ (t \notin Recursive => Distinct(calls[t]))
    BY <2>1, NestingsAre
  <2>3. QED BY <2>1, <2>2
<1>3. ProcessTypes
  <2>1. calls \in [Tids -> Seq(Ops)]
    <3>1. DOMAIN calls = Tids /\ calls = [t \in DOMAIN calls |-> calls[t]]
      BY DEF ProcessInit
    <3>2. QED BY <1>2, <3>1
  <2>2. early \in [Tids -> Nat] /\ \A t \in Tids : early[t] <= Len(calls[t])
    <3>1. DOMAIN early = Tids /\ early = [t \in DOMAIN early |-> early[t]]
      BY DEF ProcessInit
    <3>2. QED BY <1>2, <3>1
  <2>3. gil \in [Tids -> {"none", "acquiring", "holding", "dropping"}]
    BY DEF ProcessInit
  <2>4. /\ due \in [Tids -> Seq(Sample)]
        /\ \A t \in Tids : \A k \in 1 .. Len(due[t]) : due[t][k] = due[t][1]
    <3>1. <<>> \in Seq(Sample) /\ Len(<<>>) = 0
      OBVIOUS
    <3>2. due = [t \in Tids |-> <<>>]
      BY DEF ProcessInit
    <3>3. QED BY <3>1, <3>2
  <2>5. QED BY <1>2, <2>1, <2>2, <2>3, <2>4 DEF ProcessTypes
<1>4. ASSUME NEW t \in Tids
      PROVE  GilThread(t) /\ GpuThread(t)
  <2>1. Idle(t)
    BY DEF ProcessInit, Idle
  <2>2. GilShows(t, gil[t])
    BY DEF ProcessInit, Init, GilShows
  <2>3. gpuTrack[t] = <<>> /\ gpuOpen[t] = {} /\ Len(<<>>) = 0
    BY DEF ProcessInit, Init
  <2>4. Nested(<<>>, {}, calls[t])
    <3> DEFINE none == [i \in 1 .. 0 |-> 1]
    <3>1. none \in [1 .. 0 -> 1 .. Len(calls[t])] /\ \A i \in 1 .. 0 : FALSE
      OBVIOUS
    <3> HIDE DEF none
    <3>2. Opened(<<>>, {}, calls[t], none, none)
      BY <2>3, <3>1 DEF Opened
    <3>3. QED BY <2>3, <3>1, <3>2 DEF Nested
  <2>5. AllOpened(<<>>, {}, calls[t], early[t])
    BY <1>2, <2>3 DEF AllOpened
  <2>6. QED
    BY <2>1, <2>2, <2>3, <2>4, <2>5, IdleDue DEF GilThread, GpuThread, GilDue, GpuDue, GpuShows
<1>5. QED BY <1>1, <1>3, <1>4, ProbeAssumption DEF PInv, Followed

-----------------------------------------------------------------------------
\* A step of the process that writes nothing to the trace: of the thread that takes it,
\* what the track will show is left to prove.
LEMMA Unwritten ==
  ASSUME PInv, NEW t \in Tids, UNCHANGED probeVars, feed' = feed, feed = "process",
         ProcessTypes',
         \A u \in Tids \ {t} : /\ due'[u] = due[u] /\ gil'[u] = gil[u]
                               /\ u \in seen' <=> u \in seen
                               /\ calls'[u] = calls[u] /\ early'[u] = early[u],
         t \in GilShown => GilThread(t)', t \in GpuShown => GpuThread(t)'
  PROVE  PInv'
<1>1. Inv'
  BY SkipInv DEF PInv
<1>2. \A u \in GilShown : GilThread(u)'
  BY ProbesSame, GilFrame, ProbeAssumption DEF PInv, Followed
<1>3. \A u \in GpuShown : GpuThread(u)'
  BY ProbesSame, GpuFrame, ProbeAssumption DEF PInv, Followed
<1>4. Followed'
  BY <1>2, <1>3 DEF Followed
<1>5. QED BY <1>1, <1>4 DEF PInv

\* Entering a call: the track still shows the calls before it until its probe is handled.
LEMMA CallInv ==
  ASSUME PInv, feed = "process", feed' = feed, NEW t \in Tids, NEW op \in Ops, Call(t, op)
  PROVE  PInv'
<1> DEFINE sample == [probe |-> "begin", op |-> op]
<1>1. /\ Idle(t) /\ Append(calls[t], op) \in Nestings(t)
      /\ calls' = [calls EXCEPT ![t] = Append(@, op)]
      /\ Fire(t, sample)
      /\ UNCHANGED <<probeVars, early, gil, seen>>
  BY DEF Call
<1>2. sample \in Sample /\ sample.probe = "begin" /\ sample.op = op
  BY DEF Sample
<1> HIDE DEF sample
<1>3. /\ due' \in [Tids -> Seq(Sample)]
      /\ due'[t] # <<>> /\ due'[t][1] = sample
      /\ \A u \in Tids : \A k \in 1 .. Len(due'[u]) : due'[u][k] = due'[u][1]
      /\ \A u \in Tids \ {t} : due'[u] = due[u]
  BY <1>1, <1>2, Fired DEF PInv
<1>4. /\ calls \in [Tids -> Seq(Ops)] /\ early \in [Tids -> Nat]
      /\ early[t] <= Len(calls[t]) /\ calls[t] \in Seq(Ops)
  BY DEF PInv, ProcessTypes
<1>5. /\ calls'[t] = Append(calls[t], op) /\ calls'[t] \in Seq(Ops)
      /\ Len(calls'[t]) = Len(calls[t]) + 1 /\ Len(calls[t]) \in Nat
      /\ \A u \in Tids \ {t} : calls'[u] = calls[u]
  BY <1>1, <1>4
<1>6. ProcessTypes'
  <2>1. calls' \in [Tids -> Seq(Ops)]
    BY <1>1, <1>4, <1>5
  <2>2. \A u \in Tids \ Recursive : Distinct(calls'[u])
    BY <1>1, <1>5, NestingsAre DEF PInv, ProcessTypes
  <2>3. \A u \in Tids : early'[u] <= Len(calls'[u])
    BY <1>1, <1>4, <1>5 DEF PInv, ProcessTypes
  <2>4. QED BY <1>1, <1>3, <2>1, <2>2, <2>3 DEF PInv, ProcessTypes
<1>7. Pending(t, "begin")' /\ ~GilDue(t)' /\ PendingOp(t)' = op /\ ~Pending(t, "end")'
  BY <1>2, <1>3 DEF Pending, GilDue, PendingOp
<1>8. t \in GilShown => GilThread(t)'
  BY <1>1, <1>7, GilQuiet, ProbesSame, IdleDue DEF PInv, Followed
<1>9. t \in GpuShown => GpuThread(t)'
  <2> HAVE t \in GpuShown
  <2>1. GpuShows(t, calls[t])
    BY <1>1 DEF PInv, Followed, GpuThread, Idle, Pending
  <2>2. PICK c \in Seq(Ops) : c = calls[t]
    BY <1>4
  <2>3. GpuShows(t, c)'
    BY <1>1, <2>1, <2>2, ProbesSame DEF GpuShows, GpuSame
  <2>4. calls'[t] = Append(c, op)
    BY <1>5, <2>2
  <2>5. QED BY <1>7, <2>3, <2>4 DEF GpuThread
<1>10. QED
  BY <1>1, <1>3, <1>5, <1>6, <1>8, <1>9, Unwritten

\* Leaving a call: one that the recording saw begin is still shown until its probe is
\* handled; one from before the recording has never been shown.
LEMMA ReturnInv ==
  ASSUME PInv, feed = "process", feed' = feed, NEW t \in Tids, Return(t)
  PROVE  PInv'
<1>1. /\ calls \in [Tids -> Seq(Ops)] /\ early \in [Tids -> Nat]
      /\ early[t] <= Len(calls[t]) /\ calls[t] \in Seq(Ops)
      /\ t \notin Recursive => Distinct(calls[t])
  BY DEF PInv, ProcessTypes
<1>2. calls[t] # <<>>
  BY DEF Return
<1>3. PICK c \in Seq(Ops), op \in Ops : calls[t] = Append(c, op) /\ c = Front(calls[t])
                                        /\ op = Last(calls[t])
  <2>1. PICK s \in Seq(Ops) : s = calls[t] /\ s # <<>>
    BY <1>1, <1>2
  <2>2. Len(s) \in Nat /\ Len(s) >= 1 /\ s[Len(s)] \in Ops
    BY <2>1
  <2>3. Front(s) = SubSeq(s, 1, Len(s) - 1) /\ Last(s) = s[Len(s)]
    BY DEF Front, Last
  <2> DEFINE n == Len(s) - 1
  <2>4. n \in Nat /\ \A i \in 1 .. n : s[i] \in Ops
    BY <2>2
  <2> HIDE DEF n
  <2>5. /\ SubSeq(s, 1, n) \in Seq(Ops)
        /\ Len(SubSeq(s, 1, n)) = IF 1 <= n THEN n - 1 + 1 ELSE 0
        /\ \A i \in 1 .. n - 1 + 1 : SubSeq(s, 1, n)[i] = s[1 + i - 1]
    BY <2>4, SubSeqProperties
  <2>6. PICK f \in Seq(Ops) : f = SubSeq(s, 1, n)
    BY <2>5
  <2>7. Len(f) = n /\ \A i \in 1 .. n : f[i] = s[i]
    BY <2>4, <2>5, <2>6
  <2>8. s = Append(f, s[Len(s)])
    BY <2>2, <2>7 DEF n
  <2>9. QED BY <2>1, <2>2, <2>3, <2>6, <2>8 DEF n
<1> DEFINE sample == [probe |-> "end", op |-> op]
<1>4. /\ Idle(t)
      /\ calls' = [calls EXCEPT ![t] = c]
      /\ early' = [early EXCEPT ![t] = IF @ < Len(calls[t]) THEN @ ELSE @ - 1]
      /\ Fire(t, sample)
      /\ UNCHANGED <<probeVars, gil, seen>>
  BY <1>3 DEF Return
<1>5. sample \in Sample /\ sample.probe = "end" /\ sample.op = op
  BY DEF Sample
<1> HIDE DEF sample
<1>6. /\ due' \in [Tids -> Seq(Sample)]
      /\ due'[t] # <<>> /\ due'[t][1] = sample
      /\ \A u \in Tids : \A k \in 1 .. Len(due'[u]) : due'[u][k] = due'[u][1]
      /\ \A u \in Tids \ {t} : due'[u] = due[u]
  BY <1>4, <1>5, Fired DEF PInv
<1>7. /\ Len(calls[t]) = Len(c) + 1 /\ Len(c) \in Nat
      /\ \A i \in 1 .. Len(c) : Append(c, op)[i] = c[i]
  BY <1>3
<1>8. /\ calls'[t] = c /\ \A u \in Tids \ {t} : calls'[u] = calls[u] /\ early'[u] = early[u]
      /\ early'[t] \in Nat /\ early'[t] <= Len(c)
      /\ early[t] <= Len(c) => early'[t] = early[t]
      /\ early[t] > Len(c) => early'[t] = Len(c) /\ early[t] = Len(calls[t])
  BY <1>1, <1>4, <1>7
<1>9. ProcessTypes'
  <2>1. calls' \in [Tids -> Seq(Ops)]
    BY <1>1, <1>4
  <2>2. ASSUME NEW u \in Tids \ Recursive
        PROVE  Distinct(calls'[u])
    <3>1. CASE u = t
      <4>1. Distinct(Append(c, op)) /\ Len(Append(c, op)) = Len(c) + 1
        BY <1>1, <1>3, <1>7, <2>2, <3>1
      <4>2. \A i \in 1 .. Len(c) : i \in 1 .. Len(c) + 1
        BY <1>7
      <4>3. QED BY <1>7, <1>8, <3>1, <4>1, <4>2 DEF Distinct
    <3>2. CASE u # t
      BY <1>8, <3>2 DEF PInv, ProcessTypes
    <3>3. QED BY <3>1, <3>2
  <2>3. early' \in [Tids -> Nat]
    BY <1>1, <1>4, <1>8
  <2>4. \A u \in Tids : early'[u] <= Len(calls'[u])
    BY <1>8 DEF PInv, ProcessTypes
  <2>5. QED BY <1>4, <1>6, <2>1, <2>2, <2>3, <2>4 DEF PInv, ProcessTypes
<1>10. Pending(t, "end")' /\ ~GilDue(t)' /\ PendingOp(t)' = op /\ ~Pending(t, "begin")'
  BY <1>5, <1>6 DEF Pending, GilDue, PendingOp
<1>11. t \in GilShown => GilThread(t)'
  BY <1>4, <1>10, GilQuiet, ProbesSame, IdleDue DEF PInv, Followed
<1>12. t \in GpuShown => GpuThread(t)'
  <2> HAVE t \in GpuShown
  <2>1. PICK track \in Seq(Ops), open \in SUBSET Ops : track = gpuTrack[t] /\ open = gpuOpen[t]
    BY DEF PInv, Inv, TypeOK
  <2>2. gpuTrack'[t] = track /\ gpuOpen'[t] = open
    BY <1>4, <2>1, ProbesSame DEF GpuSame
  <2>3. /\ Nested(track, open, Append(c, op))
        /\ t \notin Recursive => AllOpened(track, open, Append(c, op), early[t])
    BY <1>3, <1>4, <2>1 DEF PInv, Followed, GpuThread, GpuShows, Idle, Pending
  <2>4. CASE t \notin Recursive /\ early[t] > Len(c)
    <3>1. Len(Append(c, op)) = Len(c) + 1 /\ early[t] = Len(c) + 1 /\ early'[t] = Len(c)
      BY <1>3, <1>7, <1>8, <2>4
    <3>2. Len(track) = 0 /\ open = {}
      BY <1>7, <2>3, <2>4, <3>1 DEF AllOpened
    <3>3. AllOpened(track, open, c, early'[t])
      BY <1>7, <3>1, <3>2 DEF AllOpened
    <3>4. Nested(track, open, c)
      BY <2>3, <3>2, NestedShorter
    <3>5. QED BY <1>8, <1>10, <2>2, <3>2, <3>3, <3>4 DEF GpuThread, GpuShows
  <2>5. CASE t \notin Recursive /\ early[t] <= Len(c)
    <3>1. early'[t] = early[t] /\ Distinct(Append(c, op))
      BY <1>1, <1>3, <1>8, <2>5
    <3>2. QED BY <1>8, <1>10, <2>2, <2>3, <2>5, <3>1 DEF GpuThread, GpuShows
  <2>6. CASE t \in Recursive
    <3>1. GpuShows(t, Append(c, op))'
      BY <2>2, <2>3, <2>6 DEF GpuShows
    <3>2. QED BY <1>8, <1>10, <2>6, <3>1 DEF GpuThread
  <2>7. QED
    <3>1. early[t] \in Nat
      BY <1>1
    <3>2. early[t] > Len(c) \/ early[t] <= Len(c)
      BY <1>7, <3>1
    <3>3. QED BY <2>4, <2>5, <2>6, <3>2
<1>13. QED
  BY <1>4, <1>6, <1>8, <1>9, <1>11, <1>12, Unwritten

\* The threads' steps on the GIL: what the track shows is their state before the step,
\* and the sample that fires says so.
LEMMA GilStepInv ==
  ASSUME PInv, feed = "process", feed' = feed, NEW t \in Tids, Idle(t),
         NEW probe \in {"take_gil", "take_gil_return", "drop_gil"},
         Fire(t, [probe |-> probe]),
         gil' = [gil EXCEPT ![t] = CASE probe = "take_gil" -> "acquiring"
                                     [] probe = "take_gil_return" -> "holding"
                                     [] probe = "drop_gil" -> "dropping"],
         gil[t] = CASE probe = "take_gil" -> "none"
                    [] probe = "take_gil_return" -> "acquiring"
                    [] probe = "drop_gil" -> "holding",
         seen' = IF probe = "take_gil" THEN seen \cup {t} ELSE seen,
         UNCHANGED <<probeVars, calls, early>>
  PROVE  PInv'
<1> DEFINE sample == [probe |-> probe]
<1>1. sample \in Sample /\ sample.probe = probe
  BY DEF Sample
<1> HIDE DEF sample
<1>2. Fire(t, sample)
  BY DEF sample
<1>3. /\ due' \in [Tids -> Seq(Sample)]
      /\ due'[t] # <<>> /\ due'[t][1] = sample
      /\ \A u \in Tids : \A k \in 1 .. Len(due'[u]) : due'[u][k] = due'[u][1]
      /\ \A u \in Tids \ {t} : due'[u] = due[u]
  BY <1>1, <1>2, Fired DEF PInv
<1>4. gil \in [Tids -> {"none", "acquiring", "holding", "dropping"}]
  BY DEF PInv, ProcessTypes
<1>5. PICK g \in {"acquiring", "holding", "dropping"} :
        /\ gil' = [gil EXCEPT ![t] = g]
        /\ g = CASE probe = "take_gil" -> "acquiring"
                 [] probe = "take_gil_return" -> "holding"
                 [] probe = "drop_gil" -> "dropping"
  BY Zenon
<1>6. /\ gil' \in [Tids -> {"none", "acquiring", "holding", "dropping"}]
      /\ gil'[t] = g /\ \A u \in Tids \ {t} : gil'[u] = gil[u]
  BY <1>4, <1>5
<1>7. ProcessTypes'
  BY <1>3, <1>6 DEF PInv, ProcessTypes
<1>8. \A u \in Tids \ {t} : u \in seen' <=> u \in seen
  OBVIOUS
<1>9. \A x : Pending(t, x)' <=> x = probe
  BY <1>1, <1>3 DEF Pending
<1>10. t \in GpuShown => GpuThread(t)'
  BY <1>9, GpuQuiet, ProbesSame, IdleDue DEF PInv, Followed, GpuDue
<1>11. t \in GilShown => GilThread(t)'
  <2> HAVE t \in GilShown
  <2>1. GilShows(t, gil[t])
    BY DEF PInv, Followed, GilThread, Idle, Pending
  <2>2. GilSame(t)
    BY ProbesSame
  <2>3. CASE probe = "take_gil"
    <3>1. gil[t] = "none" /\ g = "acquiring" /\ t \in seen'
      BY <1>5, <2>3
    <3>2. GilShows(t, "none")'
      BY <2>1, <2>2, <3>1 DEF GilShows, GilSame
    <3>3. QED BY <1>6, <1>9, <2>3, <3>1, <3>2 DEF GilThread
  <2>4. CASE probe = "take_gil_return"
    <3>1. gil[t] = "acquiring" /\ g = "holding" /\ seen' = seen
      BY <1>5, <2>4
    <3>2. GilShows(t, "acquiring")'
      BY <2>1, <2>2, <3>1 DEF GilShows, GilSame
    <3>3. QED BY <1>6, <1>9, <2>4, <3>1, <3>2 DEF GilThread
  <2>5. CASE probe = "drop_gil"
    <3>1. gil[t] = "holding" /\ g = "dropping" /\ seen' = seen
      BY <1>5, <2>5
    <3>2. GilShows(t, "holding")'
      BY <2>1, <2>2, <3>1 DEF GilShows, GilSame
    <3>3. QED BY <1>6, <1>9, <2>5, <3>1, <3>2 DEF GilThread
  <2>6. QED BY <2>3, <2>4, <2>5
<1>12. QED
  BY <1>3, <1>6, <1>7, <1>8, <1>10, <1>11, Unwritten

\* Entering take_gil.
LEMMA AskGilInv ==
  ASSUME PInv, feed = "process", feed' = feed, NEW t \in Tids, AskGil(t)
  PROVE  PInv'
<1>1. PICK probe \in {"take_gil", "take_gil_return", "drop_gil"} : probe = "take_gil"
  OBVIOUS
<1>2. /\ Fire(t, [probe |-> probe]) /\ Idle(t)
      /\ gil[t] = "none" /\ gil' = [gil EXCEPT ![t] = "acquiring"]
      /\ seen' = seen \cup {t}
      /\ UNCHANGED <<probeVars, calls, early>>
  BY <1>1 DEF AskGil
<1>3. QED BY <1>1, <1>2, GilStepInv

\* Returning from take_gil.
LEMMA GetGilInv ==
  ASSUME PInv, feed = "process", feed' = feed, NEW t \in Tids, GetGil(t)
  PROVE  PInv'
<1>1. PICK probe \in {"take_gil", "take_gil_return", "drop_gil"} : probe = "take_gil_return"
  OBVIOUS
<1>2. /\ Fire(t, [probe |-> probe]) /\ Idle(t)
      /\ gil[t] = "acquiring" /\ gil' = [gil EXCEPT ![t] = "holding"]
      /\ seen' = seen
      /\ UNCHANGED <<probeVars, calls, early>>
  BY <1>1 DEF GetGil
<1>3. QED BY <1>1, <1>2, GilStepInv

\* Entering drop_gil.
LEMMA GiveUpGilInv ==
  ASSUME PInv, feed = "process", feed' = feed, NEW t \in Tids, GiveUpGil(t)
  PROVE  PInv'
<1>1. PICK probe \in {"take_gil", "take_gil_return", "drop_gil"} : probe = "drop_gil"
  OBVIOUS
<1>2. /\ Fire(t, [probe |-> probe]) /\ Idle(t)
      /\ gil[t] = "holding" /\ gil' = [gil EXCEPT ![t] = "dropping"]
      /\ seen' = seen
      /\ UNCHANGED <<probeVars, calls, early>>
  BY <1>1 DEF GiveUpGil
<1>3. QED BY <1>1, <1>2, GilStepInv

\* Nothing is sampled when the GIL is released: drop_gil has ended the slice before.
LEMMA ReleaseGilInv ==
  ASSUME PInv, feed = "process", feed' = feed, NEW t \in Tids, ReleaseGil(t)
  PROVE  PInv'
<1>1. /\ Idle(t) /\ gil[t] = "dropping"
      /\ gil' = [gil EXCEPT ![t] = "none"]
      /\ UNCHANGED <<probeVars, calls, early, seen, due>>
  BY DEF ReleaseGil
<1>2. /\ gil' \in [Tids -> {"none", "acquiring", "holding", "dropping"}]
      /\ gil'[t] = "none" /\ \A u \in Tids \ {t} : gil'[u] = gil[u]
  BY <1>1 DEF PInv, ProcessTypes
<1>3. ProcessTypes'
  BY <1>1, <1>2 DEF PInv, ProcessTypes
<1>4. t \in GpuShown => GpuThread(t)'
  BY <1>1, GpuFrame, ProbesSame DEF PInv, Followed
<1>5. t \in GilShown => GilThread(t)'
  <2> HAVE t \in GilShown
  <2>1. GilShows(t, "dropping")
    BY <1>1 DEF PInv, Followed, GilThread, Idle, Pending
  <2>2. GilSame(t)
    BY <1>1, ProbesSame
  <2>3. GilShows(t, "none")'
    BY <1>1, <2>1, <2>2 DEF GilShows, GilSame
  <2>4. \A x : ~Pending(t, x)'
    BY <1>1 DEF Pending, Idle
  <2>5. QED BY <1>2, <2>3, <2>4 DEF GilThread
<1>6. QED BY <1>1, <1>2, <1>3, <1>4, <1>5, Unwritten

-----------------------------------------------------------------------------
\* What a handler does to the thread it is called for, and to no other.
LEMMA OneSlice ==
  ASSUME NEW N, NEW x \in N
  PROVE  /\ Append(<<>>, x) = <<x>>
         /\ <<x>> \in Seq(N) /\ <<x>> # <<>>
         /\ SubSeq(<<x>>, 1, Len(<<x>>) - 1) = <<>>
<1>1. <<x>> \in Seq(N) /\ <<x>> # <<>> /\ Len(<<x>>) = 1
  OBVIOUS
<1>2. PICK s \in Seq(N) : s = <<x>>
  BY <1>1
<1>3. SubSeq(s, 1, Len(s) - 1) \in Seq(N) /\ Len(SubSeq(s, 1, Len(s) - 1)) = 0
  BY <1>1, <1>2, FrontLength
<1>4. SubSeq(s, 1, Len(s) - 1) = <<>>
  <2>1. PICK f \in Seq(N) : f = SubSeq(s, 1, Len(s) - 1)
    BY <1>3
  <2>2. Len(f) = 0
    BY <1>3, <2>1
  <2>3. f = <<>>
    BY <2>2
  <2>4. QED BY <2>1, <2>3
<1>5. Append(<<>>, x) = <<x>>
  OBVIOUS
<1>6. QED BY <1>1, <1>2, <1>4, <1>5

\* case TakeGil skips, or opens a slice on the GIL track of the thread.
LEMMA TakeGilDoes ==
  ASSUME Inv, NEW t \in Tids, TakeGil(t)
  PROVE  \/ UNCHANGED probeVars /\ (t \in GilShown => t \in gilStart)
         \/ /\ t \in GilShown /\ t \notin gilStart
            /\ t \in gilStart' /\ gilHeld' = gilHeld
            /\ gilTrack'[t] = Append(gilTrack[t], "GIL acquire")
            /\ \A u \in Tids : GpuSame(u) /\ (u # t => GilSame(u))
<1>1. CASE UNCHANGED probeVars /\ (t \in GilShown => t \in gilStart)
  BY <1>1
<1>2. CASE ~(UNCHANGED probeVars /\ (t \in GilShown => t \in gilStart))
  <2>1. /\ t \in GilShown /\ t \notin gilStart
        /\ gilStart' = gilStart \cup {t}
        /\ gilTrack' = Begun(gilTrack, t, "GIL acquire")
        /\ UNCHANGED <<gilHeld, gpuVars, misplaced>>
    BY <1>2 DEF TakeGil, Skip
  <2>2. gilTrack \in [Tids -> Seq(GilNames)]
    BY DEF Inv, TypeOK
  <2>3. /\ gilTrack'[t] = Append(gilTrack[t], "GIL acquire")
        /\ \A u \in Tids : u # t => gilTrack'[u] = gilTrack[u]
    BY <2>1, <2>2 DEF Begun
  <2>4. \A u \in Tids : GpuSame(u) /\ (u # t => GilSame(u))
    BY <2>1, <2>3 DEF GpuSame, GilSame, gpuVars
  <2>5. QED BY <2>1, <2>3, <2>4
<1>3. QED BY <1>1, <1>2

\* case TakeGilReturn skips, or turns the acquire slice into a held slice.
LEMMA TakeGilReturnDoes ==
  ASSUME Inv, NEW t \in Tids, TakeGilReturn(t)
  PROVE  \/ UNCHANGED probeVars /\ (t \in GilShown => t \notin gilStart)
         \/ /\ t \in GilShown /\ t \in gilStart
            /\ t \notin gilStart' /\ t \in gilHeld'
            /\ gilTrack[t] = <<"GIL acquire">> => gilTrack'[t] = <<"GIL held">>
            /\ \A u \in Tids : GpuSame(u) /\ (u # t => GilSame(u))
<1>1. CASE UNCHANGED probeVars /\ (t \in GilShown => t \notin gilStart)
  BY <1>1
<1>2. CASE ~(UNCHANGED probeVars /\ (t \in GilShown => t \notin gilStart))
  <2> DEFINE mid == Ended(gilTrack, t)
  <2>1. /\ t \in GilShown /\ t \in gilStart
        /\ gilStart' = gilStart \ {t} /\ gilHeld' = gilHeld \cup {t}
        /\ gilTrack' = Begun(mid, t, "GIL held")
        /\ UNCHANGED gpuVars
    BY <1>2 DEF TakeGilReturn, Skip
  <2>2. gilTrack \in [Tids -> Seq(GilNames)]
    BY DEF Inv, TypeOK
  <2>3. /\ mid \in [Tids -> Seq(GilNames)]
        /\ \A u \in Tids \ {t} : mid[u] = gilTrack[u]
    BY <2>2, EndedDepth
  <2>4. gilTrack[t] = <<"GIL acquire">> => mid[t] = <<>>
    BY <2>2, OneSlice, GilNamesThere DEF Ended
  <2> HIDE DEF mid
  <2>5. /\ gilTrack'[t] = Append(mid[t], "GIL held")
        /\ \A u \in Tids : u # t => gilTrack'[u] = gilTrack[u]
    BY <2>1, <2>3 DEF Begun
  <2>6. \A u \in Tids : GpuSame(u) /\ (u # t => GilSame(u))
    BY <2>1, <2>5 DEF GpuSame, GilSame, gpuVars
  <2>7. gilTrack[t] = <<"GIL acquire">> => gilTrack'[t] = <<"GIL held">>
    BY <2>4, <2>5, OneSlice, GilNamesThere
  <2>8. QED BY <2>1, <2>6, <2>7
<1>3. QED BY <1>1, <1>2

\* case DropGil skips, or closes the held slice.
LEMMA DropGilDoes ==
  ASSUME Inv, NEW t \in Tids, DropGil(t)
  PROVE  \/ UNCHANGED probeVars /\ (t \in GilShown => t \notin gilHeld)
         \/ /\ t \in GilShown /\ t \in gilHeld
            /\ t \notin gilHeld' /\ gilStart' = gilStart
            /\ gilTrack[t] = <<"GIL held">> => gilTrack'[t] = <<>>
            /\ \A u \in Tids : GpuSame(u) /\ (u # t => GilSame(u))
<1>1. CASE UNCHANGED probeVars /\ (t \in GilShown => t \notin gilHeld)
  BY <1>1
<1>2. CASE ~(UNCHANGED probeVars /\ (t \in GilShown => t \notin gilHeld))
  <2>1. /\ t \in GilShown /\ t \in gilHeld
        /\ gilHeld' = gilHeld \ {t}
        /\ gilTrack' = Ended(gilTrack, t)
        /\ UNCHANGED <<gilStart, gpuVars>>
    BY <1>2 DEF DropGil, Skip
  <2>2. gilTrack \in [Tids -> Seq(GilNames)]
    BY DEF Inv, TypeOK
  <2>3. \A u \in Tids \ {t} : gilTrack'[u] = gilTrack[u]
    BY <2>1, <2>2, EndedDepth
  <2>4. gilTrack[t] = <<"GIL held">> => gilTrack'[t] = <<>>
    BY <2>1, <2>2, OneSlice, GilNamesThere DEF Ended
  <2>5. \A u \in Tids : GpuSame(u) /\ (u # t => GilSame(u))
    BY <2>1, <2>3 DEF GpuSame, GilSame, gpuVars
  <2>6. QED BY <2>1, <2>4, <2>5
<1>3. QED BY <1>1, <1>2

\* The cases of the CUDA and NCCL calls skip, or open the call's slice.
LEMMA GpuBeginDoes ==
  ASSUME Inv, NEW t \in Tids, NEW op \in Ops, GpuBegin(t, op)
  PROVE  \/ UNCHANGED probeVars /\ (t \in GpuShown => op \in gpuOpen[t])
         \/ /\ t \in GpuShown /\ op \notin gpuOpen[t]
            /\ gpuOpen'[t] = gpuOpen[t] \cup {op}
            /\ gpuTrack'[t] = Append(gpuTrack[t], op)
            /\ \A u \in Tids : GilSame(u) /\ (u # t => GpuSame(u))
<1>1. CASE UNCHANGED probeVars /\ (t \in GpuShown => op \in gpuOpen[t])
  BY <1>1
<1>2. CASE ~(UNCHANGED probeVars /\ (t \in GpuShown => op \in gpuOpen[t]))
  <2>1. /\ t \in GpuShown /\ op \notin gpuOpen[t]
        /\ gpuOpen' = [gpuOpen EXCEPT ![t] = @ \cup {op}]
        /\ gpuTrack' = Begun(gpuTrack, t, op)
        /\ UNCHANGED <<gilVars, misplaced>>
    BY <1>2 DEF GpuBegin, Skip
  <2>2. gpuTrack \in [Tids -> Seq(Ops)] /\ gpuOpen \in [Tids -> SUBSET Ops]
    BY DEF Inv, TypeOK
  <2>3. /\ gpuTrack'[t] = Append(gpuTrack[t], op) /\ gpuOpen'[t] = gpuOpen[t] \cup {op}
        /\ \A u \in Tids : u # t => gpuTrack'[u] = gpuTrack[u] /\ gpuOpen'[u] = gpuOpen[u]
    BY <2>1, <2>2 DEF Begun
  <2>4. \A u \in Tids : GilSame(u) /\ (u # t => GpuSame(u))
    BY <2>1, <2>3 DEF GpuSame, GilSame, gilVars
  <2>5. QED BY <2>1, <2>3, <2>4
<1>3. QED BY <1>1, <1>2

\* The cases of their returns skip, or close the innermost slice.
LEMMA GpuEndDoes ==
  ASSUME Inv, NEW t \in Tids, NEW op \in Ops, GpuEnd(t, op)
  PROVE  \/ UNCHANGED probeVars /\ (t \in GpuShown => op \notin gpuOpen[t])
         \/ /\ t \in GpuShown /\ op \in gpuOpen[t]
            /\ gpuOpen'[t] = gpuOpen[t] \ {op}
            /\ gpuTrack[t] # <<>> =>
                 gpuTrack'[t] = SubSeq(gpuTrack[t], 1, Len(gpuTrack[t]) - 1)
            /\ \A u \in Tids : GilSame(u) /\ (u # t => GpuSame(u))
<1>1. CASE UNCHANGED probeVars /\ (t \in GpuShown => op \notin gpuOpen[t])
  BY <1>1
<1>2. CASE ~(UNCHANGED probeVars /\ (t \in GpuShown => op \notin gpuOpen[t]))
  <2>1. /\ t \in GpuShown /\ op \in gpuOpen[t]
        /\ gpuOpen' = [gpuOpen EXCEPT ![t] = @ \ {op}]
        /\ gpuTrack' = Ended(gpuTrack, t)
        /\ UNCHANGED gilVars
    BY <1>2 DEF GpuEnd, Skip
  <2>2. gpuTrack \in [Tids -> Seq(Ops)] /\ gpuOpen \in [Tids -> SUBSET Ops]
    BY DEF Inv, TypeOK
  <2>3. /\ gpuOpen'[t] = gpuOpen[t] \ {op}
        /\ \A u \in Tids : u # t => gpuTrack'[u] = gpuTrack[u] /\ gpuOpen'[u] = gpuOpen[u]
    BY <2>1, <2>2, EndedDepth
  <2>4. gpuTrack[t] # <<>> => gpuTrack'[t] = SubSeq(gpuTrack[t], 1, Len(gpuTrack[t]) - 1)
    BY <2>1, <2>2 DEF Ended
  <2>5. \A u \in Tids : GilSame(u) /\ (u # t => GpuSame(u))
    BY <2>1, <2>3 DEF GpuSame, GilSame, gilVars
  <2>6. QED BY <2>1, <2>3, <2>4, <2>5
<1>3. QED BY <1>1, <1>2

-----------------------------------------------------------------------------
\* After a sample has been handled, samples of the same function are due or none.
LEMMA SampledDue ==
  ASSUME PInv, NEW t \in Tids, Sampled(t)
  PROVE  /\ ProcessTypes'
         /\ ~Idle(t) /\ Head(due[t]) = due[t][1] /\ due[t][1] \in Sample
         /\ \A x : Pending(t, x)' => due[t][1].probe = x
         /\ due'[t] # <<>> => PendingOp(t)' = PendingOp(t)
         /\ \A x : Pending(t, x) <=> due[t][1].probe = x
         /\ \A u \in Tids \ {t} : due'[u] = due[u]
<1>1. ~Idle(t) /\ due' = [due EXCEPT ![t] = Tail(@)] /\ UNCHANGED <<calls, early, gil, seen>>
  BY DEF Sampled
<1>2. /\ due' \in [Tids -> Seq(Sample)]
      /\ Head(due[t]) = due[t][1] /\ due[t][1] \in Sample
      /\ due'[t] = <<>> \/ due'[t][1] = due[t][1]
      /\ \A u \in Tids : \A k \in 1 .. Len(due'[u]) : due'[u][k] = due'[u][1]
      /\ \A u \in Tids \ {t} : due'[u] = due[u]
  BY <1>1, Taken DEF PInv
<1>3. ProcessTypes'
  BY <1>1, <1>2 DEF PInv, ProcessTypes
<1>4. QED BY <1>1, <1>2, <1>3 DEF Pending, PendingOp, Idle

\* What is left to prove of a handled sample: the thread it is about.
LEMMA Handled ==
  ASSUME PInv, NEW t \in Tids, feed' = feed, Sampled(t), Inv',
         \A u \in Tids : u # t => GilSame(u) /\ GpuSame(u),
         feed = "process" => /\ t \in GilShown => GilThread(t)'
                             /\ t \in GpuShown => GpuThread(t)'
  PROVE  PInv'
<1>1. /\ ProcessTypes' /\ \A u \in Tids \ {t} : due'[u] = due[u]
      /\ UNCHANGED <<calls, early, gil, seen>>
  BY SampledDue DEF Sampled
<1>2. ASSUME feed = "process"
      PROVE  Followed'
  <2>1. \A u \in GilShown : GilThread(u)'
    BY <1>1, <1>2, GilFrame, ProbeAssumption DEF PInv, Followed
  <2>2. \A u \in GpuShown : GpuThread(u)'
    BY <1>1, <1>2, GpuFrame, ProbeAssumption DEF PInv, Followed
  <2>3. QED BY <2>1, <2>2 DEF Followed
<1>3. QED BY <1>1, <1>2 DEF PInv

\* The samples of the GIL: the first one brings the track to the thread's state, which
\* makes the handler skip the others.
LEMMA SampledTakeGil ==
  ASSUME PInv, feed = "process", NEW t \in GilShown, Sampled(t), TakeGil(t),
         due[t][1].probe = "take_gil"
  PROVE  GilThread(t)'
<1>1. t \in Tids /\ Inv /\ UNCHANGED <<gil, seen>>
  BY ProbeAssumption DEF PInv, Sampled
<1>2. /\ Pending(t, "take_gil")
      /\ ~Pending(t, "take_gil_return") /\ ~Pending(t, "drop_gil")
      /\ ~Pending(t, "take_gil_return")' /\ ~Pending(t, "drop_gil")'
  BY <1>1, SampledDue
<1>3. gil[t] = "acquiring" /\ t \in seen /\ (GilShows(t, "acquiring") \/ GilShows(t, "none"))
  BY <1>2 DEF PInv, Followed, GilThread
<1>4. GilShows(t, "acquiring")'
  <2>1. CASE UNCHANGED probeVars /\ t \in gilStart
    <3>1. GilShows(t, "acquiring")
      BY <1>3, <2>1 DEF GilShows
    <3>2. GilSame(t)
      BY <2>1, ProbesSame
    <3>3. QED BY <1>1, <3>1, <3>2 DEF GilShows, GilSame
  <2>2. CASE /\ t \notin gilStart /\ t \in gilStart' /\ gilHeld' = gilHeld
             /\ gilTrack'[t] = Append(gilTrack[t], "GIL acquire")
    <3>1. gilTrack[t] = <<>> /\ t \notin gilHeld
      BY <1>3, <2>2 DEF GilShows
    <3>2. gilTrack'[t] = <<"GIL acquire">>
      BY <2>2, <3>1, OneSlice, GilNamesThere
    <3>3. QED BY <1>1, <1>3, <2>2, <3>1, <3>2 DEF GilShows
  <2>3. QED BY <1>1, <2>1, <2>2, TakeGilDoes
<1>5. QED BY <1>1, <1>2, <1>3, <1>4 DEF GilThread

\* The same when take_gil returns; a wait that began before the recording stays unshown.
LEMMA SampledTakeGilReturn ==
  ASSUME PInv, feed = "process", NEW t \in GilShown, Sampled(t), TakeGilReturn(t),
         due[t][1].probe = "take_gil_return"
  PROVE  GilThread(t)'
<1>1. t \in Tids /\ Inv /\ UNCHANGED <<gil, seen>>
  BY ProbeAssumption DEF PInv, Sampled
<1>2. /\ Pending(t, "take_gil_return")
      /\ ~Pending(t, "take_gil") /\ ~Pending(t, "drop_gil")
      /\ ~Pending(t, "take_gil")' /\ ~Pending(t, "drop_gil")'
  BY <1>1, SampledDue
<1>3. gil[t] = "holding" /\ (GilShows(t, "acquiring") \/ GilShows(t, "holding"))
  BY <1>2 DEF PInv, Followed, GilThread
<1>4. GilShows(t, "holding")'
  <2>1. CASE UNCHANGED probeVars /\ t \notin gilStart
    <3>1. GilShows(t, "holding")
      BY <1>3, <2>1 DEF GilShows
    <3>2. GilSame(t)
      BY <2>1, ProbesSame
    <3>3. QED BY <1>1, <3>1, <3>2 DEF GilShows, GilSame
  <2>2. CASE /\ t \in gilStart /\ t \notin gilStart' /\ t \in gilHeld'
             /\ gilTrack[t] = <<"GIL acquire">> => gilTrack'[t] = <<"GIL held">>
    <3>1. gilTrack[t] = <<"GIL acquire">> /\ t \in seen
      BY <1>3, <2>2 DEF GilShows
    <3>2. QED BY <1>1, <2>2, <3>1 DEF GilShows
  <2>3. QED BY <1>1, <2>1, <2>2, TakeGilReturnDoes
<1>5. QED BY <1>1, <1>2, <1>3, <1>4 DEF GilThread

\* The same when the GIL is dropped.
LEMMA SampledDropGil ==
  ASSUME PInv, feed = "process", NEW t \in GilShown, Sampled(t), DropGil(t),
         due[t][1].probe = "drop_gil"
  PROVE  GilThread(t)'
<1>1. t \in Tids /\ Inv /\ UNCHANGED <<gil, seen>>
  BY ProbeAssumption DEF PInv, Sampled
<1>2. /\ Pending(t, "drop_gil")
      /\ ~Pending(t, "take_gil") /\ ~Pending(t, "take_gil_return")
      /\ ~Pending(t, "take_gil")' /\ ~Pending(t, "take_gil_return")'
  BY <1>1, SampledDue
<1>3. gil[t] = "dropping" /\ (GilShows(t, "holding") \/ GilShows(t, "dropping"))
  BY <1>2 DEF PInv, Followed, GilThread
<1>4. GilShows(t, "dropping")'
  <2>1. CASE UNCHANGED probeVars /\ t \notin gilHeld
    <3>1. GilShows(t, "dropping")
      BY <1>3, <2>1 DEF GilShows
    <3>2. GilSame(t)
      BY <2>1, ProbesSame
    <3>3. QED BY <1>1, <3>1, <3>2 DEF GilShows, GilSame
  <2>2. CASE /\ t \in gilHeld /\ t \notin gilHeld' /\ gilStart' = gilStart
             /\ gilTrack[t] = <<"GIL held">> => gilTrack'[t] = <<>>
    <3>1. gilTrack[t] = <<"GIL held">> /\ t \notin gilStart
      BY <1>3, <2>2 DEF GilShows
    <3>2. QED BY <1>1, <2>2, <3>1 DEF GilShows
  <2>3. QED BY <1>1, <2>1, <2>2, DropGilDoes
<1>5. QED BY <1>1, <1>2, <1>3, <1>4 DEF GilThread

\* The samples of a call: the first one opens the slice, unless a call of the same name
\* is open already, and leaves the name in gpu_open_.
LEMMA SampledBegin ==
  ASSUME PInv, feed = "process", NEW t \in GpuShown, NEW op \in Ops, Sampled(t),
         GpuBegin(t, op), due[t][1].probe = "begin", op = PendingOp(t)
  PROVE  GpuThread(t)'
<1>1. t \in Tids /\ Inv /\ UNCHANGED <<calls, early>>
  BY ProbeAssumption DEF PInv, Sampled
<1>2. /\ Pending(t, "begin") /\ ~Pending(t, "end") /\ ~Pending(t, "end")'
      /\ Pending(t, "begin")' => PendingOp(t)' = op
  BY <1>1, SampledDue DEF Pending
<1>3. PICK track \in Seq(Ops), open \in SUBSET Ops : track = gpuTrack[t] /\ open = gpuOpen[t]
  BY <1>1 DEF Inv, TypeOK
<1>4. /\ early[t] \in Nat /\ early[t] <= Len(calls[t])
      /\ t \notin Recursive => Distinct(calls[t])
  BY <1>1 DEF PInv, ProcessTypes
<1>5. CASE GpuShows(t, calls[t]) /\ op \in open
  <2>1. UNCHANGED probeVars
    BY <1>1, <1>3, <1>5, GpuBeginDoes
  <2>2. GpuShows(t, calls[t])' /\ gpuOpen'[t] = open
    BY <1>1, <1>3, <1>5, <2>1, ProbesSame DEF GpuShows, GpuSame
  <2>3. QED BY <1>2, <1>5, <2>2 DEF GpuThread
<1>6. ASSUME NEW c \in Seq(Ops), calls[t] = Append(c, op), GpuShows(t, c)
      PROVE  GpuThread(t)'
  <2>1. Nested(track, open, c) /\ (t \notin Recursive => AllOpened(track, open, c, early[t]))
    BY <1>3, <1>6 DEF GpuShows
  <2>2. CASE op \notin open
    <3>1. gpuTrack'[t] = Append(track, op) /\ gpuOpen'[t] = open \cup {op}
      BY <1>1, <1>3, <2>2, GpuBeginDoes
    <3>2. Nested(Append(track, op), open \cup {op}, Append(c, op))
      BY <2>1, <2>2, NestedBegin
    <3>3. t \notin Recursive =>
            AllOpened(Append(track, op), open \cup {op}, Append(c, op), early[t])
      BY <1>4, <2>1, AllOpenedBegin
    <3>4. GpuShows(t, calls[t])' /\ op \in gpuOpen'[t]
      BY <1>1, <1>6, <3>1, <3>2, <3>3 DEF GpuShows
    <3>5. QED BY <1>2, <3>4 DEF GpuThread
  <2>3. CASE op \in open
    <3>1. UNCHANGED probeVars
      BY <1>1, <1>3, <2>3, GpuBeginDoes
    <3>2. gpuTrack'[t] = track /\ gpuOpen'[t] = open
      BY <1>1, <1>3, <3>1, ProbesSame DEF GpuSame
    <3>3. Nested(track, open, Append(c, op))
      BY <2>1, NestedLonger
    <3>4. t \in Recursive
      <4>1. SUFFICES ASSUME t \notin Recursive PROVE FALSE
        OBVIOUS
      <4>2. Len(c) \in Nat /\ Len(Append(c, op)) = Len(c) + 1 /\ Append(c, op)[Len(c) + 1] = op
            /\ \A i \in 1 .. Len(c) : Append(c, op)[i] = c[i]
        OBVIOUS
      <4>3. PICK i \in early[t] + 1 .. Len(c) : c[i] = op
        BY <2>1, <2>3, <4>1 DEF AllOpened
      <4>4. i \in 1 .. Len(c) /\ i \in 1 .. Len(c) + 1 /\ Len(c) + 1 \in 1 .. Len(c) + 1
            /\ i # Len(c) + 1
        BY <1>4, <4>2
      <4>5. QED BY <1>4, <1>6, <4>1, <4>2, <4>3, <4>4 DEF Distinct
    <3>5. GpuShows(t, calls[t])' /\ op \in gpuOpen'[t]
      BY <1>1, <1>6, <2>3, <3>2, <3>3, <3>4 DEF GpuShows
    <3>6. QED BY <1>2, <3>5 DEF GpuThread
  <2>4. QED BY <2>2, <2>3
<1>7. QED
  BY <1>1, <1>2, <1>3, <1>5, <1>6 DEF PInv, Followed, GpuThread

\* The samples of a return: the first one closes the innermost slice, if the name is
\* open, and erases it.
LEMMA SampledEnd ==
  ASSUME PInv, feed = "process", NEW t \in GpuShown, NEW op \in Ops, Sampled(t),
         GpuEnd(t, op), due[t][1].probe = "end", op = PendingOp(t)
  PROVE  GpuThread(t)'
<1>1. t \in Tids /\ Inv /\ UNCHANGED <<calls, early>>
  BY ProbeAssumption DEF PInv, Sampled
<1>2. /\ Pending(t, "end") /\ ~Pending(t, "begin") /\ ~Pending(t, "begin")'
      /\ Pending(t, "end")' => PendingOp(t)' = op
  BY <1>1, SampledDue DEF Pending
<1>3. PICK track \in Seq(Ops), open \in SUBSET Ops : track = gpuTrack[t] /\ open = gpuOpen[t]
  BY <1>1 DEF Inv, TypeOK
<1>4. PICK c \in Seq(Ops) : c = calls[t]
  BY <1>1 DEF PInv, ProcessTypes
<1>5. early[t] \in Nat /\ early[t] <= Len(c)
  BY <1>1, <1>4 DEF PInv, ProcessTypes
<1>6. CASE GpuShows(t, c) /\ op \notin open
  <2>1. UNCHANGED probeVars
    BY <1>1, <1>3, <1>6, GpuEndDoes
  <2>2. GpuShows(t, calls[t])' /\ gpuOpen'[t] = open
    BY <1>1, <1>3, <1>4, <1>6, <2>1, ProbesSame DEF GpuShows, GpuSame
  <2>3. QED BY <1>2, <1>6, <2>2 DEF GpuThread
<1>7. CASE /\ t \notin Recursive => Distinct(Append(c, op))
           /\ GpuShows(t, Append(c, op))
  <2>1. /\ Nested(track, open, Append(c, op))
        /\ t \notin Recursive => AllOpened(track, open, Append(c, op), early[t])
    BY <1>3, <1>7 DEF GpuShows
  <2>2. CASE op \in open
    <3>1. /\ track # <<>>
          /\ Nested(SubSeq(track, 1, Len(track) - 1), open \ {op}, c)
      BY <2>1, <2>2, NestedEnd
    <3>2. /\ gpuTrack'[t] = SubSeq(track, 1, Len(track) - 1)
          /\ gpuOpen'[t] = open \ {op}
      BY <1>1, <1>3, <2>2, <3>1, GpuEndDoes
    <3>3. t \notin Recursive =>
            AllOpened(SubSeq(track, 1, Len(track) - 1), open \ {op}, c, early[t])
      BY <1>5, <1>7, <2>1, AllOpenedEnd
    <3>4. GpuShows(t, calls[t])' /\ op \notin gpuOpen'[t]
      BY <1>1, <1>4, <3>1, <3>2, <3>3 DEF GpuShows
    <3>5. QED BY <1>2, <3>4 DEF GpuThread
  <2>3. CASE op \notin open
    <3>1. UNCHANGED probeVars
      BY <1>1, <1>3, <2>3, GpuEndDoes
    <3>2. gpuTrack'[t] = track /\ gpuOpen'[t] = open
      BY <1>1, <1>3, <3>1, ProbesSame DEF GpuSame
    <3>3. t \in Recursive
      BY <1>5, <2>1, <2>3, AllOpenedLast
    <3>4. Nested(track, open, c)
      BY <2>1, <2>3, NestedShorter
    <3>5. GpuShows(t, calls[t])' /\ op \notin gpuOpen'[t]
      BY <1>1, <1>4, <2>3, <3>2, <3>3, <3>4 DEF GpuShows
    <3>6. QED BY <1>2, <3>5 DEF GpuThread
  <2>4. QED BY <2>2, <2>3
<1>8. QED
  BY <1>1, <1>2, <1>3, <1>4, <1>6, <1>7 DEF PInv, Followed, GpuThread

\* The sample's probe decides which handler runs; the other track stays as it is.
LEMMA SampledInv ==
  ASSUME PInv, feed = "process", feed' = feed, NEW t \in Tids, Sampled(t)
  PROVE  PInv'
<1>1. /\ ~Idle(t) /\ Handle(t, due[t][1]) /\ due[t][1] \in Sample
      /\ UNCHANGED <<calls, early, gil, seen>>
  BY SampledDue DEF Sampled
<1>2. Inv
  BY DEF PInv
<1> DEFINE probe == due[t][1].probe
<1>3. \A x : (Pending(t, x) <=> probe = x) /\ (Pending(t, x)' => probe = x)
  BY SampledDue
<1>4. t \in GilShown /\ probe \in {"begin", "end"} /\ GilSame(t) => GilThread(t)'
  <2> HAVE t \in GilShown /\ probe \in {"begin", "end"} /\ GilSame(t)
  <2>1. ~GilDue(t) /\ ~GilDue(t)'
    BY <1>3 DEF GilDue
  <2>2. QED BY <1>1, <2>1, GilQuiet DEF PInv, Followed
<1>5. t \in GpuShown /\ probe \notin {"begin", "end"} /\ GpuSame(t) => GpuThread(t)'
  <2> HAVE t \in GpuShown /\ probe \notin {"begin", "end"} /\ GpuSame(t)
  <2>1. ~GpuDue(t) /\ ~GpuDue(t)'
    BY <1>3 DEF GpuDue
  <2>2. QED BY <1>1, <2>1, GpuQuiet DEF PInv, Followed
<1>6. CASE probe = "take_gil"
  <2>1. TakeGil(t)
    BY <1>1, <1>6 DEF Handle
  <2>2. Inv' /\ \A u \in Tids : GpuSame(u) /\ (u # t => GilSame(u))
    BY <1>2, <2>1, TakeGilInv, TakeGilDoes, ProbesSame
  <2>3. QED BY <1>5, <1>6, <2>1, <2>2, SampledTakeGil, Handled
<1>7. CASE probe = "take_gil_return"
  <2>1. TakeGilReturn(t)
    BY <1>1, <1>7 DEF Handle
  <2>2. Inv' /\ \A u \in Tids : GpuSame(u) /\ (u # t => GilSame(u))
    BY <1>2, <2>1, TakeGilReturnInv, TakeGilReturnDoes, ProbesSame
  <2>3. QED BY <1>5, <1>7, <2>1, <2>2, SampledTakeGilReturn, Handled
<1>8. CASE probe = "drop_gil"
  <2>1. DropGil(t)
    BY <1>1, <1>8 DEF Handle
  <2>2. Inv' /\ \A u \in Tids : GpuSame(u) /\ (u # t => GilSame(u))
    BY <1>2, <2>1, DropGilInv, DropGilDoes, ProbesSame
  <2>3. QED BY <1>5, <1>8, <2>1, <2>2, SampledDropGil, Handled
<1>9. CASE probe = "begin"
  <2>1. PICK op \in Ops : op = PendingOp(t)
    BY <1>1, <1>9 DEF Sample, PendingOp
  <2>2. GpuBegin(t, op)
    BY <1>1, <1>9, <2>1 DEF Handle, PendingOp
  <2>3. Inv' /\ \A u \in Tids : GilSame(u) /\ (u # t => GpuSame(u))
    BY <1>2, <2>2, GpuBeginInv, GpuBeginDoes, ProbesSame
  <2>4. QED BY <1>4, <1>9, <2>1, <2>2, <2>3, SampledBegin, Handled
<1>10. CASE probe = "end"
  <2>1. PICK op \in Ops : op = PendingOp(t)
    BY <1>1, <1>10 DEF Sample, PendingOp
  <2>2. GpuEnd(t, op)
    BY <1>1, <1>10, <2>1 DEF Handle, PendingOp
  <2>3. Inv' /\ \A u \in Tids : GilSame(u) /\ (u # t => GpuSame(u))
    BY <1>2, <2>2, GpuEndInv, GpuEndDoes, ProbesSame
  <2>4. QED BY <1>4, <1>10, <2>1, <2>2, <2>3, SampledEnd, Handled
<1>11. QED
  BY <1>1, <1>6, <1>7, <1>8, <1>9, <1>10 DEF Sample

\* The invariant survives every step of the process, and samples in any order.
LEMMA ProcessNextInv ==
  ASSUME PInv, [ProcessNext]_allVars
  PROVE  PInv'
<1>1. CASE UNCHANGED allVars
  <2>1. UNCHANGED probeVars /\ UNCHANGED <<feed, calls, early, gil, seen, due>>
    BY <1>1 DEF allVars, processVars
  <2>2. Inv'
    BY <2>1, SkipInv DEF PInv
  <2>3. ProcessTypes'
    BY <2>1 DEF PInv, ProcessTypes
  <2>4. feed = "process" => Followed'
    BY <2>1, ProbesSame, GilFrame, GpuFrame DEF PInv, Followed
  <2>5. QED BY <2>1, <2>2, <2>3, <2>4 DEF PInv
<1>2. CASE ProcessSample
  <2>1. feed = "process" /\ feed' = feed
    BY <1>2 DEF ProcessSample
  <2>2. PICK t \in Tids :
          \/ \E op \in Ops : Call(t, op)
          \/ Return(t)
          \/ AskGil(t) \/ GetGil(t) \/ GiveUpGil(t) \/ ReleaseGil(t)
          \/ Sampled(t)
    BY <1>2 DEF ProcessSample
  <2>3. QED
    BY <2>1, <2>2, CallInv, ReturnInv, AskGilInv, GetGilInv, GiveUpGilInv, ReleaseGilInv,
       SampledInv
<1>3. CASE AnySample
  <2>1. feed = "any" /\ feed' = feed /\ Next /\ UNCHANGED <<calls, early, gil, seen, due>>
    BY <1>3 DEF AnySample, processVars
  <2>2. Inv'
    BY <2>1, NextInv DEF PInv
  <2>3. ProcessTypes'
    BY <2>1 DEF PInv, ProcessTypes
  <2>4. QED BY <2>1, <2>2, <2>3 DEF PInv
<1>4. QED BY <1>1, <1>2, <1>3 DEF ProcessNext

\* The invariant holds of every recording.
LEMMA ProcessInvHolds == ProcessSpec => []PInv
BY ProcessInitInv, ProcessNextInv, PTL DEF ProcessSpec

\* Of an idle thread no sample is due: the GIL track shows its state.
LEMMA GilTrackShown ==
  ASSUME PInv
  PROVE  GilSliceIsState
<1> SUFFICES ASSUME feed = "process", NEW t \in GilShown, Idle(t)
             PROVE  GilShows(t, gil[t])
  BY DEF GilSliceIsState, GilShows
<1>1. QED BY DEF PInv, Followed, GilThread, Idle, Pending

\* Of an idle thread the slices are the calls that the recording saw begin.
LEMMA SlicesShown ==
  ASSUME PInv
  PROVE  SlicesAreCalls
<1> SUFFICES ASSUME feed = "process", NEW t \in GpuShown \ Recursive, Idle(t)
             PROVE  gpuTrack[t] = SubSeq(calls[t], early[t] + 1, Len(calls[t]))
  BY DEF SlicesAreCalls
<1>1. AllOpened(gpuTrack[t], gpuOpen[t], calls[t], early[t])
  BY DEF PInv, Followed, GpuThread, GpuShows, Idle, Pending
<1>2. PICK c \in Seq(Ops), track \in Seq(Ops), n \in Nat :
        c = calls[t] /\ track = gpuTrack[t] /\ n = early[t]
  BY ProbeAssumption DEF PInv, Inv, TypeOK, ProcessTypes
<1>3. /\ n <= Len(c) /\ Len(track) = Len(c) - n /\ Len(c) \in Nat
      /\ \A i \in 1 .. Len(track) : track[i] = c[n + i]
  BY <1>1, <1>2 DEF AllOpened
<1> DEFINE first == n + 1
           last == Len(c)
<1>4. /\ first \in Int /\ last \in Int /\ \A i \in first .. last : c[i] \in Ops
      /\ first = n + 1 /\ last = Len(c)
  BY <1>3
<1> HIDE DEF first, last
<1>5. PICK s \in Seq(Ops) : s = SubSeq(c, first, last)
  BY <1>4, SubSeqProperties
<1>6. /\ Len(s) = IF first <= last THEN last - first + 1 ELSE 0
      /\ \A i \in 1 .. last - first + 1 : s[i] = c[first + i - 1]
  BY <1>4, <1>5, SubSeqProperties
<1>7. Len(s) = Len(track) /\ \A i \in 1 .. Len(track) : s[i] = track[i]
  <2>1. Len(track) = last - first + 1 /\ Len(s) = Len(track)
    BY <1>3, <1>4, <1>6
  <2>2. ASSUME NEW i \in 1 .. Len(track)
        PROVE  s[i] = track[i]
    <3>1. first + i - 1 = n + i /\ i \in 1 .. last - first + 1
      BY <1>4, <2>1
    <3>2. s[i] = c[first + i - 1]
      BY <1>6, <3>1
    <3>3. QED BY <1>3, <3>1, <3>2
  <2>3. QED BY <2>1, <2>2
<1>8. s = track
  BY <1>7
<1>9. QED BY <1>2, <1>5, <1>8 DEF first, last

\* Each slice is named after a call that is open: the opener lemmas give its number.
LEMMA NoneOutlives ==
  ASSUME PInv
  PROVE  NoSliceOutlivesCall
<1> SUFFICES ASSUME feed = "process", NEW t \in GpuShown, Idle(t), NEW i \in DOMAIN gpuTrack[t]
             PROVE  gpuTrack[t][i] \in ToSet(calls[t])
  BY DEF NoSliceOutlivesCall, ToSet
<1>1. Nested(gpuTrack[t], gpuOpen[t], calls[t])
  BY DEF PInv, Followed, GpuThread, GpuShows, Idle, Pending
<1>2. PICK c \in Seq(Ops), track \in Seq(Ops) : c = calls[t] /\ track = gpuTrack[t]
  BY ProbeAssumption DEF PInv, Inv, TypeOK, ProcessTypes
<1>3. PICK p, q \in [1 .. Len(track) -> 1 .. Len(c)] : Opened(track, gpuOpen[t], c, p, q)
  BY <1>1, <1>2 DEF Nested
<1>4. i \in 1 .. Len(track) /\ DOMAIN c = 1 .. Len(c)
  BY <1>2
<1>5. p[i] \in DOMAIN c /\ track[i] = c[p[i]]
  BY <1>3, <1>4 DEF Opened
<1>6. QED BY <1>2, <1>5 DEF ToSet

-----------------------------------------------------------------------------
\* The GIL track of a recorded thread shows what the thread is doing from its first
\* take_gil on, whenever the samples of its last probe have been handled: for every number
\* of threads contending for the GIL and of duplicate probes (merge_engine.cpp:533-588).
THEOREM GilTrackShowsThread == ProcessSpec => []GilSliceIsState
BY ProcessInvHolds, GilTrackShown, PTL

\* The GPU track of a thread whose calls do not recurse shows the calls that it is in,
\* nested as they are, but for those entered before the recording began.
THEOREM GpuTrackShowsCalls == ProcessSpec => []SlicesAreCalls
BY ProcessInvHolds, SlicesShown, PTL

\* Where calls recurse, gpu_open_ cannot tell them apart and slices end too early, but
\* none is open whose name is not that of a call the thread is in.
THEOREM SlicesEndWithCalls == ProcessSpec => []NoSliceOutlivesCall
BY ProcessInvHolds, NoneOutlives, PTL

\* What ProbeSpans promises of samples in any order holds of a process's.
THEOREM ProcessKeepsProbeInvariants ==
  ProcessSpec => [](TypeOK /\ NoMisplacedEnd /\ GpuDepth /\ GilDepth)
<1>1. PInv => TypeOK /\ NoMisplacedEnd /\ GpuDepth /\ GilDepth
  BY DEF PInv, Inv
<1>2. QED BY <1>1, ProcessInvHolds, PTL

\* A sample of a process is a step of ProbeSpans, or one that its handler skips: the
\* bound on the GIL track is no restriction, because a take_gil that is not a duplicate
\* finds the track empty.
LEMMA SampledStep ==
  ASSUME MaxDepth >= 1, PInv, feed = "process", NEW t \in Tids, Sampled(t)
  PROVE  [Next]_probeVars
<1>1. Handle(t, due[t][1]) /\ due[t][1] \in Sample
  BY SampledDue DEF Sampled
<1> DEFINE probe == due[t][1].probe
<1>2. CASE probe = "take_gil"
  <2>1. TakeGil(t)
    BY <1>1, <1>2 DEF Handle
  <2>2. CASE UNCHANGED probeVars
    BY <2>2
  <2>3. CASE ~UNCHANGED probeVars
    <3>1. t \in GilShown /\ t \notin gilStart
      BY <2>1, <2>3, TakeGilDoes DEF PInv
    <3>2. Pending(t, "take_gil") /\ ~Pending(t, "take_gil_return") /\ ~Pending(t, "drop_gil")
      BY <1>2, SampledDue
    <3>3. t \in seen /\ (GilShows(t, "acquiring") \/ GilShows(t, "none"))
      BY <3>1, <3>2 DEF PInv, Followed, GilThread
    <3>4. gilTrack[t] = <<>>
      BY <3>1, <3>3 DEF GilShows
    <3>5. Len(<<>>) = 0 /\ MaxDepth \in Nat
      BY ProbeAssumption
    <3>6. Len(gilTrack[t]) < MaxDepth
      BY <3>4, <3>5
    <3>7. QED BY <2>1, <3>6 DEF Next
  <2>4. QED BY <2>2, <2>3
<1>3. CASE probe = "take_gil_return" \/ probe = "drop_gil"
  <2>1. TakeGilReturn(t) \/ DropGil(t)
    BY <1>1, <1>3 DEF Handle
  <2>2. QED BY <2>1 DEF Next
<1>4. CASE probe = "begin" \/ probe = "end"
  <2>1. PICK op \in Ops : op = due[t][1].op
    BY <1>1, <1>4 DEF Sample
  <2>2. GpuBegin(t, op) \/ GpuEnd(t, op)
    BY <1>1, <1>4, <2>1 DEF Handle
  <2>3. QED BY <2>2 DEF Next
<1>5. QED BY <1>1, <1>2, <1>3, <1>4 DEF Sample

\* Whatever the threads of a process do, the engine takes only steps of ProbeSpans: the
\* handlers in any order are an abstraction of the handlers in the order of the samples.
THEOREM ProcessImplementsProbeSpans ==
  ASSUME MaxDepth >= 1
  PROVE  ProcessSpec => Spec
<1>1. ProcessInit => Init
  BY DEF ProcessInit
<1>2. PInv /\ [ProcessNext]_allVars => [Next]_probeVars
  <2> SUFFICES ASSUME PInv, [ProcessNext]_allVars PROVE [Next]_probeVars
    OBVIOUS
  <2>1. CASE UNCHANGED allVars
    BY <2>1 DEF allVars
  <2>2. CASE ProcessSample
    <3>1. feed = "process" /\ \E t \in Tids : UNCHANGED probeVars \/ Sampled(t)
      BY <2>2 DEF ProcessSample, Call, Return, AskGil, GetGil, GiveUpGil, ReleaseGil
    <3>2. QED BY <3>1, SampledStep
  <2>3. CASE AnySample
    BY <2>3 DEF AnySample
  <2>4. QED BY <2>1, <2>2, <2>3 DEF ProcessNext
<1>3. QED BY <1>1, <1>2, ProcessInvHolds, PTL DEF ProcessSpec, Spec
=============================================================================
