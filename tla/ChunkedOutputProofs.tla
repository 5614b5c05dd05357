------------------------ MODULE ChunkedOutputProofs -------------------------
(***************************************************************************)
(* The chunk files show every viz span where it should be, for any number  *)
(* of threads, spans and chunks.  What carries the proof is the stack: a   *)
(* span is dropped from it only at a time that lies in the current chunk   *)
(* or before, so what reaches beyond the current chunk is still there when *)
(* the next file is opened, whichever chunk that is.                       *)
(*                                                                         *)
(* And they show every number of the CSV files in the chunk of its time.   *)
(* What carries that proof is Listed: a sequence has the value of every    *)
(* cell of a set, once each, and no other.  Reading rows joins what is     *)
(* listed, the two sorts permute it, and the loop of open_chunk filters    *)
(* it, which is right because the samples are in order of time.            *)
(***************************************************************************)
EXTENDS ChunkedOutput, FiniteSetTheorems, FunctionTheorems, SequenceTheorems,
        WellFoundedInduction, TLAPS

Span == [tid : Tids, from : Times, to : Times]

\* A file is a record, with a sequence of slices for every track.
FileShape(f) ==
  /\ f = [names |-> f.names, counters |-> f.counters, slices |-> f.slices, depth |-> f.depth]
  /\ f.slices \in [Tids -> Seq(Slice)]

\* These slices are of spans of t, in the order in which they were written.
Numbered(slices, t) ==
  /\ \A k \in 1 .. Len(slices) : /\ slices[k].span \in 1 .. Len(spans)
                                 /\ spans[slices[k].span].tid = t
  /\ \A i, j \in 1 .. Len(slices) : i < j => slices[i].span < slices[j].span

Whole(n) == [span |-> n, from |-> spans[n].from, to |-> spans[n].to]

\* The stack holds spans as they were written.
Stacked(stack, t) ==
  /\ Numbered(stack, t)
  /\ \A k \in 1 .. Len(stack) : stack[k] = Whole(stack[k].span)

\* No span is missing that reaches beyond chunk c, unless that is the last.
NoneMissing(stack, t, c) ==
  c < NumChunks - 1 =>
    \A n \in 1 .. Len(spans) :
      spans[n].tid = t /\ spans[n].to > End(c) => \E k \in 1 .. Len(stack) : stack[k].span = n

\* A slice in a file lies within its span.
Within(slices) ==
  \A k \in 1 .. Len(slices) : /\ spans[slices[k].span].from <= slices[k].from
                              /\ slices[k].to <= spans[slices[k].span].to

\* ContextComplete of one span in one file.
Shows(slices, n, c) ==
  LET shown == {k \in DOMAIN slices : slices[k].span = n}
  IN  IF Reaches(n, c) THEN \E k \in shown : shown = {k} /\ slices[k] = ExpectedSlice(n, c)
                       ELSE shown = {}

\* What the engine has asked for: viz spans nest.
Calls ==
  /\ writing \in BOOLEAN
  /\ cached \subseteq Names
  /\ now \in Times
  /\ spans \in Seq(Span) /\ Len(spans) <= MaxSpans
  /\ \A m, n \in 1 .. Len(spans) :
       m < n /\ spans[m].tid = spans[n].tid /\ spans[n].tid \in VizTids =>
         spans[m].to <= spans[n].from \/ spans[n].to <= spans[m].to

\* What the writer, at chunk c with files fs and stacks st, has made of it: it is never
\* ahead of the engine, and viz spans have come in time.
Writer(c, fs, st) ==
  /\ c \in 0 .. NumChunks - 1 /\ c <= ChunkFor(now)
  /\ c \in DOMAIN fs /\ DOMAIN fs \subseteq 0 .. c /\ fs = [d \in DOMAIN fs |-> fs[d]]
  /\ \A d \in DOMAIN fs : FileShape(fs[d])
  /\ fs[c].names = cached
  /\ st \in [Tids -> Seq(Slice)]
  /\ \A t \in VizTids : Stacked(st[t], t) /\ NoneMissing(st[t], t, c)
  /\ \A n \in 1 .. Len(spans) : spans[n].tid \in VizTids =>
       /\ ChunkFor(spans[n].from) <= c
       /\ \A d \in DOMAIN fs : Shows(fs[d].slices[spans[n].tid], n, d)
  /\ \A d \in DOMAIN fs : \A t \in VizTids :
       Numbered(fs[d].slices[t], t) /\ Within(fs[d].slices[t])

CInv == Calls /\ Writer(current, files, stacks)

-----------------------------------------------------------------------------
\* Chunks begin at integral times, one after the other.
LEMMA StartsOrdered ==
  ASSUME NEW c \in Int, NEW d \in Int, c <= d
  PROVE  /\ Start(c) \in Int /\ Start(d) \in Int /\ Start(c) <= Start(d)
         /\ End(c) = Start(c + 1)
         /\ Start(c) < End(c)
<1>1. Duration \in Nat /\ Duration >= 1
  BY ChunkAssumption
<1>2. c * Duration \in Int /\ d * Duration \in Int /\ c * Duration <= d * Duration
  BY <1>1
<1>3. (c + 1) * Duration = c * Duration + Duration
  BY <1>1
<1>4. QED BY <1>1, <1>2, <1>3 DEF Start, End

\* chunk_for_ts puts a time into the chunk that holds it, except before the first chunk
\* and after the last.
LEMMA ChunkForTime ==
  ASSUME NEW ts \in Int
  PROVE  /\ ChunkFor(ts) \in 0 .. NumChunks - 1
         /\ ChunkFor(ts) > 0 => Start(ChunkFor(ts)) <= ts
         /\ ChunkFor(ts) < NumChunks - 1 => ts < End(ChunkFor(ts))
<1>1. Duration \in Nat /\ Duration >= 1 /\ NumChunks \in Nat /\ NumChunks >= 1
  BY ChunkAssumption
<1>2. CASE ts < 0
  <2>1. ChunkFor(ts) = 0
    BY <1>2 DEF ChunkFor
  <2>2. 0 < End(0)
    BY <1>1 DEF End
  <2>3. End(0) \in Int
    BY <1>1 DEF End
  <2>4. QED BY <1>1, <1>2, <2>1, <2>2, <2>3
<1>3. CASE ts >= 0
  <2> DEFINE q == ts \div Duration
  <2>1. q \in Nat /\ q * Duration <= ts /\ ts < (q + 1) * Duration
    BY <1>1, <1>3
  <2> HIDE DEF q
  <2>2. ChunkFor(ts) = IF q >= NumChunks THEN NumChunks - 1 ELSE q
    BY <1>3 DEF ChunkFor, q
  <2>3. CASE q >= NumChunks
    <3>1. ChunkFor(ts) = NumChunks - 1 /\ NumChunks - 1 \in Int /\ NumChunks - 1 <= q
      BY <1>1, <2>1, <2>2, <2>3
    <3>2. Start(NumChunks - 1) <= Start(q) /\ Start(q) \in Int /\ Start(NumChunks - 1) \in Int
      BY <2>1, <3>1, StartsOrdered
    <3>3. Start(NumChunks - 1) <= ts
      BY <2>1, <3>2 DEF Start
    <3>4. QED BY <1>1, <3>1, <3>3
  <2>4. CASE q < NumChunks
    <3>1. ChunkFor(ts) = q
      BY <1>1, <2>1, <2>2, <2>4
    <3>2. QED BY <1>1, <2>1, <2>4, <3>1 DEF Start, End
  <2>5. QED BY <1>1, <2>1, <2>3, <2>4
<1>4. QED BY <1>2, <1>3

\* Later times do not lie in earlier chunks.
LEMMA ChunkForMonotone ==
  ASSUME NEW a \in Int, NEW b \in Int, a <= b
  PROVE  ChunkFor(a) <= ChunkFor(b)
<1> DEFINE c == ChunkFor(a)
           d == ChunkFor(b)
<1>1. /\ c \in 0 .. NumChunks - 1 /\ (c > 0 => Start(c) <= a)
      /\ d \in 0 .. NumChunks - 1 /\ (d < NumChunks - 1 => b < End(d))
  BY ChunkForTime
<1> HIDE DEF c, d
<1>2. NumChunks \in Nat
  BY ChunkAssumption
<1>3. SUFFICES ASSUME c > d PROVE FALSE
  BY <1>1, <1>2 DEF c, d
<1>4. d + 1 <= c /\ d + 1 \in Int /\ c \in Int /\ d \in Int /\ c > 0 /\ d < NumChunks - 1
  BY <1>1, <1>2, <1>3
<1>5. /\ End(d) = Start(d + 1) /\ Start(d + 1) <= Start(c)
      /\ Start(c) \in Int /\ Start(d + 1) \in Int
  <2>1. End(d) = Start(d + 1)
    BY <1>4, StartsOrdered
  <2>2. PICK e \in Int : e = d + 1 /\ e <= c
    BY <1>4
  <2>3. Start(e) <= Start(c) /\ Start(c) \in Int /\ Start(e) \in Int
    BY <1>4, <2>2, StartsOrdered
  <2>4. QED BY <2>1, <2>2, <2>3
<1>6. PICK first \in Int, last \in Int : first = Start(d + 1) /\ last = Start(c)
  BY <1>5
<1>7. b < first /\ first <= last /\ last <= a
  BY <1>1, <1>4, <1>5, <1>6
<1>8. QED BY <1>7

\* chunk_for_ts finds the chunk that a time belongs to.
LEMMA ChunkForIsHome ==
  ASSUME NEW ts \in Int
  PROVE  ChunkFor(ts) = Home(ts)
<1> DEFINE Fits(c) == (c = 0 \/ Start(c) <= ts) /\ (c = NumChunks - 1 \/ ts < End(c))
<1>1. NumChunks \in Nat
  BY ChunkAssumption
<1>2. ChunkFor(ts) \in 0 .. NumChunks - 1 /\ Fits(ChunkFor(ts))
  BY <1>1, ChunkForTime
<1>3. ASSUME NEW c \in 0 .. NumChunks - 1, Fits(c),
             NEW d \in 0 .. NumChunks - 1, Fits(d), c < d
      PROVE  FALSE
  <2>1. PICK e \in Int : e = c + 1 /\ e <= d
    BY <1>1, <1>3
  <2>2. ts < End(c) /\ Start(d) <= ts
    BY <1>1, <1>3
  <2>3. End(c) = Start(e)
    BY <1>1, <2>1, StartsOrdered
  <2>4. Start(e) \in Int /\ Start(d) \in Int /\ Start(e) <= Start(d)
    BY <1>1, <2>1, StartsOrdered
  <2>5. QED BY <2>2, <2>3, <2>4
<1>4. PICK h : h = Home(ts)
  OBVIOUS
<1>5. h \in 0 .. NumChunks - 1 /\ Fits(h)
  BY <1>2, <1>4 DEF Home
<1>6. ChunkFor(ts) = h
  <2> HIDE DEF Fits
  <2>1. PICK c \in 0 .. NumChunks - 1 : c = ChunkFor(ts) /\ Fits(c)
    BY <1>2
  <2>2. ~(c < h) /\ ~(h < c)
    BY <1>3, <1>5, <2>1
  <2>3. QED BY <1>1, <1>5, <2>1, <2>2
<1>7. QED BY <1>4, <1>6

-----------------------------------------------------------------------------
\* The elements of a finite set of numbers have ranks: the first, the second, and so on.
LEMMA Ranks ==
  ASSUME NEW n \in Nat, NEW K \in SUBSET (1 .. n)
  PROVE  /\ Cardinality(K) \in Nat
         /\ \A k \in K : Cardinality({j \in K : j <= k}) \in 1 .. Cardinality(K)
         /\ \A k, l \in K : k < l =>
              Cardinality({j \in K : j <= k}) < Cardinality({j \in K : j <= l})
         /\ \A i \in 1 .. Cardinality(K) : \E k \in K : Cardinality({j \in K : j <= k}) = i
<1> DEFINE upto(k) == {j \in K : j <= k}
           rank(k) == Cardinality(upto(k))
           R == {rank(k) : k \in K}
           m == Cardinality(K)
<1>1. IsFiniteSet(K) /\ m \in Nat
  <2>1. IsFiniteSet(1 .. n)
    BY FS_Interval
  <2>2. IsFiniteSet(K)
    BY <2>1, FS_Subset
  <2>3. QED BY <2>2, FS_CardinalityType
<1> HIDE DEF m
<1>2. \A k \in K : k \in Int
  OBVIOUS
<1>3. ASSUME NEW k \in K
      PROVE  IsFiniteSet(upto(k)) /\ rank(k) \in Nat /\ rank(k) \in 1 .. m
  <2>1. upto(k) \subseteq K /\ k \in upto(k)
    BY <1>2
  <2> DEFINE U == upto(k)
  <2> HIDE DEF U
  <2>2. U \subseteq K /\ k \in U /\ {k} \subseteq U
    BY <2>1 DEF U
  <2>3. IsFiniteSet(U) /\ Cardinality(U) <= m
    BY <1>1, <2>2, FS_Subset DEF m
  <2>4. Cardinality(U) \in Nat
    BY <2>3, FS_CardinalityType
  <2>5. Cardinality({k}) = 1
    BY FS_Singleton
  <2>6. Cardinality({k}) <= Cardinality(U)
    BY <2>2, <2>3, FS_Subset
  <2>7. IsFiniteSet(U) /\ Cardinality(U) \in Nat /\ Cardinality(U) \in 1 .. m
    BY <1>1, <2>3, <2>4, <2>5, <2>6
  <2>8. QED BY <2>7 DEF U
<1>4. ASSUME NEW k \in K, NEW l \in K, k < l
      PROVE  rank(k) < rank(l)
  <2>1. upto(k) \subseteq upto(l)
    <3>1. SUFFICES ASSUME NEW j \in K, j <= k PROVE j <= l
      OBVIOUS
    <3>2. j \in Int /\ k \in Int /\ l \in Int
      BY <1>2
    <3>3. QED BY <1>4, <3>1, <3>2
  <2>2. l \in upto(l) /\ l \notin upto(k)
    BY <1>2, <1>4
  <2> DEFINE U == upto(k)
             V == upto(l)
  <2> HIDE DEF U, V
  <2>3. U \subseteq V /\ U # V
    BY <2>1, <2>2 DEF U, V
  <2>4. IsFiniteSet(V) /\ Cardinality(V) \in Nat /\ Cardinality(U) \in Nat
    BY <1>3 DEF U, V
  <2>5. Cardinality(U) <= Cardinality(V) /\ Cardinality(U) # Cardinality(V)
    BY <2>3, <2>4, FS_Subset
  <2>6. Cardinality(U) < Cardinality(V)
    BY <2>4, <2>5
  <2>7. QED BY <2>6 DEF U, V
<1> HIDE DEF rank
<1>5. ASSUME NEW k \in K, NEW l \in K, rank(k) = rank(l)
      PROVE  k = l
  <2>1. rank(k) \in Nat /\ rank(l) \in Nat
    BY <1>3
  <2>2. k \in Int /\ l \in Int
    BY <1>2
  <2>3. ~(k < l)
    BY <1>4, <1>5, <2>1
  <2>4. ~(l < k)
    BY <1>4, <1>5, <2>1
  <2>5. QED BY <2>2, <2>3, <2>4
<1>6. R = 1 .. m
  <2> DEFINE f == [k \in K |-> rank(k)]
  <2>1. f \in [K -> R] /\ \A k \in K : f[k] = rank(k)
    OBVIOUS
  <2>2. (\A k, l \in K : f[k] = f[l] => k = l) /\ (\A x \in R : \E k \in K : f[k] = x)
    BY <1>5, <2>1
  <2> HIDE DEF f
  <2>3. R \subseteq 1 .. m
    BY <1>3
  <2> HIDE DEF R
  <2>4. ExistsBijection(K, R)
    BY <2>1, <2>2 DEF ExistsBijection, Bijection, Injection, IsInjective, Surjection
  <2>5. IsFiniteSet(R) /\ Cardinality(R) = m
    BY <1>1, <2>4, FS_Bijection DEF m
  <2>6. IsFiniteSet(1 .. m) /\ Cardinality(1 .. m) = m
    BY <1>1, FS_Interval
  <2> DEFINE I == 1 .. m
  <2> HIDE DEF I
  <2>7. R = I
    BY <2>3, <2>5, <2>6, FS_Subset DEF I
  <2>8. QED BY <2>7 DEF I
<1>7. \A i \in 1 .. m : \E k \in K : rank(k) = i
  BY <1>6
<1>8. QED BY <1>1, <1>3, <1>4, <1>7 DEF rank, m

\* A subsequence consists of the elements at its positions, in their order.
LEMMA SubsequenceIs ==
  ASSUME NEW T, NEW s \in Seq(T), NEW K \in SUBSET (1 .. Len(s))
  PROVE  /\ Subsequence(s, K) \in Seq(T)
         /\ \E p \in [1 .. Len(Subsequence(s, K)) -> K] :
              /\ \A i \in 1 .. Len(Subsequence(s, K)) : Subsequence(s, K)[i] = s[p[i]]
              /\ \A i, j \in 1 .. Len(Subsequence(s, K)) : i < j => p[i] < p[j]
              /\ \A k \in K : \E i \in 1 .. Len(Subsequence(s, K)) : p[i] = k
<1> DEFINE rank(k) == Cardinality({j \in K : j <= k})
           nth(i) == CHOOSE k \in K : rank(k) = i
           m == Cardinality(K)
           p == [i \in 1 .. m |-> nth(i)]
<1>1. /\ m \in Nat
      /\ \A k \in K : rank(k) \in 1 .. m
      /\ \A k, l \in K : k < l => rank(k) < rank(l)
      /\ \A i \in 1 .. m : \E k \in K : rank(k) = i
  <2>1. PICK n \in Nat : n = Len(s)
    OBVIOUS
  <2>2. K \in SUBSET (1 .. n)
    BY <2>1
  <2>3. QED BY <2>2, Ranks
<1>2. Subsequence(s, K) = [i \in 1 .. m |-> s[nth(i)]]
  BY DEF Subsequence
<1>3. \A k \in K : k \in Int /\ s[k] \in T
  OBVIOUS
<1> HIDE DEF rank
<1>4. \A i \in 1 .. m : nth(i) \in K /\ rank(nth(i)) = i
  BY <1>1
<1> HIDE DEF nth, m
<1>5. /\ Subsequence(s, K) \in Seq(T) /\ Len(Subsequence(s, K)) = m
      /\ \A i \in 1 .. m : Subsequence(s, K)[i] = s[nth(i)]
  <2>1. [i \in 1 .. m |-> s[nth(i)]] \in [1 .. m -> T]
    BY <1>3, <1>4
  <2>2. PICK q \in [1 .. m -> T] : q = [i \in 1 .. m |-> s[nth(i)]]
    BY <2>1
  <2>3. q \in Seq(T) /\ Len(q) = m
    BY <1>1
  <2>4. \A i \in 1 .. m : q[i] = s[nth(i)]
    BY <2>2
  <2>5. QED BY <1>2, <2>2, <2>3, <2>4
<1>6. p \in [1 .. m -> K] /\ \A i \in 1 .. m : p[i] = nth(i)
  BY <1>4
<1> HIDE DEF p
<1>7. ASSUME NEW i \in 1 .. m, NEW j \in 1 .. m, i < j
      PROVE  p[i] < p[j]
  <2>1. p[i] \in K /\ p[j] \in K /\ rank(p[i]) = i /\ rank(p[j]) = j
    BY <1>4, <1>6
  <2>2. i \in Int /\ j \in Int
    BY <1>1
  <2>3. p[i] # p[j]
    BY <1>7, <2>1, <2>2
  <2>4. ~(p[j] < p[i])
    <3>1. p[j] < p[i] => rank(p[j]) < rank(p[i])
      BY <1>1, <2>1
    <3>2. ~(rank(p[j]) < rank(p[i]))
      BY <1>7, <2>1, <2>2
    <3>3. QED BY <3>1, <3>2
  <2>5. p[i] \in Int /\ p[j] \in Int
    BY <1>3, <2>1
  <2>6. QED BY <2>3, <2>4, <2>5
<1>8. ASSUME NEW k \in K
      PROVE  \E i \in 1 .. m : p[i] = k
  <2>1. rank(k) \in 1 .. m
    BY <1>1
  <2>2. PICK i \in 1 .. m : i = rank(k)
    BY <2>1
  <2>3. p[i] \in K /\ rank(p[i]) = rank(k)
    BY <1>4, <1>6, <2>2
  <2>4. i \in Int
    BY <1>1
  <2>5. ~(k < p[i]) /\ ~(p[i] < k)
    <3>1. /\ k < p[i] => rank(k) < rank(p[i])
          /\ p[i] < k => rank(p[i]) < rank(k)
      BY <1>1, <2>3
    <3>2. ~(rank(k) < rank(p[i])) /\ ~(rank(p[i]) < rank(k))
      BY <2>2, <2>3, <2>4
    <3>3. QED BY <3>1, <3>2
  <2>6. k \in Int /\ p[i] \in Int
    BY <1>3, <2>3
  <2>7. p[i] = k
    BY <2>5, <2>6
  <2>8. QED BY <2>7
<1>9. QED BY <1>5, <1>6, <1>7, <1>8

\* expire_spans keeps, in their order, the spans that end after ts.
LEMMA ExpireKeeps ==
  ASSUME NEW q \in Seq(Slice), NEW ts
  PROVE  /\ Expire(q, ts) \in Seq(Slice)
         /\ \A i \in 1 .. Len(Expire(q, ts)) : Expire(q, ts)[i].to > ts
         /\ \A k \in 1 .. Len(q) : q[k].to > ts =>
              \E i \in 1 .. Len(Expire(q, ts)) : Expire(q, ts)[i] = q[k]
         /\ \A t : Stacked(q, t) => Stacked(Expire(q, ts), t)
<1> DEFINE K == {k \in DOMAIN q : q[k].to > ts}
           e == Expire(q, ts)
<1>1. K \in SUBSET (1 .. Len(q)) /\ \A k \in K : q[k].to > ts
  OBVIOUS
<1>2. e = Subsequence(q, K)
  BY DEF Expire
<1>3. \A k \in 1 .. Len(q) : q[k].to > ts => k \in K
  OBVIOUS
<1> HIDE DEF K, e
<1>4. e \in Seq(Slice)
  BY <1>1, <1>2, SubsequenceIs
<1>5. PICK p \in [1 .. Len(e) -> K] :
        /\ \A i \in 1 .. Len(e) : e[i] = q[p[i]]
        /\ \A i, j \in 1 .. Len(e) : i < j => p[i] < p[j]
        /\ \A k \in K : \E i \in 1 .. Len(e) : p[i] = k
  BY <1>1, <1>2, SubsequenceIs
<1>6. \A i \in 1 .. Len(e) : e[i].to > ts
  BY <1>1, <1>5
<1>7. ASSUME NEW k \in 1 .. Len(q), q[k].to > ts
      PROVE  \E i \in 1 .. Len(e) : e[i] = q[k]
  BY <1>3, <1>5, <1>7
<1>8. ASSUME NEW t, Stacked(q, t)
      PROVE  Stacked(e, t)
  <2>1. \A i \in 1 .. Len(e) : p[i] \in 1 .. Len(q)
    BY <1>1, <1>5
  <2>2. \A k \in 1 .. Len(q) : /\ q[k].span \in 1 .. Len(spans)
                               /\ spans[q[k].span].tid = t
                               /\ q[k] = Whole(q[k].span)
    BY <1>8 DEF Stacked, Numbered
  <2>3. \A j, k \in 1 .. Len(q) : j < k => q[j].span < q[k].span
    BY <1>8 DEF Stacked, Numbered
  <2>4. \A i \in 1 .. Len(e) : /\ e[i].span \in 1 .. Len(spans)
                               /\ spans[e[i].span].tid = t
                               /\ e[i] = Whole(e[i].span)
    BY <1>5, <2>1, <2>2
  <2>5. \A i, j \in 1 .. Len(e) : i < j => e[i].span < e[j].span
    BY <1>5, <2>1, <2>3
  <2>6. QED BY <2>4, <2>5 DEF Stacked, Numbered
<1>9. QED BY <1>4, <1>6, <1>7, <1>8 DEF e

\* The context of a thread is a slice for each of the spans that reach into the chunk.
LEMMA ContextIs ==
  ASSUME NEW q \in Seq(Slice), NEW c \in 0 .. NumChunks - 1
  PROVE  /\ Context(q, c) \in Seq(Slice)
         /\ Len(Context(q, c)) = Len(Expire(q, Start(c)))
         /\ \A k \in 1 .. Len(Context(q, c)) :
              Context(q, c)[k] = ContextSlice(Expire(q, Start(c))[k], c)
<1> DEFINE e == Expire(q, Start(c))
<1>1. e \in Seq(Slice)
  BY ExpireKeeps
<1>2. Context(q, c) = [k \in 1 .. Len(e) |-> ContextSlice(e[k], c)]
  BY DEF Context
<1> HIDE DEF e
<1>3. ASSUME NEW k \in 1 .. Len(e)
      PROVE  ContextSlice(e[k], c) \in Slice
  <2>1. e[k] \in Slice
    BY <1>1
  <2> DEFINE Ends == Times \cup {Start(d) : d \in 0 .. NumChunks}
  <2>2. Start(c) \in Ends
    BY ChunkAssumption
  <2>3. c < NumChunks - 1 => End(c) \in Ends
    <3>1. c + 1 \in 0 .. NumChunks /\ End(c) = Start(c + 1)
      BY ChunkAssumption DEF Start, End
    <3>2. QED BY <3>1
  <2>4. Slice = [span : 1 .. MaxSpans, from : Ends, to : Ends]
    BY DEF Slice
  <2> HIDE DEF Ends
  <2>5. QED BY <2>1, <2>2, <2>3, <2>4 DEF ContextSlice
<1>4. [k \in 1 .. Len(e) |-> ContextSlice(e[k], c)] \in [1 .. Len(e) -> Slice]
  BY <1>3
<1>5. PICK r \in [1 .. Len(e) -> Slice] : r = [k \in 1 .. Len(e) |-> ContextSlice(e[k], c)]
  BY <1>4
<1>6. Len(e) \in Nat
  BY <1>1
<1>7. r \in Seq(Slice) /\ Len(r) = Len(e)
  BY <1>6
<1>8. \A k \in 1 .. Len(e) : r[k] = ContextSlice(e[k], c)
  BY <1>5
<1>9. QED BY <1>2, <1>5, <1>7, <1>8 DEF e

\* The context that a thread's stack leaves in a new chunk C shows the thread's spans as
\* it should, and lies within them: nothing that reaches into C was dropped before.
LEMMA ContextShows ==
  ASSUME Calls, NEW t \in VizTids, NEW q \in Seq(Slice), Stacked(q, t),
         NEW c \in 0 .. NumChunks - 1, NEW C \in 0 .. NumChunks - 1, c < C,
         NoneMissing(q, t, c),
         \A n \in 1 .. Len(spans) : spans[n].tid = t => ChunkFor(spans[n].from) <= c
  PROVE  /\ Stacked(Expire(q, Start(C)), t)
         /\ NoneMissing(Expire(q, Start(C)), t, C)
         /\ Numbered(Context(q, C), t) /\ Within(Context(q, C))
         /\ \A n \in 1 .. Len(spans) : spans[n].tid = t => Shows(Context(q, C), n, C)
<1> DEFINE e == Expire(q, Start(C))
           x == Context(q, C)
           b == Start(C)
           h == End(C)
           N == NumChunks
<1>1. N \in Nat /\ N >= 1
  BY ChunkAssumption
<1> HIDE DEF N
<1>2. c \in Int /\ C \in Int /\ 0 <= c /\ c + 1 <= C /\ C <= N - 1 /\ c < N - 1
  BY <1>1 DEF N
<1>3. b \in Int /\ h \in Int /\ End(c) <= b /\ b < h
  <2>1. End(c) = Start(c + 1)
    BY <1>2, StartsOrdered
  <2>2. Start(c + 1) \in Int /\ Start(C) \in Int /\ Start(c + 1) <= Start(C)
    BY <1>2, StartsOrdered
  <2>3. Start(C + 1) \in Int /\ End(C) = Start(C + 1) /\ Start(C) < End(C)
    BY <1>2, StartsOrdered
  <2>4. QED BY <2>1, <2>2, <2>3
<1>4. End(c) \in Int
  BY <1>2, ChunkAssumption DEF End
<1>5. \A n \in 1 .. Len(spans) : /\ n \in Int
                                 /\ spans[n].from \in Int /\ spans[n].to \in Int
  <2>1. SUFFICES ASSUME NEW n \in 1 .. Len(spans)
                 PROVE  n \in Int /\ spans[n].from \in Int /\ spans[n].to \in Int
    OBVIOUS
  <2>2. spans \in Seq(Span)
    BY DEF Calls
  <2>3. spans[n] \in Span /\ n \in Int
    BY <2>2
  <2>4. QED BY <2>3, ChunkAssumption DEF Span
<1>6. /\ e \in Seq(Slice)
      /\ \A k \in 1 .. Len(e) : e[k].to > b
      /\ \A k \in 1 .. Len(q) : q[k].to > b => \E j \in 1 .. Len(e) : e[j] = q[k]
      /\ Stacked(e, t)
  BY ExpireKeeps
<1>7. /\ x \in Seq(Slice) /\ Len(x) = Len(e)
      /\ \A k \in 1 .. Len(x) : x[k] = ContextSlice(e[k], C)
  BY ContextIs
<1> HIDE DEF e, x, b, h
<1>8. \A k \in 1 .. Len(q) : q[k] = Whole(q[k].span)
  BY DEF Stacked
<1>9. \A k \in 1 .. Len(e) : /\ e[k].span \in 1 .. Len(spans)
                             /\ spans[e[k].span].tid = t
                             /\ e[k] = Whole(e[k].span)
  BY <1>6 DEF Stacked, Numbered
<1>10. \A j, k \in 1 .. Len(e) : j < k => e[j].span < e[k].span
  BY <1>6 DEF Stacked, Numbered
<1>11. ASSUME NEW n \in 1 .. Len(spans), spans[n].tid = t, spans[n].to > b
       PROVE  \E k \in 1 .. Len(e) : e[k] = Whole(n)
  <2>1. spans[n].to > End(c)
    BY <1>3, <1>4, <1>5, <1>11
  <2>2. PICK k \in 1 .. Len(q) : q[k].span = n
    BY <1>2, <1>11, <2>1 DEF NoneMissing, N
  <2>3. q[k] = Whole(n) /\ q[k].to > b
    BY <1>8, <1>11, <2>2 DEF Whole
  <2>4. QED BY <1>6, <2>3
<1>12. NoneMissing(e, t, C)
  <2>1. SUFFICES ASSUME NEW n \in 1 .. Len(spans), spans[n].tid = t, spans[n].to > h
                 PROVE  \E k \in 1 .. Len(e) : e[k].span = n
    BY DEF NoneMissing, h
  <2>2. spans[n].to > b
    BY <1>3, <1>5, <2>1
  <2>3. PICK k \in 1 .. Len(e) : e[k] = Whole(n)
    BY <1>11, <2>1, <2>2
  <2>4. e[k].span = n
    BY <2>3 DEF Whole
  <2>5. QED BY <2>4
<1>13. \A k \in 1 .. Len(x) :
         /\ x[k].span = e[k].span /\ x[k].from = b
         /\ x[k].to = IF C < N - 1 /\ e[k].to > h THEN h ELSE e[k].to
  <2>1. ASSUME NEW s
        PROVE  /\ ContextSlice(s, C).span = s.span /\ ContextSlice(s, C).from = Start(C)
               /\ ContextSlice(s, C).to =
                    IF C < NumChunks - 1 /\ s.to > End(C) THEN End(C) ELSE s.to
    BY DEF ContextSlice
  <2>2. SUFFICES ASSUME NEW k \in 1 .. Len(x)
                 PROVE  /\ x[k].span = e[k].span /\ x[k].from = b
                        /\ x[k].to = IF C < N - 1 /\ e[k].to > h THEN h ELSE e[k].to
    OBVIOUS
  <2>3. x[k] = ContextSlice(e[k], C)
    BY <1>7
  <2>4. QED BY <2>1, <2>3 DEF b, h, N
<1>14. Numbered(x, t)
  <2>1. \A k \in 1 .. Len(x) : x[k].span \in 1 .. Len(spans) /\ spans[x[k].span].tid = t
    BY <1>7, <1>9, <1>13
  <2>2. \A j, k \in 1 .. Len(x) : j < k => x[j].span < x[k].span
    BY <1>7, <1>10, <1>13
  <2>3. QED BY <2>1, <2>2 DEF Numbered
<1>15. Within(x)
  <2>1. SUFFICES ASSUME NEW k \in 1 .. Len(x)
                 PROVE  /\ spans[x[k].span].from <= x[k].from
                        /\ x[k].to <= spans[x[k].span].to
    BY DEF Within
  <2>2. PICK n \in 1 .. Len(spans) : n = e[k].span /\ spans[n].tid = t /\ e[k] = Whole(n)
    BY <1>7, <1>9
  <2>3. x[k].span = n /\ x[k].from = b
        /\ x[k].to = IF C < N - 1 /\ spans[n].to > h THEN h ELSE spans[n].to
    <3>1. e[k].span = n /\ e[k].to = spans[n].to
      BY <2>2 DEF Whole
    <3>2. QED BY <1>13, <3>1
  <2>4. spans[n].from < b
    <3> DEFINE d == ChunkFor(spans[n].from)
    <3>1. /\ d \in 0 .. N - 1 /\ (d < N - 1 => spans[n].from < End(d))
      BY <1>5, ChunkForTime DEF N
    <3>2. d <= c
      BY <2>2
    <3> HIDE DEF d
    <3>3. d \in Int /\ d < N - 1 /\ d + 1 \in Int /\ d + 1 <= C
      BY <1>1, <1>2, <3>1, <3>2
    <3>4. End(d) = Start(d + 1)
      BY <3>3, StartsOrdered
    <3>5. Start(d + 1) <= Start(C) /\ Start(d + 1) \in Int
      BY <1>2, <3>3, StartsOrdered
    <3>6. QED BY <1>3, <1>5, <3>1, <3>3, <3>4, <3>5 DEF b
  <2>5. spans[n].from \in Int /\ spans[n].to \in Int
    BY <1>5
  <2>6. QED BY <1>3, <2>3, <2>4, <2>5
<1>16. ASSUME NEW n \in 1 .. Len(spans), spans[n].tid = t
       PROVE  Shows(x, n, C)
  <2> DEFINE shown == {k \in DOMAIN x : x[k].span = n}
             home == Home(spans[n].from)
  <2>1. home \in 0 .. N - 1 /\ home <= c
    BY <1>5, <1>16, ChunkForTime, ChunkForIsHome DEF N
  <2> HIDE DEF home
  <2>2. home < C /\ C # home
    BY <1>1, <1>2, <2>1
  <2>3. Reaches(n, C) <=> spans[n].to > b
    BY <2>2 DEF Reaches, home, b
  <2>4. CASE spans[n].to > b
    <3>1. PICK k \in 1 .. Len(e) : e[k] = Whole(n)
      BY <1>11, <1>16, <2>4
    <3>2. k \in DOMAIN x /\ x[k].span = n /\ x[k] = ContextSlice(Whole(n), C)
      BY <1>7, <1>13, <3>1 DEF Whole
    <3>3. ExpectedSlice(n, C) = ContextSlice(Whole(n), C)
      BY <2>2 DEF ExpectedSlice, Whole, home
    <3>4. shown = {k}
      <4>1. SUFFICES ASSUME NEW j \in DOMAIN x, x[j].span = n PROVE j = k
        BY <3>2
      <4>2. j \in 1 .. Len(x) /\ k \in 1 .. Len(x)
        BY <1>7, <3>2, <4>1
      <4>3. ~(j < k) /\ ~(k < j)
        BY <1>14, <1>5, <3>2, <4>1, <4>2 DEF Numbered
      <4>4. j \in Int /\ k \in Int
        BY <1>7, <4>2
      <4>5. QED BY <4>3, <4>4
    <3>5. QED BY <2>3, <2>4, <3>2, <3>3, <3>4 DEF Shows
  <2>5. CASE ~(spans[n].to > b)
    <3>1. ASSUME NEW k \in DOMAIN x, x[k].span = n PROVE FALSE
      <4>1. k \in 1 .. Len(e) /\ e[k].span = n
        BY <1>7, <1>13, <3>1
      <4>2. e[k].to = spans[n].to
        <5>1. e[k] = Whole(n)
          BY <1>9, <4>1
        <5>2. QED BY <5>1 DEF Whole
      <4>3. QED BY <1>6, <2>5, <4>1, <4>2
    <3>2. shown = {}
      BY <3>1
    <3>3. QED BY <2>3, <2>5, <3>2 DEF Shows
  <2>6. QED BY <2>4, <2>5
<1>17. QED BY <1>6, <1>12, <1>14, <1>15, <1>16 DEF e, x, b

-----------------------------------------------------------------------------
\* maybe_advance_chunk for a time that has come: what the writer has made of the calls is
\* as right in the new file as it was in the old one.
LEMMA Advancing ==
  ASSUME CInv, NEW ts \in Times, ts <= now
  PROVE  /\ Writer(ChunkAt(ts), FilesAt(ts), StacksAt(ts))
         /\ ChunkFor(ts) <= ChunkAt(ts)
<1>1. /\ NumChunks \in Nat /\ current \in 0 .. NumChunks - 1 /\ current <= ChunkFor(now)
      /\ ts \in Int /\ now \in Int
  BY ChunkAssumption DEF CInv, Calls, Writer
<1>2. ChunkFor(ts) \in 0 .. NumChunks - 1 /\ ChunkFor(now) \in 0 .. NumChunks - 1
  BY <1>1, ChunkForTime
<1>3. ChunkFor(ts) <= ChunkFor(now)
  BY <1>1, ChunkForMonotone
<1>4. CASE ~Advances(ts)
  <2>1. ChunkAt(ts) = current /\ StacksAt(ts) = stacks
    BY <1>4 DEF ChunkAt, StacksAt
  <2>2. FilesAt(ts) = [d \in DOMAIN files \cup {current} |-> files[d]]
    BY <1>4, <2>1 DEF FilesAt
  <2>3. DOMAIN files \cup {current} = DOMAIN files
    BY DEF CInv, Writer
  <2>4. FilesAt(ts) = files
    BY <2>2, <2>3 DEF CInv, Writer
  <2>5. ChunkFor(ts) <= current
    BY <1>1, <1>2, <1>4 DEF Advances
  <2>6. QED BY <2>1, <2>4, <2>5 DEF CInv
<1>5. CASE Advances(ts)
  <2> DEFINE C == ChunkFor(ts)
             F == FilesAt(ts)
             S == StacksAt(ts)
  <2>1. C > current /\ ChunkAt(ts) = C
    BY <1>5 DEF Advances, ChunkAt
  <2>2. C \in 0 .. NumChunks - 1 /\ C <= ChunkFor(now)
    BY <1>2, <1>3
  <2>3. F = [d \in DOMAIN files \cup {C} |-> IF d = C THEN NewFile(C) ELSE files[d]]
    BY <1>5, <2>1 DEF FilesAt
  <2>4. S = [t \in Tids |-> Expire(stacks[t], Start(C))]
    BY <1>5 DEF StacksAt
  <2> HIDE DEF C, F, S
  <2>5. /\ DOMAIN files \subseteq 0 .. current /\ C \notin DOMAIN files
        /\ 0 .. current \subseteq 0 .. C
    BY <1>1, <2>1, <2>2 DEF CInv, Writer
  <2>6. /\ DOMAIN F = DOMAIN files \cup {C}
        /\ \A d \in DOMAIN files : F[d] = files[d]
        /\ F[C] = NewFile(C)
        /\ F = [d \in DOMAIN F |-> F[d]]
    BY <2>3, <2>5
  <2>7. \A t \in Tids : stacks[t] \in Seq(Slice)
    BY DEF CInv, Writer
  <2>8. FileShape(NewFile(C)) /\ NewFile(C).names = cached
        /\ \A t \in Tids : NewFile(C).slices[t] = Context(stacks[t], C)
    <3>1. \A t \in Tids : Context(stacks[t], C) \in Seq(Slice)
      BY <2>2, <2>7, ContextIs
    <3>2. NewFile(C).slices = [t \in Tids |-> Context(stacks[t], C)]
      BY DEF NewFile
    <3>3. NewFile(C).slices \in [Tids -> Seq(Slice)]
      BY <3>1, <3>2
    <3>4. NewFile(C) = [names |-> NewFile(C).names, counters |-> NewFile(C).counters,
                        slices |-> NewFile(C).slices, depth |-> NewFile(C).depth]
      BY DEF NewFile
    <3>5. NewFile(C).names = cached
      BY DEF NewFile
    <3>6. QED BY <3>2, <3>3, <3>4, <3>5 DEF FileShape
  <2>9. S \in [Tids -> Seq(Slice)]
    <3>1. \A t \in Tids : Expire(stacks[t], Start(C)) \in Seq(Slice)
      BY <2>7, ExpireKeeps
    <3>2. QED BY <2>4, <3>1
  <2>10. ASSUME NEW t \in VizTids
         PROVE  /\ Stacked(S[t], t) /\ NoneMissing(S[t], t, C)
                /\ Numbered(F[C].slices[t], t) /\ Within(F[C].slices[t])
                /\ \A n \in 1 .. Len(spans) : spans[n].tid = t =>
                     Shows(F[C].slices[t], n, C)
    <3>1. PICK q \in Seq(Slice) : q = stacks[t]
      BY <2>7 DEF Tids
    <3>2. Calls /\ Stacked(q, t) /\ NoneMissing(q, t, current)
      BY <3>1 DEF CInv, Writer
    <3>3. \A n \in 1 .. Len(spans) : spans[n].tid = t => ChunkFor(spans[n].from) <= current
      BY DEF CInv, Writer
    <3>4. PICK c \in 0 .. NumChunks - 1 : c = current
      BY <1>1
    <3>5. c < C /\ NoneMissing(q, t, c)
          /\ \A n \in 1 .. Len(spans) : spans[n].tid = t => ChunkFor(spans[n].from) <= c
      BY <1>1, <2>1, <2>2, <3>2, <3>3, <3>4
    <3>6. /\ Stacked(Expire(q, Start(C)), t)
          /\ NoneMissing(Expire(q, Start(C)), t, C)
          /\ Numbered(Context(q, C), t) /\ Within(Context(q, C))
          /\ \A n \in 1 .. Len(spans) : spans[n].tid = t => Shows(Context(q, C), n, C)
      BY <2>2, <3>2, <3>5, ContextShows
    <3>7. S[t] = Expire(q, Start(C)) /\ F[C].slices[t] = Context(q, C)
      BY <2>4, <2>6, <2>8, <3>1 DEF Tids
    <3>8. QED BY <3>6, <3>7
  <2>11. ASSUME NEW n \in 1 .. Len(spans), spans[n].tid \in VizTids
         PROVE  /\ ChunkFor(spans[n].from) <= C
                /\ \A d \in DOMAIN F : Shows(F[d].slices[spans[n].tid], n, d)
    <3>1. ChunkFor(spans[n].from) <= current
          /\ \A d \in DOMAIN files : Shows(files[d].slices[spans[n].tid], n, d)
      BY <2>11 DEF CInv, Writer
    <3>2. spans[n].from \in Int
      <4>1. spans \in Seq(Span)
        BY DEF CInv, Calls
      <4>2. spans[n] \in Span
        BY <4>1
      <4>3. QED BY <4>2, ChunkAssumption DEF Span
    <3>3. ChunkFor(spans[n].from) \in 0 .. NumChunks - 1
      BY <3>2, ChunkForTime
    <3>4. ChunkFor(spans[n].from) <= C
      BY <1>1, <2>1, <2>2, <3>1, <3>3
    <3>5. Shows(F[C].slices[spans[n].tid], n, C)
      BY <2>10, <2>11
    <3>6. QED BY <2>6, <3>1, <3>4, <3>5
  <2>12. \A d \in DOMAIN F : \A t \in VizTids :
           Numbered(F[d].slices[t], t) /\ Within(F[d].slices[t])
    <3>1. \A d \in DOMAIN files : \A t \in VizTids :
            Numbered(files[d].slices[t], t) /\ Within(files[d].slices[t])
      BY DEF CInv, Writer
    <3>2. QED BY <2>6, <2>10, <3>1
  <2>13. \A d \in DOMAIN F : FileShape(F[d])
    <3>1. \A d \in DOMAIN files : FileShape(files[d])
      BY DEF CInv, Writer
    <3>2. QED BY <2>6, <2>8, <3>1
  <2>14. C \in DOMAIN F /\ DOMAIN F \subseteq 0 .. C /\ F[C].names = cached
    BY <2>2, <2>5, <2>6, <2>8
  <2>15. Writer(C, F, S)
    BY <2>2, <2>6, <2>9, <2>10, <2>11, <2>12, <2>13, <2>14 DEF Writer
  <2>16. C \in Int
    BY <2>2
  <2>17. QED BY <2>1, <2>15, <2>16 DEF C, F, S
<1>6. QED BY <1>4, <1>5

\* A call that leaves stacks, slices and spans alone.
LEMMA Frame ==
  ASSUME NEW c, NEW fs, NEW gs, NEW st, Writer(c, fs, st),
         spans' = spans, ChunkFor(now)' \in Int, ChunkFor(now) \in Int,
         ChunkFor(now) <= ChunkFor(now)',
         DOMAIN gs = DOMAIN fs, gs = [d \in DOMAIN gs |-> gs[d]],
         \A d \in DOMAIN fs : FileShape(gs[d]) /\ gs[d].slices = fs[d].slices,
         gs[c].names = cached'
  PROVE  Writer(c, gs, st)'
<1>1. c \in 0 .. NumChunks - 1 /\ c <= ChunkFor(now)'
  BY ChunkAssumption DEF Writer
<1>2. /\ \A q, t : Stacked(q, t)' <=> Stacked(q, t)
      /\ \A q, t : NoneMissing(q, t, c)' <=> NoneMissing(q, t, c)
      /\ \A q, t : Numbered(q, t)' <=> Numbered(q, t)
      /\ \A q : Within(q)' <=> Within(q)
      /\ \A q, n, d : Shows(q, n, d)' <=> Shows(q, n, d)
  BY DEF Stacked, NoneMissing, Numbered, Within, Shows, Whole, Reaches, ExpectedSlice
<1>3. /\ c \in DOMAIN gs /\ DOMAIN gs \subseteq 0 .. c
      /\ \A d \in DOMAIN gs : FileShape(gs[d])
      /\ st \in [Tids -> Seq(Slice)]
  BY DEF Writer
<1>4. \A t \in VizTids : Stacked(st[t], t)' /\ NoneMissing(st[t], t, c)'
  BY <1>2 DEF Writer
<1>5. \A n \in 1 .. Len(spans)' : spans[n].tid' \in VizTids =>
        /\ ChunkFor(spans[n].from)' <= c
        /\ \A d \in DOMAIN gs : Shows(gs[d].slices[spans[n].tid], n, d)'
  <2>1. SUFFICES ASSUME NEW n \in 1 .. Len(spans), spans[n].tid \in VizTids
                 PROVE  /\ ChunkFor(spans[n].from) <= c
                        /\ \A d \in DOMAIN gs : Shows(gs[d].slices[spans[n].tid], n, d)
    BY <1>2
  <2>2. QED BY <2>1 DEF Writer
<1>6. \A d \in DOMAIN gs : \A t \in VizTids :
        Numbered(gs[d].slices[t], t)' /\ Within(gs[d].slices[t])'
  BY <1>2 DEF Writer
<1>7. QED BY <1>1, <1>3, <1>4, <1>5, <1>6 DEF Writer

-----------------------------------------------------------------------------
\* Another span: what was said of the earlier ones stays true.
LEMMA Growing ==
  ASSUME spans \in Seq(Span), NEW x \in Span, spans' = Append(spans, x)
  PROVE  /\ Len(spans)' = Len(spans) + 1 /\ Len(spans) \in Nat
         /\ \A n \in 1 .. Len(spans) : spans[n]' = spans[n]
         /\ spans'[Len(spans) + 1] = x
         /\ \A q, t : Numbered(q, t) => Numbered(q, t)'
         /\ \A q, t : Stacked(q, t) => Stacked(q, t)'
         /\ \A q, t : Numbered(q, t) /\ Within(q) => Within(q)'
         /\ \A q, n, d : n \in 1 .. Len(spans) => (Shows(q, n, d)' <=> Shows(q, n, d))
         /\ \A q, t, c : x.tid # t /\ NoneMissing(q, t, c) => NoneMissing(q, t, c)'
<1>1. /\ Len(spans)' = Len(spans) + 1 /\ Len(spans) \in Nat
      /\ \A n \in 1 .. Len(spans) : spans'[n] = spans[n]
      /\ spans'[Len(spans) + 1] = x
  OBVIOUS
<1>2. \A n \in 1 .. Len(spans) : n \in 1 .. Len(spans)'
  BY <1>1
<1>3. ASSUME NEW q, NEW t, Numbered(q, t)
      PROVE  Numbered(q, t)'
  <2>1. ASSUME NEW k \in 1 .. Len(q)
        PROVE  q[k].span \in 1 .. Len(spans)' /\ spans'[q[k].span].tid = t
    <3>1. PICK n \in 1 .. Len(spans) : n = q[k].span /\ spans[n].tid = t
      BY <1>3 DEF Numbered
    <3>2. QED BY <1>1, <1>2, <3>1
  <2>2. \A i, j \in 1 .. Len(q) : i < j => q[i].span < q[j].span
    BY <1>3 DEF Numbered
  <2>3. QED BY <2>1, <2>2 DEF Numbered
<1>4. \A n \in 1 .. Len(spans) : Whole(n)' = Whole(n)
  BY <1>1 DEF Whole
<1>5. ASSUME NEW q, NEW t, Stacked(q, t)
      PROVE  Stacked(q, t)'
  <2>1. Numbered(q, t)'
    BY <1>3, <1>5 DEF Stacked
  <2>2. ASSUME NEW k \in 1 .. Len(q)
        PROVE  q[k] = Whole(q[k].span)'
    <3>1. PICK n \in 1 .. Len(spans) : n = q[k].span
      BY <1>5 DEF Stacked, Numbered
    <3>2. q[k] = Whole(n)
      BY <1>5, <3>1 DEF Stacked
    <3>3. q[k] = Whole(n)'
      BY <1>4, <3>2
    <3>4. QED BY <3>1, <3>3
  <2>3. QED BY <2>1, <2>2 DEF Stacked
<1>6. ASSUME NEW q, NEW t, Numbered(q, t), Within(q)
      PROVE  Within(q)'
  <2>1. ASSUME NEW k \in 1 .. Len(q)
        PROVE  spans'[q[k].span].from <= q[k].from /\ q[k].to <= spans'[q[k].span].to
    <3>1. q[k].span \in 1 .. Len(spans)
      BY <1>6 DEF Numbered
    <3>2. spans'[q[k].span] = spans[q[k].span]
      BY <1>1, <3>1
    <3>3. QED BY <1>6, <3>2 DEF Within
  <2>2. QED BY <2>1 DEF Within
<1>7. ASSUME NEW q, NEW n, NEW d, n \in 1 .. Len(spans)
      PROVE  Shows(q, n, d)' <=> Shows(q, n, d)
  <2>1. spans'[n] = spans[n]
    BY <1>1, <1>7
  <2>2. (Reaches(n, d)' <=> Reaches(n, d)) /\ ExpectedSlice(n, d)' = ExpectedSlice(n, d)
    BY <2>1 DEF Reaches, ExpectedSlice
  <2>3. QED BY <2>2 DEF Shows
<1>8. ASSUME NEW q, NEW t, NEW c, x.tid # t, NoneMissing(q, t, c)
      PROVE  NoneMissing(q, t, c)'
  <2>1. SUFFICES ASSUME c < NumChunks - 1, NEW n \in 1 .. Len(spans)',
                        spans'[n].tid = t, spans'[n].to > End(c)
                 PROVE  \E k \in 1 .. Len(q) : q[k].span = n
    BY DEF NoneMissing
  <2>2. n \in 1 .. Len(spans)
    BY <1>1, <1>8, <2>1
  <2>3. spans'[n] = spans[n]
    BY <1>1, <2>2
  <2>4. QED BY <1>8, <2>1, <2>2, <2>3 DEF NoneMissing
<1>9. QED BY <1>1, <1>3, <1>5, <1>6, <1>7, <1>8

\* The slice of the new span, appended to those of its thread.
LEMMA Appending ==
  ASSUME spans \in Seq(Span), NEW x \in Span, spans' = Append(spans, x),
         NEW N \in Nat, N = Len(spans) + 1,
         NEW s \in Slice, s = [span |-> N, from |-> x.from, to |-> x.to],
         NEW q \in Seq(Slice), Numbered(q, x.tid)
  PROVE  /\ Append(q, s) \in Seq(Slice)
         /\ Numbered(Append(q, s), x.tid)'
         /\ Within(q) => Within(Append(q, s))'
         /\ Stacked(q, x.tid) => Stacked(Append(q, s), x.tid)'
         /\ Shows(Append(q, s), N, ChunkFor(x.from))'
         /\ \A d \in Int : d < ChunkFor(x.from) => Shows(q, N, d)'
         /\ \A n \in 1 .. Len(spans) : \A d : Shows(q, n, d) => Shows(Append(q, s), n, d)'
<1> DEFINE L == Len(q) + 1
           r == Append(q, s)
<1>0. ChunkFor(x.from) = Home(x.from)
  BY ChunkAssumption, ChunkForIsHome DEF Span
<1>1. /\ Len(spans)' = N /\ Len(spans) \in Nat /\ N \in Nat /\ N > 0
      /\ spans'[N] = x /\ N \in 1 .. Len(spans)'
  BY Growing
<1>2. /\ r \in Seq(Slice) /\ Len(r) = L /\ Len(q) \in Nat /\ r[L] = s
      /\ \A k \in 1 .. Len(q) : r[k] = q[k]
  OBVIOUS
<1>3. \A k \in 1 .. Len(q) : /\ q[k].span \in 1 .. Len(spans) /\ spans[q[k].span].tid = x.tid
                             /\ q[k].span < N
  BY <1>1 DEF Numbered
<1>4. s.span = N /\ s.from = x.from /\ s.to = x.to
  OBVIOUS
<1>5. ASSUME NEW k \in 1 .. L
      PROVE  k \in 1 .. Len(q) \/ k = L
  BY <1>2
<1>6. /\ Numbered(q, x.tid)'
      /\ Stacked(q, x.tid) => Stacked(q, x.tid)'
      /\ Within(q) => Within(q)'
  BY Growing
<1>7. Numbered(r, x.tid)'
  <2>1. \A k \in 1 .. Len(q) : q[k].span \in 1 .. Len(spans)' /\ spans'[q[k].span].tid = x.tid
    BY <1>6 DEF Numbered
  <2>2. \A k \in 1 .. Len(r) : r[k].span \in 1 .. Len(spans)' /\ spans'[r[k].span].tid = x.tid
    BY <1>1, <1>2, <1>4, <1>5, <2>1
  <2>3. ASSUME NEW i \in 1 .. Len(r), NEW j \in 1 .. Len(r), i < j
        PROVE  r[i].span < r[j].span
    <3>1. i \in 1 .. Len(q)
      BY <1>2, <2>3
    <3>2. CASE j = L
      BY <1>2, <1>3, <1>4, <3>1, <3>2
    <3>3. CASE j \in 1 .. Len(q)
      <4>1. q[i].span < q[j].span
        BY <2>3, <3>1, <3>3 DEF Numbered
      <4>2. QED BY <1>2, <3>1, <3>3, <4>1
    <3>4. QED BY <1>2, <1>5, <3>2, <3>3
  <2>4. QED BY <2>2, <2>3 DEF Numbered
<1>8. ASSUME Within(q)
      PROVE  Within(r)'
  <2>1. x.from \in Int /\ x.to \in Int
    BY ChunkAssumption DEF Span
  <2>2. SUFFICES ASSUME NEW k \in 1 .. Len(r)
                 PROVE  spans'[r[k].span].from <= r[k].from /\ r[k].to <= spans'[r[k].span].to
    BY DEF Within
  <2>3. CASE k = L
    BY <1>1, <1>2, <1>4, <2>1, <2>3
  <2>4. CASE k \in 1 .. Len(q)
    <3>1. spans'[q[k].span].from <= q[k].from /\ q[k].to <= spans'[q[k].span].to
      BY <1>6, <1>8, <2>4 DEF Within
    <3>2. QED BY <1>2, <2>4, <3>1
  <2>5. QED BY <1>2, <1>5, <2>3, <2>4
<1>9. ASSUME Stacked(q, x.tid)
      PROVE  Stacked(r, x.tid)'
  <2>1. \A k \in 1 .. Len(q) : q[k] = Whole(q[k].span)'
    BY <1>6, <1>9 DEF Stacked
  <2>2. s = Whole(N)'
    BY <1>1 DEF Whole
  <2>3. \A k \in 1 .. Len(r) : r[k] = Whole(r[k].span)'
    BY <1>2, <1>4, <1>5, <2>1, <2>2
  <2>4. QED BY <1>7, <2>3 DEF Stacked
<1>10. Shows(r, N, ChunkFor(x.from))'
  <2>1. {k \in DOMAIN r : r[k].span = N} = {L}
    <3>1. DOMAIN r = 1 .. Len(r) /\ L \in 1 .. Len(r)
      BY <1>2
    <3>2. \A k \in 1 .. Len(q) : q[k].span # N
      BY <1>1, <1>3
    <3>3. QED BY <1>2, <1>4, <1>5, <3>1, <3>2
  <2>2. Reaches(N, Home(x.from))'
    BY <1>1 DEF Reaches
  <2>3. ExpectedSlice(N, Home(x.from))' = s
    BY <1>1 DEF ExpectedSlice
  <2>4. QED BY <1>0, <1>2, <2>1, <2>2, <2>3 DEF Shows
<1>11. ASSUME NEW d \in Int, d < ChunkFor(x.from)
       PROVE  Shows(q, N, d)'
  <2>1. x.from \in Int
    BY ChunkAssumption DEF Span
  <2>2. ChunkFor(x.from) \in Int
    <3>1. ChunkFor(x.from) \in 0 .. NumChunks - 1
      BY <2>1, ChunkForTime
    <3>2. QED BY <3>1, ChunkAssumption
  <2>3. ~Reaches(N, d)'
    <3> DEFINE h == Home(x.from)
    <3>1. d # h /\ ~(d > h)
      <4> HIDE DEF h
      <4>1. h \in Int /\ d < h
        BY <1>0, <1>11, <2>2 DEF h
      <4>2. QED BY <4>1
    <3>2. QED BY <1>1, <3>1 DEF Reaches
  <2>4. {k \in DOMAIN q : q[k].span = N} = {}
    BY <1>1, <1>2, <1>3
  <2>5. QED BY <2>3, <2>4 DEF Shows
<1>12. ASSUME NEW n \in 1 .. Len(spans), NEW d, Shows(q, n, d)
       PROVE  Shows(r, n, d)'
  <2>1. Shows(q, n, d)'
    BY <1>12, Growing
  <2>2. n # N
    BY <1>1
  <2>3. {k \in DOMAIN r : r[k].span = n} = {k \in DOMAIN q : q[k].span = n}
    <3>1. DOMAIN r = 1 .. L /\ DOMAIN q = 1 .. Len(q) /\ r[L].span # n
      BY <1>2, <1>4, <2>2
    <3>2. 1 .. Len(q) \subseteq 1 .. L
      BY <1>2
    <3>3. QED BY <1>2, <1>5, <3>1, <3>2
  <2>4. \A k \in DOMAIN q : r[k] = q[k]
    BY <1>2
  <2>5. QED BY <2>1, <2>3, <2>4 DEF Shows
<1>13. QED BY <1>2, <1>7, <1>8, <1>9, <1>10, <1>11, <1>12

\* write_complete, once the writer is in the right chunk.
LEMMA Adding ==
  ASSUME spans \in Seq(Span), NEW x \in Span, spans' = Append(spans, x),
         now' = now, cached' = cached,
         NEW N \in Nat, N = Len(spans) + 1,
         NEW s \in Slice, s = [span |-> N, from |-> x.from, to |-> x.to],
         NEW c, NEW fs, NEW st, Writer(c, fs, st),
         NEW stack \in Seq(Slice),
         x.tid \in VizTids => /\ Stacked(stack, x.tid)' /\ NoneMissing(stack, x.tid, c)'
                              /\ ChunkFor(x.from) = c
  PROVE  Writer(c, [fs EXCEPT ![c].slices[x.tid] = Append(@, s)],
                [st EXCEPT ![x.tid] = stack])'
<1> DEFINE gs == [fs EXCEPT ![c].slices[x.tid] = Append(@, s)]
           stn == [st EXCEPT ![x.tid] = stack]
           t == x.tid
           q == fs[c].slices[t]
<1>1. t \in Tids
  BY DEF Span
<1>2. /\ c \in 0 .. NumChunks - 1 /\ c <= ChunkFor(now)
      /\ c \in DOMAIN fs /\ DOMAIN fs \subseteq 0 .. c /\ fs = [d \in DOMAIN fs |-> fs[d]]
      /\ \A d \in DOMAIN fs : FileShape(fs[d])
      /\ fs[c].names = cached
      /\ st \in [Tids -> Seq(Slice)]
  BY DEF Writer
<1>3. q \in Seq(Slice)
  BY <1>1, <1>2 DEF FileShape
<1>4. /\ DOMAIN gs = DOMAIN fs /\ gs = [d \in DOMAIN gs |-> gs[d]]
      /\ \A d \in DOMAIN fs : d # c => gs[d] = fs[d]
      /\ gs[c] = [fs[c] EXCEPT !.slices[t] = Append(@, s)]
  BY <1>2
<1>5. Append(q, s) \in Seq(Slice)
  BY <1>3
<1> DEFINE g == gs[c]
<1> HIDE DEF gs
<1>6. /\ FileShape(g) /\ g.names = cached
      /\ g.slices[t] = Append(q, s)
      /\ \A u \in Tids : u # t => g.slices[u] = fs[c].slices[u]
  <2> DEFINE f == fs[c]
  <2>1. /\ f = [names |-> f.names, counters |-> f.counters, slices |-> f.slices,
                 depth |-> f.depth]
        /\ f.slices \in [Tids -> Seq(Slice)] /\ f.names = cached
    BY <1>2 DEF FileShape
  <2>2. g = [f EXCEPT !.slices[t] = Append(q, s)]
    BY <1>4
  <2> HIDE DEF f, g, q
  <2>3. g = [names |-> f.names, counters |-> f.counters,
             slices |-> [f.slices EXCEPT ![t] = Append(q, s)], depth |-> f.depth]
    BY <2>1, <2>2
  <2>4. g.slices = [f.slices EXCEPT ![t] = Append(q, s)] /\ g.names = f.names
        /\ g = [names |-> g.names, counters |-> g.counters, slices |-> g.slices,
                depth |-> g.depth]
    BY <2>3
  <2>5. g.slices \in [Tids -> Seq(Slice)] /\ g.slices[t] = Append(q, s)
        /\ \A u \in Tids : u # t => g.slices[u] = f.slices[u]
    BY <1>1, <1>5, <2>1, <2>4
  <2>6. QED BY <2>1, <2>4, <2>5 DEF FileShape, f
<1>7. /\ stn \in [Tids -> Seq(Slice)] /\ stn[t] = stack
      /\ \A u \in Tids : u # t => stn[u] = st[u]
  BY <1>1, <1>2
<1>8. \A d \in DOMAIN gs : FileShape(gs[d])
  BY <1>2, <1>4, <1>6
<1> HIDE DEF g, stn, t, q
<1>9. \A u \in Tids, d \in DOMAIN fs : d # c \/ u # t => gs[d].slices[u] = fs[d].slices[u]
  BY <1>4, <1>6 DEF g
<1>10. gs[c].slices[t] = Append(q, s) /\ gs[c].names = cached
  BY <1>6 DEF g
<1>11. c \in 0 .. NumChunks - 1 /\ c <= ChunkFor(now)'
  BY <1>2 DEF ChunkFor
<1>12. /\ Len(spans)' = N
       /\ \A n \in 1 .. Len(spans) : spans'[n] = spans[n]
       /\ spans'[N] = x /\ Len(spans) \in Nat
  BY Growing
<1>13. t \in VizTids => Numbered(q, t) /\ Within(q)
  BY <1>2 DEF Writer, q
<1>14. ASSUME t \in VizTids
       PROVE  /\ Numbered(Append(q, s), t)'
              /\ Within(Append(q, s))'
              /\ Shows(Append(q, s), N, c)'
              /\ \A n \in 1 .. Len(spans) : \A d : Shows(q, n, d) => Shows(Append(q, s), n, d)'
  BY <1>3, <1>13, <1>14, Appending DEF t
<1>15. \A u \in VizTids : Stacked(stn[u], u)' /\ NoneMissing(stn[u], u, c)'
  <2>1. SUFFICES ASSUME NEW u \in VizTids
                 PROVE  Stacked(stn[u], u)' /\ NoneMissing(stn[u], u, c)'
    OBVIOUS
  <2>2. CASE u = t
    BY <1>7, <2>2 DEF t
  <2>3. CASE u # t
    <3>1. u \in Tids
      BY DEF Tids
    <3>2. Stacked(st[u], u) /\ NoneMissing(st[u], u, c)
      BY DEF Writer
    <3>3. Stacked(st[u], u)' /\ NoneMissing(st[u], u, c)'
      BY <2>3, <3>2, Growing DEF t
    <3>4. stn[u] = st[u]
      BY <1>7, <2>3, <3>1
    <3>5. QED BY <3>3, <3>4
  <2>4. QED BY <2>2, <2>3
<1>16. \A d \in DOMAIN gs : \A u \in VizTids :
         Numbered(gs[d].slices[u], u)' /\ Within(gs[d].slices[u])'
  <2>1. SUFFICES ASSUME NEW d \in DOMAIN fs, NEW u \in VizTids
                 PROVE  Numbered(gs[d].slices[u], u)' /\ Within(gs[d].slices[u])'
    BY <1>4
  <2>2. CASE d = c /\ u = t
    BY <1>10, <1>14, <2>2
  <2>3. CASE d # c \/ u # t
    <3>1. Numbered(fs[d].slices[u], u) /\ Within(fs[d].slices[u])
      BY DEF Writer
    <3>2. Numbered(fs[d].slices[u], u)' /\ Within(fs[d].slices[u])'
      BY <3>1, Growing
    <3>3. gs[d].slices[u] = fs[d].slices[u]
      BY <1>9, <2>3 DEF Tids
    <3>4. QED BY <3>2, <3>3
  <2>4. QED BY <2>2, <2>3
<1>17. ASSUME NEW n \in 1 .. Len(spans)', spans'[n].tid \in VizTids
       PROVE  /\ ChunkFor(spans[n].from)' <= c
              /\ \A d \in DOMAIN gs : Shows(gs[d].slices[spans[n].tid], n, d)'
  <2>1. CASE n \in 1 .. Len(spans)
    <3>1. PICK u \in VizTids : u = spans[n].tid /\ u = spans'[n].tid
      BY <1>12, <1>17, <2>1
    <3>2. /\ ChunkFor(spans[n].from) <= c
          /\ \A d \in DOMAIN fs : Shows(fs[d].slices[u], n, d)
      BY <2>1, <3>1 DEF Writer
    <3>3. ChunkFor(spans[n].from)' <= c
      BY <1>12, <2>1, <3>2 DEF ChunkFor
    <3>4. ASSUME NEW d \in DOMAIN fs
          PROVE  Shows(gs[d].slices[u], n, d)'
      <4>1. CASE d = c /\ u = t
        <5>1. Shows(q, n, c)
          BY <3>2, <4>1 DEF q
        <5>2. Shows(Append(q, s), n, c)'
          BY <1>14, <2>1, <4>1, <5>1
        <5>3. QED BY <1>10, <4>1, <5>2
      <4>2. CASE d # c \/ u # t
        <5>1. Shows(fs[d].slices[u], n, d)
          BY <3>2
        <5>2. Shows(fs[d].slices[u], n, d)'
          BY <2>1, <5>1, Growing
        <5>3. gs[d].slices[u] = fs[d].slices[u]
          BY <1>9, <4>2 DEF Tids
        <5>4. QED BY <5>2, <5>3
      <4>3. QED BY <4>1, <4>2
    <3>5. QED BY <1>4, <3>1, <3>3, <3>4
  <2>2. CASE n = N
    <3>1. spans'[n] = x /\ t \in VizTids /\ ChunkFor(x.from) = c
      BY <1>12, <1>17, <2>2 DEF t
    <3>2. ChunkFor(spans[n].from)' <= c
      <4>1. c \in Int
        BY <1>2
      <4>2. ChunkFor(spans[n].from)' = c
        BY <3>1 DEF ChunkFor
      <4>3. QED BY <4>1, <4>2
    <3>3. ASSUME NEW d \in DOMAIN fs
          PROVE  Shows(gs[d].slices[t], N, d)'
      <4>1. CASE d = c
        BY <1>10, <1>14, <3>1, <4>1
      <4>2. CASE d # c
        <5>1. PICK p \in Seq(Slice) : p = fs[d].slices[t]
          BY <1>1, <1>2 DEF FileShape, t
        <5>2. Numbered(p, x.tid)
          BY <3>1, <5>1 DEF Writer, t
        <5>3. d \in Int /\ d < ChunkFor(x.from)
          <6>1. d \in 0 .. c /\ c \in Int
            BY <1>2
          <6>2. QED BY <3>1, <4>2, <6>1
        <5>4. Shows(p, N, d)'
          BY <5>2, <5>3, Appending
        <5>5. gs[d].slices[t] = p
          BY <1>1, <1>9, <4>2, <5>1
        <5>6. QED BY <5>4, <5>5
      <4>3. QED BY <4>1, <4>2
    <3>4. spans'[n].tid = t
      BY <3>1 DEF t
    <3>5. QED BY <1>4, <2>2, <3>2, <3>3, <3>4
  <2>3. n \in 1 .. Len(spans) \/ n = N
    BY <1>12
  <2>4. QED BY <2>1, <2>2, <2>3
<1>18. c \in DOMAIN gs /\ DOMAIN gs \subseteq 0 .. c /\ gs[c].names = cached'
  BY <1>2, <1>4, <1>10
<1>19. Writer(c, gs, stn)'
  <2>1. ASSUME NEW n \in 1 .. Len(spans)'
        PROVE  spans'[n].tid \in VizTids =>
                 /\ ChunkFor(spans[n].from)' <= c
                 /\ \A d \in DOMAIN gs : Shows(gs[d].slices[spans[n].tid], n, d)'
    BY <1>17
  <2>2. QED BY <1>4, <1>7, <1>8, <1>11, <1>15, <1>16, <1>18, <2>1 DEF Writer
<1>20. QED BY <1>19 DEF gs, stn, t

\* write_complete and the 'X' records of write_viz_event: a viz span that begins now, or a
\* scheduler span.
LEMMA WriteSpanStep ==
  ASSUME CInv, NEW t \in Tids, NEW from \in Times, NEW to \in Times, from <= now,
         Len(spans) < MaxSpans, WriteSpan(t, from, to), now' = now,
         t \in VizTids => from = now /\ from <= to /\ Nests(t, now, to)
  PROVE  CInv'
<1> DEFINE N == Len(spans) + 1
           x == [tid |-> t, from |-> from, to |-> to]
           s == [span |-> N, from |-> from, to |-> to]
<1>1. PICK C, fs, st :
        /\ C \in 0 .. NumChunks - 1 /\ C = ChunkAt(from)
        /\ fs = FilesAt(from) /\ st = StacksAt(from)
        /\ Writer(C, fs, st) /\ ChunkFor(from) <= C
  <2>1. Writer(ChunkAt(from), FilesAt(from), StacksAt(from)) /\ ChunkFor(from) <= ChunkAt(from)
    BY Advancing
  <2>2. ChunkAt(from) \in 0 .. NumChunks - 1
    BY <2>1 DEF Writer
  <2>3. QED BY <2>1, <2>2
<1>2. /\ writing \in BOOLEAN /\ cached \subseteq Names /\ now \in Times
      /\ spans \in Seq(Span) /\ Len(spans) <= MaxSpans /\ Len(spans) \in Nat
  BY DEF CInv, Calls
<1>3. PICK n \in Nat : n = N /\ n \in 1 .. MaxSpans
  BY <1>2, ChunkAssumption
<1>4. PICK sl \in Slice : sl = [span |-> n, from |-> from, to |-> to] /\ sl = s
  BY <1>3 DEF Slice
<1>5. x \in Span
  BY DEF Span
<1>6. PICK y \in Span : y = x /\ y.tid = t /\ y.from = from /\ y.to = to
  BY <1>5
<1> HIDE DEF s, N, x
<1>7. /\ n = Len(spans) + 1
      /\ sl = [span |-> n, from |-> y.from, to |-> y.to]
      /\ sl.span = n /\ sl.from = from /\ sl.to = to
  BY <1>3, <1>4, <1>6 DEF N
<1>8. PICK old \in Seq(Slice) : old = st[t]
  BY <1>1 DEF Writer
<1> DEFINE kept == Expire(old, from)
<1>9. PICK stack : stack = IF to > from THEN Append(kept, sl) ELSE kept
  OBVIOUS
<1>10. /\ current' = C
       /\ stacks' = [st EXCEPT ![t] = stack]
       /\ files' = [fs EXCEPT ![C].slices[t] = Append(@, sl)]
       /\ spans' = Append(spans, y)
       /\ writing' = writing /\ cached' = cached
  BY <1>1, <1>4, <1>6, <1>8, <1>9 DEF WriteSpan, s, N, x
<1>11. /\ kept \in Seq(Slice)
       /\ \A k \in 1 .. Len(old) : old[k].to > from =>
            \E i \in 1 .. Len(kept) : kept[i] = old[k]
       /\ Stacked(old, t) => Stacked(kept, t)
  BY ExpireKeeps
<1> HIDE DEF kept
<1>12. stack \in Seq(Slice)
  BY <1>9, <1>11
<1>13. from \in Int /\ to \in Int /\ now \in Int /\ NumChunks \in Nat /\ C \in Int
  BY <1>1, <1>2, ChunkAssumption
<1>14. /\ Len(spans)' = n /\ spans'[n] = y
       /\ \A k \in 1 .. Len(spans) : spans'[k] = spans[k]
  BY <1>2, <1>7, <1>10, Growing
<1>15. ASSUME t \in VizTids
       PROVE  /\ Stacked(stack, t)' /\ NoneMissing(stack, t, C)'
              /\ ChunkFor(from) = C
  <2>1. ChunkFor(now) = C /\ from = now /\ from <= to
    <3>1. ChunkFor(now) \in 0 .. NumChunks - 1
      BY <1>13, ChunkForTime
    <3>2. C <= ChunkFor(now)
      BY <1>1 DEF Writer
    <3>3. from = now
      BY <1>15
    <3>4. ChunkFor(now) <= C
      BY <1>1, <3>3
    <3>5. QED BY <1>13, <1>15, <3>1, <3>2, <3>3, <3>4
  <2>2. Stacked(old, t) /\ NoneMissing(old, t, C)
    BY <1>1, <1>8, <1>15 DEF Writer
  <2>3. Stacked(kept, t) /\ Numbered(kept, t)
    BY <1>11, <2>2 DEF Stacked
  <2>4. Stacked(stack, t)'
    <3>1. Stacked(kept, t)'
      BY <1>2, <1>10, <2>3, Growing
    <3>2. Stacked(Append(kept, sl), t)'
      BY <1>2, <1>6, <1>7, <1>10, <1>11, <2>3, Appending
    <3>3. QED BY <1>9, <3>1, <3>2
  <2>5. NoneMissing(stack, t, C)'
    <3>1. SUFFICES ASSUME C < NumChunks - 1, NEW k \in 1 .. n,
                          spans'[k].tid = t, spans'[k].to > End(C)
                   PROVE  \E i \in 1 .. Len(stack) : stack[i].span = k
      BY <1>14 DEF NoneMissing, End
    <3>2. now < End(C)
      BY <1>13, <2>1, <3>1, ChunkForTime
    <3>3. End(C) \in Int
      <4>1. C \in Int
        BY <1>1
      <4>2. QED BY <4>1, ChunkAssumption DEF End
    <3>4. CASE k = n
      <4>1. to > from
        BY <1>6, <1>13, <1>14, <2>1, <3>1, <3>2, <3>3, <3>4
      <4>2. stack = Append(kept, sl)
        BY <1>9, <4>1
      <4>3. Len(stack) = Len(kept) + 1 /\ stack[Len(kept) + 1] = sl /\ Len(kept) \in Nat
        BY <1>11, <4>2
      <4>4. QED BY <1>7, <3>4, <4>3
    <3>5. CASE k \in 1 .. Len(spans)
      <4>1. spans[k].tid = t /\ spans[k].to > End(C)
        BY <1>14, <3>1, <3>5
      <4>2. PICK j \in 1 .. Len(old) : old[j].span = k
        BY <2>2, <3>1, <3>5, <4>1 DEF NoneMissing
      <4>3. old[j] = Whole(k)
        BY <2>2, <4>2 DEF Stacked
      <4>4. old[j].to = spans[k].to
        BY <4>3 DEF Whole
      <4>5. spans[k].to \in Int
        <5>1. spans[k] \in Span
          BY <1>2, <3>5
        <5>2. QED BY <5>1, ChunkAssumption DEF Span
      <4>6. old[j].to > from
        BY <1>13, <2>1, <3>2, <3>3, <4>1, <4>4, <4>5
      <4>7. PICK i \in 1 .. Len(kept) : kept[i] = old[j]
        BY <1>11, <4>6
      <4>8. i \in 1 .. Len(stack) /\ stack[i] = kept[i]
        BY <1>9, <1>11
      <4>9. QED BY <4>2, <4>7, <4>8
    <3>6. k = n \/ k \in 1 .. Len(spans)
      BY <1>2, <1>7
    <3>7. QED BY <3>4, <3>5, <3>6
  <2>6. QED BY <2>1, <2>4, <2>5
<1>16. Writer(C, [fs EXCEPT ![C].slices[t] = Append(@, sl)], [st EXCEPT ![t] = stack])'
  BY <1>1, <1>2, <1>6, <1>7, <1>10, <1>12, <1>15, Adding
<1>17. Writer(current, files, stacks)'
  BY <1>10, <1>16
<1>18. Calls'
  <2>1. spans' \in Seq(Span) /\ Len(spans') <= MaxSpans
    BY <1>2, <1>3, <1>10, <1>14
  <2>2. ASSUME NEW i \in 1 .. Len(spans'), NEW j \in 1 .. Len(spans'),
               i < j, spans'[i].tid = spans'[j].tid, spans'[j].tid \in VizTids
        PROVE  spans'[i].to <= spans'[j].from \/ spans'[j].to <= spans'[i].to
    <3>1. i \in 1 .. Len(spans) /\ (j \in 1 .. Len(spans) \/ j = n)
      <4>1. PICK m \in Nat : m = Len(spans)
        BY <1>2
      <4>2. n = m + 1 /\ Len(spans') = n
        BY <1>7, <1>14, <4>1
      <4>3. i \in 1 .. m + 1 /\ j \in 1 .. m + 1 /\ i < j
        BY <2>2, <4>2
      <4>4. i \in 1 .. m /\ (j \in 1 .. m \/ j = m + 1)
        BY <4>3
      <4>5. QED BY <4>1, <4>2, <4>4
    <3>2. spans'[i] = spans[i]
      BY <1>14, <3>1
    <3>3. CASE j \in 1 .. Len(spans)
      BY <1>14, <2>2, <3>1, <3>2, <3>3 DEF CInv, Calls
    <3>4. CASE j = n
      <4>1. spans'[j] = y /\ t \in VizTids /\ spans[i].tid = t
        BY <1>6, <1>14, <2>2, <3>2, <3>4
      <4>2. Nests(t, now, to) /\ from = now
        BY <4>1
      <4>3. spans[i].to <= now \/ to <= spans[i].to
        BY <3>1, <4>1, <4>2 DEF Nests
      <4>4. QED BY <1>6, <3>2, <4>1, <4>2, <4>3
    <3>5. QED BY <3>1, <3>3, <3>4
  <2>3. QED BY <1>2, <1>10, <2>1, <2>2 DEF Calls
<1>19. QED BY <1>17, <1>18 DEF CInv

\* Calls that write nothing that takes time.
LEMMA OtherSteps ==
  ASSUME CInv,
         \/ \E m \in Names : WriteMetadata(m)
         \/ \E t \in PairTids : Pair(t)
         \/ MoveOn
         \/ Finalize
         \/ \E ms : SetMetricSamples(ms)
         \/ UNCHANGED vars
  PROVE  CInv'
<1>1. /\ Calls /\ Writer(current, files, stacks)
      /\ now \in Int /\ now \in Times /\ ChunkFor(now) \in Int
  <2>1. now \in Int /\ now \in Times
    BY ChunkAssumption DEF CInv, Calls
  <2>2. ChunkFor(now) \in 0 .. NumChunks - 1
    BY <2>1, ChunkForTime
  <2>3. QED BY <2>1, <2>2, ChunkAssumption DEF CInv
<1>2. PICK c, fs, st : c = current /\ fs = files /\ st = stacks
  OBVIOUS
<1>3. /\ Writer(c, fs, st)
      /\ c \in DOMAIN fs /\ fs = [d \in DOMAIN fs |-> fs[d]]
      /\ \A d \in DOMAIN fs : FileShape(fs[d])
      /\ fs[c].names = cached
  BY <1>1, <1>2 DEF Writer
<1>4. ASSUME now' \in Times, now <= now', spans' = spans, writing' \in BOOLEAN,
             cached' \subseteq Names, NEW d, NEW gs, NEW hs, NEW sn, Writer(d, gs, sn),
             current' = d, stacks' = sn, files' = hs,
             DOMAIN hs = DOMAIN gs, hs = [e \in DOMAIN hs |-> hs[e]],
             \A e \in DOMAIN gs : FileShape(hs[e]) /\ hs[e].slices = gs[e].slices,
             hs[d].names = cached'
      PROVE  CInv'
  <2>1. now' \in Int
    BY <1>4, ChunkAssumption
  <2>2. ChunkFor(now') \in 0 .. NumChunks - 1 /\ ChunkFor(now) <= ChunkFor(now')
    BY <1>1, <1>4, <2>1, ChunkForTime, ChunkForMonotone
  <2>3. ChunkFor(now)' \in Int /\ ChunkFor(now) <= ChunkFor(now)'
    BY <2>2, ChunkAssumption DEF ChunkFor
  <2>4. Writer(d, hs, sn)'
    BY <1>1, <1>4, <2>3, Frame
  <2>5. Calls'
    BY <1>1, <1>4 DEF Calls
  <2>6. QED BY <1>4, <2>4, <2>5 DEF CInv
<1>5. CASE \E m \in Names : WriteMetadata(m)
  <2>1. PICK m \in Names : WriteMetadata(m)
    BY <1>5
  <2>2. PICK hs : hs = [fs EXCEPT ![c].names = @ \cup {m}]
    OBVIOUS
  <2>3. /\ DOMAIN hs = DOMAIN fs /\ hs = [e \in DOMAIN hs |-> hs[e]]
        /\ \A e \in DOMAIN fs : FileShape(hs[e]) /\ hs[e].slices = fs[e].slices
        /\ hs[c].names = cached \cup {m}
    <3>1. PICK f, v, g : /\ f = fs[c] /\ v = cached \cup {m}
                         /\ g = [f EXCEPT !.names = v]
      OBVIOUS
    <3>2. FileShape(f) /\ f.names = cached
      BY <1>3, <3>1
    <3>3. FileShape(g) /\ g.slices = f.slices /\ g.names = v
      <4>1. /\ f = [names |-> f.names, counters |-> f.counters, slices |-> f.slices,
                     depth |-> f.depth]
            /\ f.slices \in [Tids -> Seq(Slice)]
        BY <3>2 DEF FileShape
      <4>2. g = [names |-> v, counters |-> f.counters, slices |-> f.slices, depth |-> f.depth]
        BY <3>1, <4>1
      <4>3. QED BY <4>1, <4>2 DEF FileShape
    <3>4. hs = [fs EXCEPT ![c] = g]
      BY <1>3, <2>2, <3>1
    <3>5. /\ DOMAIN hs = DOMAIN fs /\ hs = [e \in DOMAIN hs |-> hs[e]]
          /\ hs[c] = g /\ \A e \in DOMAIN fs : e # c => hs[e] = fs[e]
      BY <1>3, <3>4
    <3>6. QED BY <1>3, <3>1, <3>3, <3>5
  <2>4. /\ now' = now /\ spans' = spans /\ writing' = writing /\ cached' = cached \cup {m}
        /\ current' = c /\ stacks' = st /\ files' = hs
    BY <1>2, <2>1, <2>2 DEF WriteMetadata, engine
  <2>5. now' \in Times /\ now <= now' /\ writing' \in BOOLEAN /\ cached' \subseteq Names
    BY <1>1, <2>4 DEF Calls
  <2>6. QED BY <1>3, <1>4, <2>3, <2>4, <2>5
<1>6. CASE \E t \in PairTids : Pair(t)
  <2>1. PICK t \in PairTids, by \in Int : WritePoint(t, by)
    BY <1>6 DEF Pair
  <2>2. Writer(ChunkAt(now), FilesAt(now), StacksAt(now))
    BY <1>1, Advancing
  <2>3. PICK d, gs, sn : d = ChunkAt(now) /\ gs = FilesAt(now) /\ sn = StacksAt(now)
    OBVIOUS
  <2>4. /\ Writer(d, gs, sn)
        /\ d \in DOMAIN gs /\ gs = [e \in DOMAIN gs |-> gs[e]]
        /\ \A e \in DOMAIN gs : FileShape(gs[e])
        /\ gs[d].names = cached
    BY <2>2, <2>3 DEF Writer
  <2>5. PICK hs : hs = [gs EXCEPT ![d].depth[t] = @ + by]
    OBVIOUS
  <2>6. /\ DOMAIN hs = DOMAIN gs /\ hs = [e \in DOMAIN hs |-> hs[e]]
        /\ \A e \in DOMAIN gs : FileShape(hs[e]) /\ hs[e].slices = gs[e].slices
        /\ hs[d].names = cached
    <3>1. PICK f, v, g : /\ f = gs[d] /\ v = [f.depth EXCEPT ![t] = @ + by]
                         /\ g = [f EXCEPT !.depth = v]
      OBVIOUS
    <3>2. FileShape(f) /\ f.names = cached
      BY <2>4, <3>1
    <3>3. FileShape(g) /\ g.slices = f.slices /\ g.names = f.names
      <4>1. /\ f = [names |-> f.names, counters |-> f.counters, slices |-> f.slices,
                     depth |-> f.depth]
            /\ f.slices \in [Tids -> Seq(Slice)]
        BY <3>2 DEF FileShape
      <4>2. g = [names |-> f.names, counters |-> f.counters, slices |-> f.slices, depth |-> v]
        BY <3>1, <4>1
      <4>3. QED BY <4>1, <4>2 DEF FileShape
    <3>4. hs = [gs EXCEPT ![d] = g]
      BY <2>4, <2>5, <3>1
    <3>5. /\ DOMAIN hs = DOMAIN gs /\ hs = [e \in DOMAIN hs |-> hs[e]]
          /\ hs[d] = g /\ \A e \in DOMAIN gs : e # d => hs[e] = gs[e]
      BY <2>4, <3>4
    <3>6. QED BY <2>4, <3>1, <3>3, <3>5
  <2>7. /\ now' = now /\ spans' = spans /\ writing' = writing /\ cached' = cached
        /\ current' = d /\ stacks' = sn /\ files' = hs
    BY <2>1, <2>3, <2>5 DEF WritePoint
  <2>8. now' \in Times /\ now <= now' /\ writing' \in BOOLEAN /\ cached' \subseteq Names
    BY <1>1, <2>7 DEF Calls
  <2>9. QED BY <1>4, <2>4, <2>6, <2>7, <2>8
<1>7. CASE MoveOn
  <2>1. /\ now' \in Times /\ now' > now /\ spans' = spans /\ writing' = writing
        /\ cached' = cached /\ current' = c /\ stacks' = st /\ files' = fs
    BY <1>2, <1>7 DEF MoveOn
  <2>2. now <= now' /\ writing' \in BOOLEAN /\ cached' \subseteq Names
    BY <1>1, <2>1, ChunkAssumption DEF Calls
  <2>3. QED BY <1>3, <1>4, <2>1, <2>2
<1>8. CASE Finalize
  <2>1. /\ now' = now /\ spans' = spans /\ writing' = FALSE
        /\ cached' = cached /\ current' = c /\ stacks' = st /\ files' = fs
    BY <1>2, <1>8 DEF Finalize, engine
  <2>2. now' \in Times /\ now <= now' /\ writing' \in BOOLEAN /\ cached' \subseteq Names
    <3>1. writing' \in BOOLEAN
      BY <2>1
    <3>2. QED BY <1>1, <2>1, <3>1 DEF Calls
  <2>3. QED BY <1>3, <1>4, <2>1, <2>2
<1>9. CASE \E ms : SetMetricSamples(ms)
  <2>1. PICK ms : SetMetricSamples(ms)
    BY <1>9
  <2>2. PICK hs : hs = files' /\ hs = [fs EXCEPT ![c].counters = @ \o CountersOf(ms, c)]
    BY <1>2, <2>1 DEF SetMetricSamples
  <2>3. /\ DOMAIN hs = DOMAIN fs /\ hs = [e \in DOMAIN hs |-> hs[e]]
        /\ \A e \in DOMAIN fs : FileShape(hs[e]) /\ hs[e].slices = fs[e].slices
        /\ hs[c].names = cached
    <3>1. PICK f, v, g : /\ f = fs[c] /\ v = f.counters \o CountersOf(ms, c)
                         /\ g = [f EXCEPT !.counters = v]
      OBVIOUS
    <3>2. FileShape(f) /\ f.names = cached
      BY <1>3, <3>1
    <3>3. FileShape(g) /\ g.slices = f.slices /\ g.names = f.names
      <4>1. /\ f = [names |-> f.names, counters |-> f.counters, slices |-> f.slices,
                     depth |-> f.depth]
            /\ f.slices \in [Tids -> Seq(Slice)]
        BY <3>2 DEF FileShape
      <4>2. g = [names |-> f.names, counters |-> v, slices |-> f.slices, depth |-> f.depth]
        BY <3>1, <4>1
      <4>3. QED BY <4>1, <4>2 DEF FileShape
    <3>4. hs = [fs EXCEPT ![c] = g]
      BY <1>3, <2>2, <3>1
    <3>5. /\ DOMAIN hs = DOMAIN fs /\ hs = [e \in DOMAIN hs |-> hs[e]]
          /\ hs[c] = g /\ \A e \in DOMAIN fs : e # c => hs[e] = fs[e]
      BY <1>3, <3>4
    <3>6. QED BY <1>3, <3>1, <3>3, <3>5
  <2>4. /\ now' = now /\ spans' = spans /\ writing' = writing /\ cached' = cached
        /\ current' = c /\ stacks' = st /\ files' = hs
    BY <1>2, <2>1, <2>2 DEF SetMetricSamples, engine
  <2>5. now' \in Times /\ now <= now' /\ writing' \in BOOLEAN /\ cached' \subseteq Names
    BY <1>1, <2>4 DEF Calls
  <2>6. QED BY <1>3, <1>4, <2>3, <2>4, <2>5
<1>10. CASE UNCHANGED vars
  <2>1. /\ now' = now /\ spans' = spans /\ writing' = writing
        /\ cached' = cached /\ current' = c /\ stacks' = st /\ files' = fs
    BY <1>2, <1>10 DEF vars, engine
  <2>2. now' \in Times /\ now <= now' /\ writing' \in BOOLEAN /\ cached' \subseteq Names
    BY <1>1, <2>1 DEF Calls
  <2>3. QED BY <1>3, <1>4, <2>1, <2>2
<1>11. QED BY <1>5, <1>6, <1>7, <1>8, <1>9, <1>10

-----------------------------------------------------------------------------
\* Before the first call there is nothing in the one file.
LEMMA OutputInitInv == OutputInit => CInv
<1>1. SUFFICES ASSUME OutputInit PROVE CInv
  OBVIOUS
<1>2. /\ current = 0 /\ writing = TRUE /\ cached = {} /\ now \in Times /\ spans = <<>>
      /\ stacks = [t \in Tids |-> <<>>]
      /\ files = [c \in {0} |-> [names |-> {}, counters |-> <<>>,
                                 slices |-> [t \in Tids |-> <<>>],
                                 depth |-> [t \in PairTids |-> 0]]]
  BY <1>1 DEF OutputInit, Init
<1>3. PICK fs, st : fs = files /\ st = stacks
  OBVIOUS
<1>4. st \in [Tids -> Seq(Slice)] /\ \A t \in Tids : st[t] = <<>>
  BY <1>2, <1>3
<1>5. /\ DOMAIN fs = {0} /\ fs = [d \in DOMAIN fs |-> fs[d]]
      /\ FileShape(fs[0]) /\ fs[0].names = {}
      /\ \A t \in Tids : fs[0].slices[t] = <<>>
  <2>1. PICK f : f = [names |-> {}, counters |-> <<>>, slices |-> [t \in Tids |-> <<>>],
                      depth |-> [t \in PairTids |-> 0]]
    OBVIOUS
  <2>2. FileShape(f) /\ f.names = {} /\ \A t \in Tids : f.slices[t] = <<>>
    BY <2>1 DEF FileShape
  <2>3. fs = [c \in {0} |-> f]
    BY <1>2, <1>3, <2>1
  <2>4. QED BY <2>2, <2>3
<1>6. /\ now \in Int /\ ChunkFor(now) \in 0 .. NumChunks - 1
      /\ NumChunks \in Nat /\ NumChunks >= 1
  <2>1. now \in Int
    BY <1>2, ChunkAssumption
  <2>2. QED BY <2>1, ChunkForTime, ChunkAssumption
<1>7. Len(spans) = 0
  BY <1>2
<1>8. Calls
  <2>1. spans \in Seq(Span) /\ Len(spans) <= MaxSpans
    BY <1>2, <1>7, ChunkAssumption
  <2>2. writing \in BOOLEAN /\ cached \subseteq Names
    BY <1>2
  <2>3. 1 .. Len(spans) = {}
    BY <1>7
  <2>4. QED BY <1>2, <2>1, <2>2, <2>3 DEF Calls
<1>9. \A t \in VizTids : Stacked(<<>>, t) /\ NoneMissing(<<>>, t, 0)
                         /\ Numbered(<<>>, t) /\ Within(<<>>)
  <2>1. Len(<<>>) = 0 /\ 1 .. Len(spans) = {}
    BY <1>7
  <2>2. QED BY <2>1 DEF Stacked, NoneMissing, Numbered, Within
<1>10. /\ \A t \in VizTids : Stacked(st[t], t) /\ NoneMissing(st[t], t, 0)
       /\ \A d \in DOMAIN fs : \A t \in VizTids :
            Numbered(fs[d].slices[t], t) /\ Within(fs[d].slices[t])
  BY <1>4, <1>5, <1>9 DEF Tids
<1>11. \A n \in 1 .. Len(spans) : spans[n].tid \in VizTids =>
         /\ ChunkFor(spans[n].from) <= 0
         /\ \A d \in DOMAIN fs : Shows(fs[d].slices[spans[n].tid], n, d)
  BY <1>7
<1>12. 0 \in 0 .. NumChunks - 1 /\ 0 <= ChunkFor(now) /\ {0} \subseteq 0 .. 0
  BY <1>6
<1>13. Writer(0, fs, st)
  BY <1>2, <1>4, <1>5, <1>10, <1>11, <1>12 DEF Writer
<1>14. QED BY <1>2, <1>3, <1>8, <1>13 DEF CInv

\* Every step of the engine, of main and of the writer keeps the chunk files right.
LEMMA OutputNextInv == CInv /\ [OutputNext]_outputVars => CInv'
<1>1. SUFFICES ASSUME CInv, [OutputNext]_outputVars PROVE CInv'
  OBVIOUS
<1>2. CASE LoadMetrics
  <2>1. UNCHANGED vars \/ \E ms : SetMetricSamples(ms)
    BY <1>2 DEF LoadMetrics, vars
  <2>2. QED BY <1>1, <2>1, OtherSteps
<1>3. CASE WriteTrace
  <2>1. CASE \E t \in VizTids : VizSpan(t)
    <3>1. PICK t \in VizTids, to \in Times :
            /\ to >= now /\ Nests(t, now, to) /\ WriteSpan(t, now, to)
            /\ Len(spans) < MaxSpans /\ now' = now
      BY <2>1 DEF VizSpan
    <3>2. now \in Times /\ now \in Int /\ to \in Int /\ t \in Tids
      BY <1>1, ChunkAssumption DEF CInv, Calls, Tids
    <3>3. PICK from \in Times : from = now
      BY <3>2
    <3>4. from <= now /\ WriteSpan(t, from, to) /\ from <= to
      BY <3>1, <3>2, <3>3
    <3>5. QED BY <1>1, <3>1, <3>2, <3>3, <3>4, WriteSpanStep
  <2>2. CASE \E t \in SchedTids : SchedSpan(t)
    <3>1. PICK t \in SchedTids, from \in Times :
            /\ from < now /\ WriteSpan(t, from, now)
            /\ Len(spans) < MaxSpans /\ now' = now
      BY <2>2 DEF SchedSpan
    <3>2. now \in Times /\ now \in Int /\ from \in Int /\ t \in Tids /\ t \notin VizTids
      BY <1>1, ChunkAssumption DEF CInv, Calls, Tids
    <3>3. PICK to \in Times : to = now
      BY <3>2
    <3>4. from <= now /\ WriteSpan(t, from, to)
      BY <3>1, <3>2, <3>3
    <3>5. QED BY <1>1, <3>1, <3>2, <3>4, WriteSpanStep
  <2>3. CASE \/ \E m \in Names : WriteMetadata(m)
             \/ \E t \in PairTids : Pair(t)
             \/ MoveOn \/ Finalize
    BY <1>1, <2>3, OtherSteps
  <2>4. QED BY <1>3, <2>1, <2>2, <2>3 DEF WriteTrace, Write
<1>4. CASE UNCHANGED outputVars
  <2>1. UNCHANGED vars
    BY <1>4 DEF outputVars
  <2>2. QED BY <1>1, <2>1, OtherSteps
<1>5. QED BY <1>1, <1>2, <1>3, <1>4 DEF OutputNext

\* CInv holds throughout, however main, the engine and the chunk boundaries interleave.
THEOREM ChunkInvariant == OutputSpec => []CInv
<1>1. QED BY OutputInitInv, OutputNextInv, PTL DEF OutputSpec

\* The writer's state and its files are of their types; no chunk before the current one
\* is ever reopened and none after it exists yet (chunking_writer.h:188-296).
THEOREM ChunkTypeCorrect == OutputSpec => []TypeOK
<1>1. CInv => TypeOK
  <2>1. SUFFICES ASSUME CInv PROVE TypeOK
    OBVIOUS
  <2>2. \A c \in DOMAIN files : \A t \in Tids : files[c].slices[t] \in Seq(Slice)
    BY <2>1 DEF CInv, Writer, FileShape
  <2>3. \A t \in Tids : stacks[t] \in Seq(Slice)
    BY <2>1 DEF CInv, Writer
  <2>4. QED BY <2>1, <2>2, <2>3 DEF CInv, Calls, Writer, TypeOK
<1>2. QED BY <1>1, ChunkInvariant, PTL

\* Every file shows each viz span as it should: whole in its own chunk, once and cut to
\* size in every later chunk it reaches into, nowhere else (expire_spans and open_chunk).
THEOREM ChunksComplete == OutputSpec => []ContextComplete
<1>1. CInv => ContextComplete
  <2>1. SUFFICES ASSUME CInv, NEW n \in 1 .. Len(spans), spans[n].tid \in VizTids,
                        NEW c \in DOMAIN files
                 PROVE  Shows(files[c].slices[spans[n].tid], n, c)
    BY DEF ContextComplete, Shows
  <2>2. QED BY <2>1 DEF CInv, Writer
<1>2. QED BY <1>1, ChunkInvariant, PTL

\* Slices of a file that begin together, as context does, stand outer ones first
\* (open_chunk, "shallowest first").
THEOREM ChunksNested == OutputSpec => []ContextNested
<1>1. CInv => ContextNested
  <2>1. SUFFICES ASSUME CInv, NEW c \in DOMAIN files, NEW t \in VizTids,
                        NEW q, q = files[c].slices[t],
                        NEW i \in 1 .. Len(q), NEW j \in 1 .. Len(q),
                        i < j, q[i].from = q[j].from, q[i].to > q[i].from
                 PROVE  spans[q[i].span].to >= spans[q[j].span].to
    BY DEF ContextNested
  <2>2. q \in Seq(Slice) /\ Numbered(q, t) /\ Within(q)
    BY <2>1 DEF CInv, Writer, FileShape, Tids
  <2>3. PICK m \in 1 .. Len(spans), n \in 1 .. Len(spans) :
          /\ m = q[i].span /\ n = q[j].span /\ m < n
          /\ spans[m].tid = t /\ spans[n].tid = t
    BY <2>1, <2>2 DEF Numbered
  <2>4. spans[m].to <= spans[n].from \/ spans[n].to <= spans[m].to
    BY <2>1, <2>3 DEF CInv, Calls
  <2>5. spans[n].from <= q[j].from /\ q[i].to <= spans[m].to
    BY <2>2, <2>3 DEF Within
  <2>6. spans[m].to \in Int /\ spans[n].from \in Int /\ spans[n].to \in Int
    <3>1. spans \in Seq(Span)
      BY <2>1 DEF CInv, Calls
    <3>2. spans[m] \in Span /\ spans[n] \in Span
      BY <3>1
    <3>3. QED BY <3>2, ChunkAssumption DEF Span
  <2>7. q[i].from \in Int /\ q[i].to \in Int /\ q[j].from \in Int
    <3>1. \A c2 \in 0 .. NumChunks : Start(c2) \in Int
      BY ChunkAssumption DEF Start
    <3>2. q[i] \in Slice /\ q[j] \in Slice
      BY <2>2
    <3>3. QED BY <3>1, <3>2, ChunkAssumption DEF Slice
  <2>8. PICK mTo \in Int, nFrom \in Int, nTo \in Int, iFrom \in Int, iTo \in Int :
          /\ mTo = spans[m].to /\ nFrom = spans[n].from /\ nTo = spans[n].to
          /\ iFrom = q[i].from /\ iTo = q[i].to
    BY <2>6, <2>7
  <2>9. nFrom <= iFrom /\ iFrom < iTo /\ iTo <= mTo /\ (mTo <= nFrom \/ nTo <= mTo)
    BY <2>1, <2>4, <2>5, <2>8
  <2>10. mTo >= nTo
    BY <2>9
  <2>11. QED BY <2>3, <2>8, <2>10
<1>2. QED BY <1>1, ChunkInvariant, PTL

\* The file being written knows every name seen so far (cached_metadata_).
THEOREM ChunksKnowNames == OutputSpec => []NamesCarried
<1>1. CInv => NamesCarried
  BY DEF CInv, Writer, NamesCarried
<1>2. QED BY <1>1, ChunkInvariant, PTL

-----------------------------------------------------------------------------
(* Counters. *)

Values(V) == {V[d] : d \in DOMAIN V}

\* The sequence s has the value V of every element of D, once each, and no other.
Listed(s, D, V) ==
  /\ D \subseteq DOMAIN V /\ s \in Seq(Values(V))
  /\ \E b \in Bijection(1 .. Len(s), D) : \A k \in 1 .. Len(s) : s[k] = V[b[k]]

\* The empty sequence lists nothing.
LEMMA ListedEmpty ==
  ASSUME NEW V
  PROVE  Listed(<<>>, {}, V)
<1>1. <<>> \in Seq(Values(V)) /\ Len(<<>>) = 0 /\ 1 .. 0 = {}
  OBVIOUS
<1>2. PICK b : b = [k \in {} |-> k]
  OBVIOUS
<1>3. b \in [{} -> {}]
  BY <1>2
<1>4. b \in Bijection({}, {})
  BY <1>3, Fun_IsBij
<1>5. \E b1 \in Bijection(1 .. Len(<<>>), {}) : \A k \in 1 .. Len(<<>>) : <<>>[k] = V[b1[k]]
  BY <1>1, <1>4
<1>6. QED BY <1>1, <1>5 DEF Listed

\* Two sequences that list different things list all of them when joined.
LEMMA ListedJoined ==
  ASSUME NEW V, NEW s, NEW t, NEW D, NEW E, Listed(s, D, V), Listed(t, E, V), D \cap E = {}
  PROVE  Listed(s \o t, D \cup E, V)
<1>1. PICK S : S = Values(V)
  OBVIOUS
<1>2. s \in Seq(S) /\ t \in Seq(S) /\ D \cup E \subseteq DOMAIN V
  BY <1>1 DEF Listed
<1>3. PICK n \in Nat, m \in Nat : n = Len(s) /\ m = Len(t)
  BY <1>2
<1>4. PICK b \in Bijection(1 .. n, D) : \A k \in 1 .. n : s[k] = V[b[k]]
  BY <1>3 DEF Listed
<1>5. PICK c \in Bijection(1 .. m, E) : \A k \in 1 .. m : t[k] = V[c[k]]
  BY <1>3 DEF Listed
<1>6. /\ b \in [1 .. n -> D] /\ \A i, j \in 1 .. n : b[i] = b[j] => i = j
      /\ \A d \in D : \E i \in 1 .. n : b[i] = d
  BY Fun_BijectionProperties
<1>7. /\ c \in [1 .. m -> E] /\ \A i, j \in 1 .. m : c[i] = c[j] => i = j
      /\ \A d \in E : \E i \in 1 .. m : c[i] = d
  BY Fun_BijectionProperties
<1>8. /\ s \o t \in Seq(S) /\ Len(s \o t) = n + m
      /\ \A k \in 1 .. n : (s \o t)[k] = s[k]
      /\ \A k \in 1 .. m : (s \o t)[n + k] = t[k]
  BY <1>2, <1>3
<1>9. PICK g : g = [k \in 1 .. n + m |-> IF k <= n THEN b[k] ELSE c[k - n]]
  OBVIOUS
<1>10. \A k \in 1 .. n + m : k <= n \/ k - n \in 1 .. m
  OBVIOUS
<1>11. \A k \in 1 .. n + m : /\ k <= n => k \in 1 .. n /\ g[k] = b[k] /\ g[k] \in D
                             /\ ~(k <= n) => /\ k - n \in 1 .. m
                                             /\ g[k] = c[k - n] /\ g[k] \in E
  BY <1>6, <1>7, <1>9, <1>10
<1>12. g \in [1 .. n + m -> D \cup E]
  BY <1>9, <1>11
<1>13. ASSUME NEW i \in 1 .. n + m, NEW j \in 1 .. n + m, g[i] = g[j]
       PROVE  i = j
  <2>1. CASE i <= n /\ j <= n
    BY <1>6, <1>11, <1>13, <2>1
  <2>2. CASE ~(i <= n) /\ ~(j <= n)
    <3>1. i - n = j - n
      BY <1>7, <1>11, <1>13, <2>2
    <3>2. QED BY <3>1
  <2>3. CASE (i <= n) # (j <= n)
    BY <1>11, <1>13, <2>3
  <2>4. QED BY <2>1, <2>2, <2>3
<1>14. ASSUME NEW d \in D \cup E
       PROVE  \E i \in 1 .. n + m : g[i] = d
  <2>1. CASE d \in D
    <3>1. PICK i \in 1 .. n : b[i] = d
      BY <1>6, <2>1
    <3>2. i \in 1 .. n + m /\ i <= n
      OBVIOUS
    <3>3. QED BY <1>11, <3>1, <3>2
  <2>2. CASE d \in E
    <3>1. PICK i \in 1 .. m : c[i] = d
      BY <1>7, <2>2
    <3>2. n + i \in 1 .. n + m /\ ~(n + i <= n) /\ (n + i) - n = i
      OBVIOUS
    <3>3. QED BY <1>11, <3>1, <3>2
  <2>3. QED BY <2>1, <2>2
<1>15. g \in Bijection(1 .. n + m, D \cup E)
  BY <1>12, <1>13, <1>14, Fun_IsBij
<1>16. \A k \in 1 .. n + m : (s \o t)[k] = V[g[k]]
  <2>1. ASSUME NEW k \in 1 .. n + m
        PROVE  (s \o t)[k] = V[g[k]]
    <3>1. CASE k <= n
      <4>1. k \in 1 .. n /\ g[k] = b[k]
        BY <1>11, <3>1
      <4>2. QED BY <1>4, <1>8, <4>1
    <3>2. CASE ~(k <= n)
      <4>1. PICK l \in 1 .. m : l = k - n /\ n + l = k
        BY <1>10, <3>2
      <4>2. g[k] = c[l]
        BY <1>11, <3>2, <4>1
      <4>3. QED BY <1>5, <1>8, <4>1, <4>2
    <3>3. QED BY <3>1, <3>2
  <2>2. QED BY <2>1
<1>17. QED BY <1>1, <1>2, <1>8, <1>15, <1>16 DEF Listed

\* The sequence q has the elements of s at the positions K, in their order.
Selects(q, s, K) ==
  \E p \in [1 .. Len(q) -> K] : /\ \A i \in 1 .. Len(q) : q[i] = s[p[i]]
                                /\ \A i, j \in 1 .. Len(q) : i < j => p[i] < p[j]
                                /\ \A k \in K : \E i \in 1 .. Len(q) : p[i] = k

\* A subsequence is made of the elements at its positions, each of them once.
LEMMA SubsequenceOf ==
  ASSUME NEW T, NEW s \in Seq(T), NEW n, n = Len(s), NEW K \in SUBSET (1 .. n),
         NEW q, q = Subsequence(s, K)
  PROVE  q \in Seq(T) /\ Selects(q, s, K)
<1>1. K \in SUBSET (1 .. Len(s))
  OBVIOUS
<1>2. q \in Seq(T)
  BY <1>1, SubsequenceIs
<1>3. PICK p \in [1 .. Len(q) -> K] :
             /\ \A i \in 1 .. Len(q) : q[i] = s[p[i]]
             /\ \A i, j \in 1 .. Len(q) : i < j => p[i] < p[j]
             /\ \A k \in K : \E i \in 1 .. Len(q) : p[i] = k
  BY <1>1, SubsequenceIs
<1>4. QED BY <1>2, <1>3 DEF Selects

\* What a subsequence of the elements in G lists.
LEMMA ListedFiltered ==
  ASSUME NEW V, NEW s, NEW D, Listed(s, D, V), NEW G
  PROVE  Listed(Subsequence(s, {k \in 1 .. Len(s) : s[k] \in G}), {d \in D : V[d] \in G}, V)
<1>1. PICK S : S = Values(V)
  OBVIOUS
<1>2. s \in Seq(S) /\ D \subseteq DOMAIN V
  BY <1>1 DEF Listed
<1>3. PICK n \in Nat : n = Len(s)
  BY <1>2
<1>4. PICK b \in Bijection(1 .. n, D) : \A k \in 1 .. n : s[k] = V[b[k]]
  BY <1>3 DEF Listed
<1>5. /\ b \in [1 .. n -> D] /\ \A i, j \in 1 .. n : b[i] = b[j] => i = j
      /\ \A d \in D : \E i \in 1 .. n : b[i] = d
  BY Fun_BijectionProperties
<1>6. PICK K \in SUBSET (1 .. n) : K = {k \in 1 .. Len(s) : s[k] \in G}
  BY <1>3
<1>7. PICK q : q = Subsequence(s, K)
  OBVIOUS
<1>8. q \in Seq(S) /\ Selects(q, s, K)
  BY <1>2, <1>3, <1>7, SubsequenceOf
<1>9. PICK m, E : m \in Nat /\ m = Len(q) /\ E = {d \in D : V[d] \in G}
  <2>1. q \in Seq(S)
    BY <1>8
  <2>2. Len(q) \in Nat
    BY <2>1
  <2>3. QED BY <2>2
<1>10. PICK p \in [1 .. m -> K] : /\ \A i \in 1 .. m : q[i] = s[p[i]]
                                  /\ \A i, j \in 1 .. m : i < j => p[i] < p[j]
                                  /\ \A k \in K : \E i \in 1 .. m : p[i] = k
  BY <1>8, <1>9 DEF Selects
<1>11. PICK g : g = [i \in 1 .. m |-> b[p[i]]]
  OBVIOUS
<1>12. \A k \in K : k \in 1 .. n /\ b[k] \in E
  BY <1>3, <1>4, <1>5, <1>6, <1>9
<1>13. \A i \in 1 .. m : p[i] \in K /\ p[i] \in 1 .. n /\ g[i] = b[p[i]] /\ g[i] \in E
  BY <1>10, <1>11, <1>12
<1>14. g \in [1 .. m -> E]
  BY <1>11, <1>13
<1>15. ASSUME NEW i \in 1 .. m, NEW j \in 1 .. m, g[i] = g[j]
       PROVE  i = j
  <2>1. p[i] = p[j] /\ p[i] \in Int
    BY <1>5, <1>13, <1>15
  <2>2. ~(i < j) /\ ~(j < i)
    <3>1. /\ i < j => p[i] < p[j]
          /\ j < i => p[j] < p[i]
      BY <1>10
    <3>2. QED BY <2>1, <3>1
  <2>3. QED BY <1>9, <2>2
<1>16. ASSUME NEW d \in E
       PROVE  \E i \in 1 .. m : g[i] = d
  <2>1. PICK k \in 1 .. n : b[k] = d
    BY <1>5, <1>9
  <2>2. k \in K
    BY <1>3, <1>4, <1>6, <1>9, <2>1
  <2>3. PICK i \in 1 .. m : p[i] = k
    BY <1>10, <2>2
  <2>4. QED BY <1>13, <2>1, <2>3
<1>17. g \in Bijection(1 .. m, E)
  BY <1>14, <1>15, <1>16, Fun_IsBij
<1>18. \A i \in 1 .. m : q[i] = V[g[i]]
  <2>1. SUFFICES ASSUME NEW i \in 1 .. m PROVE q[i] = V[g[i]]
    OBVIOUS
  <2>2. PICK k \in 1 .. n : k = p[i] /\ g[i] = b[k] /\ q[i] = s[k]
    BY <1>10, <1>13
  <2>3. QED BY <1>4, <2>2
<1>19. E \subseteq DOMAIN V
  BY <1>2, <1>9
<1>20. Listed(q, E, V)
  BY <1>1, <1>8, <1>9, <1>17, <1>18, <1>19 DEF Listed
<1>21. QED BY <1>6, <1>7, <1>9, <1>20

\* The order does not matter.
LEMMA ListedPermuted ==
  ASSUME NEW V, NEW s, NEW D, Listed(s, D, V),
         NEW p \in Bijection(1 .. Len(s), 1 .. Len(s)),
         NEW q, q = [k \in 1 .. Len(s) |-> s[p[k]]]
  PROVE  Listed(q, D, V) /\ Len(q) = Len(s)
<1>1. PICK S : S = Values(V)
  OBVIOUS
<1>2. s \in Seq(S) /\ D \subseteq DOMAIN V
  BY <1>1 DEF Listed
<1>3. PICK n \in Nat : n = Len(s)
  BY <1>2
<1>4. PICK b \in Bijection(1 .. n, D) : \A k \in 1 .. n : s[k] = V[b[k]]
  BY <1>3 DEF Listed
<1>5. p \in Bijection(1 .. n, 1 .. n) /\ p \in [1 .. n -> 1 .. n]
  BY <1>3, Fun_BijectionProperties
<1>6. PICK g : g = [k \in 1 .. n |-> b[p[k]]]
  OBVIOUS
<1>7. g \in Bijection(1 .. n, D)
  BY <1>5, <1>6, Fun_BijTransitive
<1>8. q \in [1 .. n -> S]
  BY <1>2, <1>3, <1>5
<1>9. q \in Seq(S) /\ Len(q) = n
  BY <1>8
<1>10. \A k \in 1 .. n : q[k] = V[g[k]]
  BY <1>3, <1>4, <1>5, <1>6
<1>11. QED BY <1>1, <1>2, <1>3, <1>7, <1>9, <1>10 DEF Listed

\* Each value is listed as often as it occurs.
LEMMA ListedCounts ==
  ASSUME NEW V, NEW s, NEW D, Listed(s, D, V)
  PROVE  /\ Len(s) = Cardinality(D)
         /\ \A d \in D : Cardinality({k \in DOMAIN s : s[k] = V[d]})
                           = Cardinality({e \in D : V[e] = V[d]})
<1>1. PICK n \in Nat : n = Len(s) /\ DOMAIN s = 1 .. n
  BY DEF Listed
<1>2. PICK b \in Bijection(1 .. n, D) : \A k \in 1 .. n : s[k] = V[b[k]]
  BY <1>1 DEF Listed
<1>3. /\ b \in [1 .. n -> D] /\ \A i, j \in 1 .. n : b[i] = b[j] => i = j
      /\ \A d \in D : \E i \in 1 .. n : b[i] = d
  BY Fun_BijectionProperties
<1>4. IsFiniteSet(1 .. n) /\ Cardinality(1 .. n) = n
  BY FS_Interval
<1>5. n = Cardinality(D)
  <2>1. ExistsBijection(1 .. n, D)
    BY <1>2 DEF ExistsBijection
  <2>2. QED BY <1>4, <2>1, FS_Bijection
<1>6. ASSUME NEW d \in D
      PROVE  Cardinality({k \in 1 .. n : s[k] = V[d]}) = Cardinality({e \in D : V[e] = V[d]})
  <2>1. PICK K, E : K = {k \in 1 .. n : s[k] = V[d]} /\ E = {e \in D : V[e] = V[d]}
    OBVIOUS
  <2>2. IsFiniteSet(K)
    BY <1>4, <2>1, FS_Subset
  <2>3. PICK g : g = [k \in K |-> b[k]]
    OBVIOUS
  <2>4. \A k \in K : k \in 1 .. n /\ g[k] = b[k] /\ g[k] \in E
    BY <1>2, <1>3, <2>1, <2>3
  <2>5. g \in [K -> E]
    BY <2>3, <2>4
  <2>6. \A i, j \in K : g[i] = g[j] => i = j
    BY <1>3, <2>4
  <2>7. ASSUME NEW e \in E
        PROVE  \E k \in K : g[k] = e
    <3>1. e \in D /\ V[e] = V[d]
      BY <2>1
    <3>2. PICK k \in 1 .. n : b[k] = e
      BY <1>3, <3>1
    <3>3. k \in K
      BY <1>2, <2>1, <3>1, <3>2
    <3>4. QED BY <2>4, <3>2, <3>3
  <2>8. g \in Bijection(K, E)
    BY <2>5, <2>6, <2>7, Fun_IsBij
  <2>9. ExistsBijection(K, E)
    BY <2>8 DEF ExistsBijection
  <2>10. Cardinality(E) = Cardinality(K)
    BY <2>2, <2>9, FS_Bijection
  <2>11. QED BY <2>1, <2>10
<1>7. QED BY <1>1, <1>5, <1>6
-----------------------------------------------------------------------------
(* The sorts. *)

\* The elements of s have times.
Timed(s) == \A k \in 1 .. Len(s) : s[k].ts \in Int

\* There are n numbers from 1 to n.
LEMMA Numbers ==
  ASSUME NEW n \in Nat
  PROVE  IsFiniteSet(1 .. n) /\ Cardinality(1 .. n) = n
BY FS_Interval

\* std::stable_sort returns the same elements.
LEMMA StableSortPermutes ==
  ASSUME NEW T, NEW s \in Seq(T), NEW n, n = Len(s), Timed(s)
  PROVE  \E p \in Bijection(1 .. n, 1 .. n) : StableSort(s) = [k \in 1 .. n |-> s[p[k]]]
<1>1. n \in Nat
  OBVIOUS
<1>2. DOMAIN s = 1 .. n
  OBVIOUS
<1>3. IsFiniteSet(1 .. n) /\ Cardinality(1 .. n) = n
  BY <1>1, Numbers
<1>4. PICK up : up = [i \in DOMAIN s |-> {j \in DOMAIN s :
                                            \/ s[j].ts < s[i].ts
                                            \/ (s[j].ts = s[i].ts /\ j <= i)}]
  OBVIOUS
<1>5. PICK rank : rank = [i \in DOMAIN s |-> Cardinality(up[i])]
  OBVIOUS
<1>6. \A k \in 1 .. n : s[k].ts \in Int
  BY DEF Timed
<1>7. \A i \in 1 .. n : /\ up[i] \in SUBSET (1 .. n) /\ rank[i] = Cardinality(up[i])
                        /\ \A j \in 1 .. n : j \in up[i] <=> \/ s[j].ts < s[i].ts
                                                            \/ (s[j].ts = s[i].ts /\ j <= i)
  <2>1. SUFFICES ASSUME NEW i \in 1 .. n
                 PROVE  /\ up[i] \in SUBSET (1 .. n) /\ rank[i] = Cardinality(up[i])
                        /\ \A j \in 1 .. n : j \in up[i] <=> \/ s[j].ts < s[i].ts
                                                            \/ (s[j].ts = s[i].ts /\ j <= i)
    OBVIOUS
  <2>2. up[i] = {j \in DOMAIN s : s[j].ts < s[i].ts \/ (s[j].ts = s[i].ts /\ j <= i)}
    BY <1>2, <1>4
  <2>3. rank[i] = Cardinality(up[i])
    BY <1>2, <1>5
  <2>4. QED BY <1>2, <2>2, <2>3
<1>8. ASSUME NEW i \in 1 .. n
      PROVE  IsFiniteSet(up[i]) /\ Cardinality(up[i]) \in 1 .. n
  <2>1. PICK U : U = up[i]
    OBVIOUS
  <2>2. U \in SUBSET (1 .. n) /\ i \in U
    BY <1>1, <1>7, <2>1
  <2>3. IsFiniteSet(U) /\ Cardinality(U) <= n
    BY <1>3, <2>2, FS_Subset
  <2>4. Cardinality({i}) = 1
    BY FS_Singleton
  <2>5. Cardinality({i}) <= Cardinality(U)
    BY <2>2, <2>3, FS_Subset
  <2>6. Cardinality(U) \in Nat
    BY <2>3, FS_CardinalityType
  <2>7. QED BY <1>1, <2>1, <2>3, <2>4, <2>5, <2>6
<1>9. ASSUME NEW i \in 1 .. n, NEW j \in 1 .. n, i # j, rank[i] = rank[j]
      PROVE  FALSE
  <2>1. ASSUME NEW a \in 1 .. n, NEW b \in 1 .. n, a # b,
               s[a].ts < s[b].ts \/ (s[a].ts = s[b].ts /\ a <= b)
        PROVE  Cardinality(up[a]) # Cardinality(up[b])
    <3>1. up[a] \subseteq up[b]
      <4>1. SUFFICES ASSUME NEW j1 \in up[a] PROVE j1 \in up[b]
        BY <1>6
      <4>2. /\ j1 \in 1 .. n
            /\ s[j1].ts < s[a].ts \/ (s[j1].ts = s[a].ts /\ j1 <= a)
        BY <1>7, <4>1
      <4>3. s[j1].ts \in Int /\ s[a].ts \in Int /\ s[b].ts \in Int
        BY <1>6, <4>2
      <4>4. s[j1].ts < s[b].ts \/ (s[j1].ts = s[b].ts /\ j1 <= b)
        <5>1. PICK x \in Int, y \in Int, z \in Int :
                x = s[j1].ts /\ y = s[a].ts /\ z = s[b].ts
          BY <4>3
        <5>2. /\ x < y \/ (x = y /\ j1 <= a)
              /\ y < z \/ (y = z /\ a <= b)
          BY <2>1, <4>2, <5>1
        <5>3. x < z \/ (x = z /\ j1 <= b)
          BY <1>1, <4>2, <5>2
        <5>4. QED BY <5>1, <5>3
      <4>5. QED BY <1>7, <4>2, <4>4
    <3>2. b \in up[b] /\ b \notin up[a]
      <4>1. s[a].ts \in Int /\ s[b].ts \in Int
        BY <1>6
      <4>2. PICK y \in Int, z \in Int : y = s[a].ts /\ z = s[b].ts
        BY <4>1
      <4>3. ~(z < y \/ (z = y /\ b <= a))
        BY <2>1, <4>2
      <4>4. QED BY <1>1, <1>7, <4>2, <4>3
    <3>3. PICK A, B : A = up[a] /\ B = up[b]
      OBVIOUS
    <3>4. A \in SUBSET B /\ A # B /\ IsFiniteSet(B)
      BY <1>8, <3>1, <3>2, <3>3
    <3>5. Cardinality(B) # Cardinality(A)
      BY <3>4, FS_Subset
    <3>6. QED BY <3>3, <3>5
  <2>2. Cardinality(up[i]) = Cardinality(up[j])
    BY <1>7, <1>9
  <2>3. s[i].ts \in Int /\ s[j].ts \in Int
    BY <1>6
  <2>4. PICK y \in Int, z \in Int : y = s[i].ts /\ z = s[j].ts
    BY <2>3
  <2>5. CASE y < z \/ (y = z /\ i <= j)
    BY <1>9, <2>1, <2>2, <2>4, <2>5
  <2>6. CASE z < y \/ (z = y /\ j <= i)
    BY <1>9, <2>1, <2>2, <2>4, <2>6
  <2>7. y < z \/ y = z \/ z < y
    OBVIOUS
  <2>8. i <= j \/ j <= i
    BY <1>1
  <2>9. QED BY <2>5, <2>6, <2>7, <2>8
<1>10. rank \in [1 .. n -> 1 .. n]
  BY <1>2, <1>5, <1>8, <1>7
<1>11. rank \in Injection(1 .. n, 1 .. n)
  BY <1>9, <1>10, Fun_IsInj
<1>12. rank \in Surjection(1 .. n, 1 .. n)
  BY <1>3, <1>11, FS_Injection
<1>13. \A k \in 1 .. n : \E i \in 1 .. n : rank[i] = k
  BY <1>12, Fun_SurjectionProperties
<1>14. PICK p : p = [k \in DOMAIN s |-> CHOOSE i \in DOMAIN s : rank[i] = k]
  OBVIOUS
<1>15. \A k \in 1 .. n : p[k] \in 1 .. n /\ rank[p[k]] = k
  BY <1>2, <1>13, <1>14
<1>16. p \in [1 .. n -> 1 .. n]
  BY <1>2, <1>14, <1>15
<1>17. \A i, j \in 1 .. n : p[i] = p[j] => i = j
  BY <1>15
<1>18. \A k \in 1 .. n : \E i \in 1 .. n : p[i] = k
  <2>1. SUFFICES ASSUME NEW k \in 1 .. n PROVE p[rank[k]] = k
    BY <1>10
  <2>2. rank[k] \in 1 .. n
    BY <1>10
  <2>3. p[rank[k]] \in 1 .. n /\ rank[p[rank[k]]] = rank[k]
    BY <1>15, <2>2
  <2>4. QED BY <1>9, <2>3
<1>19. p \in Bijection(1 .. n, 1 .. n)
  BY <1>16, <1>17, <1>18, Fun_IsBij
<1>20. StableSort(s) = [k \in 1 .. n |-> s[p[k]]]
  <2>1. StableSort(s) = [k \in DOMAIN s |-> s[CHOOSE i \in DOMAIN s :
            Cardinality({j \in DOMAIN s : \/ s[j].ts < s[i].ts
                                          \/ (s[j].ts = s[i].ts /\ j <= i)}) = k]]
    BY DEF StableSort
  <2>2. \A i \in DOMAIN s :
          rank[i] = Cardinality({j \in DOMAIN s : \/ s[j].ts < s[i].ts
                                                  \/ (s[j].ts = s[i].ts /\ j <= i)})
    BY <1>4, <1>5
  <2>3. \A k \in DOMAIN s : p[k] = CHOOSE i \in DOMAIN s :
          Cardinality({j \in DOMAIN s : \/ s[j].ts < s[i].ts
                                        \/ (s[j].ts = s[i].ts /\ j <= i)}) = k
    BY <1>14, <2>2
  <2>4. StableSort(s) = [k \in DOMAIN s |-> s[p[k]]]
    BY <2>1, <2>3
  <2>5. QED BY <1>2, <2>4
<1>21. QED BY <1>19, <1>20
\* main's std::sort returns the same elements, in order of time.
LEMMA SortPermutes ==
  ASSUME NEW T, NEW s \in Seq(T), NEW n, n = Len(s), NEW p \in [DOMAIN s -> DOMAIN s],
         \A i, j \in DOMAIN s : i < j => p[i] # p[j]
  PROVE  p \in Bijection(1 .. n, 1 .. n)
<1>1. n \in Nat /\ DOMAIN s = 1 .. n
  OBVIOUS
<1>2. p \in [1 .. n -> 1 .. n]
  BY <1>1
<1>3. \A i, j \in 1 .. n : p[i] = p[j] => i = j
  <2>1. SUFFICES ASSUME NEW i \in 1 .. n, NEW j \in 1 .. n, p[i] = p[j] PROVE i = j
    OBVIOUS
  <2>2. ~(i < j) /\ ~(j < i)
    BY <1>1, <2>1
  <2>3. QED BY <1>1, <2>2
<1>4. p \in Injection(1 .. n, 1 .. n)
  BY <1>2, <1>3, Fun_IsInj
<1>5. IsFiniteSet(1 .. n)
  BY <1>1, Numbers
<1>6. p \in Surjection(1 .. n, 1 .. n)
  BY <1>4, <1>5, FS_Injection
<1>7. \A k \in 1 .. n : \E i \in 1 .. n : p[i] = k
  BY <1>6 DEF Surjection
<1>8. QED BY <1>2, <1>3, <1>7, Fun_IsBij

\* A sequence that lists timed values is timed.
LEMMA ListedTimed ==
  ASSUME NEW V, NEW s, NEW D, Listed(s, D, V), \A d \in D : V[d].ts \in Int
  PROVE  Timed(s)
<1>1. PICK n \in Nat : n = Len(s)
  BY DEF Listed
<1>2. PICK b \in Bijection(1 .. n, D) : \A k \in 1 .. n : s[k] = V[b[k]]
  BY <1>1 DEF Listed
<1>3. b \in [1 .. n -> D]
  BY Fun_BijectionProperties
<1>4. \A k \in 1 .. n : s[k].ts \in Int
  BY <1>2, <1>3
<1>5. QED BY <1>1, <1>4 DEF Timed

\* What lists V lists W, element by element.
LEMMA ListedMapped ==
  ASSUME NEW V, NEW s, NEW D, Listed(s, D, V), NEW W, D \subseteq DOMAIN W,
         NEW n, n = Len(s), NEW q, q = [k \in 1 .. n |-> q[k]],
         \A k \in 1 .. n : \A d \in D : s[k] = V[d] => q[k] = W[d]
  PROVE  Listed(q, D, W) /\ Len(q) = n
<1>1. n \in Nat
  BY DEF Listed
<1>2. PICK b \in Bijection(1 .. n, D) : \A k \in 1 .. n : s[k] = V[b[k]]
  BY DEF Listed
<1>3. b \in [1 .. n -> D]
  BY Fun_BijectionProperties
<1>4. \A k \in 1 .. n : b[k] \in D /\ q[k] = W[b[k]]
  BY <1>2, <1>3
<1>5. PICK S : S = Values(W)
  OBVIOUS
<1>6. \A d \in D : W[d] \in S
  BY <1>5 DEF Values
<1>7. q \in [1 .. n -> S]
  BY <1>4, <1>6
<1>8. q \in Seq(S) /\ Len(q) = n
  BY <1>1, <1>7
<1>9. QED BY <1>2, <1>4, <1>5, <1>8 DEF Listed

-----------------------------------------------------------------------------
(* The files. *)

\* What a cell holds, on the clock of the file.
Measure(cell) ==
  LET row == csv[cell[1]].rows[cell[2]] IN
  [ts |-> row.ts, name |-> <<Prefix[cell[1]], csv[cell[1]].columns[cell[3]]>>,
   value |-> row.cells[cell[3] - 1]]

AllCells == UNION {Cells(f) : f \in DOMAIN csv}
Measures == [cell \in AllCells |-> Measure(cell)]
Counters == [cell \in AllCells |-> CounterOf(cell)]
InRow(f, r) == {cell \in Cells(f) : Holds(cell) /\ cell[2] = r}
UpToRow(f, r) == {cell \in Cells(f) : Holds(cell) /\ cell[2] <= r}
InFile(f) == {cell \in Cells(f) : Holds(cell)}

\* The cells of a file by their rows and columns.
LEMMA CellsAre ==
  ASSUME NEW f
  PROVE  /\ \A r \in DOMAIN csv[f].rows, i \in 2 .. Len(csv[f].columns) :
              LET cell == <<f, r, i>>
              IN  cell \in Cells(f) /\ cell[1] = f /\ cell[2] = r /\ cell[3] = i
         /\ \A cell \in Cells(f) : \E r \in DOMAIN csv[f].rows, i \in 2 .. Len(csv[f].columns) :
              cell = <<f, r, i>> /\ cell[1] = f /\ cell[2] = r /\ cell[3] = i
BY DEF Cells

\* The two files.
LEMMA Files ==
  ASSUME csv \in Csvs
  PROVE  /\ DOMAIN csv = {"cpu", "gpu"} /\ "cpu" # "gpu"
         /\ IsCsv(csv["cpu"]) /\ IsCsv(csv["gpu"])
         /\ Prefix["cpu"] = "CPU " /\ Prefix["gpu"] = "GPU "
BY CsvAssumption DEF Prefix

\* A turn of the loop over the rows gives the samples of the row.
LEMMA RowListed ==
  ASSUME csv \in Csvs, NEW f \in DOMAIN csv, NEW columns, columns = csv[f].columns,
         NEW r \in DOMAIN csv[f].rows, NEW row, row = csv[f].rows[r]
  PROVE  Listed(RowSamples(columns, row, Prefix[f]), InRow(f, r), Measures)
<1>1. IsCsv(csv[f])
  BY Files
<1>2. /\ Len(columns) \in Nat /\ DOMAIN columns = 1 .. Len(columns)
      /\ Len(row.cells) \in Nat /\ DOMAIN row.cells = 1 .. Len(row.cells)
  BY <1>1 DEF IsCsv
<1>3. \A cell \in InRow(f, r) :
        \E i \in 2 .. Len(columns) : cell = <<f, r, i>> /\ cell[1] = f /\ cell[2] = r /\ cell[3] = i
  BY CellsAre DEF InRow
<1>4. InRow(f, r) \subseteq AllCells
  BY DEF InRow, AllCells
<1>5. CASE row.line # "data" \/ row.ts = NotANumber
  <2>1. RowSamples(columns, row, Prefix[f]) = <<>>
    BY <1>5 DEF RowSamples
  <2>2. InRow(f, r) = {}
    BY <1>3, <1>5 DEF InRow, Holds
  <2>3. QED BY <2>1, <2>2, ListedEmpty
<1>6. CASE ~(row.line # "data" \/ row.ts = NotANumber)
  <2>1. PICK n \in Int : n = IF Len(row.cells) < Len(columns) - 1 THEN Len(row.cells)
                             ELSE Len(columns) - 1
    BY <1>2
  <2>2. PICK m \in Nat : m = IF n < 0 THEN 0 ELSE n
    OBVIOUS
  <2>3. 1 .. m = 1 .. n
    BY <2>2
  <2>4. PICK all : all = [i \in 1 .. m |-> [ts |-> row.ts, name |-> <<Prefix[f], columns[i + 1]>>,
                                            value |-> row.cells[i]]]
    OBVIOUS
  <2>5. PICK K \in SUBSET (1 .. m) : K = {i \in 1 .. m : row.cells[i] # NotANumber}
    OBVIOUS
  <2>6. PICK q : q = Subsequence(all, K)
    OBVIOUS
  <2>7. RowSamples(columns, row, Prefix[f]) = q
    <3>1. RowSamples(columns, row, Prefix[f])
            = Subsequence([i \in 1 .. n |-> [ts |-> row.ts, name |-> <<Prefix[f], columns[i + 1]>>,
                                             value |-> row.cells[i]]],
                          {i \in 1 .. n : row.cells[i] # NotANumber})
      BY <1>6, <2>1 DEF RowSamples
    <3>2. QED BY <2>3, <2>4, <2>5, <2>6, <3>1
  <2>8. PICK T : T = {all[i] : i \in 1 .. m}
    OBVIOUS
  <2>9. all \in Seq(T) /\ Len(all) = m
    <3>1. all \in [1 .. m -> T]
      BY <2>4, <2>8
    <3>2. QED BY <3>1
  <2>10. q \in Seq(T) /\ Selects(q, all, K)
    BY <2>6, <2>9, SubsequenceOf
  <2>11. PICK l \in Nat : l = Len(q)
    <3>1. q \in Seq(T)
      BY <2>10
    <3>2. QED BY <3>1
  <2>12. PICK p \in [1 .. l -> K] : /\ \A i \in 1 .. l : q[i] = all[p[i]]
                                    /\ \A i, j \in 1 .. l : i < j => p[i] < p[j]
                                    /\ \A k \in K : \E i \in 1 .. l : p[i] = k
    BY <2>10, <2>11 DEF Selects
  <2>13. PICK b : b = [i \in 1 .. l |-> <<f, r, p[i] + 1>>]
    OBVIOUS
  <2>14. \A k \in K : /\ k + 1 \in 2 .. Len(columns) /\ k \in DOMAIN row.cells
                      /\ row.cells[k] # NotANumber /\ (k + 1) - 1 = k
    BY <1>2, <2>1, <2>2, <2>5
  <2>15. \A k \in 1 .. Len(row.cells) :
           k + 1 \in 2 .. Len(columns) /\ row.cells[k] # NotANumber => k \in K
    BY <1>2, <2>1, <2>2, <2>5
  <2>16. ASSUME NEW k \in K
         PROVE  LET cell == <<f, r, k + 1>>
                IN  /\ cell \in InRow(f, r) /\ cell \in AllCells
                    /\ cell[3] = k + 1 /\ Measures[cell] = all[k]
    <3>1. PICK cell : cell = <<f, r, k + 1>>
      OBVIOUS
    <3>2. k + 1 \in 2 .. Len(columns) /\ (k + 1) - 1 = k /\ k \in 1 .. m
      BY <2>14
    <3>3. cell \in Cells(f) /\ cell[1] = f /\ cell[2] = r /\ cell[3] = k + 1
      BY <3>1, <3>2, CellsAre
    <3>4. Holds(cell)
      BY <1>6, <2>14, <3>2, <3>3 DEF Holds
    <3>5. cell \in InRow(f, r) /\ cell \in AllCells
      BY <1>4, <3>3, <3>4 DEF InRow
    <3>6. Measures[cell] = Measure(cell)
      BY <3>5 DEF Measures
    <3>7. Measure(cell) = [ts |-> row.ts, name |-> <<Prefix[f], columns[k + 1]>>,
                           value |-> row.cells[k]]
      BY <3>2, <3>3 DEF Measure
    <3>8. all[k] = [ts |-> row.ts, name |-> <<Prefix[f], columns[k + 1]>>,
                    value |-> row.cells[k]]
      BY <2>4, <3>2
    <3>9. QED BY <3>1, <3>3, <3>5, <3>6, <3>7, <3>8
  <2>17. \A i \in 1 .. l : /\ p[i] \in K /\ b[i] = <<f, r, p[i] + 1>> /\ b[i][3] = p[i] + 1
                           /\ b[i] \in InRow(f, r) /\ Measures[b[i]] = q[i]
    BY <2>12, <2>13, <2>16
  <2>18. b \in [1 .. l -> InRow(f, r)]
    BY <2>13, <2>17
  <2>19. ASSUME NEW i \in 1 .. l, NEW j \in 1 .. l, b[i] = b[j]
         PROVE  i = j
    <3>1. p[i] \in 1 .. m /\ p[j] \in 1 .. m
      BY <2>5, <2>17
    <3>2. p[i] = p[j]
      <4>1. b[i][3] = p[i] + 1 /\ b[j][3] = p[j] + 1
        BY <2>17
      <4>2. p[i] + 1 = p[j] + 1
        BY <2>19, <4>1
      <4>3. QED BY <3>1, <4>2
    <3>3. ~(i < j) /\ ~(j < i)
      <4>1. /\ i < j => p[i] < p[j]
            /\ j < i => p[j] < p[i]
        BY <2>12
      <4>2. QED BY <3>1, <3>2, <4>1
    <3>4. QED BY <2>11, <3>3
  <2>20. ASSUME NEW cell \in InRow(f, r)
         PROVE  \E i \in 1 .. l : b[i] = cell
    <3>1. PICK c \in 2 .. Len(columns) :
             cell = <<f, r, c>> /\ cell[1] = f /\ cell[2] = r /\ cell[3] = c
      BY <1>3
    <3>2. c - 1 \in DOMAIN row.cells /\ row.cells[c - 1] # NotANumber
      BY <3>1 DEF InRow, Holds
    <3>3. PICK k \in 1 .. Len(row.cells) : k = c - 1 /\ k + 1 = c
      BY <1>2, <3>2
    <3>4. k \in K
      BY <2>15, <3>2, <3>3
    <3>5. PICK i \in 1 .. l : p[i] = k
      BY <2>12, <3>4
    <3>6. b[i] = <<f, r, k + 1>>
      BY <2>13, <3>5
    <3>7. QED BY <3>1, <3>3, <3>6
  <2>21. b \in Bijection(1 .. l, InRow(f, r))
    BY <2>18, <2>19, <2>20, Fun_IsBij
  <2>22. q \in Seq(Values(Measures))
    <3>1. q = [i \in 1 .. l |-> q[i]]
      BY <2>10, <2>11
    <3>2. \A i \in 1 .. l : q[i] \in Values(Measures)
      <4>1. DOMAIN Measures = AllCells
        BY DEF Measures
      <4>2. QED BY <1>4, <2>17, <4>1 DEF Values
    <3>3. QED BY <3>1, <3>2
  <2>23. DOMAIN Measures = AllCells
    BY DEF Measures
  <2>24. \A i \in 1 .. l : q[i] = Measures[b[i]]
    BY <2>17
  <2>25. Listed(q, InRow(f, r), Measures)
    BY <1>4, <2>11, <2>21, <2>22, <2>23, <2>24 DEF Listed
  <2>26. QED BY <2>7, <2>25
<1>7. QED BY <1>5, <1>6
\* Induction over the turns of a loop, stated of the turns at which a claim holds.
LEMMA Counting ==
  ASSUME NEW n \in Nat, NEW T, 0 \in T, \A i \in 1 .. n : i - 1 \in T => i \in T
  PROVE  \A i \in 0 .. n : i \in T
<1> DEFINE R == OpToRel(<, Nat)
           S == {i \in 0 .. n : i \notin T}
<1>1. IsWellFoundedOn(R, Nat)
  BY NatLessThanWellFounded
<1>2. \A x \in Nat, y \in Nat : y < x => <<y, x>> \in R
  BY DEF OpToRel
<1> HIDE DEF R
<1>3. ASSUME S # {}
      PROVE  FALSE
  <2>1. S \subseteq Nat
    OBVIOUS
  <2>2. PICK x \in S : \A y \in S : ~ (<<y, x>> \in R)
    BY <1>1, <1>3, <2>1, WFMin
  <2>3. x \in 1 .. n /\ x - 1 \in 0 .. n /\ x \in Nat /\ x - 1 \in Nat /\ x - 1 < x
    OBVIOUS
  <2>4. x - 1 \notin S
    BY <1>2, <2>2, <2>3
  <2>5. QED BY <2>2, <2>3, <2>4
<1>4. QED BY <1>3

\* What the loop over the rows has read after each turn.
ReadTurns(L, f) ==
  L = [r \in 0 .. Len(csv[f].rows) |->
         IF r = 0 THEN <<>>
         ELSE L[r - 1] \o RowSamples(csv[f].columns, csv[f].rows[r], Prefix[f])]

\* ReadAll sorts what its turns read, and they can all be taken.
LEMMA ReadByTurns ==
  ASSUME csv \in Csvs, NEW f \in DOMAIN csv
  PROVE  \E L : /\ ReadTurns(L, f)
                /\ ReadAll(csv[f], Prefix[f]) = StableSort(L[Len(csv[f].rows)])
<1> DEFINE Turn(r) == RowSamples(csv[f].columns, csv[f].rows[r], Prefix[f])
           Upto(L, k) ==
             L = [r \in 0 .. k |-> IF r = 0 THEN <<>> ELSE L[r - 1] \o Turn(r)]
<1>1. PICK n \in Nat : n = Len(csv[f].rows)
  BY Files DEF IsCsv
<1> DEFINE T == {k \in 0 .. n : \E L : Upto(L, k)}
<1>2. 0 \in T
  <2>1. PICK L : L = [i \in 0 .. 0 |-> <<>>]
    OBVIOUS
  <2>2. Upto(L, 0)
    BY <2>1
  <2>3. QED BY <1>1, <2>2
<1>3. ASSUME NEW k \in 1 .. n, k - 1 \in T
      PROVE  k \in T
  <2>1. PICK L : Upto(L, k - 1)
    BY <1>3
  <2>2. PICK v : v = L[k - 1] \o Turn(k)
    OBVIOUS
  <2>3. PICK g : g = [i \in 0 .. k |-> IF i = k THEN v ELSE L[i]]
    OBVIOUS
  <2> HIDE DEF Turn
  <2>4. ASSUME NEW i \in 0 .. k
        PROVE  g[i] = IF i = 0 THEN <<>> ELSE g[i - 1] \o Turn(i)
    <3>1. CASE i = k
      <4>1. i # 0 /\ g[i - 1] = L[k - 1] /\ g[i] = v
        BY <2>3, <3>1
      <4>2. QED BY <2>2, <3>1, <4>1
    <3>2. CASE i \in 0 .. k - 1
      <4>1. g[i] = L[i] /\ (i # 0 => g[i - 1] = L[i - 1])
        BY <2>3, <3>2
      <4>2. L[i] = IF i = 0 THEN <<>> ELSE L[i - 1] \o Turn(i)
        BY <2>1, <3>2
      <4>3. QED BY <4>1, <4>2
    <3>3. QED BY <3>1, <3>2
  <2>5. Upto(g, k)
    BY <2>3, <2>4
  <2>6. k \in 0 .. n
    BY <1>1
  <2>7. QED BY <2>5, <2>6
<1>4. n \in T
  <2> HIDE DEF T
  <2>1. \A k \in 1 .. n : k - 1 \in T => k \in T
    BY <1>3
  <2>2. \A k \in 0 .. n : k \in T
    BY <1>1, <1>2, <2>1, Counting
  <2>3. QED BY <1>1, <2>2
<1>5. \E L : ReadTurns(L, f)
  BY <1>1, <1>4 DEF ReadTurns
<1>6. PICK L : L = (CHOOSE M : ReadTurns(M, f))
  OBVIOUS
<1>7. ReadAll(csv[f], Prefix[f]) = StableSort(L[Len(csv[f].rows)])
  BY <1>6 DEF ReadAll, ReadTurns
<1>8. ReadTurns(L, f)
  BY <1>5, <1>6
<1>9. QED BY <1>7, <1>8

\* read_all gives the samples of the file.
LEMMA FileListed ==
  ASSUME csv \in Csvs, NEW f \in DOMAIN csv
  PROVE  Listed(ReadAll(csv[f], Prefix[f]), InFile(f), Measures)
<1>1. PICK n \in Nat : n = Len(csv[f].rows) /\ DOMAIN csv[f].rows = 1 .. n
  BY Files DEF IsCsv
<1>2. PICK L : /\ ReadTurns(L, f)
               /\ ReadAll(csv[f], Prefix[f]) = StableSort(L[n])
  BY <1>1, ReadByTurns
<1>3. \A r \in 0 .. n :
        L[r] = IF r = 0 THEN <<>>
               ELSE L[r - 1] \o RowSamples(csv[f].columns, csv[f].rows[r], Prefix[f])
  BY <1>1, <1>2 DEF ReadTurns
<1>4. \A cell \in Cells(f) : cell[2] \in 1 .. n
  BY <1>1, CellsAre
<1>5. PICK T : T = {r \in 0 .. n : Listed(L[r], UpToRow(f, r), Measures)}
  OBVIOUS
<1>6. 0 \in T
  <2>1. UpToRow(f, 0) = {}
    BY <1>4 DEF UpToRow
  <2>2. L[0] = <<>>
    BY <1>1, <1>3
  <2>3. Listed(L[0], UpToRow(f, 0), Measures)
    BY <2>1, <2>2, ListedEmpty
  <2>4. 0 \in 0 .. n
    BY <1>1
  <2>5. QED BY <1>5, <2>3, <2>4
<1>7. ASSUME NEW r \in 1 .. n, r - 1 \in T
      PROVE  r \in T
  <2>1. PICK D, E : D = UpToRow(f, r - 1) /\ E = InRow(f, r)
    OBVIOUS
  <2>2. D \cap E = {} /\ D \cup E = UpToRow(f, r)
    BY <1>1, <1>4, <2>1 DEF UpToRow, InRow
  <2>3. PICK s, t : /\ s = L[r - 1]
                    /\ t = RowSamples(csv[f].columns, csv[f].rows[r], Prefix[f])
    OBVIOUS
  <2>4. L[r] = s \o t
    <3>1. r \in 0 .. n /\ r # 0
      BY <1>1
    <3>2. QED BY <1>3, <2>3, <3>1
  <2>5. Listed(s, D, Measures)
    BY <1>5, <1>7, <2>1, <2>3
  <2>6. Listed(t, E, Measures)
    BY <1>1, <2>1, <2>3, RowListed
  <2>7. Listed(s \o t, D \cup E, Measures)
    BY <2>2, <2>5, <2>6, ListedJoined
  <2>8. Listed(L[r], UpToRow(f, r), Measures)
    BY <2>2, <2>4, <2>7
  <2>9. r \in 0 .. n
    BY <1>1
  <2>10. QED BY <1>5, <2>8, <2>9
<1>8. Listed(L[n], UpToRow(f, n), Measures)
  <2>1. \A r \in 1 .. n : r - 1 \in T => r \in T
    BY <1>7
  <2>2. \A r \in 0 .. n : r \in T
    BY <1>1, <1>6, <2>1, Counting
  <2>3. n \in T
    BY <1>1, <2>2
  <2>4. QED BY <1>5, <2>3
<1>9. UpToRow(f, n) = InFile(f)
  BY <1>1, <1>4 DEF UpToRow, InFile
<1>10. PICK s : s = L[n] /\ Listed(s, InFile(f), Measures)
  BY <1>8, <1>9
<1>11. \A d \in InFile(f) : Measures[d].ts \in Int
  <2>1. SUFFICES ASSUME NEW d \in InFile(f) PROVE Measures[d].ts \in Int
    OBVIOUS
  <2>2. d \in AllCells /\ d \in Cells(f)
    BY <2>1 DEF InFile, AllCells
  <2>3. Measures[d].ts = csv[d[1]].rows[d[2]].ts
    BY <2>2 DEF Measures, Measure
  <2>4. d[1] = f /\ d[2] \in DOMAIN csv[f].rows
    BY <2>2, CellsAre
  <2>5. QED BY <2>3, <2>4, Files DEF IsCsv
<1>12. Timed(s)
  BY <1>10, <1>11, ListedTimed
<1>13. PICK S : s \in Seq(S)
  BY <1>10 DEF Listed
<1>14. PICK p \in Bijection(1 .. Len(s), 1 .. Len(s)) :
          StableSort(s) = [k \in 1 .. Len(s) |-> s[p[k]]]
  BY <1>12, <1>13, StableSortPermutes
<1>15. Listed(StableSort(s), InFile(f), Measures)
  BY <1>10, <1>14, ListedPermuted
<1>16. QED BY <1>2, <1>10, <1>15

\* In order of time.
InOrder(s) == \A i, j \in 1 .. Len(s) : i < j => s[i].ts <= s[j].ts

\* The cells of the two files.
LEMMA ExpectedIs ==
  ASSUME csv \in Csvs
  PROVE  /\ Expected = InFile("cpu") \cup InFile("gpu")
         /\ InFile("cpu") \cap InFile("gpu") = {}
         /\ Expected \subseteq AllCells
         /\ \A cell \in AllCells : /\ cell[1] \in DOMAIN csv
                                   /\ cell[2] \in DOMAIN csv[cell[1]].rows
                                   /\ csv[cell[1]].rows[cell[2]].ts \in Int
<1>1. DOMAIN csv = {"cpu", "gpu"}
  BY Files
<1>2. AllCells = Cells("cpu") \cup Cells("gpu")
  BY <1>1 DEF AllCells
<1>3. Expected = {cell \in AllCells : Holds(cell)}
  BY DEF Expected, AllCells
<1>4. InFile("cpu") \cap InFile("gpu") = {}
  <2>1. /\ \A cell \in InFile("cpu") : cell[1] = "cpu"
        /\ \A cell \in InFile("gpu") : cell[1] = "gpu"
    BY CellsAre DEF InFile
  <2>2. QED BY <2>1
<1>5. ASSUME NEW cell \in AllCells
      PROVE  /\ cell[1] \in DOMAIN csv /\ cell[2] \in DOMAIN csv[cell[1]].rows
             /\ csv[cell[1]].rows[cell[2]].ts \in Int
  <2>1. PICK f \in DOMAIN csv : cell \in Cells(f)
    BY DEF AllCells
  <2>2. cell[1] = f /\ cell[2] \in DOMAIN csv[f].rows
    BY <2>1, CellsAre
  <2>3. IsCsv(csv[f])
    BY <1>1, Files
  <2>4. QED BY <2>2, <2>3 DEF IsCsv
<1>6. QED BY <1>2, <1>3, <1>4, <1>5 DEF InFile

\* main's metric_samples are what the two files measured, in order of time.
LEMMA SamplesListed ==
  ASSUME csv \in Csvs, NEW ms \in MetricSamples(csv)
  PROVE  Listed(ms, Expected, Measures) /\ InOrder(ms)
<1>1. PICK all : all = ReadAll(csv["cpu"], "CPU ") \o ReadAll(csv["gpu"], "GPU ")
  OBVIOUS
<1>2. Listed(all, Expected, Measures)
  <2>1. /\ Listed(ReadAll(csv["cpu"], "CPU "), InFile("cpu"), Measures)
        /\ Listed(ReadAll(csv["gpu"], "GPU "), InFile("gpu"), Measures)
    <3>1. /\ Listed(ReadAll(csv["cpu"], Prefix["cpu"]), InFile("cpu"), Measures)
          /\ Listed(ReadAll(csv["gpu"], Prefix["gpu"]), InFile("gpu"), Measures)
      BY Files, FileListed
    <3>2. QED BY <3>1, Files
  <2>2. PICK s, t : /\ s = ReadAll(csv["cpu"], "CPU ") /\ t = ReadAll(csv["gpu"], "GPU ")
                    /\ all = s \o t
    BY <1>1
  <2>3. PICK D, E : /\ D = InFile("cpu") /\ E = InFile("gpu")
                    /\ D \cap E = {} /\ Expected = D \cup E
    BY ExpectedIs
  <2>4. Listed(s, D, Measures) /\ Listed(t, E, Measures)
    BY <2>1, <2>2, <2>3
  <2>5. Listed(s \o t, D \cup E, Measures)
    BY <2>3, <2>4, ListedJoined
  <2>6. QED BY <2>2, <2>3, <2>5
<1>3. PICK p \in [DOMAIN all -> DOMAIN all] :
        /\ \A i, j \in DOMAIN all : i < j => p[i] # p[j] /\ all[p[i]].ts <= all[p[j]].ts
        /\ ms = [k \in DOMAIN all |-> all[p[k]]]
  <2> DEFINE Orders(s) == {p \in [DOMAIN s -> DOMAIN s] :
                             \A i, j \in DOMAIN s :
                               i < j => p[i] # p[j] /\ s[p[i]].ts <= s[p[j]].ts}
             Sorts(s) == {[k \in DOMAIN s |-> s[p[k]]] : p \in Orders(s)}
  <2>1. MetricSamples(csv) = Sorts(ReadAll(csv.cpu, "CPU ") \o ReadAll(csv.gpu, "GPU "))
    BY DEF MetricSamples
  <2>2. ms \in Sorts(all)
    <3> HIDE DEF Sorts
    <3>1. QED BY <1>1, <2>1
  <2>3. PICK p \in Orders(all) : ms = [k \in DOMAIN all |-> all[p[k]]]
    BY <2>2
  <2>4. QED BY <2>3
<1>4. PICK T : all \in Seq(T)
  BY <1>2 DEF Listed
<1>5. PICK n \in Nat : n = Len(all) /\ DOMAIN all = 1 .. n
  BY <1>4
<1>6. p \in Bijection(1 .. n, 1 .. n)
  BY <1>3, <1>4, <1>5, SortPermutes
<1>7. ms = [k \in 1 .. n |-> all[p[k]]]
  BY <1>3, <1>5
<1>8. Listed(ms, Expected, Measures) /\ Len(ms) = n
  BY <1>2, <1>5, <1>6, <1>7, ListedPermuted
<1>9. \A k \in 1 .. n : ms[k] = all[p[k]]
  BY <1>7
<1>10. InOrder(ms)
  BY <1>3, <1>5, <1>8, <1>9 DEF InOrder
<1>11. QED BY <1>8, <1>10

\* As the writer sees them they stand for the counters of the trace, if the clocks agree.
LEMMA FromStartListed ==
  ASSUME csv \in Csvs, Offset = 0, NEW ms, Listed(ms, Expected, Measures), InOrder(ms)
  PROVE  Listed(FromStart(ms), Expected, Counters) /\ InOrder(FromStart(ms))
<1>1. PICK n \in Nat : n = Len(ms) /\ DOMAIN ms = 1 .. n
  BY DEF Listed
<1>2. PICK q : q = FromStart(ms)
  OBVIOUS
<1>3. q = [k \in 1 .. n |-> [ms[k] EXCEPT !.ts = @ - GlobalMin]]
  BY <1>1, <1>2 DEF FromStart
<1>4. \A k \in 1 .. n : q[k] = [ms[k] EXCEPT !.ts = @ - GlobalMin]
  BY <1>3
<1>5. q = [k \in 1 .. n |-> q[k]]
  BY <1>3
<1>6. Expected \subseteq DOMAIN Counters
  BY ExpectedIs DEF Counters
<1>7. \A d \in Expected : Measures[d] = Measure(d) /\ Counters[d] = CounterOf(d)
  BY ExpectedIs DEF Measures, Counters
<1>8. ASSUME NEW k \in 1 .. n, NEW d \in Expected, ms[k] = Measures[d]
      PROVE  q[k] = Counters[d]
  <2>1. PICK row : row = csv[d[1]].rows[d[2]]
    OBVIOUS
  <2>2. PICK name, value : /\ name = <<Prefix[d[1]], csv[d[1]].columns[d[3]]>>
                           /\ value = row.cells[d[3] - 1]
    OBVIOUS
  <2>3. PICK ts \in Int : ts = row.ts
    BY <2>1, ExpectedIs
  <2>4. Measures[d] = [ts |-> ts, name |-> name, value |-> value]
    BY <1>7, <2>1, <2>2, <2>3 DEF Measure
  <2>5. Counters[d] = [ts |-> ts + Offset - GlobalMin, name |-> name, value |-> value]
    BY <1>7, <2>1, <2>2, <2>3 DEF CounterOf
  <2>6. ts + Offset - GlobalMin = ts - GlobalMin
    BY CsvAssumption
  <2>7. q[k] = [ts |-> ts - GlobalMin, name |-> name, value |-> value]
    BY <1>4, <1>8, <2>4
  <2>8. QED BY <2>5, <2>6, <2>7
<1>9. Listed(q, Expected, Counters) /\ Len(q) = n
  BY <1>1, <1>5, <1>6, <1>8, ListedMapped
<1>10. \A k \in 1 .. n : ms[k].ts \in Int /\ q[k].ts = ms[k].ts - GlobalMin
  <2>1. SUFFICES ASSUME NEW k \in 1 .. n PROVE ms[k].ts \in Int /\ q[k].ts = ms[k].ts - GlobalMin
    OBVIOUS
  <2>2. PICK b \in Bijection(1 .. n, Expected) : \A j \in 1 .. n : ms[j] = Measures[b[j]]
    BY <1>1 DEF Listed
  <2>3. PICK d \in Expected : ms[k] = Measures[d]
    BY <2>1, <2>2, Fun_BijectionProperties
  <2>4. ms[k] = Measure(d)
    BY <1>7, <2>3
  <2>5. PICK ts \in Int : ts = csv[d[1]].rows[d[2]].ts
    BY ExpectedIs
  <2>6. PICK name, value : ms[k] = [ts |-> ts, name |-> name, value |-> value]
    BY <2>4, <2>5 DEF Measure
  <2>7. q[k] = [ts |-> ts - GlobalMin, name |-> name, value |-> value]
    BY <1>4, <2>6
  <2>8. QED BY <2>6, <2>7
<1>11. InOrder(q)
  <2>1. SUFFICES ASSUME NEW i \in 1 .. n, NEW j \in 1 .. n, i < j PROVE q[i].ts <= q[j].ts
    BY <1>9 DEF InOrder
  <2>2. ms[i].ts <= ms[j].ts
    BY <1>1, <2>1 DEF InOrder
  <2>3. PICK x \in Int, y \in Int, g \in Int : x = ms[i].ts /\ y = ms[j].ts /\ g = GlobalMin
    BY <1>10, CsvAssumption
  <2>4. x - g <= y - g
    BY <2>2, <2>3
  <2>5. q[i].ts = x - g /\ q[j].ts = y - g
    BY <1>10, <2>3
  <2>6. QED BY <2>4, <2>5
<1>12. QED BY <1>2, <1>9, <1>11

-----------------------------------------------------------------------------
(* The chunk files. *)

\* The counters that belong into chunk c.
Due(c) == {cell \in Expected : Start(c) <= CounterOf(cell).ts /\ CounterOf(cell).ts < End(c)}

\* The loop over metric_samples_ finds the counters of the chunk.
LEMMA CountersListed ==
  ASSUME csv \in Csvs, NEW ms, Listed(ms, Expected, Counters), InOrder(ms), NEW c \in Int
  PROVE  Listed(CountersOf(ms, c), Due(c), Counters)
<1>1. PICK n \in Nat : n = Len(ms) /\ DOMAIN ms = 1 .. n
  BY DEF Listed
<1>2. PICK from \in Int, to \in Int : from = Start(c) /\ to = End(c)
  <2>1. Start(c) \in Int /\ End(c) \in Int
    BY ChunkAssumption DEF Start, End
  <2>2. QED BY <2>1
<1>3. \A d \in Expected : Counters[d] = CounterOf(d) /\ Counters[d].ts \in Int
  <2>1. SUFFICES ASSUME NEW d \in Expected
                 PROVE  Counters[d] = CounterOf(d) /\ Counters[d].ts \in Int
    OBVIOUS
  <2>2. Counters[d] = CounterOf(d)
    BY ExpectedIs DEF Counters
  <2>3. PICK ts \in Int : ts = csv[d[1]].rows[d[2]].ts
    BY ExpectedIs
  <2>4. CounterOf(d).ts = ts + Offset - GlobalMin
    BY <2>3 DEF CounterOf
  <2>5. ts + Offset - GlobalMin \in Int
    BY CsvAssumption
  <2>6. QED BY <2>2, <2>4, <2>5
<1>4. \A k \in 1 .. n : ms[k].ts \in Int
  <2>1. Timed(ms)
    BY <1>3, ListedTimed
  <2>2. QED BY <1>1, <2>1 DEF Timed
<1>5. PICK S : S = Values(Counters) /\ ms \in Seq(S)
  BY DEF Listed
<1>6. PICK G : G = {v \in S : from <= v.ts /\ v.ts < to}
  OBVIOUS
<1>7. PICK P : P = {k \in 1 .. n : ms[k].ts >= to}
  OBVIOUS
<1>8. PICK K : K = {k \in 1 .. n : ms[k].ts >= from /\ \A j \in P : k < j}
  OBVIOUS
<1>9. CountersOf(ms, c) = Subsequence(ms, K)
  BY <1>1, <1>2, <1>7, <1>8 DEF CountersOf
<1>10. ASSUME NEW k \in 1 .. n
       PROVE  k \in K <=> ms[k] \in G
  <2>1. ms[k] \in S
    BY <1>1, <1>5
  <2>2. ms[k] \in G <=> from <= ms[k].ts /\ ms[k].ts < to
    BY <1>6, <2>1
  <2>3. ms[k].ts < to <=> \A j \in P : k < j
    <3>1. ASSUME ~(ms[k].ts < to)
          PROVE  ~(\A j \in P : k < j)
      <4>1. k \in P
        BY <1>2, <1>4, <1>7, <3>1
      <4>2. ~(k < k)
        BY <1>1
      <4>3. QED BY <4>1, <4>2
    <3>2. ASSUME ms[k].ts < to, NEW j \in P
          PROVE  k < j
      <4>1. j \in 1 .. n /\ ms[j].ts >= to
        BY <1>7
      <4>2. PICK x \in Int, y \in Int : x = ms[k].ts /\ y = ms[j].ts
        BY <1>4, <4>1
      <4>3. j < k => y <= x
        BY <1>1, <4>1, <4>2 DEF InOrder
      <4>4. x < to /\ to <= y
        BY <3>2, <4>1, <4>2
      <4>5. ~(j < k)
        BY <4>3, <4>4
      <4>6. j # k
        BY <4>2, <4>4
      <4>7. QED BY <1>1, <4>1, <4>5, <4>6
    <3>3. QED BY <3>1, <3>2
  <2>4. k \in K <=> ms[k].ts >= from /\ \A j \in P : k < j
    BY <1>8
  <2>5. ms[k].ts >= from <=> from <= ms[k].ts
    BY <1>2, <1>4
  <2>6. QED BY <2>2, <2>3, <2>4, <2>5
<1>11. K = {k \in 1 .. Len(ms) : ms[k] \in G}
  BY <1>1, <1>8, <1>10
<1>12. Due(c) = {d \in Expected : Counters[d] \in G}
  <2>1. DOMAIN Counters = AllCells
    BY DEF Counters
  <2>2. \A d \in Expected : Counters[d] \in S
    BY <1>5, <2>1, ExpectedIs DEF Values
  <2>3. \A d \in Expected : Counters[d] \in G <=> from <= Counters[d].ts /\ Counters[d].ts < to
    BY <1>6, <2>2
  <2>4. QED BY <1>2, <1>3, <2>3 DEF Due
<1>13. Listed(Subsequence(ms, {k \in 1 .. Len(ms) : ms[k] \in G}),
              {d \in Expected : Counters[d] \in G}, Counters)
  BY ListedFiltered
<1>14. QED BY <1>9, <1>11, <1>12, <1>13

\* Every file has the counters that the loop over metric_samples_ finds for it.
Shown(fs, ms) == \A c \in DOMAIN fs : fs[c].counters = CountersOf(ms, c)

\* Until the samples are there, nothing is written; then every file has its counters.
MetricsInv ==
  /\ csv \in Csvs
  /\ ~ready => samples = <<>> /\ current = 0 /\ DOMAIN files = {0} /\ files[0].counters = <<>>
  /\ ready => Listed(samples, Expected, Counters) /\ InOrder(samples) /\ Shown(files, samples)

\* Without samples there are no counters.
LEMMA NoCounters ==
  ASSUME NEW c
  PROVE  CountersOf(<<>>, c) = <<>>
<1>1. PICK s : s = <<>>
  OBVIOUS
<1>2. s \in Seq({}) /\ Len(s) = 0 /\ DOMAIN s = {} /\ 1 .. 0 = {}
  BY <1>1
<1>3. PICK q : q = Subsequence(s, {})
  OBVIOUS
<1>4. CountersOf(s, c) = q
  BY <1>2, <1>3 DEF CountersOf
<1>5. q \in Seq({})
  <2>1. PICK K \in SUBSET (1 .. 0) : K = {}
    OBVIOUS
  <2>2. QED BY <1>2, <1>3, <2>1, SubsequenceOf
<1>6. q = <<>>
  BY <1>5
<1>7. QED BY <1>1, <1>4, <1>6

\* A file that open_chunk makes has its counters.
LEMMA ShownAdvancing ==
  ASSUME CInv, Shown(files, samples), NEW ts
  PROVE  Shown(FilesAt(ts), samples)
<1>1. PICK c : c = ChunkAt(ts)
  OBVIOUS
<1>2. PICK F : F = FilesAt(ts)
  OBVIOUS
<1>3. F = [d \in DOMAIN files \cup {c} |->
             IF Advances(ts) /\ d = c THEN NewFile(d) ELSE files[d]]
  BY <1>1, <1>2 DEF FilesAt
<1>4. ~Advances(ts) => c \in DOMAIN files
  BY <1>1 DEF ChunkAt, CInv, Writer
<1>5. ASSUME NEW d \in DOMAIN F
      PROVE  F[d].counters = CountersOf(samples, d)
  <2>1. NewFile(d).counters = CountersOf(samples, d)
    BY DEF NewFile
  <2>2. CASE Advances(ts) /\ d = c
    BY <1>3, <2>1, <2>2
  <2>3. CASE ~(Advances(ts) /\ d = c)
    <3>1. d \in DOMAIN files /\ F[d] = files[d]
      BY <1>3, <1>4, <2>3
    <3>2. QED BY <3>1 DEF Shown
  <2>4. QED BY <2>2, <2>3
<1>6. QED BY <1>2, <1>5 DEF Shown

\* What is written into a file leaves its counters alone.
LEMMA ShownWriting ==
  ASSUME NEW fs, NEW ms, Shown(fs, ms), NEW c \in DOMAIN fs, FileShape(fs[c]),
         NEW field \in {"names", "slices", "depth"}, NEW v, NEW hs,
         hs = [fs EXCEPT ![c][field] = v]
  PROVE  Shown(hs, ms)
<1>1. PICK f, g : f = fs[c] /\ g = [f EXCEPT ![field] = v]
  OBVIOUS
<1>2. PICK k : k = f.counters
  OBVIOUS
<1>3. f = [names |-> f.names, counters |-> k, slices |-> f.slices, depth |-> f.depth]
  BY <1>1, <1>2 DEF FileShape
<1>4. g.counters = k
  BY <1>1, <1>3
<1>5. hs = [fs EXCEPT ![c] = g]
  BY <1>1
<1>6. DOMAIN hs = DOMAIN fs /\ \A d \in DOMAIN fs : hs[d].counters = fs[d].counters
  BY <1>1, <1>2, <1>4, <1>5
<1>7. QED BY <1>6 DEF Shown

\* Writing into the file of the moment leaves all counters alone.
LEMMA ShownWritten ==
  ASSUME CInv, Shown(files, samples), NEW ts \in Times, ts <= now,
         NEW field \in {"names", "slices", "depth"}, NEW v,
         files' = [FilesAt(ts) EXCEPT ![ChunkAt(ts)][field] = v], samples' = samples
  PROVE  Shown(files, samples)'
<1>1. PICK c, F : c = ChunkAt(ts) /\ F = FilesAt(ts)
  OBVIOUS
<1>2. c \in DOMAIN F /\ FileShape(F[c])
  BY <1>1, Advancing DEF Writer
<1>3. Shown(F, samples)
  BY <1>1, ShownAdvancing
<1>4. PICK hs : hs = files'
  OBVIOUS
<1>5. hs = [F EXCEPT ![c][field] = v]
  BY <1>1, <1>4
<1>6. Shown(hs, samples)
  BY <1>2, <1>3, <1>5, ShownWriting
<1>7. \A d \in DOMAIN hs : hs[d].counters = CountersOf(samples, d)
  BY <1>6 DEF Shown
<1>8. QED BY <1>4, <1>7 DEF Shown

\* Nothing the engine writes changes the counters of a file.
LEMMA ShownByWrite ==
  ASSUME CInv, Shown(files, samples), Write
  PROVE  Shown(files, samples)' /\ samples' = samples
<1>1. now \in Times /\ now <= now /\ Times \subseteq Int
  BY ChunkAssumption DEF CInv, Calls
<1>2. CASE \E m \in Names : WriteMetadata(m)
  <2>1. PICK m \in Names : WriteMetadata(m)
    BY <1>2
  <2>2. PICK fs, c, v, hs : /\ fs = files /\ c = current /\ hs = files'
                            /\ v = fs[c].names \cup {m}
    OBVIOUS
  <2>3. samples' = samples
    BY <2>1 DEF WriteMetadata
  <2>4. hs = [fs EXCEPT ![c]["names"] = v]
    BY <2>1, <2>2 DEF WriteMetadata
  <2>5. c \in DOMAIN fs /\ FileShape(fs[c])
    BY <2>2 DEF CInv, Writer
  <2>6. Shown(hs, samples)
    <3>1. PICK field \in {"names", "slices", "depth"} : field = "names"
      OBVIOUS
    <3>2. Shown(fs, samples)
      BY <2>2
    <3>3. QED BY <2>4, <2>5, <3>1, <3>2, ShownWriting
  <2>7. \A d \in DOMAIN hs : hs[d].counters = CountersOf(samples, d)
    BY <2>6 DEF Shown
  <2>8. QED BY <2>2, <2>3, <2>7 DEF Shown
<1>3. ASSUME NEW t \in Tids, NEW from \in Times, NEW to, from <= now, WriteSpan(t, from, to)
      PROVE  Shown(files, samples)' /\ samples' = samples
  <2>1. PICK fs, c, s : fs = FilesAt(from) /\ c = ChunkAt(from)
                        /\ files' = [fs EXCEPT ![c].slices[t] = Append(@, s)]
    BY <1>3 DEF WriteSpan
  <2>2. PICK v : v = [fs[c].slices EXCEPT ![t] = Append(@, s)]
    OBVIOUS
  <2>3. files' = [fs EXCEPT ![c]["slices"] = v]
    BY <2>1, <2>2
  <2>4. samples' = samples
    BY <1>3 DEF WriteSpan
  <2>5. PICK field \in {"names", "slices", "depth"} : field = "slices"
    OBVIOUS
  <2>6. QED BY <1>3, <2>1, <2>3, <2>4, <2>5, ShownWritten
<1>4. CASE \E t \in VizTids : VizSpan(t)
  <2>1. PICK t, to : t \in VizTids /\ WriteSpan(t, now, to)
    BY <1>4 DEF VizSpan
  <2>2. t \in Tids
    BY <2>1 DEF Tids
  <2>3. QED BY <1>1, <1>3, <2>1, <2>2
<1>5. CASE \E t \in SchedTids : SchedSpan(t)
  <2>1. PICK t, from, to : /\ t \in SchedTids /\ from \in Times /\ from < now
                           /\ WriteSpan(t, from, to)
    BY <1>5 DEF SchedSpan
  <2>2. t \in Tids /\ from <= now
    BY <1>1, <2>1 DEF Tids
  <2>3. QED BY <1>3, <2>1, <2>2
<1>6. CASE \E t \in PairTids : Pair(t)
  <2>1. PICK t \in PairTids, by \in {1, -1, 0} : WritePoint(t, by)
    BY <1>6 DEF Pair
  <2>2. PICK fs, c : fs = FilesAt(now) /\ c = ChunkAt(now)
                     /\ files' = [fs EXCEPT ![c].depth[t] = @ + by]
    BY <2>1 DEF WritePoint
  <2>3. PICK v : v = [fs[c].depth EXCEPT ![t] = @ + by]
    OBVIOUS
  <2>4. files' = [fs EXCEPT ![c]["depth"] = v]
    BY <2>2, <2>3
  <2>5. samples' = samples
    BY <2>1 DEF WritePoint
  <2>6. PICK field \in {"names", "slices", "depth"} : field = "depth"
    OBVIOUS
  <2>7. QED BY <1>1, <2>2, <2>4, <2>5, <2>6, ShownWritten
<1>7. CASE MoveOn \/ Finalize
  <2>1. files' = files /\ samples' = samples
    BY <1>7 DEF MoveOn, Finalize
  <2>2. QED BY <2>1 DEF Shown
<1>8. QED BY <1>2, <1>4, <1>5, <1>6, <1>7 DEF Write

\* Before the first call there are no samples and no counters.
LEMMA MetricsInit == OutputInit => MetricsInv
<1>1. SUFFICES ASSUME OutputInit PROVE MetricsInv
  OBVIOUS
<1>2. csv \in Csvs /\ ready = FALSE /\ samples = <<>> /\ current = 0
  BY <1>1 DEF OutputInit, Init
<1>3. DOMAIN files = {0} /\ files[0].counters = <<>>
  BY <1>1 DEF OutputInit, Init
<1>4. QED BY <1>2, <1>3 DEF MetricsInv

\* The expected counters and the chunk windows depend on the files alone.
LEMMA SameFiles ==
  ASSUME csv' = csv
  PROVE  Expected' = Expected /\ Counters' = Counters
<1>1. /\ \A f : Cells(f)' = Cells(f)
      /\ \A cell : Holds(cell)' <=> Holds(cell)
      /\ \A cell : CounterOf(cell)' = CounterOf(cell)
  BY DEF Cells, Holds, CounterOf
<1>2. QED BY <1>1 DEF Expected, Counters, AllCells

\* Every step keeps the counters of every file right, if the clocks agree.
LEMMA MetricsNext ==
  ASSUME Offset = 0, CInv, MetricsInv, [OutputNext]_outputVars
  PROVE  MetricsInv'
<1>1. csv \in Csvs /\ csv' = csv
  <2>1. csv' = csv
    BY DEF OutputNext, LoadMetrics, WriteTrace, outputVars
  <2>2. QED BY <2>1 DEF MetricsInv
<1>2. Expected' = Expected /\ Counters' = Counters
  BY <1>1, SameFiles
<1>3. CASE LoadMetrics
  <2>1. /\ ~ready /\ ready' = TRUE
        /\ samples = <<>> /\ current = 0 /\ DOMAIN files = {0} /\ files[0].counters = <<>>
    BY <1>3 DEF LoadMetrics, MetricsInv
  <2>2. PICK ms \in MetricSamples(csv) :
          IF ms = <<>> THEN UNCHANGED <<samples, files>> ELSE SetMetricSamples(FromStart(ms))
    BY <1>3 DEF LoadMetrics
  <2>3. PICK fs, hs, new : fs = files /\ hs = files' /\ new = FromStart(ms)
    OBVIOUS
  <2>4. Listed(new, Expected, Counters) /\ InOrder(new)
    <3>1. Listed(ms, Expected, Measures) /\ InOrder(ms)
      BY <1>1, SamplesListed
    <3>2. QED BY <1>1, <2>3, <3>1, FromStartListed
  <2>5. PICK S : CountersOf(new, 0) \in Seq(S)
    BY <1>1, <2>4, CountersListed DEF Listed
  <2>6. samples' = new /\ DOMAIN hs = {0} /\ hs[0].counters = CountersOf(new, 0)
    <3>1. CASE ms = <<>>
      <4>1. new = <<>> /\ samples' = new /\ hs = fs
        BY <2>1, <2>2, <2>3, <3>1 DEF FromStart
      <4>2. QED BY <2>1, <2>3, <4>1, NoCounters
    <3>2. CASE ms # <<>>
      <4>1. samples' = new /\ hs = [fs EXCEPT ![0].counters = @ \o CountersOf(new, 0)]
        BY <2>1, <2>2, <2>3, <3>2 DEF SetMetricSamples
      <4>2. FileShape(fs[0])
        BY <2>1, <2>3 DEF CInv, Writer
      <4>3. DOMAIN hs = {0} /\ hs[0].counters = <<>> \o CountersOf(new, 0)
        BY <2>1, <2>3, <4>1, <4>2 DEF FileShape
      <4>4. hs[0].counters = CountersOf(new, 0)
        BY <2>5, <4>3
      <4>5. QED BY <4>1, <4>3, <4>4
    <3>3. QED BY <3>1, <3>2
  <2>7. Shown(files, samples)'
    <3>1. \A c \in DOMAIN hs : hs[c].counters = CountersOf(new, c)
      BY <2>6
    <3>2. QED BY <2>3, <2>6, <3>1 DEF Shown
  <2>8. Listed(samples, Expected, Counters)' /\ InOrder(samples)'
    BY <1>2, <2>4, <2>6 DEF Listed, InOrder, Values
  <2>9. QED BY <1>1, <2>1, <2>7, <2>8 DEF MetricsInv
<1>4. CASE WriteTrace
  <2>1. ready /\ ready' = ready /\ Write
    BY <1>4 DEF WriteTrace
  <2>2. Listed(samples, Expected, Counters) /\ InOrder(samples) /\ Shown(files, samples)
    BY <2>1 DEF MetricsInv
  <2>3. Shown(files, samples)' /\ samples' = samples
    BY <2>1, <2>2, ShownByWrite
  <2>4. Listed(samples, Expected, Counters)' /\ InOrder(samples)'
    BY <1>2, <2>2, <2>3 DEF Listed, InOrder, Values
  <2>5. QED BY <1>1, <2>1, <2>3, <2>4 DEF MetricsInv
<1>5. CASE UNCHANGED outputVars
  <2>1. ready' = ready /\ samples' = samples /\ current' = current /\ files' = files
    BY <1>5 DEF outputVars, vars
  <2>2. CASE ready
    <3>1. Listed(samples, Expected, Counters) /\ InOrder(samples) /\ Shown(files, samples)
      BY <2>2 DEF MetricsInv
    <3>2. Listed(samples, Expected, Counters)' /\ InOrder(samples)'
      BY <1>2, <2>1, <3>1 DEF Listed, InOrder, Values
    <3>3. Shown(files, samples)'
      BY <2>1, <3>1 DEF Shown
    <3>4. QED BY <1>1, <2>1, <2>2, <3>2, <3>3 DEF MetricsInv
  <2>3. CASE ~ready
    <3>1. samples = <<>> /\ current = 0 /\ DOMAIN files = {0} /\ files[0].counters = <<>>
      BY <2>3 DEF MetricsInv
    <3>2. QED BY <1>1, <2>1, <2>3, <3>1 DEF MetricsInv
  <2>4. QED BY <2>2, <2>3
<1>6. QED BY <1>3, <1>4, <1>5 DEF OutputNext

\* Every chunk file has its counters throughout, if the clocks agree.
THEOREM MetricsInvariant ==
  ASSUME Offset = 0
  PROVE  OutputSpec => []MetricsInv
<1>1. OutputInit => MetricsInv
  BY MetricsInit
<1>2. CInv /\ MetricsInv /\ [OutputNext]_outputVars => MetricsInv'
  BY MetricsNext
<1>3. QED BY <1>1, <1>2, ChunkInvariant, PTL DEF OutputSpec

\* From the CSV files to the chunk files: if the clock of the files is the trace's, every
\* chunk shows, once each and at their time, the numbers measured in its window and no
\* others (read_all, main's sort and the loop over metric_samples_).
THEOREM ChunksHaveMetrics ==
  ASSUME Offset = 0
  PROVE  OutputSpec => []MetricsFaithful
<1>1. CInv /\ MetricsInv => MetricsFaithful
  <2>1. SUFFICES ASSUME CInv, MetricsInv, ready, NEW c \in DOMAIN files,
                        NEW shown, shown = files[c].counters, NEW due, due = Due(c)
                 PROVE  /\ Len(shown) = Cardinality(due)
                        /\ \A cell \in due :
                             Cardinality({k \in DOMAIN shown : shown[k] = CounterOf(cell)})
                               = Cardinality({d \in due : CounterOf(d) = CounterOf(cell)})
    BY DEF MetricsFaithful, Due
  <2>2. c \in Int
    BY <2>1 DEF CInv, Writer
  <2>3. shown = CountersOf(samples, c)
    BY <2>1 DEF MetricsInv, Shown
  <2>4. Listed(shown, due, Counters)
    BY <2>1, <2>2, <2>3, CountersListed DEF MetricsInv
  <2>5. \A cell \in due : Counters[cell] = CounterOf(cell)
    BY <2>1, ExpectedIs DEF MetricsInv, Due, Counters
  <2>6. /\ Len(shown) = Cardinality(due)
        /\ \A cell \in due :
             Cardinality({k \in DOMAIN shown : shown[k] = Counters[cell]})
               = Cardinality({d \in due : Counters[d] = Counters[cell]})
    BY <2>4, ListedCounts
  <2>7. QED BY <2>5, <2>6
<1>2. QED BY <1>1, ChunkInvariant, MetricsInvariant, PTL
=============================================================================
