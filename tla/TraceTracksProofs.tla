-------------------------- MODULE TraceTracksProofs -------------------------
(***************************************************************************)
(* What the PerfettoWriter keeps whatever it is told to write, and what    *)
(* MergeEngine keeps of processes and names, for every set of threads,     *)
(* every recording, any filter and any order of events.                    *)
(***************************************************************************)
EXTENDS TraceTracks, FiniteSetTheorems, SequenceTheorems, WellFoundedInduction, TLAPS

Pids == Threads \cup {0}

Processes == {Process(p) : p \in Pids}
Groups == {Group(t) : t \in Threads}
LaneTracks == {Lane(l, t) : l \in Lanes, t \in Threads}

-----------------------------------------------------------------------------
(* The invariant of the writer, part by part.  K is a set of threads of which *)
(* every caller knows the process.                                            *)

Fields(w) ==
  /\ DOMAIN w = {"defined", "deferred", "names", "iids", "cleared", "counters", "file"}
  /\ w.cleared \in BOOLEAN
  /\ w.file \in Seq(Range(w.file))

\* Processes and groups are deferred when they are defined, each with its parent; a lane is
\* defined after its group.
Hierarchy(defined, deferred, K) ==
  /\ defined \subseteq Processes \cup Groups \cup LaneTracks
  /\ DOMAIN deferred = defined \cap (Processes \cup Groups)
  /\ \A p \in Pids : Process(p) \in defined => deferred[Process(p)] = Root
  /\ \A t \in Threads : Group(t) \in defined =>
       \E p \in Pids : /\ deferred[Group(t)] = Process(p)
                       /\ Process(p) \in defined
                       /\ t \in K => p = ProcessOf[t]
  /\ \A l \in Lanes, t \in Threads : Lane(l, t) \in defined => Group(t) \in defined

IsEvent(file, i) == i \in 1 .. Len(file) /\ file[i].packet = "event"

Describes(file, i, track) ==
  i \in 1 .. Len(file) /\ file[i].packet = "descriptor" /\ file[i].track = track

DescribedOnce(file, track, parent) ==
  \E i \in 1 .. Len(file) :
    /\ Describes(file, i, track) /\ file[i].parent = parent
    /\ \A j \in 1 .. Len(file) : Describes(file, j, track) => i = j

\* The file holds one descriptor of each lane and each counter, and packets of no other track.
Described(defined, counters, file) ==
  /\ \A i \in 1 .. Len(file) :
       /\ file[i].packet \in {"descriptor", "event"}
       /\ \/ file[i].track \in defined \cap LaneTracks
          \/ \E m \in counters : file[i].track = CounterTrack(m)
  /\ \A l \in Lanes, t \in Threads :
       Lane(l, t) \in defined => DescribedOnce(file, Lane(l, t), Group(t))
  /\ \A m \in counters : DescribedOnce(file, CounterTrack(m), Process(0))

Defines(file, j, iid, n) == IsEvent(file, j) /\ <<iid, n>> \in file[j].interned

\* The only definition of iid, before its uses.
DefinedOnce(file, iid, n) ==
  \E j \in 1 .. Len(file) :
    /\ Defines(file, j, iid, n)
    /\ \A i \in 1 .. Len(file) :
         /\ Defines(file, i, iid, n) => i = j
         /\ IsEvent(file, i) /\ file[i].iid = iid => j <= i

\* Every interned name has an iid of its own.
Interned(iids, file) ==
  /\ IsFiniteSet(DOMAIN iids)
  /\ \A n \in DOMAIN iids : iids[n] \in 1 .. Cardinality(DOMAIN iids)
  /\ \A n, m \in DOMAIN iids : iids[n] = iids[m] => n = m
  /\ \A n \in DOMAIN iids : DefinedOnce(file, iids[n], n)
  /\ \A i \in 1 .. Len(file) : IsEvent(file, i) =>
       /\ file[i].iid = 0 \/ \E n \in DOMAIN iids : file[i].iid = iids[n]
       /\ \A d \in file[i].interned : \E n \in DOMAIN iids : d = <<iids[n], n>>

\* The first event clears the state and no other does.
ClearedOnce(cleared, file) ==
  /\ cleared <=> \E i \in 1 .. Len(file) : IsEvent(file, i)
  /\ \A i \in 1 .. Len(file) : IsEvent(file, i) =>
       (file[i].cleared <=> \A j \in 1 .. Len(file) : IsEvent(file, j) => i <= j)

Good(w, K) ==
  /\ Fields(w)
  /\ Hierarchy(w.defined, w.deferred, K)
  /\ w.counters \subseteq Metrics /\ (w.counters # {} => Process(0) \in w.defined)
  /\ DOMAIN w.names \subseteq DOMAIN w.deferred
  /\ Described(w.defined, w.counters, w.file)
  /\ Interned(w.iids, w.file)
  /\ ClearedOnce(w.cleared, w.file)

-----------------------------------------------------------------------------
(* Tracks, maps and files. *)

\* Tracks of different kinds, or of different ids, are different.
LEMMA TracksDiffer ==
  /\ \A p, q : Process(p) = Process(q) => p = q
  /\ \A t, u : Group(t) = Group(u) => t = u
  /\ \A l, k, t, u : Lane(l, t) = Lane(k, u) => l = k /\ t = u
  /\ \A m, n : CounterTrack(m) = CounterTrack(n) => m = n
  /\ \A p, t : Process(p) # Group(t)
  /\ \A l \in Lanes : \A t : Lane(l, t) \notin Processes \cup Groups
  /\ \A m : CounterTrack(m) \notin Processes \cup Groups \cup LaneTracks
  /\ Root \notin Processes \cup Groups \cup LaneTracks
BY DEF Process, Group, Lane, CounterTrack, Root, Lanes, Processes, Groups, LaneTracks

LEMMA AppendFacts ==
  ASSUME NEW file, file \in Seq(Range(file)), NEW e, NEW g, g = Append(file, e)
  PROVE  /\ Len(file) \in Nat /\ Len(g) = Len(file) + 1
         /\ g[Len(file) + 1] = e
         /\ \A i \in 1 .. Len(file) : g[i] = file[i]
         /\ g \in Seq(Range(g))
<1> DEFINE S == Range(file) \cup {e}
<1>1. file \in Seq(S)
  BY SeqMonotonic
<1>2. g \in Seq(S)
  BY <1>1, AppendProperties
<1>3. /\ Len(file) \in Nat /\ Len(g) = Len(file) + 1 /\ g[Len(file) + 1] = e
      /\ \A i \in 1 .. Len(file) : g[i] = file[i]
  BY <1>1, AppendProperties
<1>4. g \in Seq(Range(g))
  BY <1>2, SeqOfRange
<1>5. QED BY <1>3, <1>4

-----------------------------------------------------------------------------
(* What each part keeps. *)

LEMMA ProcessAdded ==
  ASSUME NEW defined, NEW deferred, NEW K, Hierarchy(defined, deferred, K),
         NEW p \in Pids, Process(p) \notin defined
  PROVE  Hierarchy(defined \cup {Process(p)}, Set(deferred, Process(p), Root), K)
<1> DEFINE d == defined \cup {Process(p)}
<1> PICK f : f = Set(deferred, Process(p), Root)
  OBVIOUS
<1>0. /\ DOMAIN f = DOMAIN deferred \cup {Process(p)}
      /\ f[Process(p)] = Root
      /\ \A z \in DOMAIN deferred : z # Process(p) => f[z] = deferred[z]
  BY DEF Set
<1>1. Process(p) \in Processes
  BY DEF Processes
<1>2. d \subseteq Processes \cup Groups \cup LaneTracks
  BY <1>1 DEF Hierarchy
<1>3. DOMAIN f = d \cap (Processes \cup Groups)
  BY <1>1, <1>0 DEF Hierarchy
<1>4. \A q \in Pids : Process(q) \in d => f[Process(q)] = Root
  BY <1>1, <1>0 DEF Hierarchy, Processes
<1>5. ASSUME NEW t \in Threads, Group(t) \in d
      PROVE  \E q \in Pids : /\ f[Group(t)] = Process(q) /\ Process(q) \in d
                             /\ t \in K => q = ProcessOf[t]
  <2>1. Group(t) \in defined /\ Group(t) # Process(p) /\ Group(t) \in Groups
    BY <1>5, TracksDiffer DEF Groups
  <2>2. f[Group(t)] = deferred[Group(t)]
    BY <2>1, <1>0 DEF Hierarchy
  <2>3. QED BY <2>1, <2>2 DEF Hierarchy
<1>6. \A l \in Lanes, t \in Threads : Lane(l, t) \in d => Group(t) \in d
  BY <1>1, TracksDiffer DEF Hierarchy
<1>7. QED BY <1>0, <1>2, <1>3, <1>4, <1>5, <1>6 DEF Hierarchy

LEMMA GroupAdded ==
  ASSUME NEW defined, NEW deferred, NEW K, Hierarchy(defined, deferred, K),
         NEW t \in Threads, Group(t) \notin defined,
         NEW p \in Pids, Process(p) \in defined, t \in K => p = ProcessOf[t]
  PROVE  Hierarchy(defined \cup {Group(t)}, Set(deferred, Group(t), Process(p)), K)
<1> DEFINE d == defined \cup {Group(t)}
<1> PICK f : f = Set(deferred, Group(t), Process(p))
  OBVIOUS
<1>0. /\ DOMAIN f = DOMAIN deferred \cup {Group(t)}
      /\ f[Group(t)] = Process(p)
      /\ \A z \in DOMAIN deferred : z # Group(t) => f[z] = deferred[z]
  BY DEF Set
<1>1. Group(t) \in Groups
  BY DEF Groups
<1>2. d \subseteq Processes \cup Groups \cup LaneTracks
  BY <1>1 DEF Hierarchy
<1>3. DOMAIN f = d \cap (Processes \cup Groups)
  BY <1>1, <1>0 DEF Hierarchy
<1>4. ASSUME NEW q \in Pids, Process(q) \in d
      PROVE  f[Process(q)] = Root
  <2>1. Process(q) \in defined /\ Process(q) # Group(t) /\ Process(q) \in Processes
    BY <1>4, TracksDiffer DEF Processes
  <2>2. f[Process(q)] = deferred[Process(q)]
    BY <2>1, <1>0 DEF Hierarchy
  <2>3. QED BY <2>1, <2>2 DEF Hierarchy
<1>5. ASSUME NEW u \in Threads, Group(u) \in d
      PROVE  \E q \in Pids : /\ f[Group(u)] = Process(q) /\ Process(q) \in d
                             /\ u \in K => q = ProcessOf[u]
  <2>1. CASE u = t
    BY <1>0, <2>1
  <2>2. CASE u # t
    <3>1. Group(u) \in defined /\ Group(u) # Group(t) /\ Group(u) \in Groups
      BY <1>5, <2>2, TracksDiffer DEF Groups
    <3>2. f[Group(u)] = deferred[Group(u)]
      BY <3>1, <1>0 DEF Hierarchy
    <3>3. QED BY <3>1, <3>2 DEF Hierarchy
  <2>3. QED BY <2>1, <2>2
<1>6. \A l \in Lanes, u \in Threads : Lane(l, u) \in d => Group(u) \in d
  BY <1>1, TracksDiffer DEF Hierarchy
<1>7. QED BY <1>0, <1>2, <1>3, <1>4, <1>5, <1>6 DEF Hierarchy

LEMMA LaneAdded ==
  ASSUME NEW defined, NEW deferred, NEW K, Hierarchy(defined, deferred, K),
         NEW l \in Lanes, NEW t \in Threads, Group(t) \in defined
  PROVE  Hierarchy(defined \cup {Lane(l, t)}, deferred, K)
<1> DEFINE d == defined \cup {Lane(l, t)}
<1>1. Lane(l, t) \in LaneTracks /\ Lane(l, t) \notin Processes \cup Groups
  BY TracksDiffer DEF LaneTracks
<1>2. \A x \in Processes \cup Groups : x \in d <=> x \in defined
  BY <1>1
<1>3. d \subseteq Processes \cup Groups \cup LaneTracks
  BY <1>1 DEF Hierarchy
<1>4. DOMAIN deferred = d \cap (Processes \cup Groups)
  BY <1>1 DEF Hierarchy
<1>5. \A p \in Pids : Process(p) \in Processes /\ (Process(p) \in d <=> Process(p) \in defined)
  BY <1>2 DEF Processes
<1>6. \A u \in Threads : Group(u) \in Groups /\ (Group(u) \in d <=> Group(u) \in defined)
  BY <1>2 DEF Groups
<1>7. \A k \in Lanes, u \in Threads : Lane(k, u) \in d => Group(u) \in d
  BY <1>6, TracksDiffer DEF Hierarchy
<1>8. QED
  <2>1. \A p \in Pids : Process(p) \in d => deferred[Process(p)] = Root
    BY <1>5 DEF Hierarchy
  <2>2. ASSUME NEW u \in Threads, Group(u) \in d
        PROVE  \E q \in Pids : /\ deferred[Group(u)] = Process(q) /\ Process(q) \in d
                               /\ u \in K => q = ProcessOf[u]
    BY <1>5, <1>6, <2>2 DEF Hierarchy
  <2>3. QED BY <1>3, <1>4, <1>7, <2>1, <2>2 DEF Hierarchy

\* What a new packet leaves as it was.
LEMMA StaysDescribed ==
  ASSUME NEW file, file \in Seq(Range(file)), NEW e, NEW g, g = Append(file, e),
         NEW track, NEW parent, DescribedOnce(file, track, parent),
         e.packet = "descriptor" => e.track # track
  PROVE  DescribedOnce(g, track, parent)
<1>1. PICK n \in Nat : n = Len(file)
  BY AppendFacts
<1>2. /\ Len(g) = n + 1 /\ g[n + 1] = e
      /\ \A i \in 1 .. n : g[i] = file[i]
  BY <1>1, AppendFacts
<1>3. PICK i \in 1 .. n : /\ Describes(file, i, track) /\ file[i].parent = parent
                          /\ \A j \in 1 .. n : Describes(file, j, track) => i = j
  BY <1>1 DEF DescribedOnce
<1>4. \A j \in 1 .. n : Describes(g, j, track) <=> Describes(file, j, track)
  BY <1>1, <1>2 DEF Describes
<1>5. ~Describes(g, n + 1, track)
  BY <1>2 DEF Describes
<1>6. /\ i \in 1 .. n + 1 /\ g[i].parent = parent
      /\ \A j \in 1 .. n + 1 : j = n + 1 \/ j \in 1 .. n
  BY <1>2, <1>3
<1>7. QED BY <1>2, <1>3, <1>4, <1>5, <1>6 DEF DescribedOnce

\* The descriptor of a track that has none yet.
LEMMA NowDescribed ==
  ASSUME NEW file, file \in Seq(Range(file)), NEW track, NEW parent, NEW name,
         NEW g, g = Append(file, Descriptor(track, parent, name)),
         \A i \in 1 .. Len(file) : file[i].track # track
  PROVE  DescribedOnce(g, track, parent)
<1>1. PICK n \in Nat : n = Len(file)
  BY AppendFacts
<1>2. PICK e : e = Descriptor(track, parent, name)
  OBVIOUS
<1>3. e.packet = "descriptor" /\ e.track = track /\ e.parent = parent
  BY <1>2 DEF Descriptor
<1>4. /\ Len(g) = n + 1 /\ g[n + 1] = e
      /\ \A i \in 1 .. n : g[i] = file[i]
  BY <1>1, <1>2, AppendFacts
<1>5. \A j \in 1 .. n : ~Describes(g, j, track)
  BY <1>1, <1>4 DEF Describes
<1>6. Describes(g, n + 1, track) /\ g[n + 1].parent = parent
  BY <1>3, <1>4 DEF Describes
<1>7. \A j \in 1 .. n + 1 : j = n + 1 \/ j \in 1 .. n
  OBVIOUS
<1>8. QED BY <1>4, <1>5, <1>6, <1>7 DEF DescribedOnce

\* A descriptor interns nothing and clears nothing.
LEMMA NoEvent ==
  ASSUME NEW file, file \in Seq(Range(file)), NEW e, e.packet = "descriptor",
         NEW g, g = Append(file, e), NEW iids, NEW cleared
  PROVE  /\ Interned(iids, file) => Interned(iids, g)
         /\ ClearedOnce(cleared, file) => ClearedOnce(cleared, g)
<1>1. PICK n \in Nat : n = Len(file)
  BY AppendFacts
<1>2. /\ Len(g) = n + 1 /\ g[n + 1] = e
      /\ \A i \in 1 .. n : g[i] = file[i]
  BY <1>1, AppendFacts
<1>3. \A i \in 1 .. n : i \in 1 .. n + 1
  OBVIOUS
<1>4. \A i \in 1 .. n + 1 : i \in 1 .. n \/ i = n + 1
  OBVIOUS
<1>5. /\ ~IsEvent(g, n + 1)
      /\ \A i \in 1 .. n : IsEvent(g, i) <=> IsEvent(file, i)
  BY <1>1, <1>2, <1>3 DEF IsEvent
<1>6. ASSUME NEW iid, NEW m
      PROVE  /\ \A i \in 1 .. n : Defines(g, i, iid, m) <=> Defines(file, i, iid, m)
             /\ ~Defines(g, n + 1, iid, m)
  BY <1>2, <1>5 DEF Defines
<1>7. ASSUME Interned(iids, file)
      PROVE  Interned(iids, g)
  <2>1. ASSUME NEW m \in DOMAIN iids
        PROVE  DefinedOnce(g, iids[m], m)
    <3>1. PICK j \in 1 .. n :
                 /\ Defines(file, j, iids[m], m)
                 /\ \A i \in 1 .. n :
                      /\ Defines(file, i, iids[m], m) => i = j
                      /\ IsEvent(file, i) /\ file[i].iid = iids[m] => j <= i
      BY <1>1, <1>7 DEF Interned, DefinedOnce
    <3>2. ASSUME NEW i \in 1 .. n + 1
          PROVE  /\ Defines(g, i, iids[m], m) => i = j
                 /\ IsEvent(g, i) /\ g[i].iid = iids[m] => j <= i
      BY <1>2, <1>4, <1>5, <1>6, <3>1
    <3>3. QED BY <1>2, <1>3, <1>6, <3>1, <3>2 DEF DefinedOnce
  <2>2. ASSUME NEW i \in 1 .. n + 1, IsEvent(g, i)
        PROVE  /\ g[i].iid = 0 \/ \E m \in DOMAIN iids : g[i].iid = iids[m]
               /\ \A d \in g[i].interned : \E m \in DOMAIN iids : d = <<iids[m], m>>
    <3>1. i \in 1 .. n /\ IsEvent(file, i) /\ g[i] = file[i]
      BY <1>2, <1>4, <1>5, <2>2
    <3>2. QED BY <1>1, <1>7, <3>1 DEF Interned
  <2>3. QED BY <1>2, <1>7, <2>1, <2>2 DEF Interned
<1>8. ASSUME ClearedOnce(cleared, file)
      PROVE  ClearedOnce(cleared, g)
  <2>1. cleared <=> \E i \in 1 .. n + 1 : IsEvent(g, i)
    BY <1>1, <1>3, <1>4, <1>5, <1>8 DEF ClearedOnce
  <2>2. ASSUME NEW i \in 1 .. n + 1, IsEvent(g, i)
        PROVE  g[i].cleared <=> \A j \in 1 .. n + 1 : IsEvent(g, j) => i <= j
    <3>1. i \in 1 .. n /\ IsEvent(file, i) /\ g[i] = file[i]
      BY <1>2, <1>4, <1>5, <2>2
    <3>2. file[i].cleared <=> \A j \in 1 .. n : IsEvent(file, j) => i <= j
      BY <1>1, <1>8, <3>1 DEF ClearedOnce
    <3>3. (\A j \in 1 .. n : IsEvent(file, j) => i <= j)
            <=> \A j \in 1 .. n + 1 : IsEvent(g, j) => i <= j
      BY <1>3, <1>4, <1>5
    <3>4. QED BY <3>1, <3>2, <3>3
  <2>3. QED BY <1>2, <2>1, <2>2 DEF ClearedOnce
<1>9. QED BY <1>7, <1>8

\* The flag of an event that tells whether one was written before.
LEMMA EventClears ==
  ASSUME NEW file, file \in Seq(Range(file)), NEW cleared \in BOOLEAN,
         ClearedOnce(cleared, file),
         NEW e, e.packet = "event", e.cleared = ~cleared, NEW g, g = Append(file, e)
  PROVE  ClearedOnce(TRUE, g)
<1>1. PICK n \in Nat : n = Len(file)
  BY AppendFacts
<1>2. /\ Len(g) = n + 1 /\ g[n + 1] = e
      /\ \A i \in 1 .. n : g[i] = file[i]
  BY <1>1, AppendFacts
<1>3. \A i \in 1 .. n : i \in 1 .. n + 1 /\ i <= n + 1 /\ ~(n + 1 <= i)
  OBVIOUS
<1>4. \A i \in 1 .. n + 1 : i \in 1 .. n \/ i = n + 1
  OBVIOUS
<1>5. /\ IsEvent(g, n + 1) /\ n + 1 \in 1 .. n + 1 /\ n + 1 <= n + 1
      /\ \A i \in 1 .. n : IsEvent(g, i) <=> IsEvent(file, i)
  BY <1>1, <1>2, <1>3 DEF IsEvent
<1>6. ASSUME NEW i \in 1 .. n + 1, IsEvent(g, i)
      PROVE  g[i].cleared <=> \A j \in 1 .. n + 1 : IsEvent(g, j) => i <= j
  <2>1. CASE i = n + 1
    <3>1. ~cleared <=> \A j \in 1 .. n : ~IsEvent(file, j)
      BY <1>1 DEF ClearedOnce
    <3>2. (\A j \in 1 .. n : ~IsEvent(file, j))
            <=> \A j \in 1 .. n + 1 : IsEvent(g, j) => n + 1 <= j
      BY <1>3, <1>4, <1>5
    <3>3. g[i].cleared = ~cleared
      BY <1>2, <2>1
    <3>4. QED BY <2>1, <3>1, <3>2, <3>3
  <2>2. CASE i \in 1 .. n
    <3>1. IsEvent(file, i) /\ g[i] = file[i]
      BY <1>2, <1>5, <1>6, <2>2
    <3>2. file[i].cleared <=> \A j \in 1 .. n : IsEvent(file, j) => i <= j
      BY <1>1, <2>2, <3>1 DEF ClearedOnce
    <3>3. (\A j \in 1 .. n : IsEvent(file, j) => i <= j)
            <=> \A j \in 1 .. n + 1 : IsEvent(g, j) => i <= j
      BY <1>3, <1>4, <1>5, <2>2
    <3>4. QED BY <3>1, <3>2, <3>3
  <2>3. QED BY <1>4, <2>1, <2>2
<1>7. QED BY <1>2, <1>5, <1>6 DEF ClearedOnce

\* An event that does not define an iid again leaves its definition the only one.
LEMMA StaysDefined ==
  ASSUME NEW file, file \in Seq(Range(file)), NEW iid, NEW m, DefinedOnce(file, iid, m),
         NEW e, e.packet = "event", <<iid, m>> \notin e.interned, NEW g, g = Append(file, e)
  PROVE  DefinedOnce(g, iid, m)
<1>1. PICK n \in Nat : n = Len(file)
  BY AppendFacts
<1>2. /\ Len(g) = n + 1 /\ g[n + 1] = e
      /\ \A i \in 1 .. n : g[i] = file[i]
  BY <1>1, AppendFacts
<1>3. PICK j \in 1 .. n :
        /\ Defines(file, j, iid, m)
        /\ \A i \in 1 .. n : /\ Defines(file, i, iid, m) => i = j
                             /\ IsEvent(file, i) /\ file[i].iid = iid => j <= i
  BY <1>1 DEF DefinedOnce
<1>4. \A i \in 1 .. n : /\ i \in 1 .. n + 1
                        /\ IsEvent(g, i) <=> IsEvent(file, i)
                        /\ Defines(g, i, iid, m) <=> Defines(file, i, iid, m)
  BY <1>1, <1>2 DEF IsEvent, Defines
<1>5. ~Defines(g, n + 1, iid, m)
  BY <1>2 DEF Defines
<1>6. ASSUME NEW i \in 1 .. n + 1
      PROVE  /\ Defines(g, i, iid, m) => i = j
             /\ IsEvent(g, i) /\ g[i].iid = iid => j <= i
  <2>1. CASE i \in 1 .. n
    BY <1>2, <1>3, <1>4, <2>1
  <2>2. CASE i = n + 1
    BY <1>3, <1>5, <2>2
  <2>3. i \in 1 .. n \/ i = n + 1
    OBVIOUS
  <2>4. QED BY <2>1, <2>2, <2>3
<1>7. 1 .. Len(g) = 1 .. n + 1
  BY <1>2
<1>8. j \in 1 .. Len(g) /\ Defines(g, j, iid, m)
  BY <1>3, <1>4, <1>7
<1>9. QED BY <1>6, <1>7, <1>8 DEF DefinedOnce

Fresh(ids, iids) == {<<ids[m], m>> : m \in DOMAIN ids \ DOMAIN iids}

\* An event of a name: the name is interned, and defined if it was not before.
LEMMA EventInterned ==
  ASSUME NEW file, file \in Seq(Range(file)), NEW iids, Interned(iids, file),
         NEW name, NEW ids, ids = Intern(iids, name),
         NEW e, e.packet = "event", e.iid = 0 \/ e.iid = ids[name],
         e.interned = Fresh(ids, iids),
         NEW g, g = Append(file, e)
  PROVE  Interned(ids, g)
<1>1. PICK n \in Nat : n = Len(file)
  BY AppendFacts
<1>2. /\ Len(g) = n + 1 /\ g[n + 1] = e
      /\ \A i \in 1 .. n : g[i] = file[i]
  BY <1>1, AppendFacts
<1>3. PICK c \in Nat : c = Cardinality(DOMAIN iids)
  BY FS_CardinalityType DEF Interned
<1>4. /\ IsFiniteSet(DOMAIN iids)
      /\ \A m \in DOMAIN iids : iids[m] \in 1 .. c
      /\ \A m, k \in DOMAIN iids : iids[m] = iids[k] => m = k
      /\ \A m \in DOMAIN iids : DefinedOnce(file, iids[m], m)
  BY <1>3 DEF Interned
<1>5. ASSUME NEW i \in 1 .. n, IsEvent(file, i)
      PROVE  /\ file[i].iid = 0 \/ \E m \in DOMAIN iids : file[i].iid = iids[m]
             /\ \A d \in file[i].interned : \E m \in DOMAIN iids : d = <<iids[m], m>>
  BY <1>1, <1>5 DEF Interned
<1>6. \A i \in 1 .. n : IsEvent(g, i) <=> IsEvent(file, i)
  BY <1>1, <1>2 DEF IsEvent
<1>7. \A i \in 1 .. n + 1 : i \in 1 .. n \/ i = n + 1
  OBVIOUS
<1>8. CASE name \in DOMAIN iids
  <2>1. ids = iids /\ e.interned = {}
    BY <1>8 DEF Intern, Fresh
  <2>2. \A m \in DOMAIN ids : DefinedOnce(g, ids[m], m)
    BY <1>4, <2>1, StaysDefined
  <2>3. ASSUME NEW i \in 1 .. n + 1, IsEvent(g, i)
        PROVE  /\ g[i].iid = 0 \/ \E m \in DOMAIN ids : g[i].iid = ids[m]
               /\ \A d \in g[i].interned : \E m \in DOMAIN ids : d = <<ids[m], m>>
    <3>1. CASE i \in 1 .. n
      BY <1>2, <1>5, <1>6, <2>1, <2>3, <3>1
    <3>2. CASE i = n + 1
      BY <1>2, <1>8, <2>1, <3>2
    <3>3. QED BY <1>7, <3>1, <3>2
  <2>4. QED BY <1>2, <1>3, <1>4, <2>1, <2>2, <2>3 DEF Interned
<1>9. CASE name \notin DOMAIN iids
  <2>1. ids = Set(iids, name, c + 1)
    BY <1>3, <1>9 DEF Intern
  <2>2. /\ DOMAIN ids = DOMAIN iids \cup {name} /\ ids[name] = c + 1
        /\ \A m \in DOMAIN iids : ids[m] = iids[m]
    BY <1>9, <2>1 DEF Set
  <2>3. IsFiniteSet(DOMAIN ids) /\ Cardinality(DOMAIN ids) = c + 1
    BY <1>3, <1>4, <1>9, <2>2, FS_AddElement
  <2>4. e.interned = {<<c + 1, name>>}
    BY <1>9, <2>2 DEF Fresh
  <2>5. \A m \in DOMAIN ids : ids[m] \in 1 .. c + 1
    BY <1>4, <2>2
  <2>6. \A m, k \in DOMAIN ids : ids[m] = ids[k] => m = k
    BY <1>4, <2>2
  <2>7. ASSUME NEW m \in DOMAIN iids
        PROVE  DefinedOnce(g, ids[m], m)
    <3>1. <<iids[m], m>> \notin e.interned
      BY <1>9, <2>4
    <3>2. QED BY <1>4, <2>2, <3>1, StaysDefined
  <2>8. DefinedOnce(g, c + 1, name)
    <3>1. IsEvent(g, n + 1) /\ n + 1 \in 1 .. n + 1 /\ Defines(g, n + 1, c + 1, name)
      BY <1>2, <2>4 DEF IsEvent, Defines
    <3>2. ASSUME NEW i \in 1 .. n, IsEvent(g, i)
          PROVE  g[i].iid # c + 1 /\ <<c + 1, name>> \notin g[i].interned
      <4>1. IsEvent(file, i) /\ g[i] = file[i]
        BY <1>2, <1>6, <3>2
      <4>2. g[i].iid # c + 1
        BY <1>4, <1>5, <4>1
      <4>3. <<c + 1, name>> \notin g[i].interned
        BY <1>5, <1>9, <4>1
      <4>4. QED BY <4>2, <4>3
    <3>3. \A i \in 1 .. n + 1 : Defines(g, i, c + 1, name) => i = n + 1
      BY <1>7, <3>2 DEF Defines
    <3>4. ASSUME NEW i \in 1 .. n + 1, IsEvent(g, i), g[i].iid = c + 1
          PROVE  n + 1 <= i
      <4>1. i \notin 1 .. n
        BY <3>2, <3>4
      <4>2. QED BY <1>7, <4>1
    <3>5. 1 .. Len(g) = 1 .. n + 1
      BY <1>2
    <3>6. QED BY <3>1, <3>3, <3>4, <3>5 DEF DefinedOnce
  <2>9. ASSUME NEW i \in 1 .. n + 1, IsEvent(g, i)
        PROVE  /\ g[i].iid = 0 \/ \E m \in DOMAIN ids : g[i].iid = ids[m]
               /\ \A d \in g[i].interned : \E m \in DOMAIN ids : d = <<ids[m], m>>
    <3>1. CASE i \in 1 .. n
      <4>1. IsEvent(file, i) /\ g[i] = file[i]
        BY <1>2, <1>6, <2>9, <3>1
      <4>2. QED BY <1>5, <2>2, <3>1, <4>1
    <3>2. CASE i = n + 1
      BY <1>2, <2>2, <2>4, <3>2
    <3>3. QED BY <1>7, <3>1, <3>2
  <2>10. \A m \in DOMAIN ids : DefinedOnce(g, ids[m], m)
    BY <2>2, <2>7, <2>8
  <2>11. QED BY <1>2, <2>3, <2>5, <2>6, <2>9, <2>10 DEF Interned
<1>10. QED BY <1>8, <1>9

\* A counter sample has no name.
LEMMA NamelessEvent ==
  ASSUME NEW file, file \in Seq(Range(file)), NEW iids, Interned(iids, file),
         NEW e, e.packet = "event", e.iid = 0, e.interned = {}, NEW g, g = Append(file, e)
  PROVE  Interned(iids, g)
<1>1. PICK n \in Nat : n = Len(file)
  BY AppendFacts
<1>2. /\ Len(g) = n + 1 /\ g[n + 1] = e
      /\ \A i \in 1 .. n : g[i] = file[i]
  BY <1>1, AppendFacts
<1>3. \A m \in DOMAIN iids : DefinedOnce(g, iids[m], m)
  BY StaysDefined DEF Interned
<1>4. ASSUME NEW i \in 1 .. n + 1, IsEvent(g, i)
      PROVE  /\ g[i].iid = 0 \/ \E m \in DOMAIN iids : g[i].iid = iids[m]
             /\ \A d \in g[i].interned : \E m \in DOMAIN iids : d = <<iids[m], m>>
  <2>1. CASE i \in 1 .. n
    <3>1. IsEvent(file, i) /\ g[i] = file[i]
      BY <1>1, <1>2, <1>4, <2>1 DEF IsEvent
    <3>2. QED BY <1>1, <2>1, <3>1 DEF Interned
  <2>2. CASE i = n + 1
    BY <1>2, <2>2
  <2>3. i \in 1 .. n \/ i = n + 1
    OBVIOUS
  <2>4. QED BY <2>1, <2>2, <2>3
<1>5. 1 .. Len(g) = 1 .. n + 1
  BY <1>2
<1>6. QED BY <1>3, <1>4, <1>5 DEF Interned

-----------------------------------------------------------------------------
(* The calls. *)

\* v is w with more processes and groups.
Deferring(w, v) ==
  /\ w.defined \subseteq v.defined
  /\ v.defined \subseteq w.defined \cup Processes \cup Groups
  /\ v.names = w.names /\ v.iids = w.iids /\ v.cleared = w.cleared
  /\ v.counters = w.counters /\ v.file = w.file

LEMMA DeferFields ==
  ASSUME NEW w, Fields(w), NEW track, NEW parent, NEW v, v = Defer(w, track, parent)
  PROVE  /\ Fields(v)
         /\ v.defined = w.defined \cup {track}
         /\ v.deferred = Set(w.deferred, track, parent)
         /\ v.names = w.names /\ v.iids = w.iids /\ v.cleared = w.cleared
         /\ v.counters = w.counters /\ v.file = w.file
<1>1. DOMAIN v = DOMAIN w
  BY DEF Defer
<1>2. /\ v.defined = w.defined \cup {track}
      /\ v.deferred = Set(w.deferred, track, parent)
  BY DEF Defer, Fields
<1>3. /\ v.names = w.names /\ v.iids = w.iids /\ v.cleared = w.cleared
      /\ v.counters = w.counters /\ v.file = w.file
  BY DEF Defer, Fields
<1>4. QED BY <1>1, <1>2, <1>3 DEF Fields

LEMMA DeferKeeps ==
  ASSUME NEW K, NEW w, Good(w, K), NEW track, NEW parent, NEW v, v = Defer(w, track, parent),
         track \in Processes \cup Groups,
         Hierarchy(w.defined \cup {track}, Set(w.deferred, track, parent), K)
  PROVE  Good(v, K) /\ track \in v.defined /\ Deferring(w, v)
<1>1. /\ Fields(v)
      /\ v.defined = w.defined \cup {track}
      /\ v.deferred = Set(w.deferred, track, parent)
      /\ v.names = w.names /\ v.iids = w.iids /\ v.cleared = w.cleared
      /\ v.counters = w.counters /\ v.file = w.file
  BY DeferFields DEF Good
<1>2. DOMAIN w.deferred \subseteq DOMAIN v.deferred
  BY <1>1 DEF Set
<1>3. \A x \in LaneTracks : x \in v.defined <=> x \in w.defined
  BY <1>1, TracksDiffer DEF LaneTracks
<1>4. Described(v.defined, v.counters, v.file)
  <2>1. \A l \in Lanes, t \in Threads : Lane(l, t) \in LaneTracks
    BY DEF LaneTracks
  <2>2. \A l \in Lanes, t \in Threads :
          Lane(l, t) \in v.defined => DescribedOnce(v.file, Lane(l, t), Group(t))
    BY <1>1, <1>3, <2>1 DEF Good, Described
  <2>3. \A i \in 1 .. Len(v.file) :
         /\ v.file[i].packet \in {"descriptor", "event"}
         /\ \/ v.file[i].track \in v.defined \cap LaneTracks
            \/ \E m \in v.counters : v.file[i].track = CounterTrack(m)
    BY <1>1 DEF Good, Described
  <2>4. \A m \in v.counters : DescribedOnce(v.file, CounterTrack(m), Process(0))
    BY <1>1 DEF Good, Described
  <2>5. QED BY <2>2, <2>3, <2>4 DEF Described
<1>5. /\ v.counters \subseteq Metrics /\ (v.counters # {} => Process(0) \in v.defined)
      /\ DOMAIN v.names \subseteq DOMAIN v.deferred
      /\ Interned(v.iids, v.file) /\ ClearedOnce(v.cleared, v.file)
  BY <1>1, <1>2 DEF Good
<1>6. Hierarchy(v.defined, v.deferred, K)
  BY <1>1
<1>7. Good(v, K)
  BY <1>1, <1>4, <1>5, <1>6 DEF Good
<1>8. QED BY <1>1, <1>7 DEF Deferring

LEMMA EnsureProcessKeeps ==
  ASSUME NEW K, NEW w, Good(w, K), NEW p \in Pids, NEW v, v = EnsureProcess(w, p)
  PROVE  Good(v, K) /\ Process(p) \in v.defined /\ Deferring(w, v)
<1>1. CASE Process(p) \in w.defined
  BY <1>1 DEF EnsureProcess, Deferring
<1>2. CASE Process(p) \notin w.defined
  <2>1. v = Defer(w, Process(p), Root)
    BY <1>2 DEF EnsureProcess
  <2>2. Process(p) \in Processes
    BY DEF Processes
  <2>3. Hierarchy(w.defined \cup {Process(p)}, Set(w.deferred, Process(p), Root), K)
    BY <1>2, ProcessAdded DEF Good
  <2>4. QED BY <2>1, <2>2, <2>3, DeferKeeps
<1>3. QED BY <1>1, <1>2

LEMMA EnsureGroupKeeps ==
  ASSUME NEW K, NEW w, Good(w, K), NEW p \in Pids, NEW t \in Threads,
         t \in K => p = ProcessOf[t], NEW v, v = EnsureGroup(w, p, t)
  PROVE  Good(v, K) /\ Group(t) \in v.defined /\ Deferring(w, v)
<1>1. CASE Group(t) \in w.defined
  BY <1>1 DEF EnsureGroup, Deferring
<1>2. CASE Group(t) \notin w.defined
  <2>1. PICK u : u = EnsureProcess(w, p)
    OBVIOUS
  <2>2. Good(u, K) /\ Process(p) \in u.defined /\ Deferring(w, u)
    BY <2>1, EnsureProcessKeeps
  <2>3. v = Defer(u, Group(t), Process(p))
    BY <1>2, <2>1 DEF EnsureGroup
  <2>4. Group(t) \in Groups /\ Group(t) \notin u.defined
    <3>1. u.defined = w.defined \/ u.defined = w.defined \cup {Process(p)}
      BY <2>1, DeferFields DEF EnsureProcess, Good
    <3>2. Group(t) # Process(p)
      BY TracksDiffer
    <3>3. QED BY <1>2, <3>1, <3>2 DEF Groups
  <2>5. Hierarchy(u.defined \cup {Group(t)}, Set(u.deferred, Group(t), Process(p)), K)
    BY <2>2, <2>4, GroupAdded DEF Good
  <2>6. Good(v, K) /\ Group(t) \in v.defined /\ Deferring(u, v)
    BY <2>2, <2>3, <2>4, <2>5, DeferKeeps
  <2>7. Deferring(w, v)
    BY <2>2, <2>6 DEF Deferring
  <2>8. QED BY <2>6, <2>7
<1>3. QED BY <1>1, <1>2

\* The tracks that have events.
EventTracks(file) == {file[i].track : i \in {j \in 1 .. Len(file) : IsEvent(file, j)}}

\* v is w with more packets, among them events of the tracks in T only.
Writing(w, v, T) ==
  /\ w.defined \subseteq v.defined
  /\ v.names = w.names
  /\ EventTracks(v.file) \subseteq EventTracks(w.file) \cup T

LEMMA EventTracksAppend ==
  ASSUME NEW file, file \in Seq(Range(file)), NEW e, NEW g, g = Append(file, e)
  PROVE  \A x \in EventTracks(g) :
           x \in EventTracks(file) \/ (e.packet = "event" /\ x = e.track)
<1>1. PICK n \in Nat : n = Len(file)
  BY AppendFacts
<1>2. /\ Len(g) = n + 1 /\ g[n + 1] = e
      /\ \A i \in 1 .. n : g[i] = file[i]
  BY <1>1, AppendFacts
<1>3. \A i \in 1 .. n : i \in 1 .. n + 1 /\ (IsEvent(g, i) <=> IsEvent(file, i))
  BY <1>1, <1>2 DEF IsEvent
<1>4. \A i \in 1 .. n + 1 : i \in 1 .. n \/ i = n + 1
  OBVIOUS
<1>5. \A x : x \in EventTracks(file) <=>
               \E i \in 1 .. n : IsEvent(file, i) /\ x = file[i].track
  BY <1>1 DEF EventTracks
<1>6. \A x : x \in EventTracks(g) <=>
               \E i \in 1 .. n + 1 : IsEvent(g, i) /\ x = g[i].track
  BY <1>2 DEF EventTracks
<1>7. ASSUME NEW x \in EventTracks(g)
      PROVE  x \in EventTracks(file) \/ (IsEvent(g, n + 1) /\ x = e.track)
  BY <1>2, <1>3, <1>4, <1>5, <1>6
<1>8. IsEvent(g, n + 1) => e.packet = "event"
  BY <1>2 DEF IsEvent
<1>9. QED BY <1>7, <1>8

\* An appended packet of a track that the file describes.
LEMMA PacketAdded ==
  ASSUME NEW defined, NEW counters, NEW file, file \in Seq(Range(file)),
         Described(defined, counters, file),
         NEW e, e.packet = "event",
         e.track \in defined \cap LaneTracks \/ \E m \in counters : e.track = CounterTrack(m),
         NEW g, g = Append(file, e)
  PROVE  Described(defined, counters, g)
<1>1. PICK n \in Nat : n = Len(file)
  BY AppendFacts
<1>2. /\ Len(g) = n + 1 /\ g[n + 1] = e
      /\ \A i \in 1 .. n : g[i] = file[i]
  BY <1>1, AppendFacts
<1>3. \A l \in Lanes, t \in Threads :
        Lane(l, t) \in defined => DescribedOnce(g, Lane(l, t), Group(t))
  BY StaysDescribed DEF Described
<1>4. \A m \in counters : DescribedOnce(g, CounterTrack(m), Process(0))
  BY StaysDescribed DEF Described
<1>5. ASSUME NEW i \in 1 .. n + 1
      PROVE  /\ g[i].packet \in {"descriptor", "event"}
             /\ \/ g[i].track \in defined \cap LaneTracks
                \/ \E m \in counters : g[i].track = CounterTrack(m)
  <2>1. i \in 1 .. n \/ i = n + 1
    OBVIOUS
  <2>2. CASE i \in 1 .. n
    BY <1>1, <1>2, <2>2 DEF Described
  <2>3. CASE i = n + 1
    BY <1>2, <2>3
  <2>4. QED BY <2>1, <2>2, <2>3
<1>6. QED BY <1>2, <1>3, <1>4, <1>5 DEF Described

LEMMA EnsureTrackKeeps ==
  ASSUME NEW K, NEW w, Good(w, K), NEW p \in Pids, NEW l \in Lanes, NEW t \in Threads,
         t \in K => p = ProcessOf[t], NEW v, v = EnsureTrack(w, p, l, t)
  PROVE  Good(v, K) /\ Lane(l, t) \in v.defined /\ Writing(w, v, {})
<1>1. CASE Lane(l, t) \in w.defined
  BY <1>1 DEF EnsureTrack, Writing
<1>2. CASE Lane(l, t) \notin w.defined
  <2>1. PICK u : u = EnsureGroup(w, p, t)
    OBVIOUS
  <2>2. Good(u, K) /\ Group(t) \in u.defined /\ Deferring(w, u)
    BY <2>1, EnsureGroupKeeps
  <2>3. PICK x : x = Lane(l, t)
    OBVIOUS
  <2>4. x \in LaneTracks /\ x \notin u.defined
    BY <1>2, <2>2, <2>3, TracksDiffer DEF Deferring, LaneTracks
  <2>5. PICK e : e = Descriptor(x, Group(t), FallbackName(x))
    OBVIOUS
  <2>6. v = [u EXCEPT !.defined = @ \cup {x}, !.file = Append(@, e)]
    BY <1>2, <2>1, <2>3, <2>5 DEF EnsureTrack
  <2>7. DOMAIN u = {"defined", "deferred", "names", "iids", "cleared", "counters", "file"}
    BY <2>2 DEF Good, Fields
  <2>8. /\ DOMAIN v = DOMAIN u
        /\ v.defined = u.defined \cup {x} /\ v.file = Append(u.file, e)
        /\ v.deferred = u.deferred /\ v.names = u.names /\ v.iids = u.iids
        /\ v.cleared = u.cleared /\ v.counters = u.counters
    BY <2>6, <2>7
  <2>9. e.packet = "descriptor" /\ e.track = x /\ e.parent = Group(t)
    BY <2>5 DEF Descriptor
  <2>10. u.file \in Seq(Range(u.file))
    BY <2>2 DEF Good, Fields
  <2>11. PICK f, g : /\ f = u.file /\ g = v.file
                     /\ f \in Seq(Range(f)) /\ g = Append(f, e)
                     /\ g \in Seq(Range(g))
    <3>1. PICK f, g : f = u.file /\ g = v.file
      OBVIOUS
    <3>2. f \in Seq(Range(f)) /\ g = Append(f, e)
      BY <2>8, <2>10, <3>1
    <3>3. g \in Seq(Range(g))
      BY <3>2, AppendFacts
    <3>4. QED BY <3>1, <3>2, <3>3
  <2>12. Hierarchy(v.defined, v.deferred, K)
    BY <2>2, <2>3, <2>8, LaneAdded DEF Good
  <2>13. Interned(v.iids, v.file) /\ ClearedOnce(v.cleared, v.file)
    <3>1. Interned(u.iids, f) /\ ClearedOnce(u.cleared, f)
      BY <2>2, <2>11 DEF Good
    <3>2. Interned(u.iids, g) /\ ClearedOnce(u.cleared, g)
      BY <2>9, <2>11, <3>1, NoEvent
    <3>3. QED BY <2>8, <2>11, <3>2
  <2>14. Described(v.defined, v.counters, v.file)
    <3>1. \A i \in 1 .. Len(u.file) : u.file[i].track # x
      BY <2>2, <2>4, TracksDiffer DEF Good, Described
    <3>2. DescribedOnce(v.file, x, Group(t))
      BY <2>5, <2>8, <2>10, <3>1, NowDescribed
    <3>3. ASSUME NEW k \in Lanes, NEW q \in Threads, Lane(k, q) \in v.defined
          PROVE  DescribedOnce(v.file, Lane(k, q), Group(q))
      <4>1. CASE Lane(k, q) = x
        BY <2>3, <3>2, <4>1, TracksDiffer
      <4>2. CASE Lane(k, q) # x
        <5>1. DescribedOnce(u.file, Lane(k, q), Group(q))
          BY <2>2, <2>8, <3>3, <4>2 DEF Good, Described
        <5>2. QED BY <2>8, <2>9, <2>10, <4>2, <5>1, StaysDescribed
      <4>3. QED BY <4>1, <4>2
    <3>4. ASSUME NEW m \in v.counters
          PROVE  DescribedOnce(v.file, CounterTrack(m), Process(0))
      <4>1. DescribedOnce(u.file, CounterTrack(m), Process(0))
        BY <2>2, <2>8 DEF Good, Described
      <4>2. CounterTrack(m) # x
        BY <2>4, TracksDiffer
      <4>3. QED BY <2>8, <2>9, <2>10, <4>1, <4>2, StaysDescribed
    <3>5. ASSUME NEW i \in 1 .. Len(v.file)
          PROVE  /\ v.file[i].packet \in {"descriptor", "event"}
                 /\ \/ v.file[i].track \in v.defined \cap LaneTracks
                    \/ \E m \in v.counters : v.file[i].track = CounterTrack(m)
      <4>1. PICK n \in Nat : n = Len(u.file)
        BY <2>10, AppendFacts
      <4>2. /\ Len(v.file) = n + 1 /\ v.file[n + 1] = e
            /\ \A j \in 1 .. n : v.file[j] = u.file[j]
        BY <2>8, <2>10, <4>1, AppendFacts
      <4>3. i \in 1 .. n \/ i = n + 1
        BY <4>2
      <4>4. CASE i \in 1 .. n
        BY <2>2, <2>8, <4>1, <4>2, <4>4 DEF Good, Described
      <4>5. CASE i = n + 1
        BY <2>4, <2>8, <2>9, <4>2, <4>5
      <4>6. QED BY <4>3, <4>4, <4>5
    <3>6. QED BY <3>3, <3>4, <3>5 DEF Described
  <2>15. Fields(v)
    BY <2>2, <2>7, <2>8, <2>11 DEF Good, Fields
  <2>16. /\ v.counters \subseteq Metrics /\ (v.counters # {} => Process(0) \in v.defined)
         /\ DOMAIN v.names \subseteq DOMAIN v.deferred
    BY <2>2, <2>8 DEF Good
  <2>17. Good(v, K)
    BY <2>12, <2>13, <2>14, <2>15, <2>16 DEF Good
  <2>18. EventTracks(v.file) \subseteq EventTracks(w.file)
    <3>1. EventTracks(g) \subseteq EventTracks(f)
      BY <2>9, <2>11, EventTracksAppend
    <3>2. QED BY <2>2, <2>11, <3>1 DEF Deferring
  <2>19. QED BY <2>2, <2>3, <2>8, <2>17, <2>18 DEF Writing, Deferring
<1>3. QED BY <1>1, <1>2

\* x is u with other iids, under which its file and the new event are interned.
LEMMA EmitKeeps ==
  ASSUME NEW K, NEW u, Good(u, K), NEW x, DOMAIN x = DOMAIN u,
         x.defined = u.defined, x.deferred = u.deferred, x.names = u.names,
         x.cleared = u.cleared, x.counters = u.counters, x.file = u.file,
         NEW type, NEW track, NEW iid, NEW fresh, NEW v, v = Emit(x, type, track, iid, fresh),
         \/ track \in u.defined \cap LaneTracks
         \/ \E m \in u.counters : track = CounterTrack(m),
         ASSUME NEW f, NEW g, f = u.file, f \in Seq(Range(f)), NEW e, e.packet = "event",
                e.iid = iid, e.interned = fresh, g = Append(f, e)
         PROVE  Interned(x.iids, g)
  PROVE  Good(v, K) /\ Writing(u, v, {track})
<1>1. DOMAIN u = {"defined", "deferred", "names", "iids", "cleared", "counters", "file"}
  BY DEF Good, Fields
<1>2. PICK c \in BOOLEAN : c = u.cleared
  BY DEF Good, Fields
<1>3. PICK e : e = Event(type, track, iid, fresh, ~c)
  OBVIOUS
<1>4. /\ e.packet = "event" /\ e.track = track /\ e.iid = iid /\ e.interned = fresh
      /\ e.cleared = ~c
  BY <1>3 DEF Event
<1>5. v = [x EXCEPT !.cleared = TRUE, !.file = Append(@, e)]
  BY <1>2, <1>3 DEF Emit
<1>6. /\ DOMAIN v = DOMAIN u /\ v.cleared = TRUE
      /\ v.defined = u.defined /\ v.deferred = u.deferred /\ v.names = u.names
      /\ v.counters = u.counters /\ v.iids = x.iids /\ v.file = Append(u.file, e)
  BY <1>1, <1>5
<1>7. PICK f, g : /\ f = u.file /\ g = v.file
                  /\ f \in Seq(Range(f)) /\ g = Append(f, e)
                  /\ g \in Seq(Range(g))
  <2>1. PICK f, g : f = u.file /\ g = v.file
    OBVIOUS
  <2>2. f \in Seq(Range(f)) /\ g = Append(f, e)
    BY <1>6, <2>1 DEF Good, Fields
  <2>3. g \in Seq(Range(g))
    BY <2>2, AppendFacts
  <2>4. QED BY <2>1, <2>2, <2>3
<1>8. Fields(v)
  BY <1>1, <1>6, <1>7 DEF Fields
<1>9. Hierarchy(v.defined, v.deferred, K)
  BY <1>6 DEF Good
<1>10. /\ v.counters \subseteq Metrics /\ (v.counters # {} => Process(0) \in v.defined)
       /\ DOMAIN v.names \subseteq DOMAIN v.deferred
  BY <1>6 DEF Good
<1>11. Described(v.defined, v.counters, v.file)
  <2>1. PICK d, cs : d = u.defined /\ cs = u.counters
    OBVIOUS
  <2>2. Described(d, cs, f)
    BY <1>7, <2>1 DEF Good
  <2>3. e.track \in d \cap LaneTracks \/ \E m \in cs : e.track = CounterTrack(m)
    BY <1>4, <2>1
  <2>4. Described(d, cs, g)
    BY <1>4, <1>7, <2>2, <2>3, PacketAdded
  <2>5. QED BY <1>6, <1>7, <2>1, <2>4
<1>12. Interned(v.iids, v.file)
  <2>1. Interned(x.iids, g)
    BY <1>4, <1>7
  <2>2. QED BY <1>6, <1>7, <2>1
<1>13. ClearedOnce(v.cleared, v.file)
  <2>1. ClearedOnce(c, f)
    BY <1>2, <1>7 DEF Good
  <2>2. ClearedOnce(TRUE, g)
    BY <1>4, <1>7, <2>1, EventClears
  <2>3. QED BY <1>6, <1>7, <2>2
<1>14. Good(v, K)
  BY <1>8, <1>9, <1>10, <1>11, <1>12, <1>13 DEF Good
<1>15. EventTracks(v.file) \subseteq EventTracks(u.file) \cup {track}
  <2>1. \A y \in EventTracks(g) : y \in EventTracks(f) \/ y = track
    BY <1>4, <1>7, EventTracksAppend
  <2>2. QED BY <1>7, <2>1
<1>16. Writing(u, v, {track})
  BY <1>6, <1>15 DEF Writing
<1>17. QED BY <1>14, <1>16

LEMMA WriteTrackEventKeeps ==
  ASSUME NEW K, NEW w, Good(w, K), NEW p \in Pids, NEW l \in Lanes, NEW t \in Threads,
         t \in K => p = ProcessOf[t], NEW type, NEW name,
         NEW v, v = WriteTrackEvent(w, type, name, p, l, t)
  PROVE  Good(v, K) /\ Writing(w, v, {Lane(l, t)})
<1>1. PICK u : u = EnsureTrack(w, p, l, t)
  OBVIOUS
<1>2. Good(u, K) /\ Lane(l, t) \in u.defined /\ Writing(w, u, {})
  BY <1>1, EnsureTrackKeeps
<1>3. PICK ids : ids = Intern(u.iids, name)
  OBVIOUS
<1>4. PICK fresh : fresh = Fresh(ids, u.iids)
  OBVIOUS
<1>5. PICK iid : iid = IF type = "end" THEN 0 ELSE ids[name]
  OBVIOUS
<1>6. PICK x : x = [u EXCEPT !.iids = ids]
  OBVIOUS
<1>7. v = Emit(x, type, Lane(l, t), iid, fresh)
  BY <1>1, <1>3, <1>4, <1>5, <1>6 DEF WriteTrackEvent, Fresh
<1>8. /\ DOMAIN x = DOMAIN u /\ x.iids = ids
      /\ x.defined = u.defined /\ x.deferred = u.deferred /\ x.names = u.names
      /\ x.cleared = u.cleared /\ x.counters = u.counters /\ x.file = u.file
  BY <1>2, <1>6 DEF Good, Fields
<1>9. ASSUME NEW f, NEW g, f = u.file, f \in Seq(Range(f)), NEW e, e.packet = "event",
             e.iid = iid, e.interned = fresh, g = Append(f, e)
      PROVE  Interned(x.iids, g)
  <2>1. PICK old : old = u.iids /\ Interned(old, f)
    BY <1>2, <1>9 DEF Good
  <2>2. /\ ids = Intern(old, name)
        /\ e.interned = Fresh(ids, old)
        /\ e.iid = 0 \/ e.iid = ids[name]
    BY <1>3, <1>4, <1>5, <1>9, <2>1
  <2>3. Interned(ids, g)
    BY <1>9, <2>1, <2>2, EventInterned
  <2>4. QED BY <1>8, <2>3
<1>10. Lane(l, t) \in u.defined \cap LaneTracks
  BY <1>2 DEF LaneTracks
<1>11. Good(v, K) /\ Writing(u, v, {Lane(l, t)})
  BY <1>2, <1>7, <1>8, <1>9, <1>10, EmitKeeps
<1>12. QED BY <1>2, <1>11 DEF Writing

LEMMA WriteCompleteKeeps ==
  ASSUME NEW K, NEW w, Good(w, K), NEW p \in Pids, NEW l \in Lanes, NEW t \in Threads,
         t \in K => p = ProcessOf[t], NEW name,
         NEW v, v = WriteComplete(w, name, p, l, t)
  PROVE  Good(v, K) /\ Writing(w, v, {Lane(l, t)})
<1>1. PICK u : u = WriteTrackEvent(w, "begin", name, p, l, t)
  OBVIOUS
<1>2. Good(u, K) /\ Writing(w, u, {Lane(l, t)})
  BY <1>1, WriteTrackEventKeeps
<1>3. v = WriteTrackEvent(u, "end", name, p, l, t)
  BY <1>1 DEF WriteComplete
<1>4. Good(v, K) /\ Writing(u, v, {Lane(l, t)})
  BY <1>2, <1>3, WriteTrackEventKeeps
<1>5. QED BY <1>2, <1>4 DEF Writing

LEMMA DefineCounterKeeps ==
  ASSUME NEW K, NEW w, Good(w, K), NEW m \in Metrics, NEW v, v = DefineCounter(w, m, 0)
  PROVE  Good(v, K) /\ m \in v.counters /\ Writing(w, v, {})
<1>1. CASE m \in w.counters
  BY <1>1 DEF DefineCounter, Writing
<1>2. CASE m \notin w.counters
  <2>1. PICK u : u = EnsureProcess(w, 0)
    OBVIOUS
  <2>2. Good(u, K) /\ Process(0) \in u.defined /\ Deferring(w, u)
    BY <2>1, EnsureProcessKeeps DEF Pids
  <2>3. PICK x : x = CounterTrack(m)
    OBVIOUS
  <2>4. PICK e : e = Descriptor(x, Process(0), m)
    OBVIOUS
  <2>5. v = [u EXCEPT !.counters = @ \cup {m}, !.file = Append(@, e)]
    BY <1>2, <2>1, <2>3, <2>4 DEF DefineCounter
  <2>6. DOMAIN u = {"defined", "deferred", "names", "iids", "cleared", "counters", "file"}
    BY <2>2 DEF Good, Fields
  <2>7. /\ DOMAIN v = DOMAIN u
        /\ v.counters = u.counters \cup {m} /\ v.file = Append(u.file, e)
        /\ v.defined = u.defined /\ v.deferred = u.deferred /\ v.names = u.names
        /\ v.iids = u.iids /\ v.cleared = u.cleared
    BY <2>5, <2>6
  <2>8. e.packet = "descriptor" /\ e.track = x /\ e.parent = Process(0)
    BY <2>4 DEF Descriptor
  <2>9. PICK f, g : /\ f = u.file /\ g = v.file
                    /\ f \in Seq(Range(f)) /\ g = Append(f, e)
                    /\ g \in Seq(Range(g))
    <3>1. PICK f, g : f = u.file /\ g = v.file
      OBVIOUS
    <3>2. f \in Seq(Range(f)) /\ g = Append(f, e)
      BY <2>2, <2>7, <3>1 DEF Good, Fields
    <3>3. g \in Seq(Range(g))
      BY <3>2, AppendFacts
    <3>4. QED BY <3>1, <3>2, <3>3
  <2>10. Interned(v.iids, v.file) /\ ClearedOnce(v.cleared, v.file)
    <3>1. Interned(u.iids, f) /\ ClearedOnce(u.cleared, f)
      BY <2>2, <2>9 DEF Good
    <3>2. Interned(u.iids, g) /\ ClearedOnce(u.cleared, g)
      BY <2>8, <2>9, <3>1, NoEvent
    <3>3. QED BY <2>7, <2>9, <3>2
  <2>11. Described(v.defined, v.counters, v.file)
    <3>1. \A k \in u.counters : CounterTrack(k) # x
      BY <1>2, <2>2, <2>3, TracksDiffer DEF Deferring
    <3>2. \A y \in LaneTracks : y # x
      BY <2>3, TracksDiffer
    <3>3. \A i \in 1 .. Len(f) : f[i].track # x
      BY <2>2, <2>9, <3>1, <3>2 DEF Good, Described
    <3>4. DescribedOnce(g, x, Process(0))
      BY <2>4, <2>9, <3>3, NowDescribed
    <3>5. ASSUME NEW k \in Lanes, NEW q \in Threads, Lane(k, q) \in u.defined
          PROVE  DescribedOnce(g, Lane(k, q), Group(q))
      <4>1. DescribedOnce(f, Lane(k, q), Group(q))
        BY <2>2, <2>9, <3>5 DEF Good, Described
      <4>2. Lane(k, q) # x
        BY <3>2 DEF LaneTracks
      <4>3. QED BY <2>8, <2>9, <4>1, <4>2, StaysDescribed
    <3>6. ASSUME NEW k \in u.counters \cup {m}
          PROVE  DescribedOnce(g, CounterTrack(k), Process(0))
      <4>1. CASE k = m
        BY <2>3, <3>4, <4>1
      <4>2. CASE k \in u.counters
        <5>1. DescribedOnce(f, CounterTrack(k), Process(0))
          BY <2>2, <2>9, <4>2 DEF Good, Described
        <5>2. QED BY <2>8, <2>9, <3>1, <4>2, <5>1, StaysDescribed
      <4>3. QED BY <4>1, <4>2
    <3>7. ASSUME NEW i \in 1 .. Len(g)
          PROVE  /\ g[i].packet \in {"descriptor", "event"}
                 /\ \/ g[i].track \in u.defined \cap LaneTracks
                    \/ \E k \in u.counters \cup {m} : g[i].track = CounterTrack(k)
      <4>1. PICK n \in Nat : n = Len(f)
        BY <2>9, AppendFacts
      <4>2. /\ Len(g) = n + 1 /\ g[n + 1] = e
            /\ \A j \in 1 .. n : g[j] = f[j]
        <5>1. f \in Seq(Range(f)) /\ g = Append(f, e)
          BY <2>9
        <5>2. Len(g) = Len(f) + 1 /\ g[Len(f) + 1] = e
          BY <5>1, AppendFacts
        <5>3. \A j \in 1 .. Len(f) : g[j] = f[j]
          BY <5>1, AppendFacts
        <5>4. QED BY <4>1, <5>2, <5>3
      <4>3. i \in 1 .. n \/ i = n + 1
        BY <4>2
      <4>4. CASE i \in 1 .. n
        <5>1. /\ f[i].packet \in {"descriptor", "event"}
              /\ \/ f[i].track \in u.defined \cap LaneTracks
                 \/ \E k \in u.counters : f[i].track = CounterTrack(k)
          BY <2>2, <2>9, <4>1, <4>4 DEF Good, Described
        <5>2. QED BY <4>2, <4>4, <5>1
      <4>5. CASE i = n + 1
        BY <2>3, <2>8, <4>2, <4>5
      <4>6. QED BY <4>3, <4>4, <4>5
    <3>8. Described(u.defined, u.counters \cup {m}, g)
      BY <3>5, <3>6, <3>7 DEF Described
    <3>9. QED BY <2>7, <2>9, <3>8
  <2>12. Fields(v)
    BY <2>2, <2>6, <2>7, <2>9 DEF Good, Fields
  <2>13. /\ v.counters \subseteq Metrics /\ (v.counters # {} => Process(0) \in v.defined)
         /\ DOMAIN v.names \subseteq DOMAIN v.deferred
         /\ Hierarchy(v.defined, v.deferred, K)
    BY <2>2, <2>7 DEF Good
  <2>14. Good(v, K)
    BY <2>10, <2>11, <2>12, <2>13 DEF Good
  <2>15. EventTracks(v.file) \subseteq EventTracks(w.file)
    <3>1. EventTracks(g) \subseteq EventTracks(f)
      BY <2>8, <2>9, EventTracksAppend
    <3>2. QED BY <2>2, <2>9, <3>1 DEF Deferring
  <2>16. QED BY <2>2, <2>7, <2>14, <2>15 DEF Writing, Deferring
<1>3. QED BY <1>1, <1>2

LEMMA WriteCounterKeeps ==
  ASSUME NEW K, NEW w, Good(w, K), NEW m \in Metrics, NEW v, v = WriteCounter(w, m, 0)
  PROVE  Good(v, K) /\ Writing(w, v, {CounterTrack(m)})
<1>1. PICK u : u = DefineCounter(w, m, 0)
  OBVIOUS
<1>2. Good(u, K) /\ m \in u.counters /\ Writing(w, u, {})
  BY <1>1, DefineCounterKeeps
<1>3. v = Emit(u, "counter", CounterTrack(m), 0, {})
  BY <1>1 DEF WriteCounter
<1>4. ASSUME NEW f, NEW g, f = u.file, f \in Seq(Range(f)), NEW e, e.packet = "event",
             e.iid = 0, e.interned = {}, g = Append(f, e)
      PROVE  Interned(u.iids, g)
  <2>1. PICK ids : ids = u.iids /\ Interned(ids, f)
    BY <1>2, <1>4 DEF Good
  <2>2. Interned(ids, g)
    BY <1>4, <2>1, NamelessEvent
  <2>3. QED BY <2>1, <2>2
<1>5. Good(v, K) /\ Writing(u, v, {CounterTrack(m)})
  BY <1>2, <1>3, <1>4, EmitKeeps
<1>6. QED BY <1>2, <1>5 DEF Writing

\* What a thread group is called if the file is closed now.
NameOf(w, t) ==
  IF Group(t) \in DOMAIN w.names THEN w.names[Group(t)] ELSE FallbackName(Group(t))

LEMMA NamedKeeps ==
  ASSUME NEW K, NEW w, Good(w, K), NEW x, x \in DOMAIN w.deferred, NEW name,
         NEW v, v = Named(w, x, name)
  PROVE  /\ Good(v, K) /\ v.file = w.file /\ v.defined = w.defined
         /\ \A t \in Threads : NameOf(v, t) = IF Group(t) = x THEN name ELSE NameOf(w, t)
<1>1. DOMAIN w = {"defined", "deferred", "names", "iids", "cleared", "counters", "file"}
  BY DEF Good, Fields
<1>2. PICK old, new : old = w.names /\ new = Set(old, x, name) /\ new = v.names
  BY <1>1 DEF Named
<1>3. /\ DOMAIN v = DOMAIN w /\ v.defined = w.defined /\ v.deferred = w.deferred
      /\ v.iids = w.iids /\ v.cleared = w.cleared
      /\ v.counters = w.counters /\ v.file = w.file
  BY <1>1 DEF Named
<1>4. /\ DOMAIN new = DOMAIN old \cup {x} /\ new[x] = name
      /\ \A z \in DOMAIN old : z # x => new[z] = old[z]
  BY <1>2 DEF Set
<1>5. DOMAIN v.names \subseteq DOMAIN v.deferred
  BY <1>2, <1>3, <1>4 DEF Good
<1>6. Good(v, K)
  BY <1>3, <1>5 DEF Good, Fields
<1>7. ASSUME NEW t \in Threads
      PROVE  NameOf(v, t) = IF Group(t) = x THEN name ELSE NameOf(w, t)
  <2>1. PICK y : y = Group(t)
    OBVIOUS
  <2>2. NameOf(v, t) = IF y \in DOMAIN new THEN new[y] ELSE FallbackName(y)
    BY <1>2, <2>1 DEF NameOf
  <2>3. NameOf(w, t) = IF y \in DOMAIN old THEN old[y] ELSE FallbackName(y)
    BY <1>2, <2>1 DEF NameOf
  <2>4. QED BY <1>4, <2>1, <2>2, <2>3
<1>8. QED BY <1>3, <1>6, <1>7

\* A call of write_metadata names the group of thread u.
Names(key, l, t, u) == key = "thread_name" /\ l = "stacks" /\ u = t

LEMMA WriteMetadataKeeps ==
  ASSUME NEW K, NEW w, Good(w, K), NEW key, NEW p \in Pids, NEW l, NEW t, NEW name,
         \A u : Names(key, l, t, u) => u \in Threads /\ (u \in K => p = ProcessOf[u]),
         NEW v, v = WriteMetadata(w, key, p, l, t, name)
  PROVE  /\ Good(v, K) /\ v.file = w.file
         /\ \A u \in Threads :
              /\ Names(key, l, t, u) => NameOf(v, u) = <<name, u>>
              /\ ~Names(key, l, t, u) => NameOf(v, u) = NameOf(w, u)
<1>1. ASSUME NEW x, x.names = w.names
      PROVE  \A u \in Threads : NameOf(x, u) = NameOf(w, u)
  BY <1>1 DEF NameOf
<1>2. PICK x : x = EnsureProcess(w, p)
  OBVIOUS
<1>3. Good(x, K) /\ Process(p) \in x.defined /\ Deferring(w, x)
  BY <1>2, EnsureProcessKeeps
<1>4. \A u \in Threads : NameOf(x, u) = NameOf(w, u)
  BY <1>1, <1>3 DEF Deferring
<1>5. CASE key = "process_name"
  <2>1. v = Named(x, Process(p), <<name, p>>)
    BY <1>2, <1>5 DEF WriteMetadata
  <2>2. Process(p) \in DOMAIN x.deferred
    BY <1>3 DEF Good, Hierarchy, Processes
  <2>3. /\ Good(v, K) /\ v.file = x.file
        /\ \A u \in Threads :
             NameOf(v, u) = IF Group(u) = Process(p) THEN <<name, p>> ELSE NameOf(x, u)
    BY <1>3, <2>1, <2>2, NamedKeeps
  <2>4. \A u \in Threads : NameOf(v, u) = NameOf(w, u) /\ ~Names(key, l, t, u)
    BY <1>4, <1>5, <2>3, TracksDiffer DEF Names
  <2>5. QED BY <1>3, <2>3, <2>4 DEF Deferring
<1>6. CASE key = "thread_name" /\ l = "stacks"
  <2>1. PICK y : y = EnsureGroup(w, p, t)
    OBVIOUS
  <2>2. t \in Threads /\ (t \in K => p = ProcessOf[t])
    BY <1>6 DEF Names
  <2>3. Good(y, K) /\ Group(t) \in y.defined /\ Deferring(w, y)
    BY <2>1, <2>2, EnsureGroupKeeps
  <2>4. v = Named(y, Group(t), <<name, t>>)
    BY <1>6, <2>1 DEF WriteMetadata
  <2>5. Group(t) \in DOMAIN y.deferred
    BY <2>2, <2>3 DEF Good, Hierarchy, Groups
  <2>6. /\ Good(v, K) /\ v.file = y.file
        /\ \A u \in Threads :
             NameOf(v, u) = IF Group(u) = Group(t) THEN <<name, t>> ELSE NameOf(y, u)
    BY <2>3, <2>4, <2>5, NamedKeeps
  <2>7. \A u \in Threads : NameOf(y, u) = NameOf(w, u)
    BY <1>1, <2>3 DEF Deferring
  <2>8. \A u \in Threads : /\ u = t => NameOf(v, u) = <<name, u>>
                           /\ u # t => NameOf(v, u) = NameOf(w, u)
    BY <2>6, <2>7, TracksDiffer
  <2>9. \A u : Names(key, l, t, u) <=> u = t
    BY <1>6 DEF Names
  <2>10. QED BY <2>3, <2>6, <2>8, <2>9 DEF Deferring
<1>7. CASE key = "thread_name" /\ l # "stacks"
  <2>1. v = x
    BY <1>2, <1>7 DEF WriteMetadata
  <2>2. \A u : ~Names(key, l, t, u)
    BY <1>7 DEF Names
  <2>3. QED BY <1>3, <1>4, <2>1, <2>2 DEF Deferring
<1>8. CASE key # "process_name" /\ key # "thread_name"
  <2>1. v = w
    BY <1>8 DEF WriteMetadata
  <2>2. \A u : ~Names(key, l, t, u)
    BY <1>8 DEF Names
  <2>3. QED BY <2>1, <2>2
<1>9. QED BY <1>5, <1>6, <1>7, <1>8

-----------------------------------------------------------------------------
(* Loops: a recursive function over the turns exists, so that it has the      *)
(* value its definition gives it, and what each turn keeps the loop keeps.    *)

\* Induction over the turns of a loop, as a fact about sets.
LEMMA Counting ==
  ASSUME NEW n \in Nat, NEW T, 0 \in T, \A i \in 1 .. n : i - 1 \in T => i \in T
  PROVE  \A i \in 0 .. n : i \in T
<1> DEFINE R == OpToRel(<, Nat)
           S == {i \in 0 .. n : i \notin T}
<1>1. IsWellFoundedOn(R, Nat)
  BY NatLessThanWellFounded
<1>2. \A x \in Nat, y \in Nat : y < x => <<y, x>> \in R
  BY DEF OpToRel
<1> HIDE DEF R
<1>3. ASSUME S # {}
      PROVE  FALSE
  <2>1. S \subseteq Nat
    OBVIOUS
  <2>2. PICK x \in S : \A y \in S : ~ (<<y, x>> \in R)
    BY <1>1, <1>3, <2>1, WFMin
  <2>3. x \in 1 .. n /\ x - 1 \in 0 .. n /\ x \in Nat /\ x - 1 \in Nat /\ x - 1 < x
    OBVIOUS
  <2>4. x - 1 \notin S
    BY <1>2, <2>2, <2>3
  <2>5. QED BY <2>2, <2>3, <2>4
<1>4. QED BY <1>3

\* The writer after each turn of the loop.
Turns(f, w, calls) ==
  f = [i \in 0 .. Len(calls) |->
         IF i = 0 THEN w
         ELSE WriteMetadata(f[i - 1], calls[i].key, calls[i].pid, calls[i].lane,
                            calls[i].tid, calls[i].name)]

LEMMA NamesByTurns ==
  ASSUME NEW w, NEW calls, NEW n \in Nat, n = Len(calls)
  PROVE  \E f : Turns(f, w, calls) /\ WriteAllMetadata(w, calls) = f[n]
<1> DEFINE Upto(f, k) ==
             f = [i \in 0 .. k |->
                    IF i = 0 THEN w
                    ELSE WriteMetadata(f[i - 1], calls[i].key, calls[i].pid, calls[i].lane,
                                       calls[i].tid, calls[i].name)]
           T == {k \in 0 .. n : \E f : Upto(f, k)}
<1>1. 0 \in T
  <2>1. PICK f : f = [i \in 0 .. 0 |-> w]
    OBVIOUS
  <2>2. Upto(f, 0)
    BY <2>1
  <2>3. QED BY <2>2
<1>2. ASSUME NEW k \in 1 .. n, k - 1 \in T
      PROVE  k \in T
  <2>1. PICK f : Upto(f, k - 1)
    BY <1>2
  <2>2. PICK v : v = WriteMetadata(f[k - 1], calls[k].key, calls[k].pid, calls[k].lane,
                                   calls[k].tid, calls[k].name)
    OBVIOUS
  <2>3. PICK g : g = [i \in 0 .. k |-> IF i = k THEN v ELSE f[i]]
    OBVIOUS
  <2>4. ASSUME NEW i \in 0 .. k
        PROVE  g[i] = IF i = 0 THEN w
                      ELSE WriteMetadata(g[i - 1], calls[i].key, calls[i].pid, calls[i].lane,
                                         calls[i].tid, calls[i].name)
    <3>1. CASE i = k
      <4>1. i # 0 /\ g[i - 1] = f[k - 1] /\ g[i] = v
        BY <2>3, <3>1
      <4>2. QED BY <2>2, <3>1, <4>1
    <3>2. CASE i \in 0 .. k - 1
      <4>1. g[i] = f[i] /\ (i # 0 => g[i - 1] = f[i - 1])
        BY <2>3, <3>2
      <4>2. QED BY <2>1, <3>2, <4>1
    <3>3. QED BY <3>1, <3>2
  <2>5. Upto(g, k)
    BY <2>3, <2>4
  <2>6. QED BY <2>5
<1>3. n \in T
  <2> HIDE DEF T
  <2>1. \A k \in 1 .. n : k - 1 \in T => k \in T
    BY <1>2
  <2>2. \A k \in 0 .. n : k \in T
    BY <1>1, <2>1, Counting
  <2>3. QED BY <2>2
<1>4. \E f : Turns(f, w, calls)
  BY <1>3 DEF Turns
<1>5. WriteAllMetadata(w, calls) = (CHOOSE f : Turns(f, w, calls))[n]
  BY DEF WriteAllMetadata, Turns
<1>6. QED BY <1>4, <1>5

\* The map after each turn of the loop of set_perf_source.
ForkTurns(f, map, es) ==
  f = [i \in 0 .. Len(es) |-> IF i = 0 THEN map ELSE LearnFork(f[i - 1], es[i])]

LEMMA ForksByTurns ==
  ASSUME NEW map, NEW es, NEW n \in Nat, n = Len(es)
  PROVE  \E f : ForkTurns(f, map, es) /\ LearnForks(map, es) = f[n]
<1> DEFINE Upto(f, k) ==
             f = [i \in 0 .. k |-> IF i = 0 THEN map ELSE LearnFork(f[i - 1], es[i])]
           T == {k \in 0 .. n : \E f : Upto(f, k)}
<1>1. 0 \in T
  <2>1. PICK f : f = [i \in 0 .. 0 |-> map]
    OBVIOUS
  <2>2. Upto(f, 0)
    BY <2>1
  <2>3. QED BY <2>2
<1>2. ASSUME NEW k \in 1 .. n, k - 1 \in T
      PROVE  k \in T
  <2>1. PICK f : Upto(f, k - 1)
    BY <1>2
  <2>2. PICK v : v = LearnFork(f[k - 1], es[k])
    OBVIOUS
  <2>3. PICK g : g = [i \in 0 .. k |-> IF i = k THEN v ELSE f[i]]
    OBVIOUS
  <2>4. ASSUME NEW i \in 0 .. k
        PROVE  g[i] = IF i = 0 THEN map ELSE LearnFork(g[i - 1], es[i])
    <3>1. CASE i = k
      <4>1. i # 0 /\ g[i - 1] = f[k - 1] /\ g[i] = v
        BY <2>3, <3>1
      <4>2. QED BY <2>2, <3>1, <4>1
    <3>2. CASE i \in 0 .. k - 1
      <4>1. g[i] = f[i] /\ (i # 0 => g[i - 1] = f[i - 1])
        BY <2>3, <3>2
      <4>2. QED BY <2>1, <3>2, <4>1
    <3>3. QED BY <3>1, <3>2
  <2>5. Upto(g, k)
    BY <2>3, <2>4
  <2>6. QED BY <2>5
<1>3. n \in T
  <2> HIDE DEF T
  <2>1. \A k \in 1 .. n : k - 1 \in T => k \in T
    BY <1>2
  <2>2. \A k \in 0 .. n : k \in T
    BY <1>1, <2>1, Counting
  <2>3. QED BY <2>2
<1>4. \E f : ForkTurns(f, map, es)
  BY <1>3 DEF ForkTurns
<1>5. LearnForks(map, es) = (CHOOSE f : ForkTurns(f, map, es))[n]
  BY DEF LearnForks, ForkTurns
<1>6. QED BY <1>4, <1>5

\* What a call of write_metadata by write_metadata may be.
GoodCall(c, K) ==
  /\ c.pid \in Pids
  /\ \A u : Names(c.key, c.lane, c.tid, u) =>
               u \in Threads /\ (u \in K => c.pid = ProcessOf[u])

NamesThread(c, u) == Names(c.key, c.lane, c.tid, u)

LEMMA OneTurnKeeps ==
  ASSUME NEW K, NEW w, Good(w, K), NEW c, GoodCall(c, K),
         NEW v, v = WriteMetadata(w, c.key, c.pid, c.lane, c.tid, c.name)
  PROVE  /\ Good(v, K) /\ v.file = w.file
         /\ \A u \in Threads : /\ NamesThread(c, u) => NameOf(v, u) = <<c.name, u>>
                               /\ ~NamesThread(c, u) => NameOf(v, u) = NameOf(w, u)
<1>1. PICK key, p, l, t, name :
        key = c.key /\ p = c.pid /\ l = c.lane /\ t = c.tid /\ name = c.name
  OBVIOUS
<1>2. /\ p \in Pids
      /\ \A u : Names(key, l, t, u) => u \in Threads /\ (u \in K => p = ProcessOf[u])
  BY <1>1 DEF GoodCall
<1>3. v = WriteMetadata(w, key, p, l, t, name)
  BY <1>1
<1>4. Good(v, K)
  BY <1>2, <1>3, WriteMetadataKeeps
<1>5. v.file = w.file
  BY <1>2, <1>3, WriteMetadataKeeps
<1>6. \A u \in Threads : /\ Names(key, l, t, u) => NameOf(v, u) = <<name, u>>
                         /\ ~Names(key, l, t, u) => NameOf(v, u) = NameOf(w, u)
  BY <1>2, <1>3, WriteMetadataKeeps
<1>7. QED BY <1>1, <1>4, <1>5, <1>6 DEF NamesThread

\* The loop keeps the writer's invariant, writes no packet, and leaves a thread either
\* with its former name or with one that a call gave it; with the latter, if there is one.
LEMMA WriteAllKeeps ==
  ASSUME NEW K, NEW w, Good(w, K), NEW calls, NEW n \in Nat, n = Len(calls),
         \A i \in 1 .. n : GoodCall(calls[i], K),
         NEW v, v = WriteAllMetadata(w, calls)
  PROVE  /\ Good(v, K) /\ v.file = w.file
         /\ \A t \in Threads :
              \/ /\ NameOf(v, t) = NameOf(w, t)
                 /\ \A i \in 1 .. n : ~NamesThread(calls[i], t)
              \/ \E i \in 1 .. n : /\ NamesThread(calls[i], t)
                                   /\ NameOf(v, t) = <<calls[i].name, t>>
<1>1. PICK f : Turns(f, w, calls) /\ v = f[n]
  BY NamesByTurns
<1>2. /\ f[0] = w
      /\ \A i \in 1 .. n :
           f[i] = WriteMetadata(f[i - 1], calls[i].key, calls[i].pid, calls[i].lane,
                                calls[i].tid, calls[i].name)
  BY <1>1 DEF Turns
<1> DEFINE NamedBy(k, t) ==
             \/ /\ NameOf(f[k], t) = NameOf(w, t)
                /\ \A i \in 1 .. k : ~NamesThread(calls[i], t)
             \/ \E i \in 1 .. k : /\ NamesThread(calls[i], t)
                                  /\ NameOf(f[k], t) = <<calls[i].name, t>>
           Kept(k) == /\ Good(f[k], K) /\ f[k].file = w.file
                      /\ \A t \in Threads : NamedBy(k, t)
           T == {k \in 0 .. n : Kept(k)}
<1>3. 0 \in T
  BY <1>2
<1>4. ASSUME NEW k \in 1 .. n, k - 1 \in T
      PROVE  k \in T
  <2>1. PICK x, y, c : x = f[k - 1] /\ y = f[k] /\ c = calls[k]
    OBVIOUS
  <2>2. Good(x, K) /\ x.file = w.file /\ \A t \in Threads : NamedBy(k - 1, t)
    BY <1>4, <2>1
  <2>3. y = WriteMetadata(x, c.key, c.pid, c.lane, c.tid, c.name)
    BY <1>2, <2>1
  <2>4. GoodCall(c, K)
    BY <2>1
  <2>5. /\ Good(y, K) /\ y.file = x.file
        /\ \A u \in Threads : /\ NamesThread(c, u) => NameOf(y, u) = <<c.name, u>>
                              /\ ~NamesThread(c, u) => NameOf(y, u) = NameOf(x, u)
    <3> HIDE DEF NamedBy, Kept, T
    <3>1. QED BY <2>2, <2>3, <2>4, OneTurnKeeps
  <2>6. ASSUME NEW t \in Threads
        PROVE  NamedBy(k, t)
    <3>1. CASE NamesThread(c, t)
      <4>1. NameOf(y, t) = <<c.name, t>>
        BY <2>5, <3>1
      <4>2. QED BY <2>1, <3>1, <4>1
    <3>2. CASE ~NamesThread(c, t)
      <4>1. NameOf(y, t) = NameOf(x, t)
        BY <2>5, <3>2
      <4>2. NamedBy(k - 1, t)
        BY <2>2
      <4>3. \A i \in 1 .. k : i \in 1 .. k - 1 \/ i = k
        OBVIOUS
      <4>4. \A i \in 1 .. k - 1 : i \in 1 .. k
        OBVIOUS
      <4>5. QED BY <2>1, <3>2, <4>1, <4>2, <4>3, <4>4
    <3>3. QED BY <3>1, <3>2
  <2>7. QED BY <2>1, <2>2, <2>5, <2>6
<1>5. n \in T
  <2> HIDE DEF T
  <2>1. \A k \in 1 .. n : k - 1 \in T => k \in T
    BY <1>4
  <2>2. \A k \in 0 .. n : k \in T
    BY <1>3, <2>1, Counting
  <2>3. QED BY <2>2
<1>6. QED BY <1>1, <1>5

-----------------------------------------------------------------------------
(* What MergeEngine learns of processes. *)

\* A map from threads to processes; exact if it says of each thread its real process.
TgidMap(map, exact) ==
  /\ DOMAIN map \subseteq Threads
  /\ \A t \in DOMAIN map : map[t] \in Threads /\ (exact => map[t] = ProcessOf[t])

ForkEvent(e, exact) ==
  /\ e.tid \in Threads /\ e.pid \in Threads
  /\ e.childTid \in Threads /\ e.childPid \in Threads
  /\ exact => e.pid = ProcessOf[e.tid] /\ e.childPid = ProcessOf[e.childTid]

LEMMA RealProcess ==
  \A t \in Threads : ProcessOf[t] \in Threads /\ ProcessOf[ProcessOf[t]] = ProcessOf[t]
BY ProcessAssumption DEF ProcessAssumption, MainThreads

LEMMA ForkRecordIsExact ==
  ASSUME NEW f \in Threads \X Threads, NEW exact
  PROVE  ForkEvent(ForkRecord(f[1], f[2]), exact)
<1>1. f[1] \in Threads /\ f[2] \in Threads
  OBVIOUS
<1>2. QED BY <1>1, RealProcess DEF ForkEvent, ForkRecord

LEMMA ForkTracepointIds ==
  ASSUME NEW f \in Threads \X Threads
  PROVE  ForkEvent(ForkTracepoint(f[1], f[2]), FALSE)
<1>1. f[1] \in Threads /\ f[2] \in Threads
  OBVIOUS
<1>2. QED BY <1>1, RealProcess DEF ForkEvent, ForkTracepoint

\* The events of a recording without tracepoints are exact.
LEMMA ForkEventsAre ==
  ASSUME NEW forks \in Seq(Threads \X Threads), NEW tracepoints,
         NEW exact, exact => ~tracepoints,
         NEW es, es = ForkEvents(forks, tracepoints)
  PROVE  Len(es) \in Nat /\ \A i \in 1 .. Len(es) : ForkEvent(es[i], exact)
<1>1. PICK n \in Nat : n = Len(forks)
  OBVIOUS
<1>2. \A i \in 1 .. n : forks[i] \in Threads \X Threads
  BY <1>1
<1>3. CASE ~tracepoints
  <2>1. es = [i \in 1 .. n |-> ForkRecord(forks[i][1], forks[i][2])]
    BY <1>1, <1>3 DEF ForkEvents
  <2>2. Len(es) = n
    BY <2>1
  <2>3. ASSUME NEW i \in 1 .. n
        PROVE  ForkEvent(es[i], exact)
    <3>1. es[i] = ForkRecord(forks[i][1], forks[i][2])
      BY <2>1
    <3>2. QED BY <1>2, <3>1, ForkRecordIsExact
  <2>4. QED BY <2>2, <2>3
<1>4. CASE tracepoints
  <2>1. es = [i \in 1 .. 2 * n |->
                IF i % 2 = 1
                THEN ForkRecord(forks[(i + 1) \div 2][1], forks[(i + 1) \div 2][2])
                ELSE ForkTracepoint(forks[(i + 1) \div 2][1], forks[(i + 1) \div 2][2])]
    BY <1>1, <1>4 DEF ForkEvents
  <2>2. Len(es) = 2 * n
    BY <2>1
  <2>3. ASSUME NEW i \in 1 .. 2 * n
        PROVE  ForkEvent(es[i], exact)
    <3>1. (i + 1) \div 2 \in 1 .. n
      OBVIOUS
    <3>2. PICK f \in Threads \X Threads : f = forks[(i + 1) \div 2]
      BY <1>2, <3>1
    <3>3. es[i] = ForkRecord(f[1], f[2]) \/ es[i] = ForkTracepoint(f[1], f[2])
      BY <2>1, <3>2
    <3>4. ForkEvent(es[i], FALSE)
      BY <3>3, ForkRecordIsExact, ForkTracepointIds
    <3>5. ~exact
      BY <1>4
    <3>6. QED BY <3>4, <3>5 DEF ForkEvent
  <2>4. QED BY <2>2, <2>3
<1>5. QED BY <1>3, <1>4

LEMMA SetKeepsMap ==
  ASSUME NEW exact, NEW map, TgidMap(map, exact), NEW t \in Threads, NEW p \in Threads,
         exact => p = ProcessOf[t], NEW m, m = Set(map, t, p)
  PROVE  TgidMap(m, exact)
<1>1. /\ DOMAIN m = DOMAIN map \cup {t}
      /\ \A x \in DOMAIN m : m[x] = IF x = t THEN p ELSE map[x]
  BY DEF Set
<1>2. QED BY <1>1 DEF TgidMap

LEMMA LearnForkKeeps ==
  ASSUME NEW exact, NEW map, TgidMap(map, exact), NEW e, ForkEvent(e, exact),
         NEW m, m = LearnFork(map, e)
  PROVE  TgidMap(m, exact)
<1>1. PICK t, p, u, q : t = e.childTid /\ p = e.childPid /\ u = e.tid /\ q = e.pid
  OBVIOUS
<1>2. /\ t \in Threads /\ p \in Threads /\ (exact => p = ProcessOf[t])
      /\ u \in Threads /\ q \in Threads /\ (exact => q = ProcessOf[u])
  BY <1>1 DEF ForkEvent
<1>3. PICK c : c = Set(map, t, p)
  OBVIOUS
<1>4. TgidMap(c, exact)
  BY <1>2, <1>3, SetKeepsMap
<1>5. m = Set(c, u, q)
  BY <1>1, <1>3 DEF LearnFork
<1>6. QED BY <1>2, <1>4, <1>5, SetKeepsMap

\* What perf tells of processes is exact if sched_process_fork is not recorded.
LEMMA LearnForksKeeps ==
  ASSUME NEW forks \in Seq(Threads \X Threads), NEW tracepoints,
         NEW exact, exact => ~tracepoints,
         NEW m, m = LearnForks(<<>>, ForkEvents(forks, tracepoints))
  PROVE  TgidMap(m, exact)
<1>1. PICK es : es = ForkEvents(forks, tracepoints)
  OBVIOUS
<1>2. PICK n \in Nat : n = Len(es)
  BY <1>1, ForkEventsAre
<1>3. \A i \in 1 .. n : ForkEvent(es[i], exact)
  BY <1>1, <1>2, ForkEventsAre
<1>4. PICK none : none = <<>>
  OBVIOUS
<1>5. PICK f : ForkTurns(f, none, es) /\ m = f[n]
  BY <1>1, <1>2, <1>4, ForksByTurns
<1>6. f[0] = none /\ \A i \in 1 .. n : f[i] = LearnFork(f[i - 1], es[i])
  <2>1. f = [i \in 0 .. n |-> IF i = 0 THEN none ELSE LearnFork(f[i - 1], es[i])]
    BY <1>2, <1>5 DEF ForkTurns
  <2>2. 0 \in 0 .. n /\ \A i \in 1 .. n : i \in 0 .. n /\ i # 0
    OBVIOUS
  <2>3. f[0] = none
    BY <2>1, <2>2
  <2>4. ASSUME NEW i \in 1 .. n
        PROVE  f[i] = LearnFork(f[i - 1], es[i])
    BY <2>1, <2>2
  <2>5. QED BY <2>3, <2>4
<1>7. m = f[n]
  BY <1>5
<1> DEFINE T == {k \in 0 .. n : TgidMap(f[k], exact)}
<1>8. 0 \in T
  BY <1>4, <1>6 DEF TgidMap
<1>9. ASSUME NEW k \in 1 .. n, k - 1 \in T
      PROVE  k \in T
  <2>1. PICK x, y, e : x = f[k - 1] /\ y = f[k] /\ e = es[k]
    OBVIOUS
  <2>2. TgidMap(x, exact) /\ ForkEvent(e, exact) /\ y = LearnFork(x, e)
    BY <1>3, <1>6, <1>9, <2>1
  <2>3. TgidMap(y, exact)
    BY <2>2, LearnForkKeeps
  <2>4. QED BY <2>1, <2>3
<1>10. n \in T
  <2> HIDE DEF T
  <2>1. \A k \in 1 .. n : k - 1 \in T => k \in T
    BY <1>9
  <2>2. \A k \in 0 .. n : k \in T
    BY <1>8, <2>1, Counting
  <2>3. QED BY <2>2
<1>11. QED BY <1>7, <1>10


-----------------------------------------------------------------------------
(* The calls of write_metadata. *)

\* An enumeration of a set.
Enumerates(f, n, S) ==
  /\ f \in [1 .. n -> S]
  /\ \A x \in S : \E i \in 1 .. n : f[i] = x
  /\ \A i, j \in 1 .. n : f[i] = f[j] => i = j

LEMMA InjectionEnumerates ==
  ASSUME NEW S, IsFiniteSet(S), NEW n \in Nat, n = Cardinality(S),
         NEW f \in [1 .. n -> S], \A i, j \in 1 .. n : f[i] = f[j] => i = j
  PROVE  Enumerates(f, n, S)
<1>1. IsFiniteSet(1 .. n) /\ Cardinality(1 .. n) = n
  BY FS_Interval
<1>2. f \in Injection(1 .. n, S)
  BY DEF Injection, IsInjective
<1>3. f \in Surjection(1 .. n, S)
  BY <1>1, <1>2, FS_Injection
<1>4. \A x \in S : \E i \in 1 .. n : f[i] = x
  BY <1>3 DEF Surjection
<1>5. QED BY <1>4 DEF Enumerates

LEMMA SetToSeqsEnumerates ==
  ASSUME NEW S, IsFiniteSet(S), NEW f \in SetToSeqs(S)
  PROVE  Cardinality(S) \in Nat /\ Enumerates(f, Cardinality(S), S)
<1>1. PICK n \in Nat : n = Cardinality(S)
  BY FS_CardinalityType
<1>2. f \in [1 .. n -> S] /\ \A i, j \in 1 .. n : i # j => f[i] # f[j]
  BY <1>1 DEF SetToSeqs
<1>3. QED BY <1>1, <1>2, InjectionEnumerates

LEMMA SetToSeqEnumerates ==
  ASSUME NEW S, IsFiniteSet(S), NEW f, f = SetToSeq(S)
  PROVE  Cardinality(S) \in Nat /\ Enumerates(f, Cardinality(S), S)
<1>1. PICK n \in Nat : n = Cardinality(S)
  BY FS_CardinalityType
<1>2. PICK g \in Bijection(1 .. n, S) : TRUE
  BY <1>1, FS_CardinalityType DEF ExistsBijection
<1>3. g \in [1 .. n -> S] /\ IsInjective(g)
  BY <1>2 DEF Bijection, Injection
<1>4. f \in [1 .. n -> S] /\ IsInjective(f)
  BY <1>1, <1>3 DEF SetToSeq
<1>5. \A i, j \in 1 .. n : f[i] = f[j] => i = j
  BY <1>4 DEF IsInjective
<1>6. QED BY <1>1, <1>4, <1>5, InjectionEnumerates

\* The threads of which TgidFor knows the real process.
Known == {t \in KnownThreads : TgidFor(t) = ProcessOf[t]}

\* A call of write_metadata that gives a thread perf's name, if any.
Naming(c) ==
  /\ GoodCall(c, Known)
  /\ \A t : NamesThread(c, t) => t \in DOMAIN rec.comm /\ c.name = rec.comm[t]

LEMMA TgidIsThread ==
  ASSUME TgidMap(tidToTgid, FALSE), NEW t \in Threads
  PROVE  TgidFor(t) \in Threads /\ TgidFor(t) \in Pids
BY DEF TgidMap, TgidFor, Pids

LEMMA ThreadIsNaming ==
  ASSUME rec \in Recordings, TgidMap(tidToTgid, FALSE), NEW t \in DOMAIN rec.comm, NEW lane,
         NEW c, c = NameThread(t, lane)
  PROVE  Naming(c) /\ (lane = "stacks" => NamesThread(c, t))
<1>1. t \in Threads
  BY RecordingAssumption DEF RecordingAssumption
<1>2. TgidFor(t) \in Pids
  BY <1>1, TgidIsThread
<1>3. /\ c.key = "thread_name" /\ c.pid = TgidFor(t) /\ c.lane = lane /\ c.tid = t
      /\ c.name = rec.comm[t]
  BY DEF NameThread, MetadataCall
<1>4. \A u : NamesThread(c, u) => u = t
  BY <1>3 DEF NamesThread, Names
<1>5. GoodCall(c, Known)
  BY <1>1, <1>2, <1>3, <1>4 DEF GoodCall, NamesThread, Known
<1>6. lane = "stacks" => NamesThread(c, t)
  BY <1>3 DEF NamesThread, Names
<1>7. QED BY <1>3, <1>4, <1>5, <1>6 DEF Naming

LEMMA ProcessIsNaming ==
  ASSUME NEW p \in Pids, NEW name,
         NEW c, c = MetadataCall("process_name", p, "stacks", 0, name)
  PROVE  Naming(c)
<1>1. c.key = "process_name" /\ c.pid = p
  BY DEF MetadataCall
<1>2. \A u : ~NamesThread(c, u)
  BY <1>1 DEF NamesThread, Names
<1>3. QED BY <1>1, <1>2 DEF Naming, GoodCall, NamesThread

LEMMA CommThreads ==
  ASSUME rec \in Recordings
  PROVE  DOMAIN rec.comm \subseteq Threads /\ IsFiniteSet(DOMAIN rec.comm)
<1>1. DOMAIN rec.comm \subseteq Threads /\ IsFiniteSet(Threads)
  BY RecordingAssumption DEF RecordingAssumption
<1>2. QED BY <1>1, FS_Subset

LEMMA NameThreadsNaming ==
  ASSUME rec \in Recordings, TgidMap(tidToTgid, FALSE),
         NEW order \in SetToSeqs(DOMAIN rec.comm), NEW a, a = NameThreads(order)
  PROVE  \E n \in Nat : /\ a = [i \in 1 .. n |-> a[i]]
                        /\ \A i \in 1 .. n : Naming(a[i])
                        /\ \A t \in DOMAIN rec.comm : \E i \in 1 .. n : NamesThread(a[i], t)
<1>1. PICK n \in Nat : /\ n = Cardinality(DOMAIN rec.comm)
                      /\ Enumerates(order, n, DOMAIN rec.comm)
  BY CommThreads, SetToSeqsEnumerates
<1>2. a = [i \in 1 .. n |-> NameThread(order[i], "stacks")]
  BY <1>1 DEF NameThreads, Enumerates
<1>3. \A i \in 1 .. n : Naming(a[i]) /\ NamesThread(a[i], order[i])
  BY <1>1, <1>2, ThreadIsNaming DEF Enumerates
<1>4. \A t \in DOMAIN rec.comm : \E i \in 1 .. n : NamesThread(a[i], t)
  BY <1>1, <1>3 DEF Enumerates
<1>5. QED BY <1>2, <1>3, <1>4

LEMMA NameProcessesNaming ==
  ASSUME rec \in Recordings, TgidMap(tidToTgid, FALSE), NEW order,
         NEW a, a = NameProcesses(order)
  PROVE  \E n \in Nat : a = [i \in 1 .. n |-> a[i]] /\ \A i \in 1 .. n : Naming(a[i])
<1> DEFINE named == {TgidFor(t) : t \in DOMAIN rec.comm}
           others == {tidToTgid[t] : t \in DOMAIN tidToTgid} \cap DOMAIN rec.comm
           namesake(p) ==
             IF p \in named
             THEN order[CHOOSE i \in DOMAIN order :
                          /\ TgidFor(order[i]) = p
                          /\ \A j \in 1 .. i - 1 : TgidFor(order[j]) # p]
             ELSE p
<1>1. PICK S : S = named \cup others
  OBVIOUS
<1>2. \A p \in S : p \in Threads
  BY <1>1, CommThreads, TgidIsThread
<1>3. IsFiniteSet(S)
  BY <1>2, RecordingAssumption, FS_Subset DEF RecordingAssumption
<1>4. PICK ps : ps = SetToSeq(S)
  OBVIOUS
<1>5. PICK n \in Nat : n = Cardinality(S) /\ Enumerates(ps, n, S)
  BY <1>3, <1>4, SetToSeqEnumerates
<1>6. a = [i \in DOMAIN ps |->
             MetadataCall("process_name", ps[i], "stacks", 0, rec.comm[namesake(ps[i])])]
  BY <1>1, <1>4 DEF NameProcesses
<1>7. DOMAIN ps = 1 .. n /\ \A i \in 1 .. n : ps[i] \in Pids
  BY <1>2, <1>5 DEF Enumerates, Pids
<1> HIDE DEF namesake
<1>8. a = [i \in 1 .. n |->
             MetadataCall("process_name", ps[i], "stacks", 0, rec.comm[namesake(ps[i])])]
  BY <1>6, <1>7
<1>9. \A i \in 1 .. n : Naming(a[i])
  BY <1>7, <1>8, ProcessIsNaming
<1>10. QED BY <1>8, <1>9

LEMMA NameLanesNaming ==
  ASSUME rec \in Recordings, TgidMap(tidToTgid, FALSE), NEW a, a = NameLanes
  PROVE  \E n \in Nat : a = [i \in 1 .. n |-> a[i]] /\ \A i \in 1 .. n : Naming(a[i])
<1>1. PICK S : S = (Lanes \ {"stacks"}) \X DOMAIN rec.comm
  OBVIOUS
<1>2. IsFiniteSet(S)
  <2>1. \A x, y, z : IsFiniteSet({x, y, z})
    <3> TAKE x, y, z
    <3>1. IsFiniteSet({} \cup {x})
      BY FS_EmptySet, FS_AddElement
    <3>2. IsFiniteSet(({} \cup {x}) \cup {y})
      BY <3>1, FS_AddElement
    <3>3. IsFiniteSet((({} \cup {x}) \cup {y}) \cup {z})
      BY <3>2, FS_AddElement
    <3>4. (({} \cup {x}) \cup {y}) \cup {z} = {x, y, z}
      OBVIOUS
    <3>5. QED BY <3>3, <3>4
  <2>2. IsFiniteSet(Lanes \ {"stacks"})
    <3>1. PICK x, y, z : x = "sched" /\ y = "gil" /\ z = "gpu"
      OBVIOUS
    <3>2. Lanes \ {"stacks"} = {x, y, z}
      BY <3>1 DEF Lanes
    <3>3. PICK A : A = {x, y, z}
      OBVIOUS
    <3>4. IsFiniteSet(A)
      BY <2>1, <3>3
    <3>5. QED BY <3>2, <3>3, <3>4
  <2>3. PICK A, B : A = Lanes \ {"stacks"} /\ B = DOMAIN rec.comm
    OBVIOUS
  <2>4. IsFiniteSet(A) /\ IsFiniteSet(B)
    BY <2>2, <2>3, CommThreads
  <2>5. IsFiniteSet(A \X B)
    BY <2>4, FS_Product
  <2>6. QED BY <1>1, <2>3, <2>5
<1>3. PICK ls : ls = SetToSeq(S)
  OBVIOUS
<1>4. PICK n \in Nat : n = Cardinality(S) /\ Enumerates(ls, n, S)
  BY <1>2, <1>3, SetToSeqEnumerates
<1>5. DOMAIN ls = 1 .. n /\ \A i \in 1 .. n : ls[i][2] \in DOMAIN rec.comm
  BY <1>1, <1>4 DEF Enumerates
<1>6. a = [i \in 1 .. n |-> NameThread(ls[i][2], ls[i][1])]
  BY <1>1, <1>3, <1>5 DEF NameLanes
<1>7. \A i \in 1 .. n : Naming(a[i])
  BY <1>5, <1>6, ThreadIsNaming
<1>8. QED BY <1>6, <1>7

LEMMA ThreeInOne ==
  ASSUME NEW S, NEW a \in Seq(S), NEW b \in Seq(S), NEW c \in Seq(S),
         NEW s, s = a \o b \o c
  PROVE  /\ Len(s) \in Nat /\ Len(a) <= Len(s)
         /\ \A i \in 1 .. Len(s) : s[i] \in S
         /\ \A i \in 1 .. Len(a) : s[i] = a[i]
<1>1. PICK d : d = a \o b /\ s = d \o c
  OBVIOUS
<1>2. /\ d \in Seq(S) /\ Len(d) = Len(a) + Len(b)
      /\ \A i \in 1 .. Len(a) + Len(b) : d[i] = IF i <= Len(a) THEN a[i] ELSE b[i - Len(a)]
  BY <1>1, ConcatProperties
<1>3. /\ s \in Seq(S) /\ Len(s) = Len(d) + Len(c)
      /\ \A i \in 1 .. Len(d) + Len(c) : s[i] = IF i <= Len(d) THEN d[i] ELSE c[i - Len(d)]
  BY <1>1, <1>2, ConcatProperties
<1>4. Len(a) \in Nat /\ Len(b) \in Nat /\ Len(c) \in Nat /\ Len(s) \in Nat
  BY <1>3, LenProperties
<1>5. QED BY <1>2, <1>3, <1>4, ElementOfSeq

\* Every call of write_metadata is of a thread or process that perf names, and every thread
\* that perf names is named.
LEMMA CallsName ==
  ASSUME rec \in Recordings, TgidMap(tidToTgid, FALSE),
         NEW order \in SetToSeqs(DOMAIN rec.comm),
         NEW calls, calls = NameThreads(order) \o NameProcesses(order) \o NameLanes
  PROVE  /\ Len(calls) \in Nat
         /\ \A i \in 1 .. Len(calls) : Naming(calls[i])
         /\ \A t \in DOMAIN rec.comm : \E i \in 1 .. Len(calls) : NamesThread(calls[i], t)
<1>1. PICK a, b, c : a = NameThreads(order) /\ b = NameProcesses(order) /\ c = NameLanes
  OBVIOUS
<1>2. PICK k \in Nat : /\ a = [i \in 1 .. k |-> a[i]] /\ \A i \in 1 .. k : Naming(a[i])
                       /\ \A t \in DOMAIN rec.comm : \E i \in 1 .. k : NamesThread(a[i], t)
  BY <1>1, NameThreadsNaming
<1>3. PICK m \in Nat : b = [i \in 1 .. m |-> b[i]] /\ \A i \in 1 .. m : Naming(b[i])
  BY <1>1, NameProcessesNaming
<1>4. PICK n \in Nat : c = [i \in 1 .. n |-> c[i]] /\ \A i \in 1 .. n : Naming(c[i])
  BY <1>1, NameLanesNaming
<1> DEFINE S == {x \in {a[i] : i \in 1 .. k} \cup {b[i] : i \in 1 .. m}
                         \cup {c[i] : i \in 1 .. n} : Naming(x)}
<1>5. a \in [1 .. k -> S] /\ b \in [1 .. m -> S] /\ c \in [1 .. n -> S]
  BY <1>2, <1>3, <1>4
<1>6. \A x \in S : Naming(x)
  OBVIOUS
<1> HIDE DEF S
<1>7. a \in Seq(S) /\ b \in Seq(S) /\ c \in Seq(S) /\ Len(a) = k
  BY <1>5
<1>8. calls = a \o b \o c
  BY <1>1
<1>9. /\ Len(calls) \in Nat /\ Len(a) <= Len(calls)
      /\ \A i \in 1 .. Len(calls) : calls[i] \in S
      /\ \A i \in 1 .. Len(a) : calls[i] = a[i]
  BY <1>7, <1>8, ThreeInOne
<1>10. \A t \in DOMAIN rec.comm : \E i \in 1 .. Len(calls) : NamesThread(calls[i], t)
  <2> PICK l \in Nat : l = Len(calls)
    BY <1>9
  <2>1. k <= l /\ \A i \in 1 .. k : i \in 1 .. l /\ calls[i] = a[i]
    BY <1>7, <1>9
  <2>2. QED BY <1>2, <2>1
<1>11. QED BY <1>6, <1>9, <1>10

-----------------------------------------------------------------------------
(* The end of the file. *)

\* The descriptor of a process or a group.
Flushed(w, x) ==
  Descriptor(x, w.deferred[x], IF x \in DOMAIN w.names THEN w.names[x] ELSE FallbackName(x))

\* g is f and the descriptors of the deferred tracks.
Flushing(w, f, g, n, k) ==
  /\ f \in Seq(Range(f)) /\ n = Len(f) /\ Len(g) = n + k
  /\ \A i \in 1 .. n : g[i] = f[i]
  /\ \A i \in n + 1 .. n + k : \E x \in DOMAIN w.deferred : g[i] = Flushed(w, x)
  /\ \A x \in DOMAIN w.deferred : \E i \in n + 1 .. n + k : g[i] = Flushed(w, x)
  /\ \A i, j \in n + 1 .. n + k : g[i] = g[j] => i = j

LEMMA FiniteTracks ==
  IsFiniteSet(Processes \cup Groups)
<1>1. IsFiniteSet(Threads) /\ IsFiniteSet(Pids)
  BY RecordingAssumption, FS_AddElement DEF RecordingAssumption, Pids
<1>2. IsFiniteSet(Processes)
  <2>1. [p \in Pids |-> Process(p)] \in Surjection(Pids, Processes)
    BY DEF Surjection, Processes
  <2>2. QED BY <1>1, <2>1, FS_Surjection
<1>3. IsFiniteSet(Groups)
  <2>1. [t \in Threads |-> Group(t)] \in Surjection(Threads, Groups)
    BY DEF Surjection, Groups
  <2>2. QED BY <1>1, <2>1, FS_Surjection
<1>4. QED BY <1>2, <1>3, FS_Union

LEMMA FinalizeFlushes ==
  ASSUME NEW K, NEW w, Good(w, K), NEW v, v = Finalize(w)
  PROVE  /\ \E n, k \in Nat : Flushing(w, w.file, v.file, n, k)
         /\ v.deferred = <<>> /\ v.names = <<>>
         /\ v.defined = w.defined /\ v.iids = w.iids /\ v.cleared = w.cleared
         /\ v.counters = w.counters
<1>1. DOMAIN w = {"defined", "deferred", "names", "iids", "cleared", "counters", "file"}
  BY DEF Good, Fields
<1>2. PICK S : S = {Flushed(w, x) : x \in DOMAIN w.deferred}
  OBVIOUS
<1>3. PICK q : q = SetToSeq(S)
  OBVIOUS
<1>4. v = [w EXCEPT !.file = @ \o q, !.deferred = <<>>, !.names = <<>>]
  BY <1>2, <1>3 DEF Finalize, Flushed
<1>5. /\ v.file = w.file \o q /\ v.deferred = <<>> /\ v.names = <<>>
      /\ v.defined = w.defined /\ v.iids = w.iids /\ v.cleared = w.cleared
      /\ v.counters = w.counters
  BY <1>1, <1>4
<1>6. IsFiniteSet(S)
  <2>1. PICK D : D = DOMAIN w.deferred
    OBVIOUS
  <2>2. D \subseteq Processes \cup Groups
    BY <2>1 DEF Good, Hierarchy
  <2>3. IsFiniteSet(D)
    BY <2>2, FiniteTracks, FS_Subset
  <2>4. PICK h : h = [x \in D |-> Flushed(w, x)]
    OBVIOUS
  <2>5. h \in Surjection(D, S)
    BY <1>2, <2>1, <2>4 DEF Surjection
  <2>6. QED BY <2>3, <2>5, FS_Surjection
<1>7. PICK k \in Nat : k = Cardinality(S) /\ Enumerates(q, k, S)
  BY <1>3, <1>6, SetToSeqEnumerates
<1>8. PICK f, g : f = w.file /\ g = v.file
  OBVIOUS
<1>9. f \in Seq(Range(f)) /\ g = f \o q
  BY <1>5, <1>8 DEF Good, Fields
<1>10. PICK n \in Nat : n = Len(f)
  BY <1>9, LenProperties
<1>11. /\ Len(g) = n + k
       /\ \A i \in 1 .. n + k : g[i] = IF i <= n THEN f[i] ELSE q[i - n]
  <2>1. PICK R : R = Range(f) \cup S
    OBVIOUS
  <2>2. f \in Seq(R)
    BY <1>9, <2>1, SeqMonotonic
  <2>3. q \in [1 .. k -> R]
    BY <1>7, <2>1 DEF Enumerates
  <2>4. q \in Seq(R) /\ Len(q) = k
    BY <2>3
  <2>5. QED BY <1>9, <1>10, <2>2, <2>4, ConcatProperties
<1>12. \A i \in n + 1 .. n + k : i - n \in 1 .. k /\ g[i] = q[i - n] /\ i \in 1 .. n + k
  BY <1>11
<1>13. \A j \in 1 .. k : n + j \in n + 1 .. n + k /\ g[n + j] = q[j]
  BY <1>11
<1>14. \A i \in n + 1 .. n + k : \E x \in DOMAIN w.deferred : g[i] = Flushed(w, x)
  BY <1>2, <1>7, <1>12 DEF Enumerates
<1>15. ASSUME NEW x \in DOMAIN w.deferred
       PROVE  \E i \in n + 1 .. n + k : g[i] = Flushed(w, x)
  <2>1. PICK s : s = Flushed(w, x)
    OBVIOUS
  <2>2. s \in S
    BY <1>2, <2>1
  <2>3. PICK j \in 1 .. k : q[j] = s
    BY <1>7, <2>2 DEF Enumerates
  <2>4. n + j \in n + 1 .. n + k /\ g[n + j] = s
    BY <1>13, <2>3
  <2>5. QED BY <2>1, <2>4
<1>16. \A i, j \in n + 1 .. n + k : g[i] = g[j] => i = j
  BY <1>7, <1>12 DEF Enumerates
<1>17. \A i \in 1 .. n : g[i] = f[i]
  BY <1>11
<1>18. Flushing(w, f, g, n, k)
  BY <1>9, <1>10, <1>11, <1>14, <1>15, <1>16, <1>17 DEF Flushing
<1>19. QED BY <1>5, <1>8, <1>18

\* A finished file has the events of the file before.
LEMMA SameEvents ==
  ASSUME NEW w, NEW f, NEW g, NEW n \in Nat, NEW k \in Nat, Flushing(w, f, g, n, k)
  PROVE  /\ \A i \in 1 .. n + k : IsEvent(g, i) => i \in 1 .. n /\ IsEvent(f, i) /\ g[i] = f[i]
         /\ \A i \in 1 .. n : i \in 1 .. n + k /\ (IsEvent(f, i) => IsEvent(g, i))
<1>1. /\ n = Len(f) /\ Len(g) = n + k
      /\ \A i \in 1 .. n : g[i] = f[i]
  BY DEF Flushing
<1>2. ASSUME NEW i \in n + 1 .. n + k
      PROVE  ~IsEvent(g, i)
  <2>1. PICK x \in DOMAIN w.deferred : g[i] = Flushed(w, x)
    BY DEF Flushing
  <2>2. QED BY <2>1 DEF Flushed, Descriptor, IsEvent
<1>3. \A i \in 1 .. n + k : i \in 1 .. n \/ i \in n + 1 .. n + k
  OBVIOUS
<1>4. \A i \in 1 .. n : i \in 1 .. n + k
  OBVIOUS
<1>5. \A i \in 1 .. n : IsEvent(f, i) <=> IsEvent(g, i)
  BY <1>1, <1>4 DEF IsEvent
<1>6. QED BY <1>1, <1>2, <1>3, <1>4, <1>5

LEMMA StaysInterned ==
  ASSUME NEW w, NEW f, NEW g, NEW n \in Nat, NEW k \in Nat, Flushing(w, f, g, n, k),
         NEW iids, Interned(iids, f)
  PROVE  Interned(iids, g)
<1>1. n = Len(f) /\ Len(g) = n + k
  BY DEF Flushing
<1>2. \A i \in 1 .. n + k : IsEvent(g, i) => i \in 1 .. n /\ IsEvent(f, i) /\ g[i] = f[i]
  BY SameEvents
<1>3. \A i \in 1 .. n : i \in 1 .. n + k /\ (IsEvent(f, i) => IsEvent(g, i))
  BY SameEvents
<1>4. ASSUME NEW m \in DOMAIN iids
      PROVE  DefinedOnce(g, iids[m], m)
  <2>1. PICK j \in 1 .. n : /\ Defines(f, j, iids[m], m)
                            /\ \A i \in 1 .. n :
                                 /\ Defines(f, i, iids[m], m) => i = j
                                 /\ IsEvent(f, i) /\ f[i].iid = iids[m] => j <= i
    BY <1>1 DEF Interned, DefinedOnce
  <2>2. IsEvent(g, j) /\ g[j] = f[j]
    BY <1>2, <1>3, <2>1 DEF Defines
  <2>3. Defines(g, j, iids[m], m)
    BY <2>1, <2>2 DEF Defines
  <2>4. ASSUME NEW i \in 1 .. n + k
        PROVE  /\ Defines(g, i, iids[m], m) => i = j
               /\ IsEvent(g, i) /\ g[i].iid = iids[m] => j <= i
    BY <1>2, <2>1 DEF Defines
  <2>5. QED BY <1>1, <1>3, <2>3, <2>4 DEF DefinedOnce
<1>5. ASSUME NEW i \in 1 .. n + k, IsEvent(g, i)
      PROVE  /\ g[i].iid = 0 \/ \E m \in DOMAIN iids : g[i].iid = iids[m]
             /\ \A d \in g[i].interned : \E m \in DOMAIN iids : d = <<iids[m], m>>
  <2>1. i \in 1 .. n /\ IsEvent(f, i) /\ g[i] = f[i]
    BY <1>2, <1>5
  <2>2. QED BY <1>1, <2>1 DEF Interned
<1>6. QED BY <1>1, <1>4, <1>5 DEF Interned

LEMMA StaysCleared ==
  ASSUME NEW w, NEW f, NEW g, NEW n \in Nat, NEW k \in Nat, Flushing(w, f, g, n, k),
         NEW cleared, ClearedOnce(cleared, f)
  PROVE  ClearedOnce(cleared, g)
<1>1. n = Len(f) /\ Len(g) = n + k
  BY DEF Flushing
<1>2. \A i \in 1 .. n + k : IsEvent(g, i) => i \in 1 .. n /\ IsEvent(f, i) /\ g[i] = f[i]
  BY SameEvents
<1>3. \A i \in 1 .. n : i \in 1 .. n + k /\ (IsEvent(f, i) => IsEvent(g, i))
  BY SameEvents
<1>4. cleared <=> \E i \in 1 .. n + k : IsEvent(g, i)
  BY <1>1, <1>2, <1>3 DEF ClearedOnce
<1>5. ASSUME NEW i \in 1 .. n + k, IsEvent(g, i)
      PROVE  g[i].cleared <=> \A j \in 1 .. n + k : IsEvent(g, j) => i <= j
  <2>1. i \in 1 .. n /\ IsEvent(f, i) /\ g[i] = f[i]
    BY <1>2, <1>5
  <2>2. f[i].cleared <=> \A j \in 1 .. n : IsEvent(f, j) => i <= j
    BY <1>1, <2>1 DEF ClearedOnce
  <2>3. (\A j \in 1 .. n : IsEvent(f, j) => i <= j)
          <=> \A j \in 1 .. n + k : IsEvent(g, j) => i <= j
    BY <1>2, <1>3
  <2>4. QED BY <2>1, <2>2, <2>3
<1>6. QED BY <1>1, <1>4, <1>5 DEF ClearedOnce

LEMMA SameEventTracks ==
  ASSUME NEW w, NEW f, NEW g, NEW n \in Nat, NEW k \in Nat, Flushing(w, f, g, n, k)
  PROVE  EventTracks(g) = EventTracks(f)
<1>1. n = Len(f) /\ Len(g) = n + k
  BY DEF Flushing
<1>2. \A i \in 1 .. n + k : IsEvent(g, i) => i \in 1 .. n /\ IsEvent(f, i) /\ g[i] = f[i]
  BY SameEvents
<1>3. \A i \in 1 .. n : i \in 1 .. n + k /\ (IsEvent(f, i) => IsEvent(g, i))
  BY SameEvents
<1>4. EventTracks(g) \subseteq EventTracks(f)
  BY <1>1, <1>2 DEF EventTracks
<1>5. EventTracks(f) \subseteq EventTracks(g)
  BY <1>1, <1>2, <1>3 DEF EventTracks
<1>6. QED BY <1>4, <1>5

\* A track of the file before is described as it was.
LEMMA KeepsDescription ==
  ASSUME NEW w, NEW f, NEW g, NEW n \in Nat, NEW k \in Nat, Flushing(w, f, g, n, k),
         NEW x, NEW parent, DescribedOnce(f, x, parent), x \notin DOMAIN w.deferred
  PROVE  DescribedOnce(g, x, parent)
<1>1. /\ n = Len(f) /\ Len(g) = n + k
      /\ \A i \in 1 .. n : g[i] = f[i] /\ i \in 1 .. n + k
  BY DEF Flushing
<1>2. PICK i \in 1 .. n : /\ Describes(f, i, x) /\ f[i].parent = parent
                          /\ \A j \in 1 .. n : Describes(f, j, x) => i = j
  BY <1>1 DEF DescribedOnce
<1>3. \A j \in 1 .. n : Describes(g, j, x) <=> Describes(f, j, x)
  BY <1>1 DEF Describes
<1>4. ASSUME NEW j \in n + 1 .. n + k
      PROVE  ~Describes(g, j, x)
  <2>1. PICK y \in DOMAIN w.deferred : g[j] = Flushed(w, y)
    BY DEF Flushing
  <2>2. g[j].track = y
    BY <2>1 DEF Flushed, Descriptor
  <2>3. QED BY <2>2 DEF Describes
<1>5. \A j \in 1 .. n + k : j \in 1 .. n \/ j \in n + 1 .. n + k
  OBVIOUS
<1>6. Describes(g, i, x) /\ g[i].parent = parent /\ i \in 1 .. n + k
  BY <1>1, <1>2, <1>3
<1>7. \A j \in 1 .. n + k : Describes(g, j, x) => i = j
  BY <1>2, <1>3, <1>4, <1>5
<1>8. QED BY <1>1, <1>6, <1>7 DEF DescribedOnce

\* A deferred track is described once.
LEMMA GetsDescription ==
  ASSUME NEW w, NEW f, NEW g, NEW n \in Nat, NEW k \in Nat, Flushing(w, f, g, n, k),
         NEW x \in DOMAIN w.deferred, \A i \in 1 .. n : f[i].track # x
  PROVE  DescribedOnce(g, x, w.deferred[x])
<1>1. /\ Len(g) = n + k
      /\ \A i \in 1 .. n : g[i] = f[i]
  BY DEF Flushing
<1>2. PICK i \in n + 1 .. n + k : g[i] = Flushed(w, x)
  BY DEF Flushing
<1>3. g[i].packet = "descriptor" /\ g[i].track = x /\ g[i].parent = w.deferred[x]
  BY <1>2 DEF Flushed, Descriptor
<1>4. i \in 1 .. n + k /\ Describes(g, i, x)
  BY <1>1, <1>3 DEF Describes
<1>5. ASSUME NEW j \in 1 .. n, Describes(g, j, x)
      PROVE  FALSE
  BY <1>1, <1>5 DEF Describes
<1>6. ASSUME NEW j \in n + 1 .. n + k, Describes(g, j, x)
      PROVE  i = j
  <2>1. PICK y \in DOMAIN w.deferred : g[j] = Flushed(w, y)
    BY DEF Flushing
  <2>2. g[j].track = y
    BY <2>1 DEF Flushed, Descriptor
  <2>3. y = x
    BY <1>6, <2>2 DEF Describes
  <2>4. QED BY <1>2, <2>1, <2>3 DEF Flushing
<1>7. \A j \in 1 .. n + k : j \in 1 .. n \/ j \in n + 1 .. n + k
  OBVIOUS
<1>8. \A j \in 1 .. n + k : Describes(g, j, x) => i = j
  BY <1>5, <1>6, <1>7
<1>9. QED BY <1>1, <1>3, <1>4, <1>8 DEF DescribedOnce

\* The track of every event, its parent and all above it are described once.
Hung(g) ==
  \A x \in EventTracks(g) :
    \E p, q, r : /\ DescribedOnce(g, x, p) /\ DescribedOnce(g, p, q)
                 /\ q = Root \/ DescribedOnce(g, q, r)

LEMMA EventTrackIs ==
  ASSUME NEW K, NEW w, Good(w, K), NEW x \in EventTracks(w.file)
  PROVE  \/ \E l \in Lanes, t \in Threads : x = Lane(l, t) /\ Lane(l, t) \in w.defined
         \/ \E m \in Metrics : m \in w.counters /\ x = CounterTrack(m)
<1>1. PICK i \in 1 .. Len(w.file) : x = w.file[i].track
  BY DEF EventTracks
<1>2. \/ w.file[i].track \in w.defined \cap LaneTracks
      \/ \E m \in w.counters : w.file[i].track = CounterTrack(m)
  BY DEF Good, Described
<1>3. CASE x \in w.defined \cap LaneTracks
  BY <1>3 DEF LaneTracks
<1>4. CASE \E m \in w.counters : x = CounterTrack(m)
  BY <1>4 DEF Good
<1>5. QED BY <1>1, <1>2, <1>3, <1>4

LEMMA EventsHung ==
  ASSUME NEW K, NEW w, Good(w, K), NEW v, v = Finalize(w)
  PROVE  Hung(v.file)
<1>1. PICK f, g : f = w.file /\ g = v.file
  OBVIOUS
<1>2. PICK n \in Nat, k \in Nat : Flushing(w, f, g, n, k)
  BY <1>1, FinalizeFlushes
<1>3. EventTracks(g) = EventTracks(f)
  BY <1>2, SameEventTracks
<1>4. \A x \in Processes \cup Groups : \A i \in 1 .. n : f[i].track # x
  <2>1. \A i \in 1 .. n : \/ f[i].track \in LaneTracks
                          \/ \E m \in w.counters : f[i].track = CounterTrack(m)
    BY <1>1, <1>2 DEF Flushing, Good, Described
  <2>2. \A x \in LaneTracks : x \notin Processes \cup Groups
    BY TracksDiffer DEF LaneTracks
  <2>3. QED BY <2>1, <2>2, TracksDiffer
<1>5. \A x \in DOMAIN w.deferred : DescribedOnce(g, x, w.deferred[x])
  <2>1. \A x \in DOMAIN w.deferred : x \in Processes \cup Groups
    BY DEF Good, Hierarchy
  <2>2. QED BY <1>2, <1>4, <2>1, GetsDescription
<1>6. \A p \in Pids : Process(p) \in w.defined => DescribedOnce(g, Process(p), Root)
  <2>1. \A p \in Pids : Process(p) \in w.defined => /\ Process(p) \in DOMAIN w.deferred
                                                     /\ w.deferred[Process(p)] = Root
    BY DEF Good, Hierarchy, Processes
  <2>2. QED BY <1>5, <2>1
<1>7. ASSUME NEW l \in Lanes, NEW t \in Threads, Lane(l, t) \in w.defined
      PROVE  \E p, q, r : /\ DescribedOnce(g, Lane(l, t), p) /\ DescribedOnce(g, p, q)
                          /\ q = Root \/ DescribedOnce(g, q, r)
  <2>1. DescribedOnce(f, Lane(l, t), Group(t))
    BY <1>1, <1>7 DEF Good, Described
  <2>2. Lane(l, t) \notin DOMAIN w.deferred
    BY TracksDiffer DEF Good, Hierarchy
  <2>3. DescribedOnce(g, Lane(l, t), Group(t))
    BY <1>2, <2>1, <2>2, KeepsDescription
  <2>4. Group(t) \in w.defined /\ Group(t) \in DOMAIN w.deferred
    BY <1>7 DEF Good, Hierarchy, Groups
  <2>5. PICK p \in Pids : w.deferred[Group(t)] = Process(p) /\ Process(p) \in w.defined
    BY <2>4 DEF Good, Hierarchy
  <2>6. DescribedOnce(g, Group(t), Process(p))
    BY <1>5, <2>4, <2>5
  <2>7. QED BY <1>6, <2>3, <2>5, <2>6
<1>8. ASSUME NEW m \in w.counters
      PROVE  \E p, q, r : /\ DescribedOnce(g, CounterTrack(m), p) /\ DescribedOnce(g, p, q)
                          /\ q = Root \/ DescribedOnce(g, q, r)
  <2>1. DescribedOnce(f, CounterTrack(m), Process(0))
    BY <1>1, <1>8 DEF Good, Described
  <2>2. CounterTrack(m) \notin DOMAIN w.deferred
    BY TracksDiffer DEF Good, Hierarchy
  <2>3. DescribedOnce(g, CounterTrack(m), Process(0))
    BY <1>2, <2>1, <2>2, KeepsDescription
  <2>4. 0 \in Pids /\ Process(0) \in w.defined
    BY <1>8 DEF Good, Pids
  <2>5. QED BY <1>6, <2>3, <2>4
<1>9. ASSUME NEW x \in EventTracks(g)
      PROVE  \E p, q, r : /\ DescribedOnce(g, x, p) /\ DescribedOnce(g, p, q)
                          /\ q = Root \/ DescribedOnce(g, q, r)
  <2>1. \/ \E l \in Lanes, t \in Threads : x = Lane(l, t) /\ Lane(l, t) \in w.defined
        \/ \E m \in Metrics : m \in w.counters /\ x = CounterTrack(m)
    BY <1>1, <1>3, <1>9, EventTrackIs
  <2>2. QED BY <1>7, <1>8, <2>1
<1>10. QED BY <1>1, <1>9 DEF Hung

\* The descriptor of a thread group, e: below a process of its own thread and with the
\* name the thread had.
GroupDescriptor(e, w, K) ==
  \E t \in Threads : /\ e.track = Group(t) /\ e.name = NameOf(w, t)
                     /\ t \in K => e.parent = Process(ProcessOf[t])

LEMMA GroupsClosed ==
  ASSUME NEW K, NEW w, Good(w, K), NEW v, v = Finalize(w),
         NEW i \in 1 .. Len(v.file), v.file[i].packet = "descriptor",
         v.file[i].track[1] = "group"
  PROVE  GroupDescriptor(v.file[i], w, K)
<1>1. PICK f, g : f = w.file /\ g = v.file
  OBVIOUS
<1>2. PICK n \in Nat, k \in Nat : Flushing(w, f, g, n, k)
  BY <1>1, FinalizeFlushes
<1>3. PICK e : e = g[i]
  OBVIOUS
<1>4. i \in 1 .. n \/ i \in n + 1 .. n + k
  BY <1>1, <1>2 DEF Flushing
<1>5. CASE i \in 1 .. n
  <2>1. e.track \in LaneTracks \/ \E m \in w.counters : e.track = CounterTrack(m)
    BY <1>1, <1>2, <1>3, <1>5 DEF Flushing, Good, Described
  <2>2. \A x \in LaneTracks : x[1] # "group"
    BY DEF LaneTracks, Lane, Lanes
  <2>3. \A m : CounterTrack(m)[1] # "group"
    BY DEF CounterTrack
  <2>4. QED BY <1>1, <1>3, <2>1, <2>2, <2>3
<1>6. CASE i \in n + 1 .. n + k
  <2>1. PICK x \in DOMAIN w.deferred : e = Flushed(w, x)
    BY <1>2, <1>3, <1>6 DEF Flushing
  <2>2. /\ e.track = x /\ e.parent = w.deferred[x]
        /\ e.name = IF x \in DOMAIN w.names THEN w.names[x] ELSE FallbackName(x)
    BY <2>1 DEF Flushed, Descriptor
  <2>3. x \in w.defined /\ x \in Processes \cup Groups
    BY DEF Good, Hierarchy
  <2>4. \A y \in Processes : y[1] # "group"
    BY DEF Processes, Process
  <2>5. PICK t \in Threads : x = Group(t)
    BY <1>1, <1>3, <2>2, <2>3, <2>4 DEF Groups
  <2>6. t \in K => e.parent = Process(ProcessOf[t])
    BY <2>2, <2>3, <2>5 DEF Good, Hierarchy
  <2>7. e.name = NameOf(w, t)
    BY <2>2, <2>5 DEF NameOf
  <2>8. GroupDescriptor(e, w, K)
    BY <2>2, <2>5, <2>6, <2>7 DEF GroupDescriptor
  <2>9. QED BY <1>1, <1>3, <2>8
<1>7. QED BY <1>4, <1>5, <1>6

-----------------------------------------------------------------------------
(* The invariant. *)

\* The events of thread t pass the filters, whatever tells its process.
Passes(t) == PassesFilter(ProcessOf[t]) /\ PassesNameFilter(t)

\* The metadata records that the merge has come to give thread t this name, or, if none of
\* them names it, perf does, or nothing does.
LastName(t, name) ==
  LET announced == {k \in 1 .. vizNext - 1 : Announces(k, t)}
  IN  /\ announced = {} =>
           name = IF t \in DOMAIN rec.comm THEN <<rec.comm[t], t>> ELSE FallbackName(Group(t))
      /\ \A k \in announced :
           (\A j \in announced : j <= k) => name = <<rec.vizNames[k].name, t>>

\* The thread groups of a finished file.
GroupsShown(file) ==
  \A i \in 1 .. Len(file) :
    file[i].packet = "descriptor" /\ file[i].track[1] = "group" =>
      \E t \in Threads : /\ file[i].track = Group(t) /\ LastName(t, file[i].name)
                         /\ t \in Known => file[i].parent = Process(ProcessOf[t])

\* The writer after finalize.
Finished(w) ==
  /\ w.defined \subseteq Processes \cup Groups \cup LaneTracks
  /\ w.deferred = <<>> /\ w.names = <<>>
  /\ w.counters \subseteq Metrics /\ w.cleared \in BOOLEAN
  /\ Hung(w.file) /\ Interned(w.iids, w.file) /\ ClearedOnce(w.cleared, w.file)

MapsKept ==
  /\ rec \in Recordings
  /\ TgidMap(tidToTgid, FALSE) /\ (~rec.tracepoints => TgidMap(tidToTgid, TRUE))
  /\ dropped \subseteq Threads
  /\ vizNext \in 1 .. Len(rec.vizNames) + 1
  /\ phase \in {"load", "viz", "metrics", "names", "merge", "late", "done"}

\* What holds in each phase.
PhaseKept ==
  /\ phase \in {"load", "viz"} => writer = NewWriter /\ dropped = {}
  /\ phase = "load" => tidToTgid = <<>>
  /\ phase \in {"metrics", "names"} => writer.names = <<>>
  /\ phase \in {"load", "viz", "metrics", "names"} => vizNext = 1
  /\ phase \in {"merge", "late"} => \A t \in Threads : LastName(t, NameOf(writer, t))
  /\ phase \in {"late", "done"} => vizNext = Len(rec.vizNames) + 1

\* Of a thread whose process is known either no event is dropped or none is written.
FilterKept ==
  /\ EventTracks(writer.file) \subseteq LaneTracks \cup {CounterTrack(m) : m \in Metrics}
  /\ \A t \in Known :
       /\ t \in dropped => ~Passes(t)
       /\ \A l \in Lanes : Lane(l, t) \in EventTracks(writer.file) => Passes(t)

FileKept ==
  /\ phase # "done" => Good(writer, Known)
  /\ phase = "done" => Finished(writer) /\ GroupsShown(writer.file)

TInv == MapsKept /\ PhaseKept /\ FilterKept /\ FileKept

-----------------------------------------------------------------------------
(* What the invariant says. *)

LEMMA TypeFromInv ==
  ASSUME TInv
  PROVE  TypeOK
<1>1. /\ rec \in Recordings /\ dropped \subseteq Threads
      /\ vizNext \in 1 .. Len(rec.vizNames) + 1
      /\ phase \in {"load", "viz", "metrics", "names", "merge", "late", "done"}
  BY DEF TInv, MapsKept
<1>2. /\ DOMAIN tidToTgid \subseteq Threads
      /\ \A t \in DOMAIN tidToTgid : tidToTgid[t] \in Threads
  BY DEF TInv, MapsKept, TgidMap
<1> DEFINE tracks == {Process(p) : p \in Threads \cup {0}} \cup {Group(t) : t \in Threads} \cup
                       {Lane(l, t) : l \in Lanes, t \in Threads}
<1>3. tracks = Processes \cup Groups \cup LaneTracks
  BY DEF Processes, Groups, LaneTracks, Pids
<1> HIDE DEF tracks
<1>4. CASE phase = "done"
  <2>1. Finished(writer)
    BY <1>4 DEF TInv, FileKept
  <2>2. DOMAIN writer.deferred = {} /\ DOMAIN writer.names = {}
    BY <2>1 DEF Finished
  <2>3. /\ writer.defined \subseteq tracks
        /\ DOMAIN writer.deferred \subseteq writer.defined
        /\ \A x \in DOMAIN writer.deferred :
             writer.deferred[x] \in (DOMAIN writer.deferred) \cup {Root}
        /\ DOMAIN writer.names \subseteq DOMAIN writer.deferred
        /\ writer.counters \subseteq Metrics
        /\ writer.cleared \in BOOLEAN
    BY <1>3, <2>1, <2>2 DEF Finished
  <2>4. WriterTypeOK(Threads \cup {0}, Threads, Metrics)
    BY <2>3 DEF WriterTypeOK, tracks
  <2>5. QED BY <1>1, <1>2, <2>4 DEF TypeOK
<1>5. CASE phase # "done"
  <2>1. PICK w, K : w = writer /\ K = Known /\ Good(w, K)
    BY <1>5 DEF TInv, FileKept
  <2>2. ASSUME NEW x \in DOMAIN w.deferred
        PROVE  w.deferred[x] \in (DOMAIN w.deferred) \cup {Root}
    <3>1. x \in w.defined /\ x \in Processes \cup Groups
      BY <2>1 DEF Good, Hierarchy
    <3>2. CASE x \in Processes
      <4>1. PICK p \in Pids : x = Process(p)
        BY <3>2 DEF Processes
      <4>2. QED BY <2>1, <3>1, <4>1 DEF Good, Hierarchy
    <3>3. CASE x \in Groups
      <4>1. PICK t \in Threads : x = Group(t)
        BY <3>3 DEF Groups
      <4>2. PICK p \in Pids : w.deferred[x] = Process(p) /\ Process(p) \in w.defined
        BY <2>1, <3>1, <4>1 DEF Good, Hierarchy
      <4>3. Process(p) \in Processes
        BY DEF Processes
      <4>4. Process(p) \in DOMAIN w.deferred
        BY <2>1, <4>2, <4>3 DEF Good, Hierarchy
      <4>5. QED BY <4>2, <4>4
    <3>4. QED BY <3>1, <3>2, <3>3
  <2>3. /\ w.defined \subseteq tracks /\ DOMAIN w.deferred \subseteq w.defined
        /\ DOMAIN w.names \subseteq DOMAIN w.deferred /\ w.counters \subseteq Metrics
        /\ w.cleared \in BOOLEAN
    BY <1>3, <2>1 DEF Good, Hierarchy, Fields
  <2>4. WriterTypeOK(Threads \cup {0}, Threads, Metrics)
    BY <2>1, <2>2, <2>3 DEF WriterTypeOK, tracks
  <2>5. QED BY <1>1, <1>2, <2>4 DEF TypeOK
<1>6. QED BY <1>4, <1>5

\* The descriptors of a track that is described once.
LEMMA OneDescriptor ==
  ASSUME NEW x, NEW parent, DescribedOnce(writer.file, x, parent)
  PROVE  \E i : DescriptorsOf(x) = {i} /\ writer.file[i].parent = parent
<1>1. PICK i \in 1 .. Len(writer.file) :
             /\ Describes(writer.file, i, x) /\ writer.file[i].parent = parent
             /\ \A j \in 1 .. Len(writer.file) : Describes(writer.file, j, x) => i = j
  BY DEF DescribedOnce
<1>2. \A j : j \in DescriptorsOf(x) <=> Describes(writer.file, j, x)
  BY DEF DescriptorsOf, Packets, Describes
<1>3. DescriptorsOf(x) = {i}
  BY <1>1, <1>2 DEF Describes
<1>4. QED BY <1>1, <1>3

LEMMA TracksFromInv ==
  ASSUME TInv
  PROVE  TracksDescribed
<1> DEFINE parent(track) == writer.file[CHOOSE i \in DescriptorsOf(track) : TRUE].parent
           described(track) == \E i \in DescriptorsOf(track) : DescriptorsOf(track) = {i}
<1>1. ASSUME NEW x, NEW p, DescribedOnce(writer.file, x, p)
      PROVE  described(x) /\ parent(x) = p
  <2>1. PICK i : DescriptorsOf(x) = {i} /\ writer.file[i].parent = p
    BY <1>1, OneDescriptor
  <2>2. i \in DescriptorsOf(x) /\ \A j \in DescriptorsOf(x) : j = i
    BY <2>1
  <2>3. (CHOOSE j \in DescriptorsOf(x) : TRUE) = i
    BY <2>2
  <2>4. QED BY <2>1, <2>2, <2>3
<1> HIDE DEF parent, described
<1>2. ASSUME phase = "done", NEW i \in Events
      PROVE  /\ described(writer.file[i].track)
             /\ described(parent(writer.file[i].track))
             /\ parent(parent(writer.file[i].track)) # Root =>
                  described(parent(parent(writer.file[i].track)))
  <2>1. PICK x : x = writer.file[i].track
    OBVIOUS
  <2>2. x \in EventTracks(writer.file)
    BY <1>2, <2>1 DEF Events, Packets, EventTracks, IsEvent
  <2>3. PICK p, q, r : /\ DescribedOnce(writer.file, x, p) /\ DescribedOnce(writer.file, p, q)
                       /\ q = Root \/ DescribedOnce(writer.file, q, r)
    BY <1>2, <2>2 DEF TInv, FileKept, Finished, Hung
  <2>4. described(x) /\ parent(x) = p
    BY <1>1, <2>3
  <2>5. described(p) /\ parent(p) = q
    BY <1>1, <2>3
  <2>6. q # Root => described(q)
    BY <1>1, <2>3
  <2>7. QED BY <2>1, <2>4, <2>5, <2>6
<1>3. QED BY <1>2 DEF TracksDescribed, parent, described

LEMMA StringsOf ==
  ASSUME NEW iids, NEW cleared, Interned(iids, writer.file), ClearedOnce(cleared, writer.file)
  PROVE  StringsInterned
<1>1. \A j : j \in Events <=> IsEvent(writer.file, j)
  BY DEF Events, Packets, IsEvent
<1>2. \A j : IsEvent(writer.file, j) => j \in 1 .. Len(writer.file)
  BY DEF IsEvent
<1> DEFINE definitions(i) ==
             {j \in Events : \E d \in writer.file[j].interned : d[1] = writer.file[i].iid}
<1>3. ASSUME NEW i \in Events, writer.file[i].iid # 0
      PROVE  \E j \in definitions(i) : definitions(i) = {j} /\ j <= i
  <2>1. i \in 1 .. Len(writer.file) /\ IsEvent(writer.file, i)
    BY <1>1, <1>2
  <2>2. PICK n \in DOMAIN iids : writer.file[i].iid = iids[n]
    BY <1>3, <2>1 DEF Interned
  <2>3. PICK j \in 1 .. Len(writer.file) :
              /\ Defines(writer.file, j, iids[n], n)
              /\ \A k \in 1 .. Len(writer.file) :
                   /\ Defines(writer.file, k, iids[n], n) => k = j
                   /\ IsEvent(writer.file, k) /\ writer.file[k].iid = iids[n] => j <= k
    BY DEF Interned, DefinedOnce
  <2>4. j \in definitions(i)
    BY <1>1, <2>2, <2>3 DEF Defines
  <2>5. ASSUME NEW k \in definitions(i)
        PROVE  k = j
    <3>1. k \in 1 .. Len(writer.file) /\ IsEvent(writer.file, k)
      BY <1>1, <1>2
    <3>2. PICK d \in writer.file[k].interned : d[1] = iids[n]
      BY <2>2
    <3>3. PICK m \in DOMAIN iids : d = <<iids[m], m>>
      BY <3>1, <3>2 DEF Interned
    <3>4. m = n
      BY <3>2, <3>3 DEF Interned
    <3>5. Defines(writer.file, k, iids[n], n)
      BY <3>1, <3>2, <3>3, <3>4 DEF Defines
    <3>6. QED BY <2>3, <3>1, <3>5
  <2>6. j <= i
    BY <2>1, <2>2, <2>3
  <2>7. QED BY <2>4, <2>5, <2>6
<1>4. ASSUME NEW i \in Events
      PROVE  writer.file[i].cleared <=> \A j \in Events : i <= j
  BY <1>1, <1>2 DEF ClearedOnce
<1>5. QED BY <1>3, <1>4 DEF StringsInterned

LEMMA StringsFromInv ==
  ASSUME TInv
  PROVE  StringsInterned
<1>1. \E iids, cleared : Interned(iids, writer.file) /\ ClearedOnce(cleared, writer.file)
  <2>1. CASE phase = "done"
    BY <2>1 DEF TInv, FileKept, Finished
  <2>2. CASE phase # "done"
    BY <2>2 DEF TInv, FileKept, Good
  <2>3. QED BY <2>1, <2>2
<1>2. QED BY <1>1, StringsOf

\* The thread groups of a finished file, as the properties speak of them.
LEMMA GroupsFromInv ==
  ASSUME TInv, phase = "done", NEW g \in ThreadGroups
  PROVE  \E t \in Threads : /\ g.track[2] = t /\ g.track = Group(t) /\ LastName(t, g.name)
                            /\ t \in Known => g.parent = Process(ProcessOf[t])
<1>1. PICK i \in Packets("descriptor") : g = writer.file[i] /\ g.track[1] = "group"
  BY DEF ThreadGroups
<1>2. i \in 1 .. Len(writer.file) /\ g.packet = "descriptor"
  BY <1>1 DEF Packets
<1>3. \E t \in Threads : /\ g.track = Group(t) /\ LastName(t, g.name)
                         /\ t \in Known => g.parent = Process(ProcessOf[t])
  BY <1>1, <1>2 DEF TInv, FileKept, GroupsShown
<1>4. \A t : Group(t)[2] = t
  BY DEF Group
<1>5. QED BY <1>3, <1>4

LEMMA NamesFromInv ==
  ASSUME TInv
  PROVE  NamesShown
<1>1. ASSUME phase = "done", NEW g \in ThreadGroups
      PROVE  LET t == g.track[2]
                 announced == {k \in DOMAIN rec.vizNames : Announces(k, t)}
                 perfName == IF t \in DOMAIN rec.comm THEN <<rec.comm[t], t>>
                             ELSE FallbackName(g.track)
             IN  /\ announced = {} => g.name = perfName
                 /\ \A k \in announced :
                      (\A j \in announced : j <= k) => g.name = <<rec.vizNames[k].name, t>>
  <2>1. PICK t \in Threads : g.track[2] = t /\ g.track = Group(t) /\ LastName(t, g.name)
    BY <1>1, GroupsFromInv
  <2>2. vizNext = Len(rec.vizNames) + 1 /\ rec \in Recordings
    BY <1>1 DEF TInv, PhaseKept, MapsKept
  <2>3. 1 .. vizNext - 1 = DOMAIN rec.vizNames
    BY <2>2, RecordingAssumption DEF RecordingAssumption
  <2>4. QED BY <2>1, <2>3 DEF LastName
<1>2. QED BY <1>1 DEF NamesShown

\* With no tracepoints the real process of every known thread is known.
LEMMA AllKnown ==
  ASSUME TInv, \A r \in Recordings : ~r.tracepoints
  PROVE  Known = KnownThreads
<1>1. TgidMap(tidToTgid, TRUE)
  BY DEF TInv, MapsKept
<1>2. \A t \in KnownThreads : TgidFor(t) = ProcessOf[t]
  BY <1>1 DEF TgidMap, KnownThreads, MainThreads, TgidFor
<1>3. QED BY <1>2 DEF Known

LEMMA FiledFromInv ==
  ASSUME TInv, \A r \in Recordings : ~r.tracepoints
  PROVE  FiledUnderProcess
<1>1. ASSUME phase = "done", NEW g \in ThreadGroups, g.track[2] \in KnownThreads
      PROVE  g.parent = Process(ProcessOf[g.track[2]])
  BY <1>1, AllKnown, GroupsFromInv
<1>2. QED BY <1>1 DEF FiledUnderProcess

LEMMA FilterFromInv ==
  ASSUME TInv, \A r \in Recordings : ~r.tracepoints
  PROVE  PidFilterExact
<1>1. ASSUME NEW i \in Events, writer.file[i].track[1] \in Lanes,
             NEW t \in KnownThreads, t = writer.file[i].track[2]
      PROVE  Passes(t) /\ t \notin dropped
  <2>1. PICK x : x = writer.file[i].track
    OBVIOUS
  <2>2. x \in EventTracks(writer.file)
    BY <2>1 DEF Events, Packets, EventTracks, IsEvent
  <2>3. x \in LaneTracks \/ \E m : x = CounterTrack(m)
    BY <2>2 DEF TInv, FilterKept
  <2>4. \A m : CounterTrack(m)[1] \notin Lanes
    BY DEF CounterTrack, Lanes
  <2>5. PICK l \in Lanes, u \in Threads : x = Lane(l, u)
    BY <1>1, <2>1, <2>3, <2>4 DEF LaneTracks
  <2>6. u = t
    BY <1>1, <2>1, <2>5 DEF Lane
  <2>7. t \in Known
    BY AllKnown
  <2>8. QED BY <2>2, <2>5, <2>6, <2>7 DEF TInv, FilterKept
<1>2. ASSUME NEW t, Passes(t), rec.pid # NoPid
      PROVE  ProcessOf[t] = rec.pid
  BY <1>2 DEF Passes, PassesFilter
<1>3. QED BY <1>1, <1>2 DEF PidFilterExact

-----------------------------------------------------------------------------
(* The invariant holds at first and each action keeps it. *)

LEMMA NewIsGood ==
  ASSUME NEW K, NEW w, w = NewWriter
  PROVE  Good(w, K) /\ EventTracks(w.file) = {}
<1>1. /\ DOMAIN w = {"defined", "deferred", "names", "iids", "cleared", "counters", "file"}
      /\ w.defined = {} /\ w.deferred = <<>> /\ w.names = <<>> /\ w.iids = <<>>
      /\ w.cleared = FALSE /\ w.counters = {} /\ w.file = <<>>
  BY DEF NewWriter
<1>2. PICK none : none = <<>>
  OBVIOUS
<1>3. /\ Len(none) = 0 /\ DOMAIN none = {} /\ 1 .. Len(none) = {}
      /\ none \in Seq(Range(none))
  BY <1>2
<1>4. Fields(w)
  BY <1>1, <1>2, <1>3 DEF Fields
<1>5. Hierarchy({}, none, K)
  BY <1>3 DEF Hierarchy
<1>6. Described({}, {}, none)
  BY <1>3 DEF Described
<1>7. Interned(none, none)
  BY <1>3, FS_EmptySet DEF Interned
<1>8. ClearedOnce(FALSE, none)
  BY <1>3 DEF ClearedOnce
<1>9. EventTracks(none) = {}
  BY <1>3 DEF EventTracks
<1>10. QED BY <1>1, <1>2, <1>3, <1>4, <1>5, <1>6, <1>7, <1>8, <1>9 DEF Good

LEMMA InvInit == Init => TInv
<1> SUFFICES ASSUME Init
             PROVE  TInv
  OBVIOUS
<1>1. MapsKept
  BY RecordingAssumption DEF Init, MapsKept, TgidMap, RecordingAssumption
<1>2. PhaseKept
  BY DEF Init, PhaseKept
<1>3. Good(writer, Known) /\ EventTracks(writer.file) = {}
  BY NewIsGood DEF Init
<1>4. FilterKept
  BY <1>3 DEF Init, FilterKept
<1>5. FileKept
  BY <1>3 DEF Init, FileKept
<1>6. QED BY <1>1, <1>2, <1>4, <1>5 DEF TInv

\* What MergeEngine knows once the viz metadata are read.
LEMMA SameMaps ==
  ASSUME UNCHANGED <<rec, tidToTgid, vizNameMap>>
  PROVE  /\ Known' = Known
         /\ \A t : Passes(t)' <=> Passes(t)
         /\ \A k, t : Announces(k, t)' <=> Announces(k, t)
         /\ \A ts : PassesTimeFilter(ts)' <=> PassesTimeFilter(ts)
<1>1. \A t : TgidFor(t)' = TgidFor(t)
  BY DEF TgidFor
<1>2. Known' = Known
  BY <1>1 DEF Known, KnownThreads
<1>3. \A p : PassesFilter(p)' <=> PassesFilter(p)
  BY DEF PassesFilter
<1>4. \A t : PassesNameFilter(t)' <=> PassesNameFilter(t)
  BY <1>1 DEF PassesNameFilter
<1>5. \A ts : PassesTimeFilter(ts)' <=> PassesTimeFilter(ts)
  BY DEF PassesTimeFilter
<1>6. \A k, t : Announces(k, t)' <=> Announces(k, t)
  BY <1>3, <1>4, <1>5 DEF Announces, GivesName
<1>7. QED BY <1>2, <1>3, <1>4, <1>5, <1>6 DEF Passes

LEMMA SameNames ==
  ASSUME UNCHANGED <<rec, tidToTgid, vizNameMap, vizNext>>
  PROVE  \A t, name : LastName(t, name)' <=> LastName(t, name)
<1>1. \A k, t : Announces(k, t)' <=> Announces(k, t)
  BY SameMaps
<1>2. QED BY <1>1 DEF LastName

LEMMA SameLastNames ==
  ASSUME UNCHANGED <<rec, tidToTgid, vizNameMap, vizNext>>, writer'.names = writer.names,
         \A t \in Threads : LastName(t, NameOf(writer, t))
  PROVE  \A t \in Threads : LastName(t, NameOf(writer, t))'
<1>1. \A t, name : LastName(t, name)' <=> LastName(t, name)
  BY SameNames
<1>2. ASSUME NEW t \in Threads
      PROVE  LastName(t, NameOf(writer, t))'
  <2>1. PICK name : name = NameOf(writer, t)
    OBVIOUS
  <2>2. NameOf(writer, t)' = name
    BY <2>1 DEF NameOf
  <2>3. LastName(t, name)'
    BY <1>1, <2>1
  <2>4. QED BY <2>2, <2>3 DEF LastName
<1>3. QED BY <1>2

LEMMA SameMapsKept ==
  ASSUME MapsKept, UNCHANGED <<rec, tidToTgid>>, dropped' \subseteq Threads,
         vizNext' \in 1 .. Len(rec.vizNames) + 1,
         phase' \in {"load", "viz", "metrics", "names", "merge", "late", "done"}
  PROVE  MapsKept'
BY DEF MapsKept, TgidMap

\* While nothing is written, whatever is learned of processes.
LEMMA NothingWritten ==
  ASSUME writer' = NewWriter, dropped' = {}, phase' # "done"
  PROVE  FilterKept' /\ FileKept'
<1>1. PICK w, K : w = writer' /\ K = Known'
  OBVIOUS
<1>2. Good(w, K) /\ EventTracks(w.file) = {}
  BY <1>1, NewIsGood
<1>3. FileKept'
  BY <1>1, <1>2 DEF FileKept
<1>4. FilterKept'
  BY <1>1, <1>2 DEF FilterKept
<1>5. QED BY <1>3, <1>4

LEMMA SetPerfSourceStep ==
  ASSUME TInv, SetPerfSource
  PROVE  TInv'
<1>1. /\ phase = "load" /\ phase' = "viz" /\ rec' = rec /\ dropped' = dropped
      /\ vizNext' = vizNext /\ writer' = writer
      /\ tidToTgid' = LearnForks(tidToTgid, ForkEvents(rec.forks, rec.tracepoints))
  BY DEF SetPerfSource
<1>2. /\ writer = NewWriter /\ dropped = {} /\ tidToTgid = <<>> /\ vizNext = 1
      /\ rec \in Recordings
  BY <1>1 DEF TInv, PhaseKept, MapsKept
<1>3. rec.forks \in Seq(Threads \X Threads)
  BY <1>2, RecordingAssumption DEF RecordingAssumption
<1>4. PICK m : m = tidToTgid'
  OBVIOUS
<1>5. m = LearnForks(<<>>, ForkEvents(rec.forks, rec.tracepoints))
  BY <1>1, <1>2, <1>4
<1>6. TgidMap(m, FALSE)
  BY <1>3, <1>5, LearnForksKeeps
<1>7. ~rec.tracepoints => TgidMap(m, TRUE)
  BY <1>3, <1>5, LearnForksKeeps
<1>8. MapsKept'
  BY <1>1, <1>4, <1>6, <1>7 DEF TInv, MapsKept
<1>9. PhaseKept'
  BY <1>1, <1>2 DEF PhaseKept
<1>10. FilterKept' /\ FileKept'
  BY <1>1, <1>2, NothingWritten
<1>11. QED BY <1>8, <1>9, <1>10 DEF TInv

LEMMA SetVizMetadataStep ==
  ASSUME TInv, SetVizMetadata
  PROVE  TInv'
<1>1. /\ phase = "viz" /\ phase' \in {"metrics", "names"} /\ rec' = rec /\ dropped' = dropped
      /\ vizNext' = vizNext /\ writer' = writer
      /\ tidToTgid' = [t \in DOMAIN tidToTgid \cup VizTids |->
                         IF t \in VizTids THEN ProcessOf[t] ELSE tidToTgid[t]]
  BY DEF SetVizMetadata
<1>2. writer = NewWriter /\ dropped = {} /\ vizNext = 1 /\ rec \in Recordings
  BY <1>1 DEF TInv, PhaseKept, MapsKept
<1>3. VizTids \subseteq Threads
  BY <1>2, RecordingAssumption DEF RecordingAssumption, VizTids
<1>4. PICK m, n : m = tidToTgid /\ n = tidToTgid'
  OBVIOUS
<1>5. /\ DOMAIN n = DOMAIN m \cup VizTids
      /\ \A t \in DOMAIN n : n[t] = IF t \in VizTids THEN ProcessOf[t] ELSE m[t]
  BY <1>1, <1>4
<1>6. ASSUME NEW exact, TgidMap(m, exact)
      PROVE  TgidMap(n, exact)
  BY <1>3, <1>5, <1>6, RealProcess DEF TgidMap
<1>7. TgidMap(n, FALSE) /\ (~rec.tracepoints => TgidMap(n, TRUE))
  BY <1>4, <1>6 DEF TInv, MapsKept
<1>8. MapsKept'
  BY <1>1, <1>4, <1>7 DEF TInv, MapsKept
<1>9. writer.names = <<>>
  BY <1>2 DEF NewWriter
<1>10. PhaseKept'
  BY <1>1, <1>2, <1>9 DEF PhaseKept
<1>11. FilterKept' /\ FileKept'
  BY <1>1, <1>2, NothingWritten
<1>12. QED BY <1>8, <1>10, <1>11 DEF TInv

\* An event that is filed or dropped.
LEMMA FileStep ==
  ASSUME TInv, NEW t \in Threads, NEW p, t \in Known => p = ProcessOf[t],
         NEW l \in Lanes, NEW w, Good(w, Known) /\ Writing(writer, w, {Lane(l, t)}),
         File(t, p, w)
  PROVE  TInv'
<1>1. /\ phase = "merge" /\ phase' = phase
      /\ UNCHANGED <<rec, tidToTgid, vizNameMap, vizNext>>
      /\ \/ /\ PassesFilter(p) /\ PassesNameFilter(t)
            /\ writer' = w /\ dropped' = dropped
         \/ /\ ~(PassesFilter(p) /\ PassesNameFilter(t))
            /\ dropped' = dropped \cup {t} /\ writer' = writer
  BY DEF File
<1>2. /\ Known' = Known
      /\ \A u : Passes(u)' <=> Passes(u)
      /\ \A u, name : LastName(u, name)' <=> LastName(u, name)
  BY <1>1, SameMaps, SameNames
<1>3. MapsKept'
  BY <1>1, SameMapsKept DEF TInv, MapsKept
<1>4. Good(writer, Known)
  BY <1>1 DEF TInv, FileKept
<1>5. FileKept'
  BY <1>1, <1>2, <1>4 DEF FileKept
<1>6. PhaseKept'
  <2>1. writer'.names = writer.names
    BY <1>1 DEF Writing
  <2>2. \A u \in Threads : LastName(u, NameOf(writer, u))
    BY <1>1 DEF TInv, PhaseKept
  <2>3. \A u \in Threads : LastName(u, NameOf(writer, u))'
    BY <1>1, <2>1, <2>2, SameLastNames
  <2>4. QED BY <1>1, <2>3 DEF PhaseKept
<1>7. FilterKept'
  <2>1. t \in Known => (Passes(t) <=> PassesFilter(p) /\ PassesNameFilter(t))
    BY DEF Passes
  <2>2. EventTracks(writer'.file) \subseteq EventTracks(writer.file) \cup {Lane(l, t)}
    BY <1>1 DEF Writing
  <2>3. Lane(l, t) \in LaneTracks
    BY DEF LaneTracks
  <2>4. EventTracks(writer'.file) \subseteq LaneTracks \cup {CounterTrack(m) : m \in Metrics}
    BY <2>2, <2>3 DEF TInv, FilterKept
  <2>5. ASSUME NEW u \in Known, u \in dropped'
        PROVE  ~Passes(u)
    BY <1>1, <2>1, <2>5 DEF TInv, FilterKept
  <2>6. ASSUME NEW u \in Known, NEW k \in Lanes, Lane(k, u) \in EventTracks(writer'.file)
        PROVE  Passes(u)
    <3>1. CASE Lane(k, u) \in EventTracks(writer.file)
      BY <3>1 DEF TInv, FilterKept
    <3>2. CASE Lane(k, u) \notin EventTracks(writer.file)
      <4>1. Lane(k, u) = Lane(l, t) /\ writer' = w
        BY <1>1, <2>2, <2>6, <3>2 DEF Writing
      <4>2. u = t /\ writer' # writer
        BY <2>6, <3>2, <4>1, TracksDiffer
      <4>3. QED BY <1>1, <2>1, <4>2
    <3>3. QED BY <3>1, <3>2
  <2>7. QED BY <1>2, <2>4, <2>5, <2>6 DEF FilterKept
<1>8. QED BY <1>3, <1>5, <1>6, <1>7 DEF TInv

LEMMA SchedEventStep ==
  ASSUME TInv, NEW t \in Threads, SchedEvent(t)
  PROVE  TInv'
<1>1. PICK p, w : p = TgidFor(t) /\ w = WriteComplete(writer, "on-cpu", p, "sched", t)
  OBVIOUS
<1>2. File(t, p, w)
  BY <1>1 DEF SchedEvent
<1>3. p \in Pids /\ (t \in Known => p = ProcessOf[t])
  BY <1>1, TgidIsThread DEF TInv, MapsKept, Known
<1>4. Good(writer, Known)
  BY <1>2 DEF File, TInv, FileKept
<1>5. PICK l \in Lanes : l = "sched"
  BY DEF Lanes
<1>6. Good(w, Known) /\ Writing(writer, w, {Lane(l, t)})
  BY <1>1, <1>3, <1>4, <1>5, WriteCompleteKeeps
<1>7. QED BY <1>2, <1>3, <1>6, FileStep

LEMMA GilEventStep ==
  ASSUME TInv, NEW t \in Threads, NEW type, GilEvent(t, type)
  PROVE  TInv'
<1>1. PICK p, w, name : /\ p = ProcessOf[t] /\ name = "GIL held"
                        /\ w = WriteTrackEvent(writer, type, name, p, "gil", t)
  OBVIOUS
<1>2. File(t, p, w)
  BY <1>1 DEF GilEvent
<1>3. p \in Pids
  BY <1>1, RealProcess DEF Pids
<1>4. Good(writer, Known)
  BY <1>2 DEF File, TInv, FileKept
<1>5. PICK l \in Lanes : l = "gil"
  BY DEF Lanes
<1>6. Good(w, Known) /\ Writing(writer, w, {Lane(l, t)})
  BY <1>1, <1>3, <1>4, <1>5, WriteTrackEventKeeps
<1>7. QED BY <1>1, <1>2, <1>6, FileStep

LEMMA GpuEventStep ==
  ASSUME TInv, NEW t \in Threads, NEW type, GpuEvent(t, type)
  PROVE  TInv'
<1>1. PICK p, w, name : /\ p = TgidFor(t) /\ name = "cuLaunchKernel"
                        /\ w = WriteTrackEvent(writer, type, name, p, "gpu", t)
  OBVIOUS
<1>2. File(t, p, w)
  BY <1>1 DEF GpuEvent
<1>3. p \in Pids /\ (t \in Known => p = ProcessOf[t])
  BY <1>1, TgidIsThread DEF TInv, MapsKept, Known
<1>4. Good(writer, Known)
  BY <1>2 DEF File, TInv, FileKept
<1>5. PICK l \in Lanes : l = "gpu"
  BY DEF Lanes
<1>6. Good(w, Known) /\ Writing(writer, w, {Lane(l, t)})
  BY <1>1, <1>3, <1>4, <1>5, WriteTrackEventKeeps
<1>7. QED BY <1>2, <1>3, <1>6, FileStep

LEMMA VizSpanStep ==
  ASSUME TInv, NEW t \in Threads, VizSpan(t)
  PROVE  TInv'
<1>1. PICK p, w : p = ProcessOf[t] /\ w = WriteComplete(writer, "f", p, "stacks", t)
  OBVIOUS
<1>2. File(t, p, w)
  BY <1>1 DEF VizSpan
<1>3. p \in Pids
  BY <1>1, RealProcess DEF Pids
<1>4. Good(writer, Known)
  BY <1>2 DEF File, TInv, FileKept
<1>5. PICK l \in Lanes : l = "stacks"
  BY DEF Lanes
<1>6. Good(w, Known) /\ Writing(writer, w, {Lane(l, t)})
  BY <1>1, <1>3, <1>4, <1>5, WriteCompleteKeeps
<1>7. QED BY <1>1, <1>2, <1>6, FileStep

\* A step that writes no event and drops none.
LEMMA NoEventStep ==
  ASSUME TInv, UNCHANGED <<rec, tidToTgid, vizNameMap, dropped>>,
         EventTracks(writer'.file) \subseteq
           EventTracks(writer.file) \cup {CounterTrack(m) : m \in Metrics}
  PROVE  FilterKept'
<1>1. Known' = Known /\ \A t : Passes(t)' <=> Passes(t)
  BY SameMaps
<1>2. EventTracks(writer'.file) \subseteq LaneTracks \cup {CounterTrack(m) : m \in Metrics}
  BY DEF TInv, FilterKept
<1>3. \A l \in Lanes, t \in Threads : Lane(l, t) \notin {CounterTrack(m) : m \in Metrics}
  BY TracksDiffer DEF LaneTracks
<1>4. \A t \in Known : t \in Threads
  BY DEF Known, KnownThreads, MainThreads, TInv, MapsKept, TgidMap
<1>5. \A t \in Known, l \in Lanes : Lane(l, t) \in EventTracks(writer'.file) =>
                                       Lane(l, t) \in EventTracks(writer.file)
  BY <1>3, <1>4
<1>6. QED BY <1>1, <1>2, <1>5 DEF TInv, FilterKept

LEMMA MetricStep ==
  ASSUME TInv, NEW m \in Metrics, Metric(m)
  PROVE  TInv'
<1>1. /\ phase \in {"metrics", "late"} /\ phase' = phase
      /\ UNCHANGED <<rec, tidToTgid, vizNameMap, vizNext, dropped>>
      /\ writer' = WriteCounter(writer, m, 0)
  BY DEF Metric
<1>2. PICK w, K : w = writer' /\ K = Known
  OBVIOUS
<1>3. Good(writer, K)
  BY <1>1, <1>2 DEF TInv, FileKept
<1>4. Good(w, K) /\ Writing(writer, w, {CounterTrack(m)})
  BY <1>1, <1>2, <1>3, WriteCounterKeeps
<1>5. Known' = K
  BY <1>1, <1>2, SameMaps
<1>6. MapsKept'
  BY <1>1, SameMapsKept DEF TInv, MapsKept
<1>7. FileKept'
  BY <1>1, <1>2, <1>4, <1>5 DEF FileKept
<1>8. FilterKept'
  BY <1>1, <1>2, <1>4, NoEventStep DEF Writing
<1>9. PhaseKept'
  <2>1. writer'.names = writer.names
    BY <1>2, <1>4 DEF Writing
  <2>2. ASSUME phase = "late"
        PROVE  \A u \in Threads : LastName(u, NameOf(writer, u))'
    <3>1. \A u \in Threads : LastName(u, NameOf(writer, u))
      BY <2>2 DEF TInv, PhaseKept
    <3>2. QED BY <1>1, <2>1, <3>1, SameLastNames
  <2>3. QED BY <1>1, <2>1, <2>2 DEF TInv, PhaseKept
<1>10. QED BY <1>6, <1>7, <1>8, <1>9 DEF TInv

LEMMA GoOnStep ==
  ASSUME TInv, GoOn
  PROVE  TInv'
<1>1. /\ UNCHANGED <<writer, rec, tidToTgid, vizNameMap, vizNext, dropped>>
      /\ \/ phase = "metrics" /\ phase' = "names"
         \/ phase = "merge" /\ vizNext > Len(rec.vizNames) /\ phase' = "late"
  BY DEF GoOn
<1>2. Known' = Known /\ \A u, name : LastName(u, name)' <=> LastName(u, name)
  BY <1>1, SameMaps, SameNames
<1>3. MapsKept'
  BY <1>1, SameMapsKept DEF TInv, MapsKept
<1>4. FileKept'
  BY <1>1, <1>2 DEF TInv, FileKept
<1>5. FilterKept'
  BY <1>1, NoEventStep
<1>6. PhaseKept'
  <2>1. phase' = "late" => vizNext = Len(rec.vizNames) + 1
    <3>1. rec \in Recordings /\ vizNext \in 1 .. Len(rec.vizNames) + 1
      BY DEF TInv, MapsKept
    <3>2. Len(rec.vizNames) \in Nat
      BY <3>1, RecordingAssumption DEF RecordingAssumption
    <3>3. QED BY <1>1, <3>1, <3>2
  <2>2. phase' = "late" => \A u \in Threads : LastName(u, NameOf(writer, u))
    BY <1>1 DEF TInv, PhaseKept
  <2>3. phase' = "late" => \A u \in Threads : LastName(u, NameOf(writer, u))'
    BY <1>1, <2>2, SameLastNames
  <2>4. QED BY <1>1, <2>1, <2>3 DEF TInv, PhaseKept
<1>7. QED BY <1>3, <1>4, <1>5, <1>6 DEF TInv

LEMMA VizMetadataStep ==
  ASSUME TInv, VizMetadata
  PROVE  TInv'
<1>1. PICK k, m, v, w, K : /\ k = vizNext /\ m = rec.vizNames[k]
                           /\ v = writer' /\ w = writer /\ K = Known
  OBVIOUS
<1>2. /\ phase = "merge" /\ phase' = phase /\ k <= Len(rec.vizNames) /\ vizNext' = k + 1
      /\ UNCHANGED <<rec, tidToTgid, vizNameMap, dropped>>
      /\ v = IF PassesFilter(m.pid) /\ PassesNameFilter(m.tid) /\ PassesTimeFilter(m.ts)
             THEN WriteMetadata(w, m.key, m.pid, "stacks", m.tid, m.name)
             ELSE w
  BY <1>1 DEF VizMetadata
<1>3. /\ rec \in Recordings /\ k \in 1 .. Len(rec.vizNames) + 1
      /\ Good(w, K) /\ \A u \in Threads : LastName(u, NameOf(writer, u))
  BY <1>1, <1>2 DEF TInv, MapsKept, FileKept, PhaseKept
<1>4. Len(rec.vizNames) \in Nat /\ k \in 1 .. Len(rec.vizNames)
  BY <1>2, <1>3, RecordingAssumption DEF RecordingAssumption
<1>5. m.tid \in Threads /\ m.pid = ProcessOf[m.tid] /\ m.pid \in Pids
  BY <1>1, <1>3, <1>4, RecordingAssumption, RealProcess DEF RecordingAssumption, Pids
<1>6. /\ Good(v, K) /\ v.file = w.file
      /\ \A u \in Threads : /\ Announces(k, u) => NameOf(v, u) = <<m.name, u>>
                            /\ ~Announces(k, u) => NameOf(v, u) = NameOf(w, u)
  <2>1. \A u : Announces(k, u) <=> /\ m.key = "thread_name" /\ m.tid = u
                                   /\ PassesFilter(m.pid) /\ PassesNameFilter(u)
                                   /\ PassesTimeFilter(m.ts)
    BY <1>1 DEF Announces, GivesName
  <2>2. CASE PassesFilter(m.pid) /\ PassesNameFilter(m.tid) /\ PassesTimeFilter(m.ts)
    <3>1. PICK c : c = MetadataCall(m.key, m.pid, "stacks", m.tid, m.name)
      OBVIOUS
    <3>2. /\ c.key = m.key /\ c.pid = m.pid /\ c.lane = "stacks" /\ c.tid = m.tid
          /\ c.name = m.name
      BY <3>1 DEF MetadataCall
    <3>3. \A u : NamesThread(c, u) <=> Announces(k, u)
      BY <2>1, <2>2, <3>2 DEF NamesThread, Names
    <3>4. GoodCall(c, K)
      BY <1>5, <3>2 DEF GoodCall, Names
    <3>5. v = WriteMetadata(w, c.key, c.pid, c.lane, c.tid, c.name)
      BY <1>2, <2>2, <3>2
    <3>6. /\ Good(v, K) /\ v.file = w.file
          /\ \A u \in Threads : /\ NamesThread(c, u) => NameOf(v, u) = <<c.name, u>>
                                /\ ~NamesThread(c, u) => NameOf(v, u) = NameOf(w, u)
      BY <1>3, <3>4, <3>5, OneTurnKeeps
    <3>7. QED BY <3>2, <3>3, <3>6
  <2>3. CASE ~(PassesFilter(m.pid) /\ PassesNameFilter(m.tid) /\ PassesTimeFilter(m.ts))
    BY <1>2, <1>3, <2>1, <2>3
  <2>4. QED BY <2>2, <2>3
<1>7. Known' = K /\ \A j, t : Announces(j, t)' <=> Announces(j, t)
  BY <1>1, <1>2, SameMaps
<1>8. MapsKept'
  <2>1. vizNext' \in 1 .. Len(rec.vizNames) + 1
    BY <1>2, <1>4
  <2>2. MapsKept /\ dropped' \subseteq Threads
    BY <1>2 DEF TInv, MapsKept
  <2>3. QED BY <1>2, <2>1, <2>2, SameMapsKept
<1>9. FileKept'
  BY <1>1, <1>2, <1>6, <1>7 DEF FileKept
<1>10. FilterKept'
  BY <1>1, <1>2, <1>6, NoEventStep
<1>11. PhaseKept'
  <2>1. ASSUME NEW u \in Threads
        PROVE  LastName(u, NameOf(writer, u))'
    <3>1. PICK old, name : old = NameOf(writer, u) /\ name = NameOf(writer, u)'
      OBVIOUS
    <3>2. name = NameOf(v, u)
      BY <1>1, <3>1 DEF NameOf
    <3>3. LastName(u, old)
      BY <1>3, <3>1
    <3>4. PICK now, then : /\ now = {j \in 1 .. k - 1 : Announces(j, u)}
                           /\ then = {j \in 1 .. k : Announces(j, u)}
      OBVIOUS
    <3>5. \A j \in 1 .. k : j \in 1 .. k - 1 \/ j = k
      BY <1>4
    <3>6. \A j \in 1 .. k - 1 : j \in 1 .. k /\ j < k
      BY <1>4
    <3>7. /\ now = {} => old = IF u \in DOMAIN rec.comm THEN <<rec.comm[u], u>>
                               ELSE FallbackName(Group(u))
          /\ \A j \in now : (\A i \in now : i <= j) => old = <<rec.vizNames[j].name, u>>
      BY <1>1, <3>3, <3>4 DEF LastName
    <3>8. /\ then = {} => name = IF u \in DOMAIN rec.comm THEN <<rec.comm[u], u>>
                                ELSE FallbackName(Group(u))
          /\ \A j \in then : (\A i \in then : i <= j) => name = <<rec.vizNames[j].name, u>>
      <4>1. CASE Announces(k, u)
        <5>1. k \in then /\ \A j \in then : (\A i \in then : i <= j) => j = k
          BY <1>4, <3>4, <3>5, <3>6, <4>1
        <5>2. name = <<rec.vizNames[k].name, u>>
          BY <1>1, <1>6, <3>2, <4>1
        <5>3. QED BY <5>1, <5>2
      <4>2. CASE ~Announces(k, u)
        <5>1. then = now
          BY <3>4, <3>5, <3>6, <4>2
        <5>2. name = old
          BY <1>1, <1>6, <3>1, <3>2, <4>2
        <5>3. QED BY <3>7, <5>1, <5>2
      <4>3. QED BY <4>1, <4>2
    <3>9. {j \in 1 .. vizNext' - 1 : Announces(j, u)'} = then
      BY <1>1, <1>2, <1>4, <1>7, <3>4
    <3>10. rec' = rec
      BY <1>2
    <3>11. LastName(u, name)'
      BY <3>8, <3>9, <3>10 DEF LastName
    <3>12. QED BY <3>1, <3>11 DEF LastName
  <2>2. QED BY <1>2, <2>1 DEF PhaseKept
<1>12. QED BY <1>8, <1>9, <1>10, <1>11 DEF TInv

LEMMA WriteNamesStep ==
  ASSUME TInv, WriteNames
  PROVE  TInv'
<1>1. PICK v, w, K : v = writer' /\ w = writer /\ K = Known
  OBVIOUS
<1>2. /\ phase = "names" /\ phase' = "merge"
      /\ UNCHANGED <<rec, tidToTgid, vizNameMap, vizNext, dropped>>
  BY DEF WriteNames
<1>3. PICK order, calls :
        /\ order \in SetToSeqs(DOMAIN rec.comm)
        /\ calls = NameThreads(order) \o NameProcesses(order) \o NameLanes
        /\ v = WriteAllMetadata(w, calls)
  BY <1>1 DEF WriteNames
<1>4. /\ rec \in Recordings /\ TgidMap(tidToTgid, FALSE) /\ w.names = <<>> /\ vizNext = 1
      /\ Good(w, K)
  BY <1>1, <1>2 DEF TInv, MapsKept, PhaseKept, FileKept
<1>5. PICK n \in Nat : n = Len(calls)
  BY <1>3, <1>4, CallsName
<1>6. /\ \A i \in 1 .. n : Naming(calls[i])
      /\ \A t \in DOMAIN rec.comm : \E i \in 1 .. n : NamesThread(calls[i], t)
  BY <1>3, <1>4, <1>5, CallsName
<1>7. \A i \in 1 .. n : GoodCall(calls[i], K)
  BY <1>1, <1>6 DEF Naming
<1>8. /\ Good(v, K) /\ v.file = w.file
      /\ \A t \in Threads :
           \/ /\ NameOf(v, t) = NameOf(w, t)
              /\ \A i \in 1 .. n : ~NamesThread(calls[i], t)
           \/ \E i \in 1 .. n : /\ NamesThread(calls[i], t)
                                /\ NameOf(v, t) = <<calls[i].name, t>>
  <2>1. v = WriteAllMetadata(w, calls) /\ Good(w, K)
    BY <1>3, <1>4
  <2>2. Good(v, K) /\ v.file = w.file
    BY <1>5, <1>7, <2>1, WriteAllKeeps
  <2>3. \A t \in Threads :
           \/ /\ NameOf(v, t) = NameOf(w, t)
              /\ \A i \in 1 .. n : ~NamesThread(calls[i], t)
           \/ \E i \in 1 .. n : /\ NamesThread(calls[i], t)
                                /\ NameOf(v, t) = <<calls[i].name, t>>
    BY <1>5, <1>7, <2>1, WriteAllKeeps
  <2>4. QED BY <2>2, <2>3
<1>9. Known' = K
  BY <1>1, <1>2, SameMaps
<1>10. MapsKept'
  BY <1>2, SameMapsKept DEF TInv, MapsKept
<1>11. FileKept'
  BY <1>1, <1>2, <1>8, <1>9 DEF FileKept
<1>12. FilterKept'
  BY <1>1, <1>2, <1>8, NoEventStep
<1>13. PhaseKept'
  <2>1. ASSUME NEW t \in Threads
        PROVE  NameOf(v, t) = IF t \in DOMAIN rec.comm THEN <<rec.comm[t], t>>
                              ELSE FallbackName(Group(t))
    <3>1. CASE /\ NameOf(v, t) = NameOf(w, t)
               /\ \A i \in 1 .. n : ~NamesThread(calls[i], t)
      <4>1. t \notin DOMAIN rec.comm
        BY <1>6, <3>1
      <4>2. NameOf(w, t) = FallbackName(Group(t))
        BY <1>4 DEF NameOf
      <4>3. QED BY <3>1, <4>1, <4>2
    <3>2. CASE \E i \in 1 .. n : /\ NamesThread(calls[i], t)
                                 /\ NameOf(v, t) = <<calls[i].name, t>>
      BY <1>6, <3>2 DEF Naming
    <3>3. QED BY <1>8, <3>1, <3>2
  <2>2. ASSUME NEW t \in Threads
        PROVE  LastName(t, NameOf(writer, t))'
    <3>1. PICK name : name = NameOf(writer, t)'
      OBVIOUS
    <3>2. name = NameOf(v, t)
      BY <1>1, <3>1 DEF NameOf
    <3>3. vizNext' = 1 /\ rec' = rec
      BY <1>2, <1>4
    <3>4. LastName(t, name)'
      BY <2>1, <3>2, <3>3 DEF LastName
    <3>5. QED BY <3>1, <3>4 DEF LastName
  <2>3. QED BY <1>2, <2>2 DEF PhaseKept
<1>14. QED BY <1>10, <1>11, <1>12, <1>13 DEF TInv

LEMMA CloseStep ==
  ASSUME TInv, Close
  PROVE  TInv'
<1>1. PICK v, w, K : v = writer' /\ w = writer /\ K = Known
  OBVIOUS
<1>2. /\ phase = "late" /\ phase' = "done" /\ v = Finalize(w)
      /\ UNCHANGED <<rec, tidToTgid, vizNameMap, vizNext, dropped>>
  BY <1>1 DEF Close
<1>3. Good(w, K) /\ vizNext = Len(rec.vizNames) + 1
  BY <1>1, <1>2 DEF TInv, FileKept, PhaseKept
<1>4. /\ v.deferred = <<>> /\ v.names = <<>>
      /\ v.defined = w.defined /\ v.iids = w.iids /\ v.cleared = w.cleared
      /\ v.counters = w.counters
  BY <1>2, <1>3, FinalizeFlushes
<1>5. PICK f, g : f = w.file /\ g = v.file
  OBVIOUS
<1>6. PICK n \in Nat, k \in Nat : Flushing(w, f, g, n, k)
  BY <1>2, <1>3, <1>5, FinalizeFlushes
<1>7. Known' = K /\ \A t, name : LastName(t, name)' <=> LastName(t, name)
  BY <1>1, <1>2, SameMaps, SameNames
<1>8. MapsKept'
  BY <1>2, SameMapsKept DEF TInv, MapsKept
<1>9. FilterKept'
  <2>1. EventTracks(v.file) = EventTracks(w.file)
    BY <1>5, <1>6, SameEventTracks
  <2>2. QED BY <1>1, <1>2, <2>1, NoEventStep
<1>10. PhaseKept'
  BY <1>2, <1>3 DEF PhaseKept
<1>11. Finished(v)
  <2>1. Interned(w.iids, f) /\ ClearedOnce(w.cleared, f)
    BY <1>3, <1>5 DEF Good
  <2>2. PICK iids, cleared : iids = w.iids /\ cleared = w.cleared
    OBVIOUS
  <2>3. Interned(iids, g) /\ ClearedOnce(cleared, g)
    BY <1>6, <2>1, <2>2, StaysInterned, StaysCleared
  <2>4. Hung(v.file)
    BY <1>2, <1>3, EventsHung
  <2>5. /\ w.defined \subseteq Processes \cup Groups \cup LaneTracks
        /\ w.counters \subseteq Metrics /\ w.cleared \in BOOLEAN
    BY <1>3 DEF Good, Hierarchy, Fields
  <2>6. QED BY <1>4, <1>5, <2>2, <2>3, <2>4, <2>5 DEF Finished
<1>12. \A t \in Threads : LastName(t, NameOf(w, t))
  BY <1>1, <1>2 DEF TInv, PhaseKept
<1>13. ASSUME NEW i \in 1 .. Len(v.file), v.file[i].packet = "descriptor",
              v.file[i].track[1] = "group"
       PROVE  \E t \in Threads : /\ v.file[i].track = Group(t) /\ LastName(t, v.file[i].name)
                                 /\ t \in K => v.file[i].parent = Process(ProcessOf[t])
  <2>1. GroupDescriptor(v.file[i], w, K)
    BY <1>2, <1>3, <1>13, GroupsClosed
  <2>2. QED BY <1>12, <2>1 DEF GroupDescriptor
<1>14. GroupsShown(writer.file)'
  BY <1>1, <1>7, <1>13 DEF GroupsShown
<1>15. FileKept'
  BY <1>1, <1>2, <1>11, <1>14 DEF FileKept
<1>16. QED BY <1>8, <1>9, <1>10, <1>15 DEF TInv

LEMMA InvStep == TInv /\ [Next]_vars => TInv'
<1> SUFFICES ASSUME TInv, [Next]_vars
             PROVE  TInv'
  OBVIOUS
<1>1. CASE SetPerfSource
  BY <1>1, SetPerfSourceStep
<1>2. CASE SetVizMetadata
  BY <1>2, SetVizMetadataStep
<1>3. CASE WriteNames
  BY <1>3, WriteNamesStep
<1>4. ASSUME NEW t \in Threads, SchedEvent(t)
      PROVE  TInv'
  BY <1>4, SchedEventStep
<1>5. ASSUME NEW t \in Threads, VizSpan(t)
      PROVE  TInv'
  BY <1>5, VizSpanStep
<1>6. ASSUME NEW t \in Threads, NEW type \in {"begin", "end"}, GilEvent(t, type)
      PROVE  TInv'
  BY <1>6, GilEventStep
<1>7. ASSUME NEW t \in Threads, NEW type \in {"begin", "end"}, GpuEvent(t, type)
      PROVE  TInv'
  BY <1>7, GpuEventStep
<1>8. CASE VizMetadata
  BY <1>8, VizMetadataStep
<1>9. ASSUME NEW m \in Metrics, Metric(m)
      PROVE  TInv'
  BY <1>9, MetricStep
<1>10. CASE GoOn
  BY <1>10, GoOnStep
<1>11. CASE Close
  BY <1>11, CloseStep
<1>12. CASE UNCHANGED vars
  <2>1. /\ UNCHANGED <<rec, tidToTgid, vizNameMap, vizNext, dropped>>
        /\ writer' = writer /\ phase' = phase
    BY <1>12 DEF vars
  <2>2. Known' = Known /\ \A u, name : LastName(u, name)' <=> LastName(u, name)
    BY <2>1, SameMaps, SameNames
  <2>3. MapsKept'
    BY <2>1, SameMapsKept DEF TInv, MapsKept
  <2>4. FilterKept'
    BY <2>1, NoEventStep
  <2>5. FileKept'
    BY <2>1, <2>2 DEF TInv, FileKept, GroupsShown
  <2>6. PhaseKept'
    <3>1. phase \in {"merge", "late"} => \A u \in Threads : LastName(u, NameOf(writer, u))
      BY DEF TInv, PhaseKept
    <3>2. phase \in {"merge", "late"} => \A u \in Threads : LastName(u, NameOf(writer, u))'
      BY <2>1, <3>1, SameLastNames
    <3>3. QED BY <2>1, <3>2 DEF TInv, PhaseKept
  <2>7. QED BY <2>3, <2>4, <2>5, <2>6 DEF TInv
<1>13. QED
  BY <1>1, <1>2, <1>3, <1>4, <1>5, <1>6, <1>7, <1>8, <1>9, <1>10, <1>11, <1>12 DEF Next

\* Whatever is recorded and written in whatever order, the invariant holds.
THEOREM Invariant == Spec => []TInv
<1>1. Init => TInv
  BY InvInit
<1>2. TInv /\ [Next]_vars => TInv'
  BY InvStep
<1>3. QED BY <1>1, <1>2, PTL DEF Spec

\* The maps of the engine speak of threads, and those of the writer of tracks that it has
\* defined, below parents that it has deferred.
THEOREM TypeCorrect == Spec => []TypeOK
<1>1. TInv => TypeOK
  BY TypeFromInv
<1>2. QED BY <1>1, Invariant, PTL

\* However events, names, metrics and finalize follow each other: ensure_track,
\* write_counter and flush_deferred_tracks leave no event under a track, a parent or a
\* parent's parent that the file does not describe, or describes twice.
THEOREM TracksAreDescribed == Spec => []TracksDescribed
<1>1. TInv => TracksDescribed
  BY TracksFromInv
<1>2. QED BY <1>1, Invariant, PTL

\* intern_event_name: in every file, at every moment, each iid is defined once, before its
\* first use, and the incremental state is cleared by the first event alone.
THEOREM StringsAreInterned == Spec => []StringsInterned
<1>1. TInv => StringsInterned
  BY StringsFromInv
<1>2. QED BY <1>1, Invariant, PTL

\* write_metadata of perf's names, then the viz metadata as the merge comes to them, and
\* the flush at the end: every thread group gets the last name that was announced by a
\* record that passes the pid, the name and the time filter.  What the time filter takes
\* out is not announced: NamedInWindow does not follow, and does not hold.
THEOREM NamesAreShown == Spec => []NamesShown
<1>1. TInv => NamesShown
  BY NamesFromInv
<1>2. QED BY <1>1, Invariant, PTL

\* If no recording has sched_process_fork (whose child_pid is a tid, which the run
\* thread_tgid shows), every lane of a thread with a known process is filed under
\* it, whichever kind of event defines the group first.
THEOREM FiledUnderRealProcess ==
  (\A r \in Recordings : ~r.tracepoints) => (Spec => []FiledUnderProcess)
<1> SUFFICES ASSUME \A r \in Recordings : ~r.tracepoints
             PROVE  Spec => []FiledUnderProcess
  OBVIOUS
<1>1. TInv => FiledUnderProcess
  BY FiledFromInv
<1>2. QED BY <1>1, Invariant, PTL

\* Under the same condition --filter-pid is exact for threads with a known process, and
\* no filter drops one kind of a thread's events and keeps another.
THEOREM PidFilterIsExact ==
  (\A r \in Recordings : ~r.tracepoints) => (Spec => []PidFilterExact)
<1> SUFFICES ASSUME \A r \in Recordings : ~r.tracepoints
             PROVE  Spec => []PidFilterExact
  OBVIOUS
<1>1. TInv => PidFilterExact
  BY FilterFromInv
<1>2. QED BY <1>1, Invariant, PTL

=============================================================================
