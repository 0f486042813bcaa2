--------------------------- MODULE UniverseProofs ----------------------------
(***************************************************************************)
(* The choice of the universe for every set of symbols and of readers,     *)
(* every limit of a fetch and every time for which a failure is            *)
(* remembered: types, the one selection of a sync, the failures that are   *)
(* spared, and the place of a failed candidate in the ranking.             *)
(***************************************************************************)
EXTENDS Universe, FiniteSetTheorems, TLAPS

-----------------------------------------------------------------------------
\* Maps on some of the symbols: the failure memories and the classes.

Maps(V) == UNION {[T -> V] : T \in SUBSET Symbols}

LEMMA MapsAre ==
  ASSUME NEW V, NEW m \in Maps(V)
  PROVE  DOMAIN m \subseteq Symbols /\ m \in [DOMAIN m -> V]
BY DEF Maps

LEMMA EmptyMap == ASSUME NEW V PROVE EmptyMemory \in Maps(V) /\ DOMAIN EmptyMemory = {}
<1>1. EmptyMemory \in [{} -> V] /\ {} \in SUBSET Symbols
  BY DEF EmptyMemory
<1> QED BY <1>1 DEF Maps

LEMMA WithIs ==
  ASSUME NEW m, NEW s, NEW t
  PROVE  /\ DOMAIN With(m, s, t) = DOMAIN m \cup {s}
         /\ \A x \in DOMAIN m \cup {s} : With(m, s, t)[x] = IF x = s THEN t ELSE m[x]
BY DEF With

LEMMA WithoutIs ==
  ASSUME NEW m, NEW s
  PROVE  /\ DOMAIN Without(m, s) = DOMAIN m \ {s}
         /\ \A x \in DOMAIN m \ {s} : Without(m, s)[x] = m[x]
BY DEF Without

LEMMA PrunedIs ==
  ASSUME NEW m
  PROVE  /\ DOMAIN Pruned(m) = {s \in DOMAIN m : Recent(m, s)}
         /\ \A x \in DOMAIN Pruned(m) : Pruned(m)[x] = m[x]
BY DEF Pruned

LEMMA MapsWith ==
  ASSUME NEW V, NEW m \in Maps(V), NEW s \in Symbols, NEW t \in V
  PROVE  With(m, s, t) \in Maps(V)
<1>1. With(m, s, t) \in [DOMAIN m \cup {s} -> V]
  BY MapsAre DEF With
<1>2. DOMAIN m \cup {s} \in SUBSET Symbols
  BY MapsAre
<1> QED BY <1>1, <1>2 DEF Maps

LEMMA MapsWithout ==
  ASSUME NEW V, NEW m \in Maps(V), NEW s
  PROVE  Without(m, s) \in Maps(V)
<1>1. Without(m, s) \in [DOMAIN m \ {s} -> V]
  BY MapsAre DEF Without
<1>2. DOMAIN m \ {s} \in SUBSET Symbols
  BY MapsAre
<1> QED BY <1>1, <1>2 DEF Maps

LEMMA MapsPruned ==
  ASSUME NEW V, NEW m \in Maps(V)
  PROVE  Pruned(m) \in Maps(V)
<1> DEFINE T == {s \in DOMAIN m : Recent(m, s)}
<1>1. Pruned(m) \in [T -> V]
  BY MapsAre DEF Pruned
<1>2. T \in SUBSET Symbols
  BY MapsAre
<1> QED BY <1>1, <1>2 DEF Maps

-----------------------------------------------------------------------------
\* Orders and rankings.

LEMMA OrdersAreSequences ==
  ASSUME NEW frame \in Frames, NEW order \in Provisional(frame)
  PROVE  order \in Seq(Symbols)
<1>1. PICK t \in SUBSET frame : order \in SetToSeqs(t)
  BY DEF Provisional
<1>2. t \in SUBSET Symbols /\ IsFiniteSet(t) /\ Cardinality(t) \in Nat
  BY UniverseAssumption, FS_Subset, FS_CardinalityType DEF Frames
<1>3. order \in [1..Cardinality(t) -> t]
  BY <1>1 DEF SetToSeqs
<1>4. order \in [1..Cardinality(t) -> Symbols]
  BY <1>2, <1>3
<1> QED BY <1>2, <1>4

\* The sequences of a finite set leave no element out.
LEMMA SequencesCover ==
  ASSUME NEW S, IsFiniteSet(S), NEW q \in SetToSeqs(S)
  PROVE  /\ Cardinality(S) \in Nat /\ q \in [1..Cardinality(S) -> S]
         /\ \A x \in S : \E i \in 1..Cardinality(S) : q[i] = x
<1> DEFINE n == Cardinality(S)
<1>1. n \in Nat
  BY FS_CardinalityType
<1>2. IsFiniteSet(1..n) /\ Cardinality(1..n) = n
  BY <1>1, FS_Interval
<1>3. q \in [1..n -> S] /\ \A i, j \in 1..n : i # j => q[i] # q[j]
  BY DEF SetToSeqs
<1>4. q \in Injection(1..n, S)
  BY <1>3 DEF Injection, IsInjective
<1> HIDE DEF n
<1>5. q \in Surjection(1..n, S)
  BY <1>2, <1>4, FS_Injection DEF n
<1>6. \A x \in S : \E i \in 1..n : q[i] = x
  BY <1>5 DEF Surjection
<1> QED BY <1>1, <1>3, <1>6 DEF n

\* The first of a ranking is one of the candidates, and none is of a better class.
LEMMA FirstOfARanking ==
  ASSUME NEW w, w.order \in Seq(Symbols), w.order # <<>>, NEW r \in Rankings(w),
         \A s \in ToSet(w.order) : ClassOf(w, s) \in Int
  PROVE  /\ r[1] \in ToSet(w.order) /\ r[1] \in Symbols
         /\ \A s \in ToSet(w.order) : ClassOf(w, r[1]) <= ClassOf(w, s)
<1> DEFINE all == ToSet(w.order)
           n == Cardinality(all)
           size == IF n < TopN THEN n ELSE TopN
<1>1. all \subseteq Symbols /\ all # {}
  <2> DEFINE o == w.order
  <2>1. o \in Seq(Symbols) /\ o # <<>>
    OBVIOUS
  <2> HIDE DEF o
  <2>2. 1 \in DOMAIN o /\ \A i \in DOMAIN o : o[i] \in Symbols
    BY <2>1
  <2> QED BY <2>2 DEF o, ToSet
<1>2. IsFiniteSet(all)
  BY <1>1, UniverseAssumption, FS_Subset
<1>3. n \in Nat /\ n # 0
  BY <1>1, <1>2, FS_CardinalityType, FS_EmptySet
<1>4. PICK q \in SetToSeqs(all) :
         /\ r = SubSeq(q, 1, size)
         /\ \A i, j \in DOMAIN q : i < j => ClassOf(w, q[i]) <= ClassOf(w, q[j])
  BY DEF Rankings
<1> HIDE DEF all
<1>5. q \in [1..n -> all] /\ \A x \in all : \E i \in 1..n : q[i] = x
  BY <1>2, <1>4, SequencesCover
<1>6. 1 \in 1..n /\ size \in 1..n /\ TopN \in Nat
  BY <1>3, UniverseAssumption
<1> HIDE DEF n, size
<1>7. r[1] = q[1]
  <2>1. q \in Seq(all) /\ Len(q) = n
    BY <1>3, <1>5
  <2> QED BY <1>3, <1>4, <1>6, <2>1
<1>8. r[1] \in all
  BY <1>5, <1>6, <1>7
<1>9. ASSUME NEW s \in all PROVE ClassOf(w, r[1]) <= ClassOf(w, s)
  <2>1. PICK i \in 1..n : q[i] = s
    BY <1>5
  <2>2. CASE i = 1
    BY <1>7, <1>8, <2>1, <2>2 DEF all
  <2>3. CASE i # 1
    <3>1. 1 < i /\ 1 \in DOMAIN q /\ i \in DOMAIN q
      BY <1>3, <1>5, <1>6, <2>1, <2>3
    <3> QED BY <1>4, <1>7, <2>1, <3>1
  <2> QED BY <2>2, <2>3
<1> QED BY <1>1, <1>8, <1>9 DEF all

-----------------------------------------------------------------------------
\* The parts of the types.

Places == {"idle", "frame", "load", "enrich", "save", "rank", "snapshot", "research"}
Busy == {"enrich", "save", "rank"}
Holding == {"load", "enrich", "save", "rank"}
Fetching == {"frame", "load", "enrich", "save", "rank"}

Memories == Maps(Nat)
Classes == Maps(Outcomes)
Works == [order : Seq(Symbols), next : Nat \ {0}, class : Classes, plain : SUBSET Symbols,
          memory : Memories, dirty : BOOLEAN]

\* A memory holds no failure of a later time.
Past(m) == \A s \in DOMAIN m : m[s] <= clock

Counts == clock \in 0..MaxClock /\ syncs \in 0..MaxSyncs /\ gets \in 0..MaxGets
Stores == file \in Memories /\ Past(file) /\ failed \in Memories
Selects == selection.symbol \in Symbols \cup {Anchor, None}
Fetched ==
  /\ pc \in [Actors -> Places] /\ work \in [Actors -> Works]
  /\ \A a \in Actors :
       /\ Past(work[a].memory)
       /\ pc[a] \notin Holding => work[a] = Blank
       /\ pc[a] \in Holding => work[a].order # <<>>
       /\ pc[a] = "load" => work[a].next = 1 /\ DOMAIN work[a].class = {}

TypeInv == Counts /\ Stores /\ Selects /\ Fetched

-----------------------------------------------------------------------------
\* Types are kept.

LEMMA BlankWork ==
  /\ Blank \in Works /\ Blank.order = <<>> /\ Blank.next = 1 /\ ~Blank.dirty
  /\ DOMAIN Blank.class = {} /\ DOMAIN Blank.memory = {}
<1>1. EmptyMemory \in Memories /\ EmptyMemory \in Classes /\ DOMAIN EmptyMemory = {}
  BY EmptyMap DEF Memories, Classes
<1>2. <<>> \in Seq(Symbols)
  OBVIOUS
<1> QED BY <1>1, <1>2 DEF Blank, Works

LEMMA SyncIsAnActor == "sync" \in Actors /\ \A a \in Getters : a # "sync"
BY UniverseAssumption DEF Actors

\* One fetch goes on, or starts, or ends, and the others stand still.
LEMMA OneFetchMoves ==
  ASSUME Fetched, NEW a \in Actors, NEW p \in Places, NEW w \in Works,
         pc' = [pc EXCEPT ![a] = p], work' = [work EXCEPT ![a] = w], clock' = clock,
         \A s \in DOMAIN w.memory : w.memory[s] <= clock,
         p \notin Holding => w = Blank, p \in Holding => w.order # <<>>,
         p = "load" => w.next = 1 /\ DOMAIN w.class = {}
  PROVE  Fetched'
<1>1. pc \in [Actors -> Places] /\ work \in [Actors -> Works]
  BY DEF Fetched
<1>2. \A b \in Actors : /\ pc'[b] = IF b = a THEN p ELSE pc[b]
                        /\ work'[b] = IF b = a THEN w ELSE work[b]
  BY <1>1
<1>3. pc' \in [Actors -> Places] /\ work' \in [Actors -> Works]
  BY <1>1
<1>4. ASSUME NEW b \in Actors
      PROVE  /\ \A s \in DOMAIN work'[b].memory : work'[b].memory[s] <= clock'
             /\ pc'[b] \notin Holding => work'[b] = Blank
             /\ pc'[b] \in Holding => work'[b].order # <<>>
             /\ pc'[b] = "load" => work'[b].next = 1 /\ DOMAIN work'[b].class = {}
  <2>1. CASE b = a
    BY <1>2, <2>1
  <2>2. CASE b # a
    BY <1>2, <2>2 DEF Fetched, Past
  <2> QED BY <2>1, <2>2
<1> QED BY <1>3, <1>4 DEF Fetched, Past

\* Where an actor is that has its selection.
LEMMA StoredSelection ==
  ASSUME Fetched, NEW a \in Actors, NEW sel, StoreSelection(a, sel)
  PROVE  /\ selection' = sel /\ work' = [work EXCEPT ![a] = Blank]
         /\ \E p \in {"idle", "snapshot", "research"} : pc' = [pc EXCEPT ![a] = p]
BY DEF StoreSelection, Selected, Goto

LEMMA StoringKeepsTypes ==
  ASSUME TypeInv, NEW a \in Actors, NEW sel, sel.symbol \in Symbols \cup {Anchor},
         StoreSelection(a, sel), UNCHANGED <<clock, file, counters, failed>>
  PROVE  TypeInv'
<1>1. PICK p \in {"idle", "snapshot", "research"} : pc' = [pc EXCEPT ![a] = p]
  BY StoredSelection DEF TypeInv
<1>2. Fetched'
  <2>1. p \in Places /\ p \notin Holding /\ p # "load"
    BY DEF Places, Holding
  <2> QED BY <1>1, <2>1, BlankWork, StoredSelection, OneFetchMoves DEF TypeInv
<1>3. Selects'
  BY StoredSelection DEF TypeInv, Selects
<1>4. Counts' /\ Stores'
  BY DEF TypeInv, Counts, Stores, Past, counters
<1> QED BY <1>2, <1>3, <1>4 DEF TypeInv

\* The candidates a ranking may order are of classes 1 to 4.
LEMMA ClassesAreNumbers ==
  ASSUME NEW w \in Works
  PROVE  \A s : ClassOf(w, s) \in Int /\ (s \notin DOMAIN w.class => ClassOf(w, s) = 3)
<1>1. w.class \in Maps(Outcomes)
  BY DEF Works, Classes
<1>2. w.class \in [DOMAIN w.class -> Outcomes]
  BY <1>1, MapsAre
<1> QED BY <1>2 DEF ClassOf, Outcomes

LEMMA RankedSelection ==
  ASSUME TypeInv, NEW a \in Actors, pc[a] \in Busy, NEW r \in Rankings(work[a])
  PROVE  /\ r[1] \in ToSet(work[a].order) /\ r[1] \in Symbols
         /\ \A s \in ToSet(work[a].order) : ClassOf(work[a], r[1]) <= ClassOf(work[a], s)
<1>1. work[a] \in Works /\ work[a].order # <<>>
  BY DEF TypeInv, Fetched, Busy, Holding
<1>2. work[a].order \in Seq(Symbols)
  BY <1>1 DEF Works
<1> QED BY <1>1, <1>2, ClassesAreNumbers, FirstOfARanking

\* The candidate a fetch comes to next.
LEMMA NextCandidate ==
  ASSUME TypeInv, NEW a \in Actors, Remaining(work[a])
  PROVE  work[a].order[work[a].next] \in Symbols
<1>1. work[a].order \in Seq(Symbols) /\ work[a].next \in Nat \ {0}
  BY DEF TypeInv, Fetched, Works
<1> DEFINE o == work[a].order
           n == work[a].next
<1>2. n <= Len(o)
  BY DEF Remaining
<1> HIDE DEF o, n
<1>3. o[n] \in Symbols
  BY <1>1, <1>2 DEF o, n
<1> QED BY <1>3 DEF o, n

LEMMA TypesAreKept == Spec => []TypeInv
<1>0. Outcomes = 1..4 /\ MaxClock \in Nat /\ MaxSyncs \in Nat /\ MaxGets \in Nat
  BY UniverseAssumption DEF Outcomes
<1>1. Init => TypeInv
  <2> SUFFICES ASSUME Init PROVE TypeInv
    OBVIOUS
  <2>1. Counts
    BY <1>0 DEF Init, Counts
  <2>2. Stores
    BY EmptyMap DEF Init, Stores, Memories, Past
  <2>3. Selects
    BY DEF Init, Selects, NoSelection
  <2>4. Fetched
    BY BlankWork DEF Init, Fetched, Places, Past, Holding
  <2> QED BY <2>1, <2>2, <2>3, <2>4 DEF TypeInv
<1>2. TypeInv /\ [Next]_vars => TypeInv'
  <2> SUFFICES ASSUME TypeInv, [Next]_vars PROVE TypeInv'
    OBVIOUS
  <2>0. Counts /\ Stores /\ Selects /\ Fetched /\ clock \in Nat
    BY <1>0 DEF TypeInv, Counts
  <2>00. pc \in [Actors -> Places] /\ work \in [Actors -> Works]
    BY <2>0 DEF Fetched
  <2>k. UNCHANGED <<clock, syncs, gets>> => Counts'
    BY <2>0 DEF Counts
  <2>s. UNCHANGED <<clock, file, failed>> => Stores'
    BY <2>0 DEF Stores, Past
  <2>l. UNCHANGED selection => Selects'
    BY <2>0 DEF Selects
  <2>1. CASE Refresh
    <3>1. Counts'
      BY <1>0, <2>0, <2>1 DEF Refresh, Counts
    <3>2. Fetched'
      <4>1. "sync" \in Actors /\ work["sync"] = Blank
        BY <2>0, <2>1, SyncIsAnActor DEF Refresh, Fetched, Holding
      <4>2. pc' = [pc EXCEPT !["sync"] = "frame"] /\ work' = [work EXCEPT !["sync"] = Blank]
        BY <2>1, <2>00, <4>1 DEF Refresh, Goto
      <4>3. "frame" \in Places /\ "frame" \notin Holding /\ "frame" # "load"
        BY DEF Places, Holding
      <4> QED BY <2>0, <2>1, <4>1, <4>2, <4>3, BlankWork, OneFetchMoves DEF Refresh
    <3> QED BY <2>1, <2>s, <2>l, <3>1, <3>2 DEF Refresh, TypeInv
  <2>2. ASSUME NEW a \in Actors, Read(a) PROVE TypeInv'
    <3>1. Counts'
      BY <1>0, <2>0, <2>2 DEF Read, Counts, history
    <3>2. Fetched'
      <4>1. work[a] = Blank
        BY <2>0, <2>2 DEF Read, Fetched, Holding
      <4>2. /\ \E p \in {"idle", "snapshot", "research", "frame"} : pc' = [pc EXCEPT ![a] = p]
            /\ work' = [work EXCEPT ![a] = Blank]
        BY <2>2, <2>00, <4>1 DEF Read, Selected, Goto
      <4>3. PICK p \in {"idle", "snapshot", "research", "frame"} : pc' = [pc EXCEPT ![a] = p]
        BY <4>2
      <4>4. p \in Places /\ p \notin Holding /\ p # "load"
        BY DEF Places, Holding
      <4> QED BY <2>0, <2>2, <4>2, <4>3, <4>4, BlankWork, OneFetchMoves DEF Read
    <3> QED BY <2>2, <2>s, <2>l, <3>1, <3>2 DEF Read, TypeInv, history
  <2>3. ASSUME NEW a \in Actors, NEW frame \in Frames, NEW order \in Provisional(frame),
               NEW plain \in Untagged(order), TakeFrame(a, order, plain)
        PROVE  TypeInv'
    <3>1. CASE order = <<>>
      <4>1. StaticSelection.symbol = Anchor
        BY DEF StaticSelection
      <4> QED BY <2>3, <3>1, <4>1, StoringKeepsTypes DEF TakeFrame
    <3>2. CASE order # <<>>
      <4> DEFINE w == [Blank EXCEPT !.order = order, !.plain = plain]
      <4>1. order \in Seq(Symbols) /\ plain \in SUBSET Symbols
        <5>1. order \in Seq(Symbols)
          BY OrdersAreSequences
        <5> QED BY <5>1 DEF Untagged, ToSet
      <4>2. /\ w \in Works /\ w.order = order /\ w.next = 1 /\ DOMAIN w.class = {}
            /\ DOMAIN w.memory = {}
        BY <4>1, BlankWork DEF Works
      <4>3. pc' = [pc EXCEPT ![a] = "load"] /\ work' = [work EXCEPT ![a] = w]
        BY <2>3, <3>2 DEF TakeFrame, Goto
      <4> HIDE DEF w
      <4>4. "load" \in Places /\ "load" \in Holding
        BY DEF Places, Holding
      <4>5. UNCHANGED <<clock, file, failed, selection, counters>>
        BY <2>3, <3>2 DEF TakeFrame
      <4>6. Fetched'
        BY <2>0, <3>2, <4>2, <4>3, <4>4, <4>5, OneFetchMoves
      <4> QED BY <2>k, <2>s, <2>l, <4>5, <4>6 DEF counters, TypeInv
    <3> QED BY <3>1, <3>2
  <2>4. ASSUME NEW a \in Actors, LoadMemory(a) PROVE TypeInv'
    <3> DEFINE w == [work[a] EXCEPT !.memory = Pruned(file)]
    <3>1. work[a] \in Works /\ work[a].order # <<>>
      BY <2>0, <2>4, <2>00 DEF Fetched, LoadMemory, Holding
    <3>2. w \in Works /\ w.order # <<>> /\ w.memory = Pruned(file)
      BY <2>0, <3>1, MapsPruned DEF Works, Stores, Memories
    <3>3. \A s \in DOMAIN w.memory : w.memory[s] <= clock
      BY <2>0, <3>2, PrunedIs DEF Stores, Past
    <3>4. pc' = [pc EXCEPT ![a] = "enrich"] /\ work' = [work EXCEPT ![a] = w]
      BY <2>4, <2>00 DEF LoadMemory, Goto
    <3> HIDE DEF w
    <3>5. "enrich" \in Places /\ "enrich" \in Holding /\ "enrich" # "load"
      BY DEF Places, Holding
    <3>6. UNCHANGED <<clock, file, failed, selection, counters>>
      BY <2>4 DEF LoadMemory
    <3>7. Fetched'
      BY <2>0, <3>2, <3>3, <3>4, <3>5, <3>6, OneFetchMoves
    <3> QED BY <2>k, <2>s, <2>l, <3>6, <3>7 DEF counters, TypeInv
  <2>5. ASSUME NEW a \in Actors, Skip(a) PROVE TypeInv'
    <3> DEFINE s == work[a].order[work[a].next]
               c == With(work[a].class, s, 4)
               n == work[a].next + 1
               w == [work[a] EXCEPT !.next = n, !.class = c, !.plain = @ \ {s}]
    <3>1. work[a] \in Works /\ work[a].order # <<>> /\ pc[a] = "enrich" /\ s \in Symbols
      BY <2>0, <2>5, <2>00, NextCandidate DEF Fetched, Skip, Holding
    <3>2. w \in Works /\ w.order = work[a].order /\ w.memory = work[a].memory
      <4>1. c \in Classes
        BY <1>0, <3>1, MapsWith DEF Works, Classes
      <4>2. n \in Nat \ {0}
        BY <3>1 DEF Works
      <4> HIDE DEF s, c, n
      <4> QED BY <3>1, <4>1, <4>2 DEF Works
    <3>4. pc' = [pc EXCEPT ![a] = "enrich"] /\ work' = [work EXCEPT ![a] = w]
      BY <2>5, <2>00, <3>1 DEF Skip
    <3> HIDE DEF w
    <3>5. "enrich" \in Places /\ "enrich" \in Holding /\ "enrich" # "load"
      BY DEF Places, Holding
    <3>6. UNCHANGED <<clock, file, failed, selection, counters>>
      BY <2>5 DEF Skip, history
    <3>7. \A x \in DOMAIN w.memory : w.memory[x] <= clock
      BY <2>0, <3>2 DEF Fetched, Past
    <3>8. Fetched'
      BY <2>0, <3>1, <3>2, <3>4, <3>5, <3>6, <3>7, OneFetchMoves
    <3> QED BY <2>k, <2>s, <2>l, <3>6, <3>8 DEF counters, TypeInv
  <2>6. ASSUME NEW a \in Actors, NEW class \in Outcomes, Ask(a, class) PROVE TypeInv'
    <3> DEFINE s == work[a].order[work[a].next]
               m == work[a].memory
               c == With(work[a].class, s, class)
               n == work[a].next + 1
               k == IF class = 4 THEN With(m, s, clock) ELSE Without(m, s)
               d == work[a].dirty \/ class = 4 \/ s \in DOMAIN m
               w == [work[a] EXCEPT !.next = n, !.class = c, !.memory = k, !.dirty = d,
                                    !.plain = @ \ {s}]
    <3>1. work[a] \in Works /\ work[a].order # <<>> /\ pc[a] = "enrich" /\ s \in Symbols
      BY <2>0, <2>6, <2>00, NextCandidate DEF Fetched, Ask, Holding
    <3>2. w \in Works /\ w.order = work[a].order /\ w.memory = k
      <4>1. c \in Classes /\ k \in Memories
        BY <2>0, <3>1, MapsWith, MapsWithout DEF Works, Classes, Memories
      <4>2. n \in Nat \ {0}
        BY <3>1 DEF Works
      <4>3. d \in BOOLEAN
        OBVIOUS
      <4> HIDE DEF s, c, n, k, d
      <4> QED BY <3>1, <4>1, <4>2, <4>3 DEF Works
    <3>3. \A x \in DOMAIN k : k[x] <= clock
      <4>1. \A x \in DOMAIN m : m[x] <= clock
        BY <2>0 DEF Fetched, Past
      <4> HIDE DEF m, s
      <4>2. CASE class = 4
        <5>1. k = With(m, s, clock)
          BY <4>2
        <5> HIDE DEF k
        <5>2. \A x \in DOMAIN k : x \in DOMAIN m \cup {s} /\ k[x] = IF x = s THEN clock ELSE m[x]
          <6>1. /\ DOMAIN With(m, s, clock) = DOMAIN m \cup {s}
                /\ \A x \in DOMAIN m \cup {s} : With(m, s, clock)[x] = IF x = s THEN clock ELSE m[x]
            BY DEF With
          <6> QED BY <5>1, <6>1
        <5> QED BY <2>0, <4>1, <5>2
      <4>3. CASE class # 4
        <5>1. k = Without(m, s)
          BY <4>3
        <5> HIDE DEF k
        <5>2. \A x \in DOMAIN k : x \in DOMAIN m /\ k[x] = m[x]
          <6>1. /\ DOMAIN Without(m, s) = DOMAIN m \ {s}
                /\ \A x \in DOMAIN m \ {s} : Without(m, s)[x] = m[x]
            BY WithoutIs
          <6> QED BY <5>1, <6>1
        <5> QED BY <4>1, <5>2
      <4> QED BY <4>2, <4>3
    <3>4. pc' = [pc EXCEPT ![a] = "enrich"] /\ work' = [work EXCEPT ![a] = w]
      BY <2>6, <2>00, <3>1 DEF Ask
    <3>5. failed' \in Memories
      BY <2>0, <2>6, <3>1, MapsWith, MapsWithout DEF Ask, Stores, Memories
    <3> HIDE DEF w, k
    <3>6. "enrich" \in Places /\ "enrich" \in Holding /\ "enrich" # "load"
      BY DEF Places, Holding
    <3>7. UNCHANGED <<clock, file, selection, counters>>
      BY <2>6 DEF Ask
    <3>8. Fetched'
      BY <2>0, <3>1, <3>2, <3>3, <3>4, <3>6, <3>7, OneFetchMoves
    <3>9. Stores'
      BY <2>0, <3>5, <3>7 DEF Stores, Past
    <3> QED BY <2>k, <2>l, <3>7, <3>8, <3>9 DEF counters, TypeInv
  <2>7. ASSUME NEW a \in Actors, Truncate(a) \/ Save(a) PROVE TypeInv'
    <3>1. work[a] \in Works /\ pc[a] \in {"enrich", "save"} /\ work[a].order # <<>>
          /\ \A s \in DOMAIN work[a].memory : work[a].memory[s] <= clock
      BY <2>0, <2>7 DEF Truncate, Save, Fetched, Holding, Past
    <3>2. PICK p \in {"save", "rank"} : pc' = [pc EXCEPT ![a] = p]
      BY <2>7 DEF Truncate, Save, Goto
    <3>3. /\ work' = [work EXCEPT ![a] = work[a]]
          /\ UNCHANGED <<clock, failed, selection, counters>>
      BY <2>00, <2>7 DEF Truncate, Save, history
    <3>4. p \in Places /\ p \in Holding /\ p # "load"
      BY DEF Places, Holding
    <3>5. Fetched'
      BY <2>0, <3>1, <3>2, <3>3, <3>4, OneFetchMoves
    <3>6. file' \in Memories /\ \A s \in DOMAIN file' : file'[s] <= clock
      <4>1. file' \in {EmptyMemory, Pruned(work[a].memory)}
        BY <2>7 DEF Truncate, Save, Saved
      <4>2. Pruned(work[a].memory) \in Memories
        BY <3>1, MapsPruned DEF Works, Memories
      <4>3. CASE file' = EmptyMemory
        BY <4>3, EmptyMap DEF Memories
      <4>4. CASE file' = Pruned(work[a].memory)
        <5>1. /\ DOMAIN file' \subseteq DOMAIN work[a].memory
              /\ \A s \in DOMAIN file' : file'[s] = work[a].memory[s]
          BY <4>4, PrunedIs
        <5> QED BY <3>1, <4>2, <4>4, <5>1
      <4> QED BY <4>1, <4>3, <4>4
    <3>7. Stores'
      BY <2>0, <3>3, <3>6 DEF Stores, Past
    <3> QED BY <2>k, <2>l, <3>3, <3>5, <3>7 DEF counters, TypeInv
  <2>8. ASSUME NEW a \in Actors, Rank(a) PROVE TypeInv'
    <3>1. PICK r \in Rankings(work[a]) :
            StoreSelection(a, [symbol |-> r[1], candidates |-> r,
                               factors |-> r[1] \notin work[a].plain])
      BY <2>8 DEF Rank
    <3>2. pc[a] \in Busy
      BY <2>8 DEF Rank, Busy
    <3>3. r[1] \in Symbols
      BY <3>2, RankedSelection
    <3>4. UNCHANGED <<clock, file, counters, failed>>
      BY <2>8 DEF Rank
    <3> QED BY <3>1, <3>3, <3>4, StoringKeepsTypes
  <2>9. ASSUME NEW batch \in SUBSET Symbols, Research(batch) PROVE TypeInv'
    <3>1. "sync" \in Actors /\ work["sync"] = Blank
      BY <2>0, <2>9, SyncIsAnActor DEF Research, Fetched, Holding
    <3>2. /\ pc' = [pc EXCEPT !["sync"] = "idle"] /\ work' = [work EXCEPT !["sync"] = Blank]
          /\ UNCHANGED <<clock, file, failed, selection, counters>>
      BY <2>00, <2>9, <3>1 DEF Research, Goto, history
    <3>3. "idle" \in Places /\ "idle" \notin Holding
      BY DEF Places, Holding
    <3>4. Fetched'
      BY <2>0, <3>1, <3>2, <3>3, BlankWork, OneFetchMoves
    <3> QED BY <2>k, <2>s, <2>l, <3>2, <3>4 DEF counters, TypeInv
  <2>10. CASE Crash
    <3>1. Fetched'
      BY <2>10, BlankWork DEF Crash, Fetched, Places, Holding, Past
    <3>2. UNCHANGED <<clock, file, failed, selection, counters>>
      BY <2>10 DEF Crash
    <3> QED BY <2>k, <2>s, <2>l, <3>1, <3>2 DEF counters, TypeInv
  <2>11. CASE Tick
    <3>1. /\ clock' = clock + 1 /\ clock < MaxClock
          /\ UNCHANGED <<file, failed, selection, pc, work, counters>>
      BY <2>11 DEF Tick, history
    <3>2. Counts'
      BY <1>0, <2>0, <3>1 DEF Counts, counters
    <3>3. ASSUME NEW m \in Memories, \A s \in DOMAIN m : m[s] <= clock
          PROVE  \A s \in DOMAIN m : m[s] <= clock'
      <4>1. \A s \in DOMAIN m : m[s] \in Nat
        BY MapsAre DEF Memories
      <4> QED BY <2>0, <3>1, <3>3, <4>1
    <3>4. Stores'
      BY <2>0, <3>1, <3>3 DEF Stores, Past
    <3>5. Fetched'
      <4>1. \A a \in Actors : \A s \in DOMAIN work[a].memory : work[a].memory[s] <= clock'
        BY <2>0, <2>00, <3>3 DEF Fetched, Past, Works
      <4> QED BY <2>0, <3>1, <4>1 DEF Fetched, Past
    <3> QED BY <2>l, <3>1, <3>2, <3>4, <3>5 DEF TypeInv
  <2>12. CASE UNCHANGED vars
    BY <2>12 DEF vars, counters, history, TypeInv, Counts, Stores, Selects, Fetched, Past
  <2> QED BY <2>1, <2>2, <2>3, <2>4, <2>5, <2>6, <2>7, <2>8, <2>9, <2>10, <2>11, <2>12
          DEF Next, Fetches
<1> QED BY <1>1, <1>2, PTL DEF Spec

\* Counters, memories, selections and fetches are well-formed.
THEOREM TypeInvariant == Spec => []TypeOK
<1>1. TypeInv => TypeOK
  <2> SUFFICES ASSUME TypeInv PROVE TypeOK
    OBVIOUS
  <2>1. file \in Maps(Nat) /\ \A s \in DOMAIN file : file[s] <= clock
    BY DEF TypeInv, Stores, Memories, Past
  <2>2. DOMAIN file \subseteq Symbols /\ \A s \in DOMAIN file : file[s] \in Nat
    BY <2>1, MapsAre
  <2>3. clock \in Nat /\ \A s \in DOMAIN file : file[s] \in 0..clock
    BY <2>1, <2>2, UniverseAssumption DEF TypeInv, Counts
  <2> QED BY <2>2, <2>3 DEF TypeInv, TypeOK, Counts, Selects, Fetched, Places
<1> QED BY <1>1, TypesAreKept, PTL

-----------------------------------------------------------------------------
\* What a sync keeps to.  Until its first selection it uses none; between that selection and
\* its snapshot the stored selection is its own, unless a GET has stored another; a second
\* fetch of its own means that the first had no factors.
OneSync ==
  /\ pc["sync"] = "idle" => used = NoSelection
  /\ pc["sync"] \in {"snapshot", "research"} => used # NoSelection
  /\ used # NoSelection => used.symbol # None
  /\ pc["sync"] = "snapshot" /\ ~crossed => selection = used
  /\ pc["sync"] \in Fetching /\ used # NoSelection /\ ~crossed => ~used.factors
  /\ pc["sync"] = "research" /\ ~crossed /\ used.factors => focus = used.symbol

\* Whoever stores a selection: the sync as its first or in its snapshot, or a GET.
LEMMA StoringKeepsOneSync ==
  ASSUME TypeInv, OneSync, NEW a \in Actors, pc[a] \in Fetching, NEW sel, sel.symbol # None,
         StoreSelection(a, sel)
  PROVE  OneSync'
<1>1. pc \in [Actors -> Places] /\ "sync" \in Actors
  BY SyncIsAnActor DEF TypeInv, Fetched
<1>2. sel # NoSelection
  BY DEF NoSelection
<1>3. CASE a = "sync" /\ used = NoSelection
  <2>1. /\ used' = sel /\ selection' = sel /\ pc'["sync"] = "snapshot"
    BY <1>1, <1>3 DEF StoreSelection, Selected, Goto
  <2> QED BY <1>2, <2>1 DEF OneSync, Fetching
<1>4. CASE a = "sync" /\ used # NoSelection
  <2>1. /\ used' = used /\ pc'["sync"] = "research" /\ focus' = sel.symbol
        /\ crossed' = (crossed \/ FALSE)
    BY <1>1, <1>4 DEF StoreSelection, Selected, Goto
  <2>2. ~crossed' => ~crossed
    BY <2>1
  <2> QED BY <1>4, <2>1, <2>2 DEF OneSync, Fetching
<1>5. CASE a # "sync"
  <2>1. /\ used' = used /\ pc'["sync"] = pc["sync"] /\ focus' = focus
        /\ crossed' = (crossed \/ used # NoSelection)
    BY <1>1, <1>5 DEF StoreSelection, Selected, Goto
  <2>2. ~crossed' => used = NoSelection
    BY <2>1
  <2>3. used' = NoSelection => pc'["sync"] \notin {"snapshot", "research"}
    BY <2>1 DEF OneSync
  <2> QED BY <2>1, <2>2, <2>3 DEF OneSync
<1> QED BY <1>3, <1>4, <1>5

LEMMA SyncInvariant == Spec => []OneSync
<1>1. Init => OneSync
  BY SyncIsAnActor DEF Init, OneSync, Fetching
<1>2. TypeInv /\ OneSync /\ [Next]_vars => OneSync'
  <2> SUFFICES ASSUME TypeInv, OneSync, [Next]_vars PROVE OneSync'
    OBVIOUS
  <2>0. pc \in [Actors -> Places] /\ "sync" \in Actors
    BY SyncIsAnActor DEF TypeInv, Fetched
  <2>1. CASE Refresh
    <3>1. /\ pc["sync"] = "idle" /\ pc'["sync"] = "frame" /\ UNCHANGED used
      BY <2>0, <2>1 DEF Refresh, Goto
    <3> QED BY <3>1 DEF OneSync, Fetching
  <2>2. ASSUME Read("sync") PROVE OneSync'
    <3>1. /\ pc["sync"] = "snapshot" /\ UNCHANGED <<selection, crossed>>
          /\ used # NoSelection
      BY <2>2 DEF Read, OneSync, history
    <3>2. CASE Usable(selection)
      <4>1. used' = used /\ focus' = selection.symbol /\ pc'["sync"] = "research"
        BY <2>0, <2>2, <3>1, <3>2 DEF Read, Selected, Goto
      <4> QED BY <3>1, <4>1 DEF OneSync, Fetching
    <3>3. CASE ~Usable(selection)
      <4>1. used' = used /\ pc'["sync"] = "frame"
        BY <2>0, <2>2, <3>3 DEF Read, Goto
      <4>2. ~crossed => ~used.factors
        BY <3>1, <3>3 DEF OneSync, Usable
      <4> QED BY <3>1, <4>1, <4>2 DEF OneSync, Fetching
    <3> QED BY <3>2, <3>3
  <2>3. ASSUME NEW a \in Actors, a # "sync", Read(a) PROVE OneSync'
    <3>1. /\ UNCHANGED <<selection, crossed, used, focus>> /\ pc'["sync"] = pc["sync"]
      BY <2>0, <2>3 DEF Read, Selected, Goto, history
    <3> QED BY <3>1 DEF OneSync
  <2>4. ASSUME NEW a \in Actors, NEW frame \in Frames, NEW order \in Provisional(frame),
               NEW plain \in Untagged(order), TakeFrame(a, order, plain)
        PROVE  OneSync'
    <3>1. CASE order = <<>>
      <4>1. StaticSelection.symbol # None /\ pc[a] \in Fetching
        BY <2>4, UniverseAssumption DEF StaticSelection, TakeFrame, Fetching
      <4> QED BY <2>4, <3>1, <4>1, StoringKeepsOneSync DEF TakeFrame
    <3>2. CASE order # <<>>
      <4>1. /\ UNCHANGED <<selection, crossed, used, focus>> /\ pc[a] = "frame"
            /\ pc' = [pc EXCEPT ![a] = "load"]
        BY <2>4, <3>2 DEF TakeFrame, Goto
      <4> QED BY <2>0, <4>1 DEF OneSync, Fetching
    <3> QED BY <3>1, <3>2
  <2>5. ASSUME NEW a \in Actors,
               LoadMemory(a) \/ Skip(a) \/ (\E class \in Outcomes : Ask(a, class))
                 \/ Truncate(a) \/ Save(a)
        PROVE  OneSync'
    <3>1. /\ UNCHANGED <<selection, crossed, used, focus>>
          /\ \E p \in {"enrich", "save", "rank"} : pc' = [pc EXCEPT ![a] = p]
          /\ pc[a] \in Fetching
      <4>1. CASE LoadMemory(a) \/ Truncate(a) \/ Save(a)
        BY <4>1 DEF LoadMemory, Truncate, Save, Goto, history, Fetching
      <4>2. CASE Skip(a) \/ (\E class \in Outcomes : Ask(a, class))
        <5>1. pc[a] = "enrich" /\ pc' = pc /\ UNCHANGED <<selection, crossed, used, focus>>
          BY <4>2 DEF Skip, Ask, history
        <5>2. pc' = [pc EXCEPT ![a] = "enrich"]
          BY <2>0, <5>1
        <5> QED BY <5>1, <5>2 DEF Fetching
      <4> QED BY <2>5, <4>1, <4>2
    <3>2. PICK p \in {"enrich", "save", "rank"} : pc' = [pc EXCEPT ![a] = p]
      BY <3>1
    <3>3. pc'["sync"] = IF a = "sync" THEN p ELSE pc["sync"]
      BY <2>0, <3>2
    <3> QED BY <3>1, <3>3 DEF OneSync, Fetching
  <2>6. ASSUME NEW a \in Actors, Rank(a) PROVE OneSync'
    <3>1. PICK r \in Rankings(work[a]) :
            StoreSelection(a, [symbol |-> r[1], candidates |-> r,
                               factors |-> r[1] \notin work[a].plain])
      BY <2>6 DEF Rank
    <3>2. pc[a] \in Busy /\ pc[a] \in Fetching
      BY <2>6 DEF Rank, Busy, Fetching
    <3>3. r[1] # None
      BY <3>2, RankedSelection, UniverseAssumption
    <3> QED BY <3>1, <3>2, <3>3, StoringKeepsOneSync
  <2>7. ASSUME NEW batch \in SUBSET Symbols, Research(batch) PROVE OneSync'
    <3>1. pc'["sync"] = "idle" /\ used' = NoSelection
      BY <2>0, <2>7 DEF Research, Goto
    <3> QED BY <3>1 DEF OneSync, Fetching
  <2>8. CASE Crash
    <3>1. pc'["sync"] = "idle" /\ used' = NoSelection
      BY <2>0, <2>8 DEF Crash
    <3> QED BY <3>1 DEF OneSync, Fetching
  <2>9. CASE Tick \/ UNCHANGED vars
    <3>1. UNCHANGED <<selection, pc, used, focus, crossed>>
      BY <2>9 DEF Tick, vars, history
    <3> QED BY <3>1 DEF OneSync
  <2>10. ASSUME NEW a \in Actors, Read(a) PROVE OneSync'
    BY <2>2, <2>3, <2>10
  <2> QED BY <2>1, <2>10, <2>4, <2>5, <2>6, <2>7, <2>8, <2>9 DEF Next, Fetches
<1> QED BY <1>1, <1>2, TypesAreKept, PTL DEF Spec

\* What a sync researches and the symbol of its snapshot come from one selection, for any
\* number of readers, unless one of them stores another in between or the sync's own selection
\* has no factors.
THEOREM SyncsAgree == Spec => []OneSelectionPerSync
<1>1. OneSync => OneSelectionPerSync
  BY DEF OneSync, OneSelectionPerSync
<1> QED BY <1>1, SyncInvariant, PTL

-----------------------------------------------------------------------------
\* A memory m is faithful at a time c, when the failures are those of f: it holds every recent
\* failure with its time, and what it holds as recent is a failure that no later request has
\* lifted.
Recently(c, m, s) == s \in DOMAIN m /\ m[s] >= c - TTL
Faithful(f, c, m) ==
  \A s : /\ Recently(c, f, s) => s \in DOMAIN m /\ m[s] = f[s]
         /\ Recently(c, m, s) => s \in DOMAIN f

LEMMA FailureIsNoted ==
  ASSUME NEW f, NEW c, NEW m, NEW s, Faithful(f, c, m)
  PROVE  Faithful(With(f, s, c), c, With(m, s, c))
BY WithIs DEF Faithful, Recently, With

LEMMA FailureIsLifted ==
  ASSUME NEW f, NEW c, NEW m, NEW s, Faithful(f, c, m)
  PROVE  Faithful(Without(f, s), c, Without(m, s))
BY DEF Faithful, Recently, Without

LEMMA PruningIsFaithful ==
  ASSUME NEW f, NEW m, Faithful(f, clock, m)
  PROVE  Faithful(f, clock, Pruned(m))
BY DEF Faithful, Recently, Pruned, Recent

LEMMA TimeKeepsFaith ==
  ASSUME NEW f \in Memories, NEW m \in Memories, NEW c \in Nat, Faithful(f, c, m)
  PROVE  Faithful(f, c + 1, m)
<1>1. ASSUME NEW g \in Memories, NEW s, Recently(c + 1, g, s) PROVE Recently(c, g, s)
  <2>1. s \in DOMAIN g /\ g[s] \in Nat
    BY <1>1, MapsAre DEF Memories, Recently
  <2> QED BY <1>1, <2>1, UniverseAssumption DEF Recently
<1> QED BY <1>1 DEF Faithful

\* A file may keep a failure that was lifted if it holds it no longer as a recent one.
LEMMA OldFailureIsLifted ==
  ASSUME NEW f, NEW c, NEW m, NEW s, Faithful(f, c, m), ~Recently(c, m, s)
  PROVE  Faithful(Without(f, s), c, m)
BY DEF Faithful, Recently, Without

\* The classes of a fetch say which of the candidates it has looked at have failed.
Classed(w, f) ==
  /\ \A i \in 1..(w.next - 1) : w.order[i] \in DOMAIN w.class
  /\ \A s \in DOMAIN w.class : w.class[s] = 4 <=> s \in DOMAIN f

\* It keeps to that when it has looked at one more.
LEMMA OneMoreClass ==
  ASSUME NEW v \in Works, NEW f, NEW g, NEW w, NEW k, Classed(v, f),
         w.order = v.order, w.next = v.next + 1, w.class = With(v.class, v.order[v.next], k),
         \A x : x # v.order[v.next] => (x \in DOMAIN f <=> x \in DOMAIN g),
         k = 4 <=> v.order[v.next] \in DOMAIN g
  PROVE  Classed(w, g)
<1> DEFINE s == v.order[v.next]
           n == v.next
<1>1. n \in Nat \ {0}
  BY DEF Works
<1>2. /\ DOMAIN w.class = DOMAIN v.class \cup {s}
      /\ \A x \in DOMAIN v.class \cup {s} : w.class[x] = IF x = s THEN k ELSE v.class[x]
  BY DEF With
<1>3. \A i \in 1..(n - 1) : v.order[i] \in DOMAIN v.class
  BY DEF Classed
<1>4. \A i \in 1..n : v.order[i] \in DOMAIN w.class
  <2> TAKE i \in 1..n
  <2>1. CASE i = n
    BY <1>2, <2>1
  <2>2. CASE i # n
    <3>1. i \in 1..(n - 1)
      BY <1>1, <2>2
    <3> QED BY <1>2, <1>3, <3>1
  <2> QED BY <2>1, <2>2
<1>5. \A i \in 1..(w.next - 1) : w.order[i] \in DOMAIN w.class
  <2> HIDE DEF s
  <2>1. w.next - 1 = n
    BY <1>1
  <2> QED BY <1>4, <2>1
<1>6. \A x \in DOMAIN w.class : w.class[x] = 4 <=> x \in DOMAIN g
  <2> TAKE x \in DOMAIN w.class
  <2>1. CASE x = s
    BY <1>2, <2>1
  <2>2. CASE x # s
    <3>1. x \in DOMAIN v.class /\ w.class[x] = v.class[x]
      BY <1>2, <2>2
    <3>2. v.class[x] = 4 <=> x \in DOMAIN f
      BY <3>1 DEF Classed
    <3> QED BY <2>2, <3>1, <3>2
  <2> QED BY <2>1, <2>2
<1> QED BY <1>5, <1>6 DEF Classed

\* While no two fetches overlap and no process dies: one fetch is at work at most, and it has
\* a faithful memory; the file is faithful as long as that fetch has nothing to save, and all
\* that is recent in the file is in its memory; its classes are those of the failures.
Alone == \A a, b \in Actors : pc[a] \in Busy /\ pc[b] \in Busy => a = b
Saving(a) == pc[a] = "save" \/ (pc[a] = "enrich" /\ work[a].dirty)
Tracked ==
  /\ Alone
  /\ \A a \in Actors : pc[a] \in {"enrich", "save"} => Faithful(failed, clock, work[a].memory)
  /\ (\A a \in Actors : ~Saving(a)) => Faithful(failed, clock, file)
  /\ \A a \in Actors : pc[a] = "enrich" /\ ~work[a].dirty =>
       \A s : Recently(clock, file, s) => s \in DOMAIN work[a].memory
  /\ \A a \in Actors : pc[a] \in Busy => Classed(work[a], failed)
  /\ pestered = {}
TrackedInv == ~astray => Tracked

\* The fetch at work settles all of it.
LEMMA OneAtWork ==
  ASSUME NEW a \in Actors, \A b \in Actors : b # a => pc'[b] \notin Busy,
         pc'[a] \in {"enrich", "save"} => Faithful(failed', clock', work'[a].memory),
         ~Saving(a)' => Faithful(failed', clock', file'),
         pc'[a] = "enrich" /\ ~work'[a].dirty =>
           \A s : Recently(clock', file', s) => s \in DOMAIN work'[a].memory,
         pc'[a] \in Busy => Classed(work'[a], failed'), pestered' = {}
  PROVE  Tracked'
<1>1. Alone'
  BY DEF Alone
<1>2. \A b \in Actors : pc'[b] \in {"enrich", "save"} => b = a
  BY DEF Busy
<1>3. \A b \in Actors : pc'[b] \in Busy => b = a
  OBVIOUS
<1> QED BY <1>1, <1>2, <1>3 DEF Tracked

\* An actor with nothing to save ends its fetch, or goes on without one.
LEMMA OneIsAway ==
  ASSUME TypeInv, Tracked, NEW a \in Actors, NEW p, p \notin Busy, NEW w, ~Saving(a),
         pc' = [pc EXCEPT ![a] = p], work' = [work EXCEPT ![a] = w],
         UNCHANGED <<clock, file, failed, pestered>>
  PROVE  Tracked'
<1>1. pc \in [Actors -> Places] /\ work \in [Actors -> Works]
  BY DEF TypeInv, Fetched
<1>2. /\ pc'[a] = p
      /\ \A b \in Actors : b # a => pc'[b] = pc[b] /\ work'[b] = work[b]
  BY <1>1
<1>3. \A b \in Actors : pc'[b] \in Busy => b # a
  BY <1>2
<1>4. Alone'
  BY <1>2, <1>3 DEF Tracked, Alone
<1>5. p \notin {"enrich", "save"}
  BY DEF Busy
<1>6. ASSUME \A b \in Actors : ~Saving(b)' PROVE Faithful(failed', clock', file')
  <2>1. \A b \in Actors : ~Saving(b)
    <3> TAKE b \in Actors
    <3>1. CASE b = a
      BY <3>1
    <3>2. CASE b # a
      BY <1>2, <1>6, <3>2 DEF Saving
    <3> QED BY <3>1, <3>2
  <2> QED BY <2>1 DEF Tracked
<1>7. /\ \A b \in Actors : pc'[b] \in {"enrich", "save"} =>
            Faithful(failed', clock', work'[b].memory)
      /\ \A b \in Actors : pc'[b] = "enrich" /\ ~work'[b].dirty =>
            \A s : Recently(clock', file', s) => s \in DOMAIN work'[b].memory
      /\ \A b \in Actors : pc'[b] \in Busy => Classed(work'[b], failed')
  <2> SUFFICES ASSUME NEW b \in Actors
               PROVE  /\ pc'[b] \in {"enrich", "save"} => Faithful(failed', clock', work'[b].memory)
                      /\ pc'[b] = "enrich" /\ ~work'[b].dirty =>
                           \A s : Recently(clock', file', s) => s \in DOMAIN work'[b].memory
                      /\ pc'[b] \in Busy => Classed(work'[b], failed')
    OBVIOUS
  <2>1. CASE b = a
    BY <1>2, <1>5, <2>1
  <2>2. CASE b # a
    BY <1>2, <2>2 DEF Tracked
  <2> QED BY <2>1, <2>2
<1> QED BY <1>4, <1>6, <1>7 DEF Tracked

LEMMA TrackedInvariant == Spec => []TrackedInv
<1>1. Init => TrackedInv
  <2> SUFFICES ASSUME Init PROVE Tracked
    BY DEF TrackedInv
  <2>1. \A a \in Actors : pc[a] = "idle"
    BY DEF Init
  <2>2. Faithful(failed, clock, file)
    BY EmptyMap DEF Init, Faithful, Recently
  <2> QED BY <2>1, <2>2 DEF Init, Tracked, Alone, Busy
<1>2. TypeInv /\ TrackedInv /\ [Next]_vars => TrackedInv'
  <2> SUFFICES ASSUME TypeInv, TrackedInv, [Next]_vars, ~astray' PROVE Tracked'
    BY DEF TrackedInv
  <2>0. pc \in [Actors -> Places] /\ work \in [Actors -> Works] /\ clock \in Nat
    BY UniverseAssumption DEF TypeInv, Fetched, Counts
  <2>a. ASSUME ~astray PROVE Tracked
    BY <2>a DEF TrackedInv
  <2>b. ASSUME ~astray, NEW a \in Actors, pc[a] \in Busy
        PROVE  \A b \in Actors : b # a => pc[b] \notin Busy
    BY <2>a, <2>b DEF Tracked, Alone
  <2>1. CASE Refresh
    <3>1. "sync" \in Actors
      BY SyncIsAnActor
    <3>2. /\ pc' = [pc EXCEPT !["sync"] = "frame"]
          /\ work' = [work EXCEPT !["sync"] = work["sync"]]
          /\ UNCHANGED <<clock, file, failed, pestered, astray>>
      BY <2>0, <2>1, <3>1 DEF Refresh, Goto
    <3>3. ~Saving("sync") /\ "frame" \notin Busy
      BY <2>1 DEF Refresh, Saving, Busy
    <3> QED BY <2>a, <3>1, <3>2, <3>3, OneIsAway
  <2>2. ASSUME NEW a \in Actors, Read(a) PROVE Tracked'
    <3>1. /\ \E p \in {"idle", "snapshot", "research", "frame"} : pc' = [pc EXCEPT ![a] = p]
          /\ work' = [work EXCEPT ![a] = work[a]]
          /\ UNCHANGED <<clock, file, failed, pestered, astray>>
      BY <2>0, <2>2 DEF Read, Selected, Goto, history
    <3>2. PICK p \in {"idle", "snapshot", "research", "frame"} : pc' = [pc EXCEPT ![a] = p]
      BY <3>1
    <3>3. ~Saving(a) /\ p \notin Busy
      BY <2>2 DEF Read, Saving, Busy
    <3> QED BY <2>a, <3>1, <3>2, <3>3, OneIsAway
  <2>3. ASSUME NEW a \in Actors, NEW frame \in Frames, NEW order \in Provisional(frame),
               NEW plain \in Untagged(order), TakeFrame(a, order, plain)
        PROVE  Tracked'
    <3>1. /\ \E p \in {"idle", "snapshot", "research", "load"} : pc' = [pc EXCEPT ![a] = p]
          /\ \E w : work' = [work EXCEPT ![a] = w]
          /\ UNCHANGED <<clock, file, failed, pestered, astray>>
      BY <2>3 DEF TakeFrame, StoreSelection, Selected, Goto
    <3>2. PICK p \in {"idle", "snapshot", "research", "load"} : pc' = [pc EXCEPT ![a] = p]
      BY <3>1
    <3>3. PICK w : work' = [work EXCEPT ![a] = w]
      BY <3>1
    <3>4. ~Saving(a) /\ p \notin Busy
      BY <2>3 DEF TakeFrame, Saving, Busy
    <3> QED BY <2>a, <3>1, <3>2, <3>3, <3>4, OneIsAway
  <2>4. ASSUME NEW a \in Actors, LoadMemory(a) PROVE Tracked'
    <3>1. /\ pc[a] = "load" /\ pc' = [pc EXCEPT ![a] = "enrich"]
          /\ UNCHANGED <<clock, file, failed, pestered>>
          /\ ~astray /\ \A o \in Actors : pc[o] \notin Busy
      BY <2>4 DEF LoadMemory, Goto, Busy
    <3>2. work' = [work EXCEPT ![a].memory = Pruned(file)]
      BY <2>4 DEF LoadMemory
    <3>3. /\ work'[a].memory = Pruned(file) /\ work'[a].next = work[a].next
          /\ work'[a].class = work[a].class /\ work'[a].order = work[a].order
      BY <2>0, <3>2 DEF Works
    <3>4. pc'[a] = "enrich" /\ \A b \in Actors : b # a => pc'[b] \notin Busy
      BY <2>0, <3>1
    <3>5. Faithful(failed, clock, file) /\ pestered = {}
      BY <2>a, <3>1 DEF Tracked, Saving, Busy
    <3>6. Faithful(failed', clock', work'[a].memory) /\ Faithful(failed', clock', file')
      BY <3>1, <3>3, <3>5, PruningIsFaithful
    <3>7. \A s : Recently(clock', file', s) => s \in DOMAIN work'[a].memory
      BY <3>1, <3>3, PrunedIs DEF Recently, Recent
    <3>8. Classed(work'[a], failed')
      BY <3>1, <3>3 DEF Classed, TypeInv, Fetched
    <3> QED BY <3>1, <3>4, <3>5, <3>6, <3>7, <3>8, OneAtWork
  <2>5. ASSUME NEW a \in Actors, Skip(a) PROVE Tracked'
    <3> DEFINE s == work[a].order[work[a].next]
               c == With(work[a].class, s, 4)
    <3>1. /\ pc[a] = "enrich" /\ UNCHANGED <<clock, file, failed, pestered, astray, pc>>
          /\ Recent(work[a].memory, s)
          /\ work' = [work EXCEPT ![a].next = @ + 1, ![a].class = c, ![a].plain = @ \ {s}]
      BY <2>5 DEF Skip, history
    <3>2. /\ work'[a].memory = work[a].memory /\ work'[a].next = work[a].next + 1
          /\ work'[a].class = c /\ work'[a].order = work[a].order
          /\ work'[a].dirty = work[a].dirty
      <4> HIDE DEF s, c
      <4> QED BY <2>0, <3>1 DEF Works
    <3>3. pc[a] \in Busy /\ \A b \in Actors : b # a => pc'[b] \notin Busy
      BY <2>b, <3>1 DEF Busy
    <3>4. /\ Faithful(failed, clock, work[a].memory) /\ Classed(work[a], failed) /\ pestered = {}
          /\ ~Saving(a) => Faithful(failed, clock, file)
          /\ ~work[a].dirty => \A x : Recently(clock, file, x) => x \in DOMAIN work[a].memory
      <4>1. \A b \in Actors : b # a => ~Saving(b)
        BY <3>1, <3>3 DEF Saving, Busy
      <4> QED BY <2>a, <3>1, <3>3, <4>1 DEF Tracked
    <3>5. s \in DOMAIN failed
      BY <3>1, <3>4 DEF Faithful, Recent, Recently
    <3>6. Classed(work'[a], failed')
      BY <2>0, <3>1, <3>2, <3>4, <3>5, OneMoreClass
    <3>7. ~Saving(a)' => Faithful(failed', clock', file')
      BY <3>1, <3>2, <3>4 DEF Saving
    <3> QED BY <3>1, <3>2, <3>3, <3>4, <3>6, <3>7, OneAtWork
  <2>6. ASSUME NEW a \in Actors, NEW class \in Outcomes, Ask(a, class) PROVE Tracked'
    <3> DEFINE s == work[a].order[work[a].next]
               m == work[a].memory
               c == With(work[a].class, s, class)
               k == IF class = 4 THEN With(m, s, clock) ELSE Without(m, s)
               d == work[a].dirty \/ class = 4 \/ s \in DOMAIN m
    <3>1. /\ pc[a] = "enrich" /\ UNCHANGED <<clock, file, astray, pc>> /\ ~Recent(m, s)
          /\ work' = [work EXCEPT ![a].next = @ + 1, ![a].class = c, ![a].memory = k,
                                  ![a].dirty = d, ![a].plain = @ \ {s}]
          /\ failed' = IF class = 4 THEN With(failed, s, clock) ELSE Without(failed, s)
          /\ pestered' = IF Recent(failed, s) THEN pestered \cup {s} ELSE pestered
      BY <2>6 DEF Ask
    <3>2. /\ work'[a].memory = k /\ work'[a].next = work[a].next + 1
          /\ work'[a].class = c /\ work'[a].order = work[a].order
          /\ work'[a].dirty = d
      <4> HIDE DEF s, c, k, d
      <4> QED BY <2>0, <3>1 DEF Works
    <3>3. pc[a] \in Busy /\ \A b \in Actors : b # a => pc'[b] \notin Busy
      BY <2>b, <3>1 DEF Busy
    <3>4. /\ Faithful(failed, clock, m) /\ Classed(work[a], failed) /\ pestered = {}
          /\ ~Saving(a) => Faithful(failed, clock, file)
          /\ ~work[a].dirty => \A x : Recently(clock, file, x) => x \in DOMAIN m
      <4>1. \A b \in Actors : b # a => ~Saving(b)
        BY <3>1, <3>3 DEF Saving, Busy
      <4> QED BY <2>a, <3>1, <3>3, <4>1 DEF Tracked
    <3>5. pestered' = {}
      <4>1. ~Recently(clock, m, s)
        BY <3>1 DEF Recent, Recently
      <4>2. ~Recently(clock, failed, s)
        BY <3>4, <4>1 DEF Faithful, Recently
      <4> QED BY <3>1, <3>4, <4>2 DEF Recent, Recently
    <3>6. Faithful(failed', clock', work'[a].memory)
      <4> HIDE DEF s, m
      <4>1. CASE class = 4
        BY <3>1, <3>2, <3>4, <4>1, FailureIsNoted
      <4>2. CASE class # 4
        BY <3>1, <3>2, <3>4, <4>2, FailureIsLifted
      <4> QED BY <4>1, <4>2
    <3>7. Classed(work'[a], failed')
      <4>1. \A x : x # s => (x \in DOMAIN failed <=> x \in DOMAIN failed')
        BY <3>1 DEF With, Without
      <4>2. class = 4 <=> s \in DOMAIN failed'
        BY <3>1 DEF With, Without
      <4> QED BY <2>0, <3>2, <3>4, <4>1, <4>2, OneMoreClass
    <3>8. ASSUME ~d
          PROVE  /\ Faithful(failed', clock', file')
                 /\ \A x : Recently(clock', file', x) => x \in DOMAIN k
      <4>1. class # 4 /\ s \notin DOMAIN m /\ ~work[a].dirty
        BY <3>8
      <4>2. Faithful(failed, clock, file) /\ \A x : Recently(clock, file, x) => x \in DOMAIN m
        BY <3>1, <3>4, <4>1 DEF Saving
      <4>3. ~Recently(clock, file, s)
        BY <4>1, <4>2
      <4>4. Faithful(Without(failed, s), clock, file)
        <5> HIDE DEF s
        <5> QED BY <4>2, <4>3, OldFailureIsLifted
      <4>5. \A x \in DOMAIN m : x \in DOMAIN k
        BY <4>1 DEF Without
      <4> QED BY <3>1, <4>1, <4>2, <4>4, <4>5
    <3>9. ~Saving(a)' => ~d
      BY <3>1, <3>2 DEF Saving
    <3> HIDE DEF s, m, c, k, d
    <3>10. pc'[a] = "enrich" /\ ~work'[a].dirty =>
             \A x : Recently(clock', file', x) => x \in DOMAIN work'[a].memory
      BY <3>2, <3>8
    <3> QED BY <3>3, <3>5, <3>6, <3>7, <3>8, <3>9, <3>10, OneAtWork
  <2>7. ASSUME NEW a \in Actors, Truncate(a) PROVE Tracked'
    <3>1. /\ pc[a] = "enrich" /\ pc' = [pc EXCEPT ![a] = "save"]
          /\ UNCHANGED <<clock, failed, pestered, astray, work>>
      BY <2>7 DEF Truncate, Goto, history
    <3>2. pc'[a] = "save" /\ \A b \in Actors : b # a => pc'[b] \notin Busy
      BY <2>0, <2>b, <3>1 DEF Busy
    <3>3. Saving(a)'
      BY <3>2 DEF Saving
    <3>4. Faithful(failed, clock, work[a].memory) /\ Classed(work[a], failed) /\ pestered = {}
      BY <2>a, <3>1 DEF Tracked, Busy
    <3> QED BY <3>1, <3>2, <3>3, <3>4, OneAtWork
  <2>8. ASSUME NEW a \in Actors, Save(a) PROVE Tracked'
    <3>1. /\ pc[a] = "save" /\ pc' = [pc EXCEPT ![a] = "rank"]
          /\ UNCHANGED <<clock, failed, pestered, astray, work>>
          /\ file' = Pruned(work[a].memory)
      BY <2>8 DEF Save, Saved, Goto, history
    <3>2. pc'[a] = "rank" /\ \A b \in Actors : b # a => pc'[b] \notin Busy
      BY <2>0, <2>b, <3>1 DEF Busy
    <3>3. Faithful(failed, clock, work[a].memory) /\ Classed(work[a], failed) /\ pestered = {}
      BY <2>a, <3>1 DEF Tracked, Busy
    <3>4. Faithful(failed', clock', file')
      BY <3>1, <3>3, PruningIsFaithful
    <3> QED BY <3>1, <3>2, <3>3, <3>4, OneAtWork
  <2>9. ASSUME NEW a \in Actors, Rank(a) PROVE Tracked'
    <3>1. /\ \E p \in {"idle", "snapshot", "research"} : pc' = [pc EXCEPT ![a] = p]
          /\ work' = [work EXCEPT ![a] = Blank]
          /\ UNCHANGED <<clock, file, failed, pestered, astray>>
      BY <2>9 DEF Rank, StoreSelection, Selected, Goto
    <3>2. PICK p \in {"idle", "snapshot", "research"} : pc' = [pc EXCEPT ![a] = p]
      BY <3>1
    <3>3. ~Saving(a) /\ p \notin Busy
      BY <2>9 DEF Rank, Saving, Busy
    <3> QED BY <2>a, <3>1, <3>2, <3>3, OneIsAway
  <2>10. ASSUME NEW batch \in SUBSET Symbols, Research(batch) PROVE Tracked'
    <3>1. "sync" \in Actors
      BY SyncIsAnActor
    <3>2. /\ pc' = [pc EXCEPT !["sync"] = "idle"]
          /\ work' = [work EXCEPT !["sync"] = work["sync"]]
          /\ UNCHANGED <<clock, file, failed, pestered, astray>>
      BY <2>0, <2>10, <3>1 DEF Research, Goto, history
    <3>3. ~Saving("sync") /\ "idle" \notin Busy
      BY <2>10 DEF Research, Saving, Busy
    <3> QED BY <2>a, <3>1, <3>2, <3>3, OneIsAway
  <2>11. CASE Crash
    BY <2>11 DEF Crash
  <2>12. CASE Tick
    <3>1. /\ clock' = clock + 1 /\ UNCHANGED <<file, failed, pc, work, astray, pestered>>
      BY <2>12 DEF Tick, history
    <3>2. Tracked /\ file \in Memories /\ failed \in Memories
          /\ \A a \in Actors : work[a].memory \in Memories
      BY <2>0, <2>a, <3>1 DEF TypeInv, Stores, Works
    <3>3. \A a \in Actors : pc[a] \in {"enrich", "save"} =>
             Faithful(failed, clock + 1, work[a].memory)
      BY <2>0, <3>2, TimeKeepsFaith DEF Tracked
    <3>4. (\A a \in Actors : ~Saving(a)) => Faithful(failed, clock + 1, file)
      BY <2>0, <3>2, TimeKeepsFaith DEF Tracked
    <3>5. ASSUME NEW s, Recently(clock + 1, file, s) PROVE Recently(clock, file, s)
      <4>1. s \in DOMAIN file /\ file[s] \in Nat
        BY <3>2, <3>5, MapsAre DEF Memories, Recently
      <4> QED BY <2>0, <3>5, <4>1, UniverseAssumption DEF Recently
    <3> QED BY <3>1, <3>2, <3>3, <3>4, <3>5 DEF Tracked, Alone, Saving
  <2>13. CASE UNCHANGED vars
    BY <2>a, <2>13 DEF vars, history, Tracked, Alone, Saving
  <2> QED BY <2>1, <2>2, <2>3, <2>4, <2>5, <2>6, <2>7, <2>8, <2>9, <2>10, <2>11, <2>12, <2>13
          DEF Next, Fetches
<1> QED BY <1>1, <1>2, TypesAreKept, PTL DEF Spec

\* Whatever the number of readers, the limits and the time for which failures are remembered:
\* as long as no two fetches overlap and no process dies, no history is asked for again whose
\* failure is remembered.
THEOREM FailuresSpared == Spec => []FailuresAreSpared
<1>1. TrackedInv => FailuresAreSpared
  BY DEF TrackedInv, Tracked, FailuresAreSpared
<1> QED BY <1>1, TrackedInvariant, PTL

\* Only two steps store a selection.
LEMMA WhoStores ==
  ASSUME [Next]_vars, selection' # selection
  PROVE  \E b \in Actors :
           \/ Rank(b)
           \/ \E frame \in Frames : \E order \in Provisional(frame) :
                \E plain \in Untagged(order) : TakeFrame(b, order, plain)
<1>1. ~UNCHANGED vars
  BY DEF vars
<1>2. ~Refresh /\ ~Crash /\ ~Tick
  BY DEF Refresh, Crash, Tick
<1>3. \A researched \in SUBSET Symbols : ~Research(researched)
  BY DEF Research
<1>4. \A a \in Actors : ~Read(a) /\ ~LoadMemory(a) /\ ~Skip(a)
  BY DEF Read, LoadMemory, Skip
<1>5. \A a \in Actors : ~Truncate(a) /\ ~Save(a)
  BY DEF Truncate, Save
<1>6. ASSUME NEW a \in Actors, NEW class \in Outcomes PROVE ~Ask(a, class)
  BY DEF Ask
<1> QED BY <1>1, <1>2, <1>3, <1>4, <1>5, <1>6 DEF Next, Fetches

\* Under the same condition a candidate that failed is selected only when all have failed.
THEOREM FailedComesLast == Spec => FailedIsLastResort
<1> DEFINE LastResort ==
      \A a \in Actors :
        LET w == work[a]
            s == selection'.symbol
            asked == {w.order[i] : i \in 1..(w.next - 1)} IN
        selection' # selection /\ pc'[a] # pc[a] /\ s \in asked /\ ~astray /\ Recent(failed, s)
        => ToSet(w.order) \subseteq DOMAIN failed
<1>1. TypeInv /\ TrackedInv /\ [Next]_vars => [LastResort]_vars
  <2> SUFFICES ASSUME TypeInv, TrackedInv, [Next]_vars, NEW a \in Actors,
                      selection' # selection, pc'[a] # pc[a], ~astray,
                      NEW i \in 1..(work[a].next - 1), work[a].order[i] = selection'.symbol,
                      Recent(failed, selection'.symbol)
               PROVE  ToSet(work[a].order) \subseteq DOMAIN failed
    OBVIOUS
  <2>0. pc \in [Actors -> Places] /\ work \in [Actors -> Works] /\ work[a] \in Works
    BY DEF TypeInv, Fetched
  <2>1. PICK b \in Actors :
          \/ Rank(b)
          \/ \E frame \in Frames : \E order \in Provisional(frame) :
               \E plain \in Untagged(order) : TakeFrame(b, order, plain)
    BY WhoStores
  <2>2. a = b
    <3>1. \E p : pc' = [pc EXCEPT ![b] = p]
      BY <2>1 DEF Rank, TakeFrame, StoreSelection, Selected, Goto
    <3> QED BY <2>0, <3>1
  <2>3. Rank(a)
    <3>1. ASSUME pc[a] = "frame" PROVE FALSE
      <4>1. work[a].next = 1
        BY <3>1, BlankWork DEF TypeInv, Fetched, Holding
      <4> QED BY <4>1
    <3> QED BY <2>1, <2>2, <3>1 DEF TakeFrame
  <2>4. pc[a] \in Busy /\ Classed(work[a], failed)
    BY <2>3 DEF Rank, Busy, TrackedInv, Tracked
  <2>5. PICK r \in Rankings(work[a]) : selection'.symbol = r[1]
    BY <2>3 DEF Rank, StoreSelection
  <2>6. r[1] \in DOMAIN work[a].class /\ work[a].class[r[1]] = 4
    BY <2>4, <2>5 DEF Classed, Recent
  <2>7. ClassOf(work[a], r[1]) = 4
    BY <2>6 DEF ClassOf
  <2>8. \A s \in ToSet(work[a].order) : 4 <= ClassOf(work[a], s)
    BY <2>4, <2>7, RankedSelection
  <2>9. ASSUME NEW s \in ToSet(work[a].order) PROVE s \in DOMAIN failed
    <3>1. s \in DOMAIN work[a].class
      BY <2>0, <2>8, ClassesAreNumbers
    <3>2. work[a].class \in [DOMAIN work[a].class -> Outcomes]
      BY <2>0, MapsAre DEF Works, Classes
    <3>3. work[a].class[s] = 4
      BY <2>8, <3>1, <3>2 DEF ClassOf, Outcomes
    <3> QED BY <2>4, <3>1, <3>3 DEF Classed
  <2> QED BY <2>9
<1> QED BY <1>1, TypesAreKept, TrackedInvariant, PTL DEF Spec, FailedIsLastResort
=============================================================================
