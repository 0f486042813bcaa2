-------------------------- MODULE MarketCacheProofs --------------------------
(***************************************************************************)
(* Proofs about the cache of daily bars: a hole in it has a cause, and     *)
(* what a call loads is whole, for any number of callers, whatever ranges  *)
(* they ask for and however their statements interleave, and for any       *)
(* trade dates, tolerated gap and answers of the providers.                *)
(***************************************************************************)
EXTENDS MarketCache, FiniteSetTheorems, TLAPS

\* Sets of days have a first and a last one.

LEMMA IntervalsAreWellFounded ==
  ASSUME NEW n \in Nat
  PROVE  IsWellFoundedOn(StrictSubsetOrdering(0..n), SUBSET (0..n))
<1>1. IsFiniteSet(0..n)
  BY FS_Interval
<1>2. FiniteSubsetsOf(0..n) = SUBSET (0..n)
  BY <1>1, FS_FiniteSubsetsOfFinite
<1> QED BY <1>2, FS_StrictSubsetOrderingWellFounded

LEMMA FirstDayExists ==
  ASSUME NEW n \in Nat, NEW S \in SUBSET (0..n), S # {}
  PROVE  \E d \in S : \A e \in S : d <= e
<1> DEFINE Upto == {0..d : d \in S}
<1>1. Upto \subseteq SUBSET (0..n)
  <2>1. \A d \in S : (0..d) \subseteq (0..n)
    OBVIOUS
  <2> QED BY <2>1, Zenon
<1>2. Upto # {}
  OBVIOUS
<1> HIDE DEF Upto
<1>3. PICK x \in Upto : \A y \in Upto : ~(<<y, x>> \in StrictSubsetOrdering(0..n))
  BY <1>1, <1>2, IntervalsAreWellFounded, WFMin
<1>4. PICK d \in S : x = 0..d
  BY DEF Upto
<1>5. ASSUME NEW e \in S, ~(d <= e) PROVE FALSE
  <2>1. 0..e \in Upto /\ (0..e) \subseteq (0..d) /\ 0..e # 0..d
    BY <1>5 DEF Upto
  <2> QED BY <2>1, <1>1, <1>3, <1>4 DEF StrictSubsetOrdering
<1> QED BY <1>5

LEMMA LastDayExists ==
  ASSUME NEW n \in Nat, NEW S \in SUBSET (0..n), S # {}
  PROVE  \E d \in S : \A e \in S : e <= d
<1> DEFINE From == {d..n : d \in S}
<1>1. From \subseteq SUBSET (0..n)
  <2>1. \A d \in S : (d..n) \subseteq (0..n)
    OBVIOUS
  <2> QED BY <2>1, Zenon
<1>2. From # {}
  OBVIOUS
<1> HIDE DEF From
<1>3. PICK x \in From : \A y \in From : ~(<<y, x>> \in StrictSubsetOrdering(0..n))
  BY <1>1, <1>2, IntervalsAreWellFounded, WFMin
<1>4. PICK d \in S : x = d..n
  BY DEF From
<1>5. ASSUME NEW e \in S, ~(e <= d) PROVE FALSE
  <2>1. e..n \in From /\ (e..n) \subseteq (d..n) /\ e..n # d..n
    BY <1>5 DEF From
  <2> QED BY <2>1, <1>1, <1>3, <1>4 DEF StrictSubsetOrdering
<1> QED BY <1>5

LEMMA EndsOfSets ==
  ASSUME NEW S \in SUBSET Days, S # {}
  PROVE  /\ Least(S) \in S /\ \A e \in S : Least(S) <= e
         /\ Greatest(S) \in S /\ \A e \in S : e <= Greatest(S)
<1>1. S \in SUBSET (0..LastDay) /\ LastDay \in Nat
  BY CacheAssumption DEF Days
<1> QED BY <1>1, FirstDayExists, LastDayExists DEF Least, Greatest

-----------------------------------------------------------------------------
\* Types.

\* An answer is of trade dates that exist in the range it was asked for, and so is what it
\* leaves out.
LEMMA AnswersExist ==
  ASSUME NEW first, NEW last, NEW answer \in Answers(first, last), NEW kept
  PROVE  /\ answer \subseteq TradeDates /\ answer \subseteq Existing(first, last)
         /\ LeftOut(answer, Existing(first, last), kept) \subseteq TradeDates
BY DEF Answers, LeftOut, Existing, Within

LEMMA BoundsType ==
  ASSUME bars \subseteq TradeDates, bars # {}
  PROVE  /\ Least(bars) \in bars /\ Greatest(bars) \in bars
         /\ <<Least(bars), Greatest(bars)>> \in (0..LastDay) \X (0..LastDay)
<1>1. bars \in SUBSET Days
  BY CacheAssumption DEF Days
<1>2. Least(bars) \in bars /\ Greatest(bars) \in bars
  BY <1>1, EndsOfSets
<1>3. Least(bars) \in 0..LastDay /\ Greatest(bars) \in 0..LastDay
  <2>1. \A d \in Days : d \in 0..LastDay
    BY CacheAssumption DEF Days
  <2> QED BY <1>1, <1>2, <2>1
<1> QED BY <1>2, <1>3

\* The cache and the calls are well-formed.
THEOREM TypeInvariant == Spec => []TypeOK
<1> USE DEF ghosts
<1>0. 1 \in Days /\ LastDay \in Nat /\ Days \subseteq 0..LastDay /\ 0 \in 0..LastDay
      /\ Idle \in [first : Days, last : Days, try : 1..2, asOf : Days]
      /\ <<0, 0>> \in (0..LastDay) \X (0..LastDay)
  BY CacheAssumption DEF Days, Idle
<1>1. Init => TypeOK
  <2> SUFFICES ASSUME Init PROVE TypeOK
    OBVIOUS
  <2>1. today \in Days /\ bars \subseteq TradeDates /\ dropped \subseteq TradeDates /\ raced \in BOOLEAN
    BY DEF Init
  <2>2. pc \in [Callers -> Statements] /\ whole \in [Callers -> BOOLEAN]
        /\ seen \in [Callers -> SUBSET TradeDates]
    BY DEF Init, Statements
  <2>3. call \in [Callers -> [first : Days, last : Days, try : 1..2, asOf : Days]]
    BY <1>0 DEF Init
  <2>4. bounds \in [Callers -> (0..LastDay) \X (0..LastDay)]
    BY <1>0 DEF Init
  <2> QED BY <2>1, <2>2, <2>3, <2>4 DEF TypeOK
<1>2. TypeOK /\ [Next]_vars => TypeOK'
  <2> SUFFICES ASSUME TypeOK, [Next]_vars PROVE TypeOK'
    OBVIOUS
  <2>1. ASSUME NEW c \in Callers, NEW first \in Days, NEW last \in Days, Fetch(c, first, last)
        PROVE  TypeOK'
    BY <2>1 DEF Fetch, Goto, TypeOK, Statements
  <2>2. ASSUME NEW c \in Callers, Quote(c) PROVE TypeOK'
    <3>1. (IF today > Lookback THEN today - Lookback ELSE 1) \in Days
      BY <1>0, CacheAssumption DEF TypeOK, Days
    <3> QED BY <2>2, <3>1 DEF Quote, Goto, TypeOK, Statements
  <2>3. ASSUME NEW c \in Callers, ReadRange(c) \/ Reread(c) PROVE TypeOK'
    <3>1. Within(bars, call[c].first, call[c].last) \in SUBSET TradeDates
      BY DEF Within, TypeOK
    <3>2. seen' \in [Callers -> SUBSET TradeDates] /\ pc' \in [Callers -> Statements]
      <4>1. seen' = [seen EXCEPT ![c] = Within(bars, call[c].first, call[c].last)]
        BY <2>3, Zenon DEF ReadRange, Reread
      <4>2. PICK p \in {"bounds", "loaded"} : pc' = [pc EXCEPT ![c] = p]
        BY <2>3 DEF ReadRange, Reread, Goto
      <4> QED BY <3>1, <4>1, <4>2 DEF TypeOK, Statements
    <3>3. UNCHANGED <<today, bars, call, bounds, whole, dropped, raced>>
      BY <2>3, Zenon DEF ReadRange, Reread
    <3> QED BY <3>2, <3>3 DEF TypeOK
  <2>4. ASSUME NEW c \in Callers, ReadBounds(c) PROVE TypeOK'
    <3>1. seen' \in [Callers -> SUBSET TradeDates]
      BY <2>4 DEF ReadBounds, TypeOK
    <3>2. CASE bars = {}
      BY <2>4, <3>1, <3>2 DEF ReadBounds, Goto, TypeOK, Statements
    <3>3. CASE bars # {}
      <4>1. PICK p \in Statements : pc' = [pc EXCEPT ![c] = p]
        BY <2>4, <3>3 DEF ReadBounds, Goto, AfterHead, Statements
      <4>2. bounds' = [bounds EXCEPT ![c] = <<Least(bars), Greatest(bars)>>]
        BY <2>4, <3>3 DEF ReadBounds
      <4>3. /\ UNCHANGED <<today, bars, call, whole, dropped>> /\ raced' = raced
        BY <2>4, <3>3 DEF ReadBounds
      <4>4. <<Least(bars), Greatest(bars)>> \in (0..LastDay) \X (0..LastDay)
        BY <3>3, BoundsType DEF TypeOK
      <4>5. pc' \in [Callers -> Statements]
        BY <4>1 DEF TypeOK
      <4>6. bounds' \in [Callers -> (0..LastDay) \X (0..LastDay)]
        BY <4>2, <4>4 DEF TypeOK
      <4> QED BY <3>1, <4>3, <4>5, <4>6 DEF TypeOK
    <3> QED BY <3>2, <3>3
  <2>5. ASSUME NEW c \in Callers, LoadFirst(c) \/ LoadHead(c) \/ LoadTail(c) PROVE TypeOK'
    <3>1. bars' \subseteq TradeDates /\ dropped' \subseteq TradeDates
      BY <2>5, AnswersExist DEF LoadFirst, LoadHead, LoadTail, Store, TypeOK
    <3>2. whole' \in [Callers -> BOOLEAN]
      BY <2>5 DEF LoadFirst, LoadHead, LoadTail, Store, TypeOK
    <3>3. pc' \in [Callers -> Statements]
      BY <2>5 DEF LoadFirst, LoadHead, LoadTail, Goto, AfterHead, TypeOK, Statements
    <3> QED BY <2>5, <3>1, <3>2, <3>3 DEF LoadFirst, LoadHead, LoadTail, TypeOK
  <2>6. ASSUME NEW c \in Callers, Use(c) PROVE TypeOK'
    BY <1>0, <2>6 DEF Use, Return, Goto, TypeOK, Statements
  <2>7. ASSUME NEW c \in Callers, LoadDirect(c) PROVE TypeOK'
    <3>1. [call EXCEPT ![c].try = 2] \in [Callers -> [first : Days, last : Days, try : 1..2,
                                                      asOf : Days]]
      BY DEF TypeOK
    <3>2. CASE Return(c)
      BY <1>0, <2>7, <3>2 DEF LoadDirect, Return, Goto, TypeOK, Statements
    <3>3. CASE ~Return(c)
      BY <2>7, <3>1, <3>3 DEF LoadDirect, Goto, TypeOK, Statements
    <3> QED BY <3>2, <3>3
  <2>8. CASE DayPasses
    BY <1>0, <2>8 DEF DayPasses, TypeOK, Days
  <2>9. CASE UNCHANGED vars
    BY <2>9 DEF vars, TypeOK
  <2> QED BY <2>1, <2>2, <2>3, <2>4, <2>5, <2>6, <2>7, <2>8, <2>9 DEF Next
<1> QED BY <1>1, <1>2, PTL DEF Spec

-----------------------------------------------------------------------------
\* The invariants.

\* A bar is stored only when its day has begun, and no call is of a day to come.
Begun == {d \in TradeDates : d <= today}
NothingAhead == bars \subseteq Begun /\ \A c \in Callers : call[c].asOf <= today

\* Who is about to extend the cache has read bounds that are stored.
BoundsAreStored ==
  \A c \in Callers : pc[c] \in {"head", "tail"} => bounds[c][1] \in bars /\ bounds[c][2] \in bars

\* Who is about to fill the empty cache is alone in that, and the cache is still empty.
FirstIsAlone ==
  ~raced => \A c \in Callers :
     pc[c] = "first" => bars = {} /\ \A o \in Callers : pc[o] = "first" => o = c

\* What lies between dates of S is in it or in D.
Accounted(S, D) == \A d \in S, e \in S : Within(TradeDates, d, e) \subseteq S \cup D
NoHole == ~raced => Accounted(bars, dropped)

CacheInv == NothingAhead /\ BoundsAreStored /\ FirstIsAlone /\ NoHole

\* What a call has to return, and what of it is stored when everything was answered.
Due(c) == Within({d \in TradeDates : d <= call[c].asOf},
                 call[c].first + Tolerated, call[c].last - Tolerated)

Had == bars \cup dropped

WholeSoFar(c) ==
  whole[c] =>
    /\ pc[c] = "reread" => Due(c) \subseteq Had
    /\ pc[c] = "tail" => {d \in Due(c) : d <= bounds[c][2]} \subseteq Had
    /\ pc[c] = "head" => {d \in Due(c) : bounds[c][1] <= d /\ d <= bounds[c][2]} \subseteq Had
    /\ pc[c] = "loaded" => Due(c) \subseteq seen[c] \cup dropped

WholeInv == ~raced => \A c \in Callers : WholeSoFar(c)

\* An answer for the range next to a stored date joins what is stored.
LEMMA AnswerJoins ==
  ASSUME today \in Days, bars \subseteq Begun, Accounted(bars, dropped), NEW b \in bars,
         NEW first \in Int, NEW last \in Int, NEW answer \in Answers(first, last),
         last = b - 1 \/ first = b + 1
  PROVE  Accounted(bars \cup answer, dropped \cup LeftOut(answer, Existing(first, last), {b}))
<1> DEFINE E == Existing(first, last)
           L == LeftOut(answer, E, {b})
<1>0. /\ TradeDates \subseteq Int /\ today \in Int /\ b \in Int /\ b <= today
      /\ \A d \in bars : d \in Int /\ d <= today
  BY CacheAssumption DEF Days, Begun
<1>1. \A d \in answer : d \in Int /\ d <= today /\ first <= d /\ d <= last
  BY <1>0, AnswersExist DEF Existing, Within
<1>2. \A x, y \in bars : \A t \in TradeDates : x <= t /\ t <= y => t \in bars \cup dropped
  BY DEF Accounted, Within
<1>3. \A t \in TradeDates : t <= today /\ first <= t /\ t <= last => t \in E
  BY DEF Existing, Within
<1>4. \A t \in E \ answer : (\E x \in answer \cup {b}, y \in answer \cup {b} : x < t /\ t < y) => t \in L
  BY DEF LeftOut
<1> HIDE DEF E, L
<1>5. ASSUME NEW d \in bars \cup answer, NEW e \in bars \cup answer, NEW t \in TradeDates,
             d <= t, t <= e
      PROVE  t \in bars \cup answer \cup dropped \cup L
  <2>0. d \in Int /\ e \in Int /\ t \in Int /\ t <= today
    BY <1>0, <1>1, <1>5
  <2>1. CASE last = b - 1
    <3>1. CASE t >= b
      <4>1. e \in bars
        BY <1>0, <1>1, <1>5, <2>0, <2>1, <3>1
      <4> QED BY <1>0, <1>2, <1>5, <3>1, <4>1
    <3>2. CASE t < b /\ d \in bars
      BY <1>0, <1>2, <1>5, <2>0, <3>2
    <3>3. CASE t < b /\ d \in answer /\ t \notin answer
      <4>1. t \in E /\ d < t
        BY <1>0, <1>1, <1>3, <1>5, <2>0, <2>1, <3>3
      <4> QED BY <1>4, <3>3, <4>1
    <3> QED BY <1>0, <1>5, <2>0, <3>1, <3>2, <3>3
  <2>2. CASE first = b + 1
    <3>1. CASE t <= b
      <4>1. d \in bars
        BY <1>0, <1>1, <1>5, <2>0, <2>2, <3>1
      <4> QED BY <1>0, <1>2, <1>5, <3>1, <4>1
    <3>2. CASE t > b /\ e \in bars
      BY <1>0, <1>2, <1>5, <2>0, <3>2
    <3>3. CASE t > b /\ e \in answer /\ t \notin answer
      <4>1. t \in E /\ t < e
        BY <1>0, <1>1, <1>3, <1>5, <2>0, <2>2, <3>3
      <4> QED BY <1>4, <3>3, <4>1
    <3> QED BY <1>0, <1>5, <2>0, <3>1, <3>2, <3>3
  <2> QED BY <2>1, <2>2
<1> QED BY <1>5 DEF Accounted, Within, E, L

\* So does an answer that fills the empty cache.
LEMMA AnswerAlone ==
  ASSUME today \in Days, NEW first \in Int, NEW last \in Int, NEW answer \in Answers(first, last)
  PROVE  Accounted(answer, dropped \cup LeftOut(answer, Existing(first, last), {}))
<1> DEFINE E == Existing(first, last)
           L == LeftOut(answer, E, {})
<1>1. TradeDates \subseteq Int /\ today \in Int
  BY CacheAssumption DEF Days
<1>2. \A x \in answer : x \in Int /\ first <= x /\ x <= last /\ x <= today
  BY <1>1, AnswersExist DEF Existing, Within
<1>3. \A t \in TradeDates : t <= today /\ first <= t /\ t <= last => t \in E
  BY DEF Existing, Within
<1>4. \A t \in E \ answer : (\E x \in answer, y \in answer : x < t /\ t < y) => t \in L
  BY DEF LeftOut
<1> HIDE DEF E, L
<1>5. ASSUME NEW d \in answer, NEW e \in answer, NEW t \in TradeDates, d <= t, t <= e,
             t \notin answer
      PROVE  t \in L
  <2>1. t \in E /\ d < t /\ t < e
    BY <1>1, <1>2, <1>3, <1>5
  <2> QED BY <1>4, <1>5, <2>1
<1> QED BY <1>5 DEF Accounted, Within, E, L

\* The step by which c stores an answer for the dates from first to last.
Stores(c, first, last, a) ==
  /\ bars' = bars \cup a
  /\ \/ pc[c] = "first" /\ dropped' = dropped \cup LeftOut(a, Existing(first, last), {})
     \/ /\ pc[c] = "head" /\ last = bounds[c][1] - 1
        /\ dropped' = dropped \cup LeftOut(a, Existing(first, last), {bounds[c][1]})
     \/ /\ pc[c] = "tail" /\ first = bounds[c][2] + 1
        /\ dropped' = dropped \cup LeftOut(a, Existing(first, last), {bounds[c][2]})

LEMMA CacheInvariant == Spec => []CacheInv
<1> USE DEF ghosts
<1>1. Init => CacheInv
  <2> SUFFICES ASSUME Init PROVE CacheInv
    OBVIOUS
  <2>1. today \in Int /\ 1 <= today /\ Idle.asOf = 1 /\ \A c \in Callers : call[c] = Idle
    BY CacheAssumption DEF Init, Days, Idle
  <2>2. NothingAhead
    BY <2>1 DEF Init, NothingAhead
  <2> QED BY <2>2 DEF Init, CacheInv, BoundsAreStored, FirstIsAlone, NoHole, Accounted
<1>2. TypeOK /\ CacheInv /\ [Next]_vars => CacheInv'
  <2> SUFFICES ASSUME TypeOK, CacheInv, [Next]_vars PROVE CacheInv'
    OBVIOUS
  <2>0. /\ today \in Days /\ today \in Int /\ 1 <= today
        /\ bars \subseteq Begun /\ \A c \in Callers : call[c].asOf <= today
        /\ BoundsAreStored /\ FirstIsAlone /\ NoHole
    BY CacheAssumption DEF TypeOK, Days, CacheInv, NothingAhead
  \* A step that leaves the cache alone.
  <2>1. ASSUME NEW c \in Callers,
               \/ \E first, last \in Days : Fetch(c, first, last)
               \/ Quote(c) \/ ReadRange(c) \/ Reread(c) \/ Use(c) \/ LoadDirect(c)
        PROVE  CacheInv'
    <3>1. /\ UNCHANGED <<today, bars, dropped, raced>>
          /\ pc'[c] \notin {"first", "head", "tail"}
          /\ \A o \in Callers : o # c => pc'[o] = pc[o] /\ bounds'[o] = bounds[o]
          /\ \A o \in Callers : o # c => call'[o] = call[o]
      BY <2>1 DEF Fetch, Quote, ReadRange, Reread, Use, LoadDirect, Return, Goto, TypeOK
    <3>2. call'[c].asOf <= today
      <4>1. CASE \E first, last \in Days : Fetch(c, first, last)
        BY <2>0, <4>1 DEF Fetch, TypeOK
      <4>2. CASE Quote(c)
        BY <2>0, <4>2 DEF Quote, TypeOK
      <4>3. CASE ReadRange(c) \/ Reread(c)
        BY <2>0, <4>3 DEF ReadRange, Reread
      <4>4. CASE Use(c) \/ LoadDirect(c)
        <5>1. call'[c].asOf \in {Idle.asOf, call[c].asOf}
          BY <4>4 DEF Use, LoadDirect, Return, TypeOK
        <5> QED BY <2>0, <5>1 DEF Idle
      <4> QED BY <2>1, <4>1, <4>2, <4>3, <4>4
    <3>3. NothingAhead'
      BY <2>0, <3>1, <3>2 DEF NothingAhead, Begun
    <3>4. BoundsAreStored' /\ FirstIsAlone' /\ NoHole'
      BY <2>0, <3>1 DEF BoundsAreStored, FirstIsAlone, NoHole
    <3> QED BY <3>3, <3>4 DEF CacheInv
  <2>2. ASSUME NEW c \in Callers, ReadBounds(c) PROVE CacheInv'
    <3>1. UNCHANGED <<today, bars, call, dropped>> /\ (raced => raced')
          /\ \A o \in Callers : o # c => pc'[o] = pc[o] /\ bounds'[o] = bounds[o]
      BY <2>2 DEF ReadBounds, Goto, TypeOK
    <3>2. NothingAhead' /\ NoHole'
      BY <2>0, <3>1 DEF NothingAhead, Begun, NoHole
    <3>3. CASE bars = {}
      <4>1. pc'[c] = "first" /\ (~raced' => \A o \in Callers : pc[o] # "first")
        BY <2>2, <3>3 DEF ReadBounds, Goto, TypeOK
      <4>2. BoundsAreStored' /\ FirstIsAlone'
        BY <2>0, <3>1, <3>3, <4>1 DEF BoundsAreStored, FirstIsAlone
      <4> QED BY <3>2, <4>2 DEF CacheInv, NothingAhead, NoHole
    <3>4. CASE bars # {}
      <4>1. pc'[c] # "first" /\ bounds'[c] = <<Least(bars), Greatest(bars)>>
        BY <2>2, <3>4 DEF ReadBounds, Goto, AfterHead, TypeOK
      <4>2. Least(bars) \in bars /\ Greatest(bars) \in bars
        BY <3>4, BoundsType DEF TypeOK
      <4>3. BoundsAreStored' /\ FirstIsAlone'
        BY <2>0, <3>1, <4>1, <4>2 DEF BoundsAreStored, FirstIsAlone
      <4> QED BY <3>2, <4>3 DEF CacheInv, NothingAhead, NoHole
    <3> QED BY <3>3, <3>4
  \* A step that stores an answer.
  <2>3. ASSUME NEW c \in Callers, LoadFirst(c) \/ LoadHead(c) \/ LoadTail(c) PROVE CacheInv'
    <3>0. /\ call[c].first \in Int /\ call[c].last \in Int /\ HeadEnd(c) \in Int
          /\ TailStart(c) \in Int
      BY CacheAssumption DEF TypeOK, HeadEnd, TailStart, Days
    <3>1. PICK first \in Int, last \in Int : \E a \in Answers(first, last) : Stores(c, first, last, a)
      <4>1. CASE LoadFirst(c)
        BY <3>0, <4>1 DEF LoadFirst, Store, Stores
      <4>2. CASE LoadHead(c)
        BY <3>0, <4>2 DEF LoadHead, Store, Stores, HeadEnd
      <4>3. CASE LoadTail(c)
        BY <3>0, <4>3 DEF LoadTail, Store, Stores, TailStart
      <4> QED BY <2>3, <4>1, <4>2, <4>3
    <3>2. PICK a \in Answers(first, last) : Stores(c, first, last, a)
      BY <3>1
    <3>a. /\ bars' = bars \cup a
          /\ \/ pc[c] = "first" /\ dropped' = dropped \cup LeftOut(a, Existing(first, last), {})
             \/ /\ pc[c] = "head" /\ last = bounds[c][1] - 1
                /\ dropped' = dropped \cup LeftOut(a, Existing(first, last), {bounds[c][1]})
             \/ /\ pc[c] = "tail" /\ first = bounds[c][2] + 1
                /\ dropped' = dropped \cup LeftOut(a, Existing(first, last), {bounds[c][2]})
      BY <3>2 DEF Stores
    <3>3. /\ UNCHANGED <<today, call, bounds, raced>>
          /\ pc'[c] \in {"tail", "reread"} /\ (pc'[c] = "tail" => pc[c] = "head")
          /\ \A o \in Callers : o # c => pc'[o] = pc[o]
      BY <2>3 DEF LoadFirst, LoadHead, LoadTail, Goto, AfterHead, TypeOK
    <3>4. NothingAhead'
      <4>1. a \subseteq Begun
        BY <2>0, AnswersExist DEF Existing, Within, Begun
      <4> QED BY <2>0, <3>a, <3>3, <4>1 DEF NothingAhead, Begun
    <3>5. BoundsAreStored'
      BY <2>0, <3>a, <3>3 DEF BoundsAreStored
    <3>6. FirstIsAlone'
      <4> SUFFICES ASSUME ~raced, NEW o \in Callers, pc'[o] = "first"
                   PROVE  bars' = {} /\ \A p \in Callers : pc'[p] = "first" => p = o
        BY <3>3 DEF FirstIsAlone
      <4>1. o # c /\ pc[o] = "first"
        BY <3>3
      <4>2. bars = {} /\ \A p \in Callers : pc[p] = "first" => p = o
        BY <2>0, <4>1 DEF FirstIsAlone
      <4>3. pc[c] \in {"head", "tail"}
        BY <3>a, <4>1, <4>2
      <4> QED BY <2>0, <4>2, <4>3 DEF BoundsAreStored
    <3>7. NoHole'
      <4> SUFFICES ASSUME ~raced' PROVE Accounted(bars', dropped')
        BY DEF NoHole, Accounted
      <4>1. ~raced /\ Accounted(bars, dropped)
        BY <2>0, <3>3 DEF NoHole
      <4>2. CASE pc[c] = "first"
        <5>1. bars' = a /\ dropped' = dropped \cup LeftOut(a, Existing(first, last), {})
          BY <2>0, <3>a, <4>1, <4>2 DEF FirstIsAlone
        <5> QED BY <2>0, <5>1, AnswerAlone
      <4>3. CASE pc[c] = "head"
        <5>1. /\ last = bounds[c][1] - 1 /\ bounds[c][1] \in bars
              /\ dropped' = dropped \cup LeftOut(a, Existing(first, last), {bounds[c][1]})
          BY <2>0, <3>a, <4>3 DEF BoundsAreStored
        <5> QED BY <2>0, <3>a, <4>1, <5>1, AnswerJoins
      <4>4. CASE pc[c] = "tail"
        <5>1. /\ first = bounds[c][2] + 1 /\ bounds[c][2] \in bars
              /\ dropped' = dropped \cup LeftOut(a, Existing(first, last), {bounds[c][2]})
          BY <2>0, <3>a, <4>4 DEF BoundsAreStored
        <5> QED BY <2>0, <3>a, <4>1, <5>1, AnswerJoins
      <4> QED BY <3>a, <4>2, <4>3, <4>4
    <3> QED BY <3>4, <3>5, <3>6, <3>7 DEF CacheInv
  <2>4. CASE DayPasses
    <3>1. today' = today + 1 /\ UNCHANGED <<bars, pc, call, bounds, dropped, raced>>
      BY <2>4 DEF DayPasses
    <3>2. NothingAhead'
      <4>1. \A d \in Begun : d \in Begun'
        BY <2>0, <3>1, CacheAssumption DEF Begun
      <4>2. \A c \in Callers : call[c].asOf \in Int
        BY CacheAssumption DEF TypeOK, Days
      <4> QED BY <2>0, <3>1, <4>1, <4>2 DEF NothingAhead
    <3>3. BoundsAreStored' /\ FirstIsAlone' /\ NoHole'
      BY <2>0, <3>1 DEF BoundsAreStored, FirstIsAlone, NoHole, Accounted
    <3> QED BY <3>2, <3>3 DEF CacheInv
  <2>5. CASE UNCHANGED vars
    BY <2>0, <2>5
    DEF vars, CacheInv, NothingAhead, Begun, BoundsAreStored, FirstIsAlone, NoHole, Accounted
  <2> QED BY <2>1, <2>2, <2>3, <2>4, <2>5 DEF Next
<1> QED BY <1>1, <1>2, TypeInvariant, PTL DEF Spec

\* Between the first and the last date of the cache nothing is missing but what some answer
\* left out between dates it had or next to stored ones, unless two callers filled the empty
\* cache at the same time.
THEOREM HolesAreCaused == Spec => []HolesHaveACause
<1>1. CacheInv => HolesHaveACause
  BY DEF CacheInv, NoHole, Accounted, HolesHaveACause
<1> QED BY <1>1, CacheInvariant, PTL

-----------------------------------------------------------------------------
\* What a call returns.

LEMMA WholeInvariant == Spec => []WholeInv
<1> USE DEF ghosts
<1>1. Init => WholeInv
  BY DEF Init, WholeInv, WholeSoFar
<1>2. TypeOK /\ CacheInv /\ WholeInv /\ [Next]_vars => WholeInv'
  <2> SUFFICES ASSUME TypeOK, CacheInv, WholeInv, [Next]_vars, ~raced',
                      NEW c \in Callers
               PROVE  WholeSoFar(c)'
    BY DEF WholeInv
  <2>0. /\ TradeDates \subseteq Int /\ Tolerated \in Nat /\ today \in Int
        /\ call[c].asOf \in Int /\ call[c].asOf <= today
        /\ call[c].first \in Int /\ call[c].last \in Int
        /\ bars \subseteq TradeDates
    <3>1. call[c] \in [first : Days, last : Days, try : 1..2, asOf : Days] /\ Days \subseteq Int
      BY CacheAssumption DEF TypeOK, Days
    <3>2. call[c].asOf <= today
      BY DEF CacheInv, NothingAhead
    <3> QED BY <3>1, <3>2, CacheAssumption DEF TypeOK, Days
  <2>d. ASSUME NEW d \in Due(c)
        PROVE  /\ d \in TradeDates /\ d \in Int /\ d <= call[c].asOf /\ d <= today
               /\ call[c].first <= d /\ d <= call[c].last
               /\ call[c].first + Tolerated <= d /\ d <= call[c].last - Tolerated
    <3>1. /\ d \in TradeDates /\ d <= call[c].asOf
          /\ call[c].first + Tolerated <= d /\ d <= call[c].last - Tolerated
      BY DEF Due, Within
    <3> QED BY <2>0, <3>1
  \* A step of somebody else, or of nobody: the cache grows.
  <2>1. ASSUME UNCHANGED <<pc[c], call[c], seen[c], bounds[c], whole[c]>>,
               bars \subseteq bars', dropped \subseteq dropped', raced => raced'
        PROVE  WholeSoFar(c)'
    <3>1. WholeSoFar(c)
      BY <2>1 DEF WholeInv
    <3> QED BY <2>1, <3>1 DEF WholeSoFar, Due, Had
  <2>2. ASSUME NEW o \in Callers, o # c,
               \/ \E first, last \in Days : Fetch(o, first, last)
               \/ Quote(o) \/ ReadRange(o) \/ ReadBounds(o) \/ LoadFirst(o) \/ LoadHead(o)
               \/ LoadTail(o) \/ Reread(o) \/ Use(o) \/ LoadDirect(o)
        PROVE  WholeSoFar(c)'
    <3>1. UNCHANGED <<pc[c], call[c], seen[c], bounds[c], whole[c]>> /\ bars \subseteq bars'
      BY <2>2
      DEF Fetch, Quote, ReadRange, ReadBounds, LoadFirst, LoadHead, LoadTail, Reread, Use,
          LoadDirect, Return, Goto, Store, TypeOK
    <3>2. dropped \subseteq dropped' /\ (raced => raced')
      <4>1. CASE LoadFirst(o) \/ LoadHead(o) \/ LoadTail(o)
        <5>1. \E kept : \E l, asked : dropped' = dropped \cup LeftOut(l, asked, kept)
          BY <4>1, Zenon DEF LoadFirst, LoadHead, LoadTail, Store
        <5>2. raced' = raced
          BY <4>1, Zenon DEF LoadFirst, LoadHead, LoadTail
        <5> QED BY <5>1, <5>2
      <4>2. CASE ReadBounds(o)
        BY <4>2 DEF ReadBounds
      <4>3. CASE ~(LoadFirst(o) \/ LoadHead(o) \/ LoadTail(o) \/ ReadBounds(o))
        <5>1. UNCHANGED <<dropped, raced>>
          BY <2>2, <4>3, Zenon DEF Fetch, Quote, ReadRange, Reread, Use, LoadDirect
        <5> QED BY <5>1
      <4> QED BY <4>1, <4>2, <4>3
    <3> QED BY <2>1, <3>1, <3>2
  <2>3. CASE DayPasses \/ UNCHANGED vars
    <3>1. /\ UNCHANGED <<pc[c], call[c], seen[c], bounds[c], whole[c]>> /\ bars \subseteq bars'
          /\ dropped \subseteq dropped' /\ (raced => raced')
      <4>1. UNCHANGED <<bars, pc, call, seen, bounds, whole, dropped, raced>>
        BY <2>3, Zenon DEF DayPasses, vars
      <4> QED BY <4>1
    <3> QED BY <2>1, <3>1
  <2>4. ASSUME \/ \E first, last \in Days : Fetch(c, first, last)
               \/ Quote(c) \/ ReadRange(c) \/ Use(c) \/ LoadDirect(c)
        PROVE  WholeSoFar(c)'
    <3>1. pc'[c] \in {"range", "bounds", "idle"}
      BY <2>4 DEF Fetch, Quote, ReadRange, Use, LoadDirect, Return, Goto, TypeOK
    <3> QED BY <3>1 DEF WholeSoFar
  <2>5. CASE ReadBounds(c)
    <3>1. UNCHANGED <<bars, call, whole, dropped>>
      BY <2>5 DEF ReadBounds
    <3>2. CASE bars = {}
      <4>1. pc'[c] = "first"
        BY <2>5, <3>2 DEF ReadBounds, Goto, TypeOK
      <4> QED BY <4>1 DEF WholeSoFar
    <3>3. CASE bars # {}
      <4> DEFINE b == <<Least(bars), Greatest(bars)>>
      <4>1. /\ bounds'[c] = b /\ raced' = raced
            /\ pc'[c] = IF Covered(c, b) /\ seen[c] # {} THEN "served"
                        ELSE IF HeadMissing(c, b) THEN "head" ELSE AfterHead(c, b)
        BY <2>5, <3>3 DEF ReadBounds, Goto, TypeOK
      <4>2. b[1] \in bars /\ b[2] \in bars /\ b[1] \in Int /\ b[2] \in Int
        BY <2>0, <3>3, BoundsType DEF TypeOK
      <4> HIDE DEF b
      <4>3. Accounted(bars, dropped)
        BY <3>1, <4>1 DEF CacheInv, NoHole
      <4>4. \A d \in TradeDates : b[1] <= d /\ d <= b[2] => d \in Had
        BY <4>2, <4>3 DEF Accounted, Within, Had
      <4>6. CASE pc'[c] = "served"
        BY <4>6 DEF WholeSoFar
      <4>7. CASE pc'[c] = "head"
        <5>1. {d \in Due(c) : b[1] <= d /\ d <= b[2]} \subseteq Had
          BY <2>d, <4>4
        <5> QED BY <3>1, <4>1, <4>7, <5>1 DEF WholeSoFar, Due, Had
      <4>8. CASE pc'[c] \notin {"served", "head"}
        <5>1. ~HeadMissing(c, b) /\ pc'[c] = AfterHead(c, b)
          BY <4>1, <4>8
        <5>2. {d \in Due(c) : d <= b[2]} \subseteq Had
          <6> SUFFICES ASSUME NEW d \in Due(c), d <= b[2] PROVE d \in Had
            OBVIOUS
          <6>1. b[1] - call[c].first <= Tolerated
            BY <2>0, <4>2, <5>1 DEF HeadMissing
          <6>2. b[1] <= d
            BY <2>0, <2>d, <4>2, <6>1
          <6> QED BY <2>d, <4>4, <6>2
        <5>3. CASE TailMissing(c, b)
          <6>1. pc'[c] = "tail"
            BY <5>1, <5>3 DEF AfterHead
          <6> QED BY <3>1, <4>1, <5>2, <6>1 DEF WholeSoFar, Due, Had
        <5>4. CASE ~TailMissing(c, b)
          <6>1. pc'[c] = "reread"
            BY <5>1, <5>4 DEF AfterHead
          <6>2. Due(c) \subseteq Had
            <7>1. call[c].last - b[2] <= Tolerated
              BY <2>0, <4>2, <5>4 DEF TailMissing
            <7>2. \A d \in Due(c) : d <= b[2]
              BY <2>0, <2>d, <4>2, <7>1
            <7> QED BY <5>2, <7>2
          <6> QED BY <3>1, <4>1, <6>1, <6>2 DEF WholeSoFar, Due, Had
        <5> QED BY <5>3, <5>4
      <4> QED BY <4>6, <4>7, <4>8
    <3> QED BY <3>2, <3>3
  <2>6. CASE LoadFirst(c)
    <3>1. pc'[c] = "reread" /\ UNCHANGED call
          /\ (whole'[c] => bars' = bars \cup Existing(call[c].first, call[c].last))
      BY <2>6 DEF LoadFirst, Goto, Store, TypeOK
    <3>2. Due(c) \subseteq Existing(call[c].first, call[c].last)
      BY <2>d DEF Existing, Within
    <3> QED BY <3>1, <3>2 DEF WholeSoFar, Due, Had
  <2>7. CASE LoadHead(c)
    <3>1. /\ pc[c] = "head" /\ pc'[c] = AfterHead(c, bounds[c]) /\ UNCHANGED <<call, bounds>>
          /\ bars \subseteq bars' /\ dropped \subseteq dropped' /\ raced' = raced
          /\ (whole'[c] => whole[c] /\ bars' = bars \cup Existing(call[c].first, HeadEnd(c)))
      <4>1. /\ pc[c] = "head" /\ pc'[c] = AfterHead(c, bounds[c]) /\ UNCHANGED <<call, bounds>>
            /\ bars \subseteq bars' /\ raced' = raced
            /\ (whole'[c] => whole[c] /\ bars' = bars \cup Existing(call[c].first, HeadEnd(c)))
        BY <2>7 DEF LoadHead, Goto, Store, TypeOK
      <4>2. dropped \subseteq dropped'
        BY <2>7 DEF LoadHead, Store
      <4> QED BY <4>1, <4>2
    <3>2. CASE ~whole'[c]
      BY <3>2 DEF WholeSoFar
    <3>3. CASE whole'[c]
      <4>1. {d \in Due(c) : bounds[c][1] <= d /\ d <= bounds[c][2]} \subseteq Had
        BY <3>1, <3>3 DEF WholeInv, WholeSoFar
      <4>2. bounds[c][1] \in Int /\ bounds[c][2] \in Int
        BY CacheAssumption DEF TypeOK
      <4>4. \A d \in Due(c) : d < bounds[c][1] => d \in Had'
        <5>1. ASSUME NEW d \in Due(c), d < bounds[c][1]
              PROVE  d \in Existing(call[c].first, HeadEnd(c))
          BY <2>d, <4>2, <5>1 DEF Existing, Within, HeadEnd
        <5> QED BY <3>1, <3>3, <5>1 DEF Had
      <4>5. {d \in Due(c) : d <= bounds[c][2]} \subseteq Had'
        <5> SUFFICES ASSUME NEW d \in Due(c), d <= bounds[c][2] PROVE d \in Had'
          OBVIOUS
        <5>1. d < bounds[c][1] \/ bounds[c][1] <= d
          BY <2>d, <4>2
        <5> QED BY <3>1, <4>1, <4>4, <5>1 DEF Had
      <4>6. CASE TailMissing(c, bounds[c])
        <5>1. pc'[c] = "tail"
          BY <3>1, <4>6 DEF AfterHead
        <5> QED BY <3>1, <4>5, <5>1 DEF WholeSoFar, Due, Had
      <4>7. CASE ~TailMissing(c, bounds[c])
        <5>1. pc'[c] = "reread"
          BY <3>1, <4>7 DEF AfterHead
        <5>2. Due(c) \subseteq Had'
          <6>1. call[c].last - bounds[c][2] <= Tolerated
            BY <2>0, <4>2, <4>7 DEF TailMissing
          <6>2. \A d \in Due(c) : d <= bounds[c][2]
            BY <2>0, <2>d, <4>2, <6>1
          <6> QED BY <4>5, <6>2
        <5> QED BY <3>1, <5>1, <5>2 DEF WholeSoFar, Due, Had
      <4> QED BY <4>6, <4>7
    <3> QED BY <3>2, <3>3
  <2>8. CASE LoadTail(c)
    <3>1. /\ pc[c] = "tail" /\ pc'[c] = "reread" /\ UNCHANGED <<call, bounds>>
          /\ bars \subseteq bars' /\ raced' = raced
          /\ (whole'[c] => whole[c] /\ bars' = bars \cup Existing(TailStart(c), call[c].last))
      BY <2>8 DEF LoadTail, Goto, Store, TypeOK
    <3>2. dropped \subseteq dropped'
      BY <2>8 DEF LoadTail, Store
    <3>3. CASE ~whole'[c]
      BY <3>3 DEF WholeSoFar
    <3>4. CASE whole'[c]
      <4>1. {d \in Due(c) : d <= bounds[c][2]} \subseteq Had
        BY <3>1, <3>2, <3>4 DEF WholeInv, WholeSoFar
      <4>2. bounds[c][2] \in Int
        BY CacheAssumption DEF TypeOK
      <4>3. ASSUME NEW d \in Due(c), d > bounds[c][2]
            PROVE  d \in Existing(TailStart(c), call[c].last)
        BY <2>d, <4>2, <4>3 DEF Existing, Within, TailStart
      <4>5. Due(c) \subseteq Had'
        BY <2>d, <3>1, <3>2, <3>4, <4>1, <4>2, <4>3 DEF Had
      <4> QED BY <3>1, <4>5 DEF WholeSoFar, Due, Had
    <3> QED BY <3>3, <3>4
  <2>9. CASE Reread(c)
    <3>1. /\ pc[c] = "reread" /\ pc'[c] = "loaded" /\ UNCHANGED <<bars, call, whole, dropped, raced>>
          /\ seen'[c] = Within(bars, call[c].first, call[c].last)
      BY <2>9 DEF Reread, Goto, TypeOK
    <3>2. CASE ~whole[c]
      BY <3>1, <3>2 DEF WholeSoFar
    <3>3. CASE whole[c]
      <4>1. Due(c) \subseteq Had
        BY <3>1, <3>3 DEF WholeInv, WholeSoFar
      <4>2. Due(c) \subseteq Within(bars, call[c].first, call[c].last) \cup dropped
        BY <2>d, <4>1 DEF Within, Had
      <4> QED BY <3>1, <4>2 DEF WholeSoFar, Due, Had
    <3> QED BY <3>2, <3>3
  <2> QED BY <2>2, <2>3, <2>4, <2>5, <2>6, <2>7, <2>8, <2>9 DEF Next
<1> QED BY <1>1, <1>2, TypeInvariant, CacheInvariant, PTL DEF Spec

\* A call that loads and is answered in full returns every trade date that is due.
THEOREM LoadsAreWhole == Spec => []LoadedIsWhole
<1>1. WholeInv => LoadedIsWhole
  BY DEF WholeInv, WholeSoFar, Due, LoadedIsWhole
<1> QED BY <1>1, WholeInvariant, PTL
=============================================================================
