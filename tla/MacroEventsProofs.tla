------------------------- MODULE MacroEventsProofs --------------------------
(***************************************************************************)
(* The digests of the macro lane name only stored events, for every set of *)
(* providers, symbols and GET handlers and for any number of failures and  *)
(* crashes.  A digest is written from a fold that was computed one step    *)
(* before, on the records of that time; the argument is that records of    *)
(* the home market are never deleted, so that a fold stays true however    *)
(* long its actor waits between the two steps.  The types of the lane      *)
(* follow in the second part.                                              *)
(***************************************************************************)
EXTENDS MacroEvents, TLAPS

\* A fold of records into digests that is true of a set of records.
TrueOf(fold, rs) ==
  \A g \in DOMAIN fold : g.market = Home =>
     fold[g] \subseteq NamesOf({r \in rs : Group(r) = g})

Fields == {"scope", "nested", "adds", "audits", "read", "fold"}
IsSession(s) == s = [field \in Fields |-> s[field]]

Sessions == DOMAIN sess = Actors /\ sess = [a \in Actors |-> sess[a]]
            /\ \A a \in Actors : IsSession(sess[a])

FoldInv == TrueOf(digests, records) /\ \A a \in Actors : TrueOf(sess[a].fold, records)

\* What becomes of a session: its other fields are kept by an update.
LEMMA AddsUpdate ==
  ASSUME NEW s, IsSession(s), NEW adds, NEW kinds
  PROVE  LET next == [s EXCEPT !.adds = adds, !.audits = kinds] IN
           IsSession(next) /\ next.fold = s.fold
BY DEF IsSession, Fields

LEMMA FoldUpdate ==
  ASSUME NEW s, IsSession(s), NEW fold, NEW read
  PROVE  LET next == [s EXCEPT !.fold = fold, !.read = read] IN
           IsSession(next) /\ next.fold = fold
BY DEF IsSession, Fields

LEMMA FreshSession ==
  /\ IsSession(Fresh) /\ Fresh.fold = <<>>
  /\ \A scope : LET s == [Fresh EXCEPT !.scope = scope, !.nested = TRUE] IN
       IsSession(s) /\ s.fold = <<>>
<1>1. IsSession(Fresh)
  <2> DEFINE first == CHOOSE s \in Symbols : TRUE
  <2>1. Fresh = [scope |-> first, nested |-> FALSE, adds |-> {}, audits |-> {},
                 read |-> <<>>, fold |-> <<>>]
    BY DEF Fresh
  <2> HIDE DEF first
  <2> QED BY <2>1 DEF IsSession, Fields
<1>2. Fresh.fold = <<>>
  BY DEF Fresh
<1>3. ASSUME NEW scope
      PROVE  LET s == [Fresh EXCEPT !.scope = scope, !.nested = TRUE] IN
               IsSession(s) /\ s.fold = <<>>
  BY <1>1, <1>2 DEF IsSession, Fields
<1> QED BY <1>1, <1>2, <1>3

LEMMA EmptyFold == ASSUME NEW rs PROVE TrueOf(<<>>, rs)
BY DEF TrueOf

\* A fold stays true while no record of the home market is deleted.
LEMMA FoldStaysTrue ==
  ASSUME NEW fold, NEW old, NEW new, TrueOf(fold, old),
         \A r \in old : r.market = Home => r \in new
  PROVE  TrueOf(fold, new)
<1> SUFFICES ASSUME NEW g \in DOMAIN fold, g.market = Home, NEW n \in fold[g]
             PROVE  n \in NamesOf({r \in new : Group(r) = g})
  BY DEF TrueOf
<1>1. PICK r \in old : Group(r) = g /\ n = Name(r)
  BY DEF TrueOf, NamesOf
<1>2. r.market = Home
  BY <1>1 DEF Group
<1> QED BY <1>1, <1>2 DEF NamesOf

\* A step of an actor that gives it a new session and keeps the records of home.
LEMMA ActorStep ==
  ASSUME Sessions, FoldInv, NEW a \in Actors, NEW s, IsSession(s),
         sess' = [sess EXCEPT ![a] = s],
         \A r \in records : r.market = Home => r \in records',
         TrueOf(digests', records'), TrueOf(s.fold, records')
  PROVE  Sessions' /\ FoldInv'
<1>1. /\ DOMAIN sess' = Actors /\ sess' = [b \in Actors |-> sess'[b]]
      /\ \A b \in Actors : sess'[b] = IF b = a THEN s ELSE sess[b]
  BY DEF Sessions
<1>2. Sessions'
  BY <1>1 DEF Sessions
<1>3. ASSUME NEW b \in Actors PROVE TrueOf(sess'[b].fold, records')
  BY <1>1, FoldStaysTrue DEF FoldInv
<1> QED BY <1>2, <1>3 DEF FoldInv

LEMMA FoldOfAllRecords == TrueOf(Folded, records)
BY DEF TrueOf, Folded

LEMMA FoldInvariant == Spec => [](Sessions /\ FoldInv)
<1>1. Init => Sessions /\ FoldInv
  BY FreshSession, EmptyFold DEF Init, Sessions, FoldInv
<1>2. Sessions /\ FoldInv /\ [Next]_vars => Sessions' /\ FoldInv'
  <2> SUFFICES ASSUME Sessions, FoldInv, [Next]_vars PROVE Sessions' /\ FoldInv'
    OBVIOUS
  <2> USE DEF Goto, Abort
  <2>0. /\ "sync" \in Actors /\ Getters \subseteq Actors
        /\ \A a \in Actors : IsSession(sess[a]) /\ TrueOf(sess[a].fold, records)
        /\ TrueOf(digests, records)
    BY DEF Actors, Sessions, FoldInv
  <2>1. ASSUME NEW s \in Symbols, SelectUniverse(s) PROVE Sessions' /\ FoldInv'
    BY <2>0, <2>1, ActorStep, FreshSession, EmptyFold DEF SelectUniverse
  <2>2. CASE Purge
    <3>1. /\ sess' = [sess EXCEPT !["sync"] = Fresh]
          /\ records' = {r \in records : ~OutOfScope(r)}
          /\ digests' = Restrict(digests, {g \in DOMAIN digests : g.market = Home})
      BY <2>2 DEF Purge
    <3>2. \A r \in records : r.market = Home => r \in records'
      BY <3>1 DEF OutOfScope
    <3>3. TrueOf(digests', records)
      BY <2>0, <3>1 DEF TrueOf, Restrict
    <3> QED
      <4>1. TrueOf(digests', records') /\ TrueOf(Fresh.fold, records') /\ IsSession(Fresh)
        BY <3>2, <3>3, FoldStaysTrue, FreshSession, EmptyFold
      <4> HIDE DEF Fresh
      <4> QED BY <2>0, <3>1, <3>2, <4>1, ActorStep
  <2>3. ASSUME NEW a \in Actors, NEW p \in Providers, FetchLive(a, p)
        PROVE  Sessions' /\ FoldInv'
    <3> DEFINE adds == NotStored({LiveSeed(p)})
               kinds == IF status.degraded THEN {"recovered"} ELSE {}
               s == [sess[a] EXCEPT !.adds = adds, !.audits = kinds]
    <3>1. sess' = [sess EXCEPT ![a] = s] /\ records' = records /\ digests' = digests
      BY <2>3 DEF FetchLive
    <3> HIDE DEF adds, kinds
    <3>2. IsSession(s) /\ s.fold = sess[a].fold
      BY <2>0, AddsUpdate
    <3> QED
      BY <2>0, <3>1, <3>2, ActorStep
  <2>4. ASSUME NEW a \in Actors, NEW reworded \in BOOLEAN, FetchFails(a, reworded)
        PROVE  Sessions' /\ FoldInv'
    <3>1. PICK adds, kinds :
            /\ sess' = [sess EXCEPT ![a] = [sess[a] EXCEPT !.adds = adds, !.audits = kinds]]
            /\ records' = records /\ digests' = digests
      BY <2>4 DEF FetchFails
    <3> DEFINE s == [sess[a] EXCEPT !.adds = adds, !.audits = kinds]
    <3>2. IsSession(s) /\ s.fold = sess[a].fold
      BY <2>0, AddsUpdate
    <3> QED
      BY <2>0, <3>1, <3>2, ActorStep
  <2>5. ASSUME NEW a \in Actors, StoreEvents(a) PROVE Sessions' /\ FoldInv'
    <3>1. CASE sess' = [sess EXCEPT ![a] = Fresh] /\ records' = records
      <4>1. digests' = digests
        BY <2>5 DEF StoreEvents
      <4> QED
        BY <2>0, <3>1, <4>1, ActorStep, FreshSession, EmptyFold
    <3>2. CASE /\ sess' = [sess EXCEPT ![a] = [sess[a] EXCEPT !.adds = {}, !.audits = {}]]
               /\ records' = records \cup sess[a].adds
      <4> DEFINE s == [sess[a] EXCEPT !.adds = {}, !.audits = {}]
      <4>1. IsSession(s) /\ s.fold = sess[a].fold
        BY <2>0, AddsUpdate
      <4>2. digests' = digests /\ \A r \in records : r \in records'
        BY <2>5, <3>2 DEF StoreEvents
      <4>3. TrueOf(digests', records') /\ TrueOf(s.fold, records')
        BY <2>0, <4>1, <4>2, FoldStaysTrue
      <4> QED
        BY <2>0, <3>2, <4>1, <4>2, <4>3, ActorStep
    <3> QED BY <2>5, <3>1, <3>2 DEF StoreEvents
  <2>6. ASSUME NEW a \in Actors, FoldDigests(a) PROVE Sessions' /\ FoldInv'
    <3>0. records' = records /\ digests' = digests
      BY <2>6 DEF FoldDigests
    <3>1. CASE sess' = [sess EXCEPT ![a] = sess[a]]
      BY <2>0, <3>0, <3>1, ActorStep
    <3>2. CASE \E read : sess' = [sess EXCEPT ![a] = [sess[a] EXCEPT !.fold = Folded,
                                                                  !.read = read]]
      <4>1. PICK read : sess' = [sess EXCEPT ![a] = [sess[a] EXCEPT !.fold = Folded,
                                                                  !.read = read]]
        BY <3>2
      <4> DEFINE s == [sess[a] EXCEPT !.fold = Folded, !.read = read]
      <4>2. IsSession(s) /\ s.fold = Folded
        BY <2>0, FoldUpdate
      <4> QED
        BY <2>0, <3>0, <4>1, <4>2, FoldOfAllRecords, ActorStep
    <3> QED BY <2>6, <3>1, <3>2 DEF FoldDigests
  <2>7. ASSUME NEW a \in Actors, WriteDigests(a) PROVE Sessions' /\ FoldInv'
    <3>0. records' = records
      BY <2>7 DEF WriteDigests
    <3>1. CASE sess' = [sess EXCEPT ![a] = Fresh] /\ digests' = digests
      BY <2>0, <3>0, <3>1, ActorStep, FreshSession, EmptyFold
    <3>2. CASE ~Collides(sess[a])
      <4> DEFINE s == [sess[a] EXCEPT !.fold = <<>>, !.read = <<>>]
      <4>1. IsSession(s) /\ s.fold = <<>>
        BY <2>0, FoldUpdate
      <4>2. /\ digests' = [g \in DOMAIN digests \cup Changed(sess[a]) |->
                            IF g \in Changed(sess[a]) THEN sess[a].fold[g] ELSE digests[g]]
            /\ sess' = [sess EXCEPT ![a] = s]
        BY <2>7, <3>2 DEF WriteDigests
      <4>3. Changed(sess[a]) \subseteq DOMAIN sess[a].fold
        BY DEF Changed
      <4>4. TrueOf(digests', records)
        BY <2>0, <4>2, <4>3 DEF TrueOf
      <4>5. TrueOf(s.fold, records)
        BY <4>1, EmptyFold
      <4> HIDE DEF s
      <4> QED
        BY <3>0, <4>1, <4>2, <4>4, <4>5, ActorStep
    <3> QED BY <2>7, <3>1, <3>2 DEF WriteDigests
  <2>8. ASSUME NEW a \in Getters, Get(a) PROVE Sessions' /\ FoldInv'
    <3>1. /\ sess' = [sess EXCEPT ![a] = Fresh] /\ records' = records /\ digests' = digests
          /\ a \in Actors
      BY <2>0, <2>8 DEF Get
    <3>2. TrueOf(Fresh.fold, records') /\ IsSession(Fresh)
      BY FreshSession, EmptyFold
    <3> QED BY <2>0, <3>1, <3>2, ActorStep
  <2>9. ASSUME NEW a \in Actors, LatestDigest(a) PROVE Sessions' /\ FoldInv'
    <3>0. records' = records
      BY <2>9 DEF LatestDigest
    <3>1. CASE sess' = [sess EXCEPT ![a] = Fresh] /\ digests' = digests
      BY <2>0, <3>0, <3>1, ActorStep, FreshSession, EmptyFold
    <3>2. CASE /\ \E scope : sess' = [sess EXCEPT ![a] = [Fresh EXCEPT !.scope = scope,
                                                                       !.nested = TRUE]]
               /\ digests' = digests
      <4>1. PICK scope : sess' = [sess EXCEPT ![a] = [Fresh EXCEPT !.scope = scope,
                                                                  !.nested = TRUE]]
        BY <3>2
      <4> DEFINE s == [Fresh EXCEPT !.scope = scope, !.nested = TRUE]
      <4>2. IsSession(s) /\ s.fold = <<>>
        BY FreshSession
      <4> HIDE DEF s
      <4>3. sess' = [sess EXCEPT ![a] = s]
        BY <4>1 DEF s
      <4>4. digests' = digests /\ TrueOf(digests', records') /\ TrueOf(s.fold, records')
        BY <2>0, <3>0, <3>2, <4>2, EmptyFold
      <4> QED
        BY <3>0, <4>2, <4>3, <4>4, ActorStep
    <3>3. CASE /\ sess' = [sess EXCEPT ![a] = Fresh]
               /\ \E today : digests' = [g \in DOMAIN digests \cup {today} |->
                                          IF g = today THEN {} ELSE digests[g]]
      <4>1. TrueOf(digests', records)
        BY <2>0, <3>3 DEF TrueOf
      <4> QED
        BY <2>0, <3>0, <3>3, <4>1, ActorStep, FreshSession, EmptyFold
    <3> DEFINE scope == IF sess[a].nested THEN sess[a].scope ELSE selected
               today == [date |-> Day(clock), market |-> Home, symbol |-> scope]
    <3>4. \/ sess' = [sess EXCEPT ![a] = Fresh] /\ digests' = digests
          \/ /\ sess' = [sess EXCEPT ![a] = [Fresh EXCEPT !.scope = scope, !.nested = TRUE]]
             /\ digests' = digests
          \/ /\ sess' = [sess EXCEPT ![a] = Fresh]
             /\ \/ digests' = digests
                \/ digests' = [g \in DOMAIN digests \cup {today} |->
                                 IF g = today THEN {} ELSE digests[g]]
      BY <2>9 DEF LatestDigest
    <3> HIDE DEF scope, today
    <3> QED BY <3>1, <3>2, <3>3, <3>4
  <2>10. CASE Crash
    BY <2>10, FreshSession, EmptyFold DEF Crash, Sessions, FoldInv
  <2>11. CASE Tick \/ Publish \/ UNCHANGED vars
    BY <2>11 DEF Tick, Publish, vars, kept, Sessions, FoldInv
  <2> QED
    BY <2>0, <2>1, <2>2, <2>3, <2>4, <2>5, <2>6, <2>7, <2>8, <2>9, <2>10, <2>11
    DEF Next, SyncStep, Works
<1> QED BY <1>1, <1>2, PTL DEF Spec

-----------------------------------------------------------------------------

(* A digest of the home market names only stored events of its own trade   *)
(* date and symbol, for any number of failures, crashes and GET handlers   *)
(* that fold beside the sync: sync_daily_event_digests writes what it read *)
(* before, and the purge deletes no event of the home market.              *)
THEOREM DigestsAreTrue == Spec => []DigestsNameStoredEvents
<1>1. FoldInv => DigestsNameStoredEvents
  BY DEF FoldInv, TrueOf, DigestsNameStoredEvents
<1> QED BY <1>1, FoldInvariant, PTL

-----------------------------------------------------------------------------
\* Types.  What a session will store is typed as what is stored: its events are of the past
\* and of the selected symbols, its fold and a digest that it makes up are of days gone by.

AreEvents(rs, now) ==
  \A r \in rs : r.pub \in 0..now /\ r.market \in {Home, "CN"} /\ r.symbol \in Symbols

AreGroups(gs, now) == \A g \in gs : g.date \in 0..Day(now) /\ g.symbol \in Symbols

Counts ==
  /\ clock \in 0..MaxClock /\ observed \in 0..clock /\ selected \in Symbols
  /\ failures \in 0..MaxFailures /\ crashes \in 0..MaxCrashes
  /\ status.degraded \in BOOLEAN /\ status.lastSuccess \in Never..clock

Kinds == {"degraded", "fallback", "recovered"}

Stores == AreEvents(records, clock) /\ AreGroups(DOMAIN digests, clock) /\ audits \subseteq Kinds

SessionIsTyped(s, now) ==
  /\ IsSession(s) /\ s.scope \in Symbols
  /\ AreEvents(s.adds, now) /\ s.audits \subseteq Kinds /\ AreGroups(DOMAIN s.fold, now)

Places ==
  /\ pc \in [Actors -> Steps] /\ \A a \in Getters : pc[a] # "purge"
  /\ DOMAIN sess = Actors /\ sess = [a \in Actors |-> sess[a]]
  /\ \A a \in Actors : SessionIsTyped(sess[a], clock)

TypeInv == Counts /\ Stores /\ Places

LEMMA DaysGoBy ==
  ASSUME NEW s \in Nat, NEW t \in Nat, s <= t
  PROVE  Day(s) \in 0..Day(t)
<1> DEFINE k == TicksPerDay
           p == s \div k
           q == t \div k
<1>1. k \in Nat \ {0}
  BY MacroAssumption
<1>2. p \in Int /\ q \in Int /\ k * p <= s /\ s < k * (p + 1) /\ k * q <= t /\ t < k * (q + 1)
  BY <1>1, Z3
<1> HIDE DEF k, p, q
<1>3. 0 <= p
  <2> SUFFICES ASSUME p + 1 <= 0 PROVE FALSE
    BY <1>2
  <2>1. k * (p + 1) <= 0
    BY <1>1, <1>2, Z3
  <2> QED BY <1>1, <1>2, <2>1, Z3
<1>4. p <= q
  <2> SUFFICES ASSUME q + 1 <= p PROVE FALSE
    BY <1>2
  <2>1. k * (q + 1) <= k * p
    BY <1>1, <1>2, Z3
  <2> QED BY <1>1, <1>2, <2>1, Z3
<1> QED BY <1>2, <1>3, <1>4 DEF Day, p, q, k

\* The groups of events, and a fold of them.
LEMMA GroupsOfEvents ==
  ASSUME NEW rs, NEW now \in Nat, AreEvents(rs, now)
  PROVE  AreGroups({Group(r) : r \in rs}, now)
<1> SUFFICES ASSUME NEW r \in rs PROVE Day(r.pub) \in 0..Day(now) /\ r.symbol \in Symbols
  BY DEF AreGroups, Group
<1>1. r.pub \in Nat /\ r.pub <= now /\ r.symbol \in Symbols
  BY DEF AreEvents
<1> QED BY <1>1, DaysGoBy

\* What is typed stays typed as time goes by.
LEMMA TypesAge ==
  ASSUME NEW now \in Nat, NEW later \in Nat, now <= later
  PROVE  /\ \A rs : AreEvents(rs, now) => AreEvents(rs, later)
         /\ \A gs : AreGroups(gs, now) => AreGroups(gs, later)
         /\ \A s : SessionIsTyped(s, now) => SessionIsTyped(s, later)
<1>1. ASSUME NEW rs, AreEvents(rs, now) PROVE AreEvents(rs, later)
  BY <1>1 DEF AreEvents
<1>2. ASSUME NEW gs, AreGroups(gs, now) PROVE AreGroups(gs, later)
  <2>1. Day(now) \in 0..Day(later) /\ Day(later) \in Nat
    BY DaysGoBy, MacroAssumption DEF Day
  <2> HIDE DEF Day
  <2> QED BY <1>2, <2>1 DEF AreGroups
<1> QED BY <1>1, <1>2 DEF SessionIsTyped

LEMMA FreshIsTyped ==
  /\ \A now : SessionIsTyped(Fresh, now)
  /\ \A now : \A scope \in Symbols :
       SessionIsTyped([Fresh EXCEPT !.scope = scope, !.nested = TRUE], now)
<1>1. Fresh.scope \in Symbols /\ Fresh.adds = {} /\ Fresh.audits = {}
  BY MacroAssumption DEF Fresh
<1>2. \A now : AreEvents({}, now) /\ AreGroups(DOMAIN <<>>, now)
  BY DEF AreEvents, AreGroups
<1>3. \A now : SessionIsTyped(Fresh, now)
  BY <1>1, <1>2, FreshSession DEF SessionIsTyped
<1>4. ASSUME NEW now, NEW scope \in Symbols
      PROVE  SessionIsTyped([Fresh EXCEPT !.scope = scope, !.nested = TRUE], now)
  <2> DEFINE s == [Fresh EXCEPT !.scope = scope, !.nested = TRUE]
  <2>1. s.scope = scope /\ s.adds = {} /\ s.audits = {}
    BY <1>1, FreshSession DEF IsSession, Fields
  <2>2. IsSession(s) /\ s.fold = <<>>
    BY FreshSession
  <2> HIDE DEF s
  <2>3. SessionIsTyped(s, now)
    BY <1>2, <2>1, <2>2 DEF SessionIsTyped
  <2> QED BY <2>3 DEF s
<1> QED BY <1>3, <1>4

\* An actor that moves and gets a typed session.
LEMMA ActorMoves ==
  ASSUME Places, NEW a \in Actors, NEW step \in Steps, a = "sync" \/ step # "purge",
         NEW s, SessionIsTyped(s, clock), Goto(a, step, s), clock' = clock
  PROVE  Places'
<1>1. /\ pc' \in [Actors -> Steps]
      /\ \A b \in Actors : pc'[b] = IF b = a THEN step ELSE pc[b]
  BY DEF Places, Goto
<1>2. /\ DOMAIN sess' = Actors /\ sess' = [b \in Actors |-> sess'[b]]
      /\ \A b \in Actors : sess'[b] = IF b = a THEN s ELSE sess[b]
  BY DEF Places, Goto
<1>3. \A b \in Getters : pc'[b] # "purge"
  BY <1>1, MacroAssumption DEF Places, Actors
<1>4. \A b \in Actors : SessionIsTyped(sess'[b], clock')
  BY <1>2 DEF Places
<1> QED BY <1>1, <1>2, <1>3, <1>4 DEF Places

LEMMA AddsAreTyped ==
  ASSUME NEW s, NEW now, SessionIsTyped(s, now), NEW adds, AreEvents(adds, now),
         NEW kinds \in SUBSET Kinds
  PROVE  SessionIsTyped([s EXCEPT !.adds = adds, !.audits = kinds], now)
<1> DEFINE next == [s EXCEPT !.adds = adds, !.audits = kinds]
<1>1. next.scope = s.scope /\ next.adds = adds /\ next.audits = kinds
  BY DEF SessionIsTyped, IsSession, Fields
<1>2. IsSession(next) /\ next.fold = s.fold
  BY AddsUpdate DEF SessionIsTyped
<1> HIDE DEF next
<1>3. SessionIsTyped(next, now)
  BY <1>1, <1>2 DEF SessionIsTyped
<1> QED BY <1>3 DEF next

LEMMA FoldIsTyped ==
  ASSUME NEW s, NEW now, SessionIsTyped(s, now), NEW fold, AreGroups(DOMAIN fold, now), NEW read
  PROVE  SessionIsTyped([s EXCEPT !.fold = fold, !.read = read], now)
<1> DEFINE next == [s EXCEPT !.fold = fold, !.read = read]
<1>1. next.scope = s.scope /\ next.adds = s.adds /\ next.audits = s.audits
  BY DEF SessionIsTyped, IsSession, Fields
<1>2. IsSession(next) /\ next.fold = fold
  BY FoldUpdate DEF SessionIsTyped
<1> HIDE DEF next
<1>3. SessionIsTyped(next, now)
  BY <1>1, <1>2 DEF SessionIsTyped
<1> QED BY <1>3 DEF next

\* What an actor fetched: events of now, or the newest observation.
LEMMA SeedsAreTyped ==
  ASSUME Counts
  PROVE  /\ \A p : AreEvents(NotStored({LiveSeed(p)}), clock)
         /\ \A chosen : AreEvents(NotStored(FallbackSeeds(chosen)), clock)
<1>1. clock \in Nat /\ observed \in 0..clock /\ selected \in Symbols
  BY MacroAssumption DEF Counts
<1>2. ASSUME NEW p PROVE AreEvents(NotStored({LiveSeed(p)}), clock)
  BY <1>1 DEF AreEvents, NotStored, LiveSeed
<1>3. ASSUME NEW chosen PROVE AreEvents(NotStored(FallbackSeeds(chosen)), clock)
  BY <1>1 DEF AreEvents, NotStored, FallbackSeeds
<1> QED BY <1>2, <1>3

LEMMA TypesAreKept == Spec => []TypeInv
<1>1. Init => TypeInv
  <2> SUFFICES ASSUME Init PROVE TypeInv
    OBVIOUS
  <2>1. Counts
    BY MacroAssumption DEF Init, Counts, Never
  <2>2. Stores
    <3>1. \A r \in records : r.pub = 0 /\ r.market = "CN" /\ r.symbol \in Symbols
      BY DEF Init
    <3>2. AreEvents(records, clock)
      BY <3>1 DEF Init, AreEvents
    <3> QED BY <3>2 DEF Init, Stores, AreGroups
  <2>3. Places
    <3>1. /\ pc = [a \in Actors |-> "idle"] /\ sess = [a \in Actors |-> Fresh]
          /\ "idle" \in Steps
      BY DEF Init, Steps
    <3>2. \A a \in Actors : SessionIsTyped(sess[a], clock)
      BY <3>1, FreshIsTyped
    <3>3. \A a \in Getters : a \in Actors
      BY DEF Actors
    <3> HIDE DEF Fresh
    <3> QED BY <3>1, <3>2, <3>3 DEF Places
  <2> QED BY <2>1, <2>2, <2>3 DEF TypeInv
<1>2. TypeInv /\ [Next]_vars => TypeInv'
  <2> SUFFICES ASSUME TypeInv, [Next]_vars PROVE TypeInv'
    OBVIOUS
  <2>0. /\ Counts /\ Stores /\ Places
        /\ "sync" \in Actors /\ \A a \in Getters : a \in Actors /\ a # "sync"
        /\ clock \in Nat /\ clock <= MaxClock /\ MaxClock \in Nat
        /\ \A a \in Actors : SessionIsTyped(sess[a], clock)
        /\ {"idle", "fetch", "store", "fold", "write", "lookup"} \subseteq Steps
    BY MacroAssumption DEF TypeInv, Counts, Places, Actors, Steps
  <2>1. ASSUME NEW s \in Symbols, SelectUniverse(s) PROVE TypeInv'
    <3>1. Counts' /\ Stores'
      BY <2>0, <2>1 DEF SelectUniverse, Counts, Stores
    <3>2. Goto("sync", "purge", Fresh) /\ clock' = clock /\ "purge" \in Steps
      BY <2>1 DEF SelectUniverse, Steps
    <3> QED BY <2>0, <3>1, <3>2, ActorMoves, FreshIsTyped DEF TypeInv
  <2>2. CASE Purge
    <3>1. Counts'
      BY <2>0, <2>2 DEF Purge, kept, Counts
    <3>2. records' \subseteq records /\ DOMAIN digests' \subseteq DOMAIN digests
      BY <2>2 DEF Purge, Restrict
    <3>3. clock' = clock /\ audits' = audits /\ Goto("sync", "fetch", Fresh)
      BY <2>2 DEF Purge, kept
    <3>4. Stores'
      BY <2>0, <3>2, <3>3 DEF Stores, AreEvents, AreGroups
    <3> QED BY <2>0, <3>1, <3>3, <3>4, ActorMoves, FreshIsTyped DEF TypeInv
  <2>3. ASSUME NEW a \in Actors, NEW p \in Providers, FetchLive(a, p) PROVE TypeInv'
    <3> DEFINE adds == NotStored({LiveSeed(p)})
               kinds == IF status.degraded THEN {"recovered"} ELSE {}
    <3>1. /\ Stores'
          /\ status' = [degraded |-> FALSE, lastSuccess |-> clock, reused |-> 0]
          /\ UNCHANGED <<clock, observed, selected, failures, crashes>>
      BY <2>0, <2>3 DEF FetchLive, kept, Stores
    <3>0. Counts'
      BY <2>0, <3>1 DEF Counts, Never
    <3>2. /\ clock' = clock
          /\ Goto(a, "store", [sess[a] EXCEPT !.adds = adds, !.audits = kinds])
      BY <2>3 DEF FetchLive, kept
    <3>3. AreEvents(adds, clock) /\ kinds \in SUBSET Kinds
      BY <2>0, SeedsAreTyped DEF Kinds
    <3> HIDE DEF adds, kinds
    <3>4. SessionIsTyped([sess[a] EXCEPT !.adds = adds, !.audits = kinds], clock)
      BY <2>0, <3>3, AddsAreTyped
    <3> QED BY <2>0, <3>0, <3>1, <3>2, <3>4, ActorMoves DEF TypeInv
  <2>4. ASSUME NEW a \in Actors, NEW reworded \in BOOLEAN, FetchFails(a, reworded)
        PROVE  TypeInv'
    <3>1. PICK seeds, kinds :
            /\ kinds \in SUBSET Kinds
            /\ \E chosen : seeds = FallbackSeeds(chosen)
            /\ status' = [degraded |-> TRUE, reused |-> Reused,
                          lastSuccess |-> IF seeds # {} THEN clock ELSE status.lastSuccess]
            /\ Goto(a, "store", [sess[a] EXCEPT !.adds = NotStored(seeds), !.audits = kinds])
      <4>1. PICK chosen :
              LET seeds == FallbackSeeds(chosen)
                  news == ~status.degraded \/ status.reused # Reused \/ reworded
              IN /\ status' = [degraded |-> TRUE, reused |-> Reused,
                               lastSuccess |-> IF seeds # {} THEN clock
                                                             ELSE status.lastSuccess]
                 /\ Goto(a, "store", [sess[a] EXCEPT
                      !.adds = NotStored(seeds),
                      !.audits = (IF news THEN {"degraded"} ELSE {})
                                 \cup (IF seeds # {} THEN {"fallback"} ELSE {})])
        BY <2>4 DEF FetchFails
      <4> DEFINE found == FallbackSeeds(chosen)
                 news == ~status.degraded \/ status.reused # Reused \/ reworded
                 kinds == (IF news THEN {"degraded"} ELSE {})
                          \cup (IF found # {} THEN {"fallback"} ELSE {})
      <4>2. kinds \in SUBSET Kinds
        BY DEF Kinds
      <4>3. /\ status' = [degraded |-> TRUE, reused |-> Reused,
                          lastSuccess |-> IF found # {} THEN clock ELSE status.lastSuccess]
            /\ Goto(a, "store", [sess[a] EXCEPT !.adds = NotStored(found), !.audits = kinds])
        BY <4>1
      <4>4. \E chosen_ : found = FallbackSeeds(chosen_)
        OBVIOUS
      <4> HIDE DEF found, kinds
      <4> QED BY <4>2, <4>3, <4>4
    <3>2. /\ failures' = failures + 1 /\ failures < MaxFailures
          /\ UNCHANGED <<clock, observed, selected, crashes, records, digests, audits>>
      BY <2>4 DEF FetchFails
    <3>3. Counts'
      <4>1. status'.degraded = TRUE /\ status'.lastSuccess \in {clock, status.lastSuccess}
        BY <3>1
      <4>2. failures + 1 \in 0..MaxFailures
        BY <2>0, <3>2, MacroAssumption DEF Counts
      <4>3. clock \in Never..clock
        BY <2>0 DEF Never
      <4> QED BY <2>0, <3>2, <4>1, <4>2, <4>3 DEF Counts
    <3>4. Stores'
      BY <2>0, <3>2 DEF Stores
    <3> DEFINE adds == NotStored(seeds)
    <3>5. AreEvents(adds, clock)
      BY <2>0, <3>1, SeedsAreTyped
    <3> HIDE DEF adds
    <3>6. SessionIsTyped([sess[a] EXCEPT !.adds = adds, !.audits = kinds], clock)
      BY <2>0, <3>1, <3>5, AddsAreTyped
    <3> QED BY <2>0, <3>1, <3>2, <3>3, <3>4, <3>6, ActorMoves DEF TypeInv, adds
  <2>5. ASSUME NEW a \in Actors, StoreEvents(a) PROVE TypeInv'
    <3>1. Counts' /\ clock' = clock /\ digests' = digests
      BY <2>0, <2>5 DEF StoreEvents, kept, Counts
    <3>2. Stores'
      <4>1. records' \subseteq records \cup sess[a].adds
        BY <2>5 DEF StoreEvents
      <4>2. audits' \subseteq audits \cup sess[a].audits
        BY <2>5 DEF StoreEvents
      <4>3. AreEvents(records', clock)
        BY <2>0, <4>1 DEF Stores, SessionIsTyped, AreEvents
      <4> QED BY <2>0, <3>1, <4>2, <4>3 DEF Stores, SessionIsTyped
    <3>3. CASE Goto(a, "idle", Fresh)
      BY <2>0, <3>1, <3>2, <3>3, ActorMoves, FreshIsTyped DEF TypeInv
    <3>4. CASE Goto(a, "fold", [sess[a] EXCEPT !.adds = {}, !.audits = {}])
      <4>1. AreEvents({}, clock) /\ {} \in SUBSET Kinds
        BY DEF AreEvents
      <4>2. SessionIsTyped([sess[a] EXCEPT !.adds = {}, !.audits = {}], clock)
        BY <2>0, <4>1, AddsAreTyped
      <4> QED BY <2>0, <3>1, <3>2, <3>4, <4>2, ActorMoves DEF TypeInv
    <3> QED BY <2>5, <3>3, <3>4 DEF StoreEvents, Abort
  <2>6. ASSUME NEW a \in Actors, FoldDigests(a) PROVE TypeInv'
    <3>1. Counts' /\ Stores' /\ clock' = clock
      BY <2>0, <2>6 DEF FoldDigests, kept, Counts, Stores
    <3>2. CASE Goto(a, "lookup", sess[a])
      BY <2>0, <3>1, <3>2, ActorMoves DEF TypeInv
    <3>3. CASE \E read : Goto(a, "write", [sess[a] EXCEPT !.fold = Folded, !.read = read])
      <4>1. PICK read : Goto(a, "write", [sess[a] EXCEPT !.fold = Folded, !.read = read])
        BY <3>3
      <4>2. AreGroups(DOMAIN Folded, clock)
        BY <2>0, GroupsOfEvents DEF Folded, Stores
      <4>3. SessionIsTyped([sess[a] EXCEPT !.fold = Folded, !.read = read], clock)
        BY <2>0, <4>2, FoldIsTyped
      <4> QED BY <2>0, <3>1, <4>1, <4>3, ActorMoves DEF TypeInv
    <3> QED BY <2>6, <3>2, <3>3 DEF FoldDigests
  <2>7. ASSUME NEW a \in Actors, WriteDigests(a) PROVE TypeInv'
    <3>1. Counts' /\ clock' = clock /\ records' = records /\ audits' = audits
      BY <2>0, <2>7 DEF WriteDigests, kept, Counts
    <3>2. CASE Goto(a, "idle", Fresh) /\ digests' = digests
      <4>1. Stores'
        BY <2>0, <3>1, <3>2 DEF Stores
      <4> QED BY <2>0, <3>1, <3>2, <4>1, ActorMoves, FreshIsTyped DEF TypeInv
    <3>3. CASE ~Collides(sess[a])
      <4>1. /\ DOMAIN digests' = DOMAIN digests \cup Changed(sess[a])
            /\ Goto(a, "lookup", [sess[a] EXCEPT !.fold = <<>>, !.read = <<>>])
        BY <2>7, <3>3 DEF WriteDigests
      <4>2. Changed(sess[a]) \subseteq DOMAIN sess[a].fold
        BY DEF Changed
      <4>3. AreGroups(DOMAIN digests', clock)
        BY <2>0, <4>1, <4>2 DEF Stores, SessionIsTyped, AreGroups
      <4>4. Stores'
        BY <2>0, <3>1, <4>3 DEF Stores
      <4>5. AreGroups(DOMAIN <<>>, clock)
        BY DEF AreGroups
      <4>6. SessionIsTyped([sess[a] EXCEPT !.fold = <<>>, !.read = <<>>], clock)
        BY <2>0, <4>5, FoldIsTyped
      <4> QED BY <2>0, <3>1, <4>1, <4>4, <4>6, ActorMoves DEF TypeInv
    <3> QED BY <2>7, <3>2, <3>3 DEF WriteDigests, Abort
  <2>8. ASSUME NEW a \in Getters, Get(a) PROVE TypeInv'
    <3>1. Counts' /\ Stores' /\ clock' = clock /\ Goto(a, "lookup", Fresh)
      BY <2>0, <2>8 DEF Get, kept, Counts, Stores
    <3> QED BY <2>0, <3>1, ActorMoves, FreshIsTyped DEF TypeInv
  <2>9. ASSUME NEW a \in Actors, LatestDigest(a) PROVE TypeInv'
    <3> DEFINE scope == IF sess[a].nested THEN sess[a].scope ELSE selected
               today == [date |-> Day(clock), market |-> Home, symbol |-> scope]
    <3>1. Counts' /\ clock' = clock /\ records' = records /\ audits' = audits
      BY <2>0, <2>9 DEF LatestDigest, kept, Counts
    <3>2. scope \in Symbols
      BY <2>0 DEF SessionIsTyped, Counts
    <3>3. DOMAIN digests' \subseteq DOMAIN digests \cup {today}
      BY <2>9 DEF LatestDigest
    <3>4. AreGroups({today}, clock)
      BY <2>0, <3>2, DaysGoBy DEF AreGroups
    <3>5. Stores'
      BY <2>0, <3>1, <3>3, <3>4 DEF Stores, AreGroups
    <3>6. \/ Goto(a, "idle", Fresh)
          \/ Goto(a, "fetch", [Fresh EXCEPT !.scope = scope, !.nested = TRUE])
      BY <2>9 DEF LatestDigest, Abort
    <3> HIDE DEF scope
    <3>7. /\ SessionIsTyped(Fresh, clock)
          /\ SessionIsTyped([Fresh EXCEPT !.scope = scope, !.nested = TRUE], clock)
      BY <3>2, FreshIsTyped
    <3>8. CASE Goto(a, "idle", Fresh)
      BY <2>0, <3>1, <3>5, <3>7, <3>8, ActorMoves DEF TypeInv
    <3>9. CASE Goto(a, "fetch", [Fresh EXCEPT !.scope = scope, !.nested = TRUE])
      <4> DEFINE s == [Fresh EXCEPT !.scope = scope, !.nested = TRUE]
      <4>1. SessionIsTyped(s, clock) /\ Goto(a, "fetch", s)
        BY <3>7, <3>9
      <4> HIDE DEF s
      <4> QED BY <2>0, <3>1, <3>5, <4>1, ActorMoves DEF TypeInv
    <3> QED BY <3>6, <3>8, <3>9
  <2>10. CASE Tick
    <3>1. /\ clock' = clock + 1 /\ clock < MaxClock
          /\ UNCHANGED <<observed, selected, failures, crashes, records, digests, status,
                         audits, pc, sess>>
      BY <2>10 DEF Tick
    <3>2. Counts'
      BY <2>0, <3>1 DEF Counts, Never
    <3>3. clock' \in Nat /\ clock <= clock'
      BY <2>0, <3>1
    <3>4. Stores' /\ Places'
      BY <2>0, <3>1, <3>3, TypesAge DEF Stores, Places
    <3> QED BY <3>2, <3>4 DEF TypeInv
  <2>11. CASE Publish
    BY <2>0, <2>11 DEF Publish, TypeInv, Counts, Stores, Places
  <2>12. CASE Crash
    <3>1. Counts' /\ Stores'
      BY <2>0, <2>12, MacroAssumption DEF Crash, Counts, Stores
    <3>2. Places'
      BY <2>0, <2>12, FreshIsTyped DEF Crash, Places
    <3> QED BY <3>1, <3>2 DEF TypeInv
  <2>13. CASE UNCHANGED vars
    BY <2>0, <2>13 DEF vars, kept, TypeInv, Counts, Stores, Places
  <2> QED
    BY <2>0, <2>1, <2>2, <2>3, <2>4, <2>5, <2>6, <2>7, <2>8, <2>9, <2>10, <2>11, <2>12, <2>13
    DEF Next, SyncStep, Works
<1> QED BY <1>1, <1>2, PTL DEF Spec

(* The state of the macro lane is of its types: no record, digest or       *)
(* status is of the future, whatever session wrote it and however late.    *)
THEOREM TypeInvariant == Spec => []TypeOK
<1>1. TypeInv => TypeOK
  BY DEF TypeInv, Counts, Stores, Places, AreEvents, AreGroups, Kinds, TypeOK
<1> QED BY <1>1, TypesAreKept, PTL
=============================================================================
