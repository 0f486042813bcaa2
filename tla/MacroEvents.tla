----------------------------- MODULE MacroEvents -----------------------------
(***************************************************************************)
(* The macro event lane.  A sync selects the universe's symbol, drops the  *)
(* history of other markets, fetches macro observations, stores them as    *)
(* event records and folds all records into one digest per trade date,     *)
(* market and symbol; the snapshot of the sync, and of every GET that      *)
(* shows one, takes the newest digest of the selected symbol, and fetches  *)
(* and folds by itself when it finds none.  When every provider fails, the *)
(* newest stored records are stored again as records of now.               *)
(*                                                                         *)
(* Each actor has a session of its own: what it added becomes visible at   *)
(* its commit, which fails as a whole when a unique key is taken.  The     *)
(* status of the lane and the selected symbol are rows of the key-value    *)
(* file and visible at once.  One series is fetched; a record is named by  *)
(* its observation and by the fallbacks it went through, as in the code.   *)
(* An operator whose name ends in _Bug is a plausible mistake in the       *)
(* definition that follows it and is used by no specification.             *)
(***************************************************************************)
EXTENDS Integers, Sequences, FiniteSets, Functions

CONSTANTS
  Providers,      \* the chain of macro providers, of "fred" and "worldbank"
  Symbols,        \* the symbols the universe may select
  Getters,        \* the GET handlers that run beside the sync
  TicksPerDay,    \* instants the model tells apart in one trade date
  MaxAge,         \* events.fallback_max_age_days, in instants
  FallbackLimit,  \* how many records a fallback reuses
  MaxClock, MaxFailures, MaxCrashes   \* bounds

ASSUME MacroAssumption ==
  /\ Providers # {} /\ Symbols # {} /\ "sync" \notin Getters
  /\ TicksPerDay \in Nat \ {0} /\ FallbackLimit \in Nat \ {0}
  /\ MaxAge \in Nat /\ MaxClock \in Nat /\ MaxFailures \in Nat /\ MaxCrashes \in Nat

Home == "HK"
Actors == Getters \cup {"sync"}
Never == -1

VARIABLES
  clock,
  observed,   \* the instant of the newest observation of fred; worldbank's, yearly, is of instant 0
  selected,   \* the stored universe selection
  records,    \* committed event records
  digests,    \* committed digests: group -> names of the events in it
  status,     \* the stored status of the lane
  audits,     \* the kinds of audit record of the lane that are committed
  pc,         \* per actor: where it stands
  sess,       \* per actor: what its session holds, uncommitted
  failures, crashes

kept == <<clock, observed, selected, failures, crashes>>
vars == <<kept, records, digests, status, audits, pc, sess>>

Day(t) == t \div TicksPerDay
Group(r) == [date |-> Day(r.pub), market |-> r.market, symbol |-> r.symbol]

Fresh == [scope |-> CHOOSE s \in Symbols : TRUE, nested |-> FALSE,
          adds |-> {}, audits |-> {}, read |-> <<>>, fold |-> <<>>]

-----------------------------------------------------------------------------
\* Seeds.

LiveSeed(p) ==
  LET seen == IF p = "fred" THEN observed ELSE 0 IN
  [root |-> <<p, seen>>, path |-> <<>>, pub |-> seen, market |-> Home, symbol |-> selected]

FallbackPool == {r \in records : r.market = Home /\ r.pub >= clock - MaxAge}

\* What ORDER BY published_at DESC LIMIT n may return of a set of records.
Newest(pool, n) ==
  {s \in [1..n -> pool] :
     /\ \A i, j \in 1..n : i < j => s[i] # s[j] /\ s[i].pub >= s[j].pub
     /\ \A r \in pool : (\A i \in 1..n : s[i] # r) => \A i \in 1..n : r.pub <= s[i].pub}

Reused == IF Cardinality(FallbackPool) < FallbackLimit THEN Cardinality(FallbackPool)
                                                       ELSE FallbackLimit

FallbackSeeds(chosen) ==
  {[root |-> chosen[i].root, path |-> Append(chosen[i].path, <<Day(clock), i>>), pub |-> clock,
    market |-> Home, symbol |-> selected] : i \in DOMAIN chosen}

Name(r) == <<r.root, r.path>>
NamesOf(rs) == {Name(r) : r \in rs}
NotStored(seeds) == {r \in seeds : Name(r) \notin NamesOf(records)}

-----------------------------------------------------------------------------
\* Sessions.

Goto(a, step, s) == pc' = [pc EXCEPT ![a] = step] /\ sess' = [sess EXCEPT ![a] = s]

\* A failed commit rolls the session back and ends the sync or the request.
Abort(a) == Goto(a, "idle", Fresh)

Init ==
  /\ clock = 0 /\ observed = 0
  /\ selected \in Symbols
  /\ records \in {{}, {[root |-> <<"fred", 0>>, path |-> <<>>, pub |-> 0,
                        market |-> "CN", symbol |-> s] : s \in Symbols}}
  /\ digests = <<>>
  /\ status = [degraded |-> FALSE, lastSuccess |-> Never, reused |-> 0]
  /\ audits = {}
  /\ pc = [a \in Actors |-> "idle"] /\ sess = [a \in Actors |-> Fresh]
  /\ failures = 0 /\ crashes = 0

\* The sync selects the universe; the selection is stored at once.
SelectUniverse(s) ==
  /\ pc["sync"] = "idle"
  /\ selected' = s
  /\ Goto("sync", "purge", Fresh)
  /\ UNCHANGED <<clock, observed, failures, crashes, records, digests, status, audits>>

OutOfScope_Bug(r) == r.symbol # selected
OutOfScope(r) == r.market # Home

\* purge_out_of_scope_event_history and the commit of the next stage.
Purge ==
  /\ pc["sync"] = "purge"
  /\ records' = {r \in records : ~OutOfScope(r)}
  /\ digests' = Restrict(digests, {g \in DOMAIN digests : g.market = Home})
  /\ Goto("sync", "fetch", Fresh)
  /\ UNCHANGED <<kept, status, audits>>

\* sync_event_stream up to its commit, when provider p of the chain answers.
FetchLive(a, p) ==
  /\ pc[a] = "fetch"
  /\ status' = [degraded |-> FALSE, lastSuccess |-> clock, reused |-> 0]
  /\ Goto(a, "store", [sess[a] EXCEPT
       !.adds = NotStored({LiveSeed(p)}),
       !.audits = IF status.degraded THEN {"recovered"} ELSE {}])
  /\ UNCHANGED <<kept, records, digests, audits>>

\* The same when the chain fails; `reworded`: its error differs from the stored message's.
FetchFails(a, reworded) ==
  /\ pc[a] = "fetch" /\ failures < MaxFailures
  /\ \E chosen \in Newest(FallbackPool, Reused) :
       LET seeds == FallbackSeeds(chosen)
           news == ~status.degraded \/ status.reused # Reused \/ reworded
       IN /\ status' = [degraded |-> TRUE, reused |-> Reused,
                        lastSuccess |-> IF seeds # {} THEN clock ELSE status.lastSuccess]
          /\ Goto(a, "store", [sess[a] EXCEPT
               !.adds = NotStored(seeds),
               !.audits = (IF news THEN {"degraded"} ELSE {})
                          \cup (IF seeds # {} THEN {"fallback"} ELSE {})])
  /\ failures' = failures + 1
  /\ UNCHANGED <<clock, observed, selected, crashes, records, digests, audits>>

\* The commit that ends sync_event_stream: event_id is unique.
StoreEvents(a) ==
  /\ pc[a] = "store"
  /\ IF NotStored(sess[a].adds) = sess[a].adds
     THEN /\ records' = records \cup sess[a].adds
          /\ audits' = audits \cup sess[a].audits
          /\ Goto(a, "fold", [sess[a] EXCEPT !.adds = {}, !.audits = {}])
     ELSE Abort(a) /\ UNCHANGED <<records, audits>>
  /\ UNCHANGED <<kept, digests, status>>

-----------------------------------------------------------------------------
\* Digests.

Folded_Bug ==
  [g \in {h \in {Group(r) : r \in records} : h.symbol = selected} \ DOMAIN digests
     |-> NamesOf({r \in records : Group(r) = g})]

Folded ==
  [g \in {Group(r) : r \in records} |-> NamesOf({r \in records : Group(r) = g})]

\* sync_daily_event_digests reads all records and the digests of their groups.
FoldDigests(a) ==
  /\ pc[a] = "fold"
  /\ IF records = {}
     THEN Goto(a, "lookup", sess[a])
     ELSE Goto(a, "write", [sess[a] EXCEPT !.fold = Folded,
                                           !.read = Restrict(digests, DOMAIN digests \cap DOMAIN Folded)])
  /\ UNCHANGED <<kept, records, digests, status, audits>>

\* A row is written only where the session changed what it had loaded.
Changed(s) == {g \in DOMAIN s.fold : g \in DOMAIN s.read => s.read[g] # s.fold[g]}

\* One digest per group, and no update of a row that is gone.
Collides(s) == \E g \in Changed(s) : (g \in DOMAIN s.read) # (g \in DOMAIN digests)

WriteDigests(a) ==
  /\ pc[a] = "write"
  /\ IF Collides(sess[a]) THEN Abort(a) /\ UNCHANGED digests
     ELSE /\ digests' = [g \in DOMAIN digests \cup Changed(sess[a]) |->
                         IF g \in Changed(sess[a]) THEN sess[a].fold[g] ELSE digests[g]]
          /\ Goto(a, "lookup", [sess[a] EXCEPT !.fold = <<>>, !.read = <<>>])
  /\ UNCHANGED <<kept, records, status, audits>>

Shown(s) == {g \in DOMAIN digests : g.market = Home /\ g.symbol = s}

\* A GET that builds a market snapshot.
Get(a) ==
  /\ a # "sync" /\ pc[a] = "idle"
  /\ Goto(a, "lookup", Fresh)
  /\ UNCHANGED <<kept, records, digests, status, audits>>

\* _latest_digest.  Without a digest it fetches and folds once, and then makes one up;
\* the sync commits that one with its next stage, a GET closes its session without.
LatestDigest(a) ==
  LET scope == IF sess[a].nested THEN sess[a].scope ELSE selected
      today == [date |-> Day(clock), market |-> Home, symbol |-> scope] IN
  /\ pc[a] = "lookup"
  /\ \/ /\ Shown(scope) # {}
        /\ Abort(a) /\ UNCHANGED digests
     \/ /\ Shown(scope) = {} /\ ~sess[a].nested
        /\ Goto(a, "fetch", [Fresh EXCEPT !.scope = scope, !.nested = TRUE])
        /\ UNCHANGED digests
     \/ /\ Shown(scope) = {} /\ sess[a].nested
        /\ digests' = IF a = "sync"
                      THEN [g \in DOMAIN digests \cup {today} |->
                              IF g = today THEN {} ELSE digests[g]]
                      ELSE digests
        /\ Abort(a)
  /\ UNCHANGED <<kept, records, status, audits>>

-----------------------------------------------------------------------------
\* The world: time, new observations, and a process that dies.

Tick ==
  /\ clock < MaxClock
  /\ clock' = clock + 1
  /\ UNCHANGED <<observed, selected, failures, crashes, records, digests, status, audits, pc, sess>>

Publish ==
  /\ observed < clock
  /\ observed' = clock
  /\ UNCHANGED <<clock, selected, failures, crashes, records, digests, status, audits, pc, sess>>

Crash ==
  /\ crashes < MaxCrashes /\ \E a \in Actors : pc[a] # "idle"
  /\ crashes' = crashes + 1
  /\ pc' = [a \in Actors |-> "idle"] /\ sess' = [a \in Actors |-> Fresh]
  /\ UNCHANGED <<clock, observed, selected, failures, records, digests, status, audits>>

Works(a) ==
  \/ \E p \in Providers : FetchLive(a, p)
  \/ \E reworded \in BOOLEAN : FetchFails(a, reworded)
  \/ StoreEvents(a) \/ FoldDigests(a) \/ WriteDigests(a) \/ LatestDigest(a)

SyncStep == (\E s \in Symbols : SelectUniverse(s)) \/ Purge \/ Works("sync")

Next ==
  \/ SyncStep
  \/ \E a \in Getters : Get(a) \/ Works(a)
  \/ Tick \/ Publish \/ Crash

\* The scheduler asks for one sync after another and the worker keeps running them.
Spec == Init /\ [][Next]_vars /\ WF_vars(SyncStep)

-----------------------------------------------------------------------------
\* Properties.

Steps == {"idle", "purge", "fetch", "store", "fold", "write", "lookup"}

TypeOK ==
  /\ clock \in 0..MaxClock /\ observed \in 0..clock
  /\ selected \in Symbols
  /\ \A r \in records : r.pub \in 0..clock /\ r.market \in {Home, "CN"} /\ r.symbol \in Symbols
  /\ \A g \in DOMAIN digests : g.date \in 0..Day(clock) /\ g.symbol \in Symbols
  /\ status.degraded \in BOOLEAN /\ status.lastSuccess \in Never..clock
  /\ audits \subseteq {"degraded", "fallback", "recovered"}
  /\ pc \in [Actors -> Steps] /\ (\A a \in Getters : pc[a] # "purge")
  /\ failures \in 0..MaxFailures /\ crashes \in 0..MaxCrashes

(* A digest of the home market names only events that are stored, of its   *)
(* own trade date and symbol: whatever commits fail, whoever folds beside  *)
(* the sync, and although the sync deletes events and digests of other     *)
(* markets while a GET is folding them.                                    *)
DigestsNameStoredEvents ==
  \A g \in DOMAIN digests : g.market = Home =>
     digests[g] \subseteq NamesOf({r \in records : Group(r) = g})

(* Every stored event of the home market reaches the digest of its trade   *)
(* date and symbol, although a GET that folded an older set of records may *)
(* overwrite the digest and a commit or the process may fail on the way.   *)
EventuallyDigested ==
  \A p \in Providers, t \in 0..MaxClock, s \in Symbols :
     LET live == {r \in records : r.root = <<p, t>> /\ r.market = Home /\ r.symbol = s} IN
     live # {} ~> \A r \in live : Group(r) \in DOMAIN digests /\ Name(r) \in digests[Group(r)]
=============================================================================
