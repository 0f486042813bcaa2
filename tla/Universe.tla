------------------------------ MODULE Universe -------------------------------
(***************************************************************************)
(* The choice of the research universe.  A fetch takes the candidates of a *)
(* market frame, asks for the history of the first few in a provisional    *)
(* order, ranks all of them and stores the first as the selected symbol.   *)
(* Symbols whose history could not be had are kept in a file and not asked *)
(* for again for a while.  A sync always fetches; every other reader, the  *)
(* later stages of the sync included, takes the stored selection, and      *)
(* fetches only if none is stored or the stored one has no factors.        *)
(*                                                                         *)
(* Readers run beside the sync, in threads of the same process.  Scores    *)
(* are left out: the provisional order, and the order among candidates of  *)
(* one class, are left open.  The file is kept below its limit of 512      *)
(* entries.  An operator whose name ends in _Bug is a plausible mistake in *)
(* the definition that follows it.                                         *)
(***************************************************************************)
EXTENDS Integers, Sequences, FiniteSets, SequencesExt

CONSTANTS
  Symbols,      \* what a market frame may list
  Anchor,       \* the configured symbol, used when there is no candidate
  Getters,      \* the GET handlers that run beside the sync
  EnrichLimit,  \* how many candidates a fetch asks the history of
  TopN, Batch,  \* how many candidates are kept, and how many are researched
  TTL,          \* for how many instants a failure is remembered
  MaxClock, MaxSyncs, MaxGets   \* bounds

None == "none"

ASSUME UniverseAssumption ==
  /\ "sync" \notin Getters /\ Anchor \notin Symbols
  /\ IsFiniteSet(Symbols) /\ None \notin Symbols \cup {Anchor}
  /\ EnrichLimit \in Nat \ {0} /\ TopN \in Nat \ {0} /\ Batch \in Nat \ {0}
  /\ TTL \in Nat /\ MaxClock \in Nat /\ MaxSyncs \in Nat /\ MaxGets \in Nat

Actors == Getters \cup {"sync"}
NoSelection == [symbol |-> None, candidates |-> <<>>, factors |-> FALSE]
EmptyMemory == [s \in {} |-> 0]

VARIABLES
  clock,
  file,       \* the failure memory: symbol -> time of the failure
  selection,  \* the stored selection
  pc,         \* per actor: where it stands
  work,       \* per actor: its fetch
  used,       \* what the first fetch of the sync returned
  focus,      \* the symbol of the sync's snapshot
  syncs, gets,
  failed,     \* history: when the history of a symbol was last asked for in vain
  astray,     \* history: has a fetch been cut off, or have two of them overlapped?
  crossed,    \* history: has a GET stored a selection since this sync stored its own?
  pestered    \* history: the symbols asked for although their failure was recent

counters == <<syncs, gets>>
history == <<failed, astray, crossed, pestered>>
vars == <<clock, file, selection, pc, work, used, focus, counters, history>>

Blank == [order |-> <<>>, next |-> 1, class |-> EmptyMemory, plain |-> {},
          memory |-> EmptyMemory, dirty |-> FALSE]

Init ==
  /\ clock = 0 /\ file = EmptyMemory /\ selection = NoSelection
  /\ pc = [a \in Actors |-> "idle"] /\ work = [a \in Actors |-> Blank]
  /\ used = NoSelection /\ focus = None /\ syncs = 0 /\ gets = 0
  /\ failed = EmptyMemory /\ astray = FALSE /\ crossed = FALSE /\ pestered = {}

Goto(a, step) == pc' = [pc EXCEPT ![a] = step]

-----------------------------------------------------------------------------
\* The failure memory.

Recent(m, s) == s \in DOMAIN m /\ m[s] >= clock - TTL
Pruned(m) == [s \in {t \in DOMAIN m : Recent(m, t)} |-> m[s]]
With(m, s, t) == [x \in DOMAIN m \cup {s} |-> IF x = s THEN t ELSE m[x]]
Without(m, s) == [x \in DOMAIN m \ {s} |-> m[x]]

-----------------------------------------------------------------------------
\* The stored selection.

Usable_Bug(sel) == sel.symbol # None /\ ~sel.factors
Usable(sel) == sel.symbol # None /\ sel.factors

StaticSelection == [symbol |-> Anchor, candidates |-> <<Anchor>>, factors |-> TRUE]

\* get_universe_selection has its result: the sync goes on with it, a GET is done.
Selected(a, sel) ==
  LET first == a = "sync" /\ used = NoSelection IN
  /\ used' = IF first THEN sel ELSE used
  /\ focus' = IF a = "sync" /\ ~first THEN sel.symbol ELSE focus
  /\ Goto(a, IF a # "sync" THEN "idle" ELSE IF first THEN "snapshot" ELSE "research")

StoreSelection(a, sel) ==
  /\ selection' = sel
  /\ crossed' = (crossed \/ (a # "sync" /\ used # NoSelection))
  /\ Selected(a, sel)
  /\ work' = [work EXCEPT ![a] = Blank]

\* The sync asks for a new selection.
Refresh ==
  /\ pc["sync"] = "idle" /\ syncs < MaxSyncs
  /\ Goto("sync", "frame")
  /\ syncs' = syncs + 1
  /\ crossed' = FALSE
  /\ UNCHANGED <<clock, file, selection, work, used, focus, gets, failed, astray, pestered>>

\* Any other reader: a GET, and the snapshot of the sync.
Read(a) ==
  /\ \/ a = "sync" /\ pc[a] = "snapshot" /\ UNCHANGED gets
     \/ a # "sync" /\ pc[a] = "idle" /\ gets < MaxGets /\ gets' = gets + 1
  /\ IF Usable(selection)
     THEN Selected(a, selection)
     ELSE Goto(a, "frame") /\ UNCHANGED <<used, focus>>
  /\ UNCHANGED <<clock, file, selection, work, syncs, history>>

-----------------------------------------------------------------------------
\* fetch_hk_universe_candidates.

\* What minshare, else akshare, else the resilient list gives.
Frames == SUBSET Symbols

\* The filters leave some of it, in a provisional order.
Provisional(frame) == UNION {SetToSeqs(t) : t \in SUBSET frame}

\* Some candidates have no reason tag; the history of a candidate adds one at least.
Untagged(order) == SUBSET ToSet(order)
Outcomes == 1..4

\* A frame is had, or no candidate is left: then it is the anchor.
TakeFrame(a, order, plain) ==
  /\ pc[a] = "frame"
  /\ IF order = <<>>
     THEN StoreSelection(a, StaticSelection)
     ELSE /\ work' = [work EXCEPT ![a] = [Blank EXCEPT !.order = order, !.plain = plain]]
          /\ Goto(a, "load") /\ UNCHANGED <<selection, crossed, used, focus>>
  /\ UNCHANGED <<clock, file, counters, failed, astray, pestered>>

LoadMemory(a) ==
  /\ pc[a] = "load"
  /\ work' = [work EXCEPT ![a].memory = Pruned(file)]
  /\ astray' = (astray \/ \E o \in Actors : pc[o] \in {"enrich", "save", "rank"})
  /\ Goto(a, "enrich")
  /\ UNCHANGED <<clock, file, selection, used, focus, counters, failed, crossed, pestered>>

Remaining(w) == w.next <= EnrichLimit /\ w.next <= Len(w.order)

\* The next candidate was in vain a short while ago: it is skipped.
Skip(a) ==
  LET s == work[a].order[work[a].next] IN
  /\ pc[a] = "enrich" /\ Remaining(work[a]) /\ Recent(work[a].memory, s)
  /\ work' = [work EXCEPT ![a].next = @ + 1, ![a].class = With(@, s, 4),
               ![a].plain = @ \ {s}]
  /\ UNCHANGED <<clock, file, selection, pc, used, focus, counters, history>>

\* Its history is asked for: it is confirmed (1), flagged for a drawdown (2), too short (3)
\* or not to be had (4).
Ask(a, class) ==
  LET s == work[a].order[work[a].next]
      m == work[a].memory IN
  /\ pc[a] = "enrich" /\ Remaining(work[a]) /\ ~Recent(m, s)
  /\ work' = [work EXCEPT ![a].next = @ + 1, ![a].class = With(@, s, class),
               ![a].memory = IF class = 4 THEN With(m, s, clock) ELSE Without(m, s),
               ![a].dirty = @ \/ class = 4 \/ s \in DOMAIN m,
               ![a].plain = @ \ {s}]
  /\ failed' = IF class = 4 THEN With(failed, s, clock) ELSE Without(failed, s)
  /\ pestered' = IF Recent(failed, s) THEN pestered \cup {s} ELSE pestered
  /\ UNCHANGED <<clock, file, selection, pc, used, focus, counters, astray, crossed>>

\* write_text empties the file first, and an empty file reads as an empty memory.
Truncate(a) ==
  /\ pc[a] = "enrich" /\ ~Remaining(work[a]) /\ work[a].dirty
  /\ file' = EmptyMemory
  /\ Goto(a, "save")
  /\ UNCHANGED <<clock, selection, work, used, focus, counters, history>>

Saved_Bug(m) == Pruned([s \in DOMAIN m |-> 0])
Saved(m) == Pruned(m)

Save(a) ==
  /\ pc[a] = "save"
  /\ file' = Saved(work[a].memory)
  /\ Goto(a, "rank")
  /\ UNCHANGED <<clock, selection, work, used, focus, counters, history>>

\* Candidates whose history was not asked for rank with those whose history is too short.
ClassOf(w, s) == IF s \in DOMAIN w.class THEN w.class[s] ELSE 3

Rankings_Bug(w) == {SubSeq(w.order, 1, IF Len(w.order) < TopN THEN Len(w.order) ELSE TopN)}
Rankings(w) ==
  LET all == ToSet(w.order)
      size == IF Cardinality(all) < TopN THEN Cardinality(all) ELSE TopN IN
  {SubSeq(r, 1, size) : r \in
     {q \in SetToSeqs(all) : \A i, j \in DOMAIN q : i < j => ClassOf(w, q[i]) <= ClassOf(w, q[j])}}

Rank(a) ==
  /\ \/ pc[a] = "rank"
     \/ pc[a] = "enrich" /\ ~Remaining(work[a]) /\ ~work[a].dirty
  /\ \E r \in Rankings(work[a]) :
       StoreSelection(a, [symbol |-> r[1], candidates |-> r, factors |-> r[1] \notin work[a].plain])
  /\ UNCHANGED <<clock, file, counters, failed, astray, pestered>>

\* The sync researches a batch of the candidates of its own fetch, and ends.
Research(batch) ==
  /\ pc["sync"] = "research"
  /\ batch \subseteq ToSet(used.candidates) /\ Cardinality(batch) <= Batch
  /\ Goto("sync", "idle")
  /\ used' = NoSelection /\ focus' = None
  /\ UNCHANGED <<clock, file, selection, work, counters, history>>

\* The process dies; the file may stay empty.
Crash ==
  /\ \E a \in Actors : pc[a] # "idle"
  /\ astray' = TRUE
  /\ pc' = [a \in Actors |-> "idle"] /\ work' = [a \in Actors |-> Blank]
  /\ used' = NoSelection /\ focus' = None
  /\ UNCHANGED <<clock, file, selection, counters, failed, crossed, pestered>>

Tick ==
  /\ clock < MaxClock /\ clock' = clock + 1
  /\ UNCHANGED <<file, selection, pc, work, used, focus, counters, history>>

Fetches(a) ==
  \/ \E frame \in Frames : \E order \in Provisional(frame) : \E plain \in Untagged(order) :
       TakeFrame(a, order, plain)
  \/ LoadMemory(a) \/ Skip(a) \/ (\E class \in Outcomes : Ask(a, class))
  \/ Truncate(a) \/ Save(a) \/ Rank(a)

Next ==
  \/ Refresh
  \/ \E a \in Actors : Read(a) \/ Fetches(a)
  \/ \E batch \in SUBSET Symbols : Research(batch)
  \/ Crash \/ Tick

Spec == Init /\ [][Next]_vars

-----------------------------------------------------------------------------
\* Properties.

TypeOK ==
  /\ clock \in 0..MaxClock /\ syncs \in 0..MaxSyncs /\ gets \in 0..MaxGets
  /\ DOMAIN file \subseteq Symbols /\ \A s \in DOMAIN file : file[s] \in 0..clock
  /\ selection.symbol \in Symbols \cup {Anchor, None}
  /\ pc \in [Actors -> {"idle", "frame", "load", "enrich", "save", "rank", "snapshot", "research"}]

(* The memory spares the data source: while no two fetches overlap and no  *)
(* process dies, the history of a symbol is not asked for again within the *)
(* time for which its failure is remembered, through however many fetches  *)
(* of a sync and of the readers, each of which rewrites the file.          *)
FailuresAreSpared == ~astray => pestered = {}

(* The symbols a sync researches and the symbol of its market snapshot     *)
(* come from one selection, although each is read by itself: unless a      *)
(* GET stores another one in between, or the sync's own has no factors.    *)
OneSelectionPerSync ==
  pc["sync"] = "research" /\ ~crossed /\ used.factors => focus = used.symbol

(* Among the candidates whose history a fetch looks at, one that failed    *)
(* within the remembered time, in this fetch or in an earlier one, becomes *)
(* the selected symbol only if all candidates have failed.                 *)
FailedIsLastResort ==
  [][\A a \in Actors :
       LET w == work[a]
           s == selection'.symbol
           asked == {w.order[i] : i \in 1..(w.next - 1)} IN
       selection' # selection /\ pc'[a] # pc[a] /\ s \in asked /\ ~astray /\ Recent(failed, s)
       => ToSet(w.order) \subseteq DOMAIN failed]_vars
=============================================================================
