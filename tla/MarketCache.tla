----------------------------- MODULE MarketCache -----------------------------
(***************************************************************************)
(* The daily bars of one symbol: the data source manager tries the         *)
(* providers of the symbol's market in turn, and the cache keeps what they *)
(* returned and asks only for what lies before its first or after its last *)
(* stored date.  A sync, the GET handlers and the threads of research runs *)
(* call it at the same time; each statement is a transaction of its own,   *)
(* and a provider's answer takes its time.                                 *)
(*                                                                         *)
(* Dates are days; which of them are trade dates is a constant.  A bar is  *)
(* its date: prices, and bars that were stored before their day closed,    *)
(* are not told apart.  A provider's answer is any set of trade dates of   *)
(* the range it was asked for: it drops the rows it cannot read.  An       *)
(* operator whose name ends in _Bug is a plausible mistake in the          *)
(* definition that follows it.                                             *)
(***************************************************************************)
EXTENDS Integers, FiniteSets

CONSTANTS
  Callers,      \* threads that ask for bars
  TradeDates,   \* the days on which a bar comes into being
  Tolerated,    \* tolerated_gap_days
  Lookback,     \* how many days a quote asks for
  LastDay       \* bound: the last day

ASSUME CacheAssumption ==
  /\ LastDay \in Nat \ {0} /\ TradeDates \subseteq 1..LastDay
  /\ Tolerated \in Nat /\ Lookback \in Nat

Days == 1..LastDay

VARIABLES
  today,
  bars,     \* the trade dates stored in the cache
  pc,       \* per caller: the statement it stands at
  call,     \* per caller: the range, the day, and which attempt of load_data
  seen,     \* per caller: what its first SELECT returned, later its result
  bounds,   \* per caller: the first and last stored date it read; <<0, 0>> if none
  whole,    \* per caller: did every answer of this call have all that was asked?
  dropped,  \* the dates that an answer left out between two others, or next to stored ones
  raced     \* have two callers filled the empty cache at the same time?

ghosts == <<whole, dropped, raced>>
vars == <<today, bars, pc, call, seen, bounds, ghosts>>

Least(s) == CHOOSE d \in s : \A e \in s : d <= e
Greatest(s) == CHOOSE d \in s : \A e \in s : e <= d
Within(s, first, last) == {d \in s : first <= d /\ d <= last}

Goto(c, step) == pc' = [pc EXCEPT ![c] = step]

Idle == [first |-> 1, last |-> 1, try |-> 1, asOf |-> 1]

\* The call returns; what it held is gone.
Return(c) ==
  /\ Goto(c, "idle")
  /\ call' = [call EXCEPT ![c] = Idle] /\ seen' = [seen EXCEPT ![c] = {}]
  /\ bounds' = [bounds EXCEPT ![c] = <<0, 0>>] /\ whole' = [whole EXCEPT ![c] = TRUE]

Init ==
  /\ today \in Days /\ bars = {}
  /\ pc = [c \in Callers |-> "idle"] /\ call = [c \in Callers |-> Idle]
  /\ seen = [c \in Callers |-> {}] /\ bounds = [c \in Callers |-> <<0, 0>>]
  /\ whole = [c \in Callers |-> TRUE] /\ dropped = {} /\ raced = FALSE

-----------------------------------------------------------------------------
\* DataSourceManager: the first provider of the chain with a non-empty frame wins.

Existing(first, last) == Within({d \in TradeDates : d <= today}, first, last)

Answers(first, last) == SUBSET Existing(first, last)

\* What an answer leaves out between dates it has, and between these and a kept one.
LeftOut(answer, asked, kept) ==
  {d \in asked \ answer : \E e, f \in answer \cup kept : e < d /\ d < f}

\* fetch_ohlcv, for the history of a symbol or from BacktestEngine.load_data.
Fetch(c, first, last) ==
  /\ pc[c] = "idle"
  /\ first <= last
  /\ call' = [call EXCEPT ![c] = [first |-> first, last |-> last, try |-> 1,
                               asOf |-> today]]
  /\ whole' = [whole EXCEPT ![c] = TRUE]
  /\ Goto(c, "range")
  /\ UNCHANGED <<today, bars, seen, bounds, dropped, raced>>

\* fetch_latest_quote, when minshare has no quote of its own: the last days are fetched.
Quote(c) ==
  /\ pc[c] = "idle"
  /\ call' = [call EXCEPT ![c] = [first |-> IF today > Lookback THEN today - Lookback ELSE 1,
                                  last |-> today, try |-> 1,
                                  asOf |-> today]]
  /\ whole' = [whole EXCEPT ![c] = TRUE]
  /\ Goto(c, "range")
  /\ UNCHANGED <<today, bars, seen, bounds, dropped, raced>>

-----------------------------------------------------------------------------
\* OHLCVCache.fetch_or_load.

\* get_range, before anything else is known.
ReadRange(c) ==
  /\ pc[c] = "range"
  /\ seen' = [seen EXCEPT ![c] = Within(bars, call[c].first, call[c].last)]
  /\ Goto(c, "bounds")
  /\ UNCHANGED <<today, bars, call, bounds, ghosts>>

HeadMissing(c, b) == b[1] - call[c].first > Tolerated
TailMissing_Bug(c, b) == call[c].last - b[2] > Tolerated + 1
TailMissing(c, b) == call[c].last - b[2] > Tolerated
Covered(c, b) == b[1] <= call[c].first /\ b[2] >= call[c].last

AfterHead(c, b) == IF TailMissing(c, b) THEN "tail" ELSE "reread"

\* get_date_bounds decides: serve, fill the empty cache, or extend it.
ReadBounds(c) ==
  /\ pc[c] = "bounds"
  /\ IF bars = {}
     THEN /\ Goto(c, "first")
          /\ raced' = (raced \/ \E o \in Callers : pc[o] = "first")
          /\ UNCHANGED bounds
     ELSE LET b == <<Least(bars), Greatest(bars)>> IN
          /\ bounds' = [bounds EXCEPT ![c] = b]
          /\ Goto(c, IF Covered(c, b) /\ seen[c] # {} THEN "served"
                     ELSE IF HeadMissing(c, b) THEN "head" ELSE AfterHead(c, b))
          /\ UNCHANGED raced
  /\ seen' = IF pc'[c] = "served" THEN seen ELSE [seen EXCEPT ![c] = {}]
  /\ UNCHANGED <<today, bars, call, whole, dropped>>

Store(c, answer, asked, kept) ==
  /\ bars' = bars \cup answer
  /\ dropped' = dropped \cup LeftOut(answer, asked, kept)
  /\ whole' = [whole EXCEPT ![c] = @ /\ answer = asked]

LoadFirst(c) ==
  /\ pc[c] = "first"
  /\ \E answer \in Answers(call[c].first, call[c].last) :
       Store(c, answer, Existing(call[c].first, call[c].last), {})
  /\ Goto(c, "reread")
  /\ UNCHANGED <<today, call, seen, bounds, raced>>

HeadEnd(c) == bounds[c][1] - 1
TailStart_Bug(c) == bounds[c][2] + 2
TailStart(c) == bounds[c][2] + 1

LoadHead(c) ==
  /\ pc[c] = "head"
  /\ \E answer \in Answers(call[c].first, HeadEnd(c)) :
       Store(c, answer, Existing(call[c].first, HeadEnd(c)), {bounds[c][1]})
  /\ Goto(c, AfterHead(c, bounds[c]))
  /\ UNCHANGED <<today, call, seen, bounds, raced>>

LoadTail(c) ==
  /\ pc[c] = "tail"
  /\ \E answer \in Answers(TailStart(c), call[c].last) :
       Store(c, answer, Existing(TailStart(c), call[c].last), {bounds[c][2]})
  /\ Goto(c, "reread")
  /\ UNCHANGED <<today, call, seen, bounds, raced>>

Reread(c) ==
  /\ pc[c] = "reread"
  /\ seen' = [seen EXCEPT ![c] = Within(bars, call[c].first, call[c].last)]
  /\ Goto(c, "loaded")
  /\ UNCHANGED <<today, bars, call, bounds, ghosts>>

-----------------------------------------------------------------------------
\* What the caller does with it.

\* A history or a quote is used as it is, and so are the bars of a backtest if there are any.
Use(c) ==
  /\ pc[c] \in {"served", "loaded"}
  /\ Return(c)
  /\ UNCHANGED <<today, bars, dropped, raced>>

\* BacktestEngine.load_data without routed bars: its own provider answers, else the route is tried once
\* more, then yfinance answers or the load raises; what is served then is not stored.
LoadDirect(c) ==
  /\ pc[c] \in {"served", "loaded"} /\ seen[c] = {}
  /\ \/ Return(c)
     \/ /\ call[c].try = 1
        /\ call' = [call EXCEPT ![c].try = 2]
        /\ Goto(c, "range") /\ UNCHANGED <<seen, bounds, whole>>
  /\ UNCHANGED <<today, bars, dropped, raced>>

DayPasses ==
  /\ today < LastDay /\ today' = today + 1
  /\ UNCHANGED <<bars, pc, call, seen, bounds, ghosts>>

Next ==
  \/ \E c \in Callers :
       \/ \E first, last \in Days : Fetch(c, first, last)
       \/ Quote(c) \/ ReadRange(c) \/ ReadBounds(c) \/ LoadFirst(c) \/ LoadHead(c)
       \/ LoadTail(c) \/ Reread(c) \/ Use(c) \/ LoadDirect(c)
  \/ DayPasses

Spec == Init /\ [][Next]_vars

-----------------------------------------------------------------------------
\* Properties.

Statements == {"idle", "range", "bounds", "first", "head", "tail", "reread", "served", "loaded"}

TypeOK ==
  /\ today \in Days /\ bars \subseteq TradeDates
  /\ pc \in [Callers -> Statements]
  /\ call \in [Callers -> [first : Days, last : Days, try : 1..2, asOf : Days]]
  /\ seen \in [Callers -> SUBSET TradeDates]
  /\ bounds \in [Callers -> (0..LastDay) \X (0..LastDay)]
  /\ whole \in [Callers -> BOOLEAN] /\ dropped \subseteq TradeDates /\ raced \in BOOLEAN

(* Every hole of the cache has a cause: between its first and its last     *)
(* date every trade date is stored, however calls for different ranges     *)
(* follow each other or overlap, but for the dates that a provider, asked  *)
(* for them, left out between dates it returned or next to those stored.   *)
(* Only two callers that find the cache empty at the same time make holes  *)
(* nobody asked for.                                                       *)
HolesHaveACause ==
  ~raced => \A d \in bars, e \in bars : Within(TradeDates, d, e) \subseteq bars \cup dropped

(* A call that went to the end and whose own providers answered all it     *)
(* asked for returns every trade date of its range that had begun when it  *)
(* was called and is at least the tolerated gap away from the ends of the  *)
(* range, but for those that an answer to some call left out in the same   *)
(* way, and unless two callers filled the empty cache at the same time.    *)
LoadedIsWhole ==
  \A c \in Callers :
     pc[c] = "loaded" /\ whole[c] /\ ~raced =>
        Within({d \in TradeDates : d <= call[c].asOf},
               call[c].first + Tolerated, call[c].last - Tolerated) \subseteq seen[c] \cup dropped
=============================================================================
