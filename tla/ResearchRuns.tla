---------------------------- MODULE ResearchRuns -----------------------------
(***************************************************************************)
(* Backtest, optimizer and walk-forward runs.  A POST stores the run as    *)
(* queued and leaves a background task in the process; the task marks the  *)
(* run as running, computes, and stores the result together with the final *)
(* status.  An optimizer run searches a parameter grid; a walk-forward run *)
(* rolls a training and a test window over its dates, searches on the one  *)
(* and runs the best parameters through the bars of the other.  The        *)
(* lengths of windows and steps are whatever integers the request carries. *)
(*                                                                         *)
(* Money is counted in units in which the commission is a whole number.    *)
(* Ratios (returns, drawdown, Sharpe) are left out: which parameters score *)
(* best is left open, and so are the prices and the signals of a bar.  An  *)
(* operator whose name ends in _Bug is a plausible mistake in the          *)
(* definition that follows it.                                             *)
(***************************************************************************)
EXTENDS Integers, Sequences, FiniteSets

CONSTANTS
  Runs,         \* run ids
  Grid,         \* the valid parameter combinations of the strategy
  Starts,       \* start dates of walk-forward runs
  LastDate,     \* their end date
  Trains, Tests, Steps,  \* train_months, test_months and step_months of a request
  FirstYear, FinalYear,  \* the years of which pd.Timestamp can make a date
  Capital,      \* initial_capital, in units
  Prices,       \* closing prices, in units
  FeeNum, FeeDen,  \* the commission rate FeeNum / FeeDen
  MaxBars,      \* bound: bars of a test window
  MaxFaults     \* bound: deaths of the process and commits that fail

ASSUME RunsAssumption ==
  /\ Capital \in Nat /\ Prices \subseteq Nat \ {0}
  /\ FeeNum \in Nat /\ FeeDen \in Nat \ {0} /\ FeeNum <= FeeDen
  /\ Trains \subseteq Int /\ Tests \subseteq Int /\ Steps \subseteq Int
  /\ FirstYear \in Nat \ {0} /\ FinalYear \in Nat
  /\ MaxBars \in Nat \ {0} /\ MaxFaults \in Nat

VARIABLES
  status,   \* per run, as stored; "none" before the POST
  metric,   \* the runs that have a stored metric row
  tasks,    \* the runs whose background task the process still has
  job,      \* per run: what was asked, and where the walk-forward stands
  book,     \* per run: the Backtester in the test window
  faults

vars == <<status, metric, tasks, job, book, faults>>

-----------------------------------------------------------------------------
\* Dates: _add_months.

Lengths == <<31, 28, 31, 30, 31, 30, 31, 31, 30, 31, 30, 31>>
Leap(year) == year % 4 = 0 /\ (year % 100 # 0 \/ year % 400 = 0)
DaysIn(year, month) == IF month = 2 /\ Leap(year) THEN 29 ELSE Lengths[month]

\* What a request gives as its dates was parsed as one.
IsDate(d) == /\ d \in [year : FirstYear..FinalYear, month : 1..12, day : 1..31]
             /\ d.day <= DaysIn(d.year, d.month)

ASSUME StartsAssumption == Starts # {} /\ \A d \in Starts : IsDate(d)

AddMonths_Bug(date, months) ==
  LET month == date.month + months
      year  == date.year + month \div 12
      wraps == 1 + ((month - 1) % 12)
  IN [year |-> year, month |-> wraps,
      day |-> IF date.day < DaysIn(year, wraps) THEN date.day ELSE DaysIn(year, wraps)]

AddMonths(date, months) ==
  LET month == date.month + months
      year  == date.year + (month - 1) \div 12
      wraps == 1 + ((month - 1) % 12)
  IN [year |-> year, month |-> wraps,
      day |-> IF date.day < DaysIn(year, wraps) THEN date.day ELSE DaysIn(year, wraps)]

\* The number of a day, for comparing dates.
Serial(date) ==
  LET before == <<0, 31, 59, 90, 120, 151, 181, 212, 243, 273, 304, 334>>
      leapDay == IF date.month > 2 /\ Leap(date.year) THEN 1 ELSE 0
      y == date.year - 1
  IN 365 * y + y \div 4 - y \div 100 + y \div 400 + before[date.month] + leapDay + date.day

TestStart(j) == AddMonths(j.trainStart, j.train)
TestEnd(j) == AddMonths(TestStart(j), j.test)

-----------------------------------------------------------------------------
\* The Backtester's book: buy with all cash, sell all.

OpenBook == [cash |-> Capital * FeeDen, shares |-> 0, spent |-> 0, earned |-> 0,
             trades |-> 0, bars |-> 0]

Affordable_Bug(cash, price) == cash \div (price * FeeDen)
Affordable(cash, price) == cash \div (price * (FeeDen + FeeNum))

Traded(b, signal, price) ==
  LET shares == Affordable(b.cash, price)
      cost   == shares * (price * (FeeDen + FeeNum))
      gain   == b.shares * (price * (FeeDen - FeeNum))
  IN IF signal = "BUY" /\ b.shares = 0 /\ shares > 0
     THEN [b EXCEPT !.cash = @ - cost, !.shares = shares, !.spent = @ + cost, !.trades = @ + 1]
     ELSE IF signal = "SELL" /\ b.shares > 0
     THEN [b EXCEPT !.cash = @ + gain, !.shares = 0, !.earned = @ + gain, !.trades = @ + 1]
     ELSE b

-----------------------------------------------------------------------------
\* Requests and the process.

Kinds == {"backtest", "optimizer", "walkforward"}

Blank == [kind |-> "backtest", train |-> 0, test |-> 0, step |-> 0,
          trainStart |-> CHOOSE d \in Starts : TRUE, phase |-> "asked", tested |-> <<>>]

Init ==
  /\ status = [r \in Runs |-> "none"] /\ metric = {} /\ tasks = {}
  /\ job = [r \in Runs |-> Blank] /\ book = [r \in Runs |-> OpenBook]
  /\ faults = 0

Create(r, kind, start, train, test, step) ==
  /\ status[r] = "none"
  /\ status' = [status EXCEPT ![r] = "queued"]
  /\ tasks' = tasks \cup {r}
  /\ job' = [job EXCEPT ![r] = [Blank EXCEPT !.kind = kind, !.trainStart = start, !.train = train,
                                            !.test = test, !.step = step]]
  /\ UNCHANGED <<metric, book, faults>>

Stores(r, outcome) ==
  /\ status' = [status EXCEPT ![r] = outcome]
  /\ faults' = faults

\* A commit fails, or the one in front of it did (the except branch does not roll back):
\* the task ends and the row keeps the status it had.
Loses(r) ==
  /\ faults < MaxFaults /\ faults' = faults + 1
  /\ tasks' = tasks \ {r}
  /\ UNCHANGED <<status, metric>>

Begin(r) ==
  /\ r \in tasks /\ status[r] = "queued"
  /\ \/ Stores(r, "running") /\ UNCHANGED <<metric, tasks>>
     \/ Loses(r)
  /\ UNCHANGED <<job, book>>

\* The final commit: a result with its metric row, or an error message.
Succeed(r) ==
  \/ Stores(r, "succeeded") /\ metric' = metric \cup {r} /\ tasks' = tasks \ {r}
  \/ Loses(r)

Fail(r) ==
  \/ Stores(r, "failed") /\ metric' = metric /\ tasks' = tasks \ {r}
  \/ Loses(r)

Works(r, kind, phase) ==
  r \in tasks /\ status[r] = "running" /\ job[r].kind = kind /\ job[r].phase = phase

\* BacktestEngine.run returns or raises.
Backtest(r) ==
  /\ Works(r, "backtest", "asked")
  /\ Succeed(r) \/ Fail(r)
  /\ UNCHANGED <<job, book>>

\* search swallows what a trial raises, so that the run succeeds with the rows it has.
Optimize(r) ==
  /\ Works(r, "optimizer", "asked")
  /\ Succeed(r)
  /\ UNCHANGED <<job, book>>

-----------------------------------------------------------------------------
\* WalkForwardEngine.run.

Continues(r, next) == job' = [job EXCEPT ![r] = next] /\ UNCHANGED <<status, metric, tasks, faults>>

\* Its dates are parsed, or the run fails.
Parse(r) ==
  /\ Works(r, "walkforward", "asked")
  /\ \/ Continues(r, [job[r] EXCEPT !.phase = "window"])
     \/ Fail(r) /\ UNCHANGED job
  /\ UNCHANGED book

\* The head of the loop: no date can be made of the window's ends, or its test would
\* end after the dates (aggregate and finish), or it is searched.
Window(r) ==
  /\ Works(r, "walkforward", "window")
  /\ IF ~(IsDate(TestStart(job[r])) /\ IsDate(TestEnd(job[r])))
     THEN Fail(r) /\ UNCHANGED job
     ELSE IF Serial(TestEnd(job[r])) > Serial(LastDate)
     THEN Succeed(r) /\ UNCHANGED job
     ELSE Continues(r, [job[r] EXCEPT !.phase = "search"])
  /\ UNCHANGED book

\* Search on the training window, with the combinations whose trial did not raise; when
\* all did, the next training window begins where this test would have.
Search(r, tried) ==
  /\ Works(r, "walkforward", "search")
  /\ IF tried = {}
     THEN /\ Continues(r, [job[r] EXCEPT !.phase = "window", !.trainStart = TestStart(job[r]),
                                        !.tested = <<>>])
          /\ UNCHANGED book
     ELSE /\ Continues(r, [job[r] EXCEPT !.phase = "test"])
          /\ book' = [book EXCEPT ![r] = OpenBook]

\* One bar of the test window under the best parameters.
Bar(r, signal, price) ==
  /\ Works(r, "walkforward", "test") /\ book[r].bars < MaxBars
  /\ book' = [book EXCEPT ![r] = [Traded(book[r], signal, price) EXCEPT !.bars = @ + 1]]
  /\ UNCHANGED <<status, metric, tasks, job, faults>>

Rolled_Bug(r) == job[r].trainStart
Rolled(r) == AddMonths(job[r].trainStart, job[r].step)

\* The window is recorded when its backtest returned; without bars it raised.  When no
\* date can be made of the next start, the except branch raises it again.
WindowEnds(r) ==
  LET window == [testStart |-> TestStart(job[r]), testEnd |-> TestEnd(job[r])] IN
  /\ Works(r, "walkforward", "test")
  /\ IF IsDate(Rolled(r))
     THEN Continues(r, [job[r] EXCEPT !.phase = "window", !.trainStart = Rolled(r),
                                      !.tested = IF book[r].bars = 0 THEN <<>> ELSE <<window>>])
     ELSE Fail(r) /\ UNCHANGED job
  /\ book' = [book EXCEPT ![r] = OpenBook]

Crash ==
  /\ faults < MaxFaults /\ faults' = faults + 1
  /\ tasks' = {}
  /\ UNCHANGED <<status, metric, job, book>>

Work(r) ==
  \/ Begin(r) \/ Backtest(r) \/ Optimize(r) \/ Parse(r) \/ Window(r) \/ WindowEnds(r)
  \/ \E tried \in SUBSET Grid : Search(r, tried)
  \/ \E signal \in {"BUY", "SELL", "HOLD"}, price \in Prices : Bar(r, signal, price)

Next ==
  \/ \E r \in Runs :
       \/ \E kind \in Kinds, start \in Starts, train \in Trains, test \in Tests, step \in Steps :
            Create(r, kind, start, train, test, step)
       \/ Work(r)
  \/ Crash

\* A thread of the pool runs each task to its end.
Spec == Init /\ [][Next]_vars /\ \A r \in Runs : WF_vars(Work(r))

-----------------------------------------------------------------------------
\* Properties.

Dates == [year : Int, month : 1..12, day : 1..31]
Windows == [testStart : Dates, testEnd : Dates]

TypeOK ==
  /\ status \in [Runs -> {"none", "queued", "running", "succeeded", "failed"}]
  /\ metric \subseteq Runs /\ tasks \subseteq Runs /\ faults \in 0..MaxFaults
  /\ job \in [Runs -> [kind : Kinds, train : Int, test : Int, step : Int, trainStart : Dates,
                       phase : {"asked", "window", "search", "test"}, tested : Seq(Windows)]]
  /\ book \in [Runs -> [cash : Int, shares : Nat, spent : Nat, earned : Nat, trades : Nat,
                        bars : Nat]]

(* A backtest never spends cash it does not have, commission included, and *)
(* its cash is the initial capital less what it bought plus what it sold;  *)
(* every purchase is sold as a whole before the next.                      *)
BooksBalance ==
  \A r \in Runs :
     LET b == book[r] IN
     /\ b.cash >= 0 /\ b.cash = Capital * FeeDen - b.spent + b.earned
     /\ b.shares > 0 <=> b.trades % 2 = 1

(* When the windows roll by the length of the test window, the tests tile  *)
(* the dates: one begins within three days of the end of the one before,   *)
(* although both ends come from months of different lengths added in a     *)
(* different order.                                                        *)
TestWindowsTile ==
  \A r \in Runs :
     LET apart == Serial(TestStart(job[r])) - Serial(job[r].tested[1].testEnd) IN
     job[r].phase = "test" /\ job[r].tested # <<>> /\ job[r].step = job[r].test =>
        -3 <= apart /\ apart <= 3

\* Whatever a pass of the loop finds, it moves the window on by train_months or by
\* step_months: these point the same way.
Advances(j) == (j.train > 0 /\ j.step > 0) \/ (j.train < 0 /\ j.step < 0)

(* A run that was asked for ends, with an outcome.  There are two          *)
(* exceptions: its process died, or a commit of its own task failed, and   *)
(* then nothing takes it up again; or it is a walk-forward whose train and *)
(* step months do not point the same way (train_months = 0 while searches  *)
(* find nothing, step_months = 0 while they do, or one turns back what the *)
(* other advances), which no schema excludes.                              *)
RunsEnd ==
  \A r \in Runs :
     status[r] \in {"queued", "running"} ~>
        \/ status[r] \in {"succeeded", "failed"}
        \/ faults > 0 /\ r \notin tasks
        \/ job[r].kind = "walkforward" /\ ~Advances(job[r])
=============================================================================
