--------------------------- MODULE EvaluationProofs ---------------------------
(***************************************************************************)
(* What a strategy is judged by: the runs that test it, and the rule that  *)
(* decides on it.  The books of its backtests and the windows of its walk- *)
(* forwards, for all runs, prices, fees, dates and lengths of windows; the *)
(* decision on a single review, for all thresholds, scores, days and       *)
(* knowledge sets, with or without the two governance switches.            *)
(***************************************************************************)
EXTENDS ResearchRuns, GovernanceReview, TLAPS

\* Dividing rounds down.
LEMMA WholeShares ==
  ASSUME NEW cash \in Nat, NEW price \in Nat \ {0}
  PROVE  LET each == price * (FeeDen + FeeNum) IN
         /\ Affordable(cash, price) \in Nat
         /\ Affordable(cash, price) * each \in Nat /\ Affordable(cash, price) * each <= cash
<1> DEFINE each == price * (FeeDen + FeeNum)
           n == cash \div each
<1>1. each \in Nat \ {0}
  BY RunsAssumption
<1> HIDE DEF each
<1>2. n \in Nat /\ n * each <= cash /\ n * each \in Nat
  BY <1>1
<1> QED BY <1>2 DEF Affordable, each

-----------------------------------------------------------------------------
\* The book of a test window.

Books == [cash : Nat, shares : Nat, spent : Nat, earned : Nat, trades : Nat, bars : Nat]

Balanced(b) ==
  /\ b \in Books
  /\ b.cash = Capital * FeeDen - b.spent + b.earned
  /\ b.shares > 0 <=> b.trades % 2 = 1

BookInv == book \in [Runs -> Books] /\ \A r \in Runs : Balanced(book[r])

LEMMA OpenBookIsBalanced == Balanced(OpenBook) /\ OpenBook \in Books
BY RunsAssumption DEF Balanced, OpenBook, Books

LEMMA TradesAlternate ==
  ASSUME NEW n \in Nat
  PROVE  (n + 1) % 2 = 1 <=> ~(n % 2 = 1)
OBVIOUS

LEMMA TradeKeepsBalance ==
  ASSUME NEW b, Balanced(b), NEW signal, NEW price \in Prices
  PROVE  Balanced(Traded(b, signal, price))
<1> DEFINE n == Affordable(b.cash, price)
           cost == n * (price * (FeeDen + FeeNum))
           gain == b.shares * (price * (FeeDen - FeeNum))
<1>1. /\ price \in Nat \ {0} /\ b \in Books /\ b.cash \in Nat /\ b.shares \in Nat
      /\ b.spent \in Nat /\ b.earned \in Nat /\ b.trades \in Nat /\ b.bars \in Nat
      /\ Capital * FeeDen \in Nat
  BY RunsAssumption DEF Balanced, Books
<1>2. n \in Nat /\ cost \in Nat /\ cost <= b.cash
  BY <1>1, WholeShares
<1>3. gain \in Nat
  <2>1. price * (FeeDen - FeeNum) \in Nat
    <3>1. FeeDen - FeeNum \in Nat
      BY RunsAssumption
    <3> QED BY <1>1, <3>1
  <2> QED BY <1>1, <2>1
<1>4. (b.trades + 1) % 2 = 1 <=> ~(b.trades % 2 = 1)
  BY <1>1, TradesAlternate
<1>5. b.cash = Capital * FeeDen - b.spent + b.earned /\ (b.shares > 0 <=> b.trades % 2 = 1)
  BY DEF Balanced
<1> HIDE DEF n, cost, gain
<1>6. CASE signal = "BUY" /\ b.shares = 0 /\ n > 0
  <2>1. Traded(b, signal, price)
          = [b EXCEPT !.cash = @ - cost, !.shares = n, !.spent = @ + cost, !.trades = @ + 1]
    BY <1>6 DEF Traded, n, cost
  <2> DEFINE t == Traded(b, signal, price)
  <2>2. /\ t.cash = b.cash - cost /\ t.shares = n /\ t.spent = b.spent + cost
        /\ t.earned = b.earned /\ t.trades = b.trades + 1 /\ t.bars = b.bars
        /\ t = [cash |-> t.cash, shares |-> t.shares, spent |-> t.spent, earned |-> t.earned,
                trades |-> t.trades, bars |-> t.bars]
    BY <1>1, <2>1 DEF Books
  <2> HIDE DEF t
  <2>3. t \in Books
    BY <1>1, <1>2, <2>2 DEF Books
  <2>4. t.cash = Capital * FeeDen - t.spent + t.earned
    BY <1>1, <1>2, <1>5, <2>2
  <2>5. t.shares > 0 <=> t.trades % 2 = 1
    BY <1>1, <1>2, <1>4, <1>5, <1>6, <2>2
  <2> QED BY <2>3, <2>4, <2>5 DEF Balanced, t
<1>7. CASE ~(signal = "BUY" /\ b.shares = 0 /\ n > 0) /\ signal = "SELL" /\ b.shares > 0
  <2>1. Traded(b, signal, price)
          = [b EXCEPT !.cash = @ + gain, !.shares = 0, !.earned = @ + gain, !.trades = @ + 1]
    BY <1>7 DEF Traded, n, gain
  <2> DEFINE t == Traded(b, signal, price)
  <2>2. /\ t.cash = b.cash + gain /\ t.shares = 0 /\ t.spent = b.spent
        /\ t.earned = b.earned + gain /\ t.trades = b.trades + 1 /\ t.bars = b.bars
        /\ t = [cash |-> t.cash, shares |-> t.shares, spent |-> t.spent, earned |-> t.earned,
                trades |-> t.trades, bars |-> t.bars]
    BY <1>1, <2>1 DEF Books
  <2> HIDE DEF t
  <2>3. t \in Books
    BY <1>1, <1>3, <2>2 DEF Books
  <2>4. t.cash = Capital * FeeDen - t.spent + t.earned
    BY <1>1, <1>3, <1>5, <2>2
  <2>5. t.shares > 0 <=> t.trades % 2 = 1
    BY <1>1, <1>4, <1>5, <1>7, <2>2
  <2> QED BY <2>3, <2>4, <2>5 DEF Balanced, t
<1>8. CASE ~(signal = "BUY" /\ b.shares = 0 /\ n > 0) /\ ~(signal = "SELL" /\ b.shares > 0)
  BY <1>8 DEF Traded, n
<1> QED BY <1>6, <1>7, <1>8

LEMMA BookInvariant == Spec => []BookInv
<1>1. Init => BookInv
  BY OpenBookIsBalanced DEF Init, BookInv
<1>2. BookInv /\ [Next]_vars => BookInv'
  <2> SUFFICES ASSUME BookInv, [Next]_vars PROVE BookInv'
    OBVIOUS
  <2>1. ASSUME NEW r \in Runs, NEW signal, NEW price \in Prices, Bar(r, signal, price)
        PROVE  BookInv'
    <3> DEFINE t == Traded(book[r], signal, price)
               u == [t EXCEPT !.bars = @ + 1]
    <3>1. Balanced(t)
      BY TradeKeepsBalance DEF BookInv
    <3>2. Balanced(u)
      <4> HIDE DEF t
      <4>1. u \in Books /\ u.cash = t.cash /\ u.spent = t.spent /\ u.earned = t.earned
            /\ u.shares = t.shares /\ u.trades = t.trades
        BY <3>1 DEF Balanced, Books
      <4> QED BY <3>1, <4>1 DEF Balanced
    <3>3. book' = [book EXCEPT ![r] = u]
      BY <2>1 DEF Bar
    <3> HIDE DEF u
    <3> QED BY <3>2, <3>3 DEF BookInv, Balanced
  <2>2. ASSUME NEW r \in Runs, (\E tried \in SUBSET Grid : Search(r, tried)) \/ WindowEnds(r)
        PROVE  BookInv'
    <3>1. book' = book \/ book' = [book EXCEPT ![r] = OpenBook]
      BY <2>2 DEF Search, WindowEnds
    <3> QED BY <3>1, OpenBookIsBalanced DEF BookInv
  <2>3. ASSUME NEW r \in Runs,
               \/ \E kind \in Kinds, start \in Starts, train \in Trains, test \in Tests,
                     step \in Steps : Create(r, kind, start, train, test, step)
               \/ Begin(r) \/ Backtest(r) \/ Optimize(r) \/ Parse(r) \/ Window(r)
        PROVE  BookInv'
    <3>1. book' = book
      BY <2>3 DEF Create, Begin, Backtest, Optimize, Parse, Window
    <3> QED BY <3>1 DEF BookInv
  <2>4. CASE Crash \/ UNCHANGED vars
    <3>1. book' = book
      BY <2>4 DEF Crash, vars
    <3> QED BY <3>1 DEF BookInv
  <2> QED BY <2>1, <2>2, <2>3, <2>4 DEF Next, Work
<1> QED BY <1>1, <1>2, PTL DEF Spec

\* A backtest never spends cash it does not have, its cash is what it began with less what it
\* bought plus what it sold, and it sells a purchase as a whole before the next.
THEOREM BooksAreBalanced == Spec => []BooksBalance
<1>1. BookInv => BooksBalance
  BY DEF BookInv, Balanced, Books, BooksBalance
<1> QED BY <1>1, BookInvariant, PTL

-----------------------------------------------------------------------------
\* Dates.

\* A day of the calendar, in whatever year: what _add_months gives need not be a date that
\* pd.Timestamp can represent.
Calendar(d) == d \in Dates /\ d.day <= DaysIn(d.year, d.month)

LEMMA DatesAreInCalendar == ASSUME NEW d, IsDate(d) PROVE Calendar(d)
<1>1. FirstYear..FinalYear \subseteq Int
  BY RunsAssumption
<1> QED BY <1>1 DEF IsDate, Calendar, Dates

\* Months are added by their number since year 0.
MonthNumber(d) == 12 * d.year + (d.month - 1)

LEMMA LengthsOfMonths ==
  ASSUME NEW year \in Int, NEW month \in 1..12
  PROVE  DaysIn(year, month) \in 28..31
<1>1. month \in {1, 2, 3, 4, 5, 6, 7, 8, 9, 10, 11, 12}
  OBVIOUS
<1>2. Lengths[month] \in 28..31
  BY <1>1 DEF Lengths
<1> QED BY <1>2 DEF DaysIn

\* Adding months, or going back by some, gives a day of the calendar, in the month that is so
\* many months later, with the day cut to the length of that month.
LEMMA AddedMonths ==
  ASSUME NEW d, Calendar(d), NEW n \in Int
  PROVE  LET a == AddMonths(d, n) IN
         /\ Calendar(a) /\ MonthNumber(a) = MonthNumber(d) + n
         /\ a.day = IF d.day < DaysIn(a.year, a.month) THEN d.day ELSE DaysIn(a.year, a.month)
<1> DEFINE month == d.month + n
           year == d.year + (month - 1) \div 12
           wraps == 1 + ((month - 1) % 12)
           cut == IF d.day < DaysIn(year, wraps) THEN d.day ELSE DaysIn(year, wraps)
<1>1. d.year \in Int /\ d.month \in 1..12 /\ d.day \in 1..31
  BY DEF Calendar, Dates
<1>2. month - 1 \in Int /\ (month - 1) \div 12 \in Int /\ (month - 1) % 12 \in 0..11
      /\ month - 1 = 12 * ((month - 1) \div 12) + ((month - 1) % 12)
  BY <1>1
<1>3. year \in Int /\ wraps \in 1..12 /\ 12 * year + (wraps - 1) = 12 * d.year + (month - 1)
  <2> DEFINE q == (month - 1) \div 12
             m == (month - 1) % 12
  <2>1. q \in Int /\ m \in 0..11 /\ month - 1 = 12 * q + m
    BY <1>2
  <2>2. year = d.year + q /\ wraps = 1 + m
    OBVIOUS
  <2> HIDE DEF q, m, month, year, wraps
  <2> QED BY <1>1, <2>1, <2>2
<1>4. AddMonths(d, n) = [year |-> year, month |-> wraps, day |-> cut]
  BY DEF AddMonths
<1> HIDE DEF year, wraps
<1>5. DaysIn(year, wraps) \in 28..31
  BY <1>3, LengthsOfMonths
<1>6. cut \in 1..31 /\ cut <= DaysIn(year, wraps)
  BY <1>1, <1>5
<1> HIDE DEF cut
<1> QED BY <1>1, <1>3, <1>4, <1>6 DEF Calendar, Dates, MonthNumber, cut

\* The number of the month says which month of which year it is.
LEMMA MonthNumberIsUnique ==
  ASSUME NEW a, NEW b, Calendar(a), Calendar(b), MonthNumber(a) = MonthNumber(b)
  PROVE  a.year = b.year /\ a.month = b.month
<1>1. /\ a.year \in Int /\ b.year \in Int /\ a.month \in 1..12 /\ b.month \in 1..12
      /\ 12 * a.year + (a.month - 1) = 12 * b.year + (b.month - 1)
  BY DEF Calendar, Dates, MonthNumber
<1> DEFINE y == a.year
           z == b.year
           m == a.month
           n == b.month
<1>2. /\ y \in Int /\ z \in Int /\ m \in 1..12 /\ n \in 1..12
      /\ 12 * y + (m - 1) = 12 * z + (n - 1)
  BY <1>1
<1> HIDE DEF y, z, m, n
<1>3. y = z /\ m = n
  BY <1>2
<1> QED BY <1>3 DEF y, z, m, n

\* Within a month days are numbered one by one.
LEMMA SerialsOfAMonth ==
  ASSUME NEW a, NEW b, Calendar(a), Calendar(b), a.year = b.year, a.month = b.month
  PROVE  Serial(a) - Serial(b) = a.day - b.day
<1> DEFINE before == <<0, 31, 59, 90, 120, 151, 181, 212, 243, 273, 304, 334>>
           leapDay == IF a.month > 2 /\ Leap(a.year) THEN 1 ELSE 0
           y == a.year - 1
           rest == 365 * y + y \div 4 - y \div 100 + y \div 400 + before[a.month] + leapDay
<1>1. a.year \in Int /\ a.month \in 1..12 /\ a.day \in Int /\ b.day \in Int
  BY DEF Calendar, Dates
<1>2. rest \in Int
  <2>1. a.month \in {1, 2, 3, 4, 5, 6, 7, 8, 9, 10, 11, 12}
    BY <1>1
  <2>2. before[a.month] \in Int
    BY <2>1
  <2>3. y \div 4 \in Int /\ y \div 100 \in Int /\ y \div 400 \in Int /\ 365 * y \in Int
    BY <1>1
  <2>4. leapDay \in Int
    OBVIOUS
  <2> HIDE DEF before, leapDay
  <2> QED BY <2>2, <2>3, <2>4
<1>3. Serial(a) = rest + a.day /\ Serial(b) = rest + b.day
  BY DEF Serial
<1> HIDE DEF rest
<1> QED BY <1>1, <1>2, <1>3

\* The day after a date, by the calendar.
Following(d) ==
  IF d.day < DaysIn(d.year, d.month) THEN [d EXCEPT !.day = @ + 1]
  ELSE IF d.month < 12 THEN [year |-> d.year, month |-> d.month + 1, day |-> 1]
  ELSE [year |-> d.year + 1, month |-> 1, day |-> 1]

LEMMA SerialsAreNumbers == ASSUME NEW d, Calendar(d) PROVE Serial(d) \in Int
<1> DEFINE before == <<0, 31, 59, 90, 120, 151, 181, 212, 243, 273, 304, 334>>
           leapDay == IF d.month > 2 /\ Leap(d.year) THEN 1 ELSE 0
           y == d.year - 1
<1>1. d.year \in Int /\ d.month \in 1..12 /\ d.day \in 1..31
  BY DEF Calendar, Dates
<1>2. before[d.month] \in Int
  <2>1. d.month \in {1, 2, 3, 4, 5, 6, 7, 8, 9, 10, 11, 12}
    BY <1>1
  <2> QED BY <2>1
<1>3. y \div 4 \in Int /\ y \div 100 \in Int /\ y \div 400 \in Int /\ 365 * y \in Int
  BY <1>1
<1>4. leapDay \in Int
  OBVIOUS
<1>5. Serial(d) = 365 * y + y \div 4 - y \div 100 + y \div 400 + before[d.month] + leapDay + d.day
  BY DEF Serial
<1> HIDE DEF before, leapDay
<1> QED BY <1>1, <1>2, <1>3, <1>4, <1>5

\* Multiples between one year and the next.
LEMMA YearsDivide ==
  ASSUME NEW y \in Int, NEW k \in {4, 100, 400}
  PROVE  y \div k = (y - 1) \div k + (IF y % k = 0 THEN 1 ELSE 0)
<1>1. CASE k = 4   BY <1>1
<1>2. CASE k = 100 BY <1>2
<1>3. CASE k = 400 BY <1>3
<1> QED BY <1>1, <1>2, <1>3

\* Serial numbers the days of the calendar without a gap, leap days included, so that the
\* distance of two serials is a number of days.
THEOREM SerialCountsDays ==
  ASSUME NEW d, Calendar(d)
  PROVE  Calendar(Following(d)) /\ Serial(Following(d)) = Serial(d) + 1
<1>1. /\ d.year \in Int /\ d.month \in 1..12 /\ d.day \in 1..31
      /\ d = [year |-> d.year, month |-> d.month, day |-> d.day]
      /\ d.day <= DaysIn(d.year, d.month)
  BY DEF Calendar, Dates
<1> DEFINE y == d.year
           m == d.month
<1>2. CASE d.day < DaysIn(y, m)
  <2> DEFINE next == [year |-> y, month |-> m, day |-> d.day + 1]
  <2>1. Following(d) = next
    BY <1>1, <1>2 DEF Following
  <2>2. Calendar(next)
    BY <1>1, <1>2, LengthsOfMonths DEF Calendar, Dates
  <2>3. Serial(next) - Serial(d) = 1
    BY <1>1, <2>2, SerialsOfAMonth
  <2>4. Serial(next) \in Int /\ Serial(d) \in Int
    BY <1>1, <2>2, SerialsAreNumbers
  <2> HIDE DEF next
  <2> QED BY <2>1, <2>2, <2>3, <2>4
<1>3. CASE ~(d.day < DaysIn(y, m))
  <2>0. d.day = DaysIn(y, m) /\ 1 <= DaysIn(y, m)
    BY <1>1, <1>3, LengthsOfMonths
  <2>1. CASE m < 12
    <3> DEFINE next == [year |-> y, month |-> m + 1, day |-> 1]
    <3>1. Following(d) = next
      BY <1>3, <2>1 DEF Following
    <3>2. Calendar(next)
      BY <1>1, <2>1, LengthsOfMonths DEF Calendar, Dates
    <3>3. Serial(next) = Serial(d) + 1
      BY <1>1, <2>0, <2>1 DEF Serial, DaysIn, Lengths
    <3> QED BY <3>1, <3>2, <3>3
  <2>2. CASE ~(m < 12)
    <3> DEFINE next == [year |-> y + 1, month |-> 1, day |-> 1]
    <3>1. Following(d) = next
      BY <1>3, <2>2 DEF Following
    <3>2. Calendar(next)
      BY <1>1, LengthsOfMonths DEF Calendar, Dates
    <3>3. m = 12 /\ d.day = 31
      BY <1>1, <2>0, <2>2 DEF DaysIn, Lengths
    <3>4. Serial(next) = 365 * y + y \div 4 - y \div 100 + y \div 400 + 1
      BY <1>1 DEF Serial
    <3>5. Serial(d) = 365 * (y - 1) + (y - 1) \div 4 - (y - 1) \div 100 + (y - 1) \div 400
                        + 334 + (IF Leap(y) THEN 1 ELSE 0) + 31
      BY <1>1, <3>3 DEF Serial
    <3>6. /\ y \div 4 = (y - 1) \div 4 + (IF y % 4 = 0 THEN 1 ELSE 0)
          /\ y \div 100 = (y - 1) \div 100 + (IF y % 100 = 0 THEN 1 ELSE 0)
          /\ y \div 400 = (y - 1) \div 400 + (IF y % 400 = 0 THEN 1 ELSE 0)
      BY <1>1, YearsDivide
    <3>7. (IF Leap(y) THEN 1 ELSE 0)
            = (IF y % 4 = 0 THEN 1 ELSE 0) - (IF y % 100 = 0 THEN 1 ELSE 0)
                + (IF y % 400 = 0 THEN 1 ELSE 0)
      BY <1>1 DEF Leap
    <3>8. Serial(next) = Serial(d) + 1
      <4> DEFINE q == (y - 1) \div 4
                 c == (y - 1) \div 100
                 f == (y - 1) \div 400
      <4>1. q \in Int /\ c \in Int /\ f \in Int /\ y \in Int
        BY <1>1
      <4> HIDE DEF q, c, f, next
      <4> QED BY <3>4, <3>5, <3>6, <3>7, <4>1 DEF q, c, f
    <3> QED BY <3>1, <3>2, <3>8
  <2> QED BY <2>1, <2>2
<1> QED BY <1>2, <1>3

\* Two test windows that follow each other: adding the two lengths in the one or the other order
\* gives the same month, and days that were cut to 28 at least.
LEMMA EndsMeet ==
  ASSUME NEW s, Calendar(s), NEW train \in Int, NEW test \in Int
  PROVE  LET apart == Serial(AddMonths(AddMonths(s, test), train))
                        - Serial(AddMonths(AddMonths(s, train), test)) IN
         -3 <= apart /\ apart <= 3
<1> DEFINE next == AddMonths(s, test)
           start == AddMonths(s, train)
           a == AddMonths(next, train)
           b == AddMonths(start, test)
<1>1. /\ Calendar(next) /\ MonthNumber(next) = MonthNumber(s) + test
      /\ next.day = IF s.day < DaysIn(next.year, next.month) THEN s.day
                    ELSE DaysIn(next.year, next.month)
  BY AddedMonths
<1>2. /\ Calendar(start) /\ MonthNumber(start) = MonthNumber(s) + train
      /\ start.day = IF s.day < DaysIn(start.year, start.month) THEN s.day
                     ELSE DaysIn(start.year, start.month)
  BY AddedMonths
<1>3. /\ Calendar(a) /\ MonthNumber(a) = MonthNumber(next) + train
      /\ a.day = IF next.day < DaysIn(a.year, a.month) THEN next.day ELSE DaysIn(a.year, a.month)
  <2> HIDE DEF next
  <2> QED BY <1>1, AddedMonths
<1>4. /\ Calendar(b) /\ MonthNumber(b) = MonthNumber(start) + test
      /\ b.day = IF start.day < DaysIn(b.year, b.month) THEN start.day ELSE DaysIn(b.year, b.month)
  <2> HIDE DEF start
  <2> QED BY <1>2, AddedMonths
<1> HIDE DEF next, start, a, b
<1>6. a.year = b.year /\ a.month = b.month
  <2>1. MonthNumber(s) \in Int
    BY DEF Calendar, Dates, MonthNumber
  <2>2. MonthNumber(a) = MonthNumber(b)
    BY <1>1, <1>2, <1>3, <1>4, <2>1
  <2> QED BY <1>3, <1>4, <2>2, MonthNumberIsUnique
<1>7. /\ DaysIn(next.year, next.month) \in 28..31 /\ DaysIn(start.year, start.month) \in 28..31
      /\ DaysIn(a.year, a.month) \in 28..31
  BY <1>1, <1>2, <1>3, LengthsOfMonths DEF Calendar, Dates
<1>8. s.day \in 1..31
  BY DEF Calendar, Dates
<1>9. -3 <= a.day - b.day /\ a.day - b.day <= 3
  BY <1>1, <1>2, <1>3, <1>4, <1>6, <1>7, <1>8
<1>10. Serial(a) - Serial(b) = a.day - b.day
  BY <1>3, <1>4, <1>6, SerialsOfAMonth
<1> QED BY <1>9, <1>10 DEF a, b, next, start

-----------------------------------------------------------------------------
\* The windows of a walk-forward.

\* The records a run's job can be.
Jobs == [kind : Kinds, train : Int, test : Int, step : Int, trainStart : Dates,
         phase : {"asked", "window", "search", "test"}, tested : Seq(Windows)]

\* What a job's fields are.
LEMMA JobFields ==
  ASSUME NEW j \in Jobs
  PROVE  /\ j.kind \in Kinds /\ j.train \in Int /\ j.test \in Int /\ j.step \in Int
         /\ j.trainStart \in Dates /\ j.phase \in {"asked", "window", "search", "test"}
         /\ j.tested \in Seq(Windows)
BY DEF Jobs

LEMMA TestDates ==
  ASSUME NEW j \in Jobs, Calendar(j.trainStart)
  PROVE  Calendar(TestStart(j)) /\ Calendar(TestEnd(j))
<1>1. j.train \in Int /\ j.test \in Int
  BY JobFields
<1>2. Calendar(TestStart(j))
  BY <1>1, AddedMonths DEF TestStart
<1> QED BY <1>1, <1>2, AddedMonths DEF TestEnd

LEMMA BlankJob ==
  /\ Blank \in Jobs /\ Blank.tested = <<>> /\ Blank.trainStart \in Starts
  /\ Calendar(Blank.trainStart)
<1>1. Blank.trainStart \in Starts
  BY StartsAssumption DEF Blank
<1>2. Calendar(Blank.trainStart)
  BY <1>1, StartsAssumption, DatesAreInCalendar
<1>3. Blank.trainStart \in Dates
  BY <1>2 DEF Calendar
<1> QED BY <1>1, <1>2, <1>3 DEF Blank, Kinds, Jobs

\* Runs, their jobs and their books are well-formed, and a walk-forward stands at a day of the
\* calendar.
DatedJobs == \A r \in Runs : Calendar(job[r].trainStart) /\ Len(job[r].tested) <= 1
TypeInv == TypeOK /\ DatedJobs

\* The rest of the type, which most steps leave alone or move inside its sets.
RestTyped ==
  /\ status \in [Runs -> {"none", "queued", "running", "succeeded", "failed"}]
  /\ metric \subseteq Runs /\ tasks \subseteq Runs /\ faults \in 0..MaxFaults

LEMMA TypesOfAState ==
  TypeOK <=> /\ RestTyped /\ job \in [Runs -> Jobs]
             /\ book \in [Runs -> [cash : Int, shares : Nat, spent : Nat, earned : Nat,
                                   trades : Nat, bars : Nat]]
BY DEF TypeOK, RestTyped, Jobs

LEMMA BooksAreTyped ==
  BookInv => book \in [Runs -> [cash : Int, shares : Nat, spent : Nat, earned : Nat,
                                trades : Nat, bars : Nat]]
BY DEF BookInv, Books

LEMMA TypedAgain ==
  ASSUME BookInv', RestTyped', DatedJobs', job' \in [Runs -> Jobs]
  PROVE  TypeInv'
BY DEF BookInv, Books, RestTyped, Jobs, TypeInv, TypeOK

\* A step that replaces one job with a dated one keeps the type.
LEMMA DatedJobKeepsType ==
  ASSUME TypeInv, BookInv', RestTyped', NEW r \in Runs, NEW j \in Jobs,
         Calendar(j.trainStart), Len(j.tested) <= 1, job' = [job EXCEPT ![r] = j]
  PROVE  TypeInv'
<1>1. job \in [Runs -> Jobs] /\ DatedJobs
  BY TypesOfAState DEF TypeInv
<1>2. job' \in [Runs -> Jobs]
  BY <1>1
<1>3. \A q \in Runs : job'[q] = IF q = r THEN j ELSE job[q]
  BY <1>1
<1>4. DatedJobs'
  BY <1>1, <1>3 DEF DatedJobs
<1> QED BY <1>2, <1>4, TypedAgain

\* What the commits of a task store, or lose.
LEMMA CommitsAreTyped ==
  ASSUME RestTyped, NEW r \in Runs,
         \/ /\ Stores(r, "running") /\ UNCHANGED <<metric, tasks>>
         \/ Loses(r) \/ Succeed(r) \/ Fail(r)
  PROVE  RestTyped'
<1>1. MaxFaults \in Nat
  BY RunsAssumption
<1>2. CASE Loses(r)
  BY <1>1, <1>2 DEF Loses, RestTyped
<1>3. CASE Stores(r, "running") /\ UNCHANGED <<metric, tasks>>
  BY <1>3 DEF Stores, RestTyped
<1>4. CASE Succeed(r) \/ Fail(r)
  BY <1>2, <1>4 DEF Succeed, Fail, Stores, RestTyped
<1> QED BY <1>2, <1>3, <1>4

\* The window that was tested, when there were bars in it.
Recorded(r) ==
  IF book[r].bars = 0 THEN <<>>
  ELSE <<[testStart |-> TestStart(job[r]), testEnd |-> TestEnd(job[r])]>>

LEMMA RecordedWindows ==
  ASSUME NEW r \in Runs, job[r] \in Jobs, Calendar(job[r].trainStart)
  PROVE  /\ Recorded(r) \in Seq(Windows) /\ Len(Recorded(r)) <= 1
         /\ Recorded(r) # <<>> => Recorded(r)[1].testEnd = TestEnd(job[r])
<1> DEFINE window == [testStart |-> TestStart(job[r]), testEnd |-> TestEnd(job[r])]
<1>1. window \in Windows /\ window.testEnd = TestEnd(job[r])
  BY TestDates DEF Windows, Calendar
<1>2. Recorded(r) = IF book[r].bars = 0 THEN <<>> ELSE <<window>>
  BY DEF Recorded
<1> HIDE DEF window
<1> QED BY <1>1, <1>2

LEMMA JobsAreDated == Spec => []TypeInv
<1>0. Kinds = {"backtest", "optimizer", "walkforward"} /\ MaxFaults \in Nat
  BY RunsAssumption DEF Kinds
<1>1. Init => TypeInv
  <2> SUFFICES ASSUME Init PROVE TypeInv
    OBVIOUS
  <2>1. BookInv
    BY OpenBookIsBalanced DEF Init, BookInv
  <2>2. job \in [Runs -> Jobs]
    BY BlankJob DEF Init
  <2>3. DatedJobs
    BY BlankJob DEF Init, DatedJobs
  <2>4. RestTyped
    BY <1>0 DEF Init, RestTyped
  <2> QED BY <2>1, <2>2, <2>3, <2>4, TypesOfAState, BooksAreTyped DEF TypeInv
<1>2. TypeInv /\ BookInv' /\ [Next]_vars => TypeInv'
  <2> SUFFICES ASSUME TypeInv, BookInv', [Next]_vars PROVE TypeInv'
    OBVIOUS
  <2>0. RestTyped /\ DatedJobs /\ job \in [Runs -> Jobs]
    BY TypesOfAState DEF TypeInv
  <2>1. ASSUME NEW r \in Runs, NEW kind \in Kinds, NEW start \in Starts, NEW train \in Trains,
               NEW test \in Tests, NEW step \in Steps, Create(r, kind, start, train, test, step)
        PROVE  TypeInv'
    <3> DEFINE j == [Blank EXCEPT !.kind = kind, !.trainStart = start, !.train = train,
                                  !.test = test, !.step = step]
    <3>1. Calendar(start) /\ start \in Dates
      BY StartsAssumption, DatesAreInCalendar DEF Calendar
    <3>2. train \in Int /\ test \in Int /\ step \in Int
      BY RunsAssumption
    <3>3. j \in Jobs /\ j.trainStart = start /\ j.tested = <<>>
      BY <3>1, <3>2, BlankJob DEF Jobs
    <3>4. job' = [job EXCEPT ![r] = j]
      BY <2>1 DEF Create
    <3>5. RestTyped'
      BY <2>0, <2>1 DEF Create, RestTyped
    <3> HIDE DEF j
    <3>6. Calendar(j.trainStart) /\ Len(j.tested) <= 1
      BY <3>1, <3>3
    <3> QED BY <3>3, <3>4, <3>5, <3>6, DatedJobKeepsType
  <2>2. ASSUME UNCHANGED job, RestTyped' PROVE TypeInv'
    <3>1. DatedJobs' /\ job' \in [Runs -> Jobs]
      BY <2>0, <2>2 DEF DatedJobs
    <3> QED BY <2>2, <3>1, TypedAgain
  <2>3. ASSUME NEW r \in Runs, Begin(r) \/ Backtest(r) \/ Optimize(r) PROVE TypeInv'
    <3>1. RestTyped' /\ UNCHANGED job
      BY <2>0, <2>3, CommitsAreTyped DEF Begin, Backtest, Optimize
    <3> QED BY <2>2, <3>1
  <2>4. ASSUME NEW r \in Runs, NEW phase \in {"window", "search", "test"},
               Continues(r, [job[r] EXCEPT !.phase = phase])
        PROVE  TypeInv'
    <3> DEFINE j == [job[r] EXCEPT !.phase = phase]
    <3>1. job[r] \in Jobs /\ Calendar(job[r].trainStart) /\ Len(job[r].tested) <= 1
      BY <2>0 DEF DatedJobs
    <3>2. j \in Jobs /\ j.trainStart = job[r].trainStart /\ j.tested = job[r].tested
      BY <3>1 DEF Jobs
    <3>3. RestTyped' /\ job' = [job EXCEPT ![r] = j]
      BY <2>0, <2>4 DEF Continues, RestTyped
    <3> HIDE DEF j
    <3> QED BY <3>1, <3>2, <3>3, DatedJobKeepsType
  <2>5. ASSUME NEW r \in Runs, NEW d, Calendar(d), NEW tested \in Seq(Windows), Len(tested) <= 1,
               Continues(r, [job[r] EXCEPT !.phase = "window", !.trainStart = d, !.tested = tested])
        PROVE  TypeInv'
    <3> DEFINE j == [job[r] EXCEPT !.phase = "window", !.trainStart = d, !.tested = tested]
    <3>1. job[r] \in Jobs /\ d \in Dates
      BY <2>0, <2>5 DEF Calendar
    <3>2. j \in Jobs /\ j.trainStart = d /\ j.tested = tested
      BY <2>5, <3>1 DEF Jobs
    <3>3. RestTyped' /\ job' = [job EXCEPT ![r] = j]
      BY <2>0, <2>5 DEF Continues, RestTyped
    <3> HIDE DEF j
    <3> QED BY <2>5, <3>2, <3>3, DatedJobKeepsType
  <2>6. ASSUME NEW r \in Runs, Parse(r) \/ Window(r) PROVE TypeInv'
    <3>1. \/ \E phase \in {"window", "search"} : Continues(r, [job[r] EXCEPT !.phase = phase])
          \/ (Succeed(r) \/ Fail(r)) /\ UNCHANGED job
      BY <2>6 DEF Parse, Window
    <3> QED BY <2>0, <2>2, <2>4, <3>1, CommitsAreTyped
  <2>7. ASSUME NEW r \in Runs, NEW tried \in SUBSET Grid, Search(r, tried) PROVE TypeInv'
    <3>1. Calendar(TestStart(job[r])) /\ <<>> \in Seq(Windows) /\ Len(<<>>) <= 1
      BY <2>0, TestDates DEF DatedJobs
    <3>2. \/ Continues(r, [job[r] EXCEPT !.phase = "test"])
          \/ Continues(r, [job[r] EXCEPT !.phase = "window", !.trainStart = TestStart(job[r]),
                                         !.tested = <<>>])
      BY <2>7 DEF Search
    <3> QED BY <2>4, <2>5, <3>1, <3>2
  <2>8. ASSUME NEW r \in Runs, WindowEnds(r) PROVE TypeInv'
    <3>1. CASE IsDate(Rolled(r))
      <4>1. Calendar(Rolled(r)) /\ Recorded(r) \in Seq(Windows) /\ Len(Recorded(r)) <= 1
        BY <2>0, <3>1, DatesAreInCalendar, RecordedWindows DEF DatedJobs
      <4>2. Continues(r, [job[r] EXCEPT !.phase = "window", !.trainStart = Rolled(r),
                                        !.tested = Recorded(r)])
        BY <2>8, <3>1 DEF WindowEnds, Recorded
      <4> QED BY <2>5, <4>1, <4>2
    <3>2. CASE ~IsDate(Rolled(r))
      <4>1. Fail(r) /\ UNCHANGED job
        BY <2>8, <3>2 DEF WindowEnds
      <4> QED BY <2>0, <2>2, <4>1, CommitsAreTyped
    <3> QED BY <3>1, <3>2
  <2>9. ASSUME NEW r \in Runs, NEW signal, NEW price \in Prices, Bar(r, signal, price)
        PROVE  TypeInv'
    <3>1. UNCHANGED <<status, metric, tasks, job, faults>>
      BY <2>9 DEF Bar
    <3> QED BY <2>0, <2>2, <3>1 DEF RestTyped
  <2>10. CASE Crash \/ UNCHANGED vars
    <3>1. UNCHANGED <<status, metric, job, book>> /\ tasks' \in {{}, tasks}
          /\ faults' \in 0..MaxFaults
      BY <1>0, <2>0, <2>10 DEF Crash, vars, RestTyped
    <3> QED BY <2>0, <2>2, <3>1 DEF RestTyped
  <2> QED BY <2>1, <2>3, <2>6, <2>7, <2>8, <2>9, <2>10 DEF Next, Work
<1> QED BY <1>1, <1>2, BookInvariant, PTL DEF Spec

\* Runs, jobs and books are well-formed, whatever integers a request gives as the lengths of its
\* windows and steps and whichever commit fails.
THEOREM TypeInvariant == Spec => []TypeOK
<1>1. TypeInv => TypeOK
  BY DEF TypeInv
<1> QED BY <1>1, JobsAreDated, PTL

\* The invariant behind the tiling.  A walk-forward that rolls by the length of a test and
\* has just tested the windows of some training start s now trains from the date AddMonths
\* gives for s and that length: its next test starts train_months after that date, the last one
\* ended test_months after the test of s had started.
Behind(j, s) ==
  /\ Calendar(s) /\ j.tested[1].testEnd = AddMonths(AddMonths(s, j.train), j.test)
  /\ j.trainStart = AddMonths(s, j.test)

WalkInv ==
  \A r \in Runs : job[r].tested # <<>> /\ job[r].step = job[r].test => \E s : Behind(job[r], s)

\* A step that leaves each job's request, window and tests alone, or forgets the tests.
LEMMA StillBehind ==
  ASSUME WalkInv,
         \A q \in Runs : \/ job'[q].tested = <<>>
                         \/ /\ job'[q].tested = job[q].tested
                            /\ job'[q].trainStart = job[q].trainStart
                            /\ job'[q].train = job[q].train /\ job'[q].test = job[q].test
                            /\ job'[q].step = job[q].step
  PROVE  WalkInv'
BY DEF WalkInv, Behind

LEMMA WalkInvariant == Spec => []WalkInv
<1>1. Init => WalkInv
  BY BlankJob DEF Init, WalkInv
<1>2. TypeInv /\ WalkInv /\ [Next]_vars => WalkInv'
  <2> SUFFICES ASSUME TypeInv, WalkInv, [Next]_vars PROVE WalkInv'
    OBVIOUS
  <2>0. DatedJobs /\ job \in [Runs -> Jobs]
    BY TypesOfAState DEF TypeInv
  <2>1. ASSUME NEW r \in Runs, NEW j, job' = [job EXCEPT ![r] = j],
               \/ j.tested = <<>>
               \/ /\ j.tested = job[r].tested /\ j.trainStart = job[r].trainStart
                  /\ j.train = job[r].train /\ j.test = job[r].test /\ j.step = job[r].step
        PROVE  WalkInv'
    <3>1. \A q \in Runs : job'[q] = IF q = r THEN j ELSE job[q]
      BY <2>0, <2>1
    <3> QED BY <2>1, <3>1, StillBehind
  <2>2. ASSUME UNCHANGED job PROVE WalkInv'
    BY <2>2, StillBehind
  <2>3. ASSUME NEW r \in Runs, NEW kind \in Kinds, NEW start \in Starts, NEW train \in Trains,
               NEW test \in Tests, NEW step \in Steps, Create(r, kind, start, train, test, step)
        PROVE  WalkInv'
    <3> DEFINE j == [Blank EXCEPT !.kind = kind, !.trainStart = start, !.train = train,
                                  !.test = test, !.step = step]
    <3>1. job' = [job EXCEPT ![r] = j]
      BY <2>3 DEF Create
    <3>2. j.tested = <<>>
      BY DEF Blank
    <3> HIDE DEF j
    <3> QED BY <2>1, <3>1, <3>2
  <2>4. ASSUME NEW r \in Runs, NEW phase \in {"window", "search", "test"},
               Continues(r, [job[r] EXCEPT !.phase = phase])
        PROVE  WalkInv'
    <3> DEFINE j == [job[r] EXCEPT !.phase = phase]
    <3>1. /\ j.tested = job[r].tested /\ j.trainStart = job[r].trainStart
          /\ j.train = job[r].train /\ j.test = job[r].test /\ j.step = job[r].step
      BY <2>0 DEF Jobs
    <3>2. job' = [job EXCEPT ![r] = j]
      BY <2>4 DEF Continues
    <3> HIDE DEF j
    <3> QED BY <2>1, <3>1, <3>2
  <2>5. ASSUME NEW r \in Runs, Parse(r) \/ Window(r) PROVE WalkInv'
    <3>1. \/ \E phase \in {"window", "search"} : Continues(r, [job[r] EXCEPT !.phase = phase])
          \/ UNCHANGED job
      BY <2>5 DEF Parse, Window
    <3> QED BY <2>2, <2>4, <3>1
  <2>6. ASSUME NEW r \in Runs, NEW tried \in SUBSET Grid, Search(r, tried) PROVE WalkInv'
    <3> DEFINE j == [job[r] EXCEPT !.phase = "window", !.trainStart = TestStart(job[r]),
                                   !.tested = <<>>]
    <3>1. Continues(r, [job[r] EXCEPT !.phase = "test"]) \/ job' = [job EXCEPT ![r] = j]
      BY <2>6 DEF Search, Continues
    <3>2. j.tested = <<>>
      BY <2>0 DEF Jobs
    <3> HIDE DEF j
    <3> QED BY <2>1, <2>4, <3>1, <3>2
  <2>7. ASSUME NEW r \in Runs, WindowEnds(r) PROVE WalkInv'
    <3>1. CASE IsDate(Rolled(r))
      <4> DEFINE j == [job[r] EXCEPT !.phase = "window", !.trainStart = Rolled(r),
                                     !.tested = Recorded(r)]
      <4>1. job[r] \in Jobs /\ Calendar(job[r].trainStart)
        BY <2>0 DEF DatedJobs
      <4>2. job' = [job EXCEPT ![r] = j]
        BY <2>7, <3>1 DEF WindowEnds, Continues, Recorded
      <4>3. /\ j.tested = Recorded(r) /\ j.trainStart = AddMonths(job[r].trainStart, job[r].step)
            /\ j.train = job[r].train /\ j.test = job[r].test /\ j.step = job[r].step
        BY <4>1 DEF Jobs, Rolled
      <4>4. Recorded(r) # <<>> =>
              Recorded(r)[1].testEnd
                = AddMonths(AddMonths(job[r].trainStart, job[r].train), job[r].test)
        BY <4>1, RecordedWindows DEF TestEnd, TestStart
      <4> HIDE DEF j
      <4>5. j.tested # <<>> /\ j.step = j.test => Behind(j, job[r].trainStart)
        BY <4>1, <4>3, <4>4 DEF Behind
      <4>6. \A q \in Runs : job'[q] = IF q = r THEN j ELSE job[q]
        BY <2>0, <4>2
      <4>7. ASSUME NEW q \in Runs, job'[q].tested # <<>>, job'[q].step = job'[q].test
            PROVE  \E s : Behind(job'[q], s)
        BY <4>5, <4>6, <4>7 DEF WalkInv
      <4> QED BY <4>7 DEF WalkInv, Behind
    <3>2. CASE ~IsDate(Rolled(r))
      BY <2>2, <2>7, <3>2 DEF WindowEnds
    <3> QED BY <3>1, <3>2
  <2>8. ASSUME NEW r \in Runs, Begin(r) \/ Backtest(r) \/ Optimize(r)
                               \/ \E signal, price : Bar(r, signal, price)
        PROVE  WalkInv'
    BY <2>2, <2>8 DEF Begin, Backtest, Optimize, Bar
  <2>9. ASSUME Crash \/ UNCHANGED vars PROVE WalkInv'
    BY <2>2, <2>9 DEF Crash, vars
  <2> QED BY <2>3, <2>5, <2>6, <2>7, <2>8, <2>9 DEF Next, Work
<1> QED BY <1>1, <1>2, JobsAreDated, PTL DEF Spec

\* The tests of a walk-forward that rolls by their length tile its dates: each begins within
\* three days of the end of the one before, for every start, whatever the lengths of the
\* windows and the months and years they cross.
THEOREM WindowsTile == Spec => []TestWindowsTile
<1>1. TypeInv /\ WalkInv => TestWindowsTile
  <2> SUFFICES ASSUME TypeInv, WalkInv, NEW r \in Runs, job[r].tested # <<>>,
                      job[r].step = job[r].test
               PROVE  LET apart == Serial(TestStart(job[r])) - Serial(job[r].tested[1].testEnd)
                      IN -3 <= apart /\ apart <= 3
    BY DEF TestWindowsTile
  <2>1. PICK s : Behind(job[r], s)
    BY DEF WalkInv
  <2>2. job[r].train \in Int /\ job[r].test \in Int
    BY TypesOfAState, JobFields DEF TypeInv
  <2> QED BY <2>1, <2>2, EndsMeet DEF Behind, TestStart
<1> QED BY <1>1, JobsAreDated, WalkInvariant, PTL

-----------------------------------------------------------------------------
\* The promotion rule.

\* The decision is one of the three statuses a review can give.
LEMMA StatusType ==
  ASSUME NEW r, NEW a, NEW m, NEW d
  PROVE  GovernanceStatus(r, a, m, d) \in {"ACTIVE", "CANDIDATE", "REJECTED"}
BY DEF GovernanceStatus

\* Only the promotion rule makes a proposal active.
LEMMA ActiveMeansAllowed ==
  ASSUME NEW r, NEW a, NEW m, NEW d, GovernanceStatus(r, a, m, d) = "ACTIVE"
  PROVE  PromoteAllowed(r, a, m, d)
<1>1. CASE CandidateAllowed(r)  BY <1>1 DEF GovernanceStatus
<1>2. CASE ~CandidateAllowed(r) BY <1>2 DEF GovernanceStatus
<1> QED BY <1>1, <1>2

-----------------------------------------------------------------------------
\* A single review.

ReviewTypes ==
  [source : Sources, score : Int, backtest : BacktestOutcomes,
   knowledge : SUBSET KnowledgeReasons]
ActiveTypes == {NoActive} \cup [source : Sources, score : Int, promotedDay : Int]

ReviewTyped == review \in ReviewTypes /\ active \in ActiveTypes /\ macro \in BOOLEAN /\ day \in Int

LEMMA ReviewIsTyped == ReviewSpec => []ReviewTyped
<1>1. ReviewInit => ReviewTyped
  <2> SUFFICES ASSUME ReviewInit PROVE ReviewTyped
    OBVIOUS
  <2>1. review \in ReviewTypes
    BY ReviewAssumption DEF ReviewInit, ReviewInputs, ReviewTypes
  <2>2. active \in ActiveTypes
    <3>1. CASE active = NoActive
      BY <3>1 DEF ActiveTypes
    <3>2. CASE active \in [source : Sources, score : Scores, promotedDay : Days]
      BY <3>2, ReviewAssumption DEF ActiveTypes
    <3> QED BY <3>1, <3>2 DEF ReviewInit, ActiveContexts
  <2>3. macro \in BOOLEAN /\ day \in Int
    BY ReviewAssumption DEF ReviewInit
  <2> QED BY <2>1, <2>2, <2>3 DEF ReviewTyped
<1>2. ReviewTyped /\ [ReviewNext]_reviewVars => ReviewTyped'
  <2> SUFFICES ASSUME ReviewTyped, [ReviewNext]_reviewVars PROVE ReviewTyped'
    OBVIOUS
  <2> USE ReviewAssumption DEF ReviewTyped, ReviewTypes
  <2>1. CASE ScoreRises       BY <2>1 DEF ScoreRises
  <2>2. CASE DayPasses        BY <2>2 DEF DayPasses
  <2>3. CASE MacroRecovers    BY <2>3 DEF MacroRecovers
  <2>4. CASE BacktestPasses   BY <2>4 DEF BacktestPasses, BacktestOutcomes
  <2>5. CASE KnowledgeCleared BY <2>5 DEF KnowledgeCleared
  <2>6. CASE UNCHANGED reviewVars   BY <2>6 DEF reviewVars
  <2> QED BY <2>1, <2>2, <2>3, <2>4, <2>5, <2>6 DEF ReviewNext
<1> QED BY <1>1, <1>2, PTL DEF ReviewSpec

-----------------------------------------------------------------------------
\* A failed promotion condition puts a reason into the report.
LEMMA RefusedPromotionHasReason ==
  ASSUME NEW r \in ReviewTypes, NEW a \in ActiveTypes, NEW m \in BOOLEAN, NEW d \in Int,
         ~PromoteAllowed(r, a, m, d)
  PROVE  PromotionBlockedReasons(r, a, m, d) # {}
<1> USE GovernanceAssumption DEF PromotionBlockedReasons
<1>1. CASE RequireBacktest /\ r.backtest # "go"
  <2>1. r.backtest \in {"unavailable", "no_go", "go_review", "revise_review", "revise"}
    BY <1>1 DEF ReviewTypes, BacktestOutcomes
  <2>2. GateBlockedReasons(r.backtest) # {}
    <3>1. CASE r.backtest = "unavailable" BY <3>1 DEF GateBlockedReasons
    <3>2. CASE r.backtest = "no_go" BY <3>2 DEF GateBlockedReasons
    <3>3. CASE r.backtest \in {"go_review", "revise_review"} BY <3>3 DEF GateBlockedReasons
    <3>4. CASE r.backtest = "revise" BY <3>4 DEF GateBlockedReasons
    <3> QED BY <2>1, <3>1, <3>2, <3>3, <3>4
  <2> QED BY <1>1, <2>2
<1>2. CASE r.score < PromoteThreshold
  BY <1>2
<1>3. CASE ~CanChallengeActive(r, a, d)
  <2>1. a \in [source : Sources, score : Int, promotedDay : Int] /\ r.score \in Int
    BY <1>3 DEF CanChallengeActive, ActiveTypes, ReviewTypes
  <2>2. CooldownRemaining(a, d) \in Nat
    BY <2>1 DEF CooldownRemaining
  <2>3. a # NoActive /\ ~ReplacingMockActive(r, a)
    BY <1>3 DEF CanChallengeActive
  <2>4. \/ r.score - a.score < ChallengerMinDelta
        \/ CooldownRemaining(a, d) > 0
    BY <1>3, <2>1, <2>2 DEF CanChallengeActive
  <2> QED BY <2>3, <2>4
<1>4. CASE MacroBlocks(m)
  BY <1>4
<1>5. CASE r.knowledge \cap KnowledgeReasons # {}
  BY <1>5
<1>6. BottomLinePassed(r.backtest) \/ (RequireBacktest /\ r.backtest # "go")
  BY DEF BottomLinePassed, BacktestGateBottomLine
<1>7. r.score \in Int
  BY DEF ReviewTypes
<1> QED
  BY <1>1, <1>2, <1>3, <1>4, <1>5, <1>6, <1>7 DEF PromoteAllowed, EligibleForPaper

\* A proposal that is not even a candidate has a candidate reason.
LEMMA RefusedCandidateHasReason ==
  ASSUME NEW r \in ReviewTypes, ~CandidateAllowed(r)
  PROVE  CandidateBlockedReasons(r) # {}
<1>1. r.score \in Int
  BY DEF ReviewTypes
<1> QED
  BY <1>1, GovernanceAssumption DEF CandidateAllowed, CandidateBlockedReasons

\* Every refusal is explained in the governance report (services.py:4272-4310),
\* whatever the thresholds are: the reasons and the decision are computed by
\* separate conditions, and no combination of inputs separates them.
THEOREM RefusalsExplained == ReviewSpec => []RefusalIsExplained
<1>1. ReviewTyped => RefusalIsExplained
  <2> SUFFICES ASSUME ReviewTyped PROVE RefusalIsExplained
    OBVIOUS
  <2>1. Status # "ACTIVE" => ~PromoteAllowed(review, active, macro, day)
    BY DEF Status, GovernanceStatus
  <2>2. Status = "REJECTED" => ~CandidateAllowed(review)
    <3>1. CASE PromoteAllowed(review, active, macro, day)
      BY <3>1 DEF Status, GovernanceStatus
    <3>2. CASE ~PromoteAllowed(review, active, macro, day)
      BY <3>2 DEF Status, GovernanceStatus
    <3> QED BY <3>1, <3>2
  <2> QED
    BY <2>1, <2>2, RefusedPromotionHasReason, RefusedCandidateHasReason
    DEF ReviewTyped, RefusalIsExplained, Promotion
<1> QED BY <1>1, ReviewIsTyped, PTL

-----------------------------------------------------------------------------
\* A promotion bypasses no listed reason but `llm_mock_fallback`.
LEMMA AllowedPromotionReasons ==
  ASSUME NEW r \in ReviewTypes, NEW a \in ActiveTypes, NEW m \in BOOLEAN, NEW d \in Int,
         PromoteAllowed(r, a, m, d)
  PROVE  PromotionBlockedReasons(r, a, m, d) \subseteq {"llm_mock_fallback"}
<1> USE GovernanceAssumption DEF PromoteAllowed
<1>1. ~(r.score < PromoteThreshold)
  BY DEF ReviewTypes
<1>2. \/ a = NoActive \/ ReplacingMockActive(r, a)
      \/ ~(r.score - a.score < ChallengerMinDelta) /\ CooldownRemaining(a, d) = 0
  BY DEF CanChallengeActive, ReviewTypes, ActiveTypes
<1>3. a = NoActive => CooldownRemaining(a, d) = 0
  BY DEF CooldownRemaining
<1>4. RequireBacktest => GateBlockedReasons(r.backtest) = {}
  <2> SUFFICES ASSUME RequireBacktest PROVE GateBlockedReasons(r.backtest) = {}
    OBVIOUS
  <2>1. r.backtest = "go"
    BY DEF EligibleForPaper
  <2> QED BY <2>1 DEF GateBlockedReasons
<1>5. r.knowledge = {}
  BY DEF ReviewTypes
<1>6. ~MacroBlocks(m)
  OBVIOUS
<1> QED
  BY <1>1, <1>2, <1>3, <1>4, <1>5, <1>6 DEF PromotionBlockedReasons

\* What the report lists is what the rule enforces, for all thresholds: a promoted
\* proposal has no listed promotion reason, unless it is a mock.
THEOREM ReasonsEnforced == ReviewSpec => []OnlyMockBypassesReasons
<1>1. ReviewTyped => OnlyMockBypassesReasons
  <2> SUFFICES ASSUME ReviewTyped, Status = "ACTIVE"
               PROVE  Promotion \subseteq {"llm_mock_fallback"}
    BY DEF OnlyMockBypassesReasons
  <2>1. PromoteAllowed(review, active, macro, day)
    BY ActiveMeansAllowed DEF Status
  <2> QED BY <2>1, AllowedPromotionReasons DEF ReviewTyped, Promotion
<1> QED BY <1>1, ReviewIsTyped, PTL

\* The promotion conditions of docs/RUNBOOK.md:114-119 are necessary for every
\* promotion, for all thresholds.
THEOREM RunbookConditionsHold == ReviewSpec => []RunbookConditions
<1>1. ReviewTyped => RunbookConditions
  <2> SUFFICES ASSUME ReviewTyped, Status = "ACTIVE" PROVE RunbookConditions
    BY DEF RunbookConditions
  <2>1. PromoteAllowed(review, active, macro, day)
    BY ActiveMeansAllowed DEF Status
  <2>2. ASSUME active # NoActive
        PROVE  \/ /\ day - active.promotedDay >= CooldownDays
                  /\ review.score >= active.score + ChallengerMinDelta
               \/ /\ active.source = "mock" /\ review.source = "minimax"
                  /\ review.score >= active.score
    <3>1. /\ active \in [source : Sources, score : Int, promotedDay : Int]
          /\ review.score \in Int /\ review.source \in Sources /\ day \in Int
      BY <2>2 DEF ReviewTyped, ActiveTypes, ReviewTypes
    <3>2. CASE ReplacingMockActive(review, active)
      BY <3>1, <3>2 DEF ReplacingMockActive, Sources
    <3>3. CASE ~ReplacingMockActive(review, active)
      <4>1. review.score - active.score >= ChallengerMinDelta /\ CooldownRemaining(active, day) = 0
        BY <2>1, <2>2, <3>3 DEF PromoteAllowed, CanChallengeActive
      <4>2. day - active.promotedDay >= CooldownDays
        BY <2>2, <3>1, <4>1, GovernanceAssumption DEF CooldownRemaining
      <4> QED BY <3>1, <4>1, <4>2, GovernanceAssumption
    <3> QED BY <3>2, <3>3
  <2> QED
    BY <2>1, <2>2 DEF RunbookConditions, PromoteAllowed, MacroBlocks
<1> QED BY <1>1, ReviewIsTyped, PTL

-----------------------------------------------------------------------------
\* What is monotone in the situation of one proposal.  `s` is a situation no
\* better than `t`: same strategy, same active strategy, and score, day, macro
\* channel, backtest and knowledge at least as good in `t`.
NoBetter(r, m, d, r1, m1, d1) ==
  /\ r1.source = r.source
  /\ r1.score >= r.score
  /\ r1.backtest \in {r.backtest, "go"}
  /\ r1.knowledge \subseteq r.knowledge
  /\ m1 => m
  /\ d1 >= d

LEMMA CooldownRunsDown ==
  ASSUME NEW a \in ActiveTypes, NEW d \in Int, NEW d1 \in Int, d1 >= d,
         CooldownRemaining(a, d) = 0
  PROVE  CooldownRemaining(a, d1) = 0
<1>1. CASE a = NoActive
  BY <1>1 DEF CooldownRemaining
<1>2. CASE a # NoActive
  <2>1. a.promotedDay \in Int
    BY <1>2 DEF ActiveTypes
  <2>2. d - a.promotedDay >= CooldownDays
    BY <1>2, <2>1, GovernanceAssumption DEF CooldownRemaining
  <2> QED BY <1>2, <2>1, <2>2, GovernanceAssumption DEF CooldownRemaining
<1> QED BY <1>1, <1>2

LEMMA PromotionIsMonotone ==
  ASSUME NEW r \in ReviewTypes, NEW a \in ActiveTypes, NEW m \in BOOLEAN, NEW d \in Int,
         NEW r1 \in ReviewTypes, NEW m1 \in BOOLEAN, NEW d1 \in Int,
         NoBetter(r, m, d, r1, m1, d1), PromoteAllowed(r, a, m, d)
  PROVE  PromoteAllowed(r1, a, m1, d1)
<1> USE GovernanceAssumption DEF NoBetter
<1>1. BottomLinePassed(r1.backtest) /\ (RequireBacktest => EligibleForPaper(r1.backtest))
  BY DEF PromoteAllowed, BottomLinePassed, BacktestGateBottomLine, EligibleForPaper
<1>2. r1.score \in Int /\ r.score \in Int
  BY DEF ReviewTypes
<1>3. r1.score >= PromoteThreshold
  BY <1>2 DEF PromoteAllowed
<1>4. CanChallengeActive(r1, a, d1)
  <2>1. CASE a = NoActive
    BY <2>1 DEF CanChallengeActive
  <2>2. CASE a # NoActive /\ ReplacingMockActive(r, a)
    <3>1. a.score \in Int
      BY <2>2 DEF ActiveTypes
    <3> QED BY <1>2, <1>3, <2>2, <3>1 DEF CanChallengeActive, ReplacingMockActive
  <2>3. CASE a # NoActive /\ ~ReplacingMockActive(r, a)
    <3>1. a.score \in Int
      BY <2>3 DEF ActiveTypes
    <3>2. CooldownRemaining(a, d) = 0 /\ r.score - a.score >= ChallengerMinDelta
      BY <2>3 DEF PromoteAllowed, CanChallengeActive
    <3>3. CooldownRemaining(a, d1) = 0
      BY <3>2, CooldownRunsDown
    <3>4. r1.score - a.score >= ChallengerMinDelta
      BY <1>2, <3>1, <3>2
    <3> QED BY <3>3, <3>4 DEF CanChallengeActive
  <2> QED BY <2>1, <2>2, <2>3
<1>5. ~MacroBlocks(m1)
  BY DEF PromoteAllowed, MacroBlocks
<1>6. r1.knowledge \cap KnowledgeReasons = {}
  BY DEF PromoteAllowed
<1> QED BY <1>1, <1>3, <1>4, <1>5, <1>6 DEF PromoteAllowed

LEMMA CandidacyIsMonotone ==
  ASSUME NEW r \in ReviewTypes, NEW m \in BOOLEAN, NEW d \in Int,
         NEW r1 \in ReviewTypes, NEW m1 \in BOOLEAN, NEW d1 \in Int,
         NoBetter(r, m, d, r1, m1, d1), CandidateAllowed(r)
  PROVE  CandidateAllowed(r1)
<1> USE GovernanceAssumption DEF NoBetter
<1>1. r1.score \in Int /\ r.score \in Int
  BY DEF ReviewTypes
<1>2. r1.score >= KeepThreshold
  BY <1>1 DEF CandidateAllowed
<1> QED
  BY <1>2 DEF CandidateAllowed, BottomLinePassed, BacktestGateBottomLine, BacktestGateCandidateOk

\* A better situation of the same strategy never worsens the decision of
\* _governance_action, for all thresholds, scores and days.
THEOREM DecisionIsMonotone == ReviewSpec => NeverWorse
<1>1. ReviewTyped /\ ReviewTyped' /\ [ReviewNext]_reviewVars => [Rank(Status') >= Rank(Status)]_reviewVars
  <2> SUFFICES ASSUME ReviewTyped, ReviewTyped', ReviewNext PROVE Rank(Status') >= Rank(Status)
    OBVIOUS
  <2>1. active' = active /\ NoBetter(review, macro, day, review', macro', day')
    <3> USE ReviewAssumption DEF ReviewTyped, ReviewTypes, NoBetter
    <3>1. CASE ScoreRises       BY <3>1 DEF ScoreRises
    <3>2. CASE DayPasses        BY <3>2 DEF DayPasses
    <3>3. CASE MacroRecovers    BY <3>3 DEF MacroRecovers
    <3>4. CASE BacktestPasses   BY <3>4 DEF BacktestPasses
    <3>5. CASE KnowledgeCleared BY <3>5 DEF KnowledgeCleared
    <3> QED BY <3>1, <3>2, <3>3, <3>4, <3>5 DEF ReviewNext
  <2>2. PromoteAllowed(review, active, macro, day)
          => PromoteAllowed(review', active', macro', day')
    BY <2>1, PromotionIsMonotone DEF ReviewTyped
  <2>3. CandidateAllowed(review) => CandidateAllowed(review')
    BY <2>1, CandidacyIsMonotone DEF ReviewTyped
  <2>4. CASE PromoteAllowed(review, active, macro, day)
    <3>1. Status' = "ACTIVE"
      BY <2>2, <2>4 DEF Status, GovernanceStatus
    <3>2. Status \in {"ACTIVE", "CANDIDATE", "REJECTED"}
      BY StatusType DEF Status
    <3> QED BY <3>1, <3>2 DEF Rank
  <2>5. CASE ~PromoteAllowed(review, active, macro, day) /\ CandidateAllowed(review)
    <3>1. Status = "CANDIDATE"
      BY <2>5 DEF Status, GovernanceStatus
    <3>2. Status' \in {"ACTIVE", "CANDIDATE"}
      BY <2>3, <2>5 DEF Status, GovernanceStatus
    <3> QED BY <3>1, <3>2 DEF Rank
  <2>6. CASE ~PromoteAllowed(review, active, macro, day) /\ ~CandidateAllowed(review)
    <3>1. Status = "REJECTED"
      BY <2>6 DEF Status, GovernanceStatus
    <3>2. Status' \in {"ACTIVE", "CANDIDATE", "REJECTED"}
      BY DEF Status, GovernanceStatus
    <3> QED BY <3>1, <3>2 DEF Rank
  <2> QED BY <2>4, <2>5, <2>6
<1> QED BY <1>1, ReviewIsTyped, PTL DEF ReviewSpec, NeverWorse
=============================================================================
