------------------------- MODULE PaperLedgerProofs -------------------------
(***************************************************************************)
(* The paper ledger for any number of strategies, prices, syncs and        *)
(* faults: what the audit records say of the files, which file leads, how  *)
(* often a snapshot row or a first trade can be repeated, and what makes   *)
(* the two files the same.                                                 *)
(***************************************************************************)
EXTENDS PaperLedger, TLAPS

Kinds == {"snapshot", "bootstrap"}
StepNames == {"snapshot", "bootstrap", "cycle", "judge"}

-----------------------------------------------------------------------------
\* Types of the operators.

LEMMA SymbolType == ASSUME NEW p \in Proposals PROVE SymbolOf[p] \in Symbols
BY DEF Symbols

LEMMA LotsType ==
  ASSUME NEW e \in Nat, NEW price \in Prices
  PROVE  Lots(e, price) \in Nat /\ Lots(e, price) >= 1
<1>1. price \in Nat /\ price > 0 /\ SizingPercent \in Nat
  BY LedgerAssumption
<1>2. e * SizingPercent \in Int
  BY <1>1
<1>3. (e * SizingPercent) \div 100 \in Int
  BY <1>2
<1>4. ((e * SizingPercent) \div 100) \div price \in Int
  BY <1>1, <1>3
<1> QED BY <1>4 DEF Lots, AtLeast

LEMMA MarkedType ==
  ASSUME NEW h \in [peak : Nat, fell : BOOLEAN], NEW e \in Nat
  PROVE  Marked(h, e) \in [peak : Nat, fell : BOOLEAN]
BY DEF Marked, AtLeast, Falls

LEMMA PostedType ==
  ASSUME NEW f \in Ledgers, NEW w \in Writes
  PROVE  Posted(f, w) \in Ledgers
<1> DEFINE mark == Marked([peak |-> f.peak, fell |-> f.fell], w.cash + w.value)
           s == SymbolOf[w.by]
<1>1. mark \in [peak : Nat, fell : BOOLEAN]
  <2>1. w.cash + w.value \in Nat
    BY DEF Writes
  <2>2. [peak |-> f.peak, fell |-> f.fell] \in [peak : Nat, fell : BOOLEAN]
    BY DEF Ledgers
  <2> QED BY <2>1, <2>2, MarkedType
<1>2. s \in Symbols /\ w.by \in Proposals
  BY SymbolType DEF Writes
<1>3. w.day \in Int /\ w.cash \in Nat /\ w.value \in Nat /\ w.qty \in Nat /\ w.traded \in Int
  BY DEF Writes
<1>4. /\ f.qty \in [Symbols -> Nat] /\ f.net \in [Symbols -> Int]
      /\ f.snaps \in Counts /\ f.boots \in Counts
  BY DEF Ledgers
<1>5. [f.qty EXCEPT ![s] = w.qty] \in [Symbols -> Nat]
  BY <1>2, <1>3, <1>4
<1>6. [f.net EXCEPT ![s] = @ + w.traded] \in [Symbols -> Int]
  BY <1>2, <1>3, <1>4
<1>7. [f.snaps EXCEPT ![w.by] = @ + 1] \in Counts /\ [f.boots EXCEPT ![w.by] = @ + 1] \in Counts
  BY <1>2, <1>4 DEF Counts
<1> HIDE DEF mark
<1> QED BY <1>1, <1>3, <1>4, <1>5, <1>6, <1>7 DEF Posted, Ledgers, mark

\* How a write changes the number of snapshot rows and first trades of a file.
CountOf(f, kind) == IF kind = "snapshot" THEN f.snaps ELSE f.boots

LEMMA PostedCounts ==
  ASSUME NEW f \in Ledgers, NEW w \in Writes, NEW kind \in Kinds, NEW p \in Proposals
  PROVE  CountOf(Posted(f, w), kind)[p]
           = CountOf(f, kind)[p] + (IF w.kind = kind /\ w.by = p THEN 1 ELSE 0)
<1>1. Posted(f, w).snaps
        = IF w.kind = "snapshot" THEN [f.snaps EXCEPT ![w.by] = @ + 1] ELSE f.snaps
  BY DEF Posted
<1>2. Posted(f, w).boots
        = IF w.kind = "bootstrap" THEN [f.boots EXCEPT ![w.by] = @ + 1] ELSE f.boots
  BY DEF Posted
<1>3. f.snaps \in Counts /\ f.boots \in Counts /\ w.by \in Proposals
  BY DEF Ledgers, Writes
<1> QED BY <1>1, <1>2, <1>3 DEF CountOf, Kinds, Counts
-----------------------------------------------------------------------------
\* Types of the reads.

WorkInv ==
  /\ todo # <<>> => who \in Proposals
  /\ write # NoWrite => todo # <<>>
  /\ stage = "idle" => todo = <<>>

TypeInv == TypeOK /\ WorkInv

LEMMA WritesAreNotNone == NoWrite \notin Writes
BY DEF NoWrite, Writes

LEMMA ReadTypes ==
  ASSUME TypeOK, NEW s \in Symbols
  PROVE  /\ ReadNav \in Ledgers
         /\ ReadQty(s) \in Nat /\ ReadCash \in Nat /\ ReadEquity \in Nat
<1>1. file["runtime"] \in Ledgers /\ file["paper"] \in Ledgers
  BY DEF TypeOK, Files
<1>2. ReadNav \in Ledgers
  BY <1>1 DEF ReadNav
<1>3. ReadNav.cash \in Nat /\ ReadNav.value \in Nat
  BY <1>2 DEF Ledgers
<1>4. ReadCash \in Nat /\ ReadEquity \in Nat
  BY <1>3, LedgerAssumption DEF ReadCash, ReadEquity, OrDefault
<1>5. ReadQty(s) \in Nat
  BY <1>1 DEF ReadQty, Ledgers
<1> QED BY <1>2, <1>4, <1>5

LEMMA StartType ==
  ASSUME NEW p \in Proposals \cup {None}, NEW steps \in Seq(StepNames),
         steps # <<>> => p \in Proposals, Start(p, steps)
  PROVE  /\ who' \in Proposals \cup {None} /\ todo' \in Seq(StepNames) /\ open' \in BOOLEAN
         /\ todo' # <<>> => who' \in Proposals
BY DEF Start

LEMMA StartHealthType ==
  ASSUME TypeOK, StartHealth
  PROVE  /\ who' \in Proposals \cup {None} /\ todo' \in Seq(StepNames) /\ open' \in BOOLEAN
         /\ todo' # <<>> => who' \in Proposals
<1>1. session.active \in Proposals \cup {None}
  BY DEF TypeOK, Sessions
<1>2. CASE session.active = None
  <2>1. who' = None /\ todo' = <<>> /\ open' \in BOOLEAN
    BY <1>2 DEF StartHealth, Start
  <2> QED BY <2>1 DEF StepNames
<1>3. CASE session.active # None
  <2>1. Start(session.active, HealthSteps)
    BY <1>3 DEF StartHealth
  <2>2. HealthSteps \in Seq(StepNames)
    BY DEF HealthSteps, StepNames
  <2> QED BY <1>1, <1>3, <2>1, <2>2, StartType
<1> QED BY <1>2, <1>3

LEMMA PassType ==
  ASSUME TypeInv, todo # <<>>, Pass
  PROVE  todo' \in Seq(StepNames)
BY DEF TypeInv, TypeOK, Pass, StepNames

LEMMA WriteRuntimeType ==
  ASSUME TypeInv, todo # <<>>, NEW w \in Writes, WriteRuntime(w)
  PROVE  TypeInv'
<1> USE DEF TypeInv, TypeOK
<1>1. file["runtime"] \in Ledgers /\ w.by \in Proposals /\ w.cash + w.value \in Nat
  BY DEF Files, Writes
<1>2. Posted(file["runtime"], w) \in Ledgers
  BY <1>1, PostedType
<1>3. file' \in [Files -> Ledgers]
  BY <1>2 DEF WriteRuntime, Files
<1> QED BY <1>3 DEF WriteRuntime, WorkInv

LEMMA SkipType == ASSUME TypeInv, todo # <<>>, write = NoWrite, Skip PROVE TypeInv'
<1>1. todo' \in Seq(StepNames)
  BY PassType DEF Skip
<1> QED BY <1>1 DEF TypeInv, TypeOK, WorkInv, Skip, StepNames

\* What an operation says it traded accounts for the position it leaves.
Accounted(w) == IF w.moves THEN w.traded >= w.qty - ReadQty(SymbolOf[w.by]) ELSE w.traded = 0

\* What an open-market cycle writes.
LEMMA CycleOpenRows ==
  ASSUME TypeInv, NEW price \in Prices, NEW signal \in {"BUY", "HOLD", "SELL"},
         CycleOpen(signal, price)
  PROVE  \E w \in Writes : w.kind = "cycle" /\ w.by = who /\ Accounted(w) /\ WriteRuntime(w)
<1> DEFINE target == Target(signal, price)
           order == target - ReadQty(SymbolOf[who])
           cash == IF order > 0 THEN AtLeast(0, ReadCash - order * price)
                   ELSE ReadCash - order * price
<1>1. At("cycle") /\ WriteRuntime(Rows("cycle", cash, target * price, TRUE, target, order))
  BY DEF CycleOpen
<1>2. who \in Proposals /\ todo # <<>>
  BY <1>1 DEF At, TypeInv, WorkInv
<1>3. ReadQty(SymbolOf[who]) \in Nat /\ ReadCash \in Nat /\ ReadEquity \in Nat
  BY <1>2, SymbolType, ReadTypes DEF TypeInv
<1>4. price \in Nat
  BY LedgerAssumption
<1>5. target \in Nat
  <2>1. CASE signal = "SELL" BY <2>1 DEF Target
  <2>2. CASE signal = "HOLD" BY <2>2, <1>3 DEF Target
  <2>3. CASE signal = "BUY"  BY <2>3, <1>3, LotsType DEF Target
  <2> QED BY <2>1, <2>2, <2>3
<1>6. order \in Int
  BY <1>3, <1>5
<1> HIDE DEF target, order
<1>7. order * price \in Int /\ target * price \in Nat
  BY <1>4, <1>5, <1>6
<1>8. cash \in Nat
  <2>1. CASE order > 0
    BY <2>1, <1>3, <1>7 DEF AtLeast
  <2>2. CASE ~(order > 0)
    <3>1. order * price <= 0
      BY <2>2, <1>4, <1>6
    <3> QED BY <2>2, <3>1, <1>3, <1>7
  <2> QED BY <2>1, <2>2
<1> HIDE DEF cash
<1> DEFINE w == Rows("cycle", cash, target * price, TRUE, target, order)
<1>9. w \in Writes /\ w.kind = "cycle" /\ w.by = who
  BY <1>2, <1>5, <1>6, <1>7, <1>8 DEF Rows, Writes, TypeInv, TypeOK
<1>10. WriteRuntime(w)
  BY <1>1
<1>11. Accounted(w)
  <2>1. order = target - ReadQty(SymbolOf[who])
    BY DEF order
  <2>2. w.moves /\ w.traded = order /\ w.qty = target /\ w.by = who
    BY DEF Rows
  <2> HIDE DEF w
  <2> QED BY <1>3, <1>5, <1>6, <2>1, <2>2 DEF Accounted
<1> HIDE DEF w
<1> QED BY <1>9, <1>10, <1>11

\* What a closed-market cycle that writes, writes.
LEMMA CycleClosedRows ==
  ASSUME TypeInv, NEW price \in Prices, CycleClosed(price)
  PROVE  /\ At("cycle")
         /\ \/ \E w \in Writes : w.kind = "cycle" /\ w.by = who /\ Accounted(w) /\ WriteRuntime(w)
            \/ /\ \E e \in Nat : session' = [session EXCEPT !.last[who] = e]
               /\ Pass
               /\ UNCHANGED <<file, stored, stage, who, open, write, day, syncs, faults>>
<1> DEFINE value == ReadQty(SymbolOf[who]) * price
<1>1. At("cycle")
  BY DEF CycleClosed
<1>2. who \in Proposals /\ todo # <<>>
  BY <1>1 DEF At, TypeInv, WorkInv
<1>3. ReadQty(SymbolOf[who]) \in Nat /\ ReadCash \in Nat
  BY <1>2, SymbolType, ReadTypes DEF TypeInv
<1>4. value \in Nat /\ ReadCash + value \in Nat
  <2>1. price \in Nat
    BY LedgerAssumption
  <2>2. value \in Nat
    BY <1>3, <2>1
  <2> QED BY <1>3, <2>2
<1>5. CASE WriteRuntime(Rows("cycle", ReadCash, value, FALSE, 0, 0))
  <2> DEFINE w == Rows("cycle", ReadCash, value, FALSE, 0, 0)
  <2> HIDE DEF value
  <2>1. w \in Writes /\ w.kind = "cycle" /\ w.by = who
    BY <1>2, <1>3, <1>4 DEF Rows, Writes, TypeInv, TypeOK
  <2>2. WriteRuntime(w)
    BY <1>5
  <2>3. Accounted(w)
    BY DEF Rows, Accounted
  <2> HIDE DEF w
  <2> QED BY <1>1, <2>1, <2>2, <2>3
<1>6. CASE ~WriteRuntime(Rows("cycle", ReadCash, value, FALSE, 0, 0))
  <2>1. /\ session' = [session EXCEPT !.last[who] = ReadCash + value]
        /\ Pass
        /\ UNCHANGED <<file, stored, stage, who, open, write, day, syncs, faults>>
    BY <1>6 DEF CycleClosed
  <2> QED BY <1>1, <1>4, <2>1
<1> QED BY <1>5, <1>6
-----------------------------------------------------------------------------
\* What a step of an operation can do.
LEMMA StepCases ==
  ASSUME TypeInv, Step
  PROVE  \/ /\ todo # <<>> /\ write = NoWrite
            /\ \E w \in Writes : /\ w.by = who /\ Accounted(w) /\ WriteRuntime(w)
                                 /\ w.kind = "snapshot" => who \notin session.snap
                                 /\ w.kind = "bootstrap" => who \notin session.boot
         \/ todo # <<>> /\ write = NoWrite /\ Skip
         \/ /\ todo # <<>> /\ write = NoWrite /\ Pass
            /\ \E e \in Nat \cup {None} : session' = [session EXCEPT !.last[who] = e]
            /\ UNCHANGED <<file, stored, stage, who, open, write, day, syncs, faults>>
         \/ Judge
         \/ WritePaper
<1>1. CASE InitializeSnapshot
  <2>1. todo # <<>> /\ write = NoWrite /\ who \in Proposals
    BY <1>1 DEF InitializeSnapshot, At, TypeInv, WorkInv
  <2>2. CASE who \in session.snap
    BY <1>1, <2>1, <2>2 DEF InitializeSnapshot
  <2>3. CASE who \notin session.snap
    <3> DEFINE w == Rows("snapshot", Capital, 0, FALSE, 0, 0)
    <3>1. w \in Writes /\ w.kind = "snapshot" /\ w.by = who
      BY <2>1, LedgerAssumption DEF Rows, Writes, TypeInv, TypeOK
    <3>2. WriteRuntime(w)
      BY <1>1, <2>3 DEF InitializeSnapshot
    <3>3. Accounted(w)
      BY DEF Rows, Accounted
    <3> HIDE DEF w
    <3> QED BY <2>1, <2>3, <3>1, <3>2, <3>3
  <2> QED BY <2>2, <2>3
<1>2. CASE Bootstrap
  <2>1. todo # <<>> /\ write = NoWrite /\ who \in Proposals
    BY <1>2 DEF Bootstrap, At, TypeInv, WorkInv
  <2>2. CASE Skip
    BY <2>1, <2>2
  <2>3. CASE ~Skip
    <3>1. who \notin session.boot
      BY <1>2, <2>3 DEF Bootstrap
    <3>2. PICK quote \in Prices :
            WriteRuntime(Rows("bootstrap", AtLeast(0, Capital - Lots(Capital, quote) * quote),
                              Lots(Capital, quote) * quote, TRUE, Lots(Capital, quote),
                              Lots(Capital, quote)))
      BY <1>2, <2>3 DEF Bootstrap
    <3> DEFINE lots == Lots(Capital, quote)
               cash == AtLeast(0, Capital - lots * quote)
               w == Rows("bootstrap", cash, lots * quote, TRUE, lots, lots)
    <3>3. quote \in Nat /\ lots \in Nat /\ Capital \in Nat
      BY LotsType, LedgerAssumption
    <3>4. WriteRuntime(w)
      BY <3>2
    <3> HIDE DEF lots
    <3>5. lots * quote \in Nat
      BY <3>3
    <3>6. cash \in Nat
      BY <3>3, <3>5 DEF AtLeast
    <3> HIDE DEF cash
    <3>7. w \in Writes /\ w.kind = "bootstrap" /\ w.by = who
      BY <2>1, <3>3, <3>5, <3>6 DEF Rows, Writes, TypeInv, TypeOK
    <3>8. ReadQty(SymbolOf[who]) \in Nat
      BY <2>1, SymbolType, ReadTypes DEF TypeInv
    <3>9. Accounted(w)
      <4>1. w.moves /\ w.traded = lots /\ w.qty = lots /\ w.by = who
        BY DEF Rows
      <4> HIDE DEF w
      <4> QED BY <3>3, <3>8, <4>1 DEF Accounted
    <3> HIDE DEF w
    <3> QED BY <2>1, <3>1, <3>4, <3>7, <3>9
  <2> QED BY <2>2, <2>3
<1>3. CASE CycleWithoutHistory
  BY <1>3 DEF CycleWithoutHistory, At
<1>4. CASE \E price \in Prices : CycleClosed(price)
  BY <1>4, CycleClosedRows DEF At
<1>5. CASE \E price \in Prices : \E sig \in {"BUY", "HOLD", "SELL"} : CycleOpen(sig, price)
  <2>1. todo # <<>> /\ write = NoWrite
    BY <1>5 DEF CycleOpen, At
  <2> QED BY <1>5, <2>1, CycleOpenRows
<1> QED BY <1>1, <1>2, <1>3, <1>4, <1>5 DEF Step
-----------------------------------------------------------------------------
\* Types are kept.

LEMMA SessionType ==
  ASSUME TypeOK, NEW p \in Proposals, NEW e \in Nat \cup {None}
  PROVE  [session EXCEPT !.last[p] = e] \in Sessions
<1>1. session \in Sessions /\ session.last \in [Proposals -> Nat \cup {None}]
  BY DEF TypeOK, Sessions
<1>2. [session.last EXCEPT ![p] = e] \in [Proposals -> Nat \cup {None}]
  BY <1>1
<1>3. [session EXCEPT !.last[p] = e] = [session EXCEPT !.last = [session.last EXCEPT ![p] = e]]
  BY <1>1 DEF Sessions
<1> QED BY <1>1, <1>2, <1>3 DEF Sessions

LEMMA RecordedType ==
  ASSUME TypeInv, NEW w \in Writes
  PROVE  /\ Recorded(w) \in Sessions
         /\ Recorded(w).snap = IF w.kind = "snapshot" THEN session.snap \cup {w.by} ELSE session.snap
         /\ Recorded(w).boot = IF w.kind = "bootstrap" THEN session.boot \cup {w.by} ELSE session.boot
<1>1. session \in Sessions /\ w.by \in Proposals /\ w.cash + w.value \in Nat
  BY DEF TypeInv, TypeOK, Writes
<1>2. CASE w.kind = "snapshot"
  BY <1>1, <1>2 DEF Recorded, Sessions
<1>3. CASE w.kind = "bootstrap"
  BY <1>1, <1>3 DEF Recorded, Sessions
<1>4. CASE w.kind = "cycle"
  <2>1. Recorded(w) = [session EXCEPT !.last[w.by] = w.cash + w.value]
    BY <1>4 DEF Recorded
  <2>2. Recorded(w) \in Sessions
    BY <1>1, <2>1, SessionType DEF TypeInv
  <2>3. Recorded(w).snap = session.snap /\ Recorded(w).boot = session.boot
    BY <1>1, <2>1 DEF Sessions
  <2> QED BY <1>4, <2>2, <2>3
<1> QED BY <1>2, <1>3, <1>4 DEF Writes

LEMMA WritePaperType == ASSUME TypeInv, WritePaper PROVE TypeInv'
<1>1. write \in Writes /\ todo # <<>>
  BY DEF TypeInv, TypeOK, WorkInv, WritePaper
<1>2. Posted(file["paper"], write) \in Ledgers
  BY <1>1, PostedType DEF TypeInv, TypeOK, Files
<1>3. file' \in [Files -> Ledgers]
  BY <1>2 DEF TypeInv, TypeOK, WritePaper, Files
<1>4. session' \in Sessions
  BY <1>1, RecordedType DEF WritePaper
<1>5. todo' \in Seq(StepNames)
  BY <1>1, PassType DEF WritePaper
<1> QED BY <1>3, <1>4, <1>5 DEF TypeInv, TypeOK, WorkInv, WritePaper, StepNames

LEMMA JudgeType == ASSUME TypeInv, Judge PROVE TypeInv'
<1>1. todo # <<>> /\ write = NoWrite /\ who \in Proposals
  BY DEF Judge, At, TypeInv, WorkInv
<1>2. todo' \in Seq(StepNames)
  BY <1>1, PassType DEF Judge
<1>3. session' \in Sessions
  <2>1. session \in Sessions
    BY DEF TypeInv, TypeOK
  <2>2. CASE UNCHANGED session
    BY <2>1, <2>2
  <2>3. CASE ~UNCHANGED session
    <3>1. PICK next \in {None} \cup ((session.archived \cup session.halted) \ {who}) :
            session' = [session EXCEPT !.active = next, !.archived = @ \ {next},
                                       !.halted = @ \cup {who}]
      BY <2>3 DEF Judge
    <3> QED BY <1>1, <2>1, <3>1 DEF Sessions
  <2> QED BY <2>2, <2>3
<1> QED BY <1>1, <1>2, <1>3 DEF TypeInv, TypeOK, WorkInv, Judge, StepNames

LEMMA StepType == ASSUME TypeInv, Step PROVE TypeInv'
<1>1. CASE /\ todo # <<>> /\ write = NoWrite
           /\ \E w \in Writes : /\ w.by = who /\ Accounted(w) /\ WriteRuntime(w)
                                /\ w.kind = "snapshot" => who \notin session.snap
                                /\ w.kind = "bootstrap" => who \notin session.boot
  <2>1. PICK w \in Writes : WriteRuntime(w)
    BY <1>1
  <2> QED BY <1>1, <2>1, WriteRuntimeType
<1>2. CASE todo # <<>> /\ write = NoWrite /\ Skip
  BY <1>2, SkipType
<1>3. CASE /\ todo # <<>> /\ write = NoWrite /\ Pass
           /\ \E e \in Nat \cup {None} : session' = [session EXCEPT !.last[who] = e]
           /\ UNCHANGED <<file, stored, stage, who, open, write, day, syncs, faults>>
  <2>1. session' \in Sessions
    BY <1>3, SessionType DEF TypeInv, WorkInv
  <2>2. todo' \in Seq(StepNames)
    BY <1>3, PassType
  <2> QED BY <1>3, <2>1, <2>2 DEF TypeInv, TypeOK, WorkInv, StepNames
<1>4. CASE Judge
  BY <1>4, JudgeType
<1>5. CASE WritePaper
  BY <1>5, WritePaperType
<1> QED BY <1>1, <1>2, <1>3, <1>4, <1>5, StepCases, Zenon

LEMMA ScheduleType ==
  ASSUME TypeInv,
         BeginSync \/ (\E p \in Proposals : Promote(p)) \/ AssignSlots \/ FinalHealth \/ EndSync
  PROVE  TypeInv'
<1> USE DEF StepNames
<1>0. session \in Sessions /\ stored \in Sessions /\ <<>> \in Seq(StepNames)
  BY DEF TypeInv, TypeOK
<1>1. CASE BeginSync
  <2>1. /\ who' \in Proposals \cup {None} /\ todo' \in Seq(StepNames) /\ open' \in BOOLEAN
        /\ todo' # <<>> => who' \in Proposals
    <3>1. CASE StartHealth
      BY <3>1, StartHealthType DEF TypeInv
    <3>2. CASE Start(None, <<>>)
      BY <1>0, <3>2 DEF Start
    <3> QED BY <1>1, <3>1, <3>2 DEF BeginSync
  <2>2. session' \in Sessions
    <3>1. CASE UNCHANGED session
      BY <1>0, <3>1
    <3>2. CASE ~UNCHANGED session
      <4>1. PICK p \in session.archived \cup session.halted :
              session' = [session EXCEPT !.active = p, !.archived = @ \ {p}]
        BY <1>1, <3>2 DEF BeginSync
      <4> QED BY <1>0, <4>1 DEF Sessions
    <3> QED BY <3>1, <3>2
  <2>4. write = NoWrite
    BY <1>1 DEF BeginSync, TypeInv, WorkInv
  <2>5. stage' = "research" /\ day' \in Nat /\ syncs' \in Nat
    <3>1. day \in Nat /\ syncs \in Nat
      BY DEF TypeInv, TypeOK
    <3>2. stage' = "research" /\ day' \in {day, day + 1} /\ syncs' = syncs + 1
      BY <1>1 DEF BeginSync
    <3> QED BY <3>1, <3>2
  <2>6. UNCHANGED <<file, stored, write, faults>>
    BY <1>1 DEF BeginSync
  <2> QED BY <2>1, <2>2, <2>4, <2>5, <2>6 DEF TypeInv, TypeOK, WorkInv
<1>2. CASE \E p \in Proposals : Promote(p)
  <2>1. PICK p \in Proposals : Promote(p)
    BY <1>2
  <2>2. session' \in Sessions
    BY <1>0, <2>1 DEF Promote, Sessions
  <2>3. <<"snapshot", "bootstrap">> \in Seq(StepNames)
    OBVIOUS
  <2>4. /\ who' \in Proposals \cup {None} /\ todo' \in Seq(StepNames) /\ open' \in BOOLEAN
        /\ todo' # <<>> => who' \in Proposals
    BY <2>1, <2>3 DEF Promote, Start
  <2> QED BY <1>0, <2>1, <2>2, <2>4 DEF TypeInv, TypeOK, WorkInv, Promote
<1>3. CASE AssignSlots
  <2>1. session' \in Sessions
    BY <1>0, <1>3 DEF AssignSlots, Sessions
  <2>2. <<"snapshot", "cycle">> \in Seq(StepNames)
    OBVIOUS
  <2>3. /\ who' \in Proposals \cup {None} /\ todo' \in Seq(StepNames) /\ open' \in BOOLEAN
        /\ todo' # <<>> => who' \in Proposals
    BY <1>0, <1>3, <2>2 DEF AssignSlots, Start, Sessions
  <2> QED BY <1>3, <2>1, <2>3 DEF TypeInv, TypeOK, WorkInv, AssignSlots
<1>4. CASE FinalHealth
  <2>1. /\ who' \in Proposals \cup {None} /\ todo' \in Seq(StepNames) /\ open' \in BOOLEAN
        /\ todo' # <<>> => who' \in Proposals
    BY <1>4, StartHealthType DEF FinalHealth, TypeInv
  <2> QED BY <1>0, <1>4, <2>1 DEF TypeInv, TypeOK, WorkInv, FinalHealth
<1>5. CASE EndSync
  BY <1>0, <1>5 DEF TypeInv, TypeOK, WorkInv, EndSync
<1> QED BY <1>1, <1>2, <1>3, <1>4, <1>5

LEMMA FaultType == ASSUME TypeInv, Raise \/ Die PROVE TypeInv'
<1>1. /\ faults \in 0..MaxFaults /\ faults < MaxFaults /\ faults' = faults + 1
      /\ stage' = "idle" /\ todo' = <<>> /\ write' = NoWrite /\ who' = None /\ open' = FALSE
      /\ UNCHANGED <<file, day, syncs>>
  BY DEF Raise, Die, Abandon, TypeInv, TypeOK
<1>2. session' \in Sessions /\ stored' \in Sessions
  BY DEF TypeInv, TypeOK, Raise, Die
<1>3. faults' \in 0..MaxFaults
  BY <1>1, LedgerAssumption
<1>4. todo' \in Seq({"snapshot", "bootstrap", "cycle", "judge"})
  BY <1>1
<1> QED BY <1>1, <1>2, <1>3, <1>4 DEF TypeInv, TypeOK, WorkInv
\* Every variable keeps its type, whatever the prices, the number of strategies and
\* the place where a sync is cut off; no cash balance and no position is negative.
LEMMA TypeInvariance == Spec => []TypeInv
<1>1. Init => TypeInv
  <2> SUFFICES ASSUME Init PROVE TypeInv
    OBVIOUS
  <2>1. EmptyLedger \in Ledgers
    BY LedgerAssumption DEF EmptyLedger, Ledgers, Counts
  <2>2. file \in [Files -> Ledgers]
    BY <2>1 DEF Init
  <2>3. session \in Sessions /\ stored \in Sessions
    BY DEF Init, Sessions
  <2>4. faults \in 0..MaxFaults /\ syncs \in Nat /\ day \in Nat
    BY LedgerAssumption DEF Init
  <2>5. todo = <<>> /\ todo \in Seq(StepNames)
    BY DEF Init
  <2>6. stage = "idle" /\ who = None /\ open = FALSE /\ write = NoWrite
    BY DEF Init
  <2> QED BY <2>2, <2>3, <2>4, <2>5, <2>6 DEF TypeInv, TypeOK, WorkInv, StepNames
<1>2. TypeInv /\ [Next]_vars => TypeInv'
  <2> SUFFICES ASSUME TypeInv, [Next]_vars PROVE TypeInv'
    OBVIOUS
  <2>1. CASE BeginSync \/ (\E p \in Proposals : Promote(p)) \/ AssignSlots \/ FinalHealth \/ EndSync
    BY <2>1, ScheduleType
  <2>2. CASE Step
    BY <2>2, StepType
  <2>3. CASE Raise \/ Die
    BY <2>3, FaultType
  <2>4. CASE BoundReached \/ UNCHANGED vars
    BY <2>4 DEF BoundReached, vars, TypeInv, TypeOK, WorkInv
  <2> QED BY <2>1, <2>2, <2>3, <2>4 DEF Next
<1> QED BY <1>1, <1>2, PTL DEF Spec

\* Types, as TLC checks them.
THEOREM TypeInvariant == Spec => []TypeOK
<1>1. TypeInv => TypeOK
  BY DEF TypeInv
<1> QED BY <1>1, TypeInvariance, PTL
-----------------------------------------------------------------------------
\* The files and the audit records.  A write in flight is in the runtime file and
\* not yet in the paper file; an audit record of the session is true of both; and a
\* record that is missing costs a fault if its operation is done again.

InFlight(kind, p) == write.kind = kind /\ write.by = p
OneIf(b) == IF b THEN 1 ELSE 0

EntryInv(kind, p) ==
  /\ p \in Recordeds(stored, kind) => p \in Recordeds(session, kind)
  /\ p \in Recordeds(session, kind) => Held("paper", kind)[p] > 0
  /\ Held("paper", kind)[p] + OneIf(InFlight(kind, p)) <= Held("runtime", kind)[p]
  /\ Held("runtime", kind)[p]
       <= faults + OneIf(p \in Recordeds(session, kind) \/ InFlight(kind, p))

LedgerInv == \A kind \in Kinds : \A p \in Proposals : EntryInv(kind, p)

LEMMA HeldType ==
  ASSUME TypeInv, NEW kind \in Kinds, NEW p \in Proposals, NEW f \in Files
  PROVE  Held(f, kind)[p] \in Nat /\ Held(f, kind) = CountOf(file[f], kind)
BY DEF TypeInv, TypeOK, Held, CountOf, Ledgers, Counts, Kinds

LEMMA EntryUnchanged ==
  ASSUME TypeInv, NEW kind \in Kinds, NEW p \in Proposals, EntryInv(kind, p),
         UNCHANGED <<file, write, faults>>,
         Recordeds(session', kind) = Recordeds(session, kind),
         stored' \in {stored, session, session'}
  PROVE  EntryInv(kind, p)'
<1>1. Held("paper", kind)' = Held("paper", kind) /\ Held("runtime", kind)' = Held("runtime", kind)
  BY DEF Held
<1>2. InFlight(kind, p)' = InFlight(kind, p)
  BY DEF InFlight
<1>3. Recordeds(session', kind) = Recordeds(session, kind)
  OBVIOUS
<1>4. p \in Recordeds(stored', kind) => p \in Recordeds(session, kind)
  BY <1>3 DEF EntryInv
<1> QED BY <1>1, <1>2, <1>3, <1>4 DEF EntryInv

\* The write of the runtime file.
LEMMA EntryWriteRuntime ==
  ASSUME TypeInv, NEW kind \in Kinds, NEW p \in Proposals, EntryInv(kind, p),
         write = NoWrite, NEW w \in Writes, WriteRuntime(w),
         w.kind = "snapshot" => w.by \notin session.snap,
         w.kind = "bootstrap" => w.by \notin session.boot
  PROVE  EntryInv(kind, p)'
<1> DEFINE one == OneIf(w.kind = kind /\ w.by = p)
<1>1. Held("paper", kind)' = Held("paper", kind)
  <2>1. file'["paper"] = file["paper"]
    BY DEF WriteRuntime, TypeInv, TypeOK, Files
  <2> QED BY <2>1 DEF Held
<1>2. Held("runtime", kind)'[p] = Held("runtime", kind)[p] + one
  <2>1. file'["runtime"] = Posted(file["runtime"], w) /\ file["runtime"] \in Ledgers
    BY DEF WriteRuntime, TypeInv, TypeOK, Files
  <2>2. Held("runtime", kind)' = CountOf(Posted(file["runtime"], w), kind)
    BY <2>1 DEF Held, CountOf
  <2> QED BY <2>1, <2>2, PostedCounts, HeldType DEF Files, OneIf
<1>3. ~InFlight(kind, p)
  BY DEF InFlight, NoWrite, Kinds
<1>4. InFlight(kind, p)' <=> w.kind = kind /\ w.by = p
  BY DEF WriteRuntime, InFlight
<1>5. session' = session /\ stored' = stored /\ faults' = faults
  BY DEF WriteRuntime
<1>6. w.kind = kind /\ w.by = p => p \notin Recordeds(session, kind)
  BY DEF Recordeds, Kinds
<1>7. Held("runtime", kind)[p] \in Nat /\ Held("paper", kind)[p] \in Nat /\ faults \in Nat
  BY HeldType, LedgerAssumption DEF Files, TypeInv, TypeOK
<1> QED BY <1>1, <1>2, <1>3, <1>4, <1>5, <1>6, <1>7 DEF EntryInv, OneIf

\* The write of the paper file and the audit record.
LEMMA EntryWritePaper ==
  ASSUME TypeInv, NEW kind \in Kinds, NEW p \in Proposals, EntryInv(kind, p), WritePaper
  PROVE  EntryInv(kind, p)'
<1>1. write \in Writes
  BY DEF WritePaper, TypeInv, TypeOK
<1>2. Held("runtime", kind)' = Held("runtime", kind)
  <2>1. file'["runtime"] = file["runtime"]
    BY DEF WritePaper, TypeInv, TypeOK, Files
  <2> QED BY <2>1 DEF Held
<1>3. Held("paper", kind)'[p] = Held("paper", kind)[p] + OneIf(InFlight(kind, p))
  <2>1. file'["paper"] = Posted(file["paper"], write) /\ file["paper"] \in Ledgers
    BY DEF WritePaper, TypeInv, TypeOK, Files
  <2>2. Held("paper", kind)' = CountOf(Posted(file["paper"], write), kind)
    BY <2>1 DEF Held, CountOf
  <2> QED BY <1>1, <2>1, <2>2, PostedCounts, HeldType DEF Files, OneIf, InFlight
<1>4. ~InFlight(kind, p)'
  BY DEF WritePaper, InFlight, NoWrite, Kinds
<1>5. p \in Recordeds(session', kind) <=> p \in Recordeds(session, kind) \/ InFlight(kind, p)
  BY <1>1, RecordedType DEF WritePaper, Recordeds, Kinds, InFlight
<1>6. stored' = stored /\ faults' = faults
  BY DEF WritePaper
<1>7. Held("runtime", kind)[p] \in Nat /\ Held("paper", kind)[p] \in Nat /\ faults \in Nat
  BY HeldType, LedgerAssumption DEF Files, TypeInv, TypeOK
<1> QED BY <1>2, <1>3, <1>4, <1>5, <1>6, <1>7 DEF EntryInv, OneIf

\* A sync that is cut off, with its session committed or lost.
LEMMA EntryFault ==
  ASSUME TypeInv, NEW kind \in Kinds, NEW p \in Proposals, EntryInv(kind, p), Raise \/ Die
  PROVE  EntryInv(kind, p)'
<1>1. Held("paper", kind)' = Held("paper", kind) /\ Held("runtime", kind)' = Held("runtime", kind)
  BY DEF Raise, Die, Abandon, Held
<1>2. ~InFlight(kind, p)'
  BY DEF Raise, Die, Abandon, InFlight, NoWrite, Kinds
<1>3. faults' = faults + 1
  BY DEF Raise, Die, Abandon
<1>4. stored' = session' /\ session' \in {session, stored}
  BY DEF Raise, Die
<1>5. p \in Recordeds(session', kind) => p \in Recordeds(session, kind)
  BY <1>4 DEF EntryInv
<1>6. p \in Recordeds(stored', kind) => p \in Recordeds(session', kind)
  BY <1>4
<1>7. Held("runtime", kind)[p] \in Nat /\ Held("paper", kind)[p] \in Nat /\ faults \in Nat
  BY HeldType, LedgerAssumption DEF Files, TypeInv, TypeOK
<1> QED BY <1>1, <1>2, <1>3, <1>5, <1>6, <1>7 DEF EntryInv, OneIf

\* The ledger invariant holds in every reachable state.
LEMMA LedgerInvariance == Spec => []LedgerInv
<1>1. Init => LedgerInv
  <2> SUFFICES ASSUME Init, NEW kind \in Kinds, NEW p \in Proposals PROVE EntryInv(kind, p)
    BY DEF LedgerInv
  <2>1. Held("paper", kind)[p] = 0 /\ Held("runtime", kind)[p] = 0
    BY DEF Init, Held, EmptyLedger, Files
  <2>2. Recordeds(session, kind) = {} /\ Recordeds(stored, kind) = {}
    BY DEF Init, Recordeds
  <2>3. ~InFlight(kind, p)
    BY DEF Init, InFlight, NoWrite, Kinds
  <2>4. faults = 0 /\ stored = session
    BY DEF Init
  <2> QED BY <2>1, <2>2, <2>3, <2>4 DEF EntryInv, OneIf
<1>2. TypeInv /\ LedgerInv /\ [Next]_vars => LedgerInv'
  <2> SUFFICES ASSUME TypeInv, [Next]_vars, NEW kind \in Kinds, NEW p \in Proposals,
                      EntryInv(kind, p)
               PROVE  EntryInv(kind, p)'
    BY DEF LedgerInv
  <2>0. session \in Sessions
    BY DEF TypeInv, TypeOK
  <2>1. CASE BeginSync
    <3>1. Recordeds(session', kind) = Recordeds(session, kind)
      BY <2>0, <2>1 DEF BeginSync, Recordeds, Sessions
    <3> QED BY <2>1, <3>1, EntryUnchanged DEF BeginSync
  <2>2. CASE \E q \in Proposals : Promote(q)
    <3>1. Recordeds(session', kind) = Recordeds(session, kind)
      BY <2>0, <2>2 DEF Promote, Recordeds, Sessions
    <3> QED BY <2>2, <3>1, EntryUnchanged DEF Promote
  <2>3. CASE AssignSlots
    <3>1. Recordeds(session', kind) = Recordeds(session, kind)
      BY <2>0, <2>3 DEF AssignSlots, Recordeds, Sessions
    <3> QED BY <2>3, <3>1, EntryUnchanged DEF AssignSlots
  <2>4. CASE FinalHealth \/ EndSync
    BY <2>4, EntryUnchanged DEF FinalHealth, EndSync
  <2>5. CASE Step
    <3>1. CASE /\ todo # <<>> /\ write = NoWrite
               /\ \E w \in Writes : /\ w.by = who /\ Accounted(w) /\ WriteRuntime(w)
                                    /\ w.kind = "snapshot" => who \notin session.snap
                                    /\ w.kind = "bootstrap" => who \notin session.boot
      <4>1. PICK w \in Writes : /\ w.by = who /\ Accounted(w) /\ WriteRuntime(w)
                                /\ w.kind = "snapshot" => who \notin session.snap
                                /\ w.kind = "bootstrap" => who \notin session.boot
        BY <3>1
      <4> QED BY <3>1, <4>1, EntryWriteRuntime
    <3>2. CASE todo # <<>> /\ write = NoWrite /\ Skip
      BY <3>2, EntryUnchanged DEF Skip
    <3>3. CASE /\ todo # <<>> /\ write = NoWrite /\ Pass
               /\ \E e \in Nat \cup {None} : session' = [session EXCEPT !.last[who] = e]
               /\ UNCHANGED <<file, stored, stage, who, open, write, day, syncs, faults>>
      <4>1. Recordeds(session', kind) = Recordeds(session, kind)
        BY <2>0, <3>3 DEF Recordeds, Sessions
      <4> QED BY <3>3, <4>1, EntryUnchanged
    <3>4. CASE Judge
      <4>1. Recordeds(session', kind) = Recordeds(session, kind)
        BY <2>0, <3>4 DEF Judge, Recordeds, Sessions
      <4> QED BY <3>4, <4>1, EntryUnchanged DEF Judge
    <3>5. CASE WritePaper
      BY <3>5, EntryWritePaper
    <3> QED BY <2>5, <3>1, <3>2, <3>3, <3>4, <3>5, StepCases, Zenon
  <2>6. CASE Raise \/ Die
    BY <2>6, EntryFault
  <2>7. CASE BoundReached \/ UNCHANGED vars
    BY <2>7, EntryUnchanged DEF BoundReached, vars
  <2> QED BY <2>1, <2>2, <2>3, <2>4, <2>5, <2>6, <2>7 DEF Next
<1> QED BY <1>1, <1>2, TypeInvariance, PTL DEF Spec

\* A committed audit record is true of both files, wherever syncs are cut off.
THEOREM AuditsAreTrue == Spec => []AuditMeansWritten
<1>1. TypeInv /\ LedgerInv => AuditMeansWritten
  <2> SUFFICES ASSUME TypeInv, LedgerInv, NEW kind \in Kinds,
                      NEW p \in Recordeds(stored, kind)
               PROVE  Held("paper", kind)[p] > 0 /\ Held("runtime", kind)[p] > 0
    BY DEF AuditMeansWritten, Kinds, Files
  <2>1. p \in Proposals
    BY DEF TypeInv, TypeOK, Sessions, Recordeds, Kinds
  <2>2. EntryInv(kind, p)
    BY <2>1 DEF LedgerInv
  <2>3. Held("runtime", kind)[p] \in Nat /\ Held("paper", kind)[p] \in Nat
    BY <2>1, HeldType DEF Files
  <2> QED BY <2>2, <2>3 DEF EntryInv, OneIf
<1> QED BY <1>1, TypeInvariance, LedgerInvariance, PTL

\* The file that is read first is never behind the other.
THEOREM RuntimeLeads == Spec => []RuntimeFileLeads
<1>1. TypeInv /\ LedgerInv => RuntimeFileLeads
  <2> SUFFICES ASSUME TypeInv, LedgerInv, NEW kind \in Kinds, NEW p \in Proposals
               PROVE  Held("paper", kind)[p] <= Held("runtime", kind)[p]
    BY DEF RuntimeFileLeads, Kinds
  <2>1. EntryInv(kind, p)
    BY DEF LedgerInv
  <2>2. Held("runtime", kind)[p] \in Nat /\ Held("paper", kind)[p] \in Nat
    BY HeldType DEF Files
  <2> QED BY <2>1, <2>2 DEF EntryInv, OneIf
<1> QED BY <1>1, TypeInvariance, LedgerInvariance, PTL

\* A snapshot row or a first trade is repeated at most once per sync cut off.
THEOREM RepetitionNeedsFault == Spec => []OnceUnlessCutOff
<1>1. TypeInv /\ LedgerInv => OnceUnlessCutOff
  <2> SUFFICES ASSUME TypeInv, LedgerInv, NEW kind \in Kinds, NEW p \in Proposals
               PROVE  Held("runtime", kind)[p] <= 1 + faults
    BY DEF OnceUnlessCutOff, Kinds
  <2>1. EntryInv(kind, p)
    BY DEF LedgerInv
  <2>2. Held("runtime", kind)[p] \in Nat /\ faults \in Nat
    BY HeldType, LedgerAssumption DEF Files, TypeInv, TypeOK
  <2> QED BY <2>1, <2>2 DEF EntryInv, OneIf
<1> QED BY <1>1, TypeInvariance, LedgerInvariance, PTL

-----------------------------------------------------------------------------
\* The two files beside each other.

\* As long as no sync was cut off, the paper file is the runtime file without the
\* pending write.
MirrorInv ==
  faults = 0 =>
    /\ write = NoWrite => file["runtime"] = file["paper"]
    /\ write # NoWrite => file["runtime"] = Posted(file["paper"], write)

\* A pending write is what the runtime file holds.
PendingInv ==
  write # NoWrite =>
    /\ file["runtime"].cash = write.cash
    /\ write.moves => file["runtime"].qty[SymbolOf[write.by]] = write.qty

\* What the slot holds it has bought.
NetInv == faults = 0 => \A s \in Symbols : file["runtime"].qty[s] <= file["runtime"].net[s]

FilesInv == MirrorInv /\ PendingInv /\ NetInv

LEMMA PostedFields ==
  ASSUME NEW f \in Ledgers, NEW w \in Writes
  PROVE  /\ Posted(f, w).cash = w.cash
         /\ w.moves => Posted(f, w).qty[SymbolOf[w.by]] = w.qty
         /\ \A s \in Symbols :
              /\ Posted(f, w).qty[s] = IF w.moves /\ s = SymbolOf[w.by] THEN w.qty ELSE f.qty[s]
              /\ Posted(f, w).net[s] = IF s = SymbolOf[w.by] THEN f.net[s] + w.traded ELSE f.net[s]
<1>1. /\ Posted(f, w).cash = w.cash
      /\ Posted(f, w).qty = IF w.moves THEN [f.qty EXCEPT ![SymbolOf[w.by]] = w.qty] ELSE f.qty
      /\ Posted(f, w).net = [f.net EXCEPT ![SymbolOf[w.by]] = @ + w.traded]
  BY DEF Posted
<1>2. f.qty \in [Symbols -> Nat] /\ f.net \in [Symbols -> Int] /\ SymbolOf[w.by] \in Symbols
  BY SymbolType DEF Ledgers, Writes
<1> QED BY <1>1, <1>2

\* The first of the two files is written.
LEMMA MirrorWriteRuntime ==
  ASSUME TypeInv, FilesInv, write = NoWrite, NEW w \in Writes, Accounted(w), WriteRuntime(w)
  PROVE  FilesInv'
<1> DEFINE f == file["runtime"]
<1>1. /\ f \in Ledgers /\ file'["runtime"] = Posted(f, w) /\ file'["paper"] = file["paper"]
      /\ write' = w /\ faults' = faults
  BY DEF WriteRuntime, TypeInv, TypeOK, Files
<1>2. w # NoWrite
  BY WritesAreNotNone
<1>3. MirrorInv'
  BY <1>1, <1>2 DEF FilesInv, MirrorInv
<1>4. PendingInv'
  BY <1>1, PostedFields DEF PendingInv
<1>5. NetInv'
  <2> SUFFICES ASSUME faults = 0, NEW s \in Symbols
               PROVE  Posted(f, w).qty[s] <= Posted(f, w).net[s]
    BY <1>1 DEF NetInv
  <2>1. f = file["paper"] /\ f.qty[s] <= f.net[s]
    BY DEF FilesInv, MirrorInv, NetInv
  <2>2. f.qty[s] \in Nat /\ f.net[s] \in Int /\ w.qty \in Nat /\ w.traded \in Int
        /\ w.moves \in BOOLEAN
    BY <1>1 DEF Ledgers, Writes
  <2>3. ReadQty(s) = f.qty[s]
    BY <2>1 DEF ReadQty
  <2>4. s = SymbolOf[w.by] =>
          IF w.moves THEN w.traded >= w.qty - f.qty[s] ELSE w.traded = 0
    BY <2>3 DEF Accounted
  <2>5. /\ Posted(f, w).qty[s] = IF w.moves /\ s = SymbolOf[w.by] THEN w.qty ELSE f.qty[s]
        /\ Posted(f, w).net[s] = IF s = SymbolOf[w.by] THEN f.net[s] + w.traded ELSE f.net[s]
    BY <1>1, PostedFields
  <2> HIDE DEF f
  <2>6. CASE s # SymbolOf[w.by]
    BY <2>1, <2>5, <2>6
  <2>7. CASE s = SymbolOf[w.by] /\ w.moves
    BY <2>1, <2>2, <2>4, <2>5, <2>7
  <2>8. CASE s = SymbolOf[w.by] /\ ~w.moves
    BY <2>1, <2>2, <2>4, <2>5, <2>8
  <2> QED BY <2>6, <2>7, <2>8
<1> QED BY <1>3, <1>4, <1>5 DEF FilesInv

\* The second file is brought up to the first.
LEMMA MirrorWritePaper == ASSUME TypeInv, FilesInv, WritePaper PROVE FilesInv'
<1>1. /\ file'["paper"] = Posted(file["paper"], write) /\ file'["runtime"] = file["runtime"]
      /\ write # NoWrite /\ write' = NoWrite /\ faults' = faults
  BY DEF WritePaper, TypeInv, TypeOK, Files
<1>2. MirrorInv'
  BY <1>1 DEF FilesInv, MirrorInv
<1>3. PendingInv'
  BY <1>1 DEF PendingInv
<1>4. NetInv'
  BY <1>1 DEF FilesInv, NetInv
<1> QED BY <1>2, <1>3, <1>4 DEF FilesInv

LEMMA MirrorUnchanged ==
  ASSUME FilesInv, UNCHANGED <<file, write, faults>>
  PROVE  FilesInv'
BY DEF FilesInv, MirrorInv, PendingInv, NetInv

LEMMA FilesInvariance == Spec => []FilesInv
<1>1. Init => FilesInv
  <2> SUFFICES ASSUME Init PROVE FilesInv
    OBVIOUS
  <2>1. file["runtime"] = EmptyLedger /\ file["paper"] = EmptyLedger /\ write = NoWrite
    BY DEF Init, Files
  <2>2. \A s \in Symbols : EmptyLedger.qty[s] = 0 /\ EmptyLedger.net[s] = 0
    BY DEF EmptyLedger
  <2> QED BY <2>1, <2>2 DEF FilesInv, MirrorInv, PendingInv, NetInv
<1>2. TypeInv /\ FilesInv /\ [Next]_vars => FilesInv'
  <2> SUFFICES ASSUME TypeInv, FilesInv, [Next]_vars PROVE FilesInv'
    OBVIOUS
  <2>1. CASE BeginSync \/ (\E q \in Proposals : Promote(q)) \/ AssignSlots
    BY <2>1, MirrorUnchanged DEF BeginSync, Promote, AssignSlots
  <2>2. CASE FinalHealth \/ EndSync
    BY <2>2, MirrorUnchanged DEF FinalHealth, EndSync
  <2>3. CASE Step
    <3>1. CASE /\ todo # <<>> /\ write = NoWrite
               /\ \E w \in Writes : /\ w.by = who /\ Accounted(w) /\ WriteRuntime(w)
                                    /\ w.kind = "snapshot" => who \notin session.snap
                                    /\ w.kind = "bootstrap" => who \notin session.boot
      BY <3>1, MirrorWriteRuntime
    <3>2. CASE todo # <<>> /\ write = NoWrite /\ Skip
      BY <3>2, MirrorUnchanged DEF Skip
    <3>3. CASE /\ todo # <<>> /\ write = NoWrite /\ Pass
               /\ \E e \in Nat \cup {None} : session' = [session EXCEPT !.last[who] = e]
               /\ UNCHANGED <<file, stored, stage, who, open, write, day, syncs, faults>>
      BY <3>3, MirrorUnchanged
    <3>4. CASE Judge
      BY <3>4, MirrorUnchanged DEF Judge
    <3>5. CASE WritePaper
      BY <3>5, MirrorWritePaper
    <3> QED BY <2>3, <3>1, <3>2, <3>3, <3>4, <3>5, StepCases, Zenon
  <2>4. CASE Raise \/ Die
    <3>1. faults' = faults + 1 /\ write' = NoWrite /\ faults \in Nat
      BY <2>4, LedgerAssumption DEF Raise, Die, Abandon, TypeInv, TypeOK
    <3> QED BY <3>1 DEF FilesInv, MirrorInv, PendingInv, NetInv
  <2>5. CASE BoundReached \/ UNCHANGED vars
    BY <2>5, MirrorUnchanged DEF BoundReached, vars
  <2> QED BY <2>1, <2>2, <2>3, <2>4, <2>5 DEF Next
<1> QED BY <1>1, <1>2, TypeInvariance, PTL DEF Spec

\* Without a fault a reader of either file sees the same ledger between two writes.
THEOREM FilesAreEqual == Spec => []FilesAgree
<1>1. FilesInv => FilesAgree
  BY DEF FilesInv, MirrorInv, FilesAgree
<1> QED BY <1>1, FilesInvariance, PTL

\* Without a fault the slot never sells more of a symbol than it bought, for any
\* strategies that follow each other in it.
THEOREM NothingIsSoldShort == Spec => []SalesAreCovered
<1>1. TypeInv /\ FilesInv => SalesAreCovered
  <2> SUFFICES ASSUME TypeInv, FilesInv, faults = 0, NEW s \in Symbols
               PROVE  file["runtime"].net[s] >= 0
    BY DEF SalesAreCovered
  <2>1. file["runtime"].qty[s] <= file["runtime"].net[s]
    BY DEF FilesInv, NetInv
  <2>2. file["runtime"].qty[s] \in Nat /\ file["runtime"].net[s] \in Int
    BY DEF TypeInv, TypeOK, Ledgers, Files
  <2> QED BY <2>1, <2>2
<1> QED BY <1>1, TypeInvariance, FilesInvariance, PTL

\* A completed execution leaves both files with its cash and its position, however
\* many faults have driven them apart before.
THEOREM ExecutionHeals == Spec => ExecutionHealsTheFiles
<1> DEFINE Heals == write # NoWrite /\ write' = NoWrite /\ write.kind = "cycle" /\ write.moves
                    /\ faults' = faults
                    => /\ file'["runtime"].cash = file'["paper"].cash
                       /\ \A s \in {SymbolOf[write.by]} :
                            file'["runtime"].qty[s] = file'["paper"].qty[s]
<1>1. TypeInv /\ FilesInv /\ [Next]_vars => Heals
  <2> SUFFICES ASSUME TypeInv, FilesInv, [Next]_vars, write # NoWrite, write' = NoWrite,
                      write.moves, faults' = faults
               PROVE  /\ file'["runtime"].cash = file'["paper"].cash
                      /\ file'["runtime"].qty[SymbolOf[write.by]]
                           = file'["paper"].qty[SymbolOf[write.by]]
    OBVIOUS
  <2>1. CASE WritePaper
    <3>1. /\ file'["paper"] = Posted(file["paper"], write) /\ file'["runtime"] = file["runtime"]
          /\ file["paper"] \in Ledgers /\ write \in Writes
      BY <2>1 DEF WritePaper, TypeInv, TypeOK, Files
    <3> QED BY <3>1, PostedFields DEF FilesInv, PendingInv
  <2>2. CASE BeginSync \/ (\E q \in Proposals : Promote(q)) \/ AssignSlots
    BY <2>2 DEF BeginSync, Promote, AssignSlots
  <2>3. CASE FinalHealth \/ EndSync \/ BoundReached \/ UNCHANGED vars
    BY <2>3 DEF FinalHealth, EndSync, BoundReached, vars
  <2>4. CASE Step /\ ~WritePaper
    <3>1. write = NoWrite \/ Judge
      BY <2>4, StepCases
    <3> QED BY <3>1 DEF Judge, At
  <2>5. CASE Raise \/ Die
    <3>1. faults' = faults + 1 /\ faults \in Nat
      BY <2>5, LedgerAssumption DEF Raise, Die, Abandon, TypeInv, TypeOK
    <3> QED BY <3>1
  <2> QED BY <2>1, <2>2, <2>3, <2>4, <2>5 DEF Next
<1> QED BY <1>1, TypeInvariance, FilesInvariance, PTL DEF Spec, ExecutionHealsTheFiles
=============================================================================
