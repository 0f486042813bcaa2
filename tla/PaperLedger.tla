---------------------------- MODULE PaperLedger ----------------------------
(***************************************************************************)
(* The primary slot of the paper ledger across the syncs.  The ledger is   *)
(* kept twice, in the runtime database file and in the paper database      *)
(* file; every operation writes and commits the two files one after the    *)
(* other and then adds an audit record to the session of the sync, which   *)
(* is committed later, in a third database.  The audit records decide      *)
(* whether an operation has been done; the files decide what is held.      *)
(*                                                                         *)
(* Quantities are in lots, money in units of one lot at price 1.  The      *)
(* research part of a sync is reduced to its outcome: which strategy is    *)
(* promoted, recovered, paused or rolled back (module StrategyPool).  One  *)
(* sync stays on one calendar day, and a slot has fewer than 120 NAV rows. *)
(*                                                                         *)
(* An operator whose name ends in Bug is a plausible mistake in the        *)
(* definition that follows and is used by no specification.                *)
(***************************************************************************)
EXTENDS Integers, Sequences

CONSTANTS
  Proposals,
  SymbolOf,        \* the symbol each proposal trades
  None,            \* no proposal, no price, no record
  NoRow,           \* the slot has no paper_slot_assignments row yet
  Prices,          \* last closes and quotes
  Capital,         \* portfolio.default_capital
  SizingPercent,   \* position_sizing, between 5 and 50 percent of equity
  PausePercent,    \* governance.live_drawdown_pause
  MaxSyncs,        \* bound: number of syncs
  MaxFaults        \* bound: syncs that end in an exception or with the process

Symbols == {SymbolOf[p] : p \in Proposals}

ASSUME LedgerAssumption ==
  /\ None \notin Proposals /\ NoRow \notin Proposals /\ None # NoRow
  /\ None \notin Int
  /\ Prices \subseteq Nat \ {0}
  /\ Capital \in Nat \ {0} /\ SizingPercent \in 5..50 /\ PausePercent \in 1..100
  /\ MaxSyncs \in Nat /\ MaxFaults \in Nat

Files == {"runtime", "paper"}

VARIABLES
  file,      \* the ledger of the slot in each file
  session,   \* what the session of the running sync sees of the main database
  stored,    \* what is committed there
  stage,     \* the part of sync_agent_state that is next, or "idle"
  todo,      \* what is left of the running operation
  who,       \* the strategy it is for
  open,      \* is the market open at the time it was given?
  write,     \* the ledger rows written to the runtime file and not yet to the paper file
  day,
  syncs, faults

vars == <<file, session, stored, stage, todo, who, open, write, day, syncs, faults>>

-----------------------------------------------------------------------------
\* One file: the latest daily_nav row, what the fold over all of them gives
\* (_paper_nav_drawdown), the positions, the balance of the orders, and how many
\* snapshot rows and bootstrap orders each strategy has.

EmptyLedger ==
  [day |-> -1, cash |-> Capital, value |-> 0, peak |-> 0, fell |-> FALSE,
   qty |-> [s \in Symbols |-> 0], net |-> [s \in Symbols |-> 0],
   snaps |-> [p \in Proposals |-> 0], boots |-> [p \in Proposals |-> 0]]

OrDefault(amount) == IF amount = 0 THEN Capital ELSE amount
AtLeast(a, b) == IF b > a THEN b ELSE a

Falls(peak, equity) == (peak - equity) * 100 >= PausePercent * peak
Marked(h, equity) ==
  LET peak == AtLeast(h.peak, equity)
  IN  [peak |-> peak, fell |-> h.fell \/ Falls(peak, equity)]

\* fetch_paper_data: each table from the runtime file or, when that has no row
\* of the slot, from the paper file.
ReadNav == IF file["runtime"].day >= 0 THEN file["runtime"] ELSE file["paper"]
ReadQty(s) ==
  IF \E t \in Symbols : file["runtime"].qty[t] > 0
  THEN file["runtime"].qty[s] ELSE file["paper"].qty[s]

\* _latest_paper_nav_state: a zero reads as the default capital.
ReadCash == OrDefault(ReadNav.cash)
ReadEquity == OrDefault(ReadNav.cash + ReadNav.value)

Lots(equity, price) == AtLeast(1, ((equity * SizingPercent) \div 100) \div price)

\* The position is updated by the order instead of being replaced.
Posted_Bug(f, w) ==
  LET mark == Marked([peak |-> f.peak, fell |-> f.fell], w.cash + w.value)
      s == SymbolOf[w.by]
  IN  [day |-> w.day, cash |-> w.cash, value |-> w.value,
       peak |-> mark.peak, fell |-> mark.fell,
       qty |-> [f.qty EXCEPT ![s] = @ + w.traded],
       net |-> [f.net EXCEPT ![s] = @ + w.traded],
       snaps |-> IF w.kind = "snapshot" THEN [f.snaps EXCEPT ![w.by] = @ + 1] ELSE f.snaps,
       boots |-> IF w.kind = "bootstrap" THEN [f.boots EXCEPT ![w.by] = @ + 1] ELSE f.boots]

\* The row of a position that was sold off is not deleted.
Posted_KeepBug(f, w) ==
  LET mark == Marked([peak |-> f.peak, fell |-> f.fell], w.cash + w.value)
      s == SymbolOf[w.by]
  IN  [day |-> w.day, cash |-> w.cash, value |-> w.value,
       peak |-> mark.peak, fell |-> mark.fell,
       qty |-> IF w.moves /\ w.qty > 0 THEN [f.qty EXCEPT ![s] = w.qty] ELSE f.qty,
       net |-> [f.net EXCEPT ![s] = @ + w.traded],
       snaps |-> IF w.kind = "snapshot" THEN [f.snaps EXCEPT ![w.by] = @ + 1] ELSE f.snaps,
       boots |-> IF w.kind = "bootstrap" THEN [f.boots EXCEPT ![w.by] = @ + 1] ELSE f.boots]

\* The rows of one operation, added to a file.  A NAV row equal to the latest one
\* is not repeated, which changes none of the fields kept here.
Posted(f, w) ==
  LET mark == Marked([peak |-> f.peak, fell |-> f.fell], w.cash + w.value)
      s == SymbolOf[w.by]
  IN  [day |-> w.day, cash |-> w.cash, value |-> w.value,
       peak |-> mark.peak, fell |-> mark.fell,
       qty |-> IF w.moves THEN [f.qty EXCEPT ![s] = w.qty] ELSE f.qty,
       net |-> [f.net EXCEPT ![s] = @ + w.traded],
       snaps |-> IF w.kind = "snapshot" THEN [f.snaps EXCEPT ![w.by] = @ + 1] ELSE f.snaps,
       boots |-> IF w.kind = "bootstrap" THEN [f.boots EXCEPT ![w.by] = @ + 1] ELSE f.boots]

NoWrite == [kind |-> "none"]

Rows(kind, cash, value, moves, qty, traded) ==
  [kind |-> kind, by |-> who, day |-> day, cash |-> cash, value |-> value,
   moves |-> moves, qty |-> qty, traded |-> traded]

-----------------------------------------------------------------------------
Init ==
  /\ file = [f \in Files |-> EmptyLedger]
  /\ session = [active |-> None, seat |-> NoRow, archived |-> {}, halted |-> {},
                snap |-> {}, boot |-> {}, last |-> [p \in Proposals |-> None]]
  /\ stored = session
  /\ stage = "idle" /\ todo = <<>> /\ who = None /\ open = FALSE /\ write = NoWrite
  /\ day = 0
  /\ syncs = 0 /\ faults = 0

Start(p, steps) ==
  /\ who' = p
  /\ todo' = steps
  /\ open' \in BOOLEAN

\* evaluate_active_strategy_health works on get_active_strategy().
HealthSteps == <<"snapshot", "bootstrap", "cycle", "judge">>
StartHealth ==
  IF session.active = None
  THEN Start(None, <<>>)
  ELSE Start(session.active, HealthSteps)

\* A sync begins, on this day or the next.  With no active strategy one that was
\* promoted before is recovered; otherwise the active one may be checked.
BeginSync ==
  /\ stage = "idle" /\ syncs < MaxSyncs
  /\ syncs' = syncs + 1
  /\ day' \in {day, day + 1}
  /\ stage' = "research"
  /\ \/ StartHealth /\ UNCHANGED session
     \/ Start(None, <<>>) /\ UNCHANGED session
     \/ /\ session.active = None
        /\ \E p \in session.archived \cup session.halted :
             session' = [session EXCEPT !.active = p, !.archived = @ \ {p}]
        /\ Start(None, <<>>)
  /\ UNCHANGED <<file, stored, write, faults>>

\* A review or the swap over a mock promotes p; its predecessor is archived.
Promote(p) ==
  /\ stage = "research" /\ todo = <<>>
  /\ p # session.active /\ p \notin session.archived
  /\ session' = [session EXCEPT
       !.active = p,
       !.archived = IF session.active = None THEN @ ELSE @ \cup {session.active},
       !.halted = @ \ {p}]
  /\ stored' = session
  /\ Start(p, <<"snapshot", "bootstrap">>)
  /\ UNCHANGED <<file, stage, write, day, syncs, faults>>

\* _assign_paper_pool_slots stores the active strategy in the primary slot, but
\* the assignment it returns still holds the strategy that was loaded with the
\* row, unless the row is new: the next cycle is run for that one.
AssignSlots ==
  /\ stage = "research" /\ todo = <<>>
  /\ session' = [session EXCEPT !.seat = session.active]
  /\ stored' = session'
  /\ stage' = "paper"
  /\ LET occupant == IF session.seat = NoRow THEN session.active ELSE session.seat
     IN  IF occupant = None THEN Start(None, <<>>)
         ELSE Start(occupant, <<"snapshot", "cycle">>)
  /\ UNCHANGED <<file, write, day, syncs, faults>>

FinalHealth ==
  /\ stage = "paper" /\ todo = <<>>
  /\ stored' = session
  /\ stage' = "final"
  /\ StartHealth
  /\ UNCHANGED <<file, session, write, day, syncs, faults>>

EndSync ==
  /\ stage = "final" /\ todo = <<>>
  /\ stored' = session
  /\ stage' = "idle" /\ who' = None /\ open' = FALSE
  /\ UNCHANGED <<file, session, todo, write, day, syncs, faults>>

-----------------------------------------------------------------------------
\* The steps of an operation.

At(step) == todo # <<>> /\ write = NoWrite /\ Head(todo) = step
Pass == todo' = Tail(todo)

\* The files are written in the other order.
WriteRuntime_Bug(w) ==
  /\ write' = w
  /\ file' = [file EXCEPT !["paper"] = Posted(@, w)]
  /\ UNCHANGED <<session, stored, stage, todo, who, open, day, syncs, faults>>

\* The first of the two files is written and committed.
WriteRuntime(w) ==
  /\ write' = w
  /\ file' = [file EXCEPT !["runtime"] = Posted(@, w)]
  /\ UNCHANGED <<session, stored, stage, todo, who, open, day, syncs, faults>>

Skip ==
  /\ Pass
  /\ UNCHANGED <<file, session, stored, stage, who, open, write, day, syncs, faults>>

\* The audit record of a completed write.
Recorded(w) ==
  CASE w.kind = "snapshot"  -> [session EXCEPT !.snap = @ \cup {w.by}]
    [] w.kind = "bootstrap" -> [session EXCEPT !.boot = @ \cup {w.by}]
    [] w.kind = "cycle"     -> [session EXCEPT !.last[w.by] = w.cash + w.value]

\* Only the first file is written.
WritePaper_Bug ==
  /\ write # NoWrite
  /\ session' = Recorded(write)
  /\ write' = NoWrite
  /\ Pass
  /\ UNCHANGED <<file, stored, stage, who, open, day, syncs, faults>>

\* The second file, then the audit record.
WritePaper ==
  /\ write # NoWrite
  /\ file' = [file EXCEPT !["paper"] = Posted(@, write)]
  /\ session' = Recorded(write)
  /\ write' = NoWrite
  /\ Pass
  /\ UNCHANGED <<stored, stage, who, open, day, syncs, faults>>

\* Whether the snapshot was taken is not looked up.
InitializeSnapshot_Bug ==
  /\ At("snapshot")
  /\ WriteRuntime(Rows("snapshot", Capital, 0, FALSE, 0, 0))

InitializeSnapshot ==
  /\ At("snapshot")
  /\ IF who \in session.snap THEN Skip
     ELSE WriteRuntime(Rows("snapshot", Capital, 0, FALSE, 0, 0))

\* The first trade, from the default capital whatever the NAV says.
Bootstrap ==
  /\ At("bootstrap")
  /\ IF who \in session.boot \/ ~open THEN Skip
     ELSE \/ Skip     \* no quote
          \/ \E quote \in Prices :
               LET lots == Lots(Capital, quote)
               IN  WriteRuntime(Rows("bootstrap", AtLeast(0, Capital - lots * quote),
                                     lots * quote, TRUE, lots, lots))

CycleWithoutHistory ==
  /\ At("cycle")
  /\ session' = [session EXCEPT !.last[who] = None]
  /\ Pass
  /\ UNCHANGED <<file, stored, stage, who, open, write, day, syncs, faults>>

\* The target of a signal; min_holding_days can only turn a sale into a hold.
Target(signal, price) ==
  CASE signal = "SELL" -> 0
    [] signal = "HOLD" -> ReadQty(SymbolOf[who])
    [] signal = "BUY"  -> Lots(ReadEquity, price)

CycleOpen(signal, price) ==
  LET target == Target(signal, price)
      order == target - ReadQty(SymbolOf[who])
      cash == IF order > 0 THEN AtLeast(0, ReadCash - order * price)
              ELSE ReadCash - order * price
  IN  /\ At("cycle") /\ open
      /\ WriteRuntime(Rows("cycle", cash, target * price, TRUE, target, order))

\* The market is closed: the position is marked, and a NAV row is written when the
\* equity differs from that of the last execution or the day is new.
CycleClosed(price) ==
  LET value == ReadQty(SymbolOf[who]) * price
      before == IF session.last[who] = None THEN ReadEquity ELSE session.last[who]
  IN  /\ At("cycle") /\ ~open
      /\ IF ReadCash + value # before \/ ReadNav.day # day
         THEN WriteRuntime(Rows("cycle", ReadCash, value, FALSE, 0, 0))
         ELSE /\ session' = [session EXCEPT !.last[who] = ReadCash + value]
              /\ Pass
              /\ UNCHANGED <<file, stored, stage, who, open, write, day, syncs, faults>>

\* The drawdown check of the health evaluation; a strategy whose last decision
\* already pauses it is left alone.  Below the rollback threshold, or without a
\* previous stable strategy, the seat is left empty; retention may have archived
\* a demoted strategy and made it the previous stable one.
Judge ==
  /\ At("judge")
  /\ Pass
  /\ IF who \in session.halted \/ ~ReadNav.fell
     THEN UNCHANGED session
     ELSE \E next \in {None} \cup ((session.archived \cup session.halted) \ {who}) :
            session' = [session EXCEPT !.active = next,
                                       !.archived = @ \ {next},
                                       !.halted = @ \cup {who}]
  /\ UNCHANGED <<file, stored, stage, who, open, write, day, syncs, faults>>

-----------------------------------------------------------------------------
\* A sync that does not reach its end.

Abandon ==
  /\ stage # "idle" /\ faults < MaxFaults
  /\ faults' = faults + 1
  /\ stage' = "idle" /\ todo' = <<>> /\ write' = NoWrite
  /\ who' = None /\ open' = FALSE
  /\ UNCHANGED <<file, day, syncs>>

\* An exception, a locked file for one: the except branch commits the session.
Raise == Abandon /\ stored' = session /\ UNCHANGED session

\* The process dies: the audit records of the session go, the files stay.
Die == Abandon /\ session' = stored /\ UNCHANGED stored

\* The model's end: no sync begins any more.
BoundReached == stage = "idle" /\ syncs = MaxSyncs /\ UNCHANGED vars

Step ==
  \/ InitializeSnapshot \/ Bootstrap \/ CycleWithoutHistory \/ Judge \/ WritePaper
  \/ \E price \in Prices : CycleClosed(price) \/ \E sig \in {"BUY", "HOLD", "SELL"} :
                                                   CycleOpen(sig, price)

Next ==
  \/ BeginSync \/ (\E p \in Proposals : Promote(p)) \/ AssignSlots \/ FinalHealth \/ EndSync
  \/ Step \/ Raise \/ Die \/ BoundReached

Spec == Init /\ [][Next]_vars
-----------------------------------------------------------------------------
\* Properties.

Counts == [Proposals -> Nat]
Ledgers ==
  [day : Int, cash : Nat, value : Nat, peak : Nat, fell : BOOLEAN,
   qty : [Symbols -> Nat], net : [Symbols -> Int], snaps : Counts, boots : Counts]
Sessions ==
  [active : Proposals \cup {None}, seat : Proposals \cup {None, NoRow},
   archived : SUBSET Proposals, halted : SUBSET Proposals, snap : SUBSET Proposals,
   boot : SUBSET Proposals, last : [Proposals -> Nat \cup {None}]]
Writes ==
  [kind : {"snapshot", "bootstrap", "cycle"}, by : Proposals, day : Int,
   cash : Nat, value : Nat, moves : BOOLEAN, qty : Nat, traded : Int]

\* Every variable has its type; cash and positions never go negative.
TypeOK ==
  /\ file \in [Files -> Ledgers]
  /\ session \in Sessions /\ stored \in Sessions
  /\ stage \in {"idle", "research", "paper", "final"}
  /\ todo \in Seq({"snapshot", "bootstrap", "cycle", "judge"})
  /\ who \in Proposals \cup {None}
  /\ open \in BOOLEAN
  /\ write \in Writes \cup {NoWrite}
  /\ day \in Nat
  /\ syncs \in Nat /\ faults \in 0..MaxFaults

Held(f, kind) == IF kind = "snapshot" THEN file[f].snaps ELSE file[f].boots
Recordeds(s, kind) == IF kind = "snapshot" THEN s.snap ELSE s.boot

\* A committed audit record of a snapshot or a first trade is true of both files,
\* wherever a sync was cut off: the operation it stands for is never repeated, so
\* what it left out would never be written.
AuditMeansWritten ==
  \A kind \in {"snapshot", "bootstrap"} : \A p \in Recordeds(stored, kind) :
    \A f \in Files : Held(f, kind)[p] > 0

\* The paper file never holds a snapshot row or a first trade that the runtime
\* file, which is read first, does not hold.
RuntimeFileLeads ==
  \A kind \in {"snapshot", "bootstrap"} : \A p \in Proposals :
    Held("paper", kind)[p] <= Held("runtime", kind)[p]

\* A strategy gets its snapshot row and its first trade once; every repetition
\* takes one more sync that was cut off between the ledger and its audit record.
OnceUnlessCutOff ==
  \A kind \in {"snapshot", "bootstrap"} : \A p \in Proposals :
    Held("runtime", kind)[p] <= 1 + faults

\* As long as no sync was cut off, the two files are the same between two writes:
\* a reader of either file sees the same ledger.
FilesAgree == faults = 0 /\ write = NoWrite => file["runtime"] = file["paper"]

\* docs/ARCHITECTURE.md:51: execution is long-only, so as long as no sync was cut off
\* the slot never sells more of a symbol than it bought, whoever inherits a position
\* and whatever snapshots and first trades come in between.
SalesAreCovered == faults = 0 => \A s \in Symbols : file["runtime"].net[s] >= 0

\* An execution with the market open leaves the two files with the same cash and
\* the same position in its symbol, however far apart earlier faults left them.
ExecutionHealsTheFiles ==
  [][write # NoWrite /\ write' = NoWrite /\ write.kind = "cycle" /\ write.moves
     /\ faults' = faults
     => /\ file'["runtime"].cash = file'["paper"].cash
        /\ \A s \in {SymbolOf[write.by]} : file'["runtime"].qty[s] = file'["paper"].qty[s]]_vars
=============================================================================
