------------------------- MODULE StrategyPoolProofs -------------------------
(***************************************************************************)
(* The strategy pool for every set of proposals, symbols, batches, reviews *)
(* and thresholds: types, the single active strategy, and the merit of     *)
(* whatever can become active.                                             *)
(***************************************************************************)
EXTENDS StrategyPool, TLAPS

-----------------------------------------------------------------------------
\* Lemmas about the promotion rule.

\* The decision is one of the three statuses a review can give.
LEMMA StatusType ==
  ASSUME NEW r, NEW a, NEW m, NEW d
  PROVE  GovernanceStatus(r, a, m, d) \in {"ACTIVE", "CANDIDATE", "REJECTED"}
BY DEF GovernanceStatus

\* Only the promotion rule makes a proposal active.
LEMMA ActiveMeansAllowed ==
  ASSUME NEW r, NEW a, NEW m, NEW d, GovernanceStatus(r, a, m, d) = "ACTIVE"
  PROVE  PromoteAllowed(r, a, m, d)
<1>1. CASE CandidateAllowed(r)  BY <1>1 DEF GovernanceStatus
<1>2. CASE ~CandidateAllowed(r) BY <1>2 DEF GovernanceStatus
<1> QED BY <1>1, <1>2

\* The phase the decision records agrees with the status.
LEMMA PhaseOfStatus ==
  ASSUME NEW s \in {"ACTIVE", "CANDIDATE", "REJECTED"}, NEW a, NEW d
  PROVE  /\ LifecyclePhase(s, a, d) \in {"promotion_ready", "rejected",
                                         "candidate_cooldown", "candidate_watch"}
         /\ LifecyclePhase(s, a, d) = "rejected" <=> s = "REJECTED"
<1>1. CASE s = "ACTIVE"    BY <1>1 DEF LifecyclePhase
<1>2. CASE s = "REJECTED"  BY <1>2 DEF LifecyclePhase
<1>3. CASE s = "CANDIDATE" BY <1>3 DEF LifecyclePhase
<1> QED BY <1>1, <1>2, <1>3

\* A strategy promoted today from the same provider cannot be challenged: its
\* cooldown has a day to run at least, and the exception for mocks needs a
\* newcomer of another source.
LEMMA NoSecondPromotion ==
  ASSUME NEW r, NEW a, NEW m, NEW d \in Int,
         a # NoActive, a.source = r.source, a.promotedDay = d
  PROVE  GovernanceStatus(r, a, m, d) # "ACTIVE"
<1>1. CooldownRemaining(a, d) = CooldownDays /\ CooldownDays > 0
  BY GovernanceAssumption DEF CooldownRemaining
<1>2. ~ReplacingMockActive(r, a)
  BY DEF ReplacingMockActive
<1>3. ~CanChallengeActive(r, a, d)
  BY <1>1, <1>2, GovernanceAssumption DEF CanChallengeActive
<1> QED BY <1>3, ActiveMeansAllowed DEF PromoteAllowed

-----------------------------------------------------------------------------
\* Lemmas about tables of rows.

LEMMA ArchiveType ==
  ASSUME NEW P \in [Proposals -> Row], NEW S
  PROVE  Archive(P, S) \in [Proposals -> Row]
BY DEF Archive, Row

LEMMA ArchiveActives ==
  ASSUME NEW P \in [Proposals -> Row], NEW S
  PROVE  Actives(Archive(P, S)) = Actives(P) \ S
BY DEF Archive, Actives, WithStatus, Row

LEMMA DecidedType ==
  ASSUME NEW row \in Row, NEW phase \in Phases, NEW stamp \in Stamps, NEW wins \in BOOLEAN
  PROVE  Decided(row, phase, stamp, wins) \in Row
BY DEF Decided, Row

LEMMA DecidedKeeps ==
  ASSUME NEW row \in Row, NEW phase, NEW stamp, NEW wins
  PROVE  LET r == Decided(row, phase, stamp, wins) IN
         /\ r.status = row.status /\ r.score = row.score /\ r.symbol = row.symbol
         /\ r.source = row.source /\ r.promotedAt = row.promotedAt
         /\ r.phase \in {row.phase, phase}
BY DEF Decided, Row

LEMMA RowUpdates ==
  ASSUME NEW row \in Row, NEW stamp \in Stamps
  PROVE  /\ \A st \in {"ACTIVE", "CANDIDATE", "ARCHIVED"} : [row EXCEPT !.status = st] \in Row
         /\ [row EXCEPT !.status = "ACTIVE", !.promotedAt = stamp] \in Row
BY DEF Row

LEMMA StampType ==
  ASSUME day \in Nat, tick \in Nat, NEW n \in Nat
  PROVE  Stamp(n) \in Stamps /\ Stamp(n) # Never /\ Stamp(n).day = day
BY DEF Stamp, Stamps, Never

LEMMA VacantType == Vacant \in Row /\ Never \in Stamps
BY DEF Vacant, Row, Stamps, Phases, Never

LEMMA ActiveStrategyType ==
  ASSUME NEW P, NEW a \in ActiveStrategy(P)
  PROVE  /\ a \in Proposals \cup {None}
         /\ a = None => Actives(P) = {}
         /\ a # None => a \in Actives(P)
BY PoolAssumption DEF ActiveStrategy, LatestPromoted, Actives, WithStatus

\* The active strategy of a table with one ACTIVE row at most is that row.
LEMMA OneActiveSeat ==
  ASSUME NEW P, OneActive(P), NEW a \in ActiveStrategy(P)
  PROVE  Actives(P) \subseteq {a}
BY ActiveStrategyType DEF OneActive

-----------------------------------------------------------------------------
\* Types.

LEMMA HealthType ==
  ASSUME TypeOK, NEW drawdown, EvaluateHealth(drawdown)
  PROVE  pool' \in [Proposals -> Row]
<1> USE DEF TypeOK
<1>1. PICK a \in ActiveStrategy(pool) :
        \/ pool' = pool
        \/ \E s \in LatestPromoted(pool, PreviousStable(pool, a)) : a # None /\ RollbackTo(a, s)
        \/ a # None /\ PauseActive(a)
  BY DEF EvaluateHealth
<1>2. Stamp(0) \in Stamps
  BY StampType
<1>3. CASE pool' = pool
  BY <1>3
<1>4. CASE a # None /\ PauseActive(a)
  <2>1. a \in Proposals
    BY <1>4, ActiveStrategyType
  <2>2. PICK wins \in BOOLEAN :
          pool' = [pool EXCEPT ![a] = Decided([pool[a] EXCEPT !.status = "CANDIDATE"],
                                              "paused_pending_review", Stamp(0), wins)]
    BY <1>4 DEF PauseActive
  <2>3. [pool[a] EXCEPT !.status = "CANDIDATE"] \in Row
    BY <1>2, <2>1, RowUpdates
  <2>4. Decided([pool[a] EXCEPT !.status = "CANDIDATE"],
                "paused_pending_review", Stamp(0), wins) \in Row
    BY <1>2, <2>3, DecidedType DEF Phases
  <2> QED BY <2>1, <2>2, <2>4
<1>5. ASSUME NEW s \in LatestPromoted(pool, PreviousStable(pool, a)), a # None, RollbackTo(a, s)
      PROVE  pool' \in [Proposals -> Row]
  <2>1. a \in Proposals /\ s \in Proposals
    BY <1>5, ActiveStrategyType DEF LatestPromoted, PreviousStable, WithStatus
  <2>2. PICK wins \in BOOLEAN :
          pool' = [pool EXCEPT
            ![a] = Decided([pool[a] EXCEPT !.status = "CANDIDATE"], "rolled_back", Stamp(0), wins),
            ![s] = [@ EXCEPT !.status = "ACTIVE", !.promotedAt = Stamp(0)]]
    BY <1>5 DEF RollbackTo
  <2> DEFINE lowered == Decided([pool[a] EXCEPT !.status = "CANDIDATE"],
                                "rolled_back", Stamp(0), wins)
  <2>3. [pool[a] EXCEPT !.status = "CANDIDATE"] \in Row
    BY <1>2, <2>1, RowUpdates
  <2>4. lowered \in Row
    BY <1>2, <2>3, DecidedType DEF Phases
  <2> HIDE DEF lowered
  <2>5. [pool EXCEPT ![a] = lowered] \in [Proposals -> Row]
    BY <2>1, <2>4
  <2>6. \A r \in Row : [r EXCEPT !.status = "ACTIVE", !.promotedAt = Stamp(0)] \in Row
    BY <1>2, RowUpdates
  <2> QED BY <2>1, <2>2, <2>5, <2>6 DEF lowered
<1> QED BY <1>1, <1>3, <1>4, <1>5

LEMMA OverType ==
  ASSUME TypeOK, Over
  PROVE  /\ pc' = "idle" /\ day' \in Nat /\ tick' \in Nat
         /\ batch' \in Seq(Symbols) /\ turn' \in Nat \ {0} /\ turn' = 1
         /\ force' \in BOOLEAN /\ macro' \in BOOLEAN
         /\ prev' = None /\ promoted' = None /\ source' = "none" /\ count' \in Nat
         /\ born' \subseteq Proposals /\ recast' \in [id : Proposals \cup {None}, phase : Phases]
<1>1. day' \in Nat /\ tick' \in Nat
  <2>1. Len(batch) \in Nat
    BY DEF TypeOK
  <2> QED BY <2>1, PoolAssumption DEF TypeOK, Over
<1>2. recast' \in [id : Proposals \cup {None}, phase : Phases]
  BY DEF Over, NotRecast, Phases
<1>3. <<>> \in Seq(Symbols)
  OBVIOUS
<1>4. /\ pc' = "idle" /\ batch' = <<>> /\ turn' = 1 /\ force' = FALSE /\ macro' = FALSE
      /\ prev' = None /\ promoted' = None /\ source' = "none" /\ count' = 0 /\ born' = {}
  BY DEF Over
<1>5. force' \in BOOLEAN /\ macro' \in BOOLEAN
  BY <1>4, Zenon
<1>6. batch' \in Seq(Symbols)
  BY <1>3, <1>4
<1>7. turn' \in Nat \ {0} /\ count' \in Nat /\ born' \subseteq Proposals
  BY <1>4
<1> QED BY <1>1, <1>2, <1>4, <1>5, <1>6, <1>7, Zenon

LEMMA InsertType ==
  ASSUME TypeOK, NEW p \in Proposals, NEW review \in Reviews, Insert(p, review)
  PROVE  TypeOK'
<1> DEFINE status == GovernanceStatus(review, Incumbent, macro, day)
           phase == LifecyclePhase(status, Incumbent, day)
<1>1. status \in {"ACTIVE", "CANDIDATE", "REJECTED"}
  BY StatusType
<1>2. phase \in Phases
  BY <1>1, PhaseOfStatus DEF Phases
<1>3. batch[turn] \in Symbols
  BY DEF TypeOK, Insert
<1>4. Stamp(turn) \in Stamps
  BY StampType DEF TypeOK
<1>5. /\ review.source \in {"mock", "minimax"}
      /\ review.score \in Int
  BY PoolAssumption
<1> DEFINE row == [status |-> status, symbol |-> batch[turn],
                   source |-> review.source, score |-> review.score,
                   createdAt |-> Stamp(turn),
                   promotedAt |-> IF status = "ACTIVE" THEN Stamp(turn) ELSE Never,
                   phase |-> phase, decidedAt |-> Stamp(turn)]
<1>6. pool' = [pool EXCEPT ![p] = row]
  BY DEF Insert
<1>7. promoted' \in {p, promoted} /\ count' = count + 1 /\ born' = born \cup {p}
      /\ source' = review.source
  BY DEF Insert
<1> HIDE DEF status, phase
<1>8. row \in Row
  BY <1>1, <1>2, <1>3, <1>4, <1>5, VacantType DEF Row
<1> HIDE DEF row
<1>9. pool' \in [Proposals -> Row]
  BY <1>6, <1>8 DEF TypeOK
<1>10. UNCHANGED <<db, pc, timeVars, prev, batch, turn, force, macro, recast>>
  BY DEF Insert
<1> QED BY <1>5, <1>7, <1>9, <1>10 DEF TypeOK, timeVars

LEMMA TriageType ==
  ASSUME TypeOK, TriageForced \/ TriageRecover \/ TriageHealth \/ TriageEmpty
  PROVE  TypeOK'
<1> USE DEF TypeOK, timeVars, callVars, syncVars
<1>1. Scoped \in [Proposals -> Row]
  BY ArchiveType DEF Scoped
<1>2. CASE TriageForced
  <2>1. pool' \in [Proposals -> Row]
    BY <1>1, <1>2, ArchiveType DEF TriageForced
  <2> QED BY <1>2, <2>1 DEF TriageForced
<1>3. CASE TriageRecover
  <2>1. pool' \in [Proposals -> Row]
    <3>1. CASE pool' = Archive(Scoped, Open(Scoped))
      BY <1>1, <3>1, ArchiveType
    <3>2. CASE \E p \in Proposals : pool' = [Scoped EXCEPT ![p].status = "ACTIVE"]
      <4>1. PICK p \in Proposals : pool' = [Scoped EXCEPT ![p].status = "ACTIVE"]
        BY <3>2
      <4>2. [Scoped[p] EXCEPT !.status = "ACTIVE"] \in Row
        BY <1>1, VacantType, RowUpdates
      <4> QED BY <1>1, <4>1, <4>2
    <3> QED BY <1>3, <3>1, <3>2 DEF TriageRecover, LatestPromoted, Real
  <2>2. prev' \in Proposals \cup {None}
    BY <1>3, ActiveStrategyType DEF TriageRecover
  <2> QED BY <1>3, <2>1, <2>2 DEF TriageRecover
<1>4. CASE TriageHealth
  BY <1>1, <1>4 DEF TriageHealth, Commit
<1>5. CASE TriageEmpty
  BY <1>1, <1>5 DEF TriageEmpty
<1> QED BY <1>2, <1>3, <1>4, <1>5

LEMMA PromoteType ==
  ASSUME TypeOK, PromoteExisting
  PROVE  TypeOK'
<1> USE DEF TypeOK, timeVars, callVars
<1>1. /\ pool' \in [Proposals -> Row]
      /\ prev' \in Proposals \cup {None}
      /\ recast' \in [id : Proposals \cup {None}, phase : Phases]
  <2>1. CASE Challengers # {}
    <3>1. PICK c \in Challengers, wins \in BOOLEAN :
            /\ pool' = [pool EXCEPT
                 ![prev].status = "ARCHIVED",
                 ![c] = Decided([@ EXCEPT !.status = "ACTIVE", !.promotedAt = Stamp(0)],
                                "promotion_ready", Stamp(0), wins)]
            /\ recast' = [id |-> c, phase |-> pool[c].phase]
            /\ prev' = c
      BY <2>1 DEF PromoteExisting
    <3>2. prev \in Proposals /\ c \in Proposals
      BY <2>1 DEF Challengers, WithStatus
    <3> DEFINE mid == [pool EXCEPT ![prev].status = "ARCHIVED"]
    <3>3. mid \in [Proposals -> Row]
      <4>1. [pool[prev] EXCEPT !.status = "ARCHIVED"] \in Row
        BY <3>2, VacantType, RowUpdates
      <4> QED BY <3>2, <4>1
    <3>4. pool' = [mid EXCEPT
                     ![c] = Decided([@ EXCEPT !.status = "ACTIVE", !.promotedAt = Stamp(0)],
                                    "promotion_ready", Stamp(0), wins)]
      BY <3>1
    <3> HIDE DEF mid
    <3>5. Stamp(0) \in Stamps
      BY StampType
    <3>6. [mid[c] EXCEPT !.status = "ACTIVE", !.promotedAt = Stamp(0)] \in Row
      BY <3>2, <3>3, <3>5, RowUpdates
    <3>7. Decided([mid[c] EXCEPT !.status = "ACTIVE", !.promotedAt = Stamp(0)],
                  "promotion_ready", Stamp(0), wins) \in Row
      BY <3>5, <3>6, DecidedType DEF Phases
    <3>8. pool' \in [Proposals -> Row]
      BY <3>2, <3>3, <3>4, <3>7
    <3>9. recast' \in [id : Proposals \cup {None}, phase : Phases]
      <4>1. pool[c].phase \in Phases
        BY <3>2 DEF Row
      <4> QED BY <3>1, <3>2, <4>1
    <3> QED BY <3>1, <3>2, <3>8, <3>9
  <2>2. CASE Challengers = {}
    BY <2>2 DEF PromoteExisting
  <2> QED BY <2>1, <2>2
<1>2. pc = "promote" /\ pc' = "assign"
      /\ UNCHANGED <<db, timeVars, callVars, batch, turn, force, macro, born>>
  BY DEF PromoteExisting
<1> QED BY <1>1, <1>2

\* Every variable keeps its type, for every instance of the constants.
THEOREM TypeInvariant == Spec => []TypeOK
<1>1. Init => TypeOK
  <2> SUFFICES ASSUME Init PROVE TypeOK
    OBVIOUS
  <2>1. pool \in [Proposals -> Row] /\ db \in [Proposals -> Row]
    BY VacantType DEF Init
  <2>2. batch \in Seq(Symbols) /\ turn \in Nat \ {0} /\ turn = 1 /\ count \in Nat
    BY DEF Init
  <2>3. force \in BOOLEAN /\ macro \in BOOLEAN
    BY Zenon DEF Init
  <2>4. recast \in [id : Proposals \cup {None}, phase : Phases]
    BY DEF Init, NotRecast, Phases
  <2>5. /\ pc = "idle" /\ day \in Nat /\ tick \in Nat /\ prev = None /\ promoted = None
        /\ source = "none" /\ born \subseteq Proposals
    BY DEF Init
  <2> QED BY <2>1, <2>2, <2>3, <2>4, <2>5, Zenon DEF TypeOK
<1>2. TypeOK /\ [Next]_vars => TypeOK'
  <2> SUFFICES ASSUME TypeOK, [Next]_vars PROVE TypeOK'
    OBVIOUS
  <2>1. ASSUME NEW b \in Batches, Begin(b) PROVE TypeOK'
    <3>1. b \in Seq(Symbols) /\ 1 <= Len(b)
      BY PoolAssumption
    <3>2. prev' \in Proposals \cup {None}
      BY <2>1, ActiveStrategyType DEF Begin
    <3>3. turn = 1
      BY <2>1 DEF TypeOK, Begin
    <3> QED BY <2>1, <3>1, <3>2, <3>3 DEF TypeOK, Begin, timeVars, callVars
  <2>2. CASE TriageForced \/ TriageRecover \/ TriageHealth \/ TriageEmpty
    BY <2>2, TriageType
  <2>3. ASSUME NEW drawdown \in Drawdowns, HealthFirst(drawdown) PROVE TypeOK'
    <3>1. pool' \in [Proposals -> Row]
      BY <2>3, HealthType DEF HealthFirst
    <3>2. prev' \in Proposals \cup {None}
      BY <2>3, ActiveStrategyType DEF HealthFirst
    <3> QED BY <2>3, <3>1, <3>2 DEF TypeOK, HealthFirst, timeVars, callVars, syncVars
  <2>4. ASSUME NEW drawdown \in Drawdowns, HealthLast(drawdown) PROVE TypeOK'
    <3>1. pool' \in [Proposals -> Row]
      BY <2>4, HealthType DEF HealthLast
    <3> QED BY <2>4, <3>1 DEF TypeOK, HealthLast, timeVars, callVars, syncVars
  <2>5. CASE Agents
    BY <2>5 DEF TypeOK, Agents, Commit, timeVars, callVars, syncVars
  <2>6. ASSUME NEW p \in Proposals, NEW review \in Reviews, Insert(p, review) PROVE TypeOK'
    BY <2>6, InsertType
  <2>7. CASE FinishSymbol
    <3>1. pool' \in [Proposals -> Row]
      BY <2>7, ArchiveType DEF TypeOK, FinishSymbol
    <3>2. prev' \in Proposals \cup {None}
      BY <2>7, ActiveStrategyType DEF FinishSymbol
    <3>3. turn' \in Nat \ {0} /\ turn' <= Len(batch)
      <4>1. turn <= Len(batch) /\ turn \in Nat \ {0} /\ Len(batch) \in Nat
        BY <2>7 DEF TypeOK, FinishSymbol
      <4> QED BY <2>7, <4>1 DEF FinishSymbol
    <3> QED BY <2>7, <3>1, <3>2, <3>3 DEF TypeOK, FinishSymbol, Commit, timeVars
  <2>8. CASE Prune
    <3>1. pool' \in [Proposals -> Row]
      BY <2>8, ArchiveType DEF TypeOK, Prune
    <3> QED BY <2>8, <3>1 DEF TypeOK, Prune, timeVars, callVars, syncVars
  <2>9. CASE PruneRaises
    <3>1. pool' \in [Proposals -> Row]
      BY <2>9, ArchiveType DEF TypeOK, PruneRaises
    <3> QED BY <2>9, <3>1 DEF TypeOK, PruneRaises, timeVars, callVars, syncVars
  <2>10. CASE PromoteExisting
    BY <2>10, PromoteType
  <2>11. CASE AssignSlots
    BY <2>11 DEF TypeOK, AssignSlots, Commit, timeVars, callVars, syncVars
  <2>12. CASE Finish \/ FailCommitting \/ LoseSession
    <3>1. Over
      BY <2>12 DEF Finish, FailCommitting, LoseSession
    <3>2. db' \in [Proposals -> Row] /\ pool' \in [Proposals -> Row]
      BY <2>12 DEF TypeOK, Finish, FailCommitting, LoseSession, Commit
    <3> HIDE DEF Over
    <3> QED BY <3>1, <3>2, OverType, Zenon DEF TypeOK
  <2>13. CASE BoundReached \/ UNCHANGED vars
    BY <2>13 DEF TypeOK, BoundReached, vars, timeVars, callVars, syncVars
  <2> QED
    BY <2>1, <2>2, <2>3, <2>4, <2>5, <2>6, <2>7, <2>8, <2>9, <2>10, <2>11, <2>12, <2>13
    DEF Next
<1> QED BY <1>1, <1>2, PTL DEF Spec

-----------------------------------------------------------------------------
\* At most one active strategy.

LEMMA HealthSeat ==
  ASSUME TypeOK, OneActive(pool), NEW drawdown, EvaluateHealth(drawdown)
  PROVE  OneActive(pool')
<1>1. PICK a \in ActiveStrategy(pool) :
        \/ pool' = pool
        \/ \E s \in LatestPromoted(pool, PreviousStable(pool, a)) : a # None /\ RollbackTo(a, s)
        \/ a # None /\ PauseActive(a)
  BY DEF EvaluateHealth
<1>2. Actives(pool) \subseteq {a} /\ (a # None => a \in Proposals)
  BY OneActiveSeat, ActiveStrategyType DEF OneActive
<1>3. \A wins, phase : \A p \in Proposals :
        Decided([pool[p] EXCEPT !.status = "CANDIDATE"], phase, Stamp(0), wins).status = "CANDIDATE"
  <2> TAKE wins, phase
  <2> TAKE p \in Proposals
  <2>1. pool[p] \in Row
    BY DEF TypeOK
  <2>2. [pool[p] EXCEPT !.status = "CANDIDATE"] \in Row
    BY <2>1, VacantType, RowUpdates
  <2>3. [pool[p] EXCEPT !.status = "CANDIDATE"].status = "CANDIDATE"
    BY <2>1 DEF Row
  <2> DEFINE row == [pool[p] EXCEPT !.status = "CANDIDATE"]
  <2>4. row \in Row /\ row.status = "CANDIDATE"
    BY <2>2, <2>3
  <2> HIDE DEF row
  <2>5. Decided(row, phase, Stamp(0), wins).status = row.status
    BY <2>4, DecidedKeeps
  <2> QED BY <2>4, <2>5 DEF row
<1>4. CASE pool' = pool
  BY <1>4 DEF OneActive, Actives, WithStatus
<1>5. CASE a # None /\ PauseActive(a)
  <2>1. pool'[a].status = "CANDIDATE"
    <3>1. PICK wins \in BOOLEAN : pool' = [pool EXCEPT ![a] =
            Decided([pool[a] EXCEPT !.status = "CANDIDATE"], "paused_pending_review",
                    Stamp(0), wins)]
      BY <1>5 DEF PauseActive
    <3>2. a \in Proposals /\ a \in DOMAIN pool
      BY <1>2, <1>5 DEF TypeOK
    <3> DEFINE row == Decided([pool[a] EXCEPT !.status = "CANDIDATE"],
                              "paused_pending_review", Stamp(0), wins)
    <3>3. row.status = "CANDIDATE"
      BY <1>3, <3>2
    <3>4. pool' = [pool EXCEPT ![a] = row]
      BY <3>1
    <3> HIDE DEF row
    <3> QED BY <3>2, <3>3, <3>4
  <2>2. \A p \in Proposals \ {a} : pool'[p] = pool[p]
    BY <1>5 DEF PauseActive, TypeOK
  <2> QED BY <1>2, <2>1, <2>2 DEF OneActive, Actives, WithStatus
<1>6. ASSUME NEW s \in LatestPromoted(pool, PreviousStable(pool, a)), a # None, RollbackTo(a, s)
      PROVE  OneActive(pool')
  <2>1. s \in Proposals /\ s # a
    BY DEF LatestPromoted, PreviousStable, WithStatus
  <2>2. pool'[a].status = "CANDIDATE"
    BY <1>2, <1>3, <1>6, <2>1 DEF RollbackTo, TypeOK
  <2>3. \A p \in Proposals \ {a, s} : pool'[p] = pool[p]
    BY <1>6 DEF RollbackTo, TypeOK
  <2>4. Actives(pool') \subseteq {s}
    BY <1>2, <2>2, <2>3 DEF Actives, WithStatus
  <2> QED BY <2>4 DEF OneActive
<1> QED BY <1>1, <1>4, <1>5, <1>6

\* The status of a blueprint of a call that has promoted one already.
LEMMA SecondBlueprint ==
  ASSUME TypeOK, SwapInProgress, promoted # None, NEW review \in Reviews,
         source \in {"none", review.source}
  PROVE  GovernanceStatus(review, Incumbent, macro, day) # "ACTIVE"
<1>1. /\ promoted \in Proposals
      /\ pool[promoted].source = review.source /\ review.source \in {"mock", "minimax"}
      /\ pool[promoted].promotedAt.day = day
  BY PoolAssumption DEF TypeOK, SwapInProgress
<1>2. Incumbent = [source |-> pool[promoted].source, score |-> pool[promoted].score,
                   promotedDay |-> pool[promoted].promotedAt.day]
  BY DEF Incumbent, Context
<1>3. Incumbent.source = review.source /\ Incumbent.promotedDay = day /\ Incumbent # NoActive
  BY <1>1, <1>2 DEF NoActive
<1>4. day \in Int
  BY DEF TypeOK
<1> QED BY <1>3, <1>4, NoSecondPromotion

LEMMA InsertSeat ==
  ASSUME TypeOK, SeatInv, NEW p \in Proposals, NEW review \in Reviews, Insert(p, review)
  PROVE  SeatInv'
<1> DEFINE status == GovernanceStatus(review, Incumbent, macro, day)
<1>1. /\ p \in Free(pool) /\ pc = "symbol" /\ pc' = pc /\ prev' = prev /\ db' = db
      /\ source \in {"none", review.source} /\ source' = review.source /\ day' = day
      /\ promoted' = IF status = "ACTIVE" THEN p ELSE promoted
  BY DEF Insert, timeVars
<1>2. /\ pool'[p].status = status
      /\ pool'[p].source = review.source
      /\ pool'[p].promotedAt = IF status = "ACTIVE" THEN Stamp(turn) ELSE Never
      /\ \A q \in Proposals \ {p} : pool'[q] = pool[q]
  BY DEF Insert, TypeOK
<1>3. p \notin Actives(pool)
  BY <1>1 DEF Free, Actives, WithStatus
<1>4. Stamp(turn).day = day
  BY DEF Stamp
<1>5. review.source \in {"mock", "minimax"}
  BY PoolAssumption
<1>6. Actives(pool) \subseteq {prev, promoted}
  BY <1>1 DEF SeatInv, PreviousActiveTracked
<1>7. status = "ACTIVE" => promoted = None
  BY <1>1, SecondBlueprint DEF SeatInv
<1> HIDE DEF status
<1>8. AtMostOneActive'
  BY <1>1 DEF SeatInv, AtMostOneActive
<1>9. CASE status = "ACTIVE"
  <2>1. promoted' = p /\ p # None
    BY <1>1, <1>9, PoolAssumption
  <2>2. Actives(pool') \subseteq {prev, p}
    BY <1>2, <1>6, <1>7, <1>9, PoolAssumption DEF Actives, WithStatus
  <2>3. SwapInProgress'
    BY <1>1, <1>2, <1>4, <1>5, <1>9, <2>1 DEF SwapInProgress
  <2>4. PreviousActiveTracked'
    BY <1>1, <2>1, <2>2 DEF PreviousActiveTracked
  <2> QED BY <1>8, <2>1, <2>3, <2>4 DEF SeatInv
<1>10. CASE status # "ACTIVE"
  <2>1. promoted' = promoted
    BY <1>1, <1>10
  <2>2. Actives(pool') = Actives(pool)
    BY <1>2, <1>3, <1>10 DEF Actives, WithStatus
  <2>3. promoted = None => OneActive(pool')
    BY <2>2 DEF SeatInv, OneActive
  <2>4. promoted # None => /\ promoted \in Actives(pool) /\ promoted # p
                           /\ pool'[promoted] = pool[promoted]
    BY <1>2, <1>3 DEF SeatInv, SwapInProgress, TypeOK, Actives, WithStatus
  <2>5. promoted # None => source' = source
    BY <1>1 DEF SeatInv, SwapInProgress
  <2>6. SwapInProgress'
    BY <1>1, <2>1, <2>4, <2>5 DEF SeatInv, SwapInProgress
  <2>7. PreviousActiveTracked'
    BY <1>1, <1>6, <2>1, <2>2 DEF PreviousActiveTracked
  <2> QED BY <1>8, <2>1, <2>3, <2>6, <2>7 DEF SeatInv
<1> QED BY <1>9, <1>10

LEMMA FinishSymbolSeat ==
  ASSUME TypeOK, SeatInv, FinishSymbol
  PROVE  SeatInv'
<1>1. pc = "symbol" /\ promoted' = None /\ db' = pool'
  BY DEF FinishSymbol, Commit
<1>2. Actives(pool) \subseteq {prev, promoted}
  BY <1>1 DEF SeatInv, PreviousActiveTracked
<1>3. OneActive(pool')
  <2>1. CASE promoted = None
    <3>1. pool' = pool
      BY <2>1 DEF FinishSymbol
    <3> QED BY <2>1, <3>1 DEF SeatInv, OneActive, Actives, WithStatus
  <2>2. CASE promoted # None /\ prev # None
    <3>1. pool' = Archive(pool, {prev})
      BY <2>2 DEF FinishSymbol
    <3>2. Actives(pool') = Actives(pool) \ {prev}
      BY <3>1, ArchiveActives DEF TypeOK
    <3> QED BY <1>2, <3>2 DEF OneActive
  <2>3. CASE promoted # None /\ prev = None
    <3>1. pool' = pool
      BY <2>3 DEF FinishSymbol
    <3>2. Actives(pool) \subseteq {promoted}
      BY <1>2, <2>3, PoolAssumption DEF Actives, WithStatus
    <3> QED BY <3>1, <3>2 DEF OneActive
  <2> QED BY <2>1, <2>2, <2>3
<1>4. Actives(pool') \subseteq {prev'}
  <2>1. prev' \in ActiveStrategy(pool')
    BY DEF FinishSymbol
  <2> QED BY <1>3, <2>1, OneActiveSeat
<1>5. OneActive(db')
  BY <1>1, <1>3
<1> QED
  BY <1>1, <1>3, <1>4, <1>5
  DEF SeatInv, AtMostOneActive, PreviousActiveTracked, SwapInProgress

LEMMA TriageSeat ==
  ASSUME TypeOK, SeatInv, TriageForced \/ TriageRecover \/ TriageHealth \/ TriageEmpty
  PROVE  SeatInv'
<1> USE DEF callVars
<1>1. /\ promoted = None /\ Actives(pool) \subseteq {prev, promoted}
      /\ OneActive(pool) /\ OneActive(db)
  BY DEF TriageForced, TriageRecover, TriageHealth, TriageEmpty, SeatInv,
         PreviousActiveTracked, SwapInProgress, AtMostOneActive
<1>2. Actives(pool) \subseteq {prev}
  BY <1>1, PoolAssumption DEF Actives, WithStatus
<1>3. Scoped \in [Proposals -> Row] /\ Actives(Scoped) \subseteq Actives(pool)
  BY ArchiveType, ArchiveActives DEF Scoped, TypeOK
<1>4. promoted' = None
  BY <1>1 DEF TriageForced, TriageRecover, TriageHealth, TriageEmpty
<1>5. SUFFICES /\ OneActive(db') /\ OneActive(pool')
               /\ pc' # "health" => Actives(pool') \subseteq {prev'}
  BY <1>4 DEF SeatInv, AtMostOneActive, PreviousActiveTracked, SwapInProgress,
              TriageForced, TriageRecover, TriageHealth, TriageEmpty
<1>6. CASE TriageForced \/ TriageEmpty
  <2>1. Actives(pool') \subseteq Actives(Scoped)
    BY <1>3, <1>6, ArchiveActives DEF TriageForced, TriageEmpty
  <2>2. prev' = prev /\ db' = db
    BY <1>6 DEF TriageForced, TriageEmpty
  <2> QED BY <1>1, <1>2, <1>3, <2>1, <2>2 DEF OneActive
<1>7. CASE TriageRecover
  <2>1. Actives(Scoped) = {}
    BY <1>2, <1>3, <1>7, PoolAssumption DEF TriageRecover, Actives, WithStatus
  <2>2. CASE pool' = Archive(Scoped, Open(Scoped)) /\ prev' = None
    <3>1. Actives(pool') = {}
      BY <1>3, <2>1, <2>2, ArchiveActives
    <3> QED BY <1>1, <1>7, <3>1 DEF OneActive, TriageRecover
  <2>3. CASE /\ \E p \in Proposals : pool' = [Scoped EXCEPT ![p].status = "ACTIVE"]
             /\ prev' \in ActiveStrategy(pool')
    <3>1. PICK p \in Proposals : pool' = [Scoped EXCEPT ![p].status = "ACTIVE"]
      BY <2>3
    <3>2. \A q \in Proposals \ {p} : pool'[q] = Scoped[q]
      BY <1>3, <3>1
    <3>3. Actives(pool') \subseteq {p}
      BY <2>1, <3>2 DEF Actives, WithStatus
    <3>4. OneActive(pool')
      BY <3>3 DEF OneActive
    <3>5. Actives(pool') \subseteq {prev'}
      BY <2>3, <3>4, OneActiveSeat
    <3> QED BY <1>1, <1>7, <3>4, <3>5 DEF TriageRecover
  <2> QED BY <1>7, <2>2, <2>3 DEF TriageRecover, LatestPromoted, Real
<1>8. CASE TriageHealth
  <2>1. pool' = Scoped /\ db' = pool' /\ pc' = "health"
    BY <1>8 DEF TriageHealth, Commit
  <2>2. OneActive(pool')
    BY <1>1, <1>3, <2>1 DEF OneActive
  <2>3. OneActive(db')
    BY <2>1, <2>2
  <2> QED BY <2>1, <2>2, <2>3
<1> QED BY <1>6, <1>7, <1>8

LEMMA PruneSeat ==
  ASSUME TypeOK, SeatInv, Prune \/ PruneRaises
  PROVE  SeatInv'
<1>1. PICK S : pool' = Archive(pool, S)
  BY DEF Prune, PruneRaises
<1>2. Actives(pool') \subseteq Actives(pool)
  BY <1>1, ArchiveActives DEF TypeOK
<1>3. /\ pc = "prune" /\ pc' \in {"promote", "raised"}
      /\ db' = db /\ prev' = prev /\ promoted' = promoted
  BY DEF Prune, PruneRaises, callVars
<1>4. promoted = None /\ OneActive(pool) /\ Actives(pool) \subseteq {prev, promoted}
  BY <1>3 DEF SeatInv, SwapInProgress, PreviousActiveTracked
<1>5. OneActive(pool')
  BY <1>2, <1>4 DEF OneActive
<1>6. AtMostOneActive'
  BY <1>3 DEF SeatInv, AtMostOneActive
<1> QED
  BY <1>2, <1>3, <1>4, <1>5, <1>6 DEF SeatInv, SwapInProgress, PreviousActiveTracked

LEMMA PromoteSeat ==
  ASSUME TypeOK, SeatInv, PromoteExisting
  PROVE  SeatInv'
<1>1. /\ pc = "promote" /\ pc' = "assign" /\ db' = db /\ promoted' = promoted
  BY DEF PromoteExisting, callVars
<1>2. promoted = None /\ OneActive(pool) /\ Actives(pool) \subseteq {prev}
  BY <1>1, PoolAssumption
  DEF SeatInv, SwapInProgress, PreviousActiveTracked, Actives, WithStatus
<1>3. Actives(pool') \subseteq {prev'}
  <2>1. CASE Challengers = {}
    BY <1>2, <2>1 DEF PromoteExisting
  <2>2. CASE Challengers # {}
    <3>1. PICK c \in Challengers, wins \in BOOLEAN :
            /\ pool' = [pool EXCEPT
                 ![prev].status = "ARCHIVED",
                 ![c] = Decided([@ EXCEPT !.status = "ACTIVE", !.promotedAt = Stamp(0)],
                                "promotion_ready", Stamp(0), wins)]
            /\ prev' = c
      BY <2>2 DEF PromoteExisting
    <3>2. prev \in Proposals /\ c \in Proposals
      BY <2>2 DEF Challengers, WithStatus, TypeOK
    <3>3. \A q \in Proposals \ {prev, c} : pool'[q] = pool[q]
      BY <3>1 DEF TypeOK
    <3>4. prev # c => pool'[prev].status = "ARCHIVED"
      BY <3>1, <3>2 DEF TypeOK, Row
    <3> QED BY <1>2, <3>1, <3>3, <3>4 DEF Actives, WithStatus
  <2> QED BY <2>1, <2>2
<1>4. OneActive(pool')
  BY <1>3 DEF OneActive
<1>5. AtMostOneActive'
  BY <1>1 DEF SeatInv, AtMostOneActive
<1> QED
  BY <1>1, <1>2, <1>3, <1>4, <1>5 DEF SeatInv, SwapInProgress, PreviousActiveTracked

\* Every step keeps the seat, but for an exception in the middle of a replacement.
LEMMA SeatKept ==
  ASSUME TypeOK, SeatInv, [Next]_vars, FailCommitting => promoted = None
  PROVE  SeatInv'
<1>1. pc # "symbol" => promoted = None /\ OneActive(pool)
  BY DEF SeatInv, SwapInProgress
<1>2. ASSUME NEW b \in Batches, Begin(b) PROVE SeatInv'
  <2>1. OneActive(pool) /\ promoted = None
    BY <1>1, <1>2 DEF Begin
  <2>2. Actives(pool) \subseteq {prev'}
    BY <1>2, <2>1, OneActiveSeat DEF Begin
  <2> QED
    BY <1>2, <2>1, <2>2
    DEF Begin, callVars, SeatInv, AtMostOneActive, SwapInProgress, PreviousActiveTracked
<1>3. CASE TriageForced \/ TriageRecover \/ TriageHealth \/ TriageEmpty
  BY <1>3, TriageSeat
<1>4. ASSUME NEW drawdown \in Drawdowns, HealthFirst(drawdown) PROVE SeatInv'
  <2>1. OneActive(pool') /\ promoted = None
    BY <1>1, <1>4, HealthSeat DEF HealthFirst
  <2>2. Actives(pool') \subseteq {prev'}
    BY <1>4, <2>1, OneActiveSeat DEF HealthFirst
  <2> QED
    BY <1>4, <2>1, <2>2
    DEF HealthFirst, callVars, SeatInv, AtMostOneActive, SwapInProgress, PreviousActiveTracked
<1>5. ASSUME NEW drawdown \in Drawdowns, HealthLast(drawdown) PROVE SeatInv'
  <2>1. OneActive(pool') /\ promoted = None
    BY <1>1, <1>5, HealthSeat DEF HealthLast
  <2> QED
    BY <1>5, <2>1
    DEF HealthLast, callVars, SeatInv, AtMostOneActive, SwapInProgress, PreviousActiveTracked
<1>6. CASE Agents
  <2>1. /\ pc = "agents" /\ pc' = "symbol" /\ pool' = pool /\ db' = pool'
        /\ prev' = prev /\ promoted' = promoted
    BY <1>6 DEF Agents, Commit, callVars
  <2>2. OneActive(pool) /\ promoted = None
    BY <1>1, <2>1
  <2>3. OneActive(db')
    BY <2>1, <2>2
  <2> QED
    BY <2>1, <2>2, <2>3 DEF SeatInv, AtMostOneActive, SwapInProgress, PreviousActiveTracked
<1>7. ASSUME NEW p \in Proposals, NEW review \in Reviews, Insert(p, review) PROVE SeatInv'
  BY <1>7, InsertSeat
<1>8. CASE FinishSymbol
  BY <1>8, FinishSymbolSeat
<1>9. CASE Prune \/ PruneRaises
  BY <1>9, PruneSeat
<1>10. CASE PromoteExisting
  BY <1>10, PromoteSeat
<1>11. CASE AssignSlots
  <2>1. /\ pc = "assign" /\ pc' \in {"raised", "final"} /\ pool' = pool /\ db' \in {db, pool}
        /\ promoted' = promoted
    BY <1>11 DEF AssignSlots, Commit, callVars
  <2>2. OneActive(pool) /\ promoted = None
    BY <1>1, <2>1
  <2>3. OneActive(db')
    BY <2>1, <2>2 DEF SeatInv, AtMostOneActive
  <2> QED
    BY <2>1, <2>2, <2>3 DEF SeatInv, AtMostOneActive, SwapInProgress, PreviousActiveTracked
<1>12. CASE Finish \/ FailCommitting \/ LoseSession
  <2>1. Over
    BY <1>12 DEF Finish, FailCommitting, LoseSession
  <2>2. pc' = "idle" /\ promoted' = None
    BY <2>1, OverType
  <2>3. CASE Finish \/ FailCommitting
    <3>1. promoted = None
      BY <1>1, <2>3 DEF Finish, FailCommitting
    <3>2. OneActive(pool) /\ db' = pool' /\ pool' = pool
      BY <2>3, <3>1 DEF Finish, FailCommitting, Commit, SeatInv
    <3>3. OneActive(db') /\ OneActive(pool')
      BY <3>2
    <3> QED
      BY <2>2, <3>3 DEF SeatInv, AtMostOneActive, SwapInProgress, PreviousActiveTracked
  <2>4. CASE LoseSession
    <3>1. OneActive(db) /\ db' = db /\ pool' = db
      BY <2>4 DEF LoseSession, SeatInv, AtMostOneActive
    <3>2. OneActive(db') /\ OneActive(pool')
      BY <3>1
    <3> QED
      BY <2>2, <3>2 DEF SeatInv, AtMostOneActive, SwapInProgress, PreviousActiveTracked
  <2> QED BY <1>12, <2>3, <2>4
<1>13. CASE BoundReached \/ UNCHANGED vars
  BY <1>13
  DEF BoundReached, vars, timeVars, callVars, SeatInv, AtMostOneActive, OneActive, Actives,
      WithStatus, SwapInProgress, PreviousActiveTracked
<1> QED
  BY <1>2, <1>3, <1>4, <1>5, <1>6, <1>7, <1>8, <1>9, <1>10, <1>11, <1>12, <1>13
  DEF Next

LEMMA SeatInit == Init => SeatInv
BY DEF Init, SeatInv, AtMostOneActive, OneActive, Actives, WithStatus, Vacant,
       PreviousActiveTracked, SwapInProgress

LEMMA SeatInvariant ==
  ASSUME RaisesMidSwap = FALSE
  PROVE  Spec => []SeatInv
<1>1. TypeOK /\ SeatInv /\ [Next]_vars => SeatInv'
  BY SeatKept DEF FailCommitting
<1> QED BY <1>1, SeatInit, TypeInvariant, PTL DEF Spec

\* As long as no exception strikes in the middle of a replacement, the committed
\* table never holds two ACTIVE strategies: not after an exception elsewhere (the
\* except branch commits the half-done session), not after a lost session, and
\* not with several blueprints promotable in one call.
THEOREM SingleActiveStrategy ==
  ASSUME RaisesMidSwap = FALSE
  PROVE  Spec => []AtMostOneActive
<1>1. SeatInv => AtMostOneActive
  BY DEF SeatInv
<1> QED BY <1>1, SeatInvariant, PTL

-----------------------------------------------------------------------------
\* The merit of whatever can become active.

Merits(P) == \A p \in Proposals : RowMerit(P[p])

LEMMA ArchiveMerits ==
  ASSUME NEW P \in [Proposals -> Row], NEW S, Merits(P)
  PROVE  Merits(Archive(P, S))
BY DEF Archive, Merits, RowMerit, WasPromoted, Row

\* A promoted or open row keeps its merit when it is given a status and a phase
\* that is not a rejection, provided it clears the threshold to become active.
LEMMA SeatedMerit ==
  ASSUME NEW row, NEW new, RowMerit(row), new.score = row.score,
         row.status \in {"ACTIVE", "CANDIDATE"} \/ WasPromoted(row),
         new.status \in {"ACTIVE", "CANDIDATE"},
         new.phase \in {row.phase, "paused_pending_review", "rolled_back", "promotion_ready"},
         \/ WasPromoted(row) \/ row.status = "ACTIVE"
         \/ row.score >= PromoteThreshold
  PROVE  RowMerit(new)
BY DEF RowMerit

LEMMA HealthMerit ==
  ASSUME TypeOK, Merits(pool), NEW drawdown, EvaluateHealth(drawdown)
  PROVE  Merits(pool')
<1>1. PICK a \in ActiveStrategy(pool) :
        \/ pool' = pool
        \/ \E s \in LatestPromoted(pool, PreviousStable(pool, a)) : a # None /\ RollbackTo(a, s)
        \/ a # None /\ PauseActive(a)
  BY DEF EvaluateHealth
<1>2. a # None => a \in Proposals /\ pool[a] \in Row /\ pool[a].status = "ACTIVE"
  BY ActiveStrategyType DEF Actives, WithStatus, TypeOK
<1>3. ASSUME a # None, NEW phase \in {"paused_pending_review", "rolled_back"}, NEW wins
      PROVE  RowMerit(Decided([pool[a] EXCEPT !.status = "CANDIDATE"], phase, Stamp(0), wins))
  <2> DEFINE row == [pool[a] EXCEPT !.status = "CANDIDATE"]
             new == Decided(row, phase, Stamp(0), wins)
  <2>1. /\ row \in Row /\ row.status = "CANDIDATE" /\ row.score = pool[a].score
        /\ row.phase = pool[a].phase
    BY <1>2, <1>3 DEF Row
  <2> HIDE DEF row
  <2>2. new.status = "CANDIDATE" /\ new.score = pool[a].score /\ new.phase \in {pool[a].phase, phase}
    BY <2>1, DecidedKeeps
  <2> HIDE DEF new
  <2>3. RowMerit(pool[a])
    BY <1>2, <1>3 DEF Merits
  <2>4. RowMerit(new)
    BY <1>2, <1>3, <2>2, <2>3, SeatedMerit
  <2> QED BY <2>4 DEF new, row
<1>4. CASE pool' = pool
  BY <1>4 DEF Merits
<1>5. CASE a # None /\ PauseActive(a)
  <2>1. RowMerit(pool'[a])
    <3>1. PICK wins \in BOOLEAN : pool' = [pool EXCEPT ![a] =
            Decided([pool[a] EXCEPT !.status = "CANDIDATE"], "paused_pending_review",
                    Stamp(0), wins)]
      BY <1>5 DEF PauseActive
    <3>2. a \in Proposals /\ a \in DOMAIN pool
      BY <1>2, <1>5 DEF TypeOK
    <3> DEFINE row == Decided([pool[a] EXCEPT !.status = "CANDIDATE"],
                              "paused_pending_review", Stamp(0), wins)
    <3>3. RowMerit(row)
      BY <1>3, <1>5
    <3>4. pool' = [pool EXCEPT ![a] = row]
      BY <3>1
    <3> HIDE DEF row
    <3> QED BY <3>2, <3>3, <3>4
  <2>2. \A p \in Proposals \ {a} : pool'[p] = pool[p]
    BY <1>5 DEF PauseActive, TypeOK
  <2> QED BY <2>1, <2>2 DEF Merits
<1>6. ASSUME NEW s \in LatestPromoted(pool, PreviousStable(pool, a)), a # None, RollbackTo(a, s)
      PROVE  Merits(pool')
  <2>1. s \in Proposals /\ s # a /\ WasPromoted(pool[s])
    BY DEF LatestPromoted, PreviousStable, WithStatus
  <2>2. RowMerit(pool'[a])
    BY <1>2, <1>3, <1>6, <2>1 DEF RollbackTo, TypeOK
  <2>3. /\ pool'[s].status = "ACTIVE"
        /\ pool'[s].score = pool[s].score /\ pool'[s].phase = pool[s].phase
    BY <1>6, <2>1 DEF RollbackTo, TypeOK, Row
  <2>4. RowMerit(pool'[s])
    BY <2>1, <2>3, SeatedMerit DEF Merits
  <2>5. \A p \in Proposals \ {a, s} : pool'[p] = pool[p]
    BY <1>6 DEF RollbackTo, TypeOK
  <2> QED BY <2>2, <2>4, <2>5 DEF Merits
<1> QED BY <1>1, <1>4, <1>5, <1>6

LEMMA InsertMerit ==
  ASSUME TypeOK, Merits(pool), NEW p \in Proposals, NEW review \in Reviews, Insert(p, review)
  PROVE  Merits(pool')
<1> DEFINE status == GovernanceStatus(review, Incumbent, macro, day)
           phase == LifecyclePhase(status, Incumbent, day)
<1>1. /\ pool'[p].status = status
      /\ pool'[p].score = review.score
      /\ pool'[p].phase = phase
      /\ pool'[p].promotedAt = IF status = "ACTIVE" THEN Stamp(turn) ELSE Never
      /\ \A q \in Proposals \ {p} : pool'[q] = pool[q]
  BY DEF Insert, TypeOK
<1>2. status \in {"ACTIVE", "CANDIDATE", "REJECTED"}
  BY StatusType
<1>3. phase = "rejected" <=> status = "REJECTED"
  BY <1>2, PhaseOfStatus
<1>4. status = "ACTIVE" => review.score >= PromoteThreshold
  BY ActiveMeansAllowed DEF PromoteAllowed
<1> HIDE DEF status, phase
<1>5. RowMerit(pool'[p])
  BY <1>1, <1>2, <1>3, <1>4 DEF RowMerit, WasPromoted
<1> QED BY <1>1, <1>5 DEF Merits

LEMMA RecoverMerit ==
  ASSUME TypeOK, Merits(pool), TriageRecover
  PROVE  Merits(pool')
<1>1. Scoped \in [Proposals -> Row] /\ Merits(Scoped)
  BY ArchiveType, ArchiveMerits DEF Scoped, TypeOK
<1>2. CASE pool' = Archive(Scoped, Open(Scoped))
  BY <1>1, <1>2, ArchiveMerits
<1>3. CASE \E p \in Proposals : /\ WasPromoted(Scoped[p])
                                /\ pool' = [Scoped EXCEPT ![p].status = "ACTIVE"]
  <2>1. PICK p \in Proposals : /\ WasPromoted(Scoped[p])
                               /\ pool' = [Scoped EXCEPT ![p].status = "ACTIVE"]
    BY <1>3
  <2>2. /\ pool'[p].status = "ACTIVE"
        /\ pool'[p].score = Scoped[p].score /\ pool'[p].phase = Scoped[p].phase
    BY <1>1, <2>1 DEF Row
  <2>3. RowMerit(pool'[p])
    BY <1>1, <2>1, <2>2, SeatedMerit DEF Merits
  <2>4. \A q \in Proposals \ {p} : pool'[q] = Scoped[q]
    BY <1>1, <2>1
  <2> QED BY <1>1, <2>3, <2>4 DEF Merits
<1> QED BY <1>2, <1>3 DEF TriageRecover, LatestPromoted, Real

LEMMA PromoteMerit ==
  ASSUME TypeOK, Merits(pool), PromoteExisting
  PROVE  Merits(pool')
<1>1. CASE Challengers = {}
  BY <1>1 DEF PromoteExisting
<1>2. CASE Challengers # {}
  <2>1. PICK c \in Challengers, wins \in BOOLEAN :
          pool' = [pool EXCEPT
               ![prev].status = "ARCHIVED",
               ![c] = Decided([@ EXCEPT !.status = "ACTIVE", !.promotedAt = Stamp(0)],
                              "promotion_ready", Stamp(0), wins)]
    BY <1>2 DEF PromoteExisting
  <2>2. /\ prev \in Proposals /\ c \in Proposals
        /\ pool[c].status = "CANDIDATE" /\ pool[c].score >= PromoteThreshold
    BY <1>2 DEF Challengers, WithStatus, TypeOK
  <2> DEFINE mid == [pool EXCEPT ![prev].status = "ARCHIVED"]
             row == [mid[c] EXCEPT !.status = "ACTIVE", !.promotedAt = Stamp(0)]
  <2>3. /\ mid \in [Proposals -> Row]
        /\ mid[c].score = pool[c].score /\ mid[c].phase = pool[c].phase
        /\ RowMerit(mid[prev])
        /\ \A q \in Proposals \ {prev} : mid[q] = pool[q]
    <3>1. pool \in [Proposals -> Row]
      BY DEF TypeOK
    <3>2. mid \in [Proposals -> Row] /\ \A q \in Proposals \ {prev} : mid[q] = pool[q]
      BY <2>2, <3>1 DEF Row
    <3>3. mid[prev] = [pool[prev] EXCEPT !.status = "ARCHIVED"]
      BY <2>2, <3>1
    <3>4. /\ mid[prev].status = "ARCHIVED"
          /\ mid[prev].score = pool[prev].score
          /\ mid[prev].phase = pool[prev].phase
          /\ mid[prev].promotedAt = pool[prev].promotedAt
      BY <2>2, <3>1, <3>3 DEF Row
    <3>5. RowMerit(pool[prev])
      BY <2>2 DEF Merits
    <3>6. RowMerit(mid[prev])
      BY <3>4, <3>5 DEF RowMerit, WasPromoted
    <3>7. mid[c].score = pool[c].score /\ mid[c].phase = pool[c].phase
      BY <2>2, <3>2, <3>4
    <3> QED BY <3>2, <3>6, <3>7
  <2>4. pool' = [mid EXCEPT ![c] = Decided(row, "promotion_ready", Stamp(0), wins)]
    BY <2>1
  <2> HIDE DEF mid
  <2>5. Stamp(0) \in Stamps
    BY StampType DEF TypeOK
  <2>6. /\ row \in Row /\ row.status = "ACTIVE"
        /\ row.score = pool[c].score /\ row.phase = pool[c].phase
    BY <2>2, <2>3, <2>5 DEF Row
  <2> HIDE DEF row
  <2>7. /\ pool'[c].status = "ACTIVE" /\ pool'[c].score = pool[c].score
        /\ pool'[c].phase \in {pool[c].phase, "promotion_ready"}
    BY <2>2, <2>3, <2>4, <2>6, DecidedKeeps
  <2>8. RowMerit(pool'[c])
    BY <2>2, <2>7, SeatedMerit DEF Merits
  <2>9. \A q \in Proposals \ {c} : pool'[q] = mid[q]
    BY <2>3, <2>4
  <2> QED BY <2>3, <2>8, <2>9 DEF Merits
<1> QED BY <1>1, <1>2

LEMMA MeritInvariant == Spec => []MeritInv
<1>1. Init => MeritInv
  BY DEF Init, MeritInv, RowMerit, Vacant, WasPromoted
<1>2. TypeOK /\ MeritInv /\ [Next]_vars => MeritInv'
  <2> SUFFICES ASSUME TypeOK, MeritInv, [Next]_vars
               PROVE  Merits(pool') /\ (db' \in {db, pool'} => Merits(db'))
                      /\ db' \in {db, pool'}
    BY DEF MeritInv, Merits
  <2>1. Merits(pool) /\ Merits(db)
    BY DEF MeritInv, Merits
  <2>2. db' \in {db, pool'}
    BY DEF Next, Begin, TriageForced, TriageRecover, TriageHealth, TriageEmpty, HealthFirst,
           HealthLast, Agents, Insert, FinishSymbol, Prune, PruneRaises, PromoteExisting,
           AssignSlots, Finish, FailCommitting, LoseSession, BoundReached, Commit, vars
  <2>3. SUFFICES Merits(pool')
    BY <2>1, <2>2
  <2>4. ASSUME NEW b \in Batches, Begin(b) PROVE Merits(pool')
    BY <2>1, <2>4 DEF Begin
  <2>5. CASE TriageForced \/ TriageHealth \/ TriageEmpty
    <3>1. Scoped \in [Proposals -> Row] /\ Merits(Scoped)
      BY <2>1, ArchiveType, ArchiveMerits DEF Scoped, TypeOK
    <3> QED BY <2>5, <3>1, ArchiveMerits DEF TriageForced, TriageHealth, TriageEmpty
  <2>6. CASE TriageRecover
    BY <2>1, <2>6, RecoverMerit
  <2>7. ASSUME NEW drawdown \in Drawdowns, HealthFirst(drawdown) \/ HealthLast(drawdown)
        PROVE  Merits(pool')
    BY <2>1, <2>7, HealthMerit DEF HealthFirst, HealthLast
  <2>8. ASSUME NEW p \in Proposals, NEW review \in Reviews, Insert(p, review)
        PROVE  Merits(pool')
    BY <2>1, <2>8, InsertMerit
  <2>9. CASE FinishSymbol \/ Prune \/ PruneRaises
    BY <2>1, <2>9, ArchiveMerits DEF TypeOK, FinishSymbol, Prune, PruneRaises
  <2>10. CASE PromoteExisting
    BY <2>1, <2>10, PromoteMerit
  <2>11. CASE Agents \/ AssignSlots \/ Finish \/ FailCommitting \/ LoseSession
    <3>1. pool' \in {pool, db}
      BY <2>11 DEF Agents, AssignSlots, Finish, FailCommitting, LoseSession
    <3> QED BY <2>1, <3>1
  <2>12. CASE BoundReached \/ UNCHANGED vars
    BY <2>1, <2>12 DEF BoundReached, vars
  <2> QED
    BY <2>4, <2>5, <2>6, <2>7, <2>8, <2>9, <2>10, <2>11, <2>12 DEF Next
<1> QED BY <1>1, <1>2, TypeInvariant, PTL DEF Spec

\* Whatever was promoted, by whichever of the four ways, cleared the promotion
\* threshold: no rollback, recovery or replacement of a mock seats a weak strategy.
THEOREM NoWeakStrategySeated == Spec => []PromotedMeetsThreshold
<1>1. MeritInv => PromotedMeetsThreshold
  BY DEF MeritInv, RowMerit, PromotedMeetsThreshold
<1> QED BY <1>1, MeritInvariant, PTL

\* A rejection is final.
THEOREM RejectionIsFinal == Spec => []RejectedStaysOut
<1>1. TypeOK /\ MeritInv => RejectedStaysOut
  BY DEF TypeOK, Row, MeritInv, RowMerit, RejectedStaysOut
<1> QED BY <1>1, TypeInvariant, MeritInvariant, PTL

-----------------------------------------------------------------------------
(***************************************************************************)
(* The committed proposal table implements the seat of ActiveSeat, for     *)
(* every set of proposals, reviews, batches and thresholds, when no        *)
(* exception strikes in the middle of a replacement.                       *)
(*                                                                         *)
(* The session works on `pool` for several steps between two commits, so   *)
(* the argument is about the pair of the committed and the session's       *)
(* table: at any moment at which a commit may come, the session's table is *)
(* one step of the abstract seat away from the committed one.  What makes  *)
(* this hold over a whole sync is that commits come often enough: a second *)
(* change of the seat never starts before the first is committed.          *)
(***************************************************************************)

\* What a row says of the seat.
Alike(r, t) ==
  /\ r.status = "ACTIVE" <=> t.status = "ACTIVE"
  /\ WasPromoted(r) <=> WasPromoted(t)
  /\ WasPromoted(r) =>
       r.source = t.source /\ r.score = t.score /\ r.promotedAt = t.promotedAt
Waits(row) == row.status = "CANDIDATE" /\ WasPromoted(row)
Same(r, t) == Alike(r, t) /\ (Waits(r) <=> Waits(t))
Kept(r, t) == Alike(r, t) /\ (Waits(t) => Waits(r))

\* A holder of the seat is dated and of a known source; a vacant row is not.
HeldRow(row) ==
  /\ row.status = "ACTIVE" => WasPromoted(row)
  /\ row.status = "none" => ~WasPromoted(row)
  /\ WasPromoted(row) => row.source \in {"mock", "minimax"}
Held(P) == \A p \in Proposals : HeldRow(P[p])
HeldInv == Held(pool) /\ Held(db)

\* The steps of the seat between two tables D and P.
Strategy(row, p) == [id |-> p, source |-> row.source, score |-> row.score]
Holder(row, p) ==
  [id |-> p, source |-> row.source, score |-> row.score, since |-> row.promotedAt.day]

Sits(D, P, s) ==
  /\ s \in Proposals /\ Seat(P) = {Holder(P[s], s)}
  /\ Former(P) = Former(D) \cup {Strategy(P[s], s)}

Appointed(D, P, s) ==
  /\ Sits(D, P, s) /\ Benched(P) \subseteq Benched(D)
  /\ \A f \in Former(D) : f.id # s
  /\ P[s].score >= PromoteThreshold
  /\ \A o \in Seat(D) :
       o.source = "mock" \/ /\ P[s].promotedAt.day - o.since >= CooldownDays
                            /\ P[s].score >= o.score + ChallengerMinDelta

Returned(D, P, s) ==
  /\ Sits(D, P, s) /\ Benched(P) \subseteq Benched(D) \ {s}
  /\ Strategy(P[s], s) \in Former(D) /\ P[s].source # "mock"
  /\ \A o \in Seat(D) : o.id # s /\ o.source = "mock" /\ o.score <= P[s].score

PutOnBench(D, P) == Seat(D) # {} /\ Benched(P) = Benched(D) \cup {o.id : o \in Seat(D)}

RolledBack(D, P, s) ==
  /\ Sits(D, P, s) /\ PutOnBench(D, P)
  /\ Strategy(P[s], s) \in Former(D) /\ \A o \in Seat(D) : o.id # s

Paused(D, P) == Seat(P) = {} /\ Former(P) = Former(D) /\ PutOnBench(D, P)

Forgotten(D, P) ==
  Seat(P) = Seat(D) /\ Former(P) = Former(D) /\ Benched(P) \subseteq Benched(D)

SeatStep(D, P) ==
  \/ \E s \in Proposals : Appointed(D, P, s) \/ Returned(D, P, s) \/ RolledBack(D, P, s)
  \/ Paused(D, P) \/ Forgotten(D, P)

\* The strategy promoted in this call against the committed holder it replaces.
SwapIsFair ==
  /\ \A p \in Proposals \ {promoted} : Same(db[p], pool[p])
  /\ promoted # prev /\ WasPromoted(pool[promoted]) /\ pool[promoted].status = "ACTIVE"
  /\ ~WasPromoted(db[promoted]) /\ db[promoted].status # "ACTIVE"
  /\ pool[promoted].score >= PromoteThreshold
  /\ \A o \in Actives(db) :
       /\ o = prev
       /\ \/ db[o].source = "mock"
          \/ /\ pool[promoted].promotedAt.day - db[o].promotedAt.day >= CooldownDays
             /\ pool[promoted].score >= db[o].score + ChallengerMinDelta

RefInv ==
  /\ pc \in {"triage", "agents", "symbol", "prune", "promote"} /\ prev # None =>
       pool[prev].status = "ACTIVE"
  /\ \/ pc \in {"idle", "triage", "health", "prune", "final"}
     \/ pc = "symbol" /\ promoted = None
     => \A p \in Proposals : Same(db[p], pool[p])
  /\ pc = "promote" => \A p \in Proposals : Kept(db[p], pool[p])
  /\ pc \in {"agents", "assign", "raised", "finish"} => SeatStep(db, pool)
  /\ promoted # None => SwapIsFair

-----------------------------------------------------------------------------
\* Lemmas about two tables.

LEMMA KeptForgets ==
  ASSUME NEW D, NEW P, Held(D), \A p \in Proposals : Kept(D[p], P[p])
  PROVE  Forgotten(D, P)
<1>1. Seat(P) = Seat(D)
  BY DEF Seat, Actives, WithStatus, Kept, Alike, Held, HeldRow
<1>2. Former(P) = Former(D)
  BY DEF Former, Kept, Alike
<1>3. Benched(P) \subseteq Benched(D)
  BY DEF Benched, WithStatus, Kept, Waits
<1> QED BY <1>1, <1>2, <1>3 DEF Forgotten

LEMMA SameIsKept ==
  ASSUME NEW D, NEW P, \A p \in Proposals : Same(D[p], P[p])
  PROVE  (\A p \in Proposals : Kept(D[p], P[p])) /\ Benched(P) = Benched(D)
BY DEF Same, Kept, Benched, Waits, WithStatus

\* One row is active in P, and P remembers those that D remembers and this one.
LEMMA OneSits ==
  ASSUME NEW D, NEW P, NEW s \in Proposals,
         P[s].status = "ACTIVE", WasPromoted(P[s]),
         \A q \in Proposals \ {s} : P[q].status # "ACTIVE",
         \A q \in Proposals \ {s} : WasPromoted(D[q]) <=> WasPromoted(P[q]),
         \A q \in Proposals : WasPromoted(D[q]) =>
                                D[q].source = P[q].source /\ D[q].score = P[q].score
  PROVE  Sits(D, P, s)
<1>1. Seat(P) = {Holder(P[s], s)}
  BY DEF Seat, Actives, WithStatus, Holder
<1>2. Former(P) = Former(D) \cup {Strategy(P[s], s)}
  BY DEF Former, Strategy
<1> QED BY <1>1, <1>2 DEF Sits

LEMMA FormerIds ==
  ASSUME NEW D, NEW p \in Proposals
  PROVE  /\ WasPromoted(D[p]) => Strategy(D[p], p) \in Former(D)
         /\ ~WasPromoted(D[p]) => \A f \in Former(D) : f.id # p
BY DEF Former, Strategy

\* A step between two tables is a step of the abstract seat.
LEMMA AbstractStep ==
  ASSUME SeatStep(db, db')
  PROVE  Abstract!Next
<1> USE DEF Abstract!Next
<1>1. ASSUME NEW s \in Proposals, Sits(db, db', s)
      PROVE  LET h == Holder(db'[s], s) IN
             h \in Seat(db') /\ Abstract!Strategy(h) = Strategy(db'[s], s) /\ Abstract!Sit(h)
  BY <1>1 DEF Sits, Abstract!Sit, Abstract!Strategy, Strategy, Holder
<1>2. ASSUME NEW s \in Proposals, Appointed(db, db', s) PROVE Abstract!Appoint(Holder(db'[s], s))
  BY <1>1, <1>2 DEF Appointed, Abstract!Appoint, Abstract!Fresh, Holder
<1>3. ASSUME NEW s \in Proposals, Returned(db, db', s) PROVE Abstract!Return(Holder(db'[s], s))
  BY <1>1, <1>3 DEF Returned, Abstract!Return, Holder
<1>4. ASSUME NEW s \in Proposals, RolledBack(db, db', s)
      PROVE  Abstract!RollBack(Holder(db'[s], s))
  BY <1>1, <1>4 DEF RolledBack, PutOnBench, Abstract!RollBack, Abstract!Bench, Holder
<1>5. ASSUME Paused(db, db') PROVE Abstract!Pause
  BY <1>5 DEF Paused, PutOnBench, Abstract!Pause, Abstract!Bench
<1>6. ASSUME Forgotten(db, db') PROVE Abstract!Forget
  BY <1>6 DEF Forgotten, Abstract!Forget
<1>7. ASSUME NEW s \in Proposals, Sits(db, db', s) PROVE Holder(db'[s], s) \in Seat(db')
  BY <1>7 DEF Sits
<1> QED
  BY <1>2, <1>3, <1>4, <1>5, <1>6, <1>7 DEF SeatStep, Appointed, Returned, RolledBack

-----------------------------------------------------------------------------
\* What the actions that change the seat do to the rows.

LEMMA ArchiveRows ==
  ASSUME NEW P \in [Proposals -> Row], NEW S, NEW p \in Proposals
  PROVE  LET row == Archive(P, S)[p] IN
         /\ row.source = P[p].source /\ row.score = P[p].score
         /\ row.promotedAt = P[p].promotedAt
         /\ row.status = IF p \in S THEN "ARCHIVED" ELSE P[p].status
BY DEF Archive, Row

LEMMA ArchiveKeeps ==
  ASSUME NEW P \in [Proposals -> Row], NEW S, \A p \in S : P[p].status # "ACTIVE",
         NEW p \in Proposals
  PROVE  Kept(P[p], Archive(P, S)[p])
BY ArchiveRows DEF Kept, Alike, Waits, WasPromoted

LEMMA KeptTransitive ==
  ASSUME NEW r, NEW t, NEW u, Same(r, t) \/ Kept(r, t), Kept(t, u)
  PROVE  Kept(r, u)
BY DEF Same, Kept, Alike, Waits

\* Only candidates, rejected and archived rows leave with a change of scope.
LEMMA ScopedKeeps ==
  ASSUME TypeOK
  PROVE  /\ Scoped \in [Proposals -> Row]
         /\ \A p \in Proposals : /\ Kept(pool[p], Scoped[p])
                                 /\ Scoped[p].source = pool[p].source
                                 /\ Scoped[p].score = pool[p].score
<1> DEFINE S == (Open(pool) \ Actives(pool)) \ InScope(pool, ScopeSymbol)
<1>1. \A p \in S : pool[p].status # "ACTIVE"
  BY DEF Open, Actives, WithStatus
<1>2. Scoped = Archive(pool, S)
  BY DEF Scoped
<1> HIDE DEF S
<1> QED BY <1>1, <1>2, ArchiveKeeps, ArchiveRows, ArchiveType DEF TypeOK

Lowered(new, old) ==
  /\ new.status = "CANDIDATE" /\ new.source = old.source /\ new.score = old.score
  /\ new.promotedAt = old.promotedAt

Seated(new, old) ==
  /\ new.status = "ACTIVE" /\ WasPromoted(new)
  /\ new.source = old.source /\ new.score = old.score
  /\ new.promotedAt = old.promotedAt \/ new.promotedAt.day = day

LEMMA DecidedLowers ==
  ASSUME NEW row \in Row, NEW phase, NEW stamp, NEW wins
  PROVE  Lowered(Decided([row EXCEPT !.status = "CANDIDATE"], phase, stamp, wins), row)
BY DEF Decided, Row, Lowered

LEMMA HealthRows ==
  ASSUME TypeOK, NEW drawdown, EvaluateHealth(drawdown)
  PROVE  \/ pool' = pool
         \/ \E a \in Actives(pool) :
              /\ Lowered(pool'[a], pool[a])
              /\ \A p \in Proposals \ {a} : pool'[p] = pool[p]
         \/ \E a \in Actives(pool), s \in Proposals :
              /\ s # a /\ pool[s].status = "ARCHIVED" /\ WasPromoted(pool[s])
              /\ Lowered(pool'[a], pool[a]) /\ Seated(pool'[s], pool[s])
              /\ \A p \in Proposals \ {a, s} : pool'[p] = pool[p]
<1>1. PICK a \in ActiveStrategy(pool) :
        \/ pool' = pool
        \/ \E s \in LatestPromoted(pool, PreviousStable(pool, a)) : a # None /\ RollbackTo(a, s)
        \/ a # None /\ PauseActive(a)
  BY DEF EvaluateHealth
<1>2. a # None => a \in Actives(pool) /\ a \in Proposals /\ pool[a] \in Row
  BY ActiveStrategyType DEF Actives, WithStatus, TypeOK
<1>3. CASE a # None /\ PauseActive(a)
  <2>1. Lowered(pool'[a], pool[a])
    BY <1>2, <1>3, DecidedLowers DEF PauseActive, TypeOK
  <2>2. \A p \in Proposals \ {a} : pool'[p] = pool[p]
    BY <1>3 DEF PauseActive, TypeOK
  <2> QED BY <1>2, <1>3, <2>1, <2>2
<1>4. ASSUME NEW s \in LatestPromoted(pool, PreviousStable(pool, a)), a # None, RollbackTo(a, s)
      PROVE  /\ s \in Proposals
             /\ s # a /\ pool[s].status = "ARCHIVED" /\ WasPromoted(pool[s])
             /\ Lowered(pool'[a], pool[a]) /\ Seated(pool'[s], pool[s])
             /\ \A p \in Proposals \ {a, s} : pool'[p] = pool[p]
  <2>1. s \in Proposals /\ s # a /\ pool[s].status = "ARCHIVED" /\ WasPromoted(pool[s])
    BY DEF LatestPromoted, PreviousStable, WithStatus
  <2>2. Lowered(pool'[a], pool[a])
    BY <1>2, <1>4, <2>1, DecidedLowers DEF RollbackTo, TypeOK
  <2>3. Stamp(0) # Never /\ Stamp(0).day = day
    BY StampType DEF TypeOK
  <2>4. Seated(pool'[s], pool[s])
    BY <1>4, <2>1, <2>3 DEF RollbackTo, TypeOK, Row, Seated, WasPromoted
  <2>5. \A p \in Proposals \ {a, s} : pool'[p] = pool[p]
    BY <1>4 DEF RollbackTo, TypeOK
  <2> QED BY <2>1, <2>2, <2>4, <2>5
<1> QED BY <1>1, <1>2, <1>3, <1>4

LEMMA PromoteRows ==
  ASSUME TypeOK, PromoteExisting
  PROVE  \/ pool' = pool /\ prev' = prev
         \/ \E c \in Proposals :
              /\ prev \in Proposals /\ pool[prev].source # "minimax"
              /\ pool[c].status = "CANDIDATE" /\ pool[c].source = "minimax"
              /\ pool[c].score >= PromoteThreshold /\ pool[c].score >= pool[prev].score
              /\ prev' = c /\ Seated(pool'[c], pool[c])
              /\ prev # c => /\ pool'[prev].status = "ARCHIVED"
                             /\ pool'[prev].source = pool[prev].source
                             /\ pool'[prev].score = pool[prev].score
                             /\ pool'[prev].promotedAt = pool[prev].promotedAt
              /\ \A q \in Proposals \ {prev, c} : pool'[q] = pool[q]
<1>1. CASE Challengers = {}
  BY <1>1 DEF PromoteExisting
<1>2. CASE Challengers # {}
  <2>1. PICK c \in Challengers, wins \in BOOLEAN :
          /\ pool' = [pool EXCEPT
               ![prev].status = "ARCHIVED",
               ![c] = Decided([@ EXCEPT !.status = "ACTIVE", !.promotedAt = Stamp(0)],
                              "promotion_ready", Stamp(0), wins)]
          /\ prev' = c
    BY <1>2 DEF PromoteExisting
  <2>2. /\ prev \in Proposals /\ c \in Proposals /\ pool[prev].source # "minimax"
        /\ pool[c].status = "CANDIDATE" /\ pool[c].source = "minimax"
        /\ pool[c].score >= PromoteThreshold /\ pool[c].score >= pool[prev].score
    BY <1>2 DEF Challengers, WithStatus, Real, TypeOK, Row
  <2> DEFINE mid == [pool EXCEPT ![prev].status = "ARCHIVED"]
             row == [mid[c] EXCEPT !.status = "ACTIVE", !.promotedAt = Stamp(0)]
  <2>3. /\ mid \in [Proposals -> Row]
        /\ mid[c].score = pool[c].score /\ mid[c].source = pool[c].source
        /\ mid[prev].status = "ARCHIVED" /\ mid[prev].source = pool[prev].source
        /\ mid[prev].score = pool[prev].score /\ mid[prev].promotedAt = pool[prev].promotedAt
        /\ \A q \in Proposals \ {prev} : mid[q] = pool[q]
    <3>1. pool \in [Proposals -> Row]
      BY DEF TypeOK
    <3>2. /\ \A q \in Proposals \ {prev} : mid[q] = pool[q]
          /\ mid[prev] = [pool[prev] EXCEPT !.status = "ARCHIVED"]
          /\ DOMAIN mid = Proposals /\ mid = [q \in Proposals |-> mid[q]]
      BY <2>2, <3>1
    <3>3. /\ mid[prev] \in Row /\ mid[prev].status = "ARCHIVED"
          /\ mid[prev].source = pool[prev].source /\ mid[prev].score = pool[prev].score
          /\ mid[prev].promotedAt = pool[prev].promotedAt
      BY <2>2, <3>1, <3>2 DEF Row
    <3>4. c # prev
      BY <2>2
    <3> HIDE DEF mid
    <3>5. \A q \in Proposals : mid[q] \in Row
      BY <3>1, <3>2, <3>3
    <3> QED BY <2>2, <3>2, <3>3, <3>4, <3>5
  <2>4. pool' = [mid EXCEPT ![c] = Decided(row, "promotion_ready", Stamp(0), wins)]
    BY <2>1
  <2> HIDE DEF mid
  <2>5. Stamp(0) \in Stamps /\ Stamp(0) # Never /\ Stamp(0).day = day
    BY StampType DEF TypeOK
  <2>6. /\ row \in Row /\ row.status = "ACTIVE" /\ row.promotedAt = Stamp(0)
        /\ row.score = pool[c].score /\ row.source = pool[c].source
    <3>1. mid[c] \in Row
      BY <2>2, <2>3
    <3>2. row \in Row /\ row.status = "ACTIVE" /\ row.promotedAt = Stamp(0)
      BY <2>5, <3>1 DEF Row
    <3>3. row.score = mid[c].score /\ row.source = mid[c].source
      BY <3>1 DEF Row
    <3> QED BY <2>2, <2>3, <3>2, <3>3
  <2> HIDE DEF row
  <2>7. Seated(pool'[c], pool[c])
    BY <2>2, <2>3, <2>4, <2>5, <2>6, DecidedKeeps DEF Seated, WasPromoted
  <2>8. \A q \in Proposals \ {c} : pool'[q] = mid[q]
    BY <2>3, <2>4
  <2>9. prev' = c
    BY <2>1
  <2>10. prev # c => /\ pool'[prev].status = "ARCHIVED"
                     /\ pool'[prev].source = pool[prev].source
                     /\ pool'[prev].score = pool[prev].score
                     /\ pool'[prev].promotedAt = pool[prev].promotedAt
    BY <2>2, <2>3, <2>8
  <2>11. \A q \in Proposals \ {prev, c} : pool'[q] = pool[q]
    BY <2>3, <2>8
  <2> QED BY <2>2, <2>7, <2>9, <2>10, <2>11
<1> QED BY <1>1, <1>2

LEMMA RecoverRows ==
  ASSUME TypeOK, TriageRecover
  PROVE  \/ pool' = Archive(Scoped, Open(Scoped)) /\ prev' = None
         \/ \E s \in Proposals :
              /\ WasPromoted(Scoped[s]) /\ Scoped[s].source = "minimax"
              /\ Seated(pool'[s], Scoped[s])
              /\ \A q \in Proposals \ {s} : pool'[q] = Scoped[q]
              /\ prev' \in ActiveStrategy(pool')
<1>0. Scoped \in [Proposals -> Row]
  BY ScopedKeeps
<1> DEFINE recoverable == {p \in Real(Scoped) : WasPromoted(Scoped[p])}
<1>1. CASE pool' = Archive(Scoped, Open(Scoped)) /\ prev' = None
  BY <1>1
<1>2. CASE /\ \E p \in LatestPromoted(Scoped, recoverable) :
                pool' = [Scoped EXCEPT ![p].status = "ACTIVE"]
           /\ prev' \in ActiveStrategy(pool')
  <2>1. PICK s \in LatestPromoted(Scoped, recoverable) :
          pool' = [Scoped EXCEPT ![s].status = "ACTIVE"]
    BY <1>2
  <2>2. s \in Proposals /\ WasPromoted(Scoped[s]) /\ Scoped[s].source \notin {"mock", "none"}
    BY DEF LatestPromoted, Real
  <2>3. Scoped[s].source = "minimax"
    BY <1>0, <2>2 DEF Row
  <2>4. Seated(pool'[s], Scoped[s])
    BY <1>0, <2>1, <2>2 DEF Row, Seated, WasPromoted
  <2>5. \A q \in Proposals \ {s} : pool'[q] = Scoped[q]
    BY <1>0, <2>1
  <2> QED BY <1>2, <2>2, <2>3, <2>4, <2>5
<1> QED BY <1>1, <1>2 DEF TriageRecover

-----------------------------------------------------------------------------
\* The rows of those that hold or have held the seat.

LEMMA HeldArchive ==
  ASSUME NEW P \in [Proposals -> Row], NEW S, Held(P)
  PROVE  Held(Archive(P, S))
BY ArchiveRows DEF Held, HeldRow, WasPromoted

LEMMA HeldHealth ==
  ASSUME TypeOK, Held(pool), NEW drawdown, EvaluateHealth(drawdown)
  PROVE  Held(pool')
<1>1. \A p \in Proposals :
        \/ pool'[p] = pool[p]
        \/ Lowered(pool'[p], pool[p])
        \/ WasPromoted(pool[p]) /\ Seated(pool'[p], pool[p])
  BY HealthRows DEF Actives, WithStatus
<1> QED BY <1>1 DEF Held, HeldRow, Lowered, Seated, WasPromoted

LEMMA HeldInsert ==
  ASSUME TypeOK, Held(pool), NEW p \in Proposals, NEW review \in Reviews, Insert(p, review)
  PROVE  Held(pool')
<1> DEFINE status == GovernanceStatus(review, Incumbent, macro, day)
<1>1. /\ pool'[p].status = status
      /\ pool'[p].source = review.source
      /\ pool'[p].promotedAt = IF status = "ACTIVE" THEN Stamp(turn) ELSE Never
      /\ \A q \in Proposals \ {p} : pool'[q] = pool[q]
  BY DEF Insert, TypeOK
<1>2. review.source \in {"mock", "minimax"}
  BY PoolAssumption
<1>3. Stamp(turn) # Never
  BY StampType DEF TypeOK
<1>4. status # "none"
  BY StatusType
<1> HIDE DEF status
<1>5. HeldRow(pool'[p])
  BY <1>1, <1>2, <1>3, <1>4 DEF HeldRow, WasPromoted
<1> QED BY <1>1, <1>5 DEF Held

LEMMA HeldInvariant == Spec => []HeldInv
<1>1. Init => HeldInv
  BY DEF Init, HeldInv, Held, HeldRow, Vacant, WasPromoted
<1>2. TypeOK /\ HeldInv /\ [Next]_vars => HeldInv'
  <2> SUFFICES ASSUME TypeOK, HeldInv, [Next]_vars PROVE HeldInv'
    OBVIOUS
  <2>1. Held(pool) /\ Held(db)
    BY DEF HeldInv
  <2>2. db' = db \/ db' = pool'
    BY DEF Next, Begin, TriageForced, TriageRecover, TriageHealth, TriageEmpty, HealthFirst,
           HealthLast, Agents, Insert, FinishSymbol, Prune, PruneRaises, PromoteExisting,
           AssignSlots, Finish, FailCommitting, LoseSession, BoundReached, Commit, vars
  <2>3. SUFFICES Held(pool')
    BY <2>1, <2>2 DEF HeldInv
  <2>4. ASSUME NEW b \in Batches, Begin(b) PROVE Held(pool')
    BY <2>1, <2>4 DEF Begin
  <2>5. Held(Scoped)
    BY <2>1, HeldArchive DEF Scoped, TypeOK
  <2>6. CASE TriageForced \/ TriageHealth \/ TriageEmpty
    BY <2>5, <2>6, ScopedKeeps, HeldArchive DEF TriageForced, TriageHealth, TriageEmpty
  <2>7. CASE TriageRecover
    <3>1. CASE pool' = Archive(Scoped, Open(Scoped))
      BY <2>5, <3>1, ScopedKeeps, HeldArchive
    <3>2. CASE \E s \in Proposals : /\ WasPromoted(Scoped[s]) /\ Seated(pool'[s], Scoped[s])
                                    /\ \A q \in Proposals \ {s} : pool'[q] = Scoped[q]
      BY <2>5, <3>2 DEF Held, HeldRow, Seated
    <3> QED BY <2>7, <3>1, <3>2, RecoverRows
  <2>8. ASSUME NEW drawdown \in Drawdowns, HealthFirst(drawdown) \/ HealthLast(drawdown)
        PROVE  Held(pool')
    BY <2>1, <2>8, HeldHealth DEF HealthFirst, HealthLast
  <2>9. ASSUME NEW p \in Proposals, NEW review \in Reviews, Insert(p, review)
        PROVE  Held(pool')
    BY <2>1, <2>9, HeldInsert
  <2>10. CASE FinishSymbol \/ Prune \/ PruneRaises
    BY <2>1, <2>10, HeldArchive DEF TypeOK, FinishSymbol, Prune, PruneRaises
  <2>11. CASE PromoteExisting
    <3>1. \A p \in Proposals :
            \/ pool'[p] = pool[p]
            \/ pool[p].source = "minimax" /\ Seated(pool'[p], pool[p])
            \/ /\ pool'[p].status = "ARCHIVED" /\ pool'[p].source = pool[p].source
               /\ pool'[p].promotedAt = pool[p].promotedAt
      BY <2>11, PromoteRows
    <3> QED BY <2>1, <3>1 DEF Held, HeldRow, Seated, WasPromoted
  <2>12. CASE Agents \/ AssignSlots \/ Finish \/ FailCommitting \/ LoseSession
    <3>1. pool' \in {pool, db}
      BY <2>12 DEF Agents, AssignSlots, Finish, FailCommitting, LoseSession
    <3> QED BY <2>1, <3>1
  <2>13. CASE BoundReached \/ UNCHANGED vars
    BY <2>1, <2>13 DEF BoundReached, vars
  <2> QED
    BY <2>4, <2>6, <2>7, <2>8, <2>9, <2>10, <2>11, <2>12, <2>13 DEF Next
<1> QED BY <1>1, <1>2, TypeInvariant, PTL DEF Spec

-----------------------------------------------------------------------------
\* What the session may commit, action by action.

LEMMA SeatRows ==
  ASSUME NEW D, NEW o \in Seat(D)
  PROVE  /\ o.id \in Actives(D) /\ o.id \in Proposals
         /\ o.source = D[o.id].source /\ o.score = D[o.id].score
         /\ o.since = D[o.id].promotedAt.day
BY DEF Seat, Actives, WithStatus

LEMMA SeatIds == ASSUME NEW D PROVE {o.id : o \in Seat(D)} = Actives(D)
<1>1. Seat(D) = {Holder(D[p], p) : p \in Actives(D)}
  BY DEF Seat, Holder
<1>2. \A p \in Actives(D) : Holder(D[p], p).id = p
  BY DEF Holder
<1> QED BY <1>1, <1>2

LEMMA HealthStep ==
  ASSUME TypeOK, OneActive(pool), Held(db), Held(pool),
         \A p \in Proposals : Same(db[p], pool[p]), NEW drawdown, EvaluateHealth(drawdown)
  PROVE  SeatStep(db, pool')
<1>1. Actives(db) = Actives(pool) /\ Benched(db) = Benched(pool)
  BY DEF Actives, Benched, WithStatus, Same, Alike, Waits
<1>2. CASE pool' = pool
  BY <1>2, KeptForgets, SameIsKept DEF SeatStep
<1>3. CASE \E a \in Actives(pool) : /\ Lowered(pool'[a], pool[a])
                                    /\ \A p \in Proposals \ {a} : pool'[p] = pool[p]
  <2>1. PICK a \in Actives(pool) : /\ Lowered(pool'[a], pool[a])
                                   /\ \A p \in Proposals \ {a} : pool'[p] = pool[p]
    BY <1>3
  <2>2. a \in Proposals /\ Actives(pool) = {a} /\ WasPromoted(pool[a])
    BY DEF OneActive, Actives, WithStatus, Held, HeldRow
  <2>3. Actives(pool') = {}
    BY <2>1, <2>2 DEF Actives, WithStatus, Lowered
  <2>4. Seat(pool') = {} /\ Seat(db) # {}
    BY <1>1, <2>2, <2>3 DEF Seat
  <2>5. Former(pool') = Former(db)
    <3>1. \A p \in Proposals : /\ WasPromoted(pool'[p]) <=> WasPromoted(db[p])
                               /\ WasPromoted(db[p]) => /\ pool'[p].source = db[p].source
                                                        /\ pool'[p].score = db[p].score
      BY <2>1, <2>2 DEF Same, Alike, Lowered, WasPromoted
    <3> QED BY <3>1 DEF Former
  <2>6. Benched(pool') = Benched(pool) \cup {a}
    BY <2>1, <2>2 DEF Benched, WithStatus, Lowered, WasPromoted
  <2> QED BY <1>1, <2>2, <2>4, <2>5, <2>6, SeatIds DEF SeatStep, Paused, PutOnBench
<1>4. CASE \E a \in Actives(pool), s \in Proposals :
             /\ s # a /\ pool[s].status = "ARCHIVED" /\ WasPromoted(pool[s])
             /\ Lowered(pool'[a], pool[a]) /\ Seated(pool'[s], pool[s])
             /\ \A p \in Proposals \ {a, s} : pool'[p] = pool[p]
  <2>1. PICK a \in Actives(pool), s \in Proposals :
             /\ s # a /\ pool[s].status = "ARCHIVED" /\ WasPromoted(pool[s])
             /\ Lowered(pool'[a], pool[a]) /\ Seated(pool'[s], pool[s])
             /\ \A p \in Proposals \ {a, s} : pool'[p] = pool[p]
    BY <1>4
  <2>2. a \in Proposals /\ Actives(pool) = {a} /\ WasPromoted(pool[a])
    BY DEF OneActive, Actives, WithStatus, Held, HeldRow
  <2>3. \A q \in Proposals : /\ q # s => pool'[q].status # "ACTIVE"
                             /\ WasPromoted(pool'[q]) <=> WasPromoted(db[q])
                             /\ WasPromoted(db[q]) => /\ db[q].source = pool'[q].source
                                                      /\ db[q].score = pool'[q].score
    BY <2>1, <2>2 DEF Actives, WithStatus, Same, Alike, Lowered, Seated, WasPromoted
  <2>4. Sits(db, pool', s)
    BY <2>1, <2>3, OneSits DEF Seated
  <2>5. Benched(pool') = Benched(pool) \cup {a}
    BY <2>1, <2>2 DEF Benched, WithStatus, Lowered, Seated, WasPromoted
  <2>6. Seat(db) # {} /\ \A o \in Seat(db) : o.id # s
    BY <1>1, <2>1, <2>2, SeatRows, SeatIds DEF Seat
  <2>7. Strategy(pool'[s], s) \in Former(db)
    <3>1. Strategy(pool'[s], s) = Strategy(db[s], s) /\ WasPromoted(db[s])
      BY <2>1, <2>3 DEF Strategy, Seated
    <3> QED BY <3>1, FormerIds
  <2>8. RolledBack(db, pool', s)
    BY <1>1, <2>2, <2>4, <2>5, <2>6, <2>7, SeatIds DEF RolledBack, PutOnBench
  <2> QED BY <2>8 DEF SeatStep
<1> QED BY <1>2, <1>3, <1>4, HealthRows

LEMMA RecoverStep ==
  ASSUME TypeOK, Held(db), Actives(pool) = {},
         \A p \in Proposals : Same(db[p], pool[p]), TriageRecover
  PROVE  SeatStep(db, pool')
<1>1. \A p \in Proposals : Kept(db[p], Scoped[p]) /\ Scoped[p].status # "ACTIVE"
  BY ScopedKeeps, KeptTransitive DEF Kept, Alike, Actives, WithStatus
<1>2. CASE pool' = Archive(Scoped, Open(Scoped))
  <2>1. \A p \in Open(Scoped) : Scoped[p].status # "ACTIVE"
    BY <1>1 DEF Open, WithStatus
  <2>2. \A p \in Proposals : Kept(db[p], pool'[p])
    BY <1>1, <1>2, <2>1, ScopedKeeps, ArchiveKeeps, KeptTransitive
  <2> QED BY <2>2, KeptForgets DEF SeatStep
<1>3. CASE \E s \in Proposals : /\ WasPromoted(Scoped[s]) /\ Scoped[s].source = "minimax"
                                /\ Seated(pool'[s], Scoped[s])
                                /\ \A q \in Proposals \ {s} : pool'[q] = Scoped[q]
  <2>1. PICK s \in Proposals : /\ WasPromoted(Scoped[s]) /\ Scoped[s].source = "minimax"
                               /\ Seated(pool'[s], Scoped[s])
                               /\ \A q \in Proposals \ {s} : pool'[q] = Scoped[q]
    BY <1>3
  <2>2. \A q \in Proposals : /\ q # s => pool'[q].status # "ACTIVE"
                             /\ WasPromoted(pool'[q]) <=> WasPromoted(db[q])
                             /\ WasPromoted(db[q]) => /\ db[q].source = pool'[q].source
                                                      /\ db[q].score = pool'[q].score
    BY <1>1, <2>1 DEF Kept, Alike, Seated
  <2>3. Sits(db, pool', s)
    BY <2>1, <2>2, OneSits DEF Seated
  <2>4. Benched(pool') \subseteq Benched(db) \ {s}
    BY <1>1, <2>1 DEF Benched, WithStatus, Kept, Waits, Seated
  <2>5. Seat(db) = {}
    BY DEF Seat, Actives, WithStatus, Same, Alike
  <2>6. Strategy(pool'[s], s) \in Former(db)
    <3>1. Strategy(pool'[s], s) = Strategy(db[s], s) /\ WasPromoted(db[s])
      BY <2>1, <2>2 DEF Strategy, Seated
    <3> QED BY <3>1, FormerIds
  <2>7. pool'[s].source # "mock"
    BY <2>1 DEF Seated
  <2>8. Returned(db, pool', s)
    BY <2>3, <2>4, <2>5, <2>6, <2>7 DEF Returned
  <2> QED BY <2>8 DEF SeatStep
<1> QED BY <1>2, <1>3, RecoverRows

LEMMA PromoteStep ==
  ASSUME TypeOK, Held(db), Actives(pool) \subseteq {prev},
         \A p \in Proposals : Kept(db[p], pool[p]), PromoteExisting
  PROVE  SeatStep(db, pool')
<1>1. CASE pool' = pool
  BY <1>1, KeptForgets DEF SeatStep
<1>2. ASSUME NEW c \in Proposals,
             prev \in Proposals, pool[prev].source # "minimax",
             pool[c].status = "CANDIDATE", pool[c].source = "minimax",
             pool[c].score >= PromoteThreshold, pool[c].score >= pool[prev].score,
             Seated(pool'[c], pool[c]),
             prev # c => /\ pool'[prev].status = "ARCHIVED"
                         /\ pool'[prev].source = pool[prev].source
                         /\ pool'[prev].score = pool[prev].score
                         /\ pool'[prev].promotedAt = pool[prev].promotedAt,
             \A q \in Proposals \ {prev, c} : pool'[q] = pool[q]
      PROVE  SeatStep(db, pool')
  <2>1. \A q \in Proposals : /\ q # c => pool'[q].status # "ACTIVE"
                             /\ q # c => (WasPromoted(pool'[q]) <=> WasPromoted(db[q]))
                             /\ WasPromoted(db[q]) => /\ db[q].source = pool'[q].source
                                                      /\ db[q].score = pool'[q].score
    BY <1>2 DEF Actives, WithStatus, Kept, Alike, Seated, WasPromoted
  <2>2. Sits(db, pool', c)
    BY <1>2, <2>1, OneSits DEF Seated
  <2>3. Benched(pool') \subseteq Benched(db) \ {c}
    BY <1>2 DEF Benched, WithStatus, Kept, Waits, Seated
  <2>4. \A o \in Seat(db) : o.id # c /\ o.source = "mock" /\ o.score <= pool'[c].score
    <3> SUFFICES ASSUME NEW o \in Seat(db)
                 PROVE  o.id # c /\ o.source = "mock" /\ o.score <= pool'[c].score
      OBVIOUS
    <3>1. o.id \in Proposals /\ db[o.id].status = "ACTIVE" /\ WasPromoted(db[o.id])
      BY SeatRows DEF Actives, WithStatus, Held, HeldRow
    <3>2. pool[o.id].status = "ACTIVE"
      BY <3>1 DEF Kept, Alike
    <3>3. o.id = prev /\ o.id # c
      BY <1>2, <3>1, <3>2 DEF Actives, WithStatus
    <3>4. o.source = pool[prev].source /\ o.score = pool[prev].score
          /\ o.source \in {"mock", "minimax"}
      BY <3>1, <3>3, SeatRows DEF Kept, Alike, Held, HeldRow
    <3> QED BY <1>2, <3>3, <3>4 DEF Seated
  <2>5. CASE WasPromoted(db[c])
    <3>1. Strategy(pool'[c], c) = Strategy(db[c], c)
      BY <2>1, <2>5 DEF Strategy
    <3>2. Strategy(pool'[c], c) \in Former(db)
      BY <2>5, <3>1, FormerIds
    <3>3. pool'[c].source # "mock"
      BY <1>2 DEF Seated
    <3> QED BY <2>2, <2>3, <2>4, <3>2, <3>3 DEF SeatStep, Returned
  <2>6. CASE ~WasPromoted(db[c])
    <3>1. \A f \in Former(db) : f.id # c
      BY <2>6, FormerIds
    <3>2. pool'[c].score >= PromoteThreshold
      BY <1>2 DEF Seated
    <3> QED BY <2>2, <2>3, <2>4, <3>1, <3>2 DEF SeatStep, Appointed
  <2> QED BY <2>5, <2>6
<1> QED BY <1>1, <1>2, PromoteRows

LEMMA SwapStep ==
  ASSUME TypeOK, Held(db), SwapIsFair, promoted \in Proposals,
         NEW P, P = IF prev # None THEN Archive(pool, {prev}) ELSE pool,
         Actives(pool) \subseteq {prev, promoted}
  PROVE  SeatStep(db, P)
<1>1. \A q \in Proposals :
        /\ P[q].source = pool[q].source /\ P[q].score = pool[q].score
        /\ P[q].promotedAt = pool[q].promotedAt
        /\ P[q].status = IF q = prev THEN "ARCHIVED" ELSE pool[q].status
  BY ArchiveRows, PoolAssumption DEF TypeOK
<1>2. P[promoted].status = "ACTIVE" /\ WasPromoted(P[promoted])
  BY <1>1 DEF SwapIsFair, WasPromoted
<1>3. \A q \in Proposals : /\ q # promoted => P[q].status # "ACTIVE"
                           /\ q # promoted => (WasPromoted(P[q]) <=> WasPromoted(db[q]))
                           /\ WasPromoted(db[q]) => /\ db[q].source = P[q].source
                                                    /\ db[q].score = P[q].score
  BY <1>1 DEF Actives, WithStatus, SwapIsFair, Same, Alike, WasPromoted
<1>4. Sits(db, P, promoted)
  BY <1>2, <1>3, OneSits
<1>5. Benched(P) \subseteq Benched(db)
  <2> SUFFICES ASSUME NEW q \in Proposals, Waits(P[q]) PROVE Waits(db[q])
    BY DEF Benched, WithStatus, Waits
  <2>1. q # promoted /\ q # prev
    BY <1>1, <1>2 DEF Waits
  <2>2. Waits(pool[q])
    BY <1>1, <2>1 DEF Waits, WasPromoted
  <2> QED BY <2>1, <2>2 DEF SwapIsFair, Same
<1>6. \A f \in Former(db) : f.id # promoted
  BY FormerIds DEF SwapIsFair
<1>7. \A o \in Seat(db) :
        o.source = "mock" \/ /\ P[promoted].promotedAt.day - o.since >= CooldownDays
                             /\ P[promoted].score >= o.score + ChallengerMinDelta
  <2> SUFFICES ASSUME NEW o \in Seat(db), o.source # "mock"
               PROVE  /\ P[promoted].promotedAt.day - o.since >= CooldownDays
                      /\ P[promoted].score >= o.score + ChallengerMinDelta
    OBVIOUS
  <2>1. /\ o.id \in Actives(db) /\ o.source = db[o.id].source
        /\ o.score = db[o.id].score /\ o.since = db[o.id].promotedAt.day
    BY SeatRows
  <2>2. /\ pool[promoted].promotedAt.day - db[o.id].promotedAt.day >= CooldownDays
        /\ pool[promoted].score >= db[o.id].score + ChallengerMinDelta
    BY <2>1 DEF SwapIsFair
  <2> QED BY <1>1, <2>1, <2>2
<1>8. P[promoted].score >= PromoteThreshold
  BY <1>1 DEF SwapIsFair
<1> QED BY <1>4, <1>5, <1>6, <1>7, <1>8 DEF SeatStep, Appointed

\* The rule that made the newcomer active, said of the two scores and days.
LEMMA FairPromotion ==
  ASSUME NEW r, NEW a, NEW m, NEW d \in Int, GovernanceStatus(r, a, m, d) = "ACTIVE",
         r.score \in Int, a.score \in Int, a.promotedDay \in Int, a # NoActive
  PROVE  \/ a.source = "mock"
         \/ d - a.promotedDay >= CooldownDays /\ r.score >= a.score + ChallengerMinDelta
<1>1. CanChallengeActive(r, a, d)
  BY ActiveMeansAllowed DEF PromoteAllowed
<1> QED
  BY <1>1, GovernanceAssumption DEF CanChallengeActive, CooldownRemaining, ReplacingMockActive

LEMMA InsertStep ==
  ASSUME TypeOK, SeatInv, Held(db), Held(pool), RefInv,
         NEW p \in Proposals, NEW review \in Reviews, Insert(p, review)
  PROVE  RefInv'
<1> DEFINE status == GovernanceStatus(review, Incumbent, macro, day)
<1>1. /\ p \in Free(pool) /\ pc = "symbol" /\ pc' = pc /\ prev' = prev /\ db' = db
      /\ source \in {"none", review.source}
      /\ promoted' = IF status = "ACTIVE" THEN p ELSE promoted
  BY DEF Insert
<1>2. /\ pool'[p].status = status
      /\ pool'[p].score = review.score
      /\ pool'[p].promotedAt = IF status = "ACTIVE" THEN Stamp(turn) ELSE Never
      /\ \A q \in Proposals \ {p} : pool'[q] = pool[q]
  BY DEF Insert, TypeOK
<1>3. pool[p].status \in {"none", "ARCHIVED"} /\ ~WasPromoted(pool[p])
  BY <1>1 DEF Free, Held, HeldRow
<1>4. prev # None => prev # p /\ prev \in Proposals /\ pool'[prev].status = "ACTIVE"
  BY <1>1, <1>2, <1>3 DEF RefInv, TypeOK
<1>5. promoted # None => promoted # p /\ promoted \in Proposals
  BY <1>3 DEF SeatInv, SwapInProgress, TypeOK
<1>6. Same(db[p], pool[p])
  BY <1>1, <1>5 DEF RefInv, SwapIsFair
<1>7. status \in {"ACTIVE", "CANDIDATE", "REJECTED"} /\ (status = "ACTIVE" => promoted = None)
  BY <1>1, StatusType, SecondBlueprint DEF SeatInv
<1>8. CASE status # "ACTIVE"
  <2>1. Same(db[p], pool'[p])
    BY <1>2, <1>3, <1>6, <1>8 DEF Same, Alike, Waits, WasPromoted
  <2>2. promoted' = promoted
    BY <1>1, <1>8
  <2>3. CASE promoted = None
    <3>1. \A q \in Proposals : Same(db'[q], pool'[q])
      BY <1>1, <1>2, <2>1, <2>3 DEF RefInv
    <3> QED BY <1>1, <1>4, <2>2, <2>3, <3>1 DEF RefInv
  <2>4. CASE promoted # None
    <3>1. SwapIsFair /\ pool'[promoted] = pool[promoted]
      BY <1>2, <1>5, <2>4 DEF RefInv
    <3>2. \A q \in Proposals \ {promoted'} : Same(db'[q], pool'[q])
      BY <1>1, <1>2, <2>1, <2>2, <3>1 DEF SwapIsFair
    <3>3. SwapIsFair'
      BY <1>1, <2>2, <3>1, <3>2 DEF SwapIsFair, Actives, WithStatus
    <3> QED BY <1>1, <1>4, <2>2, <2>4, <3>3 DEF RefInv
  <2> QED BY <2>3, <2>4
<1>9. CASE status = "ACTIVE"
  <2>1. promoted = None /\ promoted' = p /\ p # None
    BY <1>1, <1>7, <1>9, PoolAssumption
  <2>2. \A q \in Proposals : Same(db[q], pool[q])
    BY <1>1, <2>1 DEF RefInv
  <2>3. Stamp(turn) # Never /\ Stamp(turn).day = day /\ day \in Int
    BY StampType DEF TypeOK
  <2>4. review.score \in Int /\ review.score >= PromoteThreshold
    BY <1>9, ActiveMeansAllowed, PoolAssumption DEF PromoteAllowed
  <2>5. ASSUME NEW o \in Actives(db)
        PROVE  /\ o = prev
               /\ \/ db[o].source = "mock"
                  \/ /\ day - db[o].promotedAt.day >= CooldownDays
                     /\ review.score >= db[o].score + ChallengerMinDelta
    <3>1. o \in Proposals /\ pool[o].status = "ACTIVE" /\ WasPromoted(db[o])
      BY <2>2 DEF Actives, WithStatus, Same, Alike, Held, HeldRow
    <3>2. o = prev /\ prev # None
      BY <1>1, <2>1, <3>1, PoolAssumption
      DEF SeatInv, PreviousActiveTracked, Actives, WithStatus
    <3>3. Incumbent = [source |-> pool[o].source, score |-> pool[o].score,
                       promotedDay |-> pool[o].promotedAt.day]
      BY <2>1, <3>2 DEF Incumbent, Context
    <3>4. /\ pool[o].source = db[o].source /\ pool[o].score = db[o].score
          /\ pool[o].promotedAt = db[o].promotedAt
      BY <2>2, <3>1 DEF Same, Alike
    <3>5. /\ db[o].score \in Int /\ db[o].promotedAt.day \in Int
          /\ db[o].source \in {"mock", "minimax"}
      BY <3>1 DEF TypeOK, Row, Stamps, Held, HeldRow
    <3>6. /\ Incumbent.source = db[o].source /\ Incumbent.score = db[o].score
          /\ Incumbent.promotedDay = db[o].promotedAt.day
          /\ Incumbent # NoActive
      BY <3>3, <3>4, <3>5 DEF NoActive
    <3>7. \/ db[o].source = "mock"
          \/ /\ day - db[o].promotedAt.day >= CooldownDays
             /\ review.score >= db[o].score + ChallengerMinDelta
      BY <1>9, <2>3, <2>4, <3>5, <3>6, FairPromotion
    <3> QED BY <3>2, <3>7
  <2>6. /\ pool'[p].status = "ACTIVE" /\ pool'[p].score = review.score
        /\ pool'[p].promotedAt = Stamp(turn)
    BY <1>2, <1>9
  <2>7. ~WasPromoted(db[p]) /\ db[p].status # "ACTIVE"
    BY <1>3, <1>6 DEF Same, Alike
  <2>8. \A q \in Proposals \ {p} : Same(db'[q], pool'[q])
    BY <1>1, <1>2, <2>2
  <2>9. promoted' # prev'
    BY <1>1, <1>4, <2>1
  <2>10. SwapIsFair'
    BY <1>1, <2>1, <2>3, <2>4, <2>5, <2>6, <2>7, <2>8, <2>9
    DEF SwapIsFair, WasPromoted, Actives, WithStatus
  <2> QED BY <1>1, <1>4, <2>1, <2>10 DEF RefInv
<1> QED BY <1>8, <1>9

\* Outside a materialize call the session is one step of the seat away at most.
LEMMA PendingStep ==
  ASSUME TypeOK, SeatInv, HeldInv, RefInv, promoted = None
  PROVE  SeatStep(db, pool)
<1>1. pc \in {"idle", "triage", "health", "agents", "symbol", "prune", "promote",
              "assign", "final", "finish", "raised"}
  BY DEF TypeOK
<1>2. \/ pc \in {"agents", "assign", "raised", "finish"}
      \/ \A p \in Proposals : Kept(db[p], pool[p])
  BY <1>1, SameIsKept DEF RefInv
<1> QED BY <1>2, KeptForgets DEF HeldInv, RefInv, SeatStep

LEMMA TriageStep ==
  ASSUME TypeOK, SeatInv, HeldInv, RefInv,
         TriageForced \/ TriageRecover \/ TriageHealth \/ TriageEmpty
  PROVE  RefInv' /\ (db' = db \/ SeatStep(db, db'))
<1>1. /\ pc = "triage" /\ promoted = None /\ promoted' = None
      /\ Actives(pool) \subseteq {prev} /\ OneActive(pool)
      /\ Held(db) /\ Held(pool)
  <2>1. pc = "triage" /\ promoted' = promoted
    BY DEF TriageForced, TriageRecover, TriageHealth, TriageEmpty, callVars
  <2>2. promoted = None
    BY <2>1 DEF SeatInv, SwapInProgress
  <2> QED
    BY <2>1, <2>2, PoolAssumption
    DEF SeatInv, PreviousActiveTracked, HeldInv, Actives, WithStatus
<1>2. \A p \in Proposals : Same(db[p], pool[p])
  BY <1>1 DEF RefInv
<1>3. Scoped \in [Proposals -> Row] /\ \A p \in Proposals : Kept(db[p], Scoped[p])
  BY <1>2, ScopedKeeps, KeptTransitive
<1>4. \A p \in Proposals : pool[p].status = "ACTIVE" <=> Scoped[p].status = "ACTIVE"
  BY ScopedKeeps DEF Kept, Alike
<1>5. CASE TriageForced \/ TriageEmpty
  <2>1. PICK S : pool' = Archive(Scoped, S) /\ \A p \in S : Scoped[p].status # "ACTIVE"
    <3>1. CASE TriageForced /\ prev # None
      BY <3>1 DEF TriageForced, Actives, WithStatus, Open
    <3>2. CASE TriageForced /\ prev = None
      <4>1. \A p \in Proposals : pool[p].status # "ACTIVE"
        BY <1>1, <3>2, PoolAssumption DEF Actives, WithStatus
      <4> QED BY <1>4, <3>2, <4>1 DEF TriageForced, Open, WithStatus
    <3>3. CASE TriageEmpty
      <4>1. Scoped = Archive(Scoped, {})
        BY <1>3 DEF Archive
      <4>2. pool' = Archive(Scoped, {}) /\ \A p \in {} : Scoped[p].status # "ACTIVE"
        BY <3>3, <4>1 DEF TriageEmpty
      <4> QED BY <4>2
    <3> QED BY <1>5, <3>1, <3>2, <3>3
  <2>2. \A p \in Proposals : Kept(Scoped[p], pool'[p])
    BY <1>3, <2>1, ArchiveKeeps
  <2>3. SeatStep(db, pool')
    BY <1>1, <1>3, <2>2, KeptTransitive, KeptForgets DEF SeatStep
  <2>4. /\ pc' = "agents" /\ db' = db /\ prev' = prev
    BY <1>5 DEF TriageForced, TriageEmpty
  <2>5. prev # None => prev \in Proposals /\ pool'[prev].status = "ACTIVE"
    BY <1>1, <1>4, <2>2 DEF RefInv, TypeOK, Kept, Alike
  <2> QED BY <1>1, <2>3, <2>4, <2>5 DEF RefInv
<1>6. CASE TriageRecover
  <2>1. Actives(pool) = {}
    BY <1>1, <1>6, PoolAssumption DEF TriageRecover, Actives, WithStatus
  <2>2. SeatStep(db, pool')
    BY <1>1, <1>2, <1>6, <2>1, RecoverStep
  <2>3. prev' # None => prev' \in Actives(pool')
    BY <1>6, RecoverRows, ActiveStrategyType
  <2>4. pc' = "agents" /\ db' = db
    BY <1>6 DEF TriageRecover
  <2>5. prev' # None => pool'[prev'].status = "ACTIVE"
    BY <2>3 DEF Actives, WithStatus
  <2>6. SeatStep(db', pool')
    BY <2>2, <2>4
  <2> QED BY <1>1, <2>4, <2>5, <2>6 DEF RefInv
<1>7. CASE TriageHealth
  <2>1. pool' = Scoped /\ db' = pool' /\ pc' = "health"
    BY <1>7 DEF TriageHealth, Commit
  <2>2. SeatStep(db, db')
    BY <1>1, <1>3, <2>1, KeptForgets DEF SeatStep
  <2>3. \A p \in Proposals : Same(db'[p], pool'[p])
    BY <2>1 DEF Same, Alike
  <2> QED BY <1>1, <2>1, <2>2, <2>3 DEF RefInv
<1> QED BY <1>5, <1>6, <1>7

LEMMA FinishSymbolStep ==
  ASSUME TypeOK, SeatInv, HeldInv, RefInv, FinishSymbol
  PROVE  RefInv' /\ SeatStep(db, db')
<1>1. /\ pc = "symbol" /\ pc' \in {"symbol", "prune"} /\ db' = pool' /\ promoted' = None
      /\ prev' \in ActiveStrategy(pool')
  BY DEF FinishSymbol, Commit
<1>2. SeatStep(db, pool')
  <2>1. CASE promoted = None
    BY <2>1, PendingStep DEF FinishSymbol
  <2>2. CASE promoted # None
    <3>1. SwapIsFair /\ promoted \in Proposals
      BY <2>2 DEF RefInv, TypeOK
    <3>2. Actives(pool) \subseteq {prev, promoted}
      BY <1>1 DEF SeatInv, PreviousActiveTracked
    <3>3. pool' = IF prev # None THEN Archive(pool, {prev}) ELSE pool
      BY <2>2 DEF FinishSymbol
    <3>4. Held(db)
      BY DEF HeldInv
    <3> QED BY <3>1, <3>2, <3>3, <3>4, SwapStep
  <2> QED BY <2>1, <2>2
<1>3. SeatStep(db, db')
  BY <1>1, <1>2
<1>4. \A p \in Proposals : Same(db'[p], pool'[p])
  BY <1>1 DEF Same, Alike
<1>5. prev' # None => pool'[prev'].status = "ACTIVE"
  BY <1>1, ActiveStrategyType DEF Actives, WithStatus
<1> QED BY <1>1, <1>3, <1>4, <1>5 DEF RefInv

LEMMA PruneStep ==
  ASSUME TypeOK, SeatInv, HeldInv, RefInv, Prune \/ PruneRaises
  PROVE  RefInv' /\ db' = db
<1>1. /\ pc = "prune" /\ pc' \in {"promote", "raised"} /\ db' = db /\ promoted' = promoted
      /\ prev' = prev
  BY DEF Prune, PruneRaises, callVars
<1>2. promoted = None
  BY <1>1 DEF SeatInv, SwapInProgress
<1>3. \A p \in Survivors : pool[p].status = "CANDIDATE"
  BY DEF Survivors, PruneScope, WithStatus
<1>4. \A p \in StaleRejected \cup Aged : pool[p].status \in {"REJECTED", "CANDIDATE"}
  BY DEF StaleRejected, Aged, PruneScope, WithStatus
<1>5. PICK S : pool' = Archive(pool, S) /\ \A p \in S : pool[p].status # "ACTIVE"
  <2>1. CASE Prune
    BY <1>3, <1>4, <2>1 DEF Prune
  <2>2. CASE PruneRaises
    BY <1>4, <2>2 DEF PruneRaises
  <2> QED BY <2>1, <2>2
<1>6. \A p \in Proposals : Kept(db[p], pool'[p])
  BY <1>1, <1>5, ArchiveKeeps, KeptTransitive DEF RefInv, TypeOK
<1>7. SeatStep(db', pool')
  BY <1>1, <1>6, KeptForgets DEF HeldInv, SeatStep
<1>8. prev # None => pool'[prev].status = "ACTIVE"
  <2>1. prev # None => prev \in Proposals /\ pool[prev].status = "ACTIVE"
    BY <1>1 DEF RefInv, TypeOK
  <2> QED BY <1>5, <2>1, ArchiveRows DEF TypeOK
<1> QED BY <1>1, <1>2, <1>6, <1>7, <1>8 DEF RefInv

LEMMA RefInit == Init => Abstract!Init /\ RefInv
<1> SUFFICES ASSUME Init PROVE Abstract!Init /\ RefInv
  OBVIOUS
<1>1. \A p \in Proposals : db[p] = Vacant /\ pool[p] = Vacant
  BY DEF Init
<1>2. \A p \in Proposals : db[p].status = "none" /\ ~WasPromoted(db[p])
  BY <1>1 DEF Vacant, WasPromoted
<1>3. Seat(db) = {} /\ Former(db) = {} /\ Benched(db) = {}
  BY <1>2 DEF Seat, Former, Benched, Actives, WithStatus
<1>4. \A p \in Proposals : Same(db[p], pool[p])
  BY <1>1 DEF Same, Alike
<1> QED BY <1>3, <1>4 DEF Abstract!Init, RefInv, Init

LEMMA RefInvariant ==
  ASSUME RaisesMidSwap = FALSE, TypeOK, SeatInv, HeldInv, RefInv, [Next]_vars
  PROVE  RefInv' /\ (db' = db \/ SeatStep(db, db'))
<1>1. pc # "symbol" => promoted = None /\ OneActive(pool)
  BY DEF SeatInv, SwapInProgress
<1>2. Held(db) /\ Held(pool)
  BY DEF HeldInv
<1>3. ASSUME NEW b \in Batches, Begin(b) PROVE RefInv' /\ db' = db
  <2>1. /\ pc = "idle" /\ pc' = "triage" /\ db' = db /\ pool' = pool /\ promoted' = promoted
        /\ prev' \in ActiveStrategy(pool)
    BY <1>3 DEF Begin, callVars
  <2>2. prev' # None => pool'[prev'].status = "ACTIVE"
    BY <2>1, ActiveStrategyType DEF Actives, WithStatus
  <2> QED BY <1>1, <2>1, <2>2 DEF RefInv
<1>4. ASSUME NEW drawdown \in Drawdowns, HealthFirst(drawdown) PROVE RefInv' /\ db' = db
  <2>1. /\ pc = "health" /\ pc' = "agents" /\ db' = db /\ promoted' = promoted
        /\ prev' \in ActiveStrategy(pool') /\ EvaluateHealth(drawdown)
    BY <1>4 DEF HealthFirst, callVars
  <2>2. SeatStep(db, pool')
    BY <1>1, <1>2, <2>1, HealthStep DEF RefInv
  <2>3. prev' # None => pool'[prev'].status = "ACTIVE"
    BY <2>1, ActiveStrategyType DEF Actives, WithStatus
  <2>4. SeatStep(db', pool')
    BY <2>1, <2>2
  <2> QED BY <1>1, <2>1, <2>3, <2>4 DEF RefInv
<1>5. ASSUME NEW drawdown \in Drawdowns, HealthLast(drawdown) PROVE RefInv' /\ db' = db
  <2>1. /\ pc = "final" /\ pc' = "finish" /\ db' = db /\ promoted' = promoted
        /\ EvaluateHealth(drawdown)
    BY <1>5 DEF HealthLast, callVars
  <2>2. SeatStep(db, pool')
    BY <1>1, <1>2, <2>1, HealthStep DEF RefInv
  <2>3. SeatStep(db', pool')
    BY <2>1, <2>2
  <2> QED BY <1>1, <2>1, <2>3 DEF RefInv
<1>6. CASE Agents
  <2>1. /\ pc = "agents" /\ pc' = "symbol" /\ pool' = pool /\ db' = pool
        /\ prev' = prev /\ promoted' = promoted
    BY <1>6 DEF Agents, Commit, callVars
  <2>2. SeatStep(db, db')
    BY <1>1, <2>1, PendingStep
  <2>3. \A p \in Proposals : Same(db'[p], pool'[p])
    BY <2>1 DEF Same, Alike
  <2>4. prev' # None => pool'[prev'].status = "ACTIVE"
    BY <2>1 DEF RefInv
  <2> QED BY <1>1, <2>1, <2>2, <2>3, <2>4 DEF RefInv
<1>7. ASSUME NEW p \in Proposals, NEW review \in Reviews, Insert(p, review)
      PROVE  RefInv' /\ db' = db
  BY <1>2, <1>7, InsertStep DEF Insert
<1>8. CASE PromoteExisting
  <2>1. pc = "promote" /\ pc' = "assign" /\ db' = db /\ promoted' = promoted
    BY <1>8 DEF PromoteExisting, callVars
  <2>2. Actives(pool) \subseteq {prev}
    BY <1>1, <2>1, PoolAssumption DEF SeatInv, PreviousActiveTracked, Actives, WithStatus
  <2>3. SeatStep(db, pool')
    BY <1>2, <1>8, <2>1, <2>2, PromoteStep DEF RefInv
  <2>4. SeatStep(db', pool')
    BY <2>1, <2>3
  <2> QED BY <1>1, <2>1, <2>4 DEF RefInv
<1>9. CASE AssignSlots
  <2>1. pc = "assign" /\ pool' = pool /\ promoted' = promoted
    BY <1>9 DEF AssignSlots, callVars
  <2>2. CASE pc' = "raised" /\ db' = db
    <3>1. SeatStep(db', pool')
      BY <2>1, <2>2 DEF RefInv
    <3> QED BY <1>1, <2>1, <2>2, <3>1 DEF RefInv
  <2>3. CASE pc' = "final" /\ db' = pool
    <3>1. SeatStep(db, db')
      BY <1>1, <2>1, <2>3, PendingStep
    <3>2. \A p \in Proposals : Same(db'[p], pool'[p])
      BY <2>1, <2>3 DEF Same, Alike
    <3> QED BY <1>1, <2>1, <2>3, <3>1, <3>2 DEF RefInv
  <2> QED BY <1>9, <2>1, <2>2, <2>3 DEF AssignSlots, Commit
<1>10. CASE Finish \/ FailCommitting \/ LoseSession
  <2>1. pc' = "idle" /\ promoted' = None
    BY <1>10, OverType DEF Finish, FailCommitting, LoseSession
  <2>2. db' = pool'
    BY <1>10 DEF Finish, FailCommitting, LoseSession, Commit
  <2>3. \A p \in Proposals : Same(db'[p], pool'[p])
    BY <2>2 DEF Same, Alike
  <2>4. RefInv'
    BY <2>1, <2>3 DEF RefInv
  <2>5. CASE Finish \/ FailCommitting
    <3>1. promoted = None /\ db' = pool
      BY <1>1, <2>5 DEF Finish, FailCommitting, Commit
    <3>2. SeatStep(db, db')
      BY <3>1, PendingStep
    <3> QED BY <2>4, <3>2
  <2>6. CASE LoseSession
    BY <2>4, <2>6 DEF LoseSession
  <2> QED BY <1>10, <2>5, <2>6
<1>11. CASE BoundReached \/ UNCHANGED vars
  <2>1. /\ db' = db /\ pool' = pool /\ pc' = pc /\ prev' = prev /\ promoted' = promoted
    BY <1>11 DEF BoundReached, vars, callVars
  <2>2. SwapIsFair => SwapIsFair'
    BY <2>1 DEF SwapIsFair, Actives, WithStatus
  <2>3. SeatStep(db, pool) => SeatStep(db', pool')
    BY <2>1
  <2> QED BY <2>1, <2>2, <2>3 DEF RefInv
<1> QED
  BY <1>3, <1>4, <1>5, <1>6, <1>7, <1>8, <1>9, <1>10, <1>11, TriageStep, FinishSymbolStep,
     PruneStep
  DEF Next

-----------------------------------------------------------------------------

(* The committed proposal table is the seat of ActiveSeat: whatever a sync *)
(* does between two commits, and wherever an exception or a death of the   *)
(* process ends it, other than in the middle of a replacement, the readers *)
(* of the table see the seat change hands at most once, and then by an     *)
(* appointment that clears the threshold, cooldown and margin, the return  *)
(* of a real former holder, a rollback or a pause.                         *)
THEOREM PoolImplementsSeat ==
  ASSUME RaisesMidSwap = FALSE
  PROVE  Spec => ImplementsSeat
<1>1. Init => Abstract!Init /\ RefInv
  BY RefInit
<1>2. TypeOK /\ SeatInv /\ HeldInv /\ RefInv /\ [Next]_vars
      => RefInv' /\ [Abstract!Next]_(Abstract!vars)
  <2> SUFFICES ASSUME TypeOK, SeatInv, HeldInv, RefInv, [Next]_vars
               PROVE  RefInv' /\ [Abstract!Next]_(Abstract!vars)
    OBVIOUS
  <2>1. RefInv' /\ (db' = db \/ SeatStep(db, db'))
    BY RefInvariant
  <2>2. db' = db => UNCHANGED Abstract!vars
    BY DEF Abstract!vars, Seat, Former, Benched, Actives, WithStatus
  <2> QED BY <2>1, <2>2, AbstractStep
<1> QED
  BY <1>1, <1>2, TypeInvariant, SeatInvariant, HeldInvariant, PTL
  DEF Spec, ImplementsSeat, Abstract!Spec

-----------------------------------------------------------------------------
(* A sync that may also be struck in the middle of a replacement.  The     *)
(* committed table may then hold two ACTIVE rows, and the invariants of    *)
(* the seat hold only of a sync that starts from one; what holds of every  *)
(* sync is that previous_active, where the sync relies on it, is ACTIVE in *)
(* its session.                                                            *)

Seating == {"triage", "agents", "symbol", "prune", "promote", "assign"}

PreviousIsActive ==
  pc \in Seating =>
    IF prev = None THEN Actives(pool) \subseteq {promoted} ELSE prev \in Actives(pool)

SessionInv == SwapInProgress /\ PreviousIsActive

DoubleInv == SessionInv /\ (AtMostOneActive => SeatInv)

\* A strategy read by get_active_strategy is what PreviousIsActive says.
LEMMA PreviousRead ==
  ASSUME promoted' = None, prev' \in ActiveStrategy(pool')
  PROVE  SessionInv'
<1>1. IF prev' = None THEN Actives(pool') = {} ELSE prev' \in Actives(pool')
  BY ActiveStrategyType
<1> QED BY <1>1 DEF SessionInv, SwapInProgress, PreviousIsActive

LEMMA ScopedActives == ASSUME TypeOK PROVE Actives(Scoped) = Actives(pool)
<1> DEFINE S == (Open(pool) \ Actives(pool)) \ InScope(pool, ScopeSymbol)
<1>1. Actives(Scoped) = Actives(pool) \ S
  BY ArchiveActives DEF Scoped, TypeOK
<1>2. S \cap Actives(pool) = {}
  OBVIOUS
<1> HIDE DEF S
<1> QED BY <1>1, <1>2

LEMMA TriageSession ==
  ASSUME TypeOK, SessionInv, TriageForced \/ TriageRecover \/ TriageHealth \/ TriageEmpty
  PROVE  SessionInv'
<1>1. pc = "triage" /\ promoted = None
  BY DEF TriageForced, TriageRecover, TriageHealth, TriageEmpty, SessionInv, SwapInProgress
<1>2. promoted' = None /\ pc' \in {"agents", "health"}
  BY <1>1 DEF TriageForced, TriageRecover, TriageHealth, TriageEmpty, callVars
<1>3. /\ prev = None => Actives(pool) = {}
      /\ prev # None => prev \in Actives(pool)
  BY <1>1, PoolAssumption DEF SessionInv, PreviousIsActive, Seating, Actives, WithStatus
<1>4. Scoped \in [Proposals -> Row] /\ Actives(Scoped) = Actives(pool)
  BY ScopedKeeps, ScopedActives
<1>5. ASSUME prev' = prev, Actives(pool') = Actives(pool) PROVE SessionInv'
  BY <1>2, <1>3, <1>5 DEF SessionInv, SwapInProgress, PreviousIsActive
<1>6. CASE TriageForced
  <2> DEFINE S == IF prev # None THEN Open(Scoped) \ Actives(Scoped) ELSE Open(Scoped)
  <2>1. pool' = Archive(Scoped, S) /\ prev' = prev
    BY <1>6 DEF TriageForced
  <2>2. S \cap Actives(Scoped) = {}
    BY <1>3, <1>4
  <2> HIDE DEF S
  <2>3. Actives(pool') = Actives(Scoped)
    BY <1>4, <2>1, <2>2, ArchiveActives
  <2> QED BY <1>4, <1>5, <2>1, <2>3
<1>7. CASE TriageRecover
  <2>1. CASE pool' = Archive(Scoped, Open(Scoped)) /\ prev' = None
    <3>1. Actives(pool') = Actives(Scoped) \ Open(Scoped)
      BY <1>4, <2>1, ArchiveActives
    <3>2. Actives(pool') = {}
      BY <3>1 DEF Actives, Open, WithStatus
    <3> QED BY <1>2, <2>1, <3>2 DEF SessionInv, SwapInProgress, PreviousIsActive
  <2>2. CASE prev' \in ActiveStrategy(pool')
    BY <1>2, <2>2, PreviousRead
  <2> QED BY <1>7, <2>1, <2>2, RecoverRows
<1>8. CASE TriageHealth
  <2>1. pc' = "health"
    BY <1>8 DEF TriageHealth
  <2> QED BY <1>2, <2>1 DEF SessionInv, SwapInProgress, PreviousIsActive, Seating
<1>9. CASE TriageEmpty
  <2>1. pool' = Scoped /\ prev' = prev
    BY <1>9 DEF TriageEmpty
  <2>2. Actives(pool') = Actives(pool)
    BY <1>4, <2>1
  <2> QED BY <1>5, <2>1, <2>2
<1> QED BY <1>6, <1>7, <1>8, <1>9

LEMMA InsertSession ==
  ASSUME TypeOK, SessionInv, NEW p \in Proposals, NEW review \in Reviews, Insert(p, review)
  PROVE  SessionInv'
<1> DEFINE status == GovernanceStatus(review, Incumbent, macro, day)
<1>1. /\ p \in Free(pool) /\ pc = "symbol" /\ pc' = pc /\ prev' = prev
      /\ source \in {"none", review.source} /\ source' = review.source /\ day' = day
      /\ promoted' = IF status = "ACTIVE" THEN p ELSE promoted
  BY DEF Insert, timeVars
<1>2. /\ pool'[p].status = status
      /\ pool'[p].source = review.source
      /\ pool'[p].promotedAt = IF status = "ACTIVE" THEN Stamp(turn) ELSE Never
      /\ \A q \in Proposals \ {p} : pool'[q] = pool[q]
  BY DEF Insert, TypeOK
<1>3. p \notin Actives(pool)
  BY <1>1 DEF Free, Actives, WithStatus
<1>4. Stamp(turn).day = day
  BY DEF Stamp
<1>5. review.source \in {"mock", "minimax"}
  BY PoolAssumption
<1>6. IF prev = None THEN Actives(pool) \subseteq {promoted} ELSE prev \in Actives(pool)
  BY <1>1 DEF SessionInv, PreviousIsActive, Seating
<1>7. status = "ACTIVE" => promoted = None
  BY <1>1, SecondBlueprint DEF SessionInv
<1> HIDE DEF status
<1>8. CASE status = "ACTIVE"
  <2>1. promoted' = p /\ promoted = None
    BY <1>1, <1>7, <1>8
  <2>2. SwapInProgress'
    BY <1>1, <1>2, <1>4, <1>5, <1>8, <2>1 DEF SwapInProgress
  <2>3. IF prev' = None THEN Actives(pool') \subseteq {promoted'} ELSE prev' \in Actives(pool')
    <3>1. CASE prev = None
      <4>1. Actives(pool) = {}
        BY <1>6, <2>1, <3>1, PoolAssumption DEF Actives, WithStatus
      <4>2. Actives(pool') \subseteq {p}
        BY <1>2, <4>1 DEF Actives, WithStatus
      <4> QED BY <1>1, <2>1, <3>1, <4>2
    <3>2. CASE prev # None
      <4>1. prev \in Actives(pool')
        BY <1>2, <1>3, <1>6, <3>2 DEF Actives, WithStatus
      <4> QED BY <1>1, <3>2, <4>1
    <3> QED BY <3>1, <3>2
  <2> QED BY <2>2, <2>3 DEF SessionInv, PreviousIsActive
<1>9. CASE status # "ACTIVE"
  <2>1. promoted' = promoted
    BY <1>1, <1>9
  <2>2. Actives(pool') = Actives(pool)
    BY <1>2, <1>3, <1>9 DEF Actives, WithStatus
  <2>3. promoted # None => promoted \in Proposals \ {p}
    BY <1>3 DEF SessionInv, SwapInProgress, TypeOK, Actives, WithStatus
  <2>4. promoted # None => pool'[promoted] = pool[promoted] /\ source' = source
    BY <1>1, <1>2, <2>3 DEF SessionInv, SwapInProgress
  <2>5. SwapInProgress'
    BY <1>1, <2>1, <2>4 DEF SessionInv, SwapInProgress
  <2>6. IF prev' = None THEN Actives(pool') \subseteq {promoted'} ELSE prev' \in Actives(pool')
    BY <1>1, <1>6, <2>1, <2>2
  <2> QED BY <2>5, <2>6 DEF SessionInv, PreviousIsActive
<1> QED BY <1>8, <1>9

LEMMA PruneSparesActive ==
  ASSUME TypeOK, Prune \/ PruneRaises
  PROVE  \E S : pool' = Archive(pool, S) /\ S \cap Actives(pool) = {}
<1>1. (StaleRejected \cup Aged \cup Survivors) \cap Actives(pool) = {}
  BY DEF StaleRejected, Aged, Survivors, PruneScope, Actives, WithStatus
<1>2. CASE Prune
  <2>1. PICK kept : pool' = Archive(pool, StaleRejected \cup Aged
                              \cup {q \in Survivors \ kept : ~Protected(pool[q])})
    BY <1>2 DEF Prune
  <2> DEFINE S == StaleRejected \cup Aged \cup {q \in Survivors \ kept : ~Protected(pool[q])}
  <2>2. S \cap Actives(pool) = {}
    BY <1>1
  <2> HIDE DEF S
  <2>3. pool' = Archive(pool, S)
    BY <2>1 DEF S
  <2> QED BY <2>2, <2>3
<1>3. CASE PruneRaises
  BY <1>1, <1>3 DEF PruneRaises
<1> QED BY <1>2, <1>3

LEMMA PruneSession ==
  ASSUME TypeOK, SessionInv, Prune
  PROVE  SessionInv'
<1>1. /\ pc = "prune" /\ pc' = "promote" /\ prev' = prev /\ promoted' = promoted
  BY DEF Prune, callVars
<1>2. PICK S : pool' = Archive(pool, S) /\ S \cap Actives(pool) = {}
  BY PruneSparesActive
<1>3. Actives(pool') = Actives(pool)
  BY <1>2, ArchiveActives DEF TypeOK
<1> QED BY <1>1, <1>3 DEF SessionInv, SwapInProgress, PreviousIsActive, Seating

LEMMA PromoteSession ==
  ASSUME TypeOK, SessionInv, PromoteExisting
  PROVE  SessionInv'
<1>1. /\ pc = "promote" /\ pc' = "assign" /\ promoted' = promoted
  BY DEF PromoteExisting, callVars
<1>2. promoted = None
  BY <1>1 DEF SessionInv, SwapInProgress
<1>3. CASE pool' = pool /\ prev' = prev
  BY <1>1, <1>2, <1>3
  DEF SessionInv, SwapInProgress, PreviousIsActive, Seating, Actives, WithStatus
<1>4. ASSUME NEW c \in Proposals, prev' = c, Seated(pool'[c], pool[c]) PROVE SessionInv'
  <2>1. c \in Actives(pool') /\ c # None
    BY <1>4, PoolAssumption DEF Seated, Actives, WithStatus
  <2> QED BY <1>1, <1>2, <1>4, <2>1 DEF SessionInv, SwapInProgress, PreviousIsActive
<1> QED BY <1>3, <1>4, PromoteRows

LEMMA SessionStep ==
  ASSUME TypeOK, SessionInv, [Next]_vars
  PROVE  SessionInv'
<1>1. pc # "symbol" => promoted = None
  BY DEF SessionInv, SwapInProgress
<1>2. ASSUME NEW b \in Batches, Begin(b) PROVE SessionInv'
  BY <1>1, <1>2, PreviousRead DEF Begin, callVars
<1>3. CASE TriageForced \/ TriageRecover \/ TriageHealth \/ TriageEmpty
  BY <1>3, TriageSession
<1>4. ASSUME NEW drawdown \in Drawdowns, HealthFirst(drawdown) PROVE SessionInv'
  BY <1>1, <1>4, PreviousRead DEF HealthFirst, callVars
<1>5. CASE AssignSlots \/ PruneRaises \/ \E drawdown \in Drawdowns : HealthLast(drawdown)
  <2>1. pc # "symbol" /\ pc' \in {"raised", "final", "finish"} /\ promoted' = promoted
    BY <1>5 DEF AssignSlots, PruneRaises, HealthLast, callVars
  <2> QED BY <1>1, <2>1 DEF SessionInv, SwapInProgress, PreviousIsActive, Seating
<1>6. CASE Agents
  <2>1. /\ pc = "agents" /\ pc' = "symbol" /\ pool' = pool /\ prev' = prev
        /\ promoted' = promoted
    BY <1>6 DEF Agents, callVars
  <2> QED BY <1>1, <2>1
          DEF SessionInv, SwapInProgress, PreviousIsActive, Seating, Actives, WithStatus
<1>7. ASSUME NEW p \in Proposals, NEW review \in Reviews, Insert(p, review) PROVE SessionInv'
  BY <1>7, InsertSession
<1>8. CASE FinishSymbol
  BY <1>8, PreviousRead DEF FinishSymbol
<1>9. CASE Prune
  BY <1>9, PruneSession
<1>10. CASE PromoteExisting
  BY <1>10, PromoteSession
<1>11. CASE Finish \/ FailCommitting \/ LoseSession
  <2>1. Over
    BY <1>11 DEF Finish, FailCommitting, LoseSession
  <2>2. pc' = "idle" /\ promoted' = None
    BY <2>1, OverType
  <2> QED BY <2>2 DEF SessionInv, SwapInProgress, PreviousIsActive, Seating
<1>12. CASE BoundReached \/ UNCHANGED vars
  BY <1>12
  DEF BoundReached, vars, timeVars, callVars, SessionInv, SwapInProgress, PreviousIsActive,
      Actives, WithStatus
<1> QED
  BY <1>2, <1>3, <1>4, <1>5, <1>6, <1>7, <1>8, <1>9, <1>10, <1>11, <1>12 DEF Next

\* A commit of a session with one ACTIVE row restores the invariant of the seat.
LEMMA SeatRestored ==
  ASSUME TypeOK, SessionInv, [Next]_vars, db' # db, AtMostOneActive'
  PROVE  SeatInv'
<1>1. SessionInv'
  BY SessionStep
<1>2. pc # "symbol" => promoted = None
  BY DEF SessionInv, SwapInProgress
<1>3. \/ TriageHealth \/ Agents \/ FinishSymbol \/ AssignSlots \/ Finish \/ FailCommitting
  BY DEF Next, Begin, TriageForced, TriageRecover, TriageEmpty, HealthFirst, HealthLast,
         Insert, Prune, PruneRaises, PromoteExisting, LoseSession, BoundReached, vars
<1>4. db' = pool'
  BY <1>3 DEF TriageHealth, Agents, FinishSymbol, AssignSlots, Finish, FailCommitting, Commit
<1>5. OneActive(pool')
  BY <1>4 DEF AtMostOneActive, OneActive, Actives, WithStatus
<1>6. promoted' = None
  BY <1>2, <1>3, OverType
  DEF TriageHealth, Agents, FinishSymbol, AssignSlots, Finish, FailCommitting, callVars
<1>7. PreviousActiveTracked'
  BY <1>1, <1>5, <1>6
  DEF SessionInv, PreviousIsActive, Seating, PreviousActiveTracked, OneActive
<1> QED BY <1>1, <1>5, <1>7 DEF SeatInv, SessionInv

LEMMA DoubleInvariant == Spec => []DoubleInv
<1>1. Init => DoubleInv
  BY SeatInit DEF Init, DoubleInv, SessionInv, PreviousIsActive, Seating, SeatInv
<1>2. TypeOK /\ DoubleInv /\ [Next]_vars => DoubleInv'
  <2> SUFFICES ASSUME TypeOK, DoubleInv, [Next]_vars PROVE DoubleInv'
    OBVIOUS
  <2>1. SessionInv /\ SessionInv'
    BY SessionStep DEF DoubleInv
  <2>2. ASSUME AtMostOneActive', db' = db PROVE SeatInv'
    <3>1. AtMostOneActive
      BY <2>2 DEF AtMostOneActive, OneActive, Actives, WithStatus
    <3>2. SeatInv
      BY <3>1 DEF DoubleInv
    <3>3. CASE FailCommitting => promoted = None
      BY <3>2, <3>3, SeatKept
    <3>4. CASE FailCommitting
      <4>1. pool' = db /\ pc' = "idle" /\ promoted' = None
        BY <2>2, <3>4, OverType DEF FailCommitting, Commit
      <4>2. OneActive(pool')
        BY <3>1, <4>1 DEF AtMostOneActive, OneActive, Actives, WithStatus
      <4> QED
        BY <2>1, <2>2, <4>1, <4>2 DEF SeatInv, SessionInv, PreviousActiveTracked
    <3> QED BY <3>3, <3>4
  <2>3. ASSUME AtMostOneActive', db' # db PROVE SeatInv'
    BY <2>1, <2>3, SeatRestored
  <2> QED BY <2>1, <2>2, <2>3 DEF DoubleInv
<1> QED BY <1>1, <1>2, TypeInvariant, PTL DEF Spec

\* The one way to two committed ACTIVE strategies: the except branch commits a
\* session in which a promoted proposal has not yet pushed its predecessor out, and
\* these two are then the ones.  No other step, and no sync that starts from one
\* active strategy, doubles the seat.
THEOREM OnlyMidSwapDoubles ==
  Spec => [][AtMostOneActive /\ ~AtMostOneActive' =>
               /\ pc = "symbol" /\ pc' = "idle"
               /\ promoted # None /\ Actives(db') = {prev, promoted}]_vars
<1> DEFINE Doubled ==
      AtMostOneActive /\ ~AtMostOneActive' =>
        /\ pc = "symbol" /\ pc' = "idle"
        /\ promoted # None /\ Actives(db') = {prev, promoted}
<1>1. TypeOK /\ DoubleInv /\ [Next]_vars => [Doubled]_vars
  <2> SUFFICES ASSUME TypeOK, DoubleInv, [Next]_vars, AtMostOneActive, ~AtMostOneActive'
               PROVE  /\ pc = "symbol" /\ pc' = "idle"
                      /\ promoted # None /\ Actives(db') = {prev, promoted}
    OBVIOUS
  <2>1. SeatInv /\ ~SeatInv'
    BY DEF DoubleInv, SeatInv
  <2>2. FailCommitting /\ promoted # None
    BY <2>1, SeatKept
  <2>3. pc = "symbol" /\ promoted \in Actives(pool)
    BY <2>2 DEF DoubleInv, SessionInv, SwapInProgress, TypeOK, Actives, WithStatus
  <2>4. pc' = "idle" /\ db' = pool
    BY <2>2, OverType DEF FailCommitting, Commit
  <2>5. Actives(db') = Actives(pool)
    BY <2>4 DEF Actives, WithStatus
  <2>6. Actives(pool) \subseteq {prev, promoted}
    BY <2>1, <2>3 DEF SeatInv, PreviousActiveTracked
  <2>7. PICK p \in Actives(pool), q \in Actives(pool) : p # q
    BY <2>5 DEF AtMostOneActive, OneActive
  <2> QED BY <2>2, <2>3, <2>4, <2>5, <2>6, <2>7
<1> QED BY <1>1, DoubleInvariant, TypeInvariant, PTL DEF Spec

-----------------------------------------------------------------------------
(* The real active strategies, with no hypothesis either.                  *)

\* The strategy promoted in this call against the one it replaces.
RivalsFair ==
  promoted # None /\ prev # None =>
    /\ promoted # prev
    /\ \/ pool[prev].source = "mock"
       \/ /\ day - pool[prev].promotedAt.day >= CooldownDays
          /\ pool[promoted].score >= pool[prev].score + ChallengerMinDelta

\* A committed real active strategy is still active in the session, or was demoted
\* since the last commit, which precedes whatever may archive it.
RealInv ==
  \A p \in Actives(db) \cap Real(db) :
    \/ /\ pool[p].status = "ACTIVE" /\ pool[p].source = db[p].source
       /\ pool[p].score = db[p].score /\ pool[p].promotedAt = db[p].promotedAt
    \/ pool[p].status = "CANDIDATE" /\ pc \in {"agents", "finish"}

LEMMA RivalsInvariant == Spec => []RivalsFair
<1>1. Init => RivalsFair
  BY DEF Init, RivalsFair
<1>2. TypeOK /\ HeldInv /\ SessionInv /\ SessionInv' /\ RivalsFair /\ [Next]_vars
      => RivalsFair'
  <2> SUFFICES ASSUME TypeOK, HeldInv, SessionInv, SessionInv', RivalsFair, [Next]_vars,
                      promoted' # None, prev' # None
               PROVE  /\ promoted' # prev'
                      /\ \/ pool'[prev'].source = "mock"
                         \/ /\ day' - pool'[prev'].promotedAt.day >= CooldownDays
                            /\ pool'[promoted'].score
                                 >= pool'[prev'].score + ChallengerMinDelta
    BY DEF RivalsFair
  <2>1. pc' = "symbol"
    BY DEF SessionInv, SwapInProgress
  <2>2. \/ \E p \in Proposals, review \in Reviews : Insert(p, review)
        \/ UNCHANGED vars
    <3>1. ~Agents
      BY DEF Agents, callVars, SessionInv, SwapInProgress
    <3>2. ~FinishSymbol
      BY DEF FinishSymbol
    <3>3. ~Finish /\ ~FailCommitting /\ ~LoseSession
      BY <2>1, OverType DEF Finish, FailCommitting, LoseSession
    <3> QED
      BY <2>1, <3>1, <3>2, <3>3
      DEF Next, Begin, TriageForced, TriageRecover, TriageHealth, TriageEmpty, HealthFirst,
          HealthLast, Prune, PruneRaises, PromoteExisting, AssignSlots, BoundReached
  <2>3. CASE UNCHANGED vars
    BY <2>3 DEF RivalsFair, vars, timeVars, callVars
  <2>4. ASSUME NEW p \in Proposals, NEW review \in Reviews, Insert(p, review)
        PROVE  /\ promoted' # prev'
               /\ \/ pool'[prev'].source = "mock"
                  \/ /\ day' - pool'[prev'].promotedAt.day >= CooldownDays
                     /\ pool'[promoted'].score >= pool'[prev'].score + ChallengerMinDelta
    <3> DEFINE status == GovernanceStatus(review, Incumbent, macro, day)
    <3>1. /\ p \in Free(pool) /\ pc = "symbol" /\ prev' = prev /\ day' = day
          /\ source \in {"none", review.source}
          /\ promoted' = IF status = "ACTIVE" THEN p ELSE promoted
      BY <2>4 DEF Insert, timeVars
    <3>2. /\ pool'[p].score = review.score
          /\ \A q \in Proposals \ {p} : pool'[q] = pool[q]
      BY <2>4 DEF Insert, TypeOK
    <3>3. status = "ACTIVE" => promoted = None
      BY <3>1, SecondBlueprint DEF SessionInv
    <3> HIDE DEF status
    <3>4. prev \in Proposals \ {p} /\ pool[prev].status = "ACTIVE" /\ pool'[prev] = pool[prev]
      BY <3>1, <3>2 DEF SessionInv, PreviousIsActive, Seating, Actives, WithStatus, Free
    <3>5. CASE status = "ACTIVE"
      <4>1. promoted = None /\ promoted' = p
        BY <3>1, <3>3, <3>5
      <4>2. Incumbent = [source |-> pool[prev].source, score |-> pool[prev].score,
                         promotedDay |-> pool[prev].promotedAt.day]
        BY <3>1, <4>1 DEF Incumbent, Context
      <4>3. /\ pool[prev].score \in Int /\ pool[prev].promotedAt.day \in Int
            /\ pool[prev].source \in {"mock", "minimax"}
        BY <3>4 DEF TypeOK, Row, Stamps, HeldInv, Held, HeldRow
      <4>4. /\ Incumbent.source = pool[prev].source /\ Incumbent.score = pool[prev].score
            /\ Incumbent.promotedDay = pool[prev].promotedAt.day /\ Incumbent # NoActive
        BY <4>2, <4>3 DEF NoActive
      <4>5. review.score \in Int /\ day \in Int
        BY PoolAssumption DEF TypeOK
      <4>6. \/ pool[prev].source = "mock"
            \/ /\ day - pool[prev].promotedAt.day >= CooldownDays
               /\ review.score >= pool[prev].score + ChallengerMinDelta
        BY <3>5, <4>3, <4>4, <4>5, FairPromotion DEF status
      <4> QED BY <3>1, <3>2, <3>4, <4>1, <4>6
    <3>6. CASE status # "ACTIVE"
      <4>1. promoted' = promoted
        BY <3>1, <3>6
      <4>2. promoted \in Proposals \ {p}
        BY <3>1, <4>1 DEF SessionInv, SwapInProgress, TypeOK, Free
      <4>3. pool'[promoted] = pool[promoted]
        BY <3>2, <4>2
      <4> QED BY <3>1, <3>4, <4>1, <4>3 DEF RivalsFair
    <3> QED BY <3>5, <3>6
  <2> QED BY <2>2, <2>3, <2>4
<1>3. DoubleInv => SessionInv
  BY DEF DoubleInv
<1> QED
  BY <1>1, <1>2, <1>3, TypeInvariant, HeldInvariant, DoubleInvariant, PTL DEF Spec

LEMMA RealStep ==
  ASSUME TypeOK, HeldInv, SessionInv, RealInv, [Next]_vars, db' = db
  PROVE  RealInv'
<1> DEFINE Stays(p) == /\ pool'[p].status = "ACTIVE" /\ pool'[p].source = db[p].source
                       /\ pool'[p].score = db[p].score
                       /\ pool'[p].promotedAt = db[p].promotedAt
<1>1. SUFFICES ASSUME NEW p \in Actives(db) \cap Real(db)
               PROVE  Stays(p) \/ (pool'[p].status = "CANDIDATE" /\ pc' \in {"agents", "finish"})
  BY DEF RealInv, Actives, Real, WithStatus
<1>2. /\ p \in Proposals /\ db[p].status = "ACTIVE" /\ db[p].source = "minimax"
      /\ WasPromoted(db[p])
  BY DEF Actives, Real, WithStatus, HeldInv, Held, HeldRow
<1>3. pc \notin {"agents", "finish"} =>
        /\ pool[p].status = "ACTIVE" /\ pool[p].source = db[p].source
        /\ pool[p].score = db[p].score /\ pool[p].promotedAt = db[p].promotedAt
        /\ p \in Actives(pool)
  BY <1>2 DEF RealInv, Actives, WithStatus
<1>4. ASSUME pc \notin {"agents", "finish"}, pool'[p] = pool[p] PROVE Stays(p)
  BY <1>3, <1>4
<1>5. ASSUME NEW S, pool' = Archive(pool, S), S \cap Actives(pool) = {},
             pc \notin {"agents", "finish"}
      PROVE  Stays(p)
  BY <1>2, <1>3, <1>5, ArchiveRows DEF TypeOK
<1>6. ASSUME NEW b \in Batches, Begin(b) PROVE Stays(p)
  BY <1>4, <1>6 DEF Begin
<1>7. CASE TriageForced \/ TriageRecover \/ TriageEmpty
  <2>1. pc = "triage"
    BY <1>7 DEF TriageForced, TriageRecover, TriageEmpty
  <2>2. prev # None
    BY <1>2, <1>3, <2>1, PoolAssumption
    DEF SessionInv, SwapInProgress, PreviousIsActive, Seating
  <2>3. /\ Scoped \in [Proposals -> Row]
        /\ Scoped[p].status = "ACTIVE" /\ Scoped[p].source = db[p].source
        /\ Scoped[p].score = db[p].score /\ Scoped[p].promotedAt = db[p].promotedAt
    BY <1>2, <1>3, <2>1, ScopedKeeps DEF Kept, Alike, WasPromoted
  <2>4. CASE TriageForced
    <3>1. pool' = Archive(Scoped, Open(Scoped) \ Actives(Scoped))
      BY <2>2, <2>4 DEF TriageForced
    <3>2. p \notin Open(Scoped) \ Actives(Scoped)
      BY <1>2, <2>3 DEF Actives, WithStatus
    <3> QED BY <1>2, <2>3, <3>1, <3>2, ArchiveRows
  <2>5. CASE TriageEmpty
    BY <2>3, <2>5 DEF TriageEmpty
  <2> QED BY <1>7, <2>2, <2>4, <2>5 DEF TriageRecover
<1>8. ASSUME NEW drawdown \in Drawdowns, HealthFirst(drawdown) \/ HealthLast(drawdown)
      PROVE  Stays(p) \/ (pool'[p].status = "CANDIDATE" /\ pc' \in {"agents", "finish"})
  <2>1. pc \in {"health", "final"} /\ pc' \in {"agents", "finish"} /\ EvaluateHealth(drawdown)
    BY <1>8 DEF HealthFirst, HealthLast
  <2>2. pool'[p] = pool[p] \/ pool'[p].status = "CANDIDATE"
    BY <1>2, <1>3, <2>1, HealthRows DEF Lowered
  <2> QED BY <1>4, <2>1, <2>2
<1>9. ASSUME NEW q \in Proposals, NEW review \in Reviews, Insert(q, review) PROVE Stays(p)
  <2>1. pc = "symbol" /\ q \in Free(pool) /\ \A r \in Proposals \ {q} : pool'[r] = pool[r]
    BY <1>9 DEF Insert, TypeOK
  <2>2. pool'[p] = pool[p]
    BY <1>2, <1>3, <2>1 DEF Free
  <2> QED BY <1>4, <2>1, <2>2
<1>10. CASE Prune \/ PruneRaises
  <2>1. pc = "prune"
    BY <1>10 DEF Prune, PruneRaises
  <2> QED BY <1>5, <1>10, <2>1, PruneSparesActive
<1>11. CASE PromoteExisting
  <2>1. pc = "promote"
    BY <1>11 DEF PromoteExisting
  <2>2. pool'[p] = pool[p]
    BY <1>2, <1>3, <1>11, <2>1, PromoteRows
  <2> QED BY <1>4, <2>1, <2>2
<1>12. CASE TriageHealth \/ Agents \/ FinishSymbol \/ AssignSlots \/ Finish
            \/ FailCommitting \/ LoseSession
  <2>1. pool' = db \/ (AssignSlots /\ pool' = pool /\ pc = "assign")
    BY <1>12
    DEF TriageHealth, Agents, FinishSymbol, AssignSlots, Finish, FailCommitting, LoseSession,
        Commit
  <2> QED BY <1>2, <1>4, <2>1
<1>13. CASE BoundReached \/ UNCHANGED vars
  BY <1>13 DEF RealInv, BoundReached, vars
<1> HIDE DEF Stays
<1> QED
  BY <1>6, <1>7, <1>8, <1>9, <1>10, <1>11, <1>12, <1>13 DEF Next

LEMMA RealInvariant == Spec => []RealInv
<1>1. Init => RealInv
  BY DEF Init, RealInv, Actives, WithStatus, Vacant
<1>2. TypeOK /\ HeldInv /\ DoubleInv /\ RealInv /\ [Next]_vars => RealInv'
  <2> SUFFICES ASSUME TypeOK, HeldInv, DoubleInv, RealInv, [Next]_vars PROVE RealInv'
    OBVIOUS
  <2>1. db' = db \/ db' = pool'
    BY DEF Next, Begin, TriageForced, TriageRecover, TriageHealth, TriageEmpty, HealthFirst,
           HealthLast, Agents, Insert, FinishSymbol, Prune, PruneRaises, PromoteExisting,
           AssignSlots, Finish, FailCommitting, LoseSession, BoundReached, Commit, vars
  <2>2. CASE db' = pool'
    BY <2>2 DEF RealInv, Actives, WithStatus
  <2> QED BY <2>1, <2>2, RealStep DEF DoubleInv
<1> QED
  BY <1>1, <1>2, TypeInvariant, HeldInvariant, DoubleInvariant, PTL DEF Spec

(* A real active strategy is archived only for a successor that is active  *)
(* with it gone, after the cooldown of its promotion and with the margin   *)
(* of a challenger, in every instance: no struck replacement and no second *)
(* ACTIVE row it may leave behind costs a real strategy its seat.          *)
THEOREM RealActiveIsSafe == Spec => RealActiveKeepsItsSeat
<1> DEFINE Keeps ==
      \A p \in Actives(db) \cap Real(db) :
        db'[p].status = "ARCHIVED" =>
          /\ day - db[p].promotedAt.day >= CooldownDays
          /\ \E q \in Actives(db') : db'[q].score >= db[p].score + ChallengerMinDelta
<1>1. TypeOK /\ HeldInv /\ DoubleInv /\ RivalsFair /\ RealInv /\ [Next]_vars => [Keeps]_vars
  <2> SUFFICES ASSUME TypeOK, HeldInv, DoubleInv, RivalsFair, RealInv, [Next]_vars,
                      NEW p \in Actives(db) \cap Real(db), db'[p].status = "ARCHIVED"
               PROVE  /\ day - db[p].promotedAt.day >= CooldownDays
                      /\ \E q \in Actives(db') :
                           db'[q].score >= db[p].score + ChallengerMinDelta
    OBVIOUS
  <2>1. /\ p \in Proposals /\ db[p].status = "ACTIVE" /\ db[p].source # "mock"
        /\ WasPromoted(db[p])
    BY DEF Actives, Real, WithStatus, HeldInv, Held, HeldRow
  <2>2. pool[p].status \in {"ACTIVE", "CANDIDATE"}
    BY DEF RealInv
  <2>3. /\ TriageHealth \/ Agents \/ FinishSymbol \/ AssignSlots \/ Finish \/ FailCommitting
        /\ db' = pool'
    BY <2>1
    DEF Next, Begin, TriageForced, TriageRecover, TriageHealth, TriageEmpty, HealthFirst,
        HealthLast, Agents, Insert, FinishSymbol, Prune, PruneRaises, PromoteExisting,
        AssignSlots, Finish, FailCommitting, LoseSession, BoundReached, Commit, vars
  <2>4. ~TriageHealth
    <3>1. ASSUME TriageHealth PROVE FALSE
      <4>1. pc = "triage" /\ pool' = Scoped
        BY <3>1 DEF TriageHealth
      <4>2. pool[p].status = "ACTIVE"
        BY <4>1 DEF RealInv
      <4>3. Scoped[p].status = "ACTIVE"
        BY <2>1, <4>2, ScopedKeeps DEF Kept, Alike
      <4> QED BY <2>3, <4>1, <4>3
    <3> QED BY <3>1
  <2>5. pool' # pool
    BY <2>2, <2>3
  <2>6. FinishSymbol
    BY <2>3, <2>4, <2>5 DEF Agents, AssignSlots, Finish, FailCommitting
  <2>7. pc = "symbol" /\ promoted # None /\ prev # None /\ pool' = Archive(pool, {prev})
    BY <2>5, <2>6 DEF FinishSymbol
  <2>8. p = prev
    BY <2>1, <2>2, <2>3, <2>7, ArchiveRows DEF TypeOK
  <2>9. /\ pool[p].source = db[p].source /\ pool[p].score = db[p].score
        /\ pool[p].promotedAt = db[p].promotedAt
    BY <2>7 DEF RealInv
  <2>10. /\ promoted # prev /\ day - db[p].promotedAt.day >= CooldownDays
         /\ pool[promoted].score >= db[p].score + ChallengerMinDelta
    BY <2>1, <2>7, <2>8, <2>9 DEF RivalsFair
  <2>11. promoted \in Proposals /\ pool[promoted].status = "ACTIVE"
    BY <2>7 DEF DoubleInv, SessionInv, SwapInProgress, TypeOK
  <2>12. pool'[promoted].status = "ACTIVE" /\ pool'[promoted].score = pool[promoted].score
    BY <2>7, <2>10, <2>11, ArchiveRows DEF TypeOK
  <2>13. promoted \in Actives(db')
    BY <2>3, <2>11, <2>12 DEF Actives, WithStatus
  <2> QED BY <2>3, <2>10, <2>12, <2>13
<1> QED
  BY <1>1, TypeInvariant, HeldInvariant, DoubleInvariant, RivalsInvariant, RealInvariant, PTL
  DEF Spec, RealActiveKeepsItsSeat

(* Retention never discards a candidate that waits for its cooldown or its *)
(* review: prune_strategy_proposals spares it however old it is and        *)
(* however many candidates outrank it, and the two other places that       *)
(* archive a row after the triage archive the active one.                  *)
THEOREM RetentionSparesProtected == Spec => ProtectedSurvivesRetention
<1> DEFINE Spared ==
      \A p \in WithStatus(pool, {"CANDIDATE"}) :
        /\ pool[p].phase \in {"candidate_cooldown", "paused_pending_review"}
        /\ pool'[p].status = "ARCHIVED"
        => pc = "triage" \/ pc' = "idle"
<1>1. TypeOK /\ DoubleInv /\ [Next]_vars => [Spared]_vars
  <2> SUFFICES ASSUME TypeOK, DoubleInv, [Next]_vars,
                      NEW p \in WithStatus(pool, {"CANDIDATE"}), Protected(pool[p]),
                      pool'[p].status = "ARCHIVED", pc # "triage", pc' # "idle"
               PROVE  FALSE
    BY DEF Protected
  <2>1. p \in Proposals /\ pool[p].status = "CANDIDATE" /\ pool[p] # pool'[p]
    BY DEF WithStatus
  <2>2. prev # None /\ pc \in {"symbol", "promote"} =>
          prev \in Proposals /\ pool[prev].status = "ACTIVE" /\ prev # p
    BY <2>1 DEF DoubleInv, SessionInv, PreviousIsActive, Seating, Actives, WithStatus
  <2>3. ASSUME NEW drawdown \in Drawdowns, HealthFirst(drawdown) \/ HealthLast(drawdown)
        PROVE  FALSE
    <3>1. \/ pool'[p] = pool[p] \/ Lowered(pool'[p], pool[p]) \/ Seated(pool'[p], pool[p])
      BY <2>1, <2>3, HealthRows DEF HealthFirst, HealthLast
    <3> QED BY <2>1, <3>1 DEF Lowered, Seated
  <2>4. ASSUME NEW q \in Proposals, NEW review \in Reviews, Insert(q, review) PROVE FALSE
    <3>1. q # p
      BY <2>1, <2>4 DEF Insert, Free
    <3> QED BY <2>1, <2>4, <3>1 DEF Insert, TypeOK
  <2>5. CASE FinishSymbol
    <3>1. pc = "symbol" /\ prev # None /\ pool' = Archive(pool, {prev})
      <4>1. pc = "symbol" /\ pool' = IF promoted # None /\ prev # None
                                     THEN Archive(pool, {prev}) ELSE pool
        BY <2>5 DEF FinishSymbol
      <4> QED BY <2>1, <4>1
    <3>2. p \notin {prev}
      BY <2>2, <3>1
    <3> QED BY <2>1, <3>1, <3>2, ArchiveRows DEF TypeOK
  <2>6. CASE Prune \/ PruneRaises
    <3>1. p \notin StaleRejected \cup Aged
      BY <2>1 DEF StaleRejected, Aged, WithStatus
    <3>2. CASE PruneRaises
      BY <2>1, <3>1, <3>2, ArchiveRows DEF PruneRaises, TypeOK
    <3>3. CASE Prune
      <4>1. PICK kept : pool' = Archive(pool, StaleRejected \cup Aged
                                  \cup {q \in Survivors \ kept : ~Protected(pool[q])})
        BY <3>3 DEF Prune
      <4> DEFINE S == StaleRejected \cup Aged
                      \cup {q \in Survivors \ kept : ~Protected(pool[q])}
      <4>2. p \notin S
        BY <3>1
      <4> HIDE DEF S
      <4>3. pool' = Archive(pool, S)
        BY <4>1 DEF S
      <4> QED BY <2>1, <4>2, <4>3, ArchiveRows DEF TypeOK
    <3> QED BY <2>6, <3>2, <3>3
  <2>7. CASE PromoteExisting
    <3>1. pc = "promote"
      BY <2>7 DEF PromoteExisting
    <3>2. PICK c \in Proposals :
            /\ prev \in Proposals /\ Seated(pool'[c], pool[c])
            /\ \A q \in Proposals \ {prev, c} : pool'[q] = pool[q]
      BY <2>1, <2>7, PromoteRows
    <3>3. prev # p
      BY <2>2, <3>1, <3>2, PoolAssumption
    <3> QED BY <2>1, <3>2, <3>3 DEF Seated
  <2>8. pool' # pool
    BY <2>1
  <2>9. ~Finish /\ ~FailCommitting /\ ~LoseSession
    BY DEF Finish, FailCommitting, LoseSession, Over
  <2> QED
    BY <2>3, <2>4, <2>5, <2>6, <2>7, <2>8, <2>9
    DEF Next, Begin, TriageForced, TriageRecover, TriageHealth, TriageEmpty, Agents,
        AssignSlots, BoundReached, vars
<1> QED
  BY <1>1, TypeInvariant, DoubleInvariant, PTL DEF Spec, ProtectedSurvivesRetention
=============================================================================
