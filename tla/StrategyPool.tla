---------------------------- MODULE StrategyPool ----------------------------
(***************************************************************************)
(* The life of the strategy proposals through sync_agent_state, the one    *)
(* writer of the proposal table.  A sync runs alone (it holds a process    *)
(* lock), works in one database session, and commits that session at its   *)
(* stage boundaries only; `pool` is what the session sees and `db` what    *)
(* has been committed.  The except branch of the sync does not roll back:  *)
(* it commits whatever the session holds when the exception strikes.  A    *)
(* failed flush, or the death of the process, loses the session instead.   *)
(*                                                                         *)
(* A stamp is [day, tick].  The sync takes its market snapshot at `tick`   *)
(* and reaches its n-th research symbol n ticks later; the cooldown and    *)
(* the ages of rows count days, and several syncs may run on one day.      *)
(*                                                                         *)
(* An operator whose name ends in _Bug is a plausible mistake in the       *)
(* definition that follows it.  No specification uses it: put in place of  *)
(* that definition it makes one of the properties fail.                    *)
(***************************************************************************)
EXTENDS Governance, FiniteSets, Sequences

CONSTANTS
  Proposals,       \* identities of the rows
  None,            \* no proposal
  Symbols,
  Batches,         \* the research batches: non-empty sequences of symbols
  Reviews,         \* what a blueprint can be reviewed to: [source, score, backtest, knowledge]
  MaxBlueprints,   \* blueprints a strategy agent returns for one symbol (2, or 3 fallbacks)
  RetentionLimit,  \* governance.candidate_retention_limit, at least 1
  MaxAgeDays,      \* governance.candidate_max_age_days, at least 1
  RejectedDays,    \* governance.rejected_retention_days
  DayGaps,         \* days that can pass between two syncs
  MaxDay,          \* bound: no sync begins after this day
  MaxTick,         \* bound: nor after this tick of a day
  RaisesMidSwap    \* may an exception strike between the insertion of a promoted
                   \* proposal and the archiving of its predecessor?

ASSUME PoolAssumption ==
  /\ None \notin Proposals
  /\ Batches \subseteq Seq(Symbols) \ {<<>>}
  /\ Reviews \subseteq [source : {"mock", "minimax"}, score : Int,
                        backtest : BacktestOutcomes, knowledge : SUBSET KnowledgeReasons]
  /\ DayGaps \subseteq Nat
  /\ MaxBlueprints \in Nat /\ MaxTick \in Nat
  /\ RaisesMidSwap \in BOOLEAN

VARIABLES
  db,         \* the committed proposal table
  pool,       \* the same table as the session of the running sync sees it
  pc,         \* where the sync is; "idle" when none runs
  day, tick,  \* the time of the sync's market snapshot
  batch,      \* research_symbols of the running sync
  turn,       \* the symbol being materialised is batch[turn]
  force,      \* force_refresh
  macro,      \* macro_status.degraded in the sync's snapshot
  prev,       \* previous_active
  promoted,   \* the proposal the running materialize call promoted, or None
  source,     \* source_kind shared by the blueprints of that call, or "none"
  count,      \* proposals that call has inserted
  born,       \* proposals this sync created: their stamps are timezone-aware in memory
  recast      \* [id, phase]: the proposal _promote_existing promoted, with the last
              \* decision its already loaded `decisions` collection shows

callVars == <<promoted, source, count>>
syncVars == <<batch, turn, force, macro, born, recast>>
timeVars == <<day, tick>>
vars == <<db, pool, pc, timeVars, prev, callVars, syncVars>>

-----------------------------------------------------------------------------
\* Rows and queries.

Never == [day |-> -1, tick |-> 0]
Stamp(n) == [day |-> day, tick |-> tick + n]
Later(s, t) == s.day > t.day \/ (s.day = t.day /\ s.tick > t.tick)

Vacant == [status |-> "none", symbol |-> None, source |-> "none", score |-> 0,
           createdAt |-> Never, promotedAt |-> Never, phase |-> "none", decidedAt |-> Never]

NotRecast == [id |-> None, phase |-> "none"]

WasPromoted(row) == row.promotedAt # Never

\* An archived proposal that was never promoted is read by no query again; its
\* identity stands for any later row, which keeps the table small.
Free(P) == {p \in Proposals : \/ P[p].status = "none"
                              \/ P[p].status = "ARCHIVED" /\ ~WasPromoted(P[p])}

WithStatus(P, S) == {p \in Proposals : P[p].status \in S}
Actives(P) == WithStatus(P, {"ACTIVE"})
Open(P) == WithStatus(P, {"ACTIVE", "CANDIDATE", "REJECTED"})
InScope(P, sym) == {p \in Proposals : P[p].symbol = sym}
Real(P) == {p \in Proposals : P[p].source \notin {"mock", "none"}}

Archive(P, S) == [p \in Proposals |->
                    IF p \in S THEN [P[p] EXCEPT !.status = "ARCHIVED"] ELSE P[p]]

\* ORDER BY promoted_at DESC, created_at DESC: the rows of S that come first.
PromotedAfter(a, b) == \/ Later(a.promotedAt, b.promotedAt)
                       \/ a.promotedAt = b.promotedAt /\ Later(a.createdAt, b.createdAt)
LatestPromoted(P, S) == {p \in S : \A q \in S : ~PromotedAfter(P[q], P[p])}

\* get_active_strategy, as the set of its possible answers.
ActiveStrategy(P) == IF Actives(P) = {} THEN {None} ELSE LatestPromoted(P, Actives(P))

\* ORDER BY final_score DESC, created_at DESC.
Outranks(a, b) == a.score > b.score \/ (a.score = b.score /\ Later(a.createdAt, b.createdAt))

\* Python's sort by (final_score, created_at) raises TypeError when it compares
\* two equal scores of which one row was created in this session (aware stamp)
\* and the other was loaded from SQLite (naive stamp).
Incomparable(P, S) == \E p \in S \cap born, q \in S \ born : P[p].score = P[q].score

\* The last decision on a row after one more is recorded at `stamp`: decisions
\* are ordered by (created_at, random id), so `wins` breaks a tie.
Decided(row, phase, stamp, wins) ==
  IF Later(stamp, row.decidedAt) \/ (stamp = row.decidedAt /\ wins)
  THEN [row EXCEPT !.phase = phase, !.decidedAt = stamp]
  ELSE row

Context(P, p) ==
  IF p = None THEN NoActive
  ELSE [source |-> P[p].source, score |-> P[p].score, promotedDay |-> P[p].promotedAt.day]

-----------------------------------------------------------------------------
Init ==
  /\ pool = [p \in Proposals |-> Vacant]
  /\ db = pool
  /\ pc = "idle" /\ day = 0 /\ tick = 0
  /\ batch = <<>> /\ turn = 1
  /\ force = FALSE /\ macro = FALSE
  /\ prev = None /\ promoted = None /\ source = "none" /\ count = 0
  /\ born = {} /\ recast = NotRecast

Commit == db' = pool'

\* The sync is over: its locals are gone, the next one starts later, the same day
\* or another.
Over ==
  /\ pc' = "idle"
  /\ \E gap \in DayGaps :
       /\ day' = day + gap
       /\ tick' = IF gap = 0 THEN tick + Len(batch) + 1 ELSE 0
  /\ batch' = <<>> /\ turn' = 1 /\ force' = FALSE /\ macro' = FALSE
  /\ prev' = None /\ promoted' = None /\ source' = "none" /\ count' = 0
  /\ born' = {} /\ recast' = NotRecast

\* From taking the lock to the committed research batch: the universe, the
\* events and the snapshot only choose the symbols and the macro status.
Begin(b) ==
  /\ pc = "idle" /\ day <= MaxDay /\ tick <= MaxTick
  /\ Cardinality(Free(pool)) >= Len(b)
  /\ pc' = "triage"
  /\ batch' = b
  /\ force' \in BOOLEAN /\ macro' \in BOOLEAN
  /\ prev' \in ActiveStrategy(pool)
  /\ UNCHANGED <<db, pool, timeVars, turn, callVars, born, recast>>

ScopeSymbol == IF prev # None THEN pool[prev].symbol ELSE batch[1]

\* archive_out_of_scope_strategy_proposals: everything but ACTIVE leaves the
\* pool when it is about another symbol.
Scoped == Archive(pool, (Open(pool) \ Actives(pool)) \ InScope(pool, ScopeSymbol))

TriageForced_Bug ==
  /\ pc = "triage" /\ force
  /\ pool' = Archive(Scoped, Open(Scoped))
  /\ pc' = "agents"
  /\ UNCHANGED <<db, timeVars, prev, callVars, syncVars>>

TriageForced ==
  /\ pc = "triage" /\ force
  /\ pool' = Archive(Scoped, IF prev # None THEN Open(Scoped) \ Actives(Scoped)
                                            ELSE Open(Scoped))
  /\ pc' = "agents"
  /\ UNCHANGED <<db, timeVars, prev, callVars, syncVars>>

\* recover_active_strategy: no ACTIVE but open proposals; the real proposal
\* promoted last, whatever its status is now, becomes ACTIVE again.
TriageRecover ==
  LET recoverable == {p \in Real(Scoped) : WasPromoted(Scoped[p])} IN
  /\ pc = "triage" /\ ~force /\ prev = None /\ Open(Scoped) # {}
  /\ \/ /\ recoverable = {}
        /\ pool' = Archive(Scoped, Open(Scoped))
        /\ prev' = None
     \/ /\ \E p \in LatestPromoted(Scoped, recoverable) :
             pool' = [Scoped EXCEPT ![p].status = "ACTIVE"]
        /\ prev' \in ActiveStrategy(pool')
  /\ pc' = "agents"
  /\ UNCHANGED <<db, timeVars, callVars, syncVars>>

TriageHealth ==
  /\ pc = "triage" /\ ~force /\ prev # None /\ Open(Scoped) # {}
  /\ pool' = Scoped
  /\ Commit
  /\ pc' = "health"
  /\ UNCHANGED <<timeVars, prev, callVars, syncVars>>

TriageEmpty ==
  /\ pc = "triage" /\ ~force /\ Open(Scoped) = {}
  /\ pool' = Scoped
  /\ pc' = "agents"
  /\ UNCHANGED <<db, timeVars, prev, callVars, syncVars>>

-----------------------------------------------------------------------------
\* evaluate_active_strategy_health, at the start and again at the end of a sync.
\* The drawdown comes from the paper ledger: below the pause threshold, between
\* the two thresholds, or at the rollback threshold.

PreviousStable_Bug(P, active) == WithStatus(P, {"ARCHIVED"}) \ {active}

PreviousStable(P, active) ==
  {p \in WithStatus(P, {"ARCHIVED"}) \ {active} : WasPromoted(P[p])}

DecisionInMemory(a) == IF recast.id = a THEN recast.phase ELSE pool[a].phase

PauseActive(a) ==
  \E wins \in BOOLEAN :
    pool' = [pool EXCEPT ![a] =
      Decided([@ EXCEPT !.status = "CANDIDATE"], "paused_pending_review", Stamp(0), wins)]

RollbackTo(a, s) ==
  \E wins \in BOOLEAN :
    pool' = [pool EXCEPT
      ![a] = Decided([@ EXCEPT !.status = "CANDIDATE"], "rolled_back", Stamp(0), wins),
      ![s] = [@ EXCEPT !.status = "ACTIVE", !.promotedAt = Stamp(0)]]

EvaluateHealth(drawdown) ==
  \E a \in ActiveStrategy(pool) :
    IF \/ a = None
       \/ drawdown = "ok"
       \/ DecisionInMemory(a) \in {"paused_pending_review", "rolled_back"}
    THEN pool' = pool
    ELSE IF drawdown = "rollback" /\ PreviousStable(pool, a) # {}
         THEN \E s \in LatestPromoted(pool, PreviousStable(pool, a)) : RollbackTo(a, s)
         ELSE PauseActive(a)

HealthFirst(drawdown) ==
  /\ pc = "health"
  /\ EvaluateHealth(drawdown)
  /\ prev' \in ActiveStrategy(pool')
  /\ pc' = "agents"
  /\ UNCHANGED <<db, timeVars, callVars, syncVars>>

HealthLast(drawdown) ==
  /\ pc = "final"
  /\ EvaluateHealth(drawdown)
  /\ pc' = "finish"
  /\ UNCHANGED <<db, timeVars, prev, callVars, syncVars>>

-----------------------------------------------------------------------------
\* The stage commit in front of the strategy agents, which write no proposal.
Agents ==
  /\ pc = "agents"
  /\ pool' = pool
  /\ Commit
  /\ pc' = "symbol"
  /\ UNCHANGED <<timeVars, prev, callVars, syncVars>>

Incumbent_Bug == Context(pool, prev)

\* The active strategy a blueprint is compared with: the one promoted earlier in
\* the same call, else the one that was active when the call began.
Incumbent == Context(pool, IF promoted # None THEN promoted ELSE prev)

\* One blueprint of materialize_proposals_and_decisions: review, proposal row and
\* decision row.  All blueprints of a call come from one provider answer.
Insert(p, review) ==
  LET status == GovernanceStatus(review, Incumbent, macro, day)
      row == [status |-> status, symbol |-> batch[turn],
              source |-> review.source, score |-> review.score,
              createdAt |-> Stamp(turn),
              promotedAt |-> IF status = "ACTIVE" THEN Stamp(turn) ELSE Never,
              phase |-> LifecyclePhase(status, Incumbent, day),
              decidedAt |-> Stamp(turn)]
  IN
  /\ pc = "symbol"
  /\ p \in Free(pool)
  /\ count < MaxBlueprints
  /\ count > 0 => Cardinality(Free(pool)) > Len(batch) - turn
  /\ source \in {"none", review.source}
  /\ pool' = [pool EXCEPT ![p] = row]
  /\ promoted' = IF status = "ACTIVE" THEN p ELSE promoted
  /\ source' = review.source
  /\ count' = count + 1
  /\ born' = born \cup {p}
  /\ UNCHANGED <<db, pc, timeVars, prev, batch, turn, force, macro, recast>>

FinishSymbol_Bug ==
  /\ pc = "symbol" /\ count > 0
  /\ pool' = IF promoted # None /\ prev # None THEN Archive(pool, {prev}) ELSE pool
  /\ Commit
  /\ prev' \in ActiveStrategy(pool')
  /\ promoted' = None /\ source' = "none" /\ count' = 0
  /\ IF turn > Len(batch) THEN pc' = "prune" /\ turn' = turn
                          ELSE pc' = pc /\ turn' = turn + 1
  /\ UNCHANGED <<timeVars, batch, force, macro, born, recast>>

\* The end of the call: a replaced predecessor is archived, the session commits
\* and previous_active is read again.
FinishSymbol ==
  /\ pc = "symbol" /\ count > 0
  /\ pool' = IF promoted # None /\ prev # None THEN Archive(pool, {prev}) ELSE pool
  /\ Commit
  /\ prev' \in ActiveStrategy(pool')
  /\ promoted' = None /\ source' = "none" /\ count' = 0
  /\ IF turn = Len(batch) THEN pc' = "prune" /\ turn' = turn
                          ELSE pc' = pc /\ turn' = turn + 1
  /\ UNCHANGED <<timeVars, batch, force, macro, born, recast>>

-----------------------------------------------------------------------------
\* prune_strategy_proposals.

Protected_Bug(row) == row.phase = "paused_pending_review"

Protected(row) == row.phase \in {"candidate_cooldown", "paused_pending_review"}

StaleRejected == {p \in WithStatus(pool, {"REJECTED"}) :
                    pool[p].createdAt.day < day - RejectedDays}
PruneScope == WithStatus(pool, {"CANDIDATE"}) \cap InScope(pool, ScopeSymbol)
Aged == {p \in PruneScope : /\ day - pool[p].createdAt.day > MaxAgeDays
                            /\ ~Protected(pool[p])}
Survivors == PruneScope \ Aged

\* The first RetentionLimit survivors; equal rows are taken in any order.
Keepable(S) == {kept \in SUBSET S :
  /\ Cardinality(kept) = IF Cardinality(S) < RetentionLimit THEN Cardinality(S)
                                                             ELSE RetentionLimit
  /\ \A p \in S \ kept, q \in kept : ~Outranks(pool[p], pool[q])}

Prune ==
  /\ pc = "prune"
  /\ ~Incomparable(pool, Survivors)
  /\ \E kept \in Keepable(Survivors) :
       pool' = Archive(pool, StaleRejected \cup Aged
                             \cup {p \in Survivors \ kept : ~Protected(pool[p])})
  /\ pc' = "promote"
  /\ UNCHANGED <<db, timeVars, prev, callVars, syncVars>>

PruneRaises ==
  /\ pc = "prune"
  /\ Incomparable(pool, Survivors)
  /\ pool' = Archive(pool, StaleRejected \cup Aged)
  /\ pc' = "raised"
  /\ UNCHANGED <<db, timeVars, prev, callVars, syncVars>>

\* _promote_existing_real_candidate_over_mock_active.  A minimax row always has
\* provider_status 'ready'.
Challengers_Bug ==
  IF prev = None \/ pool[prev].source = "minimax" THEN {}
  ELSE {c \in WithStatus(pool, {"CANDIDATE"}) \cap Real(pool) :
          pool[c].symbol = pool[prev].symbol}

Challengers ==
  IF prev = None \/ pool[prev].source = "minimax" THEN {}
  ELSE {c \in WithStatus(pool, {"CANDIDATE"}) \cap Real(pool) :
          /\ pool[c].symbol = pool[prev].symbol
          /\ pool[c].score >= PromoteThreshold
          /\ pool[c].score >= pool[prev].score}

PromoteExisting ==
  /\ pc = "promote"
  /\ \/ /\ Challengers = {}
        /\ UNCHANGED <<pool, prev, recast>>
     \/ \E c \in Challengers, wins \in BOOLEAN :
          /\ \A o \in Challengers : ~Outranks(pool[o], pool[c])
          /\ pool' = [pool EXCEPT
               ![prev].status = "ARCHIVED",
               ![c] = Decided([@ EXCEPT !.status = "ACTIVE", !.promotedAt = Stamp(0)],
                              "promotion_ready", Stamp(0), wins)]
          /\ recast' = [id |-> c, phase |-> pool[c].phase]
          /\ prev' = c
  /\ pc' = "assign"
  /\ UNCHANGED <<db, timeVars, callVars, batch, turn, force, macro, born>>

\* _assign_paper_pool_slots ranks every real open strategy, then the stage commit
\* in front of the paper cycles.
Ranked == WithStatus(pool, {"ACTIVE", "CANDIDATE"}) \cap Real(pool)

AssignSlots ==
  /\ pc = "assign"
  /\ IF Incomparable(pool, Ranked)
     THEN pc' = "raised" /\ UNCHANGED <<db, pool>>
     ELSE pc' = "final" /\ pool' = pool /\ Commit
  /\ UNCHANGED <<timeVars, prev, callVars, syncVars>>

Finish ==
  /\ pc = "finish"
  /\ pool' = pool
  /\ Commit
  /\ Over

-----------------------------------------------------------------------------
\* An exception at any stage: the except branch commits what the session holds.
FailCommitting ==
  /\ pc # "idle"
  /\ promoted # None => RaisesMidSwap
  /\ pool' = pool
  /\ Commit
  /\ Over

\* The process dies, or a flush fails: the session is lost.
LoseSession ==
  /\ pc # "idle"
  /\ pool' = db
  /\ UNCHANGED db
  /\ Over

\* The bounds of the model stop the syncs.
BoundReached ==
  /\ pc = "idle"
  /\ \/ day > MaxDay
     \/ tick > MaxTick
     \/ \A b \in Batches : Cardinality(Free(pool)) < Len(b)
  /\ UNCHANGED vars

Drawdowns == {"ok", "pause", "rollback"}

Next ==
  \/ \E b \in Batches : Begin(b)
  \/ TriageForced \/ TriageRecover \/ TriageHealth \/ TriageEmpty
  \/ \E drawdown \in Drawdowns : HealthFirst(drawdown) \/ HealthLast(drawdown)
  \/ Agents
  \/ \E p \in Proposals, review \in Reviews : Insert(p, review)
  \/ FinishSymbol
  \/ Prune \/ PruneRaises \/ PromoteExisting \/ AssignSlots \/ Finish
  \/ FailCommitting \/ LoseSession
  \/ BoundReached

Spec == Init /\ [][Next]_vars
-----------------------------------------------------------------------------
\* Properties.

Phases == {"none", "promotion_ready", "candidate_cooldown", "candidate_watch",
           "rejected", "paused_pending_review", "rolled_back"}
Stamps == [day : Int, tick : Nat]
Row == [status : {"none", "ACTIVE", "CANDIDATE", "REJECTED", "ARCHIVED"},
        symbol : Symbols \cup {None},
        source : {"none", "mock", "minimax"},
        score : Int,
        createdAt : Stamps, promotedAt : Stamps, phase : Phases, decidedAt : Stamps]

\* Every variable has its type.
TypeOK ==
  /\ db \in [Proposals -> Row]
  /\ pool \in [Proposals -> Row]
  /\ pc \in {"idle", "triage", "health", "agents", "symbol", "prune", "promote",
            "assign", "final", "finish", "raised"}
  /\ day \in Nat /\ tick \in Nat
  /\ batch \in Seq(Symbols)
  /\ turn \in Nat \ {0}
  /\ IF pc = "idle" THEN turn = 1 ELSE turn <= Len(batch)
  /\ force \in BOOLEAN /\ macro \in BOOLEAN
  /\ prev \in Proposals \cup {None}
  /\ promoted \in Proposals \cup {None}
  /\ source \in {"none", "mock", "minimax"}
  /\ count \in Nat
  /\ born \subseteq Proposals
  /\ recast \in [id : Proposals \cup {None}, phase : Phases]

OneActive(P) == \A p, q \in Actives(P) : p = q

\* docs/ARCHITECTURE.md:40: at any moment there is at most one active paper strategy.
\* Said of the committed table, which the API, the slots and the next sync read.
AtMostOneActive == OneActive(db)

\* Whatever put a strategy in the active seat (its own review, the replacement of
\* a mock, a rollback, the recovery of an archived one), it cleared the promotion
\* threshold at its review, and it still does when it was demoted or archived: it
\* may be given the seat again without a review.
PromotedMeetsThreshold ==
  \A p \in Proposals : db[p].status = "ACTIVE" \/ WasPromoted(db[p]) =>
    db[p].score >= PromoteThreshold

\* A rejection is final: a proposal whose last decision is a rejection was never
\* promoted and is not in the pool, so no rollback, recovery or challenge finds it.
RejectedStaysOut ==
  \A p \in Proposals : db[p].phase = "rejected" =>
    ~WasPromoted(db[p]) /\ db[p].status \in {"REJECTED", "ARCHIVED"}

\* The inductive invariants behind the three.
\*
\* Outside a materialize call the session has one ACTIVE row at most; inside, the
\* predecessor and the proposal promoted in that call, whose own cooldown is what
\* keeps a second blueprint of the call from being promoted too.
PreviousActiveTracked ==
  pc \in {"triage", "agents", "symbol", "prune", "promote", "assign"} =>
    Actives(pool) \subseteq {prev, promoted}

SwapInProgress ==
  promoted # None =>
    /\ pc = "symbol"
    /\ pool[promoted].status = "ACTIVE"
    /\ pool[promoted].source = source /\ source \in {"mock", "minimax"}
    /\ pool[promoted].promotedAt.day = day

SeatInv ==
  /\ AtMostOneActive
  /\ promoted = None => OneActive(pool)
  /\ PreviousActiveTracked
  /\ SwapInProgress

RowMerit(row) ==
  /\ row.status = "ACTIVE" \/ WasPromoted(row) => row.score >= PromoteThreshold
  /\ row.status \in {"ACTIVE", "CANDIDATE"} \/ WasPromoted(row) => row.phase # "rejected"
  /\ row.status = "none" => row.phase # "rejected"

MeritInv == \A p \in Proposals : RowMerit(db[p]) /\ RowMerit(pool[p])

\* A real active strategy is archived only for a successor that is now active,
\* after the cooldown of its promotion, and by at least the challenger's margin.
\* Commits are what the rest of the system sees, so it is said of those.
RealActiveKeepsItsSeat ==
  [][\A p \in Actives(db) \cap Real(db) :
       db'[p].status = "ARCHIVED" =>
         /\ day - db[p].promotedAt.day >= CooldownDays
         /\ \E q \in Actives(db') : db'[q].score >= db[p].score + ChallengerMinDelta]_vars

\* The committed table as the seat of the active strategy (ActiveSeat): between two
\* commits the seat changes hands at most once, and then for one of the reasons that
\* are given there; no refresh, change of symbol, retention or failure empties it.
Seat(P) == {[id |-> p, source |-> P[p].source, score |-> P[p].score,
             since |-> P[p].promotedAt.day] : p \in Actives(P)}
Former(P) == {[id |-> p, source |-> P[p].source, score |-> P[p].score]
                : p \in {q \in Proposals : WasPromoted(P[q])}}
Benched(P) == {p \in WithStatus(P, {"CANDIDATE"}) : WasPromoted(P[p])}

Abstract == INSTANCE ActiveSeat WITH seat <- Seat(db), former <- Former(db), bench <- Benched(db)
ImplementsSeat == Abstract!Spec

\* Retention never discards a candidate that waits for its cooldown or its
\* review: such a row is archived only by the triage at the start of a sync (a
\* forced refresh, another symbol, an empty seat nothing can fill), or because the
\* session that made it a candidate was lost.
ProtectedSurvivesRetention ==
  [][\A p \in WithStatus(pool, {"CANDIDATE"}) :
       /\ pool[p].phase \in {"candidate_cooldown", "paused_pending_review"}
       /\ pool'[p].status = "ARCHIVED"
       =>
         pc = "triage" \/ pc' = "idle"]_vars

\* services.py:5830: a paused strategy resumes after `fresh_candidate_review_completed`;
\* so it must not be active again on the strength of the very decision that paused it.
PausedNeedsFreshDecision ==
  \A p \in Actives(db) : db[p].phase # "paused_pending_review"
=============================================================================
