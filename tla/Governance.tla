----------------------------- MODULE Governance -----------------------------
(***************************************************************************)
(* The promotion rule of the strategy pool: what the pipeline decides      *)
(* about one proposal, given its scores, its backtest gate, its knowledge  *)
(* assessment, the strategy that is active now, the state of the macro     *)
(* channel and the day.  Pure operators, shared by every module that       *)
(* materialises proposals.                                                 *)
(*                                                                         *)
(* An operator whose name ends in _Bug is a plausible mistake in the       *)
(* definition that follows it and is used by no module.                    *)
(*                                                                         *)
(* Scores are integers in tenths of a point (the code rounds every final   *)
(* score to one decimal); days are calendar days.                          *)
(***************************************************************************)
EXTENDS Integers

CONSTANTS
  PromoteThreshold,     \* governance.promote_threshold of the market profile
  KeepThreshold,        \* governance.keep_threshold
  ChallengerMinDelta,   \* governance.challenger_min_delta
  CooldownDays,         \* governance.cooldown_days
  RequireBacktest,      \* settings.governance.require_backtest_before_paper
  BlockOnMacroDegrade   \* settings.governance.block_promotion_on_macro_degrade

ASSUME GovernanceAssumption ==
  /\ PromoteThreshold \in Int
  /\ KeepThreshold \in Int
  /\ ChallengerMinDelta \in Int
  /\ CooldownDays \in Nat \ {0}
  /\ RequireBacktest \in BOOLEAN
  /\ BlockOnMacroDegrade \in BOOLEAN

-----------------------------------------------------------------------------
\* The backtest gate.

\* What the admission backtest of a proposal can end in: the engine raised, or
\* the review's verdict, with or without the yellow flags that ask for a human.
\* A review with a failed hard gate is always NO_GO, and only then.
BacktestOutcomes ==
  {"unavailable", "no_go", "go", "go_review", "revise", "revise_review"}

EligibleForPaper(outcome) == outcome = "go"

GateBlockedReasons(outcome) ==
  CASE outcome = "unavailable"                      -> {"backtest_unavailable"}
    [] outcome = "no_go"                            -> {"backtest_no_go"}
    [] outcome \in {"go_review", "revise_review"}   -> {"backtest_review_required"}
    [] outcome = "revise"                           -> {"backtest_requires_revision"}
    [] outcome = "go"                               -> {}

\* A gate without a hard failure passes the bottom line and makes the proposal
\* a possible candidate; both operators read the same two facts.
BacktestGateBottomLine(outcome) == outcome \notin {"unavailable", "no_go"}
BacktestGateCandidateOk(outcome) == outcome \notin {"unavailable", "no_go"}

\* data_integrity, execution_safety and max_drawdown_limit are constants of the
\* evidence pack (the synthetic drawdown is clamped below its own limit), so the
\* bottom line is the backtest admission, when that is required at all.
BottomLinePassed(outcome) == RequireBacktest => BacktestGateBottomLine(outcome)

-----------------------------------------------------------------------------
\* The knowledge assessment.

KnowledgeReasons ==
  {"knowledge_family_mismatch", "knowledge_failure_mode_risk",
   "knowledge_param_outlier", "knowledge_low_novelty",
   "knowledge_rule_stack_overfit", "knowledge_capacity_unclear"}

\* The reasons that also keep a proposal out of the candidate pool.
CandidateKnowledgeReasons ==
  KnowledgeReasons \ {"knowledge_low_novelty", "knowledge_capacity_unclear"}

-----------------------------------------------------------------------------
\* The comparison with the active strategy.  `active` is the context of the
\* active strategy, [source, score, promotedDay], or NoActive; a review is
\* [source, score, backtest, knowledge].

NoActive == [source |-> "none", score |-> 0, promotedDay |-> 0]

CooldownRemaining_Bug(active, day) ==
  IF active = NoActive THEN 0 ELSE CooldownDays - (day - active.promotedDay)

CooldownRemaining(active, day) ==
  LET elapsed == IF day >= active.promotedDay THEN day - active.promotedDay ELSE 0
  IN  IF active = NoActive \/ elapsed >= CooldownDays
      THEN 0
      ELSE CooldownDays - elapsed

ReplacingMockActive(review, active) ==
  /\ active # NoActive
  /\ active.source = "mock"
  /\ review.source # "mock"
  /\ review.score >= active.score
  /\ review.score >= PromoteThreshold

CanChallengeActive_Bug(review, active, day) ==
  \/ active = NoActive
  \/ review.score - active.score >= ChallengerMinDelta
  \/ ReplacingMockActive(review, active)

CanChallengeActive(review, active, day) ==
  \/ active = NoActive
  \/ /\ review.score - active.score >= ChallengerMinDelta
     /\ CooldownRemaining(active, day) = 0
  \/ ReplacingMockActive(review, active)

MacroBlocks(macroDegraded) == BlockOnMacroDegrade /\ macroDegraded

-----------------------------------------------------------------------------
\* The reasons the report gives.

CandidateBlockedReasons(review) ==
  (IF ~BottomLinePassed(review.backtest) /\ ~BacktestGateCandidateOk(review.backtest)
   THEN {"bottom_line_failed"} ELSE {})
  \cup (IF review.source = "mock" THEN {"llm_mock_fallback"} ELSE {})
  \cup (IF review.score < KeepThreshold THEN {"below_keep_threshold"} ELSE {})
  \cup review.knowledge

PromotionBlockedReasons_Bug(review, active, macroDegraded, day) ==
  (IF review.source = "mock" THEN {"llm_mock_fallback"} ELSE {})
  \cup (IF review.score < PromoteThreshold THEN {"below_promote_threshold"} ELSE {})
  \cup (IF MacroBlocks(macroDegraded) THEN {"macro_provider_degraded"} ELSE {})
  \cup (IF RequireBacktest THEN GateBlockedReasons(review.backtest) ELSE {})
  \cup review.knowledge

PromotionBlockedReasons(review, active, macroDegraded, day) ==
  (IF review.source = "mock" THEN {"llm_mock_fallback"} ELSE {})
  \cup (IF review.score < PromoteThreshold THEN {"below_promote_threshold"} ELSE {})
  \cup (IF /\ active # NoActive
           /\ review.score - active.score < ChallengerMinDelta
           /\ ~ReplacingMockActive(review, active)
        THEN {"delta_below_threshold"} ELSE {})
  \cup (IF /\ CooldownRemaining(active, day) > 0
           /\ ~ReplacingMockActive(review, active)
        THEN {"cooldown_active"} ELSE {})
  \cup (IF MacroBlocks(macroDegraded) THEN {"macro_provider_degraded"} ELSE {})
  \cup (IF RequireBacktest THEN GateBlockedReasons(review.backtest) ELSE {})
  \cup review.knowledge

-----------------------------------------------------------------------------
\* The decision.

PromoteAllowed_Bug(review, active, macroDegraded, day) ==
  /\ BottomLinePassed(review.backtest)
  /\ review.score >= PromoteThreshold
  /\ CanChallengeActive(review, active, day)
  /\ RequireBacktest => EligibleForPaper(review.backtest)
  /\ review.knowledge \cap KnowledgeReasons = {}

PromoteAllowed(review, active, macroDegraded, day) ==
  /\ BottomLinePassed(review.backtest)
  /\ review.score >= PromoteThreshold
  /\ CanChallengeActive(review, active, day)
  /\ RequireBacktest => EligibleForPaper(review.backtest)
  /\ ~MacroBlocks(macroDegraded)
  /\ review.knowledge \cap KnowledgeReasons = {}

CandidateAllowed(review) ==
  /\ BottomLinePassed(review.backtest) \/ BacktestGateCandidateOk(review.backtest)
  /\ review.score >= KeepThreshold
  /\ review.source # "mock"
  /\ review.knowledge \cap CandidateKnowledgeReasons = {}

GovernanceStatus(review, active, macroDegraded, day) ==
  CASE PromoteAllowed(review, active, macroDegraded, day) -> "ACTIVE"
    [] /\ ~PromoteAllowed(review, active, macroDegraded, day)
       /\ CandidateAllowed(review)                        -> "CANDIDATE"
    [] OTHER                                              -> "REJECTED"

\* The lifecycle phase the decision records for the proposal.
LifecyclePhase(status, active, day) ==
  CASE status = "ACTIVE"   -> "promotion_ready"
    [] status = "REJECTED" -> "rejected"
    [] OTHER               -> IF CooldownRemaining(active, day) > 0
                              THEN "candidate_cooldown" ELSE "candidate_watch"
=============================================================================
