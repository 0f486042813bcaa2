-------------------------- MODULE GovernanceReview --------------------------
(***************************************************************************)
(* One proposal in front of the promotion rule, and the ways its situation *)
(* improves between two syncs while the proposal itself stays the same:    *)
(* its score rises, a day passes, the macro channel recovers, the backtest *)
(* that was not available becomes a pass.  Every combination of inputs is  *)
(* an initial state, so the run checks the rule on all of them.            *)
(***************************************************************************)
EXTENDS Governance

CONSTANTS
  Scores,        \* the final scores tried, around the thresholds
  Days,          \* the days tried, 0 .. a bound beyond the cooldown
  KnowledgeSets  \* the sets of knowledge reasons tried

ASSUME ReviewAssumption ==
  /\ Scores \subseteq Int /\ Days \subseteq Int
  /\ KnowledgeSets \subseteq SUBSET KnowledgeReasons

VARIABLES
  review,   \* the proposal under review
  active,   \* the context of the active strategy, or NoActive
  macro,    \* is the macro channel degraded?
  day       \* the day of the review

reviewVars == <<review, active, macro, day>>

Sources == {"mock", "minimax"}
ReviewInputs ==
  [source : Sources, score : Scores, backtest : BacktestOutcomes,
   knowledge : KnowledgeSets]
ActiveContexts ==
  {NoActive} \cup [source : Sources, score : Scores, promotedDay : Days]

Status == GovernanceStatus(review, active, macro, day)
Promotion == PromotionBlockedReasons(review, active, macro, day)

ReviewInit ==
  /\ review \in ReviewInputs
  /\ active \in ActiveContexts
  /\ macro \in BOOLEAN
  /\ day \in Days

ScoreRises ==
  /\ \E s \in Scores : s > review.score /\ review' = [review EXCEPT !.score = s]
  /\ UNCHANGED <<active, macro, day>>

DayPasses ==
  /\ day + 1 \in Days
  /\ day' = day + 1
  /\ UNCHANGED <<review, active, macro>>

MacroRecovers ==
  /\ macro
  /\ macro' = FALSE
  /\ UNCHANGED <<review, active, day>>

BacktestPasses ==
  /\ review.backtest # "go"
  /\ review' = [review EXCEPT !.backtest = "go"]
  /\ UNCHANGED <<active, macro, day>>

KnowledgeCleared ==
  /\ review.knowledge # {}
  /\ review' = [review EXCEPT !.knowledge = {}]
  /\ UNCHANGED <<active, macro, day>>

ReviewNext == ScoreRises \/ DayPasses \/ MacroRecovers \/ BacktestPasses \/ KnowledgeCleared

ReviewSpec == ReviewInit /\ [][ReviewNext]_reviewVars

-----------------------------------------------------------------------------
\* Properties.

\* The report explains every refusal: a proposal that is not promoted has a
\* promotion reason listed, a rejected one has a candidate reason listed.  The
\* decision and the reason lists are computed by separate conditions.
RefusalIsExplained ==
  /\ Status # "ACTIVE" => Promotion # {}
  /\ Status = "REJECTED" => CandidateBlockedReasons(review) # {}

\* A promotion never goes through against a listed promotion reason, with one
\* exception: `llm_mock_fallback` is listed but not enforced, so a mock proposal
\* may be promoted over its own reason.
OnlyMockBypassesReasons ==
  Status = "ACTIVE" => Promotion \subseteq {"llm_mock_fallback"}

\* The promotion conditions of docs/RUNBOOK.md section v1.5, stated on their own:
\* bottom line, threshold, cooldown over, minimum advantage, macro not degraded.
\* Only the replacement of a mock active by a real proposal skips the cooldown
\* and the advantage, and then the newcomer is at least as good.
RunbookConditions ==
  Status = "ACTIVE" =>
    /\ BottomLinePassed(review.backtest)
    /\ review.score >= PromoteThreshold
    /\ BlockOnMacroDegrade => ~macro
    /\ active # NoActive =>
         \/ /\ day - active.promotedDay >= CooldownDays
            /\ review.score >= active.score + ChallengerMinDelta
         \/ /\ active.source = "mock" /\ review.source = "minimax"
            /\ review.score >= active.score

\* An unchanged or better situation never worsens the outcome: a proposal that
\* would be promoted stays promoted, one that would be kept is never rejected.
Rank(status) == CASE status = "REJECTED" -> 0 [] status = "CANDIDATE" -> 1 [] OTHER -> 2
NeverWorse == [][Rank(Status') >= Rank(Status)]_reviewVars
=============================================================================
