---------------------------- MODULE MCGovernance ----------------------------
(* The HK market profile in tenths of a point, and inputs at its edges. *)
EXTENDS GovernanceReview

MCScores == {680, 690, 760, 770, 785, 800}
MCDays == 0..5
MCKnowledgeSets ==
  {{}, {"knowledge_low_novelty"}, {"knowledge_param_outlier"},
   {"knowledge_low_novelty", "knowledge_rule_stack_overfit"}}
=============================================================================
