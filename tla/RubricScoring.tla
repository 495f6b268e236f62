---------------------------- MODULE RubricScoring ----------------------------
(***************************************************************************)
(* scoring.evaluator: the points of an answer, decomposed by rule.  Awards  *)
(* and credits are in quarters, so points are in sixteenths.                *)
(***************************************************************************)
EXTENDS Integers, SequencesExt, NoValue

CONSTANTS
  Rules,     \* the rules of RUB-DRILL: id, award and cap, in order
  MaxBonus   \* aggregation.speed_factor.max_bonus, or None

\* DRILL_PREDICATES: the rules this evaluator can judge.
Implemented == {"D-CORRECT", "D-PARTIAL", "D-MISS", "D-WITHIN-TOLERANCE",
                "D-CALIBRATION", "D-FAST-AND-CORRECT"}

\* The predicate of each implemented rule, over the Facts of a submission.
Fires(rule, facts) ==
  CASE rule = "D-CORRECT" -> facts.matched = "accept"
    [] rule = "D-PARTIAL" -> facts.matched = "partial"
    [] rule = "D-MISS" -> facts.matched = "reject"
    [] rule = "D-WITHIN-TOLERANCE" -> facts.within = "inside"
    [] rule = "D-CALIBRATION" -> facts.confidence > 0
    [] rule = "D-FAST-AND-CORRECT" -> facts.matched = "accept" /\ facts.in_time

Least(a, b) == IF a < b THEN a ELSE b

\* _award(): the item's share of a partial award, the cap on the speed bonus, then
\* the rule's own cap.
Award(rule, facts) ==
  LET share == IF rule.id = "D-PARTIAL" THEN rule.award * facts.credit
                                        ELSE 4 * rule.award
      bonus == IF rule.id = "D-FAST-AND-CORRECT" /\ MaxBonus # None
                 THEN Least(share, 4 * MaxBonus) ELSE share
  IN  CASE rule.cap = None -> bonus
        [] rule.cap # None /\ bonus >= 0 -> Least(bonus, 4 * rule.cap)
        [] OTHER -> IF bonus > -4 * rule.cap THEN bonus ELSE -4 * rule.cap

\* What a rule adds to the points.
Adds(rule, facts) ==
  IF rule.id \in Implemented /\ Fires(rule.id, facts) THEN Award(rule, facts) ELSE 0

\* RubricEvaluator.evaluate(): the awards, their total, the rules nobody can judge.
evaluate(facts) ==
  LET total[n \in 0 .. Len(Rules)] ==
        IF n = 0 THEN 0 ELSE total[n - 1] + Adds(Rules[n], facts)
      judged == {r \in ToSet(Rules) : r.id \in Implemented}
  IN  [total |-> total[Len(Rules)],
       lines |-> {r.id : r \in {s \in judged : Fires(s.id, facts)}},
       unimplemented |-> {r.id : r \in ToSet(Rules) \ judged}]
=============================================================================
