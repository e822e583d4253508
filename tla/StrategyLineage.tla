-------------------------- MODULE StrategyLineage ---------------------------
(***************************************************************************)
(* What shared/strategyLineage.ts makes of a lineage's records, which the  *)
(* owner adds one at a time (createEvaluation and createOutcome of         *)
(* server/routers.ts) and which nothing changes or deletes.  The rates are *)
(* quotients of counts, compared with the thresholds by cross              *)
(* multiplication.                                                         *)
(***************************************************************************)
EXTENDS RacingCalls, Integers

VARIABLE record  \* how many strategyEvaluations and outcomeRecords of each kind

Kinds == {"pass", "notPass", "outperforming", "even", "underperforming"}

Records == [Kinds -> Nat]

LineageStep == {Idle, Done} \cup [at : {"insert"}, kind : Kinds]

LineageTypeOK == record \in Records /\ pc \in [Calls -> LineageStep]

Evaluations(r) == r["pass"] + r["notPass"]

Outcomes(r) == r["outperforming"] + r["even"] + r["underperforming"]

Deviation(r) == r["outperforming"] - r["underperforming"]

\* Without evaluations the rate is 0, without outcomes the average is.
PassRateAtLeast(r, tenths) ==
  IF Evaluations(r) = 0 THEN tenths <= 0 ELSE 10 * r["pass"] >= tenths * Evaluations(r)

DeviationAtLeast(r, tenths) ==
  IF Outcomes(r) = 0 THEN tenths <= 0 ELSE 10 * Deviation(r) >= tenths * Outcomes(r)

\* Mutant: the outcomes are looked at before the evaluations.
HealthByOutcome(r) ==
  IF ~DeviationAtLeast(r, -5) /\ Outcomes(r) >= 2 THEN "evolve"
  ELSE IF ~PassRateAtLeast(r, 3) /\ Evaluations(r) >= 2 THEN "retire"
  ELSE "continue"

\* calculateLineageHealth: the recommendation.
Health(r) ==
  IF ~PassRateAtLeast(r, 3) /\ Evaluations(r) >= 2 THEN "retire"
  ELSE IF ~DeviationAtLeast(r, -5) /\ Outcomes(r) >= 2 THEN "evolve"
  ELSE "continue"

Stages == {"research", "simulation", "decision", "retired"}

\* shouldPromote: the stage a lineage is to be in next.
NextStage(stage, r) ==
  IF Health(r) = "retire" THEN "retired"
  ELSE IF Health(r) = "evolve" THEN stage
  ELSE IF stage = "research" /\ PassRateAtLeast(r, 5) THEN "simulation"
  ELSE IF stage = "simulation" /\ PassRateAtLeast(r, 7) /\ DeviationAtLeast(r, -2) THEN "decision"
  ELSE stage

LineageInit == record = [k \in Kinds |-> 0]

-----------------------------------------------------------------------------

Add(c) ==
  /\ pc[c] = Idle
  /\ \E kind \in Kinds : Becomes(c, [at |-> "insert", kind |-> kind])
  /\ UNCHANGED record

Insert(c) ==
  /\ At(c, "insert")
  /\ record' = [record EXCEPT ![pc[c].kind] = @ + 1]
  /\ Becomes(c, Done)

LineageNext ==
  \E c \in Calls :
    \/ Add(c)
    \/ Insert(c)
    \/ Fail(c) /\ UNCHANGED record

lineageVars == <<record, pc>>

LineageSpec == LineageInit /\ pc = Waiting /\ [][LineageNext]_lineageVars

-----------------------------------------------------------------------------

Good == {"pass", "outperforming", "even"}

Rank(health) == CASE health = "retire" -> 0 [] health = "evolve" -> 1 [] health = "continue" -> 2

Standing(stage) ==
  CASE stage = "retired" -> 0 [] stage = "research" -> 1
    [] stage = "simulation" -> 2 [] stage = "decision" -> 3

\* What a lineage is given credit for: the recommendation, or how far it gets
\* from a stage.
Views == {"recommendation"} \cup Stages

Credit(view, r) ==
  IF view = "recommendation" THEN Rank(Health(r)) ELSE Standing(NextStage(view, r))

\* One more record of a kind moves every credit its way.
NewsMoves ==
  \A kind \in Kinds, view \in Views :
    record' = [record EXCEPT ![kind] = @ + 1] =>
      IF kind \in Good THEN Credit(view, record') >= Credit(view, record)
      ELSE Credit(view, record') <= Credit(view, record)

\* A record that speaks for the lineage never lowers what is recommended for it,
\* nor the stage it is in next, and one that speaks against it never raises them.
NewsIsHeard == [][NewsMoves]_record

=============================================================================
