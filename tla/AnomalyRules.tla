---------------------------- MODULE AnomalyRules ----------------------------
(***************************************************************************)
(* The statistical rule of GET /stores/{id}/anomalies (app/anomalies.py):  *)
(* queues that are longer than usual.                                      *)
(* The z-score is the distance from the mean of the samples in units of    *)
(* their standard deviation (n - 1 in the denominator); it is compared     *)
(* here without leaving the integers.  The rule on the conversion rate and *)
(* the one on aggregate queue depth read a table that no code fills        *)
(* (models.MetricBucket) and never fire.                                   *)
(***************************************************************************)
EXTENDS Integers, FiniteSets, Sequences, Folds, Functions

CONSTANTS
  BaselineSamples,   \* samples a baseline needs (min_baseline_samples)
  ZWarn,        \* z_score_warn
  ZCritical,    \* z_score_critical
  DepthAlarm    \* queue_spike_absolute_critical

ASSUME RulesAssumption ==
  /\ BaselineSamples \in Nat \ {0}
  /\ ZWarn \in Nat \ {0} /\ ZCritical \in Nat /\ ZWarn <= ZCritical
  /\ DepthAlarm \in Nat \ {0}

SumOf(s) == FoldFunction(+, 0, s)

SumOfSquares(s) == FoldFunction(+, 0, [i \in DOMAIN s |-> s[i] * s[i]])

\* Mutant of Spread: the mean squared deviation, with n in the denominator.
PopulationSpread(s) ==
  ((Len(s) - 1) * (Len(s) * SumOfSquares(s) - SumOf(s) * SumOf(s))) \div Len(s)

\* n * (n - 1) times the variance of the samples.
Spread(s) == Len(s) * SumOfSquares(s) - SumOf(s) * SumOf(s)

\* x lies at least k standard deviations from the mean of s.  Samples that are
\* all alike have the standard deviation EPSILON.
Apart(x, s, k) ==
  LET off == Len(s) * x - SumOf(s)
  IN  off # 0 /\ off * off * (Len(s) - 1) >= k * k * Len(s) * Spread(s)

AboveMean(x, s) == Len(s) * x > SumOf(s)

\* severity_from_z looks at the distance, not at the direction.
SeverityOf(x, s) ==
  IF Apart(x, s, ZCritical) THEN "critical" ELSE IF Apart(x, s, ZWarn) THEN "warn" ELSE "info"

\* detect_queue_spikes for one queue: the depths of the baseline window in the
\* order they were observed, the present one included.
QueueAlarm(depths) ==
  LET x == depths[Len(depths)]
  IN  IF Len(depths) < BaselineSamples
      THEN IF x >= DepthAlarm THEN "critical"
           ELSE IF x >= DepthAlarm \div 2 THEN "warn" ELSE "none"
      ELSE IF ~(AboveMean(x, depths) /\ Apart(x, depths, ZWarn)) /\ x < DepthAlarm THEN "none"
      ELSE IF Len(depths) * x < SumOf(depths) /\ SeverityOf(x, depths) = "info" THEN "none"
      ELSE SeverityOf(x, depths)
=============================================================================
