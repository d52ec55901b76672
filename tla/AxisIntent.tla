----------------------------- MODULE AxisIntent -----------------------------
(* The adaptive axis-intent estimator (src/stage/axis_intent/axis_intent.c):   *)
(* which axis does the user mean, judged by the motion of a sliding window.    *)
(* Pure operators over the estimator's state; GestureStages.tla drives them.   *)
(* The three fixed policies always answer the same and are left out, as is the *)
(* saturation at 64 bits.                                                      *)
EXTENDS Integers

CONSTANTS
  WindowMs,            \* window_ms
  EngageRatio,         \* engage_ratio_percent
  ReleaseRatio,        \* release_ratio_percent
  IntentActivation     \* activation_distance of the estimator

\* zpt_axis_intent_validate.
ASSUME IntentAssumption ==
  /\ WindowMs \in Nat \ {0} /\ EngageRatio \in Nat \ {0}
  /\ ReleaseRatio \in Nat \ {0} /\ IntentActivation \in Nat \ {0}

Intents == {"undecided", "horizontal", "vertical", "free"}

Abs(v) == IF v < 0 THEN -v ELSE v

\* zpt_axis_intent_reset.
FreshEstimator == [h |-> 0, v |-> 0, intent |-> "undecided"]

\* decay: the part of an energy that an elapsed time leaves in the window.
Decay(energy, elapsed) ==
  IF elapsed >= WindowMs THEN 0 ELSE (energy * (WindowMs - elapsed)) \div WindowMs

\* zpt_fixed_ratio_dominates.
Dominates(major, minor, ratio) == 100 * major >= minor * ratio

\* update_adaptive_intent, for the energies h and v.
Updated(intent, h, v) ==
  LET horizontal == Dominates(h, v, EngageRatio)
      vertical == Dominates(v, h, EngageRatio)
  IN  CASE intent = "horizontal" ->
             IF Dominates(h, v, ReleaseRatio) THEN intent
             ELSE IF vertical THEN "vertical" ELSE "free"
        [] intent = "vertical" ->
             IF Dominates(v, h, ReleaseRatio) THEN intent
             ELSE IF horizontal THEN "horizontal" ELSE "free"
        [] OTHER ->
             IF horizontal THEN "horizontal" ELSE IF vertical THEN "vertical" ELSE "free"

\* zpt_axis_intent_estimate: too little motion in the window leaves the intent
\* as it was.
Estimate(estimator, x, y, elapsed) ==
  LET h == Decay(estimator.h, elapsed) + Abs(x)
      v == Decay(estimator.v, elapsed) + Abs(y)
  IN  [h |-> h, v |-> v,
       intent |-> IF h + v < IntentActivation THEN estimator.intent
                  ELSE Updated(estimator.intent, h, v)]
=============================================================================
