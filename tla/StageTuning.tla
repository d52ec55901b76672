----------------------------- MODULE StageTuning -----------------------------
(* A request to change a stage's settings (service/tuning.c and                *)
(* stage/stage_tuning.c): every value is checked before any is used, then a    *)
(* copy of the configuration takes them all and is checked as a whole.  What   *)
(* results is the candidate that platform/zmk/stage_tuning.c copies over the   *)
(* configuration in force.                                                     *)
(*                                                                             *)
(* One stage with two integer settings, of which the first may not exceed the  *)
(* second (as axis intent's release and engage ratios), stands for every stage. *)
EXTENDS Integers, Sequences

CONSTANTS
  Maximum,   \* zpt_tuning_parameter.maximum; the minimum is 0
  Compiled   \* the configuration the devicetree gives

Params == {"low", "high"}
Configs == [Params -> 0..Maximum]

\* The stage's validate operation, run on the candidate as a whole.
Valid(config) == config["low"] <= config["high"]

ASSUME TuningAssumption == Maximum \in Nat /\ Compiled \in Configs /\ Valid(Compiled)

\* validate_value_update: a known parameter, in range, named once.
Accepted(values, i) ==
  /\ values[i].param \in Params
  /\ values[i].value \in 0..Maximum
  /\ \A j \in 1..(i - 1) : values[j].param # values[i].param

\* zpt_stage_tuning_prepare: the copy of the configuration with the values put.
Prepared(config, values) ==
  [p \in Params |->
     IF \E i \in DOMAIN values : values[i].param = p
     THEN values[CHOOSE i \in DOMAIN values : values[i].param = p].value ELSE config[p]]

\* zpt_tuning_set_many and binding_set_many up to apply: does the request go through?
Applies(config, values) ==
  /\ values # <<>>
  /\ \A i \in DOMAIN values : Accepted(values, i)
  /\ Valid(Prepared(config, values))

\* zpt_stage_tuning_prepare_reset: each parameter as compiled.
Restored(config) == [p \in Params |-> Compiled[p]]
=============================================================================
