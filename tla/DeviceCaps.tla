----------------------------- MODULE DeviceCaps -----------------------------
(* The resolutions a pointing device supports and what becomes of a request    *)
(* for another one (source/device_caps.c).  A device declares a list of values *)
(* or a range with a step.  Pure operators over that declaration, of which     *)
(* SensorControl.tla runs one copy on each half.                               *)
(*                                                                             *)
(* Left out: 16-bit widths (no sum leaves them), and declarations the          *)
(* devicetree checks refuse (an empty list, no step, an inverted range).       *)
EXTENDS Integers, Sequences, SequencesExt

Distance(a, b) == IF a > b THEN a - b ELSE b - a

\* validate_discrete: the first of the values that are nearest.
NearestListed(values, requested) ==
  FoldLeft(LAMBDA best, v : IF Distance(v, requested) < Distance(best, requested) THEN v ELSE best,
           Head(values), values)

\* snap_range_point, for a request inside the range.
SnapPoint(min, max, step, requested) ==
  LET offset == requested - min
      below == offset - (offset % step)
      above == below + step
  IN  min + (IF above <= max - min /\ above - offset < offset - below THEN above ELSE below)

\* validate_range.
SnapRange(min, max, step, requested) ==
  IF requested <= min THEN min
  ELSE IF requested >= max THEN max
  ELSE SnapPoint(min, max, step, requested)

\* zpt_cpi_validate: the effective value.
Snap(caps, requested) ==
  IF caps.discrete THEN NearestListed(caps.values, requested)
  ELSE SnapRange(caps.min, caps.max, caps.step, requested)

\* What a declaration supports: a request for it is met exactly
\* (device_caps.h).
InRange(min, max, step, v) == v \in min..max /\ (v = max \/ (v - min) % step = 0)
Supported(caps) ==
  IF caps.discrete THEN {caps.values[i] : i \in DOMAIN caps.values}
  ELSE {v \in caps.min..caps.max : InRange(caps.min, caps.max, caps.step, v)}

\* Is v of the set the nearest to what was requested, and the lower of two?
IsNearest(v, set, requested) ==
  /\ v \in set
  /\ \A u \in set :
       \/ Distance(v, requested) < Distance(u, requested)
       \/ Distance(v, requested) = Distance(u, requested) /\ v <= u
=============================================================================
