------------------------- MODULE CursorAcceleration -------------------------
(* How fast the ball moves and how much of its motion the cursor is given      *)
(* (stage/cursor_acceleration/cursor_acceleration.c): pure operators over one  *)
(* frame, the state the stage keeps between frames and the curve it was given. *)
(* One frame is one call of Observed and one of Scaled for each axis.          *)
(*                                                                             *)
(* The fixed-point units are constants: TLC's integers are 32 bits wide, so    *)
(* the products of the real units only exist for the prover, which needs no    *)
(* more of One and DecayOne than the theorems assume.                          *)
(*                                                                             *)
(* Left out: the 64-bit saturation of Scaled and of an axis of more than 2^31. *)
EXTENDS Integers

CONSTANTS
  One,         \* ZPT_FIXED_ONE
  DecayOne,    \* DECAY_ONE, a multiple of One
  SpeedLimit,  \* ZPT_ACCELERATION_SPEED_LIMIT
  Wrap         \* the uptime clock is a uint32_t: 2^32

Points == 8          \* ZPT_CURSOR_ACCELERATION_POINTS
MaxPercent == 1000   \* ZPT_CURSOR_ACCELERATION_MAX_PERCENT
RestartMs == 40      \* ZPT_CURSOR_ACCELERATION_RESTART_MS
MinIntervalUs == 1000

Magnitude(v) == IF v < 0 THEN -v ELSE v

\* The division of C, which drops the fraction; the divisor is positive.
Quot(a, b) == IF a < 0 THEN -((-a) \div b) ELSE a \div b

\* What integer_sqrt computes bit by bit.
Root(v) == CHOOSE r \in 0..v : r * r <= v /\ v < (r + 1) * (r + 1)

\* A curve: ball speeds in mm/s, percents, the two time constants.  It is one
\* that zpt_cursor_acceleration_validate accepts.
Curves == [speeds : [1..Points -> Nat], percents : [1..Points -> Nat], rise : Nat, fall : Nat]
ValidCurve(c) ==
  /\ c \in Curves
  /\ c.rise # 0 /\ c.fall # 0
  /\ \A i \in 1..Points : c.percents[i] \in 1..MaxPercent
  /\ \A i \in 1..(Points - 1) : c.speeds[i] < c.speeds[i + 1]

-----------------------------------------------------------------------------
(* The curve.                                                                *)

\* percent_to_ratio: rounded to nearest.
PercentRatio(p) == (p + 50) \div 100

\* The weighted harmonic mean of two secants that rise by leftRise over left and
\* by rightRise over right; both rises have one sign, so the quotient's sign is
\* theirs.
Harmonic(left, right, leftRise, rightRise) ==
  LET w1 == 2 * right + left
      w2 == right + 2 * left
  IN  ((w1 + w2) * leftRise * rightRise * One) \div (w1 * left * rightRise + w2 * right * leftRise)

\* point_tangent.
Tangent(c, i) ==
  LET left == c.speeds[i] - c.speeds[i - 1]
      right == c.speeds[i + 1] - c.speeds[i]
      leftRise == c.percents[i] - c.percents[i - 1]
      rightRise == c.percents[i + 1] - c.percents[i]
  IN  IF i = 1 \/ i = Points THEN 0
      ELSE IF leftRise > 0 /\ rightRise > 0 THEN Harmonic(left, right, leftRise, rightRise)
      ELSE IF leftRise < 0 /\ rightRise < 0 THEN -Harmonic(left, right, -leftRise, -rightRise)
      ELSE 0

\* "Rounding can't carry the curve past either end of its segment."
Between(v, a, b) ==
  LET low == IF a < b THEN a ELSE b
      high == IF a < b THEN b ELSE a
  IN  IF v < low THEN low ELSE IF v > high THEN high ELSE v

\* The cubic through segment i at the Q16 position t.
Hermite(c, i, t) ==
  LET span == c.speeds[i + 1] - c.speeds[i]
      t2 == (t * t) \div One
      t3 == (t2 * t) \div One
      start == c.percents[i] * One
      end == c.percents[i + 1] * One
  IN  start + Quot((end - start) * (3 * t2 - 2 * t3) + Tangent(c, i) * span * (t3 - 2 * t2 + t)
                     + Tangent(c, i + 1) * span * (t3 - t2), One)

\* The segment a speed inside the curve is in.
Segment(c, speed) ==
  CHOOSE i \in 1..(Points - 1) : c.speeds[i] * One <= speed /\ speed < c.speeds[i + 1] * One

\* zpt_cursor_acceleration_sensitivity: flat outside the curve.
Sensitivity(c, speed) ==
  IF speed <= c.speeds[1] * One THEN PercentRatio(c.percents[1] * One)
  ELSE IF speed >= c.speeds[Points] * One THEN PercentRatio(c.percents[Points] * One)
  ELSE LET i == Segment(c, speed)
           t == (speed - c.speeds[i] * One) \div (c.speeds[i + 1] - c.speeds[i])
       IN  PercentRatio(Between(Hermite(c, i, t), c.percents[i] * One, c.percents[i + 1] * One))

\* scale: the magnitude is rounded to nearest, whatever the sign.
Scaled(v, factor) ==
  LET m == (Magnitude(v) * factor + One \div 2) \div One
  IN  IF v < 0 THEN -m ELSE m

-----------------------------------------------------------------------------
(* The speed.                                                                *)

\* frame_interval_us.  A frame without a span is timed from the one before, in
\* the clock's own arithmetic: one handled out of order is a restart.
FrameInterval(state, frame) ==
  LET elapsed == (frame.at - state.last) % Wrap
      us == IF frame.clipped THEN RestartMs * 1000
            ELSE IF frame.span # 0 THEN frame.span
            ELSE IF state.have /\ elapsed < RestartMs THEN elapsed * 1000
            ELSE RestartMs * 1000
  IN  IF us < MinIntervalUs THEN MinIntervalUs
      ELSE IF us > RestartMs * 1000 THEN RestartMs * 1000 ELSE us

\* Two numbers of the decay series, each out of DecayOne.
Product(a, b) == (a * b) \div DecayOne
Squared(s) == Product(s, s)

\* 1 - y(1 - y/2 (1 - y/3 (1 - y/4))).
Series(y) ==
  LET s4 == DecayOne - y \div 4
      s3 == DecayOne - Product(y, s4) \div 3
      s2 == DecayOne - Product(y, s3) \div 2
  IN  DecayOne - Product(y, s2)

\* decay: what is left of a difference after elapsed us, out of One.
Decay(elapsed, constant) ==
  LET y == (elapsed * (DecayOne \div 16)) \div (constant * 1000)
      unit == DecayOne \div One
  IN  IF y >= DecayOne \div 2 THEN 0
      ELSE (Squared(Squared(Squared(Squared(Series(y))))) + unit \div 2) \div unit

\* The speed of this frame alone.
Instant(frame, interval) ==
  LET v == (Root(frame.x * frame.x + frame.y * frame.y) * 1000000) \div interval
  IN  IF v > SpeedLimit THEN SpeedLimit ELSE v

\* A part of the difference, out of One.
Moved(speed, instant, left) == speed + Quot((instant - speed) * (One - left), One)

\* zpt_cursor_acceleration_observe.
Observed(c, state, frame) ==
  LET interval == FrameInterval(state, frame)
      instant == Instant(frame, interval)
      constant == IF instant > state.speed THEN c.rise ELSE c.fall
  IN  [speed |-> IF interval = RestartMs * 1000 THEN instant
                 ELSE Moved(state.speed, instant, Decay(interval, constant)),
       last |-> frame.at, have |-> TRUE]

\* cursor_acceleration_stage_reset.
Fresh == [speed |-> 0, last |-> 0, have |-> FALSE]

\* cursor_acceleration_stage_process: both axes are scaled by one sensitivity.
Accelerated(c, state, frame) ==
  LET s == Sensitivity(c, Observed(c, state, frame).speed)
  IN  [x |-> Scaled(frame.x, s), y |-> Scaled(frame.y, s)]
=============================================================================
