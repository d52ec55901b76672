------------------------- MODULE CursorStages_proofs -------------------------
(* Proofs about the two stages of the cursor's path that measure time.         *)
(*                                                                             *)
(* The coalescer neither loses, repeats nor strands motion, and lets it wait   *)
(* for one interval only: for every pair of intervals, every HID range and     *)
(* every clock, and without assuming that whoever read the clock is prompt.    *)
(* Its reports keep their distance when everyone is.  The first three facts    *)
(* are proved together.  That what is owed is what is pending needs types      *)
(* only; that what is pending is armed needs the type invariant's              *)
(* armed <=> deadline # NoTime, since a flush ends the arming through the      *)
(* pipeline's deadline.                                                        *)
(*                                                                             *)
(* The acceleration, for every curve the stage accepts and for fixed-point     *)
(* units of any size: the speed estimate follows the ball without overshooting *)
(* it, the curve goes through its points and stays between them, and a flat    *)
(* curve at 100 percent is no acceleration at all.                             *)
EXTENDS CursorCoalescer, CursorAcceleration, TLAPS, WellFoundedInduction

Inv == TypeOK /\ NothingDropped /\ PendingIsArmed

-----------------------------------------------------------------------------
(* Lemmas about the stage's arithmetic.                                      *)

\* A clock value plus an interval is again a clock value.
LEMMA ClockWraps == ASSUME NEW t \in Int PROVE t % Period \in Times
BY PeriodAssumption DEF Times

\* A clock value is never the mark for no time.
LEMMA NoTimeIsNoClock == NoTime \notin Times
BY DEF NoTime, Times

\* Sums and differences of motion, and what a report carries, are motion.
LEMMA MotionTypes ==
  ASSUME NEW u \in [Axes -> Int], NEW v \in [Axes -> Int]
  PROVE  /\ Plus(u, v) \in [Axes -> Int]
         /\ Minus(u, v) \in [Axes -> Int]
         /\ Carried(u) \in [Axes -> Int]
         /\ Rest(u) \in [Axes -> Int]
         /\ Nothing \in [Axes -> Int]
<1>1. HidMax \in Int
  BY HidAssumption
<1>2. Carried(u) \in [Axes -> Int]
  BY <1>1 DEF Carried
<1>3. Minus(u, Carried(u)) \in [Axes -> Int]
  BY <1>2 DEF Minus
<1>4. QED
  BY <1>2, <1>3 DEF Plus, Minus, Rest, Nothing

\* A flush adds nothing to the sum.
LEMMA PlusNothing == ASSUME NEW u \in [Axes -> Int] PROVE Plus(u, Nothing) = u
<1>1. \A a \in Axes : u[a] + Nothing[a] = u[a]
  BY DEF Nothing
<1>2. QED
  BY <1>1 DEF Plus

\* An interval is a number, whichever link is in use.
LEMMA IntervalIsInt == ASSUME link \in Links PROVE Interval[link] \in Int
BY IntervalAssumption, PeriodAssumption

-----------------------------------------------------------------------------
(* The stage's two ways of taking motion in.                                 *)

\* What Inv says of the stage and of the histories, after a step.
StageOK ==
  /\ pending \in [Axes -> Int]
  /\ owed = pending
  /\ report \in [Axes -> Int]
  /\ last \in Times
  /\ have \in BOOLEAN
  /\ armed \in BOOLEAN
  /\ deadline \in Times \cup {NoTime}
  /\ armed <=> deadline # NoTime
  /\ pending # Nothing => armed
  /\ gap \in 0..Period
  /\ switched \in BOOLEAN

LEMMA SendKeepsStage ==
  ASSUME Inv, NEW v \in [Axes -> Int], NEW t \in Times, Send(v, t)
  PROVE  StageOK'
<1> DEFINE sum == Plus(pending, v)
<1>1. pending \in [Axes -> Int] /\ owed = pending /\ link \in Links
  BY DEF Inv, TypeOK, NothingDropped
<1>2. sum \in [Axes -> Int]
  BY <1>1, MotionTypes
<1>3. /\ report' = Carried(sum)
      /\ pending' = Rest(sum)
      /\ owed' = Minus(Plus(owed, v), Carried(sum))
      /\ last' = t /\ have' = TRUE /\ gap' = 0 /\ switched' = FALSE
      /\ \/ pending' = Nothing /\ Unarmed
         \/ pending' # Nothing /\ ArmAt(t + Interval[link])
  BY DEF Send
<1>4. owed' = pending'
  BY <1>1, <1>3 DEF Rest
<1>5. report' \in [Axes -> Int] /\ pending' \in [Axes -> Int]
  BY <1>2, <1>3, MotionTypes
<1>6. t + Interval[link] \in Int
  BY <1>1, IntervalIsInt DEF Times
<1>7. (t + Interval[link]) % Period \in Times
  BY <1>6, ClockWraps
<1>8. /\ armed' \in BOOLEAN
      /\ deadline' \in Times \cup {NoTime}
      /\ armed' <=> deadline' # NoTime
      /\ pending' # Nothing => armed'
  BY <1>3, <1>7, NoTimeIsNoClock DEF Unarmed, ArmAt
<1>9. gap' \in 0..Period
  BY <1>3, PeriodAssumption
<1>10. QED
  BY <1>3, <1>4, <1>5, <1>8, <1>9 DEF StageOK

LEMMA HoldKeepsStage ==
  ASSUME Inv, NEW v \in [Axes -> Int], Hold(v, frame.at)
  PROVE  StageOK'
<1>1. /\ pending \in [Axes -> Int] /\ owed = pending /\ link \in Links
      /\ last \in Times /\ have \in BOOLEAN /\ gap \in 0..Period
      /\ switched \in BOOLEAN
      /\ deadline \in Times \cup {NoTime}
      /\ armed <=> deadline # NoTime
  BY DEF Inv, TypeOK, NothingDropped
<1>2. /\ pending' = Plus(pending, v)
      /\ owed' = Plus(owed, v)
      /\ \/ armed /\ UNCHANGED <<armed, deadline>>
         \/ ~armed /\ ArmAt(last + Interval[link])
      /\ report' = Nothing
      /\ UNCHANGED <<gap, switched, last, have>>
  BY DEF Hold, Quiet
<1>3. last + Interval[link] \in Int
  BY <1>1, IntervalIsInt DEF Times
<1>4. (last + Interval[link]) % Period \in Times
  BY <1>3, ClockWraps
<1>5. armed' = TRUE /\ deadline' \in Times \cup {NoTime} /\ deadline' # NoTime
  <2>0. armed \in BOOLEAN
    BY DEF Inv, TypeOK
  <2>1. CASE armed /\ UNCHANGED <<armed, deadline>>
    BY <1>1, <2>0, <2>1
  <2>2. CASE ~armed /\ ArmAt(last + Interval[link])
    BY <1>4, <2>2, NoTimeIsNoClock DEF ArmAt
  <2>3. QED
    BY <1>2, <2>1, <2>2
<1>6. pending' \in [Axes -> Int] /\ report' \in [Axes -> Int]
  BY <1>1, <1>2, MotionTypes
<1>7. QED
  BY <1>1, <1>2, <1>5, <1>6 DEF StageOK

-----------------------------------------------------------------------------
(* The invariant is inductive.                                               *)

LEMMA InvInit == ASSUME Init PROVE Inv
<1>1. 0 \in Times /\ Period \in 0..Period
  BY PeriodAssumption DEF Times
<1>2. Nothing \in [Axes -> Int]
  BY DEF Nothing
<1>3. NoFrame \in [at : Times \cup {NoTime}, delta : [Axes -> Int]]
  BY <1>2 DEF NoFrame
<1>4. TypeOK
  BY <1>1, <1>2, <1>3 DEF Init, TypeOK
<1>5. QED
  BY <1>4 DEF Init, Inv, NothingDropped, PendingIsArmed

\* What Inv says of everything around the stage.
OutsideOK ==
  /\ now \in Times
  /\ link \in Links
  /\ frame \in [at : Times \cup {NoTime}, delta : [Axes -> Int]]
  /\ frame # NoFrame => frame.at \in Times
  /\ handler \in Times \cup {NoTime}

LEMMA InvParts == Inv <=> StageOK /\ OutsideOK
BY DEF Inv, TypeOK, NothingDropped, PendingIsArmed, StageOK, OutsideOK

\* The frame that waited is handled: it is sent, held, or adds up to nothing.
LEMMA ProcessKeeps == ASSUME Inv, Process PROVE Inv'
<1> DEFINE v == frame.delta
<1>1. StageOK /\ OutsideOK
  BY InvParts
<1>2. frame # NoFrame /\ v \in [Axes -> Int] /\ frame.at \in Times
  BY <1>1 DEF Process, OutsideOK
<1>3. StageOK'
  <2>1. CASE /\ Plus(pending, v) = Nothing /\ pending' = Nothing
             /\ owed' = Plus(owed, v) /\ Quiet
             /\ UNCHANGED <<last, have, armed, deadline>>
    BY <1>1, <2>1, MotionTypes DEF StageOK, Quiet
  <2>2. CASE Send(v, frame.at)
    BY <1>2, <2>2, SendKeepsStage
  <2>3. CASE Hold(v, frame.at)
    BY <1>2, <2>3, HoldKeepsStage
  <2>4. QED
    BY <2>1, <2>2, <2>3 DEF Process
<1>4. NoFrame \in [at : Times \cup {NoTime}, delta : [Axes -> Int]]
  BY DEF NoFrame, Nothing
<1>5. OutsideOK'
  BY <1>1, <1>4 DEF Process, OutsideOK
<1>6. QED
  BY <1>3, <1>5, InvParts, PTL

\* The deadline handler's turn: the stage is flushed, or nothing is due.
LEMMA FlushKeeps == ASSUME Inv, Flush PROVE Inv'
<1>1. StageOK /\ OutsideOK
  BY InvParts
<1>2. handler \in Times
  BY <1>1 DEF Flush, OutsideOK
<1>3. StageOK'
  <2>1. CASE pending = Nothing /\ Unarmed /\ Quiet /\ UNCHANGED <<pending, owed, last, have>>
    BY <1>1, <2>1, MotionTypes DEF StageOK, Unarmed, Quiet
  <2>2. CASE pending # Nothing /\ Send(Nothing, handler)
    <3>1. Nothing \in [Axes -> Int]
      BY DEF Nothing
    <3>2. QED
      BY <1>2, <2>2, <3>1, SendKeepsStage
  <2>3. CASE Quiet /\ UNCHANGED <<stage, owed>>
    <3>1. Nothing \in [Axes -> Int]
      BY DEF Nothing
    <3>2. QED
      BY <1>1, <2>3, <3>1 DEF StageOK, Quiet, stage
  <2>4. QED
    BY <2>1, <2>2, <2>3 DEF Flush, FlushStage
<1>4. OutsideOK'
  BY <1>1 DEF Flush, OutsideOK
<1>5. QED
  BY <1>3, <1>4, InvParts, PTL

\* A reset starts the stage afresh.
LEMMA ResetKeeps == ASSUME Inv, Reset PROVE Inv'
<1>1. OutsideOK'
  BY InvParts DEF Reset, OutsideOK, outside
<1>2. 0 \in Times /\ Period \in 0..Period
  BY PeriodAssumption DEF Times
<1>3. Nothing \in [Axes -> Int]
  BY DEF Nothing
<1>4. StageOK'
  BY <1>2, <1>3 DEF StageOK, Reset, Unarmed
<1>5. QED
  BY <1>1, <1>4, InvParts, PTL

\* Steps of the surroundings leave the stage and what it owes alone.
LEMMA SurroundingsKeep ==
  ASSUME Inv, OutsideOK', UNCHANGED <<stage, owed>>, report' = Nothing,
         gap' \in 0..Period, switched' \in BOOLEAN
  PROVE  Inv'
<1>1. StageOK
  BY InvParts
<1>2. Nothing \in [Axes -> Int]
  BY DEF Nothing
<1>3. StageOK'
  BY <1>1, <1>2 DEF StageOK, stage
<1>4. QED
  BY <1>3, InvParts, PTL

LEMMA InvNext == ASSUME Inv, [Next]_vars PROVE Inv'
<1>1. StageOK /\ OutsideOK
  BY InvParts
<1>2. gap \in 0..Period /\ switched \in BOOLEAN
  BY <1>1 DEF StageOK
<1>3. CASE Process
  BY <1>3, ProcessKeeps
<1>4. CASE Flush
  BY <1>4, FlushKeeps
<1>5. CASE Reset
  BY <1>5, ResetKeeps
<1>6. ASSUME NEW v \in Deltas, Observe(v) PROVE Inv'
  <2>1. v \in [Axes -> Int]
    BY DeltasAssumption DEF Axes
  <2>2. OutsideOK'
    BY <1>1, <1>6, <2>1 DEF Observe, OutsideOK
  <2>3. QED
    BY <1>2, <1>6, <2>2, SurroundingsKeep DEF Observe
<1>7. CASE Expire
  <2>1. OutsideOK'
    BY <1>1, <1>7 DEF Expire, OutsideOK
  <2>2. QED
    BY <1>2, <1>7, <2>1, SurroundingsKeep DEF Expire
<1>8. ASSUME NEW l \in Links, SwitchLink(l) PROVE Inv'
  <2>1. OutsideOK'
    BY <1>1, <1>8 DEF SwitchLink, OutsideOK
  <2>2. QED
    BY <1>2, <1>8, <2>1, SurroundingsKeep DEF SwitchLink
<1>9. CASE Tick
  <2>1. now + 1 \in Int
    BY <1>1 DEF OutsideOK, Times
  <2>2. now' \in Times
    BY <1>9, <2>1, ClockWraps DEF Tick
  <2>3. OutsideOK'
    BY <1>1, <1>9, <2>2 DEF Tick, OutsideOK
  <2>4. gap' \in 0..Period
    BY <1>2, <1>9, PeriodAssumption DEF Tick
  <2>5. QED
    BY <1>2, <1>9, <2>3, <2>4, SurroundingsKeep DEF Tick
<1>10. CASE UNCHANGED vars
  BY <1>10 DEF vars, outside, stage, Inv, TypeOK, NothingDropped, PendingIsArmed
<1>11. QED
  BY <1>3, <1>4, <1>5, <1>6, <1>7, <1>8, <1>9, <1>10 DEF Next

\* The conjunction of the three is an invariant of the stage.
THEOREM InvAlways == Spec => []Inv
<1>1. Init => Inv
  BY InvInit
<1>2. Inv /\ [Next]_vars => Inv'
  BY InvNext
<1>3. QED
  BY <1>1, <1>2, PTL DEF Spec

-----------------------------------------------------------------------------
(* What follows.                                                             *)

\* Type correctness, and the agreement of the stage's armed flag with the
\* deadline the pipeline holds for it.
THEOREM TypeInvariant == Spec => []TypeOK
<1>1. Inv => TypeOK
  BY DEF Inv
<1>2. QED
  BY <1>1, InvAlways, PTL

\* Motion is neither lost nor sent twice, whatever the HID range and however
\* late frames and flushes are handled.
THEOREM NothingDroppedInvariant == Spec => []NothingDropped
<1>1. Inv => NothingDropped
  BY DEF Inv
<1>2. QED
  BY <1>1, InvAlways, PTL

\* Whatever the stage holds has a flush coming.
THEOREM PendingIsArmedInvariant == Spec => []PendingIsArmed
<1>1. Inv => PendingIsArmed
  BY DEF Inv
<1>2. QED
  BY <1>1, InvAlways, PTL

-----------------------------------------------------------------------------
(* Times.  A clock that was read is at most a millisecond old, and not even    *)
(* that when Prompt.  So the histories and the stage's clocks agree: what the  *)
(* stage measures since its last report is the gap, or a millisecond more, and *)
(* a deadline it waits for is an interval after that report and not long past. *)

InTime(t) == t = now \/ (~Prompt /\ now = (t + 1) % Period)

Stamped ==
  /\ frame # NoFrame => InTime(frame.at)
  /\ handler # NoTime => InTime(handler)

\* The last report was stamped e milliseconds before it was sent.
Sent(e) == e \in {0, 1} /\ (Prompt => e = 0) /\ now = (last + (gap + e)) % Period

Measured == gap < Period => have /\ \E e \in {0, 1} : Sent(e)

Awaited ==
  armed /\ gap < Period - 1 =>
    \E l \in Links :
      /\ l = link \/ switched
      /\ deadline = (last + Interval[l]) % Period
      /\ gap <= Interval[l] + MaxLate

Timed == Inv /\ Stamped /\ Measured /\ Awaited

-----------------------------------------------------------------------------
(* Lemmas about clocks that wrap.                                            *)

LEMMA Wrapped ==
  ASSUME NEW r \in Times
  PROVE  r % Period = r /\ (r + Period) % Period = r /\ (r - Period) % Period = r
BY PeriodAssumption, SMT DEF Times

\* A clock value d milliseconds on.
LEMMA Ahead ==
  ASSUME NEW t \in Times, NEW d \in 0..Period
  PROVE  (t + d) % Period = IF t + d < Period THEN t + d ELSE t + d - Period
<1>1. CASE t + d < Period
  <2>1. t + d \in Times
    BY <1>1, PeriodAssumption DEF Times
  <2>2. (t + d) % Period = t + d
    BY <2>1, Wrapped
  <2>3. QED
    BY <1>1, <2>2
<1>2. CASE t + d >= Period
  <2>1. t + d - Period \in Times
    BY <1>2, PeriodAssumption DEF Times
  <2>2. ((t + d - Period) + Period) % Period = t + d - Period
    BY <2>1, Wrapped
  <2>3. (t + d - Period) + Period = t + d
    BY <2>1, PeriodAssumption DEF Times
  <2>4. QED
    BY <1>2, <2>2, <2>3, PeriodAssumption DEF Times
<1>3. QED
  BY <1>1, <1>2, PeriodAssumption DEF Times

\* How far u is behind t.
LEMMA Behind ==
  ASSUME NEW t \in Times, NEW u \in Times
  PROVE  (t - u) % Period = IF u <= t THEN t - u ELSE t - u + Period
<1>1. CASE u <= t
  <2>1. t - u \in Times
    BY <1>1, PeriodAssumption DEF Times
  <2>2. (t - u) % Period = t - u
    BY <2>1, Wrapped
  <2>3. QED
    BY <1>1, <2>2
<1>2. CASE u > t
  <2>1. t - u + Period \in Times
    BY <1>2, PeriodAssumption DEF Times
  <2>2. ((t - u + Period) - Period) % Period = t - u + Period
    BY <2>1, Wrapped
  <2>3. (t - u + Period) - Period = t - u
    BY PeriodAssumption DEF Times
  <2>4. QED
    BY <1>2, <2>2, <2>3 DEF Times
<1>3. QED
  BY <1>1, <1>2 DEF Times

\* An interval is less than half a turn of the clock.
LEMMA IntervalBound ==
  ASSUME NEW l \in Links
  PROVE  Interval[l] \in 0..Period /\ 2 * Interval[l] < Period
BY IntervalAssumption, PeriodAssumption

\* Gap and clock, as linear arithmetic.
LEMMA NowIs ==
  ASSUME Timed, gap < Period, NEW e \in {0, 1}, Sent(e)
  PROVE  /\ now \in Times /\ last \in Times /\ gap \in 0..(Period - 1)
         /\ now = IF last + (gap + e) < Period THEN last + (gap + e)
                                               ELSE last + (gap + e) - Period
<1>1. now \in Times /\ last \in Times /\ gap \in 0..(Period - 1)
  BY PeriodAssumption DEF Timed, Inv, TypeOK
<1>2. gap + e \in 0..Period
  BY <1>1, PeriodAssumption
<1>3. QED
  BY <1>1, <1>2, Ahead DEF Sent

\* A prompt stage measures the gap.
LEMMA PromptSince ==
  ASSUME Timed, Prompt, gap < Period
  PROVE  Since(now) = gap
<1>1. PICK e \in {0, 1} : Sent(e)
  BY DEF Timed, Measured
<1>2. e = 0
  BY <1>1 DEF Sent
<1>3. /\ now \in Times /\ last \in Times /\ gap \in 0..(Period - 1)
      /\ now = IF last + gap < Period THEN last + gap ELSE last + gap - Period
  BY <1>1, <1>2, NowIs
<1>4. (now - last) % Period = IF last <= now THEN now - last ELSE now - last + Period
  BY <1>3, Behind
<1>5. QED
  BY <1>3, <1>4, PeriodAssumption DEF Since, Times

\* A frame that is held comes within an interval of the last report.
LEMMA HeldWithin ==
  ASSUME Timed, gap < Period - 1, NEW t \in Times, InTime(t),
         NEW l \in Links, Since(t) < Interval[l]
  PROVE  gap <= Interval[l]
<1>0. gap < Period
  BY PeriodAssumption DEF Timed, Inv, TypeOK
<1>1. PICK e \in {0, 1} : Sent(e)
  BY <1>0 DEF Timed, Measured
<1>2. /\ now \in Times /\ last \in Times /\ gap \in 0..(Period - 1)
      /\ now = IF last + (gap + e) < Period THEN last + (gap + e)
                                            ELSE last + (gap + e) - Period
  BY <1>0, <1>1, NowIs
<1>3. (t - last) % Period = IF last <= t THEN t - last ELSE t - last + Period
  BY <1>2, Behind
<1>4. t = now \/ now = IF t + 1 < Period THEN t + 1 ELSE t + 1 - Period
  <2>1. 1 \in 0..Period
    BY PeriodAssumption
  <2>2. QED
    BY <2>1, Ahead DEF InTime
<1>5. Interval[l] \in 0..Period /\ 2 * Interval[l] < Period
  BY IntervalBound
<1>6. QED
  BY <1>2, <1>3, <1>4, <1>5, PeriodAssumption DEF Since, Times

\* A clock that was read in time is now, or a millisecond before.
LEMMA ReadIs ==
  ASSUME NEW t \in Times, now \in Times, InTime(t)
  PROVE  \E e \in {0, 1} : (Prompt => e = 0) /\ now = (t + (0 + e)) % Period
<1>1. (t + (0 + 0)) % Period = t
  BY Wrapped DEF Times
<1>2. CASE t = now
  BY <1>1, <1>2
<1>3. CASE ~Prompt /\ now = (t + 1) % Period
  <2>1. now = (t + (0 + 1)) % Period
    BY <1>3
  <2>2. QED
    BY <1>3, <2>1
<1>4. QED
  BY <1>2, <1>3 DEF InTime

\* A report starts the gap afresh, and what it leaves waits for one interval.
LEMMA SendTimes ==
  ASSUME Timed, NEW v, NEW t \in Times, InTime(t), Send(v, t), UNCHANGED <<now, link>>
  PROVE  Measured' /\ Awaited'
<1>1. now \in Times /\ link \in Links
  BY DEF Timed, Inv, TypeOK
<1>2. last' = t /\ have' = TRUE /\ gap' = 0 /\ now' = now /\ link' = link
  BY DEF Send
<1>3. PICK e \in {0, 1} : (Prompt => e = 0) /\ now = (t + (0 + e)) % Period
  BY <1>1, ReadIs
<1>4. Sent(e)'
  BY <1>2, <1>3 DEF Sent
<1>5. Measured'
  BY <1>2, <1>4 DEF Measured
<1>6. ASSUME armed' PROVE deadline' = (last' + Interval[link]) % Period
  BY <1>2, <1>6 DEF Send, Unarmed, ArmAt
<1>7. gap' <= Interval[link] + MaxLate
  BY <1>1, <1>2, IntervalBound, LateAssumption
<1>8. Awaited'
  BY <1>1, <1>2, <1>6, <1>7 DEF Awaited
<1>9. QED
  BY <1>5, <1>8

\* A frame that is held waits for the deadline there is, or for one interval.
LEMMA HoldTimes ==
  ASSUME Timed, NEW v, frame.at \in Times, InTime(frame.at), Hold(v, frame.at),
         ~(~armed /\ Elapsed(frame.at)), UNCHANGED <<now, link>>
  PROVE  Measured' /\ Awaited'
<1>1. now \in Times /\ link \in Links /\ armed \in BOOLEAN /\ gap \in 0..Period
  BY DEF Timed, Inv, TypeOK
<1>2. UNCHANGED <<now, link, last, have, gap, switched>>
  BY DEF Hold, Quiet
<1>3. Measured'
  BY <1>2 DEF Timed, Measured, Sent
<1>4. CASE armed
  <2>1. UNCHANGED <<armed, deadline>>
    BY <1>4 DEF Hold
  <2>2. Awaited'
    BY <1>2, <2>1 DEF Timed, Awaited
  <2>3. QED
    BY <1>3, <2>2
<1>5. CASE ~armed
  <2>1. deadline' = (last' + Interval[link]) % Period
    BY <1>2, <1>5 DEF Hold, ArmAt
  <2>2. ASSUME gap < Period - 1 PROVE gap <= Interval[link] + MaxLate
    <3>1. have /\ ~(Since(frame.at) >= Interval[link])
      BY <1>5 DEF Elapsed
    <3>2. Since(frame.at) \in Int /\ Interval[link] \in Int
      BY <1>1, ClockWraps, IntervalBound DEF Since, Timed, Inv, TypeOK, Times
    <3>3. Since(frame.at) < Interval[link]
      BY <3>1, <3>2
    <3>4. gap <= Interval[link]
      BY <1>1, <2>2, <3>3, HeldWithin
    <3>5. QED
      BY <1>1, <3>4, IntervalBound, LateAssumption
  <2>3. Awaited'
    BY <1>1, <1>2, <2>1, <2>2 DEF Awaited
  <2>4. QED
    BY <1>3, <2>3
<1>6. QED
  BY <1>1, <1>4, <1>5

\* A millisecond: what waits for an interval has not waited longer, because
\* the work handler takes a deadline up within MaxLate.
LEMMA TickTimes ==
  ASSUME Timed, Tick
  PROVE  Stamped' /\ Measured' /\ Awaited'
<1>1. /\ now \in Times /\ last \in Times /\ gap \in 0..Period /\ armed \in BOOLEAN
      /\ 1 \in 0..Period
  BY PeriodAssumption DEF Timed, Inv, TypeOK
<1>2. /\ now' = (now + 1) % Period
      /\ gap' = IF gap = Period THEN Period ELSE gap + 1
      /\ UNCHANGED <<link, frame, handler, last, have, armed, deadline, switched>>
  BY DEF Tick, stage
<1>3. Stamped'
  <2>1. frame # NoFrame => InTime(frame.at)'
    BY <1>2 DEF Tick, InTime
  <2>2. handler # NoTime => InTime(handler)'
    BY <1>2 DEF Tick, InTime
  <2>3. QED
    BY <1>2, <2>1, <2>2 DEF Stamped, InTime
<1>4. Measured'
  <2>1. SUFFICES ASSUME gap' < Period PROVE have' /\ \E e \in {0, 1} : Sent(e)'
    BY DEF Measured
  <2>2. gap + 1 < Period /\ gap' = gap + 1 /\ gap < Period
    BY <1>1, <1>2, <2>1, PeriodAssumption
  <2>3. have /\ \E e \in {0, 1} : Sent(e)
    BY <2>2 DEF Timed, Measured
  <2>4. PICK e \in {0, 1} : Sent(e)
    BY <2>3
  <2>5. now = IF last + (gap + e) < Period THEN last + (gap + e)
                                           ELSE last + (gap + e) - Period
    BY <2>2, <2>4, NowIs
  <2>6. (now + 1) % Period = IF now + 1 < Period THEN now + 1 ELSE now + 1 - Period
    BY <1>1, Ahead
  <2>7. gap + 1 + e \in 0..Period
    BY <1>1, <2>2, PeriodAssumption
  <2>8. (last + (gap + 1 + e)) % Period
          = IF last + (gap + 1 + e) < Period THEN last + (gap + 1 + e)
                                             ELSE last + (gap + 1 + e) - Period
    BY <1>1, <2>7, Ahead
  <2>9. now' = (last + (gap + 1 + e)) % Period
    BY <1>1, <1>2, <2>5, <2>6, <2>8, PeriodAssumption DEF Times
  <2>10. Sent(e)'
    BY <1>2, <2>2, <2>4, <2>9 DEF Sent
  <2>11. QED
    BY <1>2, <2>3, <2>10
<1>5. Awaited'
  <2>1. SUFFICES ASSUME armed', gap' < Period - 1
                 PROVE  \E l \in Links :
                          /\ l = link' \/ switched'
                          /\ deadline' = (last' + Interval[l]) % Period
                          /\ gap' <= Interval[l] + MaxLate
    BY DEF Awaited
  <2>2. gap + 1 < Period - 1 /\ gap' = gap + 1 /\ gap < Period - 1 /\ gap < Period
    BY <1>1, <1>2, <2>1, PeriodAssumption
  <2>3. PICK l \in Links : /\ l = link \/ switched
                           /\ deadline = (last + Interval[l]) % Period
                           /\ gap <= Interval[l] + MaxLate
    BY <1>2, <2>1, <2>2 DEF Timed, Awaited
  <2>4. PICK e \in {0, 1} : Sent(e)
    BY <2>2 DEF Timed, Measured
  <2>5. now = IF last + (gap + e) < Period THEN last + (gap + e)
                                           ELSE last + (gap + e) - Period
    BY <2>2, <2>4, NowIs
  <2>6. Interval[l] \in 0..Period /\ 2 * Interval[l] < Period /\ MaxLate \in Nat
        /\ 2 * MaxLate + 2 < Period
    BY IntervalBound, LateAssumption
  <2>7. deadline = IF last + Interval[l] < Period THEN last + Interval[l]
                                                  ELSE last + Interval[l] - Period
    BY <1>1, <2>3, <2>6, Ahead
  <2>8. deadline \in Times
    BY <1>1, <2>6, <2>7, PeriodAssumption DEF Times
  <2>9. (now - deadline) % Period = IF deadline <= now THEN now - deadline
                                                       ELSE now - deadline + Period
    BY <1>1, <2>8, Behind
  <2>10. ASSUME gap = Interval[l] + MaxLate PROVE FALSE
    <3>1. (now - deadline) % Period = MaxLate + e
      <4> DEFINE i == Interval[l]
                 m == (now - deadline) % Period
      <4>1. /\ last \in 0..(Period - 1) /\ gap \in Nat /\ e \in {0, 1}
            /\ i \in Nat /\ 2 * i < Period /\ MaxLate \in Nat /\ Period \in Nat
            /\ gap = i + MaxLate /\ gap + 2 < Period
        BY <1>1, <2>2, <2>6, <2>10, PeriodAssumption DEF Times
      <4>2. m = IF deadline <= now THEN now - deadline ELSE now - deadline + Period
        BY <2>9
      <4>3. deadline = IF last + i < Period THEN last + i ELSE last + i - Period
        BY <2>7
      <4> HIDE DEF i, m
      <4>4. m = MaxLate + e
        BY <2>5, <4>1, <4>2, <4>3
      <4>5. QED
        BY <4>4 DEF m
    <3>2. 2 * ((now - deadline) % Period) < Period
      BY <2>6, <3>1, PeriodAssumption
    <3>3. Due
      BY <2>8, <3>2, NoTimeIsNoClock DEF Due, Reached
    <3>4. (now - deadline) % Period < MaxLate
      BY <3>3 DEF Tick
    <3>5. QED
      BY <2>6, <3>1, <3>4
  <2>11. gap' <= Interval[l] + MaxLate
    BY <1>1, <2>2, <2>3, <2>6, <2>10
  <2>12. QED
    BY <1>2, <2>3, <2>11
<1>6. QED
  BY <1>3, <1>4, <1>5

LEMMA TimedNext == ASSUME Timed, [Next]_vars PROVE Timed'
<1>1. Inv'
  BY InvNext DEF Timed
<1>2. CASE Process
  <2>1. frame # NoFrame /\ frame' = NoFrame /\ UNCHANGED <<now, link, handler>>
    BY <1>2 DEF Process
  <2>2. frame.at \in Times /\ InTime(frame.at)
    BY <2>1 DEF Timed, Stamped, Inv, TypeOK
  <2>3. Stamped'
    BY <2>1 DEF Timed, Stamped, InTime
  <2>4. Measured' /\ Awaited'
    <3>1. CASE Quiet /\ UNCHANGED <<last, have, armed, deadline>>
      BY <2>1, <3>1 DEF Quiet, Timed, Measured, Awaited, Sent
    <3>2. CASE Send(frame.delta, frame.at)
      BY <2>1, <2>2, <3>2, SendTimes
    <3>3. CASE ~(~armed /\ Elapsed(frame.at)) /\ Hold(frame.delta, frame.at)
      BY <2>1, <2>2, <3>3, HoldTimes
    <3>4. QED
      BY <1>2, <3>1, <3>2, <3>3 DEF Process
  <2>5. QED
    BY <1>1, <2>3, <2>4 DEF Timed
<1>3. CASE Flush
  <2>1. handler # NoTime /\ handler' = NoTime /\ UNCHANGED <<now, link, frame>>
    BY <1>3 DEF Flush
  <2>2. handler \in Times /\ InTime(handler)
    BY <2>1 DEF Timed, Stamped, Inv, TypeOK
  <2>3. Stamped'
    BY <2>1 DEF Timed, Stamped, InTime
  <2>4. Measured' /\ Awaited'
    <3>1. CASE Unarmed /\ Quiet /\ UNCHANGED <<last, have>>
      BY <2>1, <3>1 DEF Unarmed, Quiet, Timed, Measured, Awaited, Sent
    <3>2. CASE Send(Nothing, handler)
      BY <2>1, <2>2, <3>2, SendTimes
    <3>3. CASE Quiet /\ UNCHANGED stage
      BY <2>1, <3>3 DEF stage, Quiet, Timed, Measured, Awaited, Sent
    <3>4. QED
      BY <1>3, <3>1, <3>2, <3>3 DEF Flush, FlushStage
  <2>5. QED
    BY <1>1, <2>3, <2>4 DEF Timed
<1>4. CASE Reset
  <2>1. Stamped'
    BY <1>4 DEF Reset, outside, Timed, Stamped, InTime
  <2>2. Measured' /\ Awaited'
    BY <1>4, PeriodAssumption DEF Reset, Unarmed, Measured, Awaited
  <2>3. QED
    BY <1>1, <2>1, <2>2 DEF Timed
<1>5. ASSUME NEW v \in Deltas, Observe(v) PROVE Timed'
  <2>1. Stamped'
    BY <1>5 DEF Observe, Timed, Stamped, InTime
  <2>2. Measured' /\ Awaited'
    BY <1>5 DEF Observe, stage, Timed, Measured, Awaited, Sent
  <2>3. QED
    BY <1>1, <2>1, <2>2 DEF Timed
<1>6. CASE Expire
  <2>1. Stamped'
    BY <1>6 DEF Expire, Timed, Stamped, InTime
  <2>2. Measured' /\ Awaited'
    BY <1>6 DEF Expire, stage, Timed, Measured, Awaited, Sent
  <2>3. QED
    BY <1>1, <2>1, <2>2 DEF Timed
<1>7. ASSUME NEW l \in Links, SwitchLink(l) PROVE Timed'
  <2>1. Stamped'
    BY <1>7 DEF SwitchLink, Timed, Stamped, InTime
  <2>2. Measured' /\ Awaited'
    BY <1>7 DEF SwitchLink, stage, Timed, Measured, Awaited, Sent
  <2>3. QED
    BY <1>1, <2>1, <2>2 DEF Timed
<1>8. CASE Tick
  BY <1>1, <1>8, TickTimes DEF Timed
<1>9. CASE UNCHANGED vars
  BY <1>1, <1>9 DEF vars, outside, stage, Timed, Stamped, InTime, Measured, Awaited, Sent
<1>10. QED
  BY <1>2, <1>3, <1>4, <1>5, <1>6, <1>7, <1>8, <1>9 DEF Next

LEMMA TimedAlways == Spec => []Timed
<1>1. Init => Timed
  <2>1. SUFFICES ASSUME Init PROVE Timed
    OBVIOUS
  <2>2. frame = NoFrame /\ handler = NoTime /\ armed = FALSE /\ gap = Period
    BY <2>1 DEF Init
  <2>3. Stamped /\ Measured /\ Awaited
    BY <2>2, PeriodAssumption DEF Stamped, Measured, Awaited
  <2>4. QED
    BY <2>1, <2>3, InvInit DEF Timed
<1>2. Timed /\ [Next]_vars => Timed'
  BY TimedNext
<1>3. QED
  BY <1>1, <1>2, PTL DEF Spec

\* What the stage holds is reported within an interval of the last report and
\* the lateness of the work queue, however frames and flushes are delayed.
THEOREM WaitsOneIntervalInvariant == Spec => []WaitsOneInterval
<1>1. Timed => WaitsOneInterval
  BY DEF Timed, Inv, PendingIsArmed, Awaited, WaitsOneInterval
<1>2. QED
  BY <1>1, TimedAlways, PTL

\* A frame is reported an interval after the last report: its own clock says
\* so, and since it is prompt that is the gap.
LEMMA FrameSpaced ==
  ASSUME Timed, Prompt, gap < Period \div 2, have, Elapsed(now)
  PROVE  Spaced(now)
<1>1. gap \in 0..Period /\ link \in Links
  BY DEF Timed, Inv, TypeOK
<1>2. gap < Period /\ 2 * gap < Period
  BY <1>1, PeriodAssumption
<1>3. Since(now) = gap
  BY <1>2, PromptSince
<1>4. Since(now) >= Interval[link]
  BY DEF Elapsed
<1>5. Reached(now, last)
  BY <1>2, <1>3 DEF Reached, Since
<1>6. QED
  BY <1>1, <1>4, <1>5 DEF Spaced

\* A flush comes an interval after the last report: that is when its deadline
\* was set for, on the link of that time.
LEMMA FlushSpaced ==
  ASSUME Timed, Prompt, gap < Period \div 2, armed, Reached(now, deadline)
  PROVE  Spaced(now)
<1>1. gap \in 0..Period /\ link \in Links /\ now \in Times /\ last \in Times
  BY DEF Timed, Inv, TypeOK
<1>2. gap < Period /\ gap < Period - 1 /\ 2 * gap < Period
  BY <1>1, PeriodAssumption, LateAssumption
<1>3. Since(now) = gap
  BY <1>2, PromptSince
<1>4. PICK l \in Links : /\ l = link \/ switched
                         /\ deadline = (last + Interval[l]) % Period
  BY <1>2 DEF Timed, Awaited
<1>5. PICK e \in {0, 1} : Sent(e)
  BY <1>2 DEF Timed, Measured
<1>6. e = 0 /\ now = IF last + (gap + e) < Period THEN last + (gap + e)
                                                  ELSE last + (gap + e) - Period
  BY <1>2, <1>5, NowIs DEF Sent
<1>7. Interval[l] \in 0..Period /\ 2 * Interval[l] < Period
  BY IntervalBound
<1>8. deadline = IF last + Interval[l] < Period THEN last + Interval[l]
                                                ELSE last + Interval[l] - Period
  BY <1>1, <1>4, <1>7, Ahead
<1>9. deadline \in Times
  BY <1>1, <1>7, <1>8, PeriodAssumption DEF Times
<1>10. (now - deadline) % Period = IF deadline <= now THEN now - deadline
                                                      ELSE now - deadline + Period
  BY <1>1, <1>9, Behind
<1>11. 2 * ((now - deadline) % Period) < Period
  BY DEF Reached
<1>12. gap >= Interval[l]
  BY <1>1, <1>2, <1>6, <1>7, <1>8, <1>10, <1>11, PeriodAssumption DEF Times
<1>13. Reached(now, last)
  BY <1>2, <1>3 DEF Reached, Since
<1>14. QED
  BY <1>3, <1>4, <1>12, <1>13 DEF Spaced

\* At most one report per report interval, when clocks are used in the
\* millisecond they are read.
THEOREM OnePerIntervalAlways == ASSUME Prompt PROVE Spec => OnePerInterval
<1>1. ASSUME Timed, Next
      PROVE  have /\ have' /\ report' # Nothing => gap >= Period \div 2 \/ Spaced(last')
  <2>1. SUFFICES ASSUME have, report' # Nothing, ~(gap >= Period \div 2)
                 PROVE  Spaced(last')
    OBVIOUS
  <2>2. gap < Period \div 2
    BY <1>1, <2>1, PeriodAssumption DEF Timed, Inv, TypeOK
  <2>3. CASE Process
    <3>1. frame.at = now
      BY <1>1, <2>3 DEF Process, Timed, Stamped, InTime
    <3>2. ~armed /\ Elapsed(frame.at) /\ Send(frame.delta, frame.at)
      BY <2>1, <2>3 DEF Process, Hold, Quiet
    <3>3. last' = now
      BY <3>1, <3>2 DEF Send
    <3>4. QED
      BY <1>1, <2>1, <2>2, <3>1, <3>2, <3>3, FrameSpaced
  <2>4. CASE Flush
    <3>1. handler = now
      BY <1>1, <2>4 DEF Flush, Timed, Stamped, InTime
    <3>2. deadline # NoTime /\ Reached(handler, deadline) /\ Send(Nothing, handler)
      BY <2>1, <2>4 DEF Flush, FlushStage, Quiet
    <3>3. armed
      BY <1>1, <3>2 DEF Timed, Inv, TypeOK
    <3>4. last' = now
      BY <3>1, <3>2 DEF Send
    <3>5. QED
      BY <1>1, <2>2, <3>1, <3>2, <3>3, <3>4, FlushSpaced
  <2>5. report' = Nothing => FALSE
    BY <2>1
  <2>6. QED
    BY <1>1, <2>3, <2>4, <2>5 DEF Next, Reset, Observe, Expire, SwitchLink, Tick
<1>2. ASSUME Timed, [Next]_vars
      PROVE  [have /\ have' /\ report' # Nothing => gap >= Period \div 2 \/ Spaced(last')]_vars
  BY <1>1, <1>2
<1>3. QED
  BY <1>2, TimedAlways, PTL DEF Spec, OnePerInterval

-----------------------------------------------------------------------------
(* The acceleration: arithmetic.                                             *)

LEMMA Division ==
  ASSUME NEW a \in Nat, NEW d \in Nat \ {0}
  PROVE  /\ a \div d \in Nat
         /\ (a \div d) * d <= a
         /\ a < (a \div d) * d + d
  BY SMT

LEMMA Monotone ==
  ASSUME NEW j \in Nat, NEW k \in Nat, j <= k, NEW d \in Nat
  PROVE  j * d \in Nat /\ k * d \in Nat /\ j * d <= k * d
  BY SMT

LEMMA Cancel ==
  ASSUME NEW j \in Nat, NEW k \in Nat, NEW d \in Nat \ {0}, j * d < k * d + d
  PROVE  j <= k
<1>1. SUFFICES ASSUME k + 1 <= j PROVE FALSE
  OBVIOUS
<1>2. (k + 1) * d <= j * d
  BY <1>1, Monotone
<1>3. (k + 1) * d = k * d + d
  BY SMT
<1>4. k * d \in Nat /\ j * d \in Nat
  BY Monotone
<1> QED BY <1>2, <1>3, <1>4

\* A quotient is as large as its bounds allow.
LEMMA DivideAtMost ==
  ASSUME NEW a \in Nat, NEW d \in Nat \ {0}, NEW b \in Nat, a < b * d + d
  PROVE  a \div d \in 0..b
<1> DEFINE q == a \div d
<1>1. q \in Nat /\ q * d <= a
  BY Division
<1> HIDE DEF q
<1>2. q * d \in Nat /\ b * d \in Nat
  BY <1>1, Monotone
<1>3. q <= b
  BY <1>1, <1>2, Cancel
<1> QED BY <1>1, <1>3 DEF q

LEMMA DivideAtLeast ==
  ASSUME NEW a \in Nat, NEW d \in Nat \ {0}, NEW b \in Nat, b * d <= a
  PROVE  b <= a \div d
<1> DEFINE q == a \div d
<1>1. q \in Nat /\ a < q * d + d
  BY Division
<1> HIDE DEF q
<1>2. q * d \in Nat /\ b * d \in Nat
  BY <1>1, Monotone
<1>3. b <= q
  BY <1>1, <1>2, Cancel
<1> QED BY <1>1, <1>3 DEF q

LEMMA DivideExact ==
  ASSUME NEW b \in Nat, NEW d \in Nat \ {0}, NEW r \in 0..(d - 1)
  PROVE  (b * d + r) \div d = b
<1>1. b * d \in Nat
  BY Monotone
<1>2. b * d + r \in Nat
  BY <1>1
<1>3. (b * d + r) \div d <= b /\ (b * d + r) \div d \in Nat
  BY <1>1, <1>2, DivideAtMost
<1>4. b <= (b * d + r) \div d
  BY <1>1, <1>2, DivideAtLeast
<1> QED BY <1>3, <1>4

LEMMA DivideMonotone ==
  ASSUME NEW a \in Nat, NEW b \in Nat, a <= b, NEW d \in Nat \ {0}
  PROVE  a \div d \in Nat /\ b \div d \in Nat /\ a \div d <= b \div d
<1> DEFINE q == b \div d
<1>1. q \in Nat /\ b < q * d + d
  BY Division
<1> HIDE DEF q
<1>2. q * d \in Nat
  BY <1>1, Monotone
<1>3. a \div d \in 0..q
  BY <1>1, <1>2, DivideAtMost
<1> QED BY <1>1, <1>3 DEF q

\* A part of a, given out of d, is at most a.
LEMMA PartOf ==
  ASSUME NEW a \in Nat, NEW w \in Nat, NEW d \in Nat \ {0}, w <= d
  PROVE  (a * w) \div d \in 0..a
<1>1. a * w \in Nat /\ a * d \in Nat
  BY Monotone
<1>2. a * w <= a * d
  <2>1. w * a <= d * a
    BY Monotone
  <2> QED BY <2>1
<1> QED BY <1>1, <1>2, DivideAtMost

\* The root exists, because the numbers whose successor has a larger square have
\* a smallest one.
LEMMA RootIs ==
  ASSUME NEW v \in Nat
  PROVE  Root(v) \in 0..v
<1> DEFINE T == {r \in Nat : v < (r + 1) * (r + 1)}
           R == OpToRel(<, Nat)
<1>1. v \in T
  <2>1. v * (v + 1) \in Nat
    BY SMT
  <2>2. (v + 1) * (v + 1) = v * (v + 1) + v + 1
    BY SMT
  <2> QED BY <2>1, <2>2
<1>2. PICK m \in T : \A y \in T : ~(<<y, m>> \in R)
  BY <1>1, NatLessThanWellFounded, WFMin
<1>3. m \in Nat /\ v < (m + 1) * (m + 1)
  OBVIOUS
<1>4. m * m <= v
  <2>1. CASE m = 0
    BY <2>1
  <2>2. CASE m # 0
    <3>1. m - 1 \in Nat /\ m - 1 < m
      BY <1>3, <2>2
    <3>2. <<m - 1, m>> \in R
      BY <1>3, <3>1 DEF OpToRel
    <3>3. m - 1 \notin T
      BY <1>2, <3>2
    <3>4. (m - 1 + 1) = m
      BY <1>3
    <3> QED BY <1>3, <3>1, <3>3, <3>4
  <2> QED BY <2>1, <2>2
<1>5. m \in 0..v
  <2>1. CASE m = 0
    BY <2>1
  <2>2. CASE m # 0
    <3>1. 1 * m <= m * m
      BY <1>3, <2>2, Monotone
    <3>2. m * m \in Nat
      BY <1>3, Monotone
    <3> QED BY <1>3, <1>4, <3>1, <3>2
  <2> QED BY <2>1, <2>2
<1>6. \E r \in 0..v : r * r <= v /\ v < (r + 1) * (r + 1)
  BY <1>3, <1>4, <1>5
<1> QED BY <1>6 DEF Root

-----------------------------------------------------------------------------
(* The speed.                                                                *)

Frames == [x : Int, y : Int, at : Nat, span : Nat, clipped : BOOLEAN]
States == [speed : 0..SpeedLimit, last : Nat, have : BOOLEAN]

LEMMA ProductPart ==
  ASSUME DecayOne \in Nat \ {0}, NEW a \in 0..DecayOne, NEW b \in 0..DecayOne
  PROVE  Product(a, b) \in 0..a /\ Product(a, b) \in 0..DecayOne
<1>1. Product(a, b) \in 0..a
  BY PartOf DEF Product
<1> QED BY <1>1

LEMMA SeriesPart ==
  ASSUME DecayOne \in Nat \ {0}, NEW y \in 0..DecayOne
  PROVE  Series(y) \in 0..DecayOne
<1> DEFINE s4 == DecayOne - y \div 4
           s3 == DecayOne - Product(y, s4) \div 3
           s2 == DecayOne - Product(y, s3) \div 2
<1>1. s4 \in 0..DecayOne
  OBVIOUS
<1> HIDE DEF s4
<1>2. Product(y, s4) \in 0..DecayOne
  BY <1>1, ProductPart
<1>3. s3 \in 0..DecayOne
  BY <1>2
<1> HIDE DEF s3
<1>4. Product(y, s3) \in 0..DecayOne
  BY <1>3, ProductPart
<1>5. s2 \in 0..DecayOne
  BY <1>4
<1> HIDE DEF s2
<1>6. Product(y, s2) \in 0..DecayOne
  BY <1>5, ProductPart
<1>7. Series(y) = DecayOne - Product(y, s2)
  BY DEF Series, s2, s3, s4
<1> QED BY <1>6, <1>7

\* What is left of a difference is a part of it.
LEMMA DecayPart ==
  ASSUME One \in Nat \ {0}, NEW unit \in Nat \ {0}, DecayOne = unit * One,
         NEW elapsed \in Nat, NEW constant \in Nat \ {0}
  PROVE  Decay(elapsed, constant) \in 0..One
<1>1. DecayOne \in Nat \ {0} /\ DecayOne \div One = unit
  <2>1. DecayOne \in Nat /\ One * unit = DecayOne
    BY Monotone
  <2>2. 1 * One <= unit * One
    BY Monotone
  <2>3. (unit * One + 0) \div One = unit
    BY DivideExact
  <2>4. DecayOne + 0 = DecayOne
    BY <2>1
  <2> QED BY <2>1, <2>2, <2>3, <2>4
<1> DEFINE y == (elapsed * (DecayOne \div 16)) \div (constant * 1000)
           s == Squared(Squared(Squared(Squared(Series(y)))))
<1>2. y \in Nat
  <2>1. DecayOne \div 16 \in Nat
    BY <1>1
  <2>2. elapsed * (DecayOne \div 16) \in Nat
    BY <2>1, Monotone
  <2>3. constant * 1000 \in Nat \ {0}
    OBVIOUS
  <2> QED BY <2>2, <2>3, Division
<1> HIDE DEF y
<1>3. CASE y >= DecayOne \div 2
  BY <1>3 DEF Decay, y
<1>4. CASE ~(y >= DecayOne \div 2)
  <2>1. y \in 0..DecayOne
    BY <1>1, <1>2, <1>4
  <2>2. Series(y) \in 0..DecayOne
    BY <1>1, <2>1, SeriesPart
  <2>3. \A a \in 0..DecayOne : Squared(a) \in 0..DecayOne
    BY <1>1, ProductPart DEF Squared
  <2>4. s \in 0..DecayOne
    BY <2>2, <2>3
  <2> HIDE DEF s
  <2>5. One * unit = DecayOne /\ One * unit \in Nat
    BY <1>1
  <2>6. s + unit \div 2 \in Nat /\ s + unit \div 2 < One * unit + unit
    BY <1>1, <2>4, <2>5
  <2>7. (s + unit \div 2) \div unit \in 0..One
    BY <2>6, DivideAtMost
  <2>8. Decay(elapsed, constant) = (s + unit \div 2) \div unit
    BY <1>1, <1>4 DEF Decay, y, s
  <2> QED BY <2>7, <2>8
<1> QED BY <1>3, <1>4

\* Moving by a part of a difference stays within it.
LEMMA MovedBetween ==
  ASSUME One \in Nat \ {0}, NEW a \in Nat, NEW b \in Nat, NEW left \in 0..One
  PROVE  /\ a <= b => Moved(a, b, left) \in a..b
         /\ b <= a => Moved(a, b, left) \in b..a
<1> DEFINE w == One - left
<1>1. w \in Nat /\ w <= One
  OBVIOUS
<1> HIDE DEF w
<1>2. CASE a <= b
  <2> DEFINE d == b - a
  <2>1. d \in Nat
    BY <1>2
  <2>2. (d * w) \div One \in 0..d /\ d * w \in Nat
    BY <1>1, <2>1, PartOf, Monotone
  <2>3. Moved(a, b, left) = a + (d * w) \div One
    BY <2>2 DEF Moved, Quot, w
  <2>4. Moved(a, b, left) \in a..b
    BY <2>1, <2>2, <2>3
  <2>5. b <= a => Moved(a, b, left) \in b..a
    BY <1>2, <2>4
  <2> QED BY <2>4, <2>5
<1>3. CASE b < a
  <2> DEFINE d == a - b
  <2>1. d \in Nat
    BY <1>3
  <2>2. (d * w) \div One \in 0..d /\ d * w \in Nat
    BY <1>1, <2>1, PartOf, Monotone
  <2>3. (b - a) * w = -(d * w)
    BY <1>1
  <2>4. Moved(a, b, left) = a - (d * w) \div One
    <3> DEFINE n == (b - a) * w
               m == d * w
    <3>1. n = -m /\ m \in Nat
      BY <2>2, <2>3
    <3> HIDE DEF n, m
    <3>2. Quot(n, One) = -(m \div One)
      <4>1. CASE m = 0
        <5>1. 0 \div One = 0
          OBVIOUS
        <5> QED BY <3>1, <4>1, <5>1 DEF Quot
      <4>2. CASE m # 0
        <5>1. n < 0 /\ -n = m
          BY <3>1, <4>2
        <5> QED BY <5>1 DEF Quot
      <4> QED BY <4>1, <4>2
    <3>3. Moved(a, b, left) = a + Quot(n, One)
      BY DEF Moved, w, n
    <3>4. m \div One \in Int
      BY <2>2 DEF m
    <3> QED BY <3>2, <3>3, <3>4 DEF m
  <2>5. Moved(a, b, left) \in b..a
    BY <2>1, <2>2, <2>4
  <2>6. a <= b => FALSE
    BY <1>3
  <2> QED BY <2>5, <2>6
<1> QED BY <1>2, <1>3

LEMMA IntervalIs ==
  ASSUME Wrap \in Nat \ {0}, NEW state \in States, NEW motion \in Frames
  PROVE  FrameInterval(state, motion) \in MinIntervalUs..(RestartMs * 1000)
<1> DEFINE e == (motion.at - state.last) % Wrap
<1>1. e \in Nat
  BY DEF Frames, States
<1> HIDE DEF e
<1>2. motion.span \in Nat
  BY DEF Frames
<1> DEFINE us == IF motion.clipped THEN 40000
                 ELSE IF motion.span # 0 THEN motion.span
                 ELSE IF state.have /\ e < 40 THEN e * 1000 ELSE 40000
<1>3. us \in Nat
  BY <1>1, <1>2
<1>4. FrameInterval(state, motion) = IF us < 1000 THEN 1000 ELSE IF us > 40000 THEN 40000 ELSE us
  <2>1. RestartMs * 1000 = 40000 /\ RestartMs = 40 /\ MinIntervalUs = 1000
    BY DEF RestartMs, MinIntervalUs
  <2>2. FrameInterval(state, motion) =
          LET v == IF motion.clipped THEN RestartMs * 1000
                   ELSE IF motion.span # 0 THEN motion.span
                   ELSE IF state.have /\ e < RestartMs THEN e * 1000 ELSE RestartMs * 1000
          IN  IF v < MinIntervalUs THEN MinIntervalUs
              ELSE IF v > RestartMs * 1000 THEN RestartMs * 1000 ELSE v
    BY Zenon DEF FrameInterval, e
  <2> QED BY <2>1, <2>2 DEF us
<1> HIDE DEF us
<1>5. RestartMs * 1000 = 40000 /\ MinIntervalUs = 1000
  BY DEF RestartMs, MinIntervalUs
<1> QED BY <1>3, <1>4, <1>5

LEMMA InstantIs ==
  ASSUME SpeedLimit \in Nat, NEW motion \in Frames, NEW interval \in Nat \ {0}
  PROVE  Instant(motion, interval) \in 0..SpeedLimit
<1> DEFINE v == motion.x * motion.x + motion.y * motion.y
<1>1. v \in Nat
  <2>1. \A n \in Int : n * n \in Nat
    BY SMT
  <2> QED BY <2>1 DEF Frames
<1>2. Root(v) \in Nat
  BY <1>1, RootIs
<1>3. (Root(v) * 1000000) \div interval \in Nat
  BY <1>2, Division
<1> QED BY <1>3 DEF Instant

\* However the ball moves and whatever the frames' times: the speed estimate
\* stays in its range, and a frame takes it towards the frame's own speed and
\* never past it (zpt_cursor_acceleration_observe and its decay series).
THEOREM SpeedFollows ==
  ASSUME One \in Nat \ {0}, NEW unit \in Nat \ {0}, DecayOne = unit * One,
         SpeedLimit \in Nat, Wrap \in Nat \ {0},
         NEW c, ValidCurve(c), NEW state \in States, NEW motion \in Frames
  PROVE  LET instant == Instant(motion, FrameInterval(state, motion))
             speed == Observed(c, state, motion).speed
         IN  /\ speed \in 0..SpeedLimit
             /\ state.speed <= instant => speed \in state.speed..instant
             /\ instant <= state.speed => speed \in instant..state.speed
<1> DEFINE interval == FrameInterval(state, motion)
           instant == Instant(motion, interval)
           constant == IF instant > state.speed THEN c.rise ELSE c.fall
           speed == Observed(c, state, motion).speed
<1>1. interval \in Nat \ {0}
  <2>1. interval \in MinIntervalUs..(RestartMs * 1000)
    BY IntervalIs
  <2> HIDE DEF interval
  <2> QED BY <2>1 DEF MinIntervalUs, RestartMs
<1> HIDE DEF interval
<1>2. instant \in 0..SpeedLimit
  BY <1>1, InstantIs
<1> HIDE DEF instant
<1>3. constant \in Nat \ {0}
  BY DEF ValidCurve, Curves
<1> HIDE DEF constant
<1>4. state.speed \in 0..SpeedLimit
  BY DEF States
<1>5. speed = IF interval = RestartMs * 1000 THEN instant
              ELSE Moved(state.speed, instant, Decay(interval, constant))
  BY DEF Observed, instant, interval, constant
<1> HIDE DEF speed
<1>6. Decay(interval, constant) \in 0..One
  BY <1>1, <1>3, DecayPart
<1>7. \/ speed = instant
      \/ /\ state.speed <= instant => speed \in state.speed..instant
         /\ instant <= state.speed => speed \in instant..state.speed
  <2> DEFINE m == Moved(state.speed, instant, Decay(interval, constant))
  <2>1. /\ state.speed <= instant => m \in state.speed..instant
        /\ instant <= state.speed => m \in instant..state.speed
    <3> DEFINE a == state.speed
               left == Decay(interval, constant)
    <3>1. a \in Nat /\ instant \in Nat /\ left \in 0..One
      BY <1>2, <1>4, <1>6
    <3> HIDE DEF a, left
    <3>2. /\ a <= instant => Moved(a, instant, left) \in a..instant
          /\ instant <= a => Moved(a, instant, left) \in instant..a
      BY <3>1, MovedBetween
    <3> QED BY <3>2 DEF a, left
  <2>2. speed = instant \/ speed = m
    BY <1>5
  <2> HIDE DEF m
  <2>3. CASE speed = instant
    BY <2>3
  <2>4. CASE speed = m
    BY <2>1, <2>4
  <2> QED BY <2>2, <2>3, <2>4
<1>8. /\ speed \in 0..SpeedLimit
      /\ state.speed <= instant => speed \in state.speed..instant
      /\ instant <= state.speed => speed \in instant..state.speed
  BY <1>2, <1>4, <1>7
<1> QED BY <1>8 DEF speed, instant, interval

-----------------------------------------------------------------------------
(* The motion.                                                               *)

\* What the cursor is given is the nearest to what the sensitivity asks for, and
\* motion to one side is scaled as motion to the other (scale).
THEOREM ScaledIsNearest ==
  ASSUME One \in Nat \ {0}, NEW v \in Int, NEW factor \in Nat
  PROVE  LET asked == Magnitude(v) * factor
             given == Magnitude(Scaled(v, factor)) * One
         IN  /\ 2 * (given - asked) <= One /\ 2 * (asked - given) <= One
             /\ Scaled(-v, factor) = -Scaled(v, factor)
<1> DEFINE asked == Magnitude(v) * factor
           m == (asked + One \div 2) \div One
<1>1. Magnitude(v) \in Nat /\ Magnitude(-v) = Magnitude(v)
  BY DEF Magnitude
<1>2. asked \in Nat
  BY <1>1, Monotone
<1>3. Scaled(v, factor) = IF v < 0 THEN -m ELSE m
  BY DEF Scaled
<1>4. Scaled(-v, factor) = IF -v < 0 THEN -m ELSE m
  BY <1>1 DEF Scaled
<1>5. v = 0 => m = 0
  <2>1. 0 * factor = 0
    OBVIOUS
  <2>2. v = 0 => asked = 0
    BY <2>1 DEF Magnitude
  <2>3. (0 + One \div 2) \div One \in 0..0
    <3>1. One \div 2 \in Nat /\ 0 + One \div 2 < 0 * One + One
      OBVIOUS
    <3> QED BY <3>1, DivideAtMost
  <2> QED BY <2>2, <2>3
<1> HIDE DEF asked
<1>6. m \in Nat /\ m * One <= asked + One \div 2 /\ asked + One \div 2 < m * One + One
  <2>1. asked + One \div 2 \in Nat
    BY <1>2
  <2> QED BY <2>1, Division
<1> HIDE DEF m
<1>7. m * One \in Nat
  BY <1>6, Monotone
<1>8. Magnitude(Scaled(v, factor)) = m
  BY <1>3, <1>5, <1>6 DEF Magnitude
<1>9. 2 * (m * One - asked) <= One /\ 2 * (asked - m * One) <= One
  BY <1>2, <1>6, <1>7
<1>10. Scaled(-v, factor) = -Scaled(v, factor)
  BY <1>3, <1>4, <1>5, <1>6
<1> QED BY <1>8, <1>9, <1>10 DEF asked

-----------------------------------------------------------------------------
(* The curve.                                                                *)

\* The speeds grow from each point to every later one.
LEMMA SpeedsGrow ==
  ASSUME NEW c, ValidCurve(c)
  PROVE  /\ \A i \in 1..Points : c.speeds[i] \in Nat /\ c.percents[i] \in Nat
         /\ \A i, j \in 1..Points : i < j => c.speeds[i] < c.speeds[j]
<1>1. \A i \in 1..8 : c.speeds[i] \in Nat /\ c.percents[i] \in Nat
  BY DEF ValidCurve, Curves, Points
<1>2. \A i \in 1..7 : c.speeds[i] < c.speeds[i + 1]
  BY DEF ValidCurve, Points
<1>3. /\ c.speeds[1] < c.speeds[2] /\ c.speeds[2] < c.speeds[3]
      /\ c.speeds[3] < c.speeds[4] /\ c.speeds[4] < c.speeds[5]
      /\ c.speeds[5] < c.speeds[6] /\ c.speeds[6] < c.speeds[7]
      /\ c.speeds[7] < c.speeds[8]
  <2>1. /\ c.speeds[1] < c.speeds[1 + 1] /\ c.speeds[2] < c.speeds[2 + 1]
        /\ c.speeds[3] < c.speeds[3 + 1] /\ c.speeds[4] < c.speeds[4 + 1]
        /\ c.speeds[5] < c.speeds[5 + 1] /\ c.speeds[6] < c.speeds[6 + 1]
        /\ c.speeds[7] < c.speeds[7 + 1]
    BY <1>2
  <2> QED BY <2>1
<1>4. /\ c.speeds[1] \in Nat /\ c.speeds[2] \in Nat /\ c.speeds[3] \in Nat /\ c.speeds[4] \in Nat
      /\ c.speeds[5] \in Nat /\ c.speeds[6] \in Nat /\ c.speeds[7] \in Nat /\ c.speeds[8] \in Nat
  BY <1>1
<1>5. \A j \in 2..8 : c.speeds[1] < c.speeds[j]
  BY <1>3, <1>4
<1>6. \A j \in 3..8 : c.speeds[2] < c.speeds[j]
  BY <1>3, <1>4
<1>7. \A j \in 4..8 : c.speeds[3] < c.speeds[j]
  BY <1>3, <1>4
<1>8. \A j \in 5..8 : c.speeds[4] < c.speeds[j]
  BY <1>3, <1>4
<1>9. \A j \in 6..8 : c.speeds[5] < c.speeds[j]
  BY <1>3, <1>4
<1>10. \A j \in 7..8 : c.speeds[6] < c.speeds[j]
  BY <1>3, <1>4
<1>11. ASSUME NEW i \in 1..8, NEW j \in 1..8, i < j PROVE c.speeds[i] < c.speeds[j]
  <2>1. i \in 1..7
    BY <1>11
  <2>2. CASE i = 1
    BY <1>5, <1>11, <2>2
  <2>3. CASE i = 2
    BY <1>6, <1>11, <2>3
  <2>4. CASE i = 3
    BY <1>7, <1>11, <2>4
  <2>5. CASE i = 4
    BY <1>8, <1>11, <2>5
  <2>6. CASE i = 5
    BY <1>9, <1>11, <2>6
  <2>7. CASE i = 6
    BY <1>10, <1>11, <2>7
  <2>8. CASE i = 7
    BY <1>3, <1>11, <2>8
  <2> QED BY <2>1, <2>2, <2>3, <2>4, <2>5, <2>6, <2>7, <2>8
<1> QED BY <1>1, <1>11 DEF Points

\* A speed inside the curve is in the one segment that is chosen for it.
LEMMA SegmentIs ==
  ASSUME One \in Nat \ {0}, NEW c, ValidCurve(c), NEW speed \in Nat, NEW i \in 1..(Points - 1),
         c.speeds[i] * One <= speed, speed < c.speeds[i + 1] * One
  PROVE  Segment(c, speed) = i
<1> DEFINE In(j) == c.speeds[j] * One <= speed /\ speed < c.speeds[j + 1] * One
<1>1. Points = 8 /\ Points - 1 = 7
  BY DEF Points
<1>2. \A j, k \in 1..8 : j <= k => c.speeds[j] * One <= c.speeds[k] * One
                                  /\ c.speeds[j] * One \in Nat /\ c.speeds[k] * One \in Nat
  <2> SUFFICES ASSUME NEW j \in 1..8, NEW k \in 1..8, j <= k
               PROVE  c.speeds[j] * One <= c.speeds[k] * One
                      /\ c.speeds[j] * One \in Nat /\ c.speeds[k] * One \in Nat
    OBVIOUS
  <2>1. c.speeds[j] \in Nat /\ c.speeds[k] \in Nat /\ c.speeds[j] <= c.speeds[k]
    BY <1>1, SpeedsGrow
  <2> QED BY <2>1, Monotone
<1>3. ASSUME NEW j \in 1..7, In(j) PROVE j = i
  <2>1. CASE j < i
    <3>1. c.speeds[j + 1] * One <= c.speeds[i] * One /\ c.speeds[j + 1] * One \in Nat
          /\ c.speeds[i] * One \in Nat
      BY <1>1, <1>2, <2>1
    <3> QED BY <1>3, <3>1
  <2>2. CASE i < j
    <3>1. c.speeds[i + 1] * One <= c.speeds[j] * One /\ c.speeds[i + 1] * One \in Nat
          /\ c.speeds[j] * One \in Nat
      BY <1>1, <1>2, <2>2
    <3> QED BY <1>3, <3>1
  <2> QED BY <1>1, <2>1, <2>2
<1>4. Segment(c, speed) = CHOOSE j \in 1..7 : In(j)
  BY <1>1 DEF Segment
<1>5. i \in 1..7 /\ In(i)
  BY <1>1
<1> HIDE DEF In
<1> QED BY <1>3, <1>4, <1>5

LEMMA SegmentExists ==
  ASSUME One \in Nat \ {0}, NEW c, ValidCurve(c), NEW speed \in Nat,
         c.speeds[1] * One < speed, speed < c.speeds[Points] * One
  PROVE  \E i \in 1..(Points - 1) : c.speeds[i] * One <= speed /\ speed < c.speeds[i + 1] * One
<1> DEFINE p(i) == c.speeds[i] * One
<1>1. Points = 8 /\ Points - 1 = 7
  BY DEF Points
<1>2. \A i \in 1..8 : p(i) \in Nat
  BY <1>1, SpeedsGrow, Monotone
<1>3. p(1) < speed /\ speed < p(8)
  BY <1>1
<1>4. p(1) \in Nat /\ p(2) \in Nat /\ p(3) \in Nat /\ p(4) \in Nat
      /\ p(5) \in Nat /\ p(6) \in Nat /\ p(7) \in Nat /\ p(8) \in Nat
  BY <1>2
<1> HIDE DEF p
<1>5. \/ (p(1) <= speed /\ speed < p(1 + 1))
      \/ (p(2) <= speed /\ speed < p(2 + 1))
      \/ (p(3) <= speed /\ speed < p(3 + 1))
      \/ (p(4) <= speed /\ speed < p(4 + 1))
      \/ (p(5) <= speed /\ speed < p(5 + 1))
      \/ (p(6) <= speed /\ speed < p(6 + 1))
      \/ (p(7) <= speed /\ speed < p(7 + 1))
  BY <1>3, <1>4
<1>6. \E i \in 1..7 : p(i) <= speed /\ speed < p(i + 1)
  BY <1>5
<1> QED BY <1>1, <1>6 DEF p

\* The secants' mean is not negative, and at most three times either secant.
LEMMA HarmonicLimit ==
  ASSUME One \in Nat \ {0}, NEW left \in Nat \ {0}, NEW right \in Nat \ {0},
         NEW leftRise \in Nat \ {0}, NEW rightRise \in Nat \ {0}
  PROVE  LET h == Harmonic(left, right, leftRise, rightRise)
         IN  h \in Nat /\ h * left <= 3 * leftRise * One /\ h * right <= 3 * rightRise * One
<1> DEFINE a == left * rightRise
           b == right * leftRise
           l == leftRise * One
           r == rightRise * One
           n == (3 * left + 3 * right) * leftRise * rightRise * One
           d == (2 * right + left) * left * rightRise + (right + 2 * left) * right * leftRise
           h == n \div d
<1>1. Harmonic(left, right, leftRise, rightRise) = h
  <2>1. 2 * right + left + (right + 2 * left) = 3 * left + 3 * right
    OBVIOUS
  <2> QED BY <2>1 DEF Harmonic
<1>2. d \in Nat \ {0} /\ n \in Nat
  <2>1. \A j, k \in Nat : j * k \in Nat
    BY SMT
  <2>2. \A j, k \in Nat \ {0} : j * k \in Nat \ {0}
    BY SMT
  <2>3. (2 * right + left) * left * rightRise \in Nat \ {0}
    BY <2>2
  <2>4. (right + 2 * left) * right * leftRise \in Nat \ {0}
    BY <2>2
  <2>5. n \in Nat
    BY <2>1
  <2> QED BY <2>3, <2>4, <2>5
<1>3. h \in Nat /\ h * d <= n
  BY <1>2, Division
<1> HIDE DEF h
\* h * d <= n, and n is less than d times three times either secant.
<1>4. h * left <= 3 * l
  <2>1. SUFFICES ASSUME 3 * l < h * left PROVE FALSE
    BY <1>3
  <2>2. n * left <= 3 * l * d
    BY SMT
  <2>3. h * d * left <= n * left
    BY <1>2, <1>3, Monotone
  <2>4. 3 * l * d < h * left * d
    BY <1>2, <1>3, <2>1, SMT
  <2>5. h * left * d = h * d * left
    BY <1>2, <1>3
  <2>6. n * left \in Nat /\ 3 * l * d \in Nat /\ h * d * left \in Nat /\ h * left * d \in Nat
    BY <1>2, <1>3, SMT
  <2> DEFINE p == n * left
             q == 3 * l * d
             t == h * d * left
  <2>7. t <= p /\ p <= q /\ q < t /\ p \in Nat /\ q \in Nat /\ t \in Nat
    BY <2>2, <2>3, <2>4, <2>5, <2>6
  <2> HIDE DEF p, q, t
  <2> QED BY <2>7
<1>5. h * right <= 3 * r
  <2>1. SUFFICES ASSUME 3 * r < h * right PROVE FALSE
    BY <1>3
  <2>2. n * right <= 3 * r * d
    BY SMT
  <2>3. h * d * right <= n * right
    BY <1>2, <1>3, Monotone
  <2>4. 3 * r * d < h * right * d
    BY <1>2, <1>3, <2>1, SMT
  <2>5. h * right * d = h * d * right
    BY <1>2, <1>3
  <2>6. n * right \in Nat /\ 3 * r * d \in Nat /\ h * d * right \in Nat /\ h * right * d \in Nat
    BY <1>2, <1>3, SMT
  <2> DEFINE p == n * right
             q == 3 * r * d
             t == h * d * right
  <2>7. t <= p /\ p <= q /\ q < t /\ p \in Nat /\ q \in Nat /\ t \in Nat
    BY <2>2, <2>3, <2>4, <2>5, <2>6
  <2> HIDE DEF p, q, t
  <2> QED BY <2>7
<1> QED BY <1>1, <1>3, <1>4, <1>5

\* The tangent of each inner point points the way of both secants and is at most
\* three times either: with such tangents a cubic is monotone in every segment,
\* and the curve turns nowhere but at its points (point_tangent).
THEOREM TangentLimit ==
  ASSUME One \in Nat \ {0}, NEW c, ValidCurve(c), NEW i \in 2..(Points - 1), NEW j \in {i - 1, i}
  PROVE  LET t == Tangent(c, i)
             rise == c.percents[j + 1] - c.percents[j]
             span == c.speeds[j + 1] - c.speeds[j]
         IN  /\ t \in Int
             /\ rise >= 0 => t \in Nat /\ t * span <= 3 * rise * One
             /\ rise <= 0 => -t \in Nat /\ (-t) * span <= 3 * (-rise) * One
<1> DEFINE left == c.speeds[i] - c.speeds[i - 1]
           right == c.speeds[i + 1] - c.speeds[i]
           leftRise == c.percents[i] - c.percents[i - 1]
           rightRise == c.percents[i + 1] - c.percents[i]
           t == Tangent(c, i)
           Good(rise, span) == /\ t \in Int
                               /\ rise >= 0 => t \in Nat /\ t * span <= 3 * rise * One
                               /\ rise <= 0 => -t \in Nat /\ (-t) * span <= 3 * (-rise) * One
<1>1. i - 1 \in 1..Points /\ i \in 1..Points /\ i + 1 \in 1..Points /\ i # 1 /\ i # Points
  BY DEF Points
<1>2. left \in Nat \ {0} /\ right \in Nat \ {0} /\ leftRise \in Int /\ rightRise \in Int
  BY <1>1, SpeedsGrow
<1>3. t = IF leftRise > 0 /\ rightRise > 0 THEN Harmonic(left, right, leftRise, rightRise)
          ELSE IF leftRise < 0 /\ rightRise < 0 THEN -Harmonic(left, right, -leftRise, -rightRise)
          ELSE 0
  BY <1>1 DEF Tangent
<1>4. i - 1 + 1 = i
  OBVIOUS
<1> HIDE DEF left, right, leftRise, rightRise, t
<1>5. Good(leftRise, left) /\ Good(rightRise, right)
  <2>1. CASE leftRise > 0 /\ rightRise > 0
    <3> DEFINE h == Harmonic(left, right, leftRise, rightRise)
    <3>1. h \in Nat /\ h * left <= 3 * leftRise * One /\ h * right <= 3 * rightRise * One
      BY <1>2, <2>1, HarmonicLimit
    <3>2. t = h
      BY <1>3, <2>1
    <3> HIDE DEF h
    <3>3. t \in Nat /\ t * left <= 3 * leftRise * One /\ t * right <= 3 * rightRise * One
      BY <3>1, <3>2
    <3>4. ~(leftRise <= 0) /\ ~(rightRise <= 0)
      BY <1>2, <2>1
    <3>5. t \in Int
      BY <3>3
    <3> QED BY <3>3, <3>4, <3>5, Zenon
  <2>2. CASE leftRise < 0 /\ rightRise < 0
    <3> DEFINE h == Harmonic(left, right, -leftRise, -rightRise)
    <3>1. -leftRise \in Nat \ {0} /\ -rightRise \in Nat \ {0}
      BY <1>2, <2>2
    <3>2. h \in Nat /\ h * left <= 3 * (-leftRise) * One /\ h * right <= 3 * (-rightRise) * One
      BY <1>2, <3>1, HarmonicLimit
    <3>3. t = -h
      BY <1>2, <1>3, <2>2
    <3> HIDE DEF h
    <3>4. -t = h
      BY <3>2, <3>3
    <3>5. -t \in Nat /\ (-t) * left <= 3 * (-leftRise) * One /\ (-t) * right <= 3 * (-rightRise) * One
      BY <3>2, <3>4
    <3>6. ~(leftRise >= 0) /\ ~(rightRise >= 0)
      BY <1>2, <2>2
    <3>7. t \in Int
      BY <3>2, <3>3
    <3> QED BY <3>5, <3>6, <3>7, Zenon
  <2>3. CASE ~(leftRise > 0 /\ rightRise > 0) /\ ~(leftRise < 0 /\ rightRise < 0)
    <3>1. t = 0
      BY <1>3, <2>3
    <3>2. ASSUME NEW rise \in Int, NEW span \in Nat PROVE Good(rise, span)
      <4>1. t \in Int /\ t \in Nat /\ -t \in Nat
        BY <3>1
      <4>2. t * span = 0 /\ (-t) * span = 0
        <5>1. -t = 0
          <6>1. -t = 0 - t
            BY <4>1
          <6> QED BY <3>1, <6>1
        <5>2. 0 * span = 0
          OBVIOUS
        <5> QED BY <3>1, <5>1, <5>2
      <4>3. rise >= 0 => 0 <= 3 * rise * One
        BY SMT
      <4>4. rise <= 0 => 0 <= 3 * (-rise) * One
        BY SMT
      <4> QED BY <4>1, <4>2, <4>3, <4>4, Zenon
    <3>3. left \in Nat /\ right \in Nat
      BY <1>2
    <3>4. Good(leftRise, left) /\ Good(rightRise, right)
      BY <1>2, <3>2, <3>3
    <3> QED BY <3>4
  <2> QED BY <2>1, <2>2, <2>3
<1>6. CASE j = i - 1
  BY <1>4, <1>5, <1>6 DEF left, leftRise, t
<1>7. CASE j = i
  BY <1>5, <1>7 DEF right, rightRise, t
<1> QED BY <1>6, <1>7

LEMMA TangentInt ==
  ASSUME One \in Nat \ {0}, NEW c, ValidCurve(c), NEW i \in 1..Points
  PROVE  Tangent(c, i) \in Int
<1>1. CASE i = 1 \/ i = Points
  BY <1>1 DEF Tangent
<1>2. CASE i # 1 /\ i # Points
  <2>1. i \in 2..(Points - 1)
    BY <1>2 DEF Points
  <2>2. i \in {i - 1, i}
    OBVIOUS
  <2> QED BY <2>1, <2>2, TangentLimit
<1> QED BY <1>1, <1>2

LEMMA HermiteInt ==
  ASSUME One \in Nat \ {0}, NEW c, ValidCurve(c), NEW i \in 1..(Points - 1), NEW t \in Nat
  PROVE  Hermite(c, i, t) \in Int /\ (t = 0 => Hermite(c, i, t) = c.percents[i] * One)
<1> DEFINE span == c.speeds[i + 1] - c.speeds[i]
           t2 == (t * t) \div One
           t3 == (t2 * t) \div One
           start == c.percents[i] * One
           end == c.percents[i + 1] * One
           ti == Tangent(c, i)
           tj == Tangent(c, i + 1)
           sum == (end - start) * (3 * t2 - 2 * t3) + ti * span * (t3 - 2 * t2 + t)
                    + tj * span * (t3 - t2)
<1>1. i \in 1..Points /\ i + 1 \in 1..Points
  BY DEF Points
<1>2. ti \in Int /\ tj \in Int
  BY <1>1, TangentInt
<1>3. span \in Int /\ start \in Nat /\ end \in Nat
  BY <1>1, SpeedsGrow, Monotone
<1>4. t2 \in Nat /\ t3 \in Nat
  <2>1. t2 \in Nat
    BY Monotone, Division
  <2> HIDE DEF t2
  <2> QED BY <2>1, Monotone, Division
<1>5. Hermite(c, i, t) = start + Quot(sum, One)
  BY DEF Hermite
<1>6. t = 0 => t2 = 0 /\ t3 = 0
  <2>1. 0 \div One = 0
    <3>1. 0 < 0 * One + One
      OBVIOUS
    <3> QED BY <3>1, DivideAtMost
  <2>2. 0 * 0 = 0
    OBVIOUS
  <2> QED BY <2>1, <2>2
<1> HIDE DEF span, t2, t3, start, end, ti, tj
<1>7. sum \in Int
  <2>1. \A a, b \in Int : a * b \in Int
    OBVIOUS
  <2>2. (end - start) * (3 * t2 - 2 * t3) \in Int
    BY <1>3, <1>4, <2>1
  <2>3. ti * span \in Int /\ tj * span \in Int
    BY <1>2, <1>3, <2>1
  <2>4. ti * span * (t3 - 2 * t2 + t) \in Int /\ tj * span * (t3 - t2) \in Int
    BY <1>4, <2>1, <2>3
  <2> QED BY <2>2, <2>4
<1>8. t = 0 => sum = 0
  <2>1. \A a \in Int : a * 0 = 0
    OBVIOUS
  <2>2. SUFFICES ASSUME t = 0 PROVE sum = 0
    OBVIOUS
  <2>3. 3 * t2 - 2 * t3 = 0 /\ t3 - 2 * t2 + t = 0 /\ t3 - t2 = 0
    BY <1>6, <2>2
  <2>4. end - start \in Int /\ ti * span \in Int /\ tj * span \in Int
    BY <1>2, <1>3
  <2> QED BY <2>1, <2>3, <2>4
<1> HIDE DEF sum
<1>9. Quot(sum, One) \in Int
  <2>1. CASE sum < 0
    <3>1. (-sum) \div One \in Nat
      BY <1>7, <2>1, Division
    <3> QED BY <2>1, <3>1 DEF Quot
  <2>2. CASE ~(sum < 0)
    <3>1. sum \div One \in Nat
      BY <1>7, <2>2, Division
    <3> QED BY <2>2, <3>1 DEF Quot
  <2> QED BY <2>1, <2>2
<1>10. sum = 0 => Quot(sum, One) = 0
  <2>1. 0 < 0 * One + One
    OBVIOUS
  <2>2. 0 \div One = 0
    BY <2>1, DivideAtMost
  <2> QED BY <2>2 DEF Quot
<1> QED BY <1>3, <1>5, <1>8, <1>9, <1>10 DEF start

LEMMA BetweenIs ==
  ASSUME NEW v \in Int, NEW a \in Nat, NEW b \in Nat
  PROVE  /\ a <= b => Between(v, a, b) \in a..b
         /\ b <= a => Between(v, a, b) \in b..a
         /\ v = a => Between(v, a, b) = a
BY DEF Between

LEMMA RatioMonotone ==
  ASSUME NEW a \in Nat, NEW b \in Nat, a <= b
  PROVE  /\ PercentRatio(a) \in Nat /\ PercentRatio(b) \in Nat
         /\ PercentRatio(a) <= PercentRatio(b)
BY DivideMonotone DEF PercentRatio

\* The sensitivity of a speed inside the curve.
LEMMA SensitivityIs ==
  ASSUME One \in Nat \ {0}, NEW c, ValidCurve(c), NEW speed \in Nat, NEW i \in 1..(Points - 1),
         c.speeds[i] * One <= speed, speed < c.speeds[i + 1] * One
  PROVE  \E v \in Int :
           /\ Sensitivity(c, speed)
                = PercentRatio(Between(v, c.percents[i] * One, c.percents[i + 1] * One))
           /\ speed = c.speeds[i] * One => v = c.percents[i] * One
<1> DEFINE t == (speed - c.speeds[i] * One) \div (c.speeds[i + 1] - c.speeds[i])
           start == c.percents[i] * One
<1>1. /\ i \in 1..Points /\ i + 1 \in 1..Points /\ 1 \in 1..Points /\ Points \in 1..Points
      /\ 1 <= i /\ i + 1 <= Points
  BY DEF Points
<1>2. \A j, k \in 1..Points : j <= k => c.speeds[j] * One <= c.speeds[k] * One
                                       /\ c.speeds[j] * One \in Nat /\ c.speeds[k] * One \in Nat
  <2> SUFFICES ASSUME NEW j \in 1..Points, NEW k \in 1..Points, j <= k
               PROVE  c.speeds[j] * One <= c.speeds[k] * One
                      /\ c.speeds[j] * One \in Nat /\ c.speeds[k] * One \in Nat
    OBVIOUS
  <2>1. c.speeds[j] \in Nat /\ c.speeds[k] \in Nat /\ c.speeds[j] <= c.speeds[k]
    BY SpeedsGrow
  <2> QED BY <2>1, Monotone
<1>3. /\ c.speeds[i] * One \in Nat /\ c.speeds[i + 1] * One \in Nat
      /\ c.speeds[1] * One \in Nat /\ c.speeds[Points] * One \in Nat
      /\ c.speeds[1] * One <= c.speeds[i] * One
      /\ c.speeds[i + 1] * One <= c.speeds[Points] * One
  BY <1>1, <1>2
<1>4. ~(speed >= c.speeds[Points] * One)
  BY <1>3
<1>5. t \in Nat /\ (speed = c.speeds[i] * One => t = 0)
  <2>1. c.speeds[i + 1] - c.speeds[i] \in Nat \ {0}
    BY <1>1, SpeedsGrow
  <2>2. speed - c.speeds[i] * One \in Nat
    BY <1>3
  <2>3. \A d \in Nat \ {0} : 0 \div d = 0
    <3> SUFFICES ASSUME NEW d \in Nat \ {0} PROVE 0 \div d = 0
      OBVIOUS
    <3>1. 0 < 0 * d + d
      OBVIOUS
    <3> QED BY <3>1, DivideAtMost
  <2>4. speed = c.speeds[i] * One => speed - c.speeds[i] * One = 0
    BY <1>3
  <2> QED BY <2>1, <2>2, <2>3, <2>4, Division
<1> HIDE DEF t
<1>6. start \in Nat /\ c.percents[i + 1] * One \in Nat
  BY <1>1, SpeedsGrow, Monotone
<1>7. Hermite(c, i, t) \in Int /\ (t = 0 => Hermite(c, i, t) = start)
  BY <1>5, HermiteInt
<1>8. CASE speed <= c.speeds[1] * One
  <2>1. speed = c.speeds[i] * One /\ speed = c.speeds[1] * One
    BY <1>3, <1>8
  <2>2. i = 1
    <3>1. SUFFICES ASSUME 1 < i PROVE FALSE
      BY <1>1
    <3>2. c.speeds[1] + 1 <= c.speeds[i] /\ c.speeds[1] \in Nat /\ c.speeds[i] \in Nat
      BY <1>1, <3>1, SpeedsGrow
    <3>3. (c.speeds[1] + 1) * One <= c.speeds[i] * One
      BY <3>2, Monotone
    <3>4. (c.speeds[1] + 1) * One = c.speeds[1] * One + One
      BY <3>2
    <3> QED BY <1>3, <2>1, <3>3, <3>4
  <2>3. Sensitivity(c, speed) = PercentRatio(start)
    BY <1>8, <2>2 DEF Sensitivity
  <2>4. Between(start, start, c.percents[i + 1] * One) = start
    <3> DEFINE end == c.percents[i + 1] * One
    <3>1. start \in Int /\ start \in Nat /\ end \in Nat
      BY <1>6
    <3> HIDE DEF start, end
    <3>2. Between(start, start, end) = start
      BY <3>1, BetweenIs
    <3> QED BY <3>2 DEF end
  <2> QED BY <1>6, <2>3, <2>4
<1>9. CASE ~(speed <= c.speeds[1] * One)
  <2>1. Segment(c, speed) = i
    BY SegmentIs
  <2>2. Sensitivity(c, speed)
          = PercentRatio(Between(Hermite(c, i, t), start, c.percents[i + 1] * One))
    <3> DEFINE p == c.speeds[1] * One
               q == c.speeds[Points] * One
    <3>1. Sensitivity(c, speed) =
            IF speed <= p THEN PercentRatio(c.percents[1] * One)
            ELSE IF speed >= q THEN PercentRatio(c.percents[Points] * One)
            ELSE LET k == Segment(c, speed)
                     u == (speed - c.speeds[k] * One) \div (c.speeds[k + 1] - c.speeds[k])
                 IN  PercentRatio(Between(Hermite(c, k, u), c.percents[k] * One, c.percents[k + 1] * One))
      BY Zenon DEF Sensitivity
    <3>2. ~(speed <= p) /\ ~(speed >= q)
      BY <1>4, <1>9
    <3> HIDE DEF p, q
    <3> QED BY <2>1, <3>1, <3>2, Zenon DEF t
  <2> QED BY <1>5, <1>7, <2>2
<1> QED BY <1>8, <1>9

LEMMA FlatAbove ==
  ASSUME One \in Nat \ {0}, NEW c, ValidCurve(c), NEW speed \in Nat,
         c.speeds[Points] * One <= speed
  PROVE  Sensitivity(c, speed) = PercentRatio(c.percents[Points] * One)
<1>1. 1 \in 1..Points /\ Points \in 1..Points /\ 1 < Points
  BY DEF Points
<1>2. c.speeds[1] \in Nat /\ c.speeds[Points] \in Nat /\ c.speeds[1] + 1 <= c.speeds[Points]
  BY <1>1, SpeedsGrow
<1>3. (c.speeds[1] + 1) * One <= c.speeds[Points] * One
      /\ c.speeds[Points] * One \in Nat /\ c.speeds[1] * One \in Nat
  BY <1>2, Monotone
<1>4. (c.speeds[1] + 1) * One = c.speeds[1] * One + One
  BY <1>2
<1>5. ~(speed <= c.speeds[1] * One)
  BY <1>3, <1>4
<1> QED BY <1>5 DEF Sensitivity

LEMMA FlatBelow ==
  ASSUME NEW c, NEW speed, speed <= c.speeds[1] * One
  PROVE  Sensitivity(c, speed) = PercentRatio(c.percents[1] * One)
BY DEF Sensitivity

\* A ball at the speed of a control point gets exactly the sensitivity the point
\* was given, from whichever side it comes (the curve's segments join).
THEOREM CurveMeetsPoints ==
  ASSUME One \in Nat \ {0}, NEW c, ValidCurve(c), NEW i \in 1..Points
  PROVE  Sensitivity(c, c.speeds[i] * One) = PercentRatio(c.percents[i] * One)
<1> DEFINE speed == c.speeds[i] * One
           start == c.percents[i] * One
<1>1. speed \in Nat /\ start \in Nat
  BY SpeedsGrow, Monotone
<1>2. CASE i = Points
  BY <1>1, <1>2, FlatAbove
<1>3. CASE i # Points
  <2>1. i \in 1..(Points - 1) /\ i + 1 \in 1..Points
    BY <1>3 DEF Points
  <2>2. speed < c.speeds[i + 1] * One
    <3>1. c.speeds[i] \in Nat /\ c.speeds[i + 1] \in Nat /\ c.speeds[i] + 1 <= c.speeds[i + 1]
      BY <2>1, SpeedsGrow
    <3>2. (c.speeds[i] + 1) * One <= c.speeds[i + 1] * One /\ c.speeds[i + 1] * One \in Nat
      BY <3>1, Monotone
    <3>3. (c.speeds[i] + 1) * One = speed + One
      BY <3>1
    <3> QED BY <1>1, <3>2, <3>3
  <2> DEFINE end == c.percents[i + 1] * One
  <2>3. end \in Nat
    BY <2>1, SpeedsGrow, Monotone
  <2>4. PICK v \in Int : /\ Sensitivity(c, speed) = PercentRatio(Between(v, start, end))
                         /\ speed = c.speeds[i] * One => v = start
    <3>1. speed <= speed
      BY <1>1
    <3> QED BY <1>1, <2>1, <2>2, <3>1, SensitivityIs
  <2> HIDE DEF end, start
  <2>5. v = start
    BY <2>4
  <2>6. Between(v, start, end) = start
    BY <1>1, <2>3, <2>5, BetweenIs
  <2> QED BY <2>4, <2>6 DEF start
<1> QED BY <1>2, <1>3

\* Between two control points the sensitivity leaves neither the one's nor the
\* other's: no curve the stage accepts overshoots a point
\* (zpt_cursor_acceleration_sensitivity).
THEOREM CurveStaysBetween ==
  ASSUME One \in Nat \ {0}, NEW c, ValidCurve(c), NEW i \in 1..(Points - 1), NEW speed \in Nat,
         c.speeds[i] * One <= speed, speed <= c.speeds[i + 1] * One
  PROVE  LET start == PercentRatio(c.percents[i] * One)
             end == PercentRatio(c.percents[i + 1] * One)
             s == Sensitivity(c, speed)
         IN  s \in start..end \/ s \in end..start
<1> DEFINE a == c.percents[i] * One
           b == c.percents[i + 1] * One
           s == Sensitivity(c, speed)
<1>1. i \in 1..Points /\ i + 1 \in 1..Points
  BY DEF Points
<1>2. a \in Nat /\ b \in Nat /\ c.speeds[i + 1] * One \in Nat
  BY <1>1, SpeedsGrow, Monotone
<1>3. \E w \in Nat : s = PercentRatio(w) /\ (a <= b => w \in a..b) /\ (b <= a => w \in b..a)
  <2>1. CASE speed = c.speeds[i + 1] * One
    <3>1. s = PercentRatio(b)
      BY <1>1, <2>1, CurveMeetsPoints
    <3> HIDE DEF a, b, s
    <3> QED BY <1>2, <3>1
  <2>2. CASE speed # c.speeds[i + 1] * One
    <3>1. speed < c.speeds[i + 1] * One
      BY <1>2, <2>2
    <3>2. PICK v \in Int : s = PercentRatio(Between(v, a, b))
      BY <3>1, SensitivityIs
    <3> HIDE DEF a, b, s
    <3>3. /\ a <= b => Between(v, a, b) \in a..b
          /\ b <= a => Between(v, a, b) \in b..a
      BY <1>2, BetweenIs
    <3>4. Between(v, a, b) \in Nat
      BY <1>2, <3>3
    <3> QED BY <3>2, <3>3, <3>4
  <2> QED BY <2>1, <2>2
<1> HIDE DEF a, b, s
<1>4. PICK w \in Nat : s = PercentRatio(w) /\ (a <= b => w \in a..b) /\ (b <= a => w \in b..a)
  BY <1>3
<1>5. CASE a <= b
  <2>1. a <= w /\ w <= b
    BY <1>2, <1>4, <1>5
  <2>2. /\ PercentRatio(a) <= PercentRatio(w) /\ PercentRatio(w) <= PercentRatio(b)
        /\ PercentRatio(a) \in Nat /\ PercentRatio(w) \in Nat /\ PercentRatio(b) \in Nat
    BY <1>2, <2>1, RatioMonotone
  <2>3. s \in PercentRatio(a)..PercentRatio(b)
    BY <1>4, <2>2
  <2> QED BY <2>3 DEF a, b, s
<1>6. CASE b <= a
  <2>1. b <= w /\ w <= a
    BY <1>2, <1>4, <1>6
  <2>2. /\ PercentRatio(b) <= PercentRatio(w) /\ PercentRatio(w) <= PercentRatio(a)
        /\ PercentRatio(a) \in Nat /\ PercentRatio(w) \in Nat /\ PercentRatio(b) \in Nat
    BY <1>2, <2>1, RatioMonotone
  <2>3. s \in PercentRatio(b)..PercentRatio(a)
    BY <1>4, <2>2
  <2> QED BY <2>3 DEF a, b, s
<1> QED BY <1>2, <1>5, <1>6

\* "A curve with every point at 100 percent leaves motion untouched"
\* (cursor_acceleration.h): not one fixed-point unit is lost to rounding.
THEOREM FlatCurveIsIdentity ==
  ASSUME One \in Nat \ {0}, NEW c, ValidCurve(c), NEW speed \in Nat, NEW v \in Int,
         \A i \in 1..Points : c.percents[i] = 100
  PROVE  Scaled(v, Sensitivity(c, speed)) = v
<1>1. PercentRatio(100 * One) = One
  <2>1. (One * 100 + 50) \div 100 = One
    BY DivideExact
  <2>2. 100 * One = One * 100
    OBVIOUS
  <2> QED BY <2>1, <2>2 DEF PercentRatio
<1>2. Sensitivity(c, speed) = One
  <2>1. 1 \in 1..Points /\ Points \in 1..Points
    BY DEF Points
  <2>2. c.speeds[1] * One \in Nat /\ c.speeds[Points] * One \in Nat
    BY <2>1, SpeedsGrow, Monotone
  <2>3. CASE speed <= c.speeds[1] * One
    BY <1>1, <2>1, <2>3, FlatBelow
  <2>4. CASE c.speeds[Points] * One <= speed
    BY <1>1, <2>1, <2>4, FlatAbove
  <2>5. CASE c.speeds[1] * One < speed /\ speed < c.speeds[Points] * One
    <3>1. PICK i \in 1..(Points - 1) :
            c.speeds[i] * One <= speed /\ speed < c.speeds[i + 1] * One
      BY <2>5, SegmentExists
    <3>2. i \in 1..Points /\ i + 1 \in 1..Points
      BY DEF Points
    <3>3. c.percents[i] = 100 /\ c.percents[i + 1] = 100
      BY <3>2
    <3>4. c.speeds[i + 1] * One \in Nat
      BY <3>2, SpeedsGrow, Monotone
    <3>5. Sensitivity(c, speed) \in PercentRatio(100 * One)..PercentRatio(100 * One)
      <4>1. speed <= c.speeds[i + 1] * One
        BY <3>1, <3>4
      <4> DEFINE start == PercentRatio(c.percents[i] * One)
                 end == PercentRatio(c.percents[i + 1] * One)
      <4>2. Sensitivity(c, speed) \in start..end \/ Sensitivity(c, speed) \in end..start
        BY <3>1, <4>1, CurveStaysBetween
      <4>3. start = PercentRatio(100 * One) /\ end = PercentRatio(100 * One)
        BY <3>3
      <4> HIDE DEF start, end
      <4> QED BY <4>2, <4>3
    <3> QED BY <1>1, <3>5
  <2> QED BY <2>2, <2>3, <2>4, <2>5
<1>3. Scaled(v, One) = v
  <2> DEFINE m == Magnitude(v)
  <2>1. m \in Nat
    BY DEF Magnitude
  <2>2. One \div 2 \in 0..(One - 1)
    OBVIOUS
  <2>3. (m * One + One \div 2) \div One = m
    BY <2>1, <2>2, DivideExact
  <2>4. Scaled(v, One) = IF v < 0 THEN -m ELSE m
    BY <2>3 DEF Scaled
  <2> QED BY <2>4 DEF Magnitude
<1> QED BY <1>2, <1>3
==============================================================================
