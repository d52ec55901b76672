-------------------------- MODULE CursorCoalescer --------------------------
(* The cursor coalescer stage (src/stage/cursor_coalescer/cursor_coalescer.c): *)
(* it sums pointer deltas and sends at most one report per report interval of  *)
(* the link in use.  The stage is driven as the firmware drives it: a frame    *)
(* is stamped by the input thread before the executor's lock is taken, and the *)
(* deadline work handler reads the clock before it takes the same lock, so     *)
(* either may be handled later than its own timestamp.                         *)
(*                                                                             *)
(* Of a signal only the two deltas are kept; its metadata, the COALESCED flag  *)
(* and the 64-bit saturation (out of reach of 16-bit counts) are left out.     *)
(* The pipeline around the stage is the one of Pipeline.tla: it calls flush    *)
(* when the stage's deadline is reached, and resets it when it deactivates.    *)
EXTENDS Integers, FiniteSets

CONSTANTS
  Period,       \* the clock is uint32_t milliseconds, here modulo Period
  Links,        \* enum zpt_cursor_link
  Interval,     \* Interval[l]: the report interval configured for link l
  HidMax,       \* INT16_MAX
  Deltas,       \* the pairs of deltas a frame may carry
  MaxPending,   \* bound: no frame comes while an axis holds more than this
  MaxLate,      \* bound: how long after its deadline the work handler starts
  Prompt        \* TRUE: whatever read the clock is handled in that millisecond

ASSUME PeriodAssumption == Period \in Nat \ {0}
\* 16-bit intervals on a 32-bit clock, and a work queue that keeps up with it.
ASSUME IntervalAssumption ==
  Interval \in [Links -> Nat] /\ \A l \in Links : 2 * Interval[l] < Period
ASSUME LateAssumption == MaxLate \in Nat /\ 2 * MaxLate + 2 < Period
ASSUME HidAssumption == HidMax \in Nat \ {0}
ASSUME DeltasAssumption == Deltas \subseteq [{"x", "y"} -> Int]

VARIABLES
  now,        \* k_uptime_get_32()
  link,       \* what current_link() answers
  frame,      \* the frame waiting for the executor's lock
  handler,    \* the clock the deadline handler read, while it waits for the lock
  pending,    \* pending_x, pending_y
  last,       \* last_report_ms
  have,       \* have_report
  armed,      \* armed
  deadline,   \* the deadline the pipeline holds for the stage
  report,     \* what the last step sent
  owed,       \* history: motion accepted and not reported
  gap,        \* history: milliseconds since the last report, at most Period
  switched    \* history: the link changed since the last report

stage == <<pending, last, have, armed, deadline>>
outside == <<now, link, frame, handler>>
vars == <<outside, stage, report, owed, gap, switched>>

Axes == {"x", "y"}
Times == 0..(Period - 1)
NoTime == -1
Nothing == [a \in Axes |-> 0]
NoFrame == [at |-> NoTime, delta |-> Nothing]

Plus(u, v) == [a \in Axes |-> u[a] + v[a]]
Minus(u, v) == [a \in Axes |-> u[a] - v[a]]

\* How much later than the last report t is, as unsigned subtraction sees it.
Since(t) == (t - last) % Period

\* Slip: an interval that ends now is taken to have ended already.
ElapsedEarly(t) == ~have \/ Since(t) + 1 >= Interval[link]

\* interval_elapsed.
Elapsed(t) == ~have \/ Since(t) >= Interval[link]

\* time_reached of the pipeline: is d at or before t, on a clock that wraps?
Reached(t, d) == 2 * ((t - d) % Period) < Period

\* take_report_axis: what one HID report can carry of a sum.
Carried(v) ==
  [a \in Axes |-> IF v[a] > HidMax THEN HidMax
                  ELSE IF v[a] < -HidMax - 1 THEN -HidMax - 1 ELSE v[a]]

Init ==
  /\ now \in Times
  /\ link \in Links
  /\ frame = NoFrame
  /\ handler = NoTime
  /\ pending = Nothing
  /\ last = 0
  /\ have = FALSE
  /\ armed = FALSE
  /\ deadline = NoTime
  /\ report = Nothing
  /\ owed = Nothing
  /\ gap = Period
  /\ switched = FALSE

-----------------------------------------------------------------------------
(* The stage's operations.  Each runs under the executor's lock.             *)

Quiet == report' = Nothing /\ UNCHANGED <<gap, switched>>

Unarmed == armed' = FALSE /\ deadline' = NoTime

ArmAt(d) == armed' = TRUE /\ deadline' = d % Period

\* Slip: the part of a sum beyond the HID range is dropped.
RestDropped(sum) == Nothing

\* What send_report leaves pending.
Rest(sum) == Minus(sum, Carried(sum))

\* Slip: the rest of a sum beyond the HID range waits for the next frame.
SendForgetsRest(v, t) ==
  LET sum == Plus(pending, v)
  IN  /\ report' = Carried(sum)
      /\ pending' = Rest(sum)
      /\ owed' = Minus(Plus(owed, v), Carried(sum))
      /\ last' = t
      /\ have' = TRUE
      /\ gap' = 0
      /\ switched' = FALSE
      /\ Unarmed

\* send_report with v added to the sum, called with the stage not armed: one
\* report of what the HID range allows, and a flush armed for the rest.
Send(v, t) ==
  LET sum == Plus(pending, v)
  IN  /\ report' = Carried(sum)
      /\ pending' = Rest(sum)
      /\ owed' = Minus(Plus(owed, v), Carried(sum))
      /\ last' = t
      /\ have' = TRUE
      /\ gap' = 0
      /\ switched' = FALSE
      /\ \/ pending' = Nothing /\ Unarmed
         \/ pending' # Nothing /\ ArmAt(t + Interval[link])

\* Slip: every frame puts the flush off by a whole interval.
HoldFromFrame(v, t) ==
  /\ pending' = Plus(pending, v)
  /\ owed' = Plus(owed, v)
  /\ ArmAt(t + Interval[link])
  /\ Quiet
  /\ UNCHANGED <<last, have>>

\* The end of process: keep the sum and arm a flush unless one is armed.
Hold(v, t) ==
  /\ pending' = Plus(pending, v)
  /\ owed' = Plus(owed, v)
  /\ \/ armed /\ UNCHANGED <<armed, deadline>>
     \/ ~armed /\ ArmAt(last + Interval[link])
  /\ Quiet
  /\ UNCHANGED <<last, have>>

\* cursor_coalescer_stage_process for the frame that waited for the lock.
Process ==
  LET v == frame.delta
      t == frame.at
  IN  /\ frame # NoFrame
      /\ \/ /\ Plus(pending, v) = Nothing
            /\ pending' = Nothing
            /\ owed' = Plus(owed, v)
            /\ Quiet
            /\ UNCHANGED <<last, have, armed, deadline>>
         \/ Plus(pending, v) # Nothing /\ ~armed /\ Elapsed(t) /\ Send(v, t)
         \/ Plus(pending, v) # Nothing /\ ~(~armed /\ Elapsed(t)) /\ Hold(v, t)
      /\ frame' = NoFrame
      /\ UNCHANGED <<now, link, handler>>

\* cursor_coalescer_stage_flush at clock t; the pipeline has already taken the
\* deadline off the stage.
FlushStage(t) ==
  \/ /\ pending = Nothing
     /\ Unarmed
     /\ Quiet
     /\ UNCHANGED <<pending, owed, last, have>>
  \/ pending # Nothing /\ Send(Nothing, t)

\* The deadline handler got the lock: zpt_pipeline_flush calls the stage when
\* its deadline is reached at the time the handler read.
Flush ==
  /\ handler # NoTime
  /\ \/ deadline # NoTime /\ Reached(handler, deadline) /\ FlushStage(handler)
     \/ /\ deadline = NoTime \/ ~Reached(handler, deadline)
        /\ Quiet
        /\ UNCHANGED <<stage, owed>>
  /\ handler' = NoTime
  /\ UNCHANGED <<now, link, frame>>

\* cursor_coalescer_stage_reset, when the pipeline is reset, entered or left:
\* the stage has no deactivate, so motion it holds goes with its deadline.
Reset ==
  /\ pending' = Nothing
  /\ last' = 0
  /\ have' = FALSE
  /\ Unarmed
  /\ report' = Nothing
  /\ owed' = Nothing
  /\ gap' = Period
  /\ switched' = FALSE
  /\ UNCHANGED outside

-----------------------------------------------------------------------------
(* The stage's surroundings.                                                 *)

\* The input thread decodes a frame and reads the clock.
Observe(v) ==
  /\ frame = NoFrame
  /\ \A a \in Axes : pending[a] \in -MaxPending..MaxPending
  /\ frame' = [at |-> now, delta |-> v]
  /\ report' = Nothing
  /\ UNCHANGED <<now, link, handler, stage, owed, gap, switched>>

Due == deadline # NoTime /\ Reached(now, deadline)

\* The deadline work handler starts and reads the clock.
Expire ==
  /\ Due
  /\ handler = NoTime
  /\ handler' = now
  /\ report' = Nothing
  /\ UNCHANGED <<now, link, frame, stage, owed, gap, switched>>

\* ZMK selects another endpoint.
SwitchLink(l) ==
  /\ l # link
  /\ link' = l
  /\ switched' = TRUE
  /\ report' = Nothing
  /\ UNCHANGED <<now, frame, handler, stage, owed, gap>>

\* A millisecond passes.  A due deadline waits at most MaxLate of them; a
\* clock that was read waits none when Prompt, else one.
Tick ==
  /\ Due => (now - deadline) % Period < MaxLate
  /\ frame # NoFrame => ~Prompt /\ frame.at = now
  /\ handler # NoTime => ~Prompt /\ handler = now
  /\ now' = (now + 1) % Period
  /\ gap' = IF gap = Period THEN Period ELSE gap + 1
  /\ report' = Nothing
  /\ UNCHANGED <<link, frame, handler, stage, owed, switched>>

Next ==
  \/ Process
  \/ Flush
  \/ Reset
  \/ \E v \in Deltas : Observe(v)
  \/ Expire
  \/ \E l \in Links : SwitchLink(l)
  \/ Tick

Spec == Init /\ [][Next]_vars

-----------------------------------------------------------------------------
\* The shape of the state.  The deadline the pipeline holds and the stage's
\* own armed flag agree: process never asks for a flush it believes it has.
TypeOK ==
  /\ now \in Times
  /\ link \in Links
  /\ frame \in [at : Times \cup {NoTime}, delta : [Axes -> Int]]
  /\ frame # NoFrame => frame.at \in Times
  /\ handler \in Times \cup {NoTime}
  /\ pending \in [Axes -> Int]
  /\ owed \in [Axes -> Int]
  /\ report \in [Axes -> Int]
  /\ last \in Times
  /\ have \in BOOLEAN
  /\ armed \in BOOLEAN
  /\ deadline \in Times \cup {NoTime}
  /\ armed <=> deadline # NoTime
  /\ gap \in 0..Period
  /\ switched \in BOOLEAN

\* Motion is neither lost nor sent twice, HID saturation included: what the
\* stage accepted and has not reported is exactly what it holds (send_report,
\* process and flush; only a reset discards motion).
NothingDropped == owed = pending

\* No motion is stranded: whatever the stage holds has a flush coming, so the
\* end of a movement is reported without another frame.  Input capture relies
\* on it when it takes a stage without a deadline for one that holds nothing
\* (protocol.md:711-718).
PendingIsArmed == pending # Nothing => armed

\* Motion the stage holds waits for the interval of the report before it and
\* for nothing else, however many frames come meanwhile: the wait does not
\* start again with a frame (process arms from last_report_ms).  A gap of a
\* whole turn of the clock is beyond what the stage can tell, and so is one of
\* a millisecond less, which a late frame may have filled up.
WaitsOneInterval ==
  pending # Nothing /\ gap < Period - 1 =>
    \E l \in Links : gap <= Interval[l] + MaxLate

\* The report at t keeps its distance from the one before: the interval of
\* the link in use, or, if the link changed in between, that of either link.
Spaced(t) ==
  /\ Reached(t, last)
  /\ \E l \in Links : (l = link \/ switched) /\ Since(t) >= Interval[l]

\* At most one report per report interval: a report is stamped at least an
\* interval after the one before (interval_elapsed and the deadlines), times
\* being compared half a turn of the clock ahead and half a turn behind.
OnePerInterval ==
  [][have /\ have' /\ report' # Nothing => gap >= Period \div 2 \/ Spaced(last')]_vars
=============================================================================
