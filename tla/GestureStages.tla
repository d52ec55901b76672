--------------------------- MODULE GestureStages ---------------------------
(* The stages that hold motion back, in the three chains the firmware builds   *)
(* from them (config/corne.keymap): the cursor chain gates motion and          *)
(* quantizes it, the scroll chain estimates an axis, applies it and batches    *)
(* wheel steps, the text chain ends in navigation keys instead.  All of them   *)
(* consult one keypress guard (keypress_suppression.c), which the ZMK event    *)
(* listener writes while a frame may be between two stages.                    *)
(*                                                                             *)
(* A frame carries the millisecond it was stamped in; it may wait for the      *)
(* executor's lock while time passes, the stages' deadlines are flushed and    *)
(* keys are pressed.  Every time is kept as how long ago it was (at most       *)
(* Forever), every deadline as how long it is away; the wrap of the clock and  *)
(* wake-ups that come late are in Pipeline, ZmkRouter and CursorCoalescer.     *)
(* Motion is an integer pair; Scale steps (or HID counts) make Unit fixed-point *)
(* ones, and the rounding of the 16-bit fixed-point product is left out.       *)
(* The axis constraint is tuned between two frames, while it may hold motion.    *)
(* Annotations other than the intent, and telemetry events, are left out.      *)
EXTENDS AxisIntent, MotionGate, FiniteSets

CONSTANTS
  Chains,        \* the chains to build, out of "cursor", "scroll" and "text"
  Motions,       \* the displacements a frame may carry
  SuppressMs,    \* suppress_after_ms of the guard
  IntentIdleMs,  \* idle_timeout_ms of the axis intent stage
  Settings,      \* what the axis constraint stage may be tuned to
  BatchMs,       \* report_interval_ms of the scroll batcher
  NavIdleMs,     \* idle_timeout_ms of text navigation
  Threshold,     \* its thresholds, in fixed-point steps
  Scale,         \* fixed-point steps per unit of motion
  Unit,          \* ZPT_FIXED_ONE
  HidMax,        \* INT16_MAX
  Forever,       \* bound: a time this long ago is never told from older ones
  MaxHeld,       \* bound: no frame comes while more than this is held back
  MaxEnergy,     \* bound: nor while the estimator's window holds more than this
  MaxWait,       \* bound: how long a frame waits for the lock or is handled
  Prompt         \* TRUE: no key is pressed after the stamp of an open frame

ASSUME ScaleAssumption == Scale \in Nat \ {0} /\ Unit \in Nat \ {0} /\ Threshold \in Nat \ {0}
ASSUME MotionsAssumption == Motions \subseteq [{"x", "y"} -> Int]
\* Every time is told from older ones, however long its frame waits.
ASSUME TimesAssumption ==
  /\ Forever \in Nat /\ MaxWait \in Nat
  /\ \A t \in {SuppressMs, BatchMs, NavIdleMs, QualificationMs, GateIdleMs, WindowMs} :
       t \in 1..(Forever - MaxWait)
\* The tuning takes 0 for these: the intent never times out, held motion neither
\* times out nor folds (zpt_axis_intent_tuning_ops, zpt_axis_constraint_tuning_ops).
ASSUME SettingsAssumption ==
  /\ IntentIdleMs \in 0..(Forever - MaxWait)
  /\ Settings \subseteq [discard : BOOLEAN, idle : 0..(Forever - MaxWait), fold : 0..(Forever - MaxWait)]

VARIABLES
  chain,     \* the chain the active pipeline is built of
  at,        \* where the frame is: none, waiting, first, second, tail
  frame,     \* its motion, its intent annotation and its stamp
  pressed,   \* last_keypress_ms and have_keypress
  listener,  \* the event listener, between its two writes or not
  gate,      \* the strategy of the motion gate, its times and its evidence
  intent,    \* the axis intent stage
  held,      \* the axis constraint stage
  settings,  \* discard_unclassified, idle_timeout_ms and fold_interval_ms of that stage
  batch,     \* the scroll batcher, whose remainder is also the quantizer's
  nav,       \* the text navigation stage
  due,       \* the stages' deadlines in the pipeline
  out,       \* what the step sent to the sink
  verdict,   \* history: the chain's first stage suppressed the last frame
  promised,  \* history: the interval motion is held for at most, 0 for without end
  owed       \* history: motion taken in, neither dropped nor sent

guard == <<pressed, listener>>
stages == <<gate, intent, held, batch, nav>>
vars == <<chain, at, frame, guard, stages, settings, due, out, verdict, promised, owed>>

Axes == {"x", "y"}
Zero == [a \in Axes |-> 0]
Plus(u, v) == [a \in Axes |-> u[a] + v[a]]
Minus(u, v) == [a \in Axes |-> u[a] - v[a]]
Times(k, v) == [a \in Axes |-> k * v[a]]

Never == -1 - MaxWait         \* no deadline
Stamped == [motion |-> Zero, intent |-> "undecided", age |-> 0]

\* The stages after zpt_stage_api.reset.
NewGate == [s |-> FreshGate, sinceFrame |-> 0, sinceStart |-> 0, evidence |-> FALSE, span |-> 0]
NewIntent == [estimator |-> FreshEstimator, have |-> FALSE, since |-> 0]
NewHeld == [sum |-> Zero, have |-> FALSE, previous |-> "undecided", saw |-> FALSE, since |-> 0]
NewBatch == [pending |-> Zero, rest |-> Zero, armed |-> FALSE]
NewNav == [sum |-> Zero, have |-> FALSE, since |-> 0]
NoneDue == [gate |-> Never, held |-> Never, batch |-> Never]

Init ==
  /\ chain \in Chains
  /\ at = "none"
  /\ frame = Stamped
  /\ pressed = [have |-> FALSE, since |-> Forever]
  /\ listener = "ready"
  /\ gate = NewGate /\ intent = NewIntent /\ held = NewHeld /\ batch = NewBatch /\ nav = NewNav
  /\ settings \in Settings
  /\ due = NoneDue
  /\ promised = 0
  /\ out = Zero
  /\ verdict = FALSE
  /\ owed = Zero

-----------------------------------------------------------------------------
(* The keypress guard.                                                       *)

\* The unsigned difference between the stamp of the frame and a time: one that
\* is later than the stamp is as long ago as it gets.
Elapsed(since) ==
  IF since < frame.age THEN Forever
  ELSE IF since = Forever THEN Forever ELSE since - frame.age

\* keypress_is_suppressed for the frame being handled.
Suppressed == pressed.have /\ Elapsed(pressed.since) < SuppressMs

\* position_state_changed_listener, for a key pressed in this millisecond: the
\* time is written first, then the flag.
Press ==
  /\ listener = "ready"
  /\ Prompt => at = "none" \/ frame.age = 0
  /\ pressed' = [pressed EXCEPT !.since = 0]
  /\ listener' = "timed"
  /\ out' = Zero
  /\ UNCHANGED <<chain, at, frame, stages, due, verdict, settings, promised, owed>>

Publish ==
  /\ listener = "timed"
  /\ pressed' = [pressed EXCEPT !.have = TRUE]
  /\ listener' = "ready"
  /\ out' = Zero
  /\ UNCHANGED <<chain, at, frame, stages, due, verdict, settings, promised, owed>>

-----------------------------------------------------------------------------
(* A frame's way through the chain.                                          *)

\* The source processor stamps a frame; then it waits for the executor's lock.
Arrive ==
  /\ at = "none"
  /\ \A a \in Axes : Abs(owed[a]) <= MaxHeld
  /\ intent.estimator.h + intent.estimator.v <= MaxEnergy
  /\ \E m \in Motions :
       /\ frame' = [motion |-> m, intent |-> "undecided", age |-> 0]
       /\ owed' = Plus(owed, Times(Scale, m))
  /\ at' = "waiting"
  /\ out' = Zero
  /\ UNCHANGED <<chain, guard, stages, due, verdict, settings, promised>>

\* zpt_stage_emit to the next stage; the frame is over when a stage emits nothing.
Emit(place, m) == at' = place /\ frame' = [frame EXCEPT !.motion = m]
Swallow == at' = "none" /\ frame' = Stamped

\* schedule_next_deadline of the gate, for the state g it has come to.
GateDue(g) ==
  LET idle == GateIdleMs - g.sinceFrame
      qualification == QualificationMs - g.sinceStart
  IN  IF g.s.active THEN idle
      ELSE IF ~HasPending(g.s) THEN Never
      ELSE IF qualification < idle THEN qualification ELSE idle

\* The gate after the frame's motion joined the strategy e it had expired to.
Joined(e) ==
  [gate EXCEPT !.s = Gathered(e, frame.motion.x, frame.motion.y),
               !.sinceFrame = frame.age,
               !.sinceStart = IF HasPending(e) THEN @ ELSE frame.age]

\* Slip: evidence of motion that timed out stays with the motion that follows.
EvidenceOutlives(g, e) ==
  IF HasPending(gate.s) /\ ~Idled(gate.s, Elapsed(gate.sinceFrame))
  THEN [g EXCEPT !.span = IF gate.evidence THEN @ + 1 ELSE 1, !.evidence = TRUE]
  ELSE [g EXCEPT !.span = 1, !.evidence = TRUE]

\* observe_result: one more span of evidence, after the evidence of motion that
\* the expiry dropped, or of none at all, was cleared.
Evidenced(g, e) ==
  IF HasPending(gate.s) /\ e = gate.s
  THEN [g EXCEPT !.span = IF gate.evidence THEN @ + 1 ELSE 1, !.evidence = TRUE]
  ELSE [g EXCEPT !.span = 1, !.evidence = TRUE]

\* Slip: motion that qualifies leaves the gate without what was gathered before.
OnlyLast(g) == frame.motion

\* What emit_qualified sends on.
Qualified(g) == [x |-> g.s.x, y |-> g.s.y]

Unevidenced(g) == [g EXCEPT !.evidence = FALSE, !.span = 0]

\* coherent_stage_process.
Gate ==
  /\ chain = "cursor" /\ at = "waiting"
  /\ LET e == Expired(gate.s, Elapsed(gate.sinceFrame), Elapsed(gate.sinceStart))
         gathered == Evidenced(Joined(e), e)
         expired == IF e # gate.s THEN Times(Scale, [x |-> gate.s.x, y |-> gate.s.y]) ELSE Zero
     IN  \/ /\ Suppressed
            /\ gate' = Unevidenced([gate EXCEPT !.s = FreshGate])
            /\ owed' = Minus(owed, Times(Scale, Plus(frame.motion, Qualified(gate))))
            /\ Swallow
         \/ /\ ~Suppressed /\ e.active
            /\ gate' = [gate EXCEPT !.sinceFrame = frame.age]
            /\ Emit("tail", frame.motion)
            /\ UNCHANGED owed
         \/ /\ ~Suppressed /\ ~e.active /\ Qualifies(gathered.s)
            /\ gate' = Unevidenced([gathered EXCEPT !.s = [Dropped(@) EXCEPT !.active = TRUE]])
            /\ Emit("tail", Qualified(gathered))
            /\ owed' = Minus(owed, expired)
         \/ /\ ~Suppressed /\ ~e.active /\ ~Qualifies(gathered.s)
            /\ gate' = gathered
            /\ owed' = Minus(owed, expired)
            /\ Swallow
  /\ due' = [due EXCEPT !.gate = GateDue(gate')]
  /\ verdict' = Suppressed
  /\ out' = Zero
  /\ UNCHANGED <<chain, guard, intent, held, batch, nav, settings, promised>>

\* axis_intent_stage_process: a suppressed frame goes on, without its motion.
Intent ==
  /\ chain \in {"scroll", "text"} /\ at = "waiting"
  /\ LET elapsed == IF intent.have THEN Elapsed(intent.since) ELSE 0
         stale == ~intent.have \/ (IntentIdleMs # 0 /\ elapsed >= IntentIdleMs)
         estimator == Estimate(IF stale THEN FreshEstimator ELSE intent.estimator,
                               frame.motion.x, frame.motion.y, elapsed)
     IN  IF Suppressed
         THEN /\ intent' = [estimator |-> FreshEstimator, have |-> TRUE, since |-> frame.age]
              /\ Emit("second", Zero)
              /\ owed' = Minus(owed, Times(Scale, frame.motion))
         ELSE /\ intent' = [estimator |-> estimator, have |-> TRUE, since |-> frame.age]
              /\ at' = "second"
              /\ frame' = [frame EXCEPT !.intent = estimator.intent]
              /\ UNCHANGED owed
  /\ verdict' = Suppressed
  /\ out' = Zero
  /\ UNCHANGED <<chain, guard, gate, held, batch, nav, due, settings, promised>>

\* The motion an intent lets through.
Allowed(i, v) ==
  [a \in Axes |-> IF i = IF a = "x" THEN "vertical" ELSE "horizontal" THEN 0 ELSE v[a]]

\* clear_undecided.
Released(h) == [h EXCEPT !.sum = Zero, !.have = FALSE]

\* The interval of schedule_undecided_expiry, 0 for none.
Interval == IF settings.fold # 0 THEN settings.fold ELSE settings.idle

\* Slip: an undecided frame waits in the buffer without a deadline of its own.
FoldLater(have) == IF have THEN due.held ELSE Never

\* schedule_undecided_expiry, for a buffer that has motion or not: without an
\* interval it leaves the deadline as it is.
FoldDue(have) ==
  IF Interval = 0 THEN due.held ELSE IF have THEN Interval - frame.age ELSE Never

\* axis_constraint_stage_process.  Only an undecided frame, and a fold, touch
\* the deadline: clearing the buffer otherwise leaves it pending.
Constrain ==
  /\ at = "second"
  /\ LET idle == ~held.saw \/ (settings.idle # 0 /\ Elapsed(held.since) >= settings.idle)
         h == [(IF idle THEN [Released(held) EXCEPT !.previous = "undecided"] ELSE held)
                 EXCEPT !.saw = TRUE, !.since = frame.age]
         cleared == Minus(held.sum, h.sum)
         folds == h.previous = "undecided" /\ h.have
         sum == Plus(frame.motion, IF folds THEN h.sum ELSE Zero)
         passed == Allowed(frame.intent, sum)
         decided == IF folds THEN Released(h) ELSE h
     IN  \/ /\ Suppressed
            /\ held' = Released(held)
            /\ Emit("tail", Zero)
            /\ owed' = Minus(owed, Times(Scale, Plus(frame.motion, held.sum)))
            /\ promised' = 0
            /\ UNCHANGED due
         \/ /\ ~Suppressed /\ frame.intent = "undecided"
            /\ held' = [h EXCEPT !.sum = Plus(@, frame.motion), !.have = TRUE]
            /\ Emit("tail", Zero)
            /\ owed' = Minus(owed, Times(Scale, cleared))
            /\ due' = [due EXCEPT !.held = FoldDue(TRUE)]
            /\ promised' = IF Interval # 0 THEN Interval ELSE IF h.have THEN promised ELSE 0
         \/ /\ ~Suppressed /\ frame.intent # "undecided"
            /\ held' = [decided EXCEPT !.previous = frame.intent]
            /\ Emit("tail", passed)
            /\ owed' = Minus(owed, Times(Scale, Plus(cleared, Minus(sum, passed))))
            /\ due' = [due EXCEPT !.held = IF folds THEN FoldDue(FALSE) ELSE @]
            /\ promised' = IF decided.have THEN promised ELSE 0
  /\ out' = Zero
  /\ UNCHANGED <<chain, guard, gate, intent, batch, nav, settings, verdict>>

\* zpt_fixed_to_int32: whole steps, towards zero.
Whole(units) == [a \in Axes |-> IF units[a] < 0 THEN -(-units[a] \div Unit) ELSE units[a] \div Unit]

\* What a report leaves for the next.
Rest(units) == Minus(units, Times(Unit, Whole(units)))

Clamp(v) == [a \in Axes |-> IF v[a] > HidMax THEN HidMax ELSE IF v[a] < -HidMax - 1 THEN -HidMax - 1 ELSE v[a]]

\* cursor_quantizer_stage_process: what the clamp drops is not owed any more.
Quantize ==
  /\ chain = "cursor" /\ at = "tail"
  /\ LET units == Plus(Times(Scale, frame.motion), batch.rest)
     IN  /\ batch' = [batch EXCEPT !.rest = Rest(units)]
         /\ out' = Clamp(Whole(units))
         /\ owed' = Minus(owed, Times(Unit, Whole(units)))
  /\ Swallow
  /\ UNCHANGED <<chain, guard, gate, intent, held, nav, due, verdict, settings, promised>>

\* Slip: a suppressed frame leaves the batch as it is.
BatchKept(v, suppressed) ==
  IF suppressed THEN batch ELSE [batch EXCEPT !.pending = Plus(@, v), !.armed = TRUE]

\* scroll_batcher_stage_process for motion v, and its deadline.
Batched(v, suppressed) ==
  IF suppressed THEN [batch EXCEPT !.pending = Zero]
  ELSE [batch EXCEPT !.pending = Plus(@, v), !.armed = TRUE]

BatchDue(since, suppressed) ==
  IF suppressed \/ batch.armed THEN due.batch ELSE BatchMs - since

Batch ==
  /\ chain = "scroll" /\ at = "tail"
  /\ batch' = Batched(frame.motion, Suppressed)
  /\ due' = [due EXCEPT !.batch = BatchDue(frame.age, Suppressed)]
  /\ owed' = IF Suppressed THEN Minus(owed, Times(Scale, Plus(batch.pending, frame.motion))) ELSE owed
  /\ Swallow
  /\ out' = Zero
  /\ UNCHANGED <<chain, guard, gate, intent, held, nav, verdict, settings, promised>>

\* text_nav_stage_process for motion v with intent i, stamped since ago: one key
\* at most, and the excess over its threshold stays.
Navigated(i, v, since, idle) ==
  LET kept == IF idle THEN Zero ELSE nav.sum
      axis == [a \in Axes |-> i = IF a = "x" THEN "horizontal" ELSE "vertical"]
      sum == [a \in Axes |-> kept[a] + IF axis[a] THEN Scale * v[a] ELSE 0]
      key == [a \in Axes |-> IF ~axis[a] \/ Abs(sum[a]) < Threshold THEN 0
                             ELSE IF sum[a] < 0 THEN -1 ELSE 1]
      given == Plus(Times(Scale, v), nav.sum)
      rest == Minus(sum, Times(Threshold, key))
  IN  /\ nav' = [sum |-> rest, have |-> TRUE, since |-> since]
      /\ out' = key
      /\ owed' = Minus(owed, Minus(given, rest))

Navigate ==
  /\ chain = "text" /\ at = "tail"
  /\ Navigated(frame.intent, frame.motion, frame.age, ~nav.have \/ Elapsed(nav.since) >= NavIdleMs)
  /\ Swallow
  /\ UNCHANGED <<chain, guard, gate, intent, held, batch, due, verdict, settings, promised>>

-----------------------------------------------------------------------------
(* Deadlines and the life of the pipeline, under the same lock.              *)

Reached(d) == d # Never /\ d <= 0
Unlocked == at \in {"none", "waiting"}

\* coherent_stage_flush.
FlushGate ==
  /\ Unlocked /\ Reached(due.gate)
  /\ LET e == Expired(gate.s, gate.sinceFrame, gate.sinceStart)
     IN  /\ gate' = IF e = gate.s THEN gate ELSE Unevidenced([gate EXCEPT !.s = e])
         /\ owed' = Minus(owed, Times(Scale, [x |-> gate.s.x - e.x, y |-> gate.s.y - e.y]))
  /\ due' = [due EXCEPT !.gate = GateDue(gate')]
  /\ out' = Zero
  /\ UNCHANGED <<chain, at, frame, guard, intent, held, batch, nav, verdict, settings, promised>>

\* axis_constraint_stage_flush: the held motion is discarded, or sent on with no
\* annotations, which text navigation ignores.
FlushHeld ==
  /\ Unlocked /\ Reached(due.held)
  /\ LET suppressed == pressed.have /\ pressed.since < SuppressMs
         sends == held.have /\ ~settings.discard
     IN  /\ held' = Released(held)
         /\ IF sends /\ chain = "scroll"
            THEN /\ batch' = Batched(held.sum, suppressed)
                 /\ due' = [due EXCEPT !.held = Never, !.batch = BatchDue(0, suppressed)]
                 /\ owed' = IF suppressed THEN Minus(owed, Times(Scale, Plus(batch.pending, held.sum))) ELSE owed
                 /\ out' = Zero
                 /\ UNCHANGED nav
            ELSE /\ due' = [due EXCEPT !.held = Never]
                 /\ UNCHANGED batch
                 /\ IF sends
                    THEN Navigated("undecided", held.sum, 0, ~nav.have \/ nav.since >= NavIdleMs)
                    ELSE /\ owed' = Minus(owed, Times(Scale, held.sum))
                         /\ out' = Zero
                         /\ UNCHANGED nav
  /\ promised' = 0
  /\ UNCHANGED <<chain, at, frame, guard, gate, intent, settings, verdict>>

\* scroll_batcher_stage_flush, in the same pass after the constraint's.
FlushBatch ==
  /\ Unlocked /\ Reached(due.batch) /\ ~Reached(due.held)
  /\ LET units == Plus(Times(Scale, batch.pending), batch.rest)
     IN  /\ batch' = [pending |-> Zero, rest |-> Rest(units), armed |-> FALSE]
         /\ out' = Whole(units)
         /\ owed' = Minus(owed, Times(Unit, Whole(units)))
  /\ due' = [due EXCEPT !.batch = Never]
  /\ UNCHANGED <<chain, at, frame, guard, gate, intent, held, nav, verdict, settings, promised>>

\* The route changes away and back: every stage is reset.
Reset ==
  /\ at = "none" /\ stages # <<NewGate, NewIntent, NewHeld, NewBatch, NewNav>>
  /\ gate' = NewGate /\ intent' = NewIntent /\ held' = NewHeld /\ batch' = NewBatch /\ nav' = NewNav
  /\ due' = NoneDue
  /\ owed' = Zero
  /\ promised' = 0
  /\ out' = Zero
  /\ UNCHANGED <<chain, at, frame, guard, settings, verdict>>

\* zpt_zmk_stage_tuning's apply_between_frames: under every router's lock the
\* settings are replaced; what the stage holds and its deadline stay.
Retune ==
  /\ Unlocked
  /\ settings' \in Settings \ {settings}
  /\ out' = Zero
  /\ UNCHANGED <<chain, at, frame, guard, stages, due, verdict, promised, owed>>

Older(since) == IF since = Forever THEN Forever ELSE since + 1

\* A millisecond passes; neither a frame nor a deadline is kept waiting longer
\* than MaxWait.
Tick ==
  /\ at # "none" => frame.age < MaxWait
  /\ \A s \in DOMAIN due : due[s] # Never => due[s] > -MaxWait
  /\ frame' = IF at = "none" THEN frame ELSE [frame EXCEPT !.age = @ + 1]
  /\ pressed' = [pressed EXCEPT !.since = Older(@)]
  /\ gate' = [gate EXCEPT !.sinceFrame = IF gate.s.have THEN Older(@) ELSE @,
                          !.sinceStart = IF HasPending(gate.s) THEN Older(@) ELSE @]
  /\ intent' = [intent EXCEPT !.since = IF intent.have THEN Older(@) ELSE @]
  /\ held' = [held EXCEPT !.since = IF held.saw THEN Older(@) ELSE @]
  /\ nav' = [nav EXCEPT !.since = IF nav.have THEN Older(@) ELSE @]
  /\ due' = [s \in DOMAIN due |-> IF due[s] = Never THEN Never ELSE due[s] - 1]
  /\ out' = Zero
  /\ UNCHANGED <<chain, at, listener, batch, verdict, settings, promised, owed>>

Next ==
  \/ Press \/ Publish \/ Arrive \/ Gate \/ Intent \/ Constrain \/ Quantize \/ Batch
  \/ Navigate \/ FlushGate \/ FlushHeld \/ FlushBatch \/ Reset \/ Retune \/ Tick

Spec == Init /\ [][Next]_vars

-----------------------------------------------------------------------------
(* Properties.                                                               *)

\* A frame the chain's first stage suppresses leaves nothing behind that was
\* taken in before the key was pressed, except what is less than one step: the
\* later stages must come to the same verdict (axis_intent_stage.c's comment).
SharedVerdict ==
  at = "none" /\ verdict =>
    /\ ~HasPending(gate.s) /\ ~gate.s.active
    /\ held.sum = Zero
    /\ batch.pending = Zero

\* Nothing is held back without a deadline that is at most one interval away:
\* the gate's motion and its opening, the undecided motion, the batch of steps.
\* Undecided motion is promised the interval in force when its latest frame came,
\* whatever is tuned afterwards; with both of its intervals 0 it is promised none.
HeldIsTimed ==
  /\ gate.s.active => due.gate \in -MaxWait..GateIdleMs
  /\ HasPending(gate.s) => due.gate \in -MaxWait..QualificationMs
  /\ held.have /\ promised # 0 => due.held \in -MaxWait..promised
  /\ batch.armed <=> due.batch # Never
  /\ batch.pending # Zero => due.batch \in -MaxWait..BatchMs

\* The stage's evidence of the pending motion (its summed sample span, here one
\* per frame) is that of the frames the strategy is holding, no more and no less.
EvidenceIsPending ==
  /\ gate.evidence <=> HasPending(gate.s)
  /\ gate.span = gate.s.samples

\* Motion leaves a chain once: what was taken in and neither suppressed, timed
\* out, filtered by its axis nor sent is what the stages hold, to the fraction.
MotionOwed ==
  owed = Plus(Times(Scale, Plus(frame.motion, Plus(Qualified(gate), Plus(held.sum, batch.pending)))),
              Plus(batch.rest, nav.sum))
=============================================================================
