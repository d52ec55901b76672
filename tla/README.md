# Verification of zmk-pointing-tools

TLA+ models of the motion runtime of this repository: what happens to a motion
frame between a sensor and a report, which pipeline it goes through, when
buffered motion leaves again, and how one half of a split keyboard sets the
sensor resolution of the other. TLC checks the models on small instances, TLAPS
proves the most important facts for every value of the constants. Paths are
relative to the repository.

## 1. Inventory

The firmware turns scalar input events into *signals* and pushes each through a
*pipeline* of *stages* into a *sink*. A *router* owns several pipelines, one of
which is active, chosen by held route keys and by the active layers.

| Component | State | Operations | Correct when |
| --- | --- | --- | --- |
| Pipeline runtime, `src/core/pipeline.c` | active flag; per stage a deadline; per operation a budget and one slot for a held emission | activate, reset, push, flush, deactivate; a stage's emit, schedule, cancel; next_deadline | emissions stay in order, none is lost, a failure stops the rest, no stage is re-entered or called outside its life, sleeping to next_deadline misses nothing |
| Core router, `src/core/router.c` | active flag, active index | activate, select with rollback, deactivate, push, flush, next_deadline | exactly one pipeline runs; only it waits; a refused switch rolls back |
| Override table, `src/core/route_override.c` | slots, order counter | press, release, selected | the newest held press decides, a full table refuses and changes nothing |
| Firmware router, `src/platform/zmk/router.c`, `router_executor.c`, `behavior_route.c` | two mutexes, the override table, a delayable work item | layer listener, route key press and release, push, deadline handler | settled route = what layers and keys ask for; a pending deadline always has a wake-up |
| Split sensor control, `sensor_control_proxy.c`, `sensor_control_session.c`, `sensor_control_agent.c`, `device_table.c` | session, semaphore, agent slot, resolutions of the sensor and of the central's label | relay (get, set), receive callback, pressed, serve | an answer answers its own request; the label is the resolution applied |
| Cursor coalescer, `src/stage/cursor_coalescer` | pending sums, last report, armed | process, flush, reset | motion conserved, never stranded, at most one report per interval, none kept waiting longer than one |
| Motion ingress, `src/source` | counts, label and staged resolution, sequence | handle, take, follow_resolution | a frame carries the one resolution it began with; each count is in one frame |
| Compact split transport, `src/source/transport`, `compact_split_encoder.c` | frame being packed, sequence, time of the last frame | handle_event, encode, decode | losses and repetitions show, a re-queued packet's motion is given once, the span is the time between samples |
| Motion gate, axis intent, axis constraint, scroll batcher, text navigation, `src/stage` | held and pending motion, estimator window, remainders, deadlines | process, flush, reset | motion is held only with a deadline, leaves once, and a suppressed frame empties every stage |
| Keypress suppression, `keypress_suppression.c` | time of the last press, flag, frozen copy | listener, is_suppressed, freeze, thaw | the stages of one frame come to one verdict, and a recorded frame to the recorded one |
| Cursor acceleration, `src/stage/cursor_acceleration` | speed estimate, time of the last frame | observe, sensitivity, scale | the estimate follows the ball, the curve stays between its points |
| Cursor quantizer | remainder | process | the fraction is owed, the clamp is not |
| Transfer, orientation, normalisation | none | process | one expression per axis |
| Runtime tuning, `stage_tuning.c`, `service/tuning.c` | the stages' configurations | set, reset, under all routers' locks | no torn settings, valid together, all or nothing |
| Input capture, `observer/capture.c` | burst buffer, numbers, tap per pipeline, resync | taps, peek, consume, resync | drops are visible, what follows still decodes, a trace replays exactly |
| Telemetry service and transports, `src/service` | receive ring, send queues, notification credits, connection | requests, drain, worker | stored records are not stranded |
| Device tree providers, sinks, web console, host tools | configuration, adapters, user interface | | mostly not part of the runtime's logic |

**Interactions.** The input thread decodes events, stamps a frame with the
uptime and then waits for the executor's mutex; layer and key events come on
other threads, take the route mutex and, inside it, the executor's mutex; the
deadline work item runs on the system work queue, reads the clock and takes the
executor's mutex. Stages call back into the runtime (emit, schedule, cancel)
while it calls them. The proxy's relay waits on a semaphore that the receive
callback gives from another thread. The peripheral half packs frames into input
events that may pass its own encoder twice. A key press listener writes the
guard that the stages of a frame read. The protocol worker takes every router's
lock to change settings, and sends what the taps store as the Bluetooth stack
returns credits.

**Hard behaviours.** Re-entrant emission with one slot; failures halfway through
a deactivation, a flush or a switch; deadlines across the wrap of the uptime;
clocks that are read before a lock is waited for; layers that change during a
scan; answers that are lost or late while a timeout runs; a rebooted half;
packets lost, re-queued, or repeated with their motion; a resolution that changes in the middle of a
frame; a key pressed between two stages of one frame; a recording whose buffer
overflows while it is being sent; a host that goes away. Each is in `PROJECT.json` under "hazards", with its line and the properties that
would show it going wrong, or the reason none covers it yet.

## 2. Modules

| Module | Models | Notes |
| --- | --- | --- |
| `RouterIndex` | `zpt_core_router`'s pipeline indices | the constants the table and the core router share |
| `RoutePrecedence` | `route_override.h` | abstract: held positions, their routes and the order of presses; no table |
| `RouteOverride` | `route_override.c` | the slot table; implements `RoutePrecedence` by a refinement mapping |
| `Pipeline` | `pipeline.c` | one operation at a time, step by step: each stage call is a frame of a stack and may emit, schedule, cancel and return; `reg` is what the code being executed was last returned |
| `Router` | `router.c` | one action per operation, over pipelines as `Pipeline` promises them |
| `ZmkRouter` | `platform/zmk/router.c`, `router_executor.c`, `behavior_route.c` | threads, locks, layer scan, work item; has instances of `RoutePrecedence` (the table) and `Router` (the core); `router_init` may leave the router on a pipeline that the initial layers do not ask for |
| `DeviceCaps` | `device_caps.c` | which resolution a request is snapped to; operators only |
| `SensorControl` | proxy, session, agent, device table | the link is a pair of lossy FIFO queues; both halves snap with `DeviceCaps` |
| `MotionPath` | `source_ingress.c`, `motion_source.c`, `frame_assembler.c`, `compact_split_codec.c`, `compact_split_encoder.c` | a local source, or both halves and the link between them; the device table changes at any time |
| `CursorCoalescer` | `cursor_coalescer.c` | the stage with the deadline the pipeline holds for it |
| `AxisIntent`, `MotionGate` | `axis_intent.c`, `coherent_displacement.c` | the two estimators; operators only |
| `GestureStages` | the stages around them, `axis_constraint.c`, `scroll_batcher.c`, `text_nav.c`, `cursor_quantizer.c`, `keypress_suppression.c` | the cursor, scroll and text chains of `config/corne.keymap` under one executor, with the key press listener; the axis constraint is tuned while it runs |
| `CursorAcceleration` | `cursor_acceleration.c` | operators only; the fixed-point units are constants |
| `CaptureBuffer` | the burst buffer of `observer/capture.c` | operators: store, drop, gap marker, batch, delta |
| `StageTuning` | `service/tuning.c`, `stage/stage_tuning.c` | operators: check one by one, candidate, check together, reset |
| `Capture` | taps, tuning under all locks, worker, notifications, host | composes the two above with the input thread, the worker and the host's recorder (`web/recorder.js`, `host/replay/capture-convert.js`) |
| `*_proofs` | | the theorems of section 5 |
| `MC*` | | constants for TLC |

Definitions keep the source's names where there is one. `PROJECT.json` "map"
gives the lines each definition stands for. Definitions whose comment begins
with "Slip:" are not part of a model: each is a plausible bug in one definition,
and putting it in that definition's place must violate a property.

Abstractions. A signal is the path of emissions that led to it (`Pipeline`), a
displacement per axis (`CursorCoalescer`, `MotionPath`, `GestureStages`), or
nothing but its timestamp (`ZmkRouter`). Stages are arbitrary in `Pipeline`: any
stage may emit, schedule, cancel and fail in any order, up to `MaxEmit` emissions
a call. In `Router` a pipeline's push and flush change its stages' deadlines in
any way the runtime allows. Argument checks for NULL, kinds that start-up
validation has already matched, logging and diagnostics are left out, and so is
64-bit saturation. `ZmkRouter` and `GestureStages` use times relative to the
present, so that their states do not grow with the clock.

`Capture` cuts more: each pipeline has a router of its own and one tunable stage
with two settings that constrain each other; one host at a time is connected and
subscribed; a notification's last byte and the consume of its batch are one
step; timeouts may pass at any time; `lock_all` cannot fail, since its mutexes
wait for ever; state samples have a queue of their own and are left out. The
host resets its decoder when it asks to start a recording and ends its trace
when it is disconnected, as `web/recorder.js` does.

## 3. Runs

| Run | Question | Bounds |
| --- | --- | --- |
| `route_override` | does the slot table implement the order of presses? | 3 positions, 2 slots, 5 presses: the table is full, refuses, and reuses each slot |
| `pipeline` | order, loss, failure, re-entry, lifecycle, deadlines | 3 stages, 2 emissions a call, budget 6, clock of 4 values: a middle stage both emits twice and waits inside an emission, the budget runs out, every deadline wraps |
| `router` | switches, refusals, rollback | 3 pipelines, 2 stages, so a rollback differs from falling back to the default |
| `zmk_router` | is the settled route the one asked for, and has every pending deadline a wake-up and no other? | 2 threads, 2 pipelines, 1 routed layer above the default one, a table of one slot; clocks up to 1 ms old, deadlines up to 2 ms late |
| `zmk_live` | is a deadline that has come flushed? | one thread that changes routes, the default layer routed as well, so the router may start on another pipeline: liveness with two takes longer than the states are worth |
| `sensor_control` | are answers matched, is the nearest resolution applied, is the label right? | 5 requests with 3 sequence numbers, so numbers start over; a list of two resolutions or a range of three, requests between and beyond; 1 reboot. TLC evaluates the assumption that a snapped request is nearest for these |
| `sensor_control_late` | the same with a callback held up before k_sem_give | expected to fail, see section 6 |
| `cursor_coalescer` | conservation, latency and spacing of reports | intervals 1 and 3 ms, a clock of 12 values, HID range -2..1, deltas that overflow it, cancel and vanish; a flush up to 1 ms late |
| `cursor_coalescer_late` | the same with frames handled 1 ms after their timestamp | expected to fail, see section 6 |
| `motion_path` | one label per frame, visible losses and repetitions, motion given once but for repetitions, true spans | 5 frames with a sequence number modulo 3 that the central expands modulo 4 (16 bits in the code), 3 ms with spans that clip at 4 ms, an input queue and a link of 2, 1 repetition, 2 resolutions and "unknown"; one axis, on which one count fits a packet and two do not |
| `gesture_stages` | one verdict per frame, held motion has a deadline, evidence and motion agree, motion is conserved | all three chains, 2 displacements that reverse each other, timeouts of 2 and 3 ms, frames that wait 1 ms, a key press at any time; between frames the axis constraint may be set to discard with both intervals (as `config/corne.keymap`), to release after the idle timeout only, or to release with both intervals 0 |
| `capture` | numbers, deltas, replay, settings, key press, nothing stranded | 2 pipelines of which one is recorded, a buffer of 4 units, batches of 3, 2 credits, 1 key press, 5 events of the kinds `MaxEvents` counts |

The largest take one to two minutes (`zmk_router`, `motion_path`, `gesture_stages`,
`capture`), the others seconds. Why the bounds are enough: the hazards need two actors, or one
repetition, of each kind (two threads, two emissions, a full table, a sequence
number that comes back, a second drop), and each bound allows that and one more
where it is affordable. The theorems below drop the bounds for the facts they
state. Bounds that appear in guards (`MaxOrder`, `MaxEmit`, `MaxPending`,
`MaxLag`, `MaxLate`, `MaxRequests`, `MaxBoots`, `MaxTime`, `MaxFrames`,
`MaxQueue`, `MaxLink`, `MaxSum`, `MaxRepeats`, `MaxHeld`, `MaxEnergy`, `MaxWait`,
`MaxPresses`, `MaxEvents`) only keep states finite; none of them makes a property
true, except that `WaitsOneInterval`, `DeadlineCovered` and `HeldIsTimed` say how
late something is in terms of `MaxLate`, `MaxLag` and `MaxWait`.
`CHECK_DEADLOCK FALSE` stands only in the runs of `SensorControl` and `Capture`,
which end when their requests or events are used up.

`Telling`, the action constraint of `capture`, leaves out steps that differ from
others only in when they are taken: a key press that no recorded frame is in the
middle of, a frame of the other router that no change of settings meets, a
timeout for a host that is still there. `Labels` is a symmetry of `motion_path`:
nothing tells the resolutions apart but their being equal.

`Fresh` in `SensorControl` assumes that no message is still under way after as
many later requests as there are sequence numbers (15 in the code). Both
queues are FIFO, so this takes 15 timeouts in a row while one message survives.

`OnePerInterval` excepts a gap of half a turn of the clock and more, after which
an unsigned difference no longer tells what came first. `WaitsOneInterval` has no
such exception but for the last millisecond before a whole turn: after 49.7 days
without a report the stage takes the last report for a fresh one, and holds a
frame for one interval at most.

`Prompt`, a constant of three modules, says that a race the code does not exclude
does not happen: that the receive callback is not held up (`SensorControl`), that
a frame is not handled after a flush with a later clock (`CursorCoalescer`), and
that no key is pressed after the stamp of a frame that is still being handled
(`GestureStages`). Section 6 says what happens otherwise.

## 4. Fairness

Only `zmk_live` states fairness. Weak fairness of every step a thread takes once
it holds what it needs: the scan and the calls under a lock are finite and do
not block. Weak fairness of the timer and of the start of the work item: Zephyr
runs timers and the system work queue ahead of the threads. Strong fairness of
taking a lock: Zephyr's mutexes queue their waiters by priority and hand the
mutex over, and no holder keeps it across a wait of its own, so a waiter is not
passed over for ever. Strong fairness of time: it stops only for the bounded
lags. Nothing is assumed of frames, layers or keys, so the flush comes without
any of them. `NothingStranded` of `Capture` states the safe half of a liveness
property instead: whoever waits has something under way that ends the wait.

## 5. Proofs

| Theorem | States | Argument |
| --- | --- | --- |
| `Routing_proofs!HeldOnceInvariant`, `TableTypeInvariant` | no position and no order is held twice | inductive with the types: a press takes the position's slot if it has one, else an inactive one, and its order exceeds all before |
| `Routing_proofs!ImplementsPrecedence` | `TableSpec => PrecedenceSpec` | step simulation; `HeldOnce` makes the mapping a function and counts active slots as held positions |
| `Routing_proofs!SelectedInvariant` | the table selects the newest press | a finite table has a slot of highest order, by well-foundedness of Nat |
| `Routing_proofs!OneActiveInvariant`, `OnlyActiveWaitsInvariant`, `RefusedRollsBackAlways`, `TypeInvariant` | see `Router` | `OneActive` is inductive; with it, only the active pipeline can have deadlines |
| `Pipeline_proofs!NoReentryInvariant` | calls in progress are of ever later stages | strengthened by where the held emission is addressed: always past the top call |
| `Pipeline_proofs!CallsOnlyLiveInvariant` | stages are called within their life | strengthened by the progress of the deactivation loop, which has ended only stages before every live call |
| `Pipeline_proofs!InactiveIsResetInvariant`, `FailureStopsAlways`, `TypeInvariant` | see `Pipeline` | from the same invariant |
| `Pipeline_proofs!SleepMissesNothingInvariant` | whoever sleeps until next_deadline oversleeps no stage | well-typed deadlines suffice: among the wrapped distances from now there is a least one |
| `Pipeline_proofs!FlushDrainsInvariant` | a flush that succeeds leaves no deadline that has come | strengthened (`Passed`): stages the flush has passed have no deadline that has come, and a call of one of them cannot set one behind the loop |
| `Pipeline_proofs!NothingLostInvariant` | what stages were told went well reached the next stage or the sink | strengthened (`Accounted`, `FailedOnTop`): every signal taken over is dispatched, held in a frame of the stack or in the slot, or a failure is on its way up |
| `Pipeline_proofs!ImmediateOrderInvariant` | dispatches happen in the order of immediate, depth-first calls | strengthened (`Ordered`): a held emission is the next of its call, the calls of the stack are nested in one another, what is held further down comes later than what is held further up, and all of it later than what was dispatched |
| `ZmkRouter_proofs!DeadlineCoveredInvariant`, `NothingStrayInvariant`, `TypeInvariant` | a pending deadline has a wake-up, and there is no other | strengthened (`Covered`): it holds whenever the executor's lock is free, and whoever holds the lock has still to update |
| `ZmkRouter_proofs!RouteSettledInvariant` | once no thread is changing routes the active pipeline is the one asked for, unless a pipeline refused | strengthened (`Settled`): what a thread found is what layers and keys ask for now, and what a scan has passed over would not have stopped it, unless a thread that changed a layer has still to decide |
| `SensorControl_proofs!SnapTwice` | a snapped resolution is supported and snaps to itself, so the second half changes nothing | the quotient of a point of the lattice is exact |
| `SensorControl_proofs!SnapIsNearest` | no supported resolution is nearer to the request, and of two as near the lower is taken | between two neighbours of the lattice; needs the range's maximum to lie on the lattice, see section 6 |
| `SensorControl_proofs!OwnAnswerTakenAlways` | a waiting relay takes the answer to its own request | `Base`: everything under way belongs to one of the newest `SeqMax` requests, so no two share a number, and both queues are ordered by request |
| `SensorControl_proofs!AnswerIsOwnInvariant` | what a relay returns answers its own request | `Matched`, on top of `Base`: what was heard was heard since the relay began |
| `SensorControl_proofs!KnownIsAppliedInvariant`, `NearestAppliedInvariant` | the label is what the sensor applied, and that is nearest to what was asked for | `Valued`: an answer says what the sensor has until the next request or a reboot |
| `MotionPath_proofs!OneLabelInvariant` | a frame's counts carry the resolution followed when it began | strengthened: while a frame is open its label is the one it began with, and what was followed since is staged; while none is, nothing is staged |
| `MotionPath_proofs!GapsShowAlways` | a frame that is not the next one shows a gap, and its sequence counts what is missing | strengthened: the wire number of every packet, in the queue, on the link, next in the encoder and last in the decoder, is its true number modulo `Modulus`; the rest is arithmetic on remainders. The sequence is compared modulo `Span16`, the 65536 values of the signal's field |
| `MotionPath_proofs!SpanIsTimeAlways` | of two packets with consecutive numbers, on the way or decoded last, the second carries the time between them | strengthened: true numbers rise along queue, link and encoder, each packet is stamped no later than the next, and a packet that follows its neighbour by one was given the time since it; a longer time than the code can say saturates. Assumes `Quantum <= 2` |
| `MotionPath_proofs!MotionConservedInvariant` | counts given, lost and on the way are what the sensor moved, and what repetitions brought again under the gap flag | strengthened (`Repeated`): a repetition is next on the link, behind the packet it repeats, so it is decoded with its number and flagged; its motion is no longer counted as moved, and without the flag the balance would not close. What is on the way is a sum over sequences, so the lemmas say how a sum changes when a packet enters, leaves or is merged anywhere. That partial sums exist and agree is proved by the least number at which they would not |
| `GestureStages_proofs!TypeInvariant` | every variable keeps its type, and no frame is kept between frames | one lemma per handler says which way the frame can leave it; the later proofs use these and not the handlers |
| `GestureStages_proofs!EvidenceIsPendingInvariant` | the gate's evidence is that of the frames its strategy holds | inductive with the types: whatever empties the strategy, by expiry, by suppression or by qualifying, clears the evidence in the same step |
| `GestureStages_proofs!HeldIsTimedInvariant` | whatever is held back has a deadline at most one interval away; undecided motion, the interval in force when its latest frame came, and none where both were 0 | strengthened (`Timed`): an open gate holds nothing, a gate with a state has a last frame, and a batch that is not empty is armed. The gate's second deadline is ahead because a pending start that has timed out for the frame being handled is dropped in the same step. `Settings` is any set of settings whose intervals are less than `Forever`, 0 included: a change leaves motion and deadline as they are |
| `GestureStages_proofs!SharedVerdictInvariant` | a suppressed frame leaves nothing behind | strengthened (`Judged`): a frame the first stage suppressed stays suppressed until it is through, since time moves it and the key press alike; and each stage it has passed is empty |
| `GestureStages_proofs!MotionOwedInvariant` | motion leaves a chain once | the balance is proved axis by axis: each way out of a handler moves steps from one place to another or takes them out of what is owed |
| `Capture_proofs!SettingsWholeInvariant` | no stage runs with torn or changing settings | strengthened: while the worker copies it holds every lock, so no frame runs, and the candidate was checked against settings nobody else can have changed since |
| `Capture_proofs!PressHeldInvariant` | the stages decide with the recorded key press | strengthened: only a frame of the recorded pipeline holds the guard, and another pipeline can be recorded only once every lock has been taken, hence once no frame is under way |
| `Capture_proofs!NothingStrandedInvariant` | a worker that waits has something under way that ends the wait | strengthened: credits and notifications on their way are always `Credits` together; a buffer that holds anything has a batch to give (by well-foundedness); and a link that came while the worker sent to another has woken it |
| `Capture_proofs!NumbersTrueStep` | the host hears every number once or a marker that accounts for it | strengthened: between markers the buffer's records are numbered one by one, markers account for what is missing, and the batch being sent stays a prefix of the buffer until it is consumed |
| `Capture_proofs!DeltasDecodeStep` | the host has the frame every delta is relative to, or leaves it out before its own recording | strengthened (`Flow`): from the host over each notification to the end of the buffer there is one line of base frames and numbers, as a host would have them that heard everything; whole frames may follow anything, a delta only its base. The host there is agrees with that line or has no frame. A recording that begins starts a new line, and its answer is sent before its records (`Fresh`) |
| `CursorStages_proofs!NothingDroppedInvariant`, `PendingIsArmedInvariant`, `TypeInvariant` | motion is conserved and never stranded | inductive together: a flush ends the arming through the pipeline's deadline, so armed must agree with it |
| `CursorStages_proofs!WaitsOneIntervalInvariant` | held motion waits for one interval only | strengthened (`Timed`): while armed, the deadline is as far away as the interval lacks since the last report; the rest is arithmetic on the clock's remainders |
| `CursorStages_proofs!OnePerIntervalAlways` | reports keep their distance | from the same invariant, case by case of what sends a report |
| `CursorStages_proofs!SpeedFollows` | a frame takes the speed estimate towards its own speed, never past it | each term of the decay series is a part of the unit; a part of a difference stays within it; the square root exists by well-foundedness of Nat |
| `CursorStages_proofs!TangentLimit` | each tangent has the sign of its secants and at most three times either | the harmonic mean, cleared of fractions and compared with each secant |
| `CursorStages_proofs!CurveMeetsPoints`, `CurveStaysBetween` | the curve goes through its points and stays between two neighbours | one segment holds each speed; at its start the cubic is exact, elsewhere the clamp holds |
| `CursorStages_proofs!ScaledIsNearest`, `FlatCurveIsIdentity` | scaling is rounded to nearest and symmetric; a curve at 100 percent changes nothing | exact quotients |

Assumptions: those named in the modules, and those in a theorem's ASSUME. In the
modules: stage counts, budgets and clock periods are positive numbers; marks such
as `NoDeadline` and `NoPipeline` are no value of their kind; the coalescer's two
intervals together are shorter than a turn of the clock and flushes are less than
half a turn late; in `GestureStages`, where times are kept as how long ago they
were, `Forever` is longer ago than any timeout and the longest wait together; the
axis constraint's and the intent's intervals may be 0, the other stages' are at
least 1. In `MotionPath` the wire's modulus is no more than `Span16`. In
the theorems: `AnswerIsOwn`, `KnownIsApplied`, `NearestApplied`, `OnePerInterval`
and `SharedVerdict` assume `Prompt` of their module (sections 3 and 6); no other
theorem does. `NearestApplied` assumes `SnapsNearest` as well, of the
declarations there are: for a range that ends on a step it is proved
(`RangesSnapNearest`), for lists, which the code searches from end to end, TLC
evaluates it. `SpanIsTime` assumes `Quantum <= 2`: the code keeps time in
milliseconds and its quantum is 2 ms, while a larger one would round the shortest
times up to more than the time there was. `Saturated`, the largest encoded time,
is at least 2 quanta. No theorem uses a bound, and where a property names one
(`MaxLate`, `MaxLag`, `MaxWait`) it may have any value.

`CursorAcceleration` is proved about but not run: the products of the real
fixed-point units leave TLC's 32-bit integers, and its theorems hold for units of
any size, of which the real ones (2^16 and 2^24) are an instance.

Only model-checked: `DueIsFlushed`, since liveness under fairness is beyond the
prover, and `ReplayExact` of `Capture`, which has no proof yet: it needs what
`DeltasDecode` needs, and for each record the taps, settings and frames of the
whole trace before it. ENABLED is out of reach as well; no
model has recursive operators. Where a proof is about a recursive function
(sums over sequences, the host as it hears a batch) the induction is by the least counterexample.

## 6. Findings

Shown by a run:

* `sensor_control_late`: `zpt_sensor_proxy_receive` accepts an answer under its
  spinlock and gives the semaphore after releasing it
  (`sensor_control_proxy.c:56-61`). Held up in between until the relay has timed
  out and the next relay has reset the semaphore (line 88), the give lets the
  next relay return the earlier request's status and value. The session header
  says a late response "is dropped rather than answering a later request"
  (`sensor_control_session.h:34-36`).
* `cursor_coalescer_late`: `interval_elapsed` subtracts unsigned
  (`cursor_coalescer.c:27`). A frame stamped just before a deadline flush that
  gets the lock first looks as if the interval had long passed and is reported
  at once; `last_report_ms` moves back. The header says the stage "sends at most
  one cursor report per report interval" (`cursor_coalescer.h:12`). Conservation,
  arming and the longest wait are not affected, and are proved without the
  assumption; the spacing is proved with it.

Met while modelling, with no run of their own:

* `compact_split_codec.c:121-124`, `source_ingress.c:31-38`: a packet that arrives
  twice is not dropped. It has the number of the one before, so the decoder gives
  it as a new frame with the flags SEQUENCE_GAP and DISCONTINUITY, its motion and
  its span included. `docs/compact-split-codec.md` promises no more than the flag,
  but no stage under `src/src` reads either flag, so the motion reaches the sink
  twice. `MotionConserved` accounts for it in `doubled`, and only for frames that
  do carry the flag; `SpanIsTime` is about next frames and leaves repetitions out.
* `axis_constraint.c:44-46`: with `fold-interval` and `idle-timeout` both 0, which
  the tuning accepts ("0 never times out", `stage_tuning.c:491-496`), undecided
  motion is held with no deadline, until the next decided frame folds it. A change
  of the settings (`stage_tuning.c:18-30` of `platform/zmk`) does not touch the
  deadline either: motion that came with both at 0 gets one only with the next
  undecided frame, motion that came before a longer interval was set keeps the
  shorter one. `HeldIsTimed` therefore speaks of the interval in force at the
  latest undecided frame (`promised`), and of nothing where there was none.

* `keypress_suppression.c:48-49` subtracts unsigned as well: a press stamped after
  the frame it meets reads as "not suppressed", so stages before and after the
  press decide differently on one frame. With `Prompt` FALSE in
  `MCGestureStages.cfg`, `SharedVerdict` fails. The comment at
  `axis_intent_stage.c:81-83` wants one verdict. The same subtraction makes
  `frame_interval_us` (`cursor_acceleration.c:164`) take a frame handled out of
  order for a restart.
* `device_caps.c:30-45` and `device_caps.h:32`: a request just below a maximum that
  is not on the step lattice is snapped to the last point of the lattice, although
  the maximum is supported and nearer. Hence the hypothesis of `SnapIsNearest`.
* `gatt.c:252-256`: `zpt_gatt_disconnected` returns early when the connection that
  ended is not the one in use. A worker that waits for credits of the first host
  after a second one has written may then wait for a wake-up that does not come,
  against `gatt.c:189-191`.
* `telemetry.c:1258-1273`: `rx_reset` raised while bytes of the peer before are in
  the receive ring is taken by the next byte read, an old one, and the rest may be
  joined with the new peer's; the comment at 1263-1266 says otherwise.
* `cursor_acceleration.c:72` and its header call the curve monotone. Tangents and
  ends are (`TangentLimit`, `CurveStaysBetween`), but the fixed-point rounding of
  the cubic moves back by up to about 7 of 65536 within a segment.
* `axis_constraint.h:25-27` speaks of a cadence; each undecided frame starts the
  fold's interval again. `docs/zmk-pipeline-boundary.md:248` speaks of stable layer
  IDs; `router.c:65-68` scans positions.

## 7. Not modelled, and what is left

Not modelled: validation at start-up, observers inside the runtime, the states of
Zephyr's work items beyond timer and queued flag, the device registry, sinks, the
fixed axis policies, the transfer, orientation and normalisation stages (one
expression per axis, no state), the parameter tables and listings of the tuning
service, state samples, diagnostics and the bytes of the telemetry protocol, the
serial transport, the web console but for what becomes of a recording, and the
host tools; device tree providers are configuration.

The order of the two router locks is modelled (`ZmkRouter` takes them as the code
does) but no property would show an inversion of it: `DueIsFlushed` is checked
with one thread that changes routes, and `RouteSettled` speaks only once all
threads are idle.

Left for later:

1. Two hosts at once in `Capture`, for the disconnect of `gatt.c`, and the receive
   ring, for `rx_reset`.
2. State samples beside the capture in the telemetry worker.
3. A theorem for `ReplayExact` of `Capture`.
