----------------------------- MODULE MotionGate -----------------------------
(* The coherent-displacement strategy of the motion gate                       *)
(* (src/stage/motion_gate/coherent_displacement.c): motion is held back until  *)
(* it adds up to a deliberate displacement, then passes until the ball rests.  *)
(* Pure operators over the strategy's state; GestureStages.tla drives them.    *)
(* Times are given as how long ago they were.  The 64-bit saturation is left   *)
(* out, and the gate is the enabled one: a bypassed gate keeps no state.       *)
EXTENDS Integers

CONSTANTS
  GateActivation,      \* activation_distance of the gate
  CoherencePercent,    \* coherence_percent
  QualificationMs,     \* qualification_timeout_ms
  GateIdleMs           \* idle_timeout_ms

\* zpt_coherent_displacement_validate.
ASSUME GateAssumption ==
  /\ GateActivation \in Nat \ {0} /\ CoherencePercent \in 0..100
  /\ QualificationMs \in Nat \ {0} /\ GateIdleMs \in Nat \ {0}

\* zpt_coherent_displacement_reset.
FreshGate == [active |-> FALSE, have |-> FALSE, x |-> 0, y |-> 0, energy |-> 0, samples |-> 0]

HasPending(gate) == gate.samples # 0

\* reset_pending.
Dropped(gate) == [gate EXCEPT !.x = 0, !.y = 0, !.energy = 0, !.samples = 0]

Square(x, y) == x * x + y * y

\* coherence_meets.
Coherent(net, energy, samples) ==
  \/ CoherencePercent = 0 \/ samples <= 1
  \/ energy > 0 /\ net * 10000 >= samples * energy * CoherencePercent * CoherencePercent

Idled(gate, sinceFrame) == gate.have /\ sinceFrame >= GateIdleMs
TimedOut(gate, sinceStart) ==
  ~gate.active /\ HasPending(gate) /\ sinceStart >= QualificationMs

\* expire_state: the strategy sinceFrame after its last frame, and sinceStart
\* after its pending motion began.
Expired(gate, sinceFrame, sinceStart) ==
  IF Idled(gate, sinceFrame) THEN FreshGate
  ELSE IF TimedOut(gate, sinceStart) THEN Dropped(gate) ELSE gate

\* The strategy with one more frame pending.
Gathered(gate, x, y) ==
  [gate EXCEPT !.have = TRUE, !.x = @ + x, !.y = @ + y, !.energy = @ + Square(x, y), !.samples = @ + 1]

\* Is what is pending a deliberate displacement?
Qualifies(gate) ==
  LET net == Square(gate.x, gate.y)
  IN  /\ net >= GateActivation * GateActivation
      /\ Coherent(net, gate.energy, gate.samples)
=============================================================================
