------------------------- MODULE GestureStages_proofs -------------------------
(***************************************************************************)
(* Proofs about the stages that hold motion back, for any chains, motions, *)
(* timeouts and thresholds.                                                *)
(***************************************************************************)
EXTENDS GestureStages, TLAPS

Vectors == [Axes -> Int]
Frames == [motion : Vectors, intent : Intents, age : 0..MaxWait]
Strategies ==
  [active : BOOLEAN, have : BOOLEAN, x : Int, y : Int, energy : Int, samples : Nat]
Gates ==
  [s : Strategies, sinceFrame : Nat, sinceStart : Nat, evidence : BOOLEAN, span : Nat]
Holds ==
  [sum : Vectors, have : BOOLEAN, previous : Intents, saw : BOOLEAN, since : Nat]
Batches == [pending : Vectors, rest : Vectors, armed : BOOLEAN]
Navs == [sum : Vectors, have : BOOLEAN, since : Nat]

Typed ==
  /\ at \in {"none", "waiting", "second", "tail"}
  /\ frame \in Frames
  /\ at = "none" => frame = Stamped
  /\ pressed \in [have : BOOLEAN, since : Nat]
  /\ gate \in Gates
  /\ intent.estimator.intent \in Intents
  /\ intent = [estimator |-> intent.estimator, have |-> intent.have, since |-> intent.since]
  /\ held \in Holds
  /\ batch \in Batches
  /\ nav \in Navs
  /\ due \in [{"gate", "held", "batch"} -> Int]
  /\ settings \in Settings
  /\ promised \in Nat
  /\ owed \in Vectors
  /\ verdict \in BOOLEAN

--------------------------------------------------------------------------------
(* Vectors and times *)

LEMMA VectorType ==
  ASSUME NEW u \in Vectors, NEW v \in Vectors, NEW k \in Int
  PROVE  /\ Plus(u, v) \in Vectors /\ Minus(u, v) \in Vectors /\ Times(k, v) \in Vectors
         /\ Zero \in Vectors
  BY DEF Vectors, Plus, Minus, Times, Zero

\* zpt_fixed_to_int32 answers a whole number for any number of fixed-point units.
LEMMA WholeType ==
  ASSUME NEW u \in Vectors
  PROVE  Whole(u) \in Vectors /\ Rest(u) \in Vectors
  <1>1. Whole(u) \in Vectors
    <2> SUFFICES ASSUME NEW a \in Axes
                 PROVE  (IF u[a] < 0 THEN -(-u[a] \div Unit) ELSE u[a] \div Unit) \in Int
      BY DEF Whole, Vectors
    <2>1. u[a] \in Int /\ -u[a] \in Int /\ Unit \in Nat /\ Unit > 0
      BY ScaleAssumption DEF Vectors
    <2>2. u[a] \div Unit \in Int /\ -u[a] \div Unit \in Int
      BY <2>1
    <2> QED
      BY <2>1, <2>2
  <1>2. Rest(u) \in Vectors
    BY <1>1, VectorType, ScaleAssumption DEF Rest
  <1> QED
    BY <1>1, <1>2

LEMMA ElapsedType ==
  ASSUME Typed, NEW since \in Nat
  PROVE  Elapsed(since) \in Nat
  BY TimesAssumption DEF Typed, Frames, Elapsed

\* The intervals of the axis constraint, and the deadline they give.
LEMMA FoldDueType ==
  ASSUME Typed
  PROVE  /\ Interval \in Nat /\ FoldDue(TRUE) \in Int /\ FoldDue(FALSE) \in Int
         /\ Interval = 0 => FoldDue(TRUE) = due.held
         /\ Interval # 0 => FoldDue(TRUE) = Interval - frame.age
  <1>1. settings.fold \in Nat /\ settings.idle \in Nat
    <2>1. settings \in [discard : BOOLEAN, idle : 0..(Forever - MaxWait), fold : 0..(Forever - MaxWait)]
      BY SettingsAssumption DEF Typed
    <2> QED
      BY <2>1, TimesAssumption
  <1>2. Interval \in Nat
    BY <1>1 DEF Interval
  <1>3. due.held \in Int /\ frame.age \in Int /\ Never \in Int
    BY TimesAssumption DEF Typed, Frames, Never
  <1> QED
    BY <1>2, <1>3 DEF FoldDue

LEMMA OlderType ==
  ASSUME NEW since \in Nat
  PROVE  Older(since) \in Nat
  BY DEF Older

--------------------------------------------------------------------------------
(* The strategy of the gate *)

LEMMA FreshType ==
  /\ FreshGate \in Strategies
  /\ ~FreshGate.active /\ FreshGate.samples = 0 /\ FreshGate.x = 0 /\ FreshGate.y = 0
  /\ ~HasPending(FreshGate)
  BY DEF FreshGate, Strategies, HasPending

LEMMA DroppedType ==
  ASSUME NEW g \in Strategies
  PROVE  /\ Dropped(g) \in Strategies
         /\ Dropped(g).active = g.active /\ Dropped(g).have = g.have
         /\ Dropped(g).samples = 0 /\ Dropped(g).x = 0 /\ Dropped(g).y = 0
  <1>1. DOMAIN Dropped(g) = {"active", "have", "x", "y", "energy", "samples"}
    BY DEF Dropped, Strategies
  <1>2. /\ Dropped(g).active = g.active /\ Dropped(g).have = g.have
        /\ Dropped(g).samples = 0 /\ Dropped(g).x = 0 /\ Dropped(g).y = 0
        /\ Dropped(g).energy = 0
    BY DEF Dropped, Strategies
  <1>3. Dropped(g) = [k \in DOMAIN Dropped(g) |-> Dropped(g)[k]]
    BY DEF Dropped
  <1>4. Dropped(g) \in Strategies
    BY <1>1, <1>2, <1>3 DEF Strategies
  <1> QED
    BY <1>2, <1>4

LEMMA GatheredType ==
  ASSUME NEW g \in Strategies, NEW x \in Int, NEW y \in Int
  PROVE  /\ Gathered(g, x, y) \in Strategies
         /\ Gathered(g, x, y).active = g.active /\ Gathered(g, x, y).have
         /\ Gathered(g, x, y).samples = g.samples + 1
         /\ Gathered(g, x, y).x = g.x + x /\ Gathered(g, x, y).y = g.y + y
  <1>1. Square(x, y) \in Int
    BY DEF Square
  <1> DEFINE h == Gathered(g, x, y)
  <1>2. DOMAIN h = {"active", "have", "x", "y", "energy", "samples"}
    BY DEF Gathered, Strategies
  <1>3. /\ h.active = g.active /\ h.have /\ h.x = g.x + x /\ h.y = g.y + y
        /\ h.energy = g.energy + Square(x, y) /\ h.samples = g.samples + 1 /\ h.have \in BOOLEAN
    BY DEF Gathered, Strategies
  <1>4. h = [k \in DOMAIN h |-> h[k]]
    BY DEF Gathered
  <1>5. h \in Strategies
    <2>1. g.active \in BOOLEAN /\ g.x + x \in Int /\ g.y + y \in Int /\ g.samples + 1 \in Nat
          /\ g.energy + Square(x, y) \in Int
      BY <1>1 DEF Strategies
    <2> HIDE DEF h
    <2> QED
      BY <1>2, <1>3, <1>4, <2>1 DEF Strategies
  <1> QED
    BY <1>3, <1>5

\* What the strategy has come to: as it was, or without what was pending.
LEMMA ExpiredCases ==
  ASSUME NEW g \in Strategies, NEW f \in Nat, NEW s \in Nat
  PROVE  LET e == Expired(g, f, s) IN
         /\ e \in Strategies
         /\ \/ e = g /\ ~Idled(g, f) /\ ~TimedOut(g, s)
            \/ ~e.active /\ e.samples = 0 /\ e.x = 0 /\ e.y = 0
         /\ e.active => e = g
  <1>1. CASE Idled(g, f)
    BY <1>1, FreshType DEF Expired
  <1>2. CASE ~Idled(g, f) /\ TimedOut(g, s)
    BY <1>2, DroppedType DEF Expired, TimedOut
  <1>3. CASE ~Idled(g, f) /\ ~TimedOut(g, s)
    BY <1>3 DEF Expired
  <1> QED
    BY <1>1, <1>2, <1>3

\* What the gate holds once the frame's motion has joined it.
LEMMA GatheredGate ==
  ASSUME Typed, NEW e \in Strategies,
         e = gate.s \/ e.samples = 0
  PROVE  LET g == Evidenced(Joined(e), e) IN
         /\ g \in Gates
         /\ g.s = Gathered(e, frame.motion.x, frame.motion.y)
         /\ g.sinceFrame = frame.age
         /\ g.sinceStart = IF HasPending(e) THEN gate.sinceStart ELSE frame.age
         /\ g.evidence
         /\ EvidenceIsPending => g.span = e.samples + 1
  <1> DEFINE j == Joined(e)
             g == Evidenced(j, e)
             n == IF HasPending(gate.s) /\ e = gate.s
                    THEN IF gate.evidence THEN gate.span + 1 ELSE 1 ELSE 1
  <1>1. /\ frame.age \in Nat /\ frame.motion.x \in Int /\ frame.motion.y \in Int
        /\ gate \in Gates /\ gate.s \in Strategies /\ gate.sinceStart \in Nat /\ gate.span \in Nat
    BY TimesAssumption DEF Typed, Frames, Vectors, Axes, Gates
  <1>2. Gathered(e, frame.motion.x, frame.motion.y) \in Strategies
    BY <1>1, GatheredType
  <1>3. /\ j \in Gates /\ j.s = Gathered(e, frame.motion.x, frame.motion.y)
        /\ j.sinceFrame = frame.age
        /\ j.sinceStart = IF HasPending(e) THEN gate.sinceStart ELSE frame.age
        /\ j.span = gate.span
    <2> DEFINE a == [gate EXCEPT !.s = Gathered(e, frame.motion.x, frame.motion.y)]
               b == [a EXCEPT !.sinceFrame = frame.age]
    <2>1. a \in Gates
      BY <1>1, <1>2 DEF Gates
    <2>2. b \in Gates /\ b.sinceStart = gate.sinceStart
      BY <1>1, <2>1 DEF Gates
    <2>3. j = [b EXCEPT !.sinceStart = IF HasPending(e) THEN @ ELSE frame.age]
      BY DEF Joined
    <2>4. j \in Gates
      BY <1>1, <2>2, <2>3 DEF Gates
    <2> QED
      BY <1>1, <2>4 DEF Gates, Joined
  <1> HIDE DEF j
  <1>4. n \in Nat
    BY <1>1
  <1>5. g = [j EXCEPT !.span = n, !.evidence = TRUE]
    BY <1>3 DEF Evidenced
  <1> HIDE DEF g
  <1>6. /\ g \in Gates /\ g.s = j.s /\ g.sinceFrame = j.sinceFrame /\ g.sinceStart = j.sinceStart
        /\ g.evidence /\ g.span = n
    BY <1>3, <1>4, <1>5 DEF Gates
  <1>7. ASSUME EvidenceIsPending
        PROVE  n = e.samples + 1
    <2>1. CASE HasPending(gate.s) /\ e = gate.s
      BY <1>1, <1>7, <2>1 DEF EvidenceIsPending, Strategies
    <2>2. CASE ~(HasPending(gate.s) /\ e = gate.s)
      BY <2>2 DEF HasPending
    <2> QED
      BY <2>1, <2>2
  <1> QED
    BY <1>3, <1>6, <1>7 DEF g, j

\* The ways a frame leaves the gate.
LEMMA GateStep ==
  ASSUME Typed, Gate
  PROVE  LET e == Expired(gate.s, Elapsed(gate.sinceFrame), Elapsed(gate.sinceStart))
             g == Evidenced(Joined(e), e)
             expired == IF e # gate.s THEN Times(Scale, [x |-> gate.s.x, y |-> gate.s.y]) ELSE Zero
         IN  /\ gate' \in Gates
             /\ \/ /\ Suppressed
                   /\ gate'.s = FreshGate /\ ~gate'.evidence /\ gate'.span = 0
                   /\ owed' = Minus(owed, Times(Scale, Plus(frame.motion, Qualified(gate))))
                   /\ Swallow
                \/ /\ ~Suppressed /\ e.active
                   /\ gate'.s = gate.s /\ gate'.sinceFrame = frame.age
                   /\ gate'.evidence = gate.evidence /\ gate'.span = gate.span
                   /\ Emit("tail", frame.motion) /\ owed' = owed
                \/ /\ ~Suppressed /\ ~e.active
                   /\ gate'.s \in Strategies /\ gate'.s.active /\ gate'.s.have
                   /\ gate'.s.samples = 0 /\ gate'.s.x = 0 /\ gate'.s.y = 0
                   /\ gate'.sinceFrame = frame.age /\ ~gate'.evidence /\ gate'.span = 0
                   /\ Emit("tail", Qualified(g)) /\ owed' = Minus(owed, expired)
                \/ /\ ~Suppressed /\ ~e.active
                   /\ gate' = g
                   /\ Swallow /\ owed' = Minus(owed, expired)
  <1> DEFINE e == Expired(gate.s, Elapsed(gate.sinceFrame), Elapsed(gate.sinceStart))
             g == Evidenced(Joined(e), e)
             expired == IF e # gate.s THEN Times(Scale, [x |-> gate.s.x, y |-> gate.s.y]) ELSE Zero
  <1>1. /\ frame.age \in Nat /\ frame.motion.x \in Int /\ frame.motion.y \in Int
        /\ gate \in Gates /\ gate.s \in Strategies
        /\ gate.sinceFrame \in Nat /\ gate.sinceStart \in Nat
    BY TimesAssumption DEF Typed, Frames, Vectors, Axes, Gates
  <1>2. e \in Strategies /\ (e = gate.s \/ e.samples = 0) /\ (e.active => e = gate.s)
    BY <1>1, ElapsedType, ExpiredCases
  <1> HIDE DEF e
  <1>3. /\ g \in Gates /\ g.s = Gathered(e, frame.motion.x, frame.motion.y)
        /\ g.sinceFrame = frame.age
    BY <1>2, GatheredGate
  <1>4. g.s \in Strategies /\ g.s.have
    BY <1>1, <1>2, <1>3, GatheredType
  <1> HIDE DEF g, expired
  <1>5. CASE /\ Suppressed
             /\ gate' = Unevidenced([gate EXCEPT !.s = FreshGate])
             /\ owed' = Minus(owed, Times(Scale, Plus(frame.motion, Qualified(gate))))
             /\ Swallow
    <2> DEFINE h == [gate EXCEPT !.s = FreshGate]
    <2>1. h \in Gates /\ h.s = FreshGate
      BY <1>1, FreshType DEF Gates
    <2> HIDE DEF h
    <2>2. gate' = [h EXCEPT !.evidence = FALSE, !.span = 0]
      BY <1>5 DEF h, Unevidenced
    <2>3. gate' \in Gates /\ gate'.s = FreshGate /\ ~gate'.evidence /\ gate'.span = 0
      BY <2>1, <2>2 DEF Gates
    <2> QED
      BY <1>5, <2>3
  <1>6. CASE /\ ~Suppressed /\ e.active
             /\ gate' = [gate EXCEPT !.sinceFrame = frame.age]
             /\ Emit("tail", frame.motion)
             /\ UNCHANGED owed
    <2>1. /\ gate' \in Gates /\ gate'.s = gate.s /\ gate'.sinceFrame = frame.age
          /\ gate'.evidence = gate.evidence /\ gate'.span = gate.span
      BY <1>1, <1>6 DEF Gates
    <2> QED
      BY <1>6, <2>1 DEF e
  <1>7. CASE /\ ~Suppressed /\ ~e.active
             /\ gate' = Unevidenced([g EXCEPT !.s = [Dropped(@) EXCEPT !.active = TRUE]])
             /\ Emit("tail", Qualified(g))
             /\ owed' = Minus(owed, expired)
    <2> DEFINE d == Dropped(g.s)
               s == [d EXCEPT !.active = TRUE]
               h == [g EXCEPT !.s = s]
    <2>1. d \in Strategies /\ d.have /\ d.samples = 0 /\ d.x = 0 /\ d.y = 0
      BY <1>4, DroppedType
    <2>h. h = [g EXCEPT !.s = [Dropped(@) EXCEPT !.active = TRUE]]
      BY <1>3 DEF Gates
    <2> HIDE DEF d
    <2>2. s \in Strategies /\ s.active /\ s.have /\ s.samples = 0 /\ s.x = 0 /\ s.y = 0
      BY <2>1 DEF Strategies
    <2> HIDE DEF s
    <2>3. h \in Gates /\ h.s = s /\ h.sinceFrame = frame.age
      BY <1>3, <2>2 DEF Gates
    <2> HIDE DEF h
    <2>4. gate' = [h EXCEPT !.evidence = FALSE, !.span = 0]
      BY <1>7, <2>h DEF Unevidenced
    <2>5. /\ gate' \in Gates /\ gate'.s = s /\ gate'.sinceFrame = frame.age
          /\ ~gate'.evidence /\ gate'.span = 0
      BY <2>3, <2>4 DEF Gates
    <2> QED
      BY <1>7, <2>2, <2>5 DEF e, g, expired
  <1>8. CASE /\ ~Suppressed /\ ~e.active
             /\ gate' = g
             /\ owed' = Minus(owed, expired)
             /\ Swallow
    BY <1>3, <1>8 DEF e, g, expired
  <1> QED
    BY <1>5, <1>6, <1>7, <1>8 DEF Gate, e, g, expired

\* coherent_stage_flush.
LEMMA FlushGateStep ==
  ASSUME Typed, FlushGate
  PROVE  LET e == Expired(gate.s, gate.sinceFrame, gate.sinceStart) IN
         /\ gate' \in Gates /\ gate'.s = e
         /\ gate'.sinceFrame = gate.sinceFrame /\ gate'.sinceStart = gate.sinceStart
         /\ \/ gate' = gate /\ e = gate.s
            \/ ~gate'.evidence /\ gate'.span = 0 /\ e # gate.s
  <1> DEFINE e == Expired(gate.s, gate.sinceFrame, gate.sinceStart)
             h == [gate EXCEPT !.s = e]
  <1>1. gate \in Gates /\ e \in Strategies
    <2>1. /\ gate \in Gates /\ gate.s \in Strategies
          /\ gate.sinceFrame \in Nat /\ gate.sinceStart \in Nat
      BY DEF Typed, Gates
    <2> QED
      BY <2>1, ExpiredCases
  <1> HIDE DEF e
  <1>2. h \in Gates /\ h.s = e /\ h.sinceFrame = gate.sinceFrame /\ h.sinceStart = gate.sinceStart
    BY <1>1 DEF Gates
  <1> HIDE DEF h
  <1>3. CASE e = gate.s
    BY <1>1, <1>3 DEF FlushGate, e
  <1>4. CASE e # gate.s
    <2>1. gate' = [h EXCEPT !.evidence = FALSE, !.span = 0]
      BY <1>4 DEF FlushGate, Unevidenced, e, h
    <2>2. /\ gate' \in Gates /\ gate'.s = e
          /\ gate'.sinceFrame = gate.sinceFrame /\ gate'.sinceStart = gate.sinceStart
          /\ ~gate'.evidence /\ gate'.span = 0
      BY <1>2, <2>1 DEF Gates
    <2> QED
      BY <1>4, <2>2 DEF e
  <1> QED
    BY <1>3, <1>4

--------------------------------------------------------------------------------
(* Types *)

LEMMA FrameFields ==
  ASSUME Typed
  PROVE  /\ frame.motion \in Vectors /\ frame.intent \in Intents /\ frame.age \in 0..MaxWait
         /\ frame.age \in Nat
  BY TimesAssumption DEF Typed, Frames

LEMMA SwallowType ==
  ASSUME Swallow
  PROVE  /\ at' \in {"none", "waiting", "second", "tail"} /\ at' = "none"
         /\ frame' \in Frames /\ frame' = Stamped /\ frame'.motion = Zero /\ frame'.age = 0
  BY VectorType, TimesAssumption DEF Swallow, Stamped, Frames, Intents, Vectors, Zero

LEMMA EmitType ==
  ASSUME Typed, NEW place \in {"second", "tail"}, NEW m \in Vectors, Emit(place, m)
  PROVE  /\ at' \in {"none", "waiting", "second", "tail"} /\ at' = place
         /\ frame' \in Frames /\ frame'.motion = m /\ frame'.age = frame.age
         /\ frame'.intent = frame.intent
         /\ at' = "none" => frame' = Stamped
  BY DEF Typed, Emit, Frames

LEMMA QualifiedType ==
  ASSUME NEW g \in Gates
  PROVE  Qualified(g) \in Vectors /\ Qualified(g)["x"] = g.s.x /\ Qualified(g)["y"] = g.s.y
  BY DEF Gates, Strategies, Qualified, Vectors, Axes

LEMMA GateDueType ==
  ASSUME NEW g \in Gates
  PROVE  GateDue(g) \in Int
  <1>1. /\ g.sinceFrame \in Nat /\ g.sinceStart \in Nat
        /\ GateIdleMs \in Int /\ QualificationMs \in Int /\ Never \in Int
    BY TimesAssumption DEF Gates, Never
  <1> QED
    BY <1>1 DEF GateDue

\* What the other stages hold after a step that only concerns them.
LEMMA InitTyped == Init => Typed
  <1> SUFFICES ASSUME Init PROVE Typed
    OBVIOUS
  <1>1. Zero \in Vectors /\ "undecided" \in Intents /\ 0 \in 0..MaxWait /\ Forever \in Nat /\ Never \in Int
    BY VectorType, TimesAssumption DEF Intents, Vectors, Zero, Never
  <1>2. frame \in Frames /\ frame = Stamped
    BY <1>1 DEF Init, Stamped, Frames
  <1>3. gate \in Gates
    BY FreshType DEF Init, NewGate, Gates
  <1>4. held \in Holds /\ batch \in Batches /\ nav \in Navs
    BY <1>1 DEF Init, NewHeld, NewBatch, NewNav, Holds, Batches, Navs
  <1>5. /\ intent.estimator.intent \in Intents
        /\ intent = [estimator |-> intent.estimator, have |-> intent.have, since |-> intent.since]
    BY <1>1 DEF Init, NewIntent, FreshEstimator
  <1>6. due \in [{"gate", "held", "batch"} -> Int]
    BY <1>1 DEF Init, NoneDue
  <1>7. pressed \in [have : BOOLEAN, since : Nat]
    BY <1>1 DEF Init
  <1> QED
    BY <1>1, <1>2, <1>3, <1>4, <1>5, <1>6, <1>7 DEF Init, Typed

LEMMA GateTyped == ASSUME Typed, Gate PROVE Typed'
  <1> DEFINE e == Expired(gate.s, Elapsed(gate.sinceFrame), Elapsed(gate.sinceStart))
             g == Evidenced(Joined(e), e)
             expired == IF e # gate.s THEN Times(Scale, [x |-> gate.s.x, y |-> gate.s.y]) ELSE Zero
  <1>1. gate' \in Gates
    BY GateStep
  <1>2. /\ gate \in Gates /\ gate.s \in Strategies /\ frame.motion \in Vectors /\ owed \in Vectors
        /\ gate.sinceFrame \in Nat /\ gate.sinceStart \in Nat /\ Scale \in Int
    BY ScaleAssumption DEF Typed, Frames, Gates
  <1>3. g \in Gates
    <2>1. e \in Strategies /\ (e = gate.s \/ e.samples = 0)
      BY <1>2, ElapsedType, ExpiredCases
    <2> HIDE DEF e
    <2> QED
      BY <2>1, GatheredGate
  <1>4. expired \in Vectors
    <2>1. [x |-> gate.s.x, y |-> gate.s.y] \in Vectors
      BY <1>2 DEF Strategies, Vectors, Axes
    <2> QED
      BY <1>2, <2>1, VectorType
  <1>5. Qualified(gate) \in Vectors /\ Qualified(g) \in Vectors
    BY <1>2, <1>3, QualifiedType
  <1> HIDE DEF e, g, expired
  <1>6. owed' \in Vectors
    <2>1. Minus(owed, Times(Scale, Plus(frame.motion, Qualified(gate)))) \in Vectors
      BY <1>2, <1>5, VectorType
    <2>2. Minus(owed, expired) \in Vectors
      BY <1>2, <1>4, VectorType
    <2> QED
      BY <1>2, <2>1, <2>2, GateStep DEF e, g, expired
  <1>7. /\ at' \in {"none", "waiting", "second", "tail"} /\ frame' \in Frames
        /\ at' = "none" => frame' = Stamped
    <2>1. Swallow \/ Emit("tail", frame.motion) \/ Emit("tail", Qualified(g))
      BY GateStep DEF e, g, expired
    <2> QED
      BY <1>2, <1>5, <2>1, EmitType, SwallowType
  <1>8. due' \in [{"gate", "held", "batch"} -> Int] /\ verdict' \in BOOLEAN
    <2>1. GateDue(gate') \in Int
      BY <1>1, GateDueType
    <2> QED
      BY <2>1 DEF Gate, Typed, Suppressed
  <1> QED
    BY <1>1, <1>6, <1>7, <1>8 DEF Gate, Typed, guard

LEMMA IntentTyped == ASSUME Typed, Intent PROVE Typed'
  <1> DEFINE elapsed == IF intent.have THEN Elapsed(intent.since) ELSE 0
             stale == ~intent.have \/ (IntentIdleMs # 0 /\ elapsed >= IntentIdleMs)
             estimator == Estimate(IF stale THEN FreshEstimator ELSE intent.estimator,
                                   frame.motion.x, frame.motion.y, elapsed)
  <1>1. frame \in Frames /\ frame.motion \in Vectors /\ owed \in Vectors /\ Zero \in Vectors
    BY VectorType, FrameFields DEF Typed
  <1>2. estimator.intent \in Intents /\ FreshEstimator.intent \in Intents
    BY DEF Estimate, Updated, FreshEstimator, Intents, Typed
  <1> HIDE DEF estimator
  <1>3. /\ intent'.estimator.intent \in Intents
        /\ intent' = [estimator |-> intent'.estimator, have |-> intent'.have, since |-> intent'.since]
    BY <1>2 DEF Intent, estimator
  <1>4. /\ at' \in {"none", "waiting", "second", "tail"} /\ at' # "none" /\ frame' \in Frames
        /\ owed' \in Vectors
    <2>1. CASE Suppressed
      <3>1. Emit("second", Zero) /\ owed' = Minus(owed, Times(Scale, frame.motion))
        BY <2>1 DEF Intent
      <3> QED
        BY <1>1, <3>1, EmitType, VectorType, ScaleAssumption
    <2>2. CASE ~Suppressed
      <3>1. at' = "second" /\ frame' = [frame EXCEPT !.intent = estimator.intent] /\ owed' = owed
        BY <2>2 DEF Intent, estimator
      <3> QED
        BY <1>1, <1>2, <3>1 DEF Frames
    <2> QED
      BY <2>1, <2>2
  <1> QED
    BY <1>3, <1>4 DEF Intent, Typed, guard, Suppressed

LEMMA AllowedType ==
  ASSUME NEW i, NEW v \in Vectors
  PROVE  Allowed(i, v) \in Vectors
  BY DEF Allowed, Vectors

LEMMA ReleasedType ==
  ASSUME NEW h \in Holds
  PROVE  /\ Released(h) \in Holds /\ Released(h).sum = Zero /\ ~Released(h).have
         /\ Released(h).previous = h.previous
  BY VectorType DEF Released, Holds, Vectors, Zero

\* A frame with intent i leaves the axis constraint, folding what h holds or not.
Decided(h, folds, i) ==
  LET sum == Plus(frame.motion, IF folds THEN h.sum ELSE Zero)
  IN  /\ folds => h.have
      /\ held'.sum = IF folds THEN Zero ELSE h.sum
      /\ held'.have = (~folds /\ h.have)
      /\ Emit("tail", Allowed(i, sum))
      /\ owed' = Minus(owed, Times(Scale,
           Plus(Minus(held.sum, h.sum), Minus(sum, Allowed(i, sum)))))
      /\ due' = [due EXCEPT !.held = IF folds THEN FoldDue(FALSE) ELSE @]
      /\ promised' = 0 \/ (held'.have /\ promised' = promised)

\* The ways a frame leaves the axis constraint, h being what the stage holds
\* once the rest before the frame has been seen.
Constrained(h) ==
  /\ \/ h.sum = held.sum /\ h.have = held.have
     \/ h.sum = Zero /\ ~h.have
  /\ held' \in Holds
  /\ \/ /\ Suppressed /\ held' = Released(held)
        /\ Emit("tail", Zero) /\ due' = due /\ promised' = 0
        /\ owed' = Minus(owed, Times(Scale, Plus(frame.motion, held.sum)))
     \/ /\ ~Suppressed
        /\ held'.sum = Plus(h.sum, frame.motion) /\ held'.have
        /\ Emit("tail", Zero) /\ due' = [due EXCEPT !.held = FoldDue(TRUE)]
        /\ owed' = Minus(owed, Times(Scale, Minus(held.sum, h.sum)))
        /\ IF Interval # 0 THEN promised' = Interval
           ELSE promised' = 0 \/ (h.have /\ promised' = promised)
     \/ /\ ~Suppressed
        /\ \E folds \in BOOLEAN, i \in Intents : Decided(h, folds, i)

LEMMA ConstrainStep ==
  ASSUME Typed, Constrain
  PROVE  \E h \in Holds : Constrained(h)
  <1> DEFINE idle == ~held.saw \/ (settings.idle # 0 /\ Elapsed(held.since) >= settings.idle)
             b == IF idle THEN [Released(held) EXCEPT !.previous = "undecided"] ELSE held
             h == [b EXCEPT !.saw = TRUE, !.since = frame.age]
             cleared == Minus(held.sum, h.sum)
             folds == h.previous = "undecided" /\ h.have
             sum == Plus(frame.motion, IF folds THEN h.sum ELSE Zero)
             passed == Allowed(frame.intent, sum)
             decided == IF folds THEN Released(h) ELSE h
  <1>1. /\ held \in Holds /\ frame.age \in Nat /\ frame.intent \in Intents
        /\ frame.motion \in Vectors
    BY FrameFields DEF Typed
  <1>2. /\ b \in Holds
        /\ \/ b.sum = held.sum /\ b.have = held.have
           \/ b.sum = Zero /\ ~b.have
    <2>1. CASE idle
      <3> DEFINE r == Released(held)
      <3>1. r \in Holds /\ r.sum = Zero /\ ~r.have
        BY <1>1, ReleasedType
      <3>2. b = [r EXCEPT !.previous = "undecided"]
        BY <2>1
      <3> HIDE DEF r, b
      <3> QED
        BY <3>1, <3>2 DEF Holds, Intents
    <2>2. CASE ~idle
      BY <1>1, <2>2
    <2> QED
      BY <2>1, <2>2
  <1> HIDE DEF idle, b
  <1>3. h \in Holds /\ h.sum = b.sum /\ h.have = b.have
    BY <1>1, <1>2 DEF Holds
  <1>4. /\ decided \in Holds /\ decided.sum = IF folds THEN Zero ELSE h.sum
        /\ decided.have = (~folds /\ h.have)
    <2> HIDE DEF h
    <2>0. /\ Released(h) \in Holds /\ Released(h).sum = Zero
          /\ Released(h).have = FALSE /\ h.have \in BOOLEAN
      BY <1>3, ReleasedType DEF Holds
    <2>1. CASE folds
      <3>1. decided = Released(h)
        BY <2>1
      <3> HIDE DEF decided, folds
      <3> QED
        BY <2>0, <2>1, <3>1
    <2>2. CASE ~folds
      <3>1. decided = h
        BY <2>2
      <3> HIDE DEF decided, folds
      <3> QED
        BY <1>3, <2>0, <2>2, <3>1
    <2> QED
      BY <2>1, <2>2
  <1>5. \/ /\ Suppressed
           /\ held' = Released(held)
           /\ Emit("tail", Zero)
           /\ owed' = Minus(owed, Times(Scale, Plus(frame.motion, held.sum)))
           /\ due' = due /\ promised' = 0
        \/ /\ ~Suppressed
           /\ held' = [h EXCEPT !.sum = Plus(@, frame.motion), !.have = TRUE]
           /\ Emit("tail", Zero)
           /\ owed' = Minus(owed, Times(Scale, cleared))
           /\ due' = [due EXCEPT !.held = FoldDue(TRUE)]
           /\ promised' = IF Interval # 0 THEN Interval ELSE IF h.have THEN promised ELSE 0
        \/ /\ ~Suppressed
           /\ held' = [decided EXCEPT !.previous = frame.intent]
           /\ Emit("tail", passed)
           /\ owed' = Minus(owed, Times(Scale, Plus(cleared, Minus(sum, passed))))
           /\ due' = [due EXCEPT !.held = IF folds THEN FoldDue(FALSE) ELSE @]
           /\ promised' = IF decided.have THEN promised ELSE 0
    BY DEF Constrain, b, idle
  <1> HIDE DEF h
  <1>6. CASE Suppressed
    BY <1>1, <1>2, <1>3, <1>5, <1>6, ReleasedType DEF Constrained
  <1>7. CASE /\ ~Suppressed
             /\ held' = [h EXCEPT !.sum = Plus(@, frame.motion), !.have = TRUE]
             /\ Emit("tail", Zero)
             /\ owed' = Minus(owed, Times(Scale, cleared))
             /\ due' = [due EXCEPT !.held = FoldDue(TRUE)]
             /\ promised' = IF Interval # 0 THEN Interval ELSE IF h.have THEN promised ELSE 0
    <2>1. h.sum \in Vectors /\ Plus(h.sum, frame.motion) \in Vectors
      BY <1>1, <1>3, VectorType DEF Holds
    <2>2. held' \in Holds /\ held'.sum = Plus(h.sum, frame.motion) /\ held'.have
      BY <1>3, <1>7, <2>1 DEF Holds
    <2>3. IF Interval # 0 THEN promised' = Interval
          ELSE promised' = 0 \/ (h.have /\ promised' = promised)
      BY <1>7
    <2> QED
      BY <1>2, <1>3, <1>7, <2>2, <2>3 DEF Constrained
  <1>8. CASE /\ ~Suppressed
             /\ held' = [decided EXCEPT !.previous = frame.intent]
             /\ Emit("tail", passed)
             /\ owed' = Minus(owed, Times(Scale, Plus(cleared, Minus(sum, passed))))
             /\ due' = [due EXCEPT !.held = IF folds THEN FoldDue(FALSE) ELSE @]
             /\ promised' = IF decided.have THEN promised ELSE 0
    <2> HIDE DEF decided
    <2>1. held' \in Holds /\ held'.sum = decided.sum /\ held'.have = decided.have
      BY <1>1, <1>4, <1>8 DEF Holds
    <2>2. folds \in BOOLEAN /\ (folds => h.have)
      BY <1>3 DEF Holds
    <2>3. promised' = 0 \/ (held'.have /\ promised' = promised)
      BY <1>8, <2>1
    <2>4. due' = [due EXCEPT !.held = IF folds THEN FoldDue(FALSE) ELSE @]
      BY <1>8
    <2>5. /\ held'.sum = IF folds THEN Zero ELSE h.sum
          /\ held'.have = (~folds /\ h.have)
      BY <1>4, <2>1
    <2>6. /\ Emit("tail", passed)
          /\ owed' = Minus(owed, Times(Scale, Plus(cleared, Minus(sum, passed))))
      BY <1>8
    <2>7. \E f \in BOOLEAN, i \in Intents : Decided(h, f, i)
      <3> HIDE DEF folds
      <3> folds \in BOOLEAN /\ frame.intent \in Intents
        BY <1>1, <2>2
      <3> WITNESS folds \in BOOLEAN, frame.intent \in Intents
      <3> QED
        BY <2>2, <2>3, <2>4, <2>5, <2>6 DEF Decided
    <2> QED
      BY <1>2, <1>3, <1>8, <2>1, <2>7 DEF Constrained
  <1> QED
    BY <1>5, <1>6, <1>7, <1>8

LEMMA ConstrainTyped == ASSUME Typed, Constrain PROVE Typed'
  <1>0. PICK h \in Holds : Constrained(h)
    BY ConstrainStep
  <1>1. /\ held' \in Holds
        /\ \/ /\ Emit("tail", Zero) /\ due' = due
              /\ owed' = Minus(owed, Times(Scale, Plus(frame.motion, held.sum)))
           \/ /\ Emit("tail", Zero) /\ due' = [due EXCEPT !.held = FoldDue(TRUE)]
              /\ owed' = Minus(owed, Times(Scale, Minus(held.sum, h.sum)))
           \/ \E folds \in BOOLEAN, i \in Intents :
                   LET sum == Plus(frame.motion, IF folds THEN h.sum ELSE Zero)
                   IN  /\ Emit("tail", Allowed(i, sum))
                       /\ owed' = Minus(owed, Times(Scale,
                            Plus(Minus(held.sum, h.sum), Minus(sum, Allowed(i, sum)))))
                       /\ due' = [due EXCEPT !.held = IF folds THEN FoldDue(FALSE) ELSE @]
    BY <1>0 DEF Constrained, Decided
  <1>2. /\ frame.motion \in Vectors /\ held.sum \in Vectors /\ h.sum \in Vectors /\ owed \in Vectors
        /\ Scale \in Int /\ Zero \in Vectors /\ Interval \in Nat
        /\ FoldDue(TRUE) \in Int /\ FoldDue(FALSE) \in Int /\ promised \in Nat
        /\ due \in [{"gate", "held", "batch"} -> Int]
    <2>1. Interval \in Nat /\ FoldDue(TRUE) \in Int /\ FoldDue(FALSE) \in Int
      BY FoldDueType
    <2>2. frame.motion \in Vectors /\ owed \in Vectors /\ held.sum \in Vectors
      BY FrameFields DEF Typed, Holds
    <2>3. h.sum \in Vectors /\ Scale \in Int
      BY ScaleAssumption DEF Holds
    <2>4. Zero \in Vectors
      BY <2>2, <2>3, VectorType
    <2>5. promised \in Nat /\ due \in [{"gate", "held", "batch"} -> Int]
      BY DEF Typed
    <2> QED
      BY <2>1, <2>2, <2>3, <2>4, <2>5
  <1>3. \E m \in Vectors : Emit("tail", m) /\ owed' \in Vectors
          /\ due' \in [{"gate", "held", "batch"} -> Int]
    <2>1. CASE /\ Emit("tail", Zero) /\ due' = due
               /\ owed' = Minus(owed, Times(Scale, Plus(frame.motion, held.sum)))
      BY <1>2, <2>1, VectorType
    <2>2. CASE /\ Emit("tail", Zero) /\ due' = [due EXCEPT !.held = FoldDue(TRUE)]
               /\ owed' = Minus(owed, Times(Scale, Minus(held.sum, h.sum)))
      BY <1>2, <2>2, VectorType
    <2>3. ASSUME NEW folds \in BOOLEAN, NEW i \in Intents,
                 LET sum == Plus(frame.motion, IF folds THEN h.sum ELSE Zero)
                 IN  /\ Emit("tail", Allowed(i, sum))
                     /\ owed' = Minus(owed, Times(Scale,
                          Plus(Minus(held.sum, h.sum), Minus(sum, Allowed(i, sum)))))
                     /\ due' = [due EXCEPT !.held = IF folds THEN FoldDue(FALSE) ELSE @]
          PROVE  \E m \in Vectors : Emit("tail", m) /\ owed' \in Vectors
                   /\ due' \in [{"gate", "held", "batch"} -> Int]
      <3> DEFINE sum == Plus(frame.motion, IF folds THEN h.sum ELSE Zero)
      <3>1. sum \in Vectors /\ Allowed(i, sum) \in Vectors
        BY <1>2, VectorType, AllowedType
      <3> HIDE DEF sum
      <3>2. owed' \in Vectors
        <4>1. Plus(Minus(held.sum, h.sum), Minus(sum, Allowed(i, sum))) \in Vectors
          BY <1>2, <3>1, VectorType
        <4> QED
          BY <1>2, <2>3, <4>1, VectorType DEF sum
      <3>3. due' \in [{"gate", "held", "batch"} -> Int]
        BY <1>2, <2>3
      <3> QED
        BY <2>3, <3>1, <3>2, <3>3 DEF sum
    <2> QED
      BY <1>1, <2>1, <2>2, <2>3
  <1>4. /\ at' \in {"none", "waiting", "second", "tail"} /\ frame' \in Frames
        /\ at' = "none" => frame' = Stamped
    BY <1>3, EmitType
  <1>5. promised' \in Nat
    <2>1. promised' = 0 \/ promised' = Interval \/ promised' = promised
      BY ConstrainStep DEF Constrained, Decided
    <2> QED
      BY <1>2, <2>1
  <1> QED
    BY <1>1, <1>3, <1>4, <1>5 DEF Constrain, Typed, guard

\* scroll_batcher_stage_process adds to what is pending, or drops it.
LEMMA BatchedType ==
  ASSUME Typed, NEW v \in Vectors, NEW suppressed \in BOOLEAN
  PROVE  LET b == Batched(v, suppressed) IN
         /\ b \in Batches /\ b.rest = batch.rest
         /\ b.pending = IF suppressed THEN Zero ELSE Plus(batch.pending, v)
         /\ b.armed = (batch.armed \/ ~suppressed)
  <1>1. /\ batch \in Batches /\ Zero \in Vectors /\ Plus(batch.pending, v) \in Vectors
        /\ batch.armed \in BOOLEAN
    BY VectorType DEF Typed, Batches
  <1>2. CASE suppressed
    BY <1>1, <1>2 DEF Batched, Batches
  <1>3. CASE ~suppressed
    BY <1>1, <1>3 DEF Batched, Batches
  <1> QED
    BY <1>2, <1>3

LEMMA BatchDueType ==
  ASSUME Typed, NEW since \in Nat, NEW suppressed \in BOOLEAN
  PROVE  BatchDue(since, suppressed) \in Int
  BY TimesAssumption DEF Typed, BatchDue

\* text_nav_stage_process: what it neither keeps nor sends it does not owe.
LEMMA NavigatedType ==
  ASSUME Typed, NEW i, NEW v \in Vectors, NEW since \in Nat, NEW idle \in BOOLEAN,
         Navigated(i, v, since, idle)
  PROVE  /\ nav' \in Navs /\ owed' \in Vectors
         /\ owed' = Minus(owed, Minus(Plus(Times(Scale, v), nav.sum), nav'.sum))
  <1> DEFINE kept == IF idle THEN Zero ELSE nav.sum
             axis == [a \in Axes |-> i = IF a = "x" THEN "horizontal" ELSE "vertical"]
             sum == [a \in Axes |-> kept[a] + IF axis[a] THEN Scale * v[a] ELSE 0]
             key == [a \in Axes |-> IF ~axis[a] \/ Abs(sum[a]) < Threshold THEN 0
                                    ELSE IF sum[a] < 0 THEN -1 ELSE 1]
             rest == Minus(sum, Times(Threshold, key))
  <1>1. /\ nav \in Navs /\ nav.sum \in Vectors /\ owed \in Vectors /\ Zero \in Vectors
        /\ Scale \in Int /\ Threshold \in Int
    BY VectorType, ScaleAssumption DEF Typed, Navs
  <1>2. kept \in Vectors
    BY <1>1
  <1> HIDE DEF kept
  <1>3. sum \in Vectors
    <2> SUFFICES ASSUME NEW a \in Axes
                 PROVE  kept[a] + (IF axis[a] THEN Scale * v[a] ELSE 0) \in Int
      BY DEF Vectors
    <2>1. kept[a] \in Int /\ v[a] \in Int /\ Scale * v[a] \in Int
      BY <1>1, <1>2 DEF Vectors
    <2> HIDE DEF axis
    <2> QED
      BY <2>1
  <1> HIDE DEF sum
  <1>4. key \in Vectors
    BY DEF Vectors
  <1> HIDE DEF key
  <1>5. rest \in Vectors
    BY <1>1, <1>3, <1>4, VectorType
  <1>6. /\ nav' = [sum |-> rest, have |-> TRUE, since |-> since]
        /\ owed' = Minus(owed, Minus(Plus(Times(Scale, v), nav.sum), rest))
    BY DEF Navigated, kept, sum, key
  <1> HIDE DEF rest
  <1>7. nav' \in Navs /\ nav'.sum = rest
    BY <1>5, <1>6 DEF Navs
  <1>8. Plus(Times(Scale, v), nav.sum) \in Vectors
    BY <1>1, VectorType
  <1>9. Minus(Plus(Times(Scale, v), nav.sum), rest) \in Vectors
    BY <1>5, <1>8, VectorType
  <1> QED
    BY <1>1, <1>6, <1>7, <1>9, VectorType

\* cursor_quantizer_stage_process and scroll_batcher_stage_flush.
LEMMA ReportType ==
  ASSUME NEW m \in Vectors, Typed
  PROVE  LET units == Plus(Times(Scale, m), batch.rest) IN
         /\ units \in Vectors /\ Rest(units) \in Vectors
         /\ Minus(owed, Times(Unit, Whole(units))) \in Vectors
  <1> DEFINE units == Plus(Times(Scale, m), batch.rest)
  <1>1. /\ batch.rest \in Vectors /\ owed \in Vectors /\ Times(Scale, m) \in Vectors
        /\ Unit \in Int
    BY VectorType, ScaleAssumption DEF Typed, Batches
  <1>2. units \in Vectors
    BY <1>1, VectorType
  <1> HIDE DEF units
  <1>3. Rest(units) \in Vectors /\ Times(Unit, Whole(units)) \in Vectors
    BY <1>1, <1>2, WholeType, VectorType
  <1>4. Minus(owed, Times(Unit, Whole(units))) \in Vectors
    BY <1>1, <1>3, VectorType
  <1> QED
    BY <1>2, <1>3, <1>4 DEF units

LEMMA QuantizeTyped == ASSUME Typed, Quantize PROVE Typed'
  <1> DEFINE units == Plus(Times(Scale, frame.motion), batch.rest)
  <1>1. /\ batch' = [batch EXCEPT !.rest = Rest(units)]
        /\ owed' = Minus(owed, Times(Unit, Whole(units)))
        /\ Swallow
    BY DEF Quantize
  <1>2. frame.motion \in Vectors /\ batch \in Batches
    BY FrameFields DEF Typed
  <1>3. Rest(units) \in Vectors /\ owed' \in Vectors
    BY <1>1, <1>2, ReportType
  <1> HIDE DEF units
  <1>4. batch' \in Batches
    BY <1>1, <1>2, <1>3 DEF Batches
  <1> QED
    BY <1>1, <1>3, <1>4, SwallowType DEF Quantize, Typed, guard

LEMMA BatchTyped == ASSUME Typed, Batch PROVE Typed'
  <1>1. /\ frame.motion \in Vectors /\ frame.age \in Nat /\ batch.pending \in Vectors
        /\ owed \in Vectors /\ Scale \in Int /\ due \in [{"gate", "held", "batch"} -> Int]
        /\ Suppressed \in BOOLEAN
    BY FrameFields, ScaleAssumption DEF Typed, Batches, Suppressed
  <1>2. batch' \in Batches
    BY <1>1, BatchedType DEF Batch
  <1>3. due' \in [{"gate", "held", "batch"} -> Int]
    <2>1. BatchDue(frame.age, Suppressed) \in Int
      BY <1>1, BatchDueType
    <2> QED
      BY <1>1, <2>1 DEF Batch
  <1>4. owed' \in Vectors
    <2>1. Minus(owed, Times(Scale, Plus(batch.pending, frame.motion))) \in Vectors
      BY <1>1, VectorType
    <2> QED
      BY <1>1, <2>1 DEF Batch
  <1>5. Swallow
    BY DEF Batch
  <1> QED
    BY <1>2, <1>3, <1>4, <1>5, SwallowType DEF Batch, Typed, guard

LEMMA NavigateTyped == ASSUME Typed, Navigate PROVE Typed'
  <1>1. frame.motion \in Vectors /\ frame.age \in Nat
        /\ (~nav.have \/ Elapsed(nav.since) >= NavIdleMs) \in BOOLEAN
    BY FrameFields
  <1>2. Swallow
    BY DEF Navigate
  <1>3. nav' \in Navs /\ owed' \in Vectors
    BY <1>1, NavigatedType DEF Navigate
  <1> QED
    BY <1>2, <1>3, SwallowType DEF Navigate, Typed, guard

LEMMA FlushGateTyped == ASSUME Typed, FlushGate PROVE Typed'
  <1> DEFINE e == Expired(gate.s, gate.sinceFrame, gate.sinceStart)
  <1>1. gate' \in Gates
    BY FlushGateStep
  <1>2. due' \in [{"gate", "held", "batch"} -> Int]
    <2>1. GateDue(gate') \in Int
      BY <1>1, GateDueType
    <2> QED
      BY <2>1 DEF Typed, FlushGate
  <1>3. owed' \in Vectors
    <2>1. gate.s \in Strategies /\ e \in Strategies /\ owed \in Vectors /\ Scale \in Int
      BY FlushGateStep, ScaleAssumption DEF Typed, Gates
    <2> DEFINE d == [x |-> gate.s.x - e.x, y |-> gate.s.y - e.y]
    <2>2. d \in Vectors
      <3> HIDE DEF e
      <3> QED
        BY <2>1 DEF Strategies, Vectors, Axes
    <2>3. owed' = Minus(owed, Times(Scale, d))
      BY DEF FlushGate
    <2> HIDE DEF d
    <2> QED
      BY <2>1, <2>2, <2>3, VectorType
  <1> QED
    BY <1>1, <1>2, <1>3 DEF FlushGate, Typed, guard

\* What axis_constraint_stage_flush does with the motion it held: on into the
\* batch, on into the navigation, or nowhere.
LEMMA FlushHeldStep ==
  ASSUME Typed, FlushHeld
  PROVE  \E suppressed \in BOOLEAN, idle \in BOOLEAN :
           /\ held' = Released(held) /\ held' \in Holds
           /\ held'.sum = Zero /\ ~held'.have
           /\ \/ /\ held.have /\ chain = "scroll"
                 /\ batch' = Batched(held.sum, suppressed) /\ nav' = nav
                 /\ due' = [due EXCEPT !.held = Never, !.batch = BatchDue(0, suppressed)]
                 /\ owed' = IF suppressed THEN Minus(owed, Times(Scale, Plus(batch.pending, held.sum)))
                                          ELSE owed
              \/ /\ held.have /\ chain # "scroll"
                 /\ batch' = batch
                 /\ due' = [due EXCEPT !.held = Never]
                 /\ Navigated("undecided", held.sum, 0, idle)
              \/ /\ batch' = batch /\ nav' = nav
                 /\ due' = [due EXCEPT !.held = Never]
                 /\ owed' = Minus(owed, Times(Scale, held.sum))
  <1> DEFINE suppressed == pressed.have /\ pressed.since < SuppressMs
             idle == ~nav.have \/ nav.since >= NavIdleMs
             sends == held.have /\ ~settings.discard
  <1>1. /\ held \in Holds /\ suppressed \in BOOLEAN /\ idle \in BOOLEAN
    BY DEF Typed
  <1>2. held' = Released(held) /\ held' \in Holds /\ held'.sum = Zero /\ ~held'.have
    BY <1>1, ReleasedType DEF FlushHeld
  <1>3. IF sends /\ chain = "scroll"
        THEN /\ batch' = Batched(held.sum, suppressed)
             /\ due' = [due EXCEPT !.held = Never, !.batch = BatchDue(0, suppressed)]
             /\ owed' = IF suppressed THEN Minus(owed, Times(Scale, Plus(batch.pending, held.sum))) ELSE owed
             /\ nav' = nav
        ELSE /\ due' = [due EXCEPT !.held = Never]
             /\ batch' = batch
             /\ IF sends
                THEN Navigated("undecided", held.sum, 0, idle)
                ELSE /\ owed' = Minus(owed, Times(Scale, held.sum))
                     /\ nav' = nav
    BY DEF FlushHeld
  <1> HIDE DEF suppressed, idle
  <1>4. CASE sends /\ chain = "scroll"
    <2>1. /\ batch' = Batched(held.sum, suppressed)
          /\ due' = [due EXCEPT !.held = Never, !.batch = BatchDue(0, suppressed)]
          /\ owed' = IF suppressed THEN Minus(owed, Times(Scale, Plus(batch.pending, held.sum))) ELSE owed
          /\ nav' = nav
      BY <1>3, <1>4
    <2> QED
      BY <1>1, <1>2, <1>4, <2>1
  <1>5. CASE sends /\ chain # "scroll"
    <2>1. /\ due' = [due EXCEPT !.held = Never] /\ batch' = batch
          /\ Navigated("undecided", held.sum, 0, idle)
      BY <1>3, <1>5
    <2> QED
      BY <1>1, <1>2, <1>5, <2>1
  <1>6. CASE ~sends
    <2>1. /\ due' = [due EXCEPT !.held = Never] /\ batch' = batch /\ nav' = nav
          /\ owed' = Minus(owed, Times(Scale, held.sum))
      BY <1>3, <1>6
    <2> QED
      BY <1>1, <1>2, <2>1
  <1> QED
    BY <1>4, <1>5, <1>6

LEMMA FlushHeldTyped == ASSUME Typed, FlushHeld PROVE Typed'
  <1>1. PICK suppressed \in BOOLEAN, idle \in BOOLEAN :
           /\ held' \in Holds
           /\ \/ /\ batch' = Batched(held.sum, suppressed) /\ nav' = nav
                 /\ due' = [due EXCEPT !.held = Never, !.batch = BatchDue(0, suppressed)]
                 /\ owed' = IF suppressed THEN Minus(owed, Times(Scale, Plus(batch.pending, held.sum)))
                                          ELSE owed
              \/ /\ batch' = batch
                 /\ due' = [due EXCEPT !.held = Never]
                 /\ Navigated("undecided", held.sum, 0, idle)
              \/ /\ batch' = batch /\ nav' = nav
                 /\ due' = [due EXCEPT !.held = Never]
                 /\ owed' = Minus(owed, Times(Scale, held.sum))
    BY FlushHeldStep
  <1>2. /\ held.sum \in Vectors /\ batch.pending \in Vectors /\ owed \in Vectors /\ Scale \in Int
        /\ due \in [{"gate", "held", "batch"} -> Int] /\ Never \in Int
        /\ batch \in Batches /\ nav \in Navs
    BY TimesAssumption, ScaleAssumption DEF Typed, Holds, Batches, Never
  <1>3. /\ batch' \in Batches /\ nav' \in Navs /\ owed' \in Vectors
        /\ due' \in [{"gate", "held", "batch"} -> Int]
    <2>1. CASE /\ batch' = Batched(held.sum, suppressed) /\ nav' = nav
               /\ due' = [due EXCEPT !.held = Never, !.batch = BatchDue(0, suppressed)]
               /\ owed' = IF suppressed THEN Minus(owed, Times(Scale, Plus(batch.pending, held.sum)))
                                        ELSE owed
      <3>1. BatchDue(0, suppressed) \in Int
        BY BatchDueType
      <3>2. Minus(owed, Times(Scale, Plus(batch.pending, held.sum))) \in Vectors
        BY <1>2, VectorType
      <3>3. batch' \in Batches
        BY <1>2, <2>1, BatchedType
      <3> QED
        BY <1>2, <2>1, <3>1, <3>2, <3>3
    <2>2. CASE /\ batch' = batch
               /\ due' = [due EXCEPT !.held = Never]
               /\ Navigated("undecided", held.sum, 0, idle)
      <3>1. nav' \in Navs /\ owed' \in Vectors
        BY <1>2, <2>2, NavigatedType
      <3> QED
        BY <1>2, <2>2, <3>1
    <2>3. CASE /\ batch' = batch /\ nav' = nav
               /\ due' = [due EXCEPT !.held = Never]
               /\ owed' = Minus(owed, Times(Scale, held.sum))
      BY <1>2, <2>3, VectorType
    <2> QED
      BY <1>1, <2>1, <2>2, <2>3
  <1> QED
    BY <1>1, <1>3 DEF FlushHeld, Typed, guard

LEMMA FlushBatchTyped == ASSUME Typed, FlushBatch PROVE Typed'
  <1> DEFINE units == Plus(Times(Scale, batch.pending), batch.rest)
  <1>1. /\ batch' = [pending |-> Zero, rest |-> Rest(units), armed |-> FALSE]
        /\ owed' = Minus(owed, Times(Unit, Whole(units)))
        /\ due' = [due EXCEPT !.batch = Never]
    BY DEF FlushBatch
  <1>2. Rest(units) \in Vectors /\ owed' \in Vectors /\ Zero \in Vectors
    <2>1. batch.pending \in Vectors
      BY DEF Typed, Batches
    <2> QED
      BY <1>1, <2>1, ReportType, VectorType
  <1> HIDE DEF units
  <1>3. batch' \in Batches
    BY <1>1, <1>2 DEF Batches
  <1>4. due' \in [{"gate", "held", "batch"} -> Int]
    BY <1>1, TimesAssumption DEF Typed, Never
  <1> QED
    BY <1>2, <1>3, <1>4 DEF FlushBatch, Typed, guard

LEMMA ResetTyped == ASSUME Typed, Reset PROVE Typed'
  <1>1. Zero \in Vectors /\ "undecided" \in Intents /\ Never \in Int
    BY TimesAssumption DEF Intents, Never, Vectors, Zero
  <1>2. gate' \in Gates
    BY FreshType DEF Reset, NewGate, Gates
  <1>3. held' \in Holds /\ batch' \in Batches /\ nav' \in Navs
    BY <1>1 DEF Reset, NewHeld, NewBatch, NewNav, Holds, Batches, Navs
  <1>4. /\ intent'.estimator.intent \in Intents
        /\ intent' = [estimator |-> intent'.estimator, have |-> intent'.have, since |-> intent'.since]
    BY <1>1 DEF Reset, NewIntent, FreshEstimator
  <1>5. due' \in [{"gate", "held", "batch"} -> Int]
    BY <1>1 DEF Reset, NoneDue
  <1> QED
    BY <1>1, <1>2, <1>3, <1>4, <1>5 DEF Reset, Typed, guard

\* What a millisecond does to the gate.
LEMMA TickGate ==
  ASSUME Typed, Tick
  PROVE  /\ gate' \in Gates /\ gate'.s = gate.s
         /\ gate'.evidence = gate.evidence /\ gate'.span = gate.span
  <1> DEFINE a == [gate EXCEPT !.sinceFrame = IF gate.s.have THEN Older(@) ELSE @]
  <1>1. gate \in Gates /\ Older(gate.sinceFrame) \in Nat /\ Older(gate.sinceStart) \in Nat
    BY OlderType DEF Typed, Gates
  <1>2. /\ a \in Gates /\ a.s = gate.s /\ a.sinceStart = gate.sinceStart
        /\ a.evidence = gate.evidence /\ a.span = gate.span
    BY <1>1 DEF Gates
  <1>3. gate' = [a EXCEPT !.sinceStart = IF HasPending(gate.s) THEN Older(@) ELSE @]
    BY <1>1 DEF Tick, Gates
  <1> HIDE DEF a
  <1> QED
    BY <1>1, <1>2, <1>3 DEF Gates

LEMMA TickTyped == ASSUME Typed, Tick PROVE Typed'
  <1>1. gate' \in Gates
    BY TickGate
  <1>2. held' \in Holds
    <2>1. held \in Holds /\ Older(held.since) \in Nat
      BY OlderType DEF Typed, Holds
    <2> QED
      BY <2>1 DEF Tick, Holds
  <1>3. nav' \in Navs
    <2>1. nav \in Navs /\ Older(nav.since) \in Nat
      BY OlderType DEF Typed, Navs
    <2> QED
      BY <2>1 DEF Tick, Navs
  <1>4. pressed' \in [have : BOOLEAN, since : Nat]
    <2>1. pressed \in [have : BOOLEAN, since : Nat] /\ Older(pressed.since) \in Nat
      BY OlderType DEF Typed
    <2> QED
      BY <2>1 DEF Tick
  <1>5. /\ intent'.estimator.intent \in Intents
        /\ intent' = [estimator |-> intent'.estimator, have |-> intent'.have, since |-> intent'.since]
    <2>1. /\ intent.estimator.intent \in Intents
          /\ intent = [estimator |-> intent.estimator, have |-> intent.have, since |-> intent.since]
      BY DEF Typed
    <2>2. intent' = [intent EXCEPT !.since = IF intent.have THEN Older(@) ELSE @]
      BY DEF Tick
    <2> QED
      BY <2>1, <2>2
  <1>6. frame' \in Frames /\ (at' = "none" => frame' = Stamped)
    <2>1. frame \in Frames /\ (at = "none" => frame = Stamped) /\ at' = at
      BY DEF Typed, Tick
    <2>2. CASE at = "none"
      BY <2>1, <2>2 DEF Tick
    <2>3. CASE at # "none"
      <3>1. frame' = [frame EXCEPT !.age = @ + 1] /\ frame.age < MaxWait
        BY <2>3 DEF Tick
      <3>2. frame.age + 1 \in 0..MaxWait
        BY <2>1, <3>1, TimesAssumption DEF Frames
      <3> QED
        BY <2>1, <2>3, <3>1, <3>2 DEF Frames
    <2> QED
      BY <2>2, <2>3
  <1>7. due' \in [{"gate", "held", "batch"} -> Int]
    BY TimesAssumption DEF Tick, Typed, Never
  <1> QED
    BY <1>1, <1>2, <1>3, <1>4, <1>5, <1>6, <1>7 DEF Tick, Typed

LEMMA ArriveTyped == ASSUME Typed, Arrive PROVE Typed'
  <1>1. PICK m \in Motions : /\ frame' = [motion |-> m, intent |-> "undecided", age |-> 0]
                             /\ owed' = Plus(owed, Times(Scale, m))
    BY DEF Arrive
  <1>2. m \in Vectors
    BY MotionsAssumption DEF Vectors, Axes
  <1>3. owed' \in Vectors
    BY <1>1, <1>2, VectorType, ScaleAssumption DEF Typed
  <1>4. frame' \in Frames
    BY <1>1, <1>2, TimesAssumption DEF Frames, Intents
  <1> QED
    BY <1>3, <1>4 DEF Arrive, Typed, guard, stages

LEMMA PressTyped == ASSUME Typed, Press \/ Publish PROVE Typed'
  <1>1. pressed' \in [have : BOOLEAN, since : Nat]
    <2>1. pressed \in [have : BOOLEAN, since : Nat]
      BY DEF Typed
    <2>2. pressed' = [pressed EXCEPT !.since = 0] \/ pressed' = [pressed EXCEPT !.have = TRUE]
      BY DEF Press, Publish
    <2>3. CASE pressed' = [pressed EXCEPT !.since = 0]
      BY <2>1, <2>3
    <2>4. CASE pressed' = [pressed EXCEPT !.have = TRUE]
      BY <2>1, <2>4
    <2> QED
      BY <2>2, <2>3, <2>4
  <1> QED
    BY <1>1 DEF Press, Publish, Typed, stages

LEMMA RetuneTyped == ASSUME Typed, Retune PROVE Typed'
  BY DEF Retune, Typed, guard, stages

LEMMA TypedKept == ASSUME Typed, [Next]_vars PROVE Typed'
  <1>1. CASE UNCHANGED vars
    BY <1>1 DEF Typed, vars, stages, guard
  <1> QED
    BY <1>1, PressTyped, ArriveTyped, GateTyped, IntentTyped, ConstrainTyped, QuantizeTyped,
       BatchTyped, NavigateTyped, FlushGateTyped, FlushHeldTyped, FlushBatchTyped, ResetTyped,
       RetuneTyped, TickTyped DEF Next

\* Every variable keeps its type.
THEOREM TypeInvariant == Spec => []Typed
  <1>1. Init => Typed
    BY InitTyped
  <1>2. Typed /\ [Next]_vars => Typed'
    BY TypedKept
  <1> QED
    BY <1>1, <1>2, PTL DEF Spec

--------------------------------------------------------------------------------
(* The evidence of the pending motion *)

LEMMA EvidenceKept ==
  ASSUME Typed, EvidenceIsPending, [Next]_vars
  PROVE  EvidenceIsPending'
  <1>1. CASE Gate
    <2> DEFINE e == Expired(gate.s, Elapsed(gate.sinceFrame), Elapsed(gate.sinceStart))
               g == Evidenced(Joined(e), e)
    <2>1. /\ gate.s \in Strategies /\ gate.sinceFrame \in Nat /\ gate.sinceStart \in Nat
          /\ frame.motion.x \in Int /\ frame.motion.y \in Int
      BY FrameFields DEF Typed, Gates, Vectors, Axes
    <2>2. e \in Strategies /\ (e = gate.s \/ e.samples = 0)
      BY <2>1, ElapsedType, ExpiredCases
    <2>3. \/ gate'.s = FreshGate /\ ~gate'.evidence /\ gate'.span = 0
          \/ gate'.s = gate.s /\ gate'.evidence = gate.evidence /\ gate'.span = gate.span
          \/ gate'.s.samples = 0 /\ ~gate'.evidence /\ gate'.span = 0
          \/ gate' = g
      BY <1>1, GateStep
    <2> HIDE DEF e
    <2>4. /\ g.evidence /\ g.span = e.samples + 1
          /\ g.s = Gathered(e, frame.motion.x, frame.motion.y)
      BY <2>2, GatheredGate
    <2>5. g.s.samples = e.samples + 1 /\ e.samples \in Nat
      BY <2>1, <2>2, <2>4, GatheredType DEF Strategies
    <2> HIDE DEF g
    <2>6. CASE gate' = g
      BY <2>4, <2>5, <2>6 DEF EvidenceIsPending, HasPending
    <2>7. CASE gate' # g
      BY <2>3, <2>7, FreshType DEF EvidenceIsPending, HasPending
    <2> QED
      BY <2>6, <2>7
  <1>2. CASE FlushGate
    <2> DEFINE e == Expired(gate.s, gate.sinceFrame, gate.sinceStart)
    <2>1. gate.s \in Strategies /\ gate.sinceFrame \in Nat /\ gate.sinceStart \in Nat
      BY DEF Typed, Gates
    <2>2. e = gate.s \/ e.samples = 0
      BY <2>1, ExpiredCases
    <2>3. gate'.s = e /\ (gate' = gate \/ (~gate'.evidence /\ gate'.span = 0 /\ e # gate.s))
      BY <1>2, FlushGateStep
    <2> HIDE DEF e
    <2> QED
      BY <2>2, <2>3 DEF EvidenceIsPending, HasPending
  <1>3. CASE Reset
    BY <1>3, FreshType DEF Reset, NewGate, EvidenceIsPending, HasPending
  <1>4. CASE Tick
    BY <1>4, TickGate DEF EvidenceIsPending
  <1>5. CASE gate' = gate
    BY <1>5 DEF EvidenceIsPending
  <1> QED
    BY <1>1, <1>2, <1>3, <1>4, <1>5
       DEF Next, vars, stages, Press, Publish, Arrive, Intent, Constrain, Quantize, Batch,
           Navigate, FlushHeld, FlushBatch, Retune

\* The gate's evidence of the motion it holds back is that of the frames the
\* strategy is holding (coherent_stage_process, observe_result).
THEOREM EvidenceIsPendingInvariant == Spec => []EvidenceIsPending
  <1>1. Init => EvidenceIsPending
    BY FreshType DEF Init, NewGate, EvidenceIsPending, HasPending
  <1>2. Typed /\ EvidenceIsPending /\ [Next]_vars => EvidenceIsPending'
    BY EvidenceKept
  <1> QED
    BY <1>1, <1>2, TypeInvariant, PTL DEF Spec

--------------------------------------------------------------------------------
(* Deadlines *)

\* What the gate holds back, it timed when it took it.
Paced ==
  /\ gate.s.active => ~HasPending(gate.s)
  /\ gate.s.active \/ HasPending(gate.s) => gate.s.have
  /\ gate.s.active => due.gate \in -MaxWait..GateIdleMs
  /\ HasPending(gate.s) => due.gate \in -MaxWait..QualificationMs

HoldTimed == held.have /\ promised # 0 => due.held \in -MaxWait..promised

BatchTimed ==
  /\ batch.armed <=> due.batch # Never
  /\ due.batch # Never => due.batch \in -MaxWait..BatchMs
  /\ batch.pending # Zero => batch.armed

Timed == Paced /\ HoldTimed /\ BatchTimed

\* A time found recent by the frame being handled was recent when it came.
LEMMA ElapsedRecent ==
  ASSUME Typed, NEW since \in Nat, NEW t \in 1..(Forever - MaxWait), Elapsed(since) < t
  PROVE  since - frame.age < t /\ since < t + MaxWait
  <1>1. frame.age \in 0..MaxWait /\ Forever \in Nat /\ MaxWait \in Nat
    BY FrameFields, TimesAssumption
  <1> QED
    BY <1>1 DEF Elapsed

LEMMA GateDueRange ==
  ASSUME NEW g \in Gates, g.sinceFrame <= GateIdleMs + MaxWait
  PROVE  /\ g.s.active => GateDue(g) \in -MaxWait..GateIdleMs
         /\ ~g.s.active /\ HasPending(g.s) /\ g.sinceStart <= QualificationMs + MaxWait
              => GateDue(g) \in -MaxWait..QualificationMs
  <1>1. /\ g.sinceFrame \in Nat /\ g.sinceStart \in Nat
        /\ GateIdleMs \in Nat /\ QualificationMs \in Nat /\ MaxWait \in Nat
    BY TimesAssumption DEF Gates
  <1> QED
    BY <1>1 DEF GateDue

LEMMA GateTimed ==
  ASSUME Typed, Paced, Gate
  PROVE  Paced'
  <1> DEFINE e == Expired(gate.s, Elapsed(gate.sinceFrame), Elapsed(gate.sinceStart))
             g == Evidenced(Joined(e), e)
  <1>1. /\ gate.s \in Strategies /\ gate.sinceFrame \in Nat /\ gate.sinceStart \in Nat
        /\ frame.motion.x \in Int /\ frame.motion.y \in Int /\ frame.age \in 0..MaxWait
        /\ Elapsed(gate.sinceFrame) \in Nat /\ Elapsed(gate.sinceStart) \in Nat
        /\ MaxWait \in Nat /\ GateIdleMs \in Nat /\ QualificationMs \in Nat
    BY FrameFields, ElapsedType, TimesAssumption DEF Typed, Gates, Vectors, Axes
  <1>2. /\ e \in Strategies
        /\ \/ e = gate.s /\ ~TimedOut(gate.s, Elapsed(gate.sinceStart))
           \/ ~e.active /\ e.samples = 0
        /\ e.active => e = gate.s
    BY <1>1, ExpiredCases
  <1>3. /\ gate' \in Gates
        /\ \/ gate'.s = FreshGate
           \/ e.active /\ gate'.s = gate.s /\ gate'.sinceFrame = frame.age
           \/ /\ gate'.s.active /\ gate'.s.have /\ gate'.s.samples = 0
              /\ gate'.sinceFrame = frame.age
           \/ ~e.active /\ gate' = g
    BY <1>1, GateStep
  <1>4. due'.gate = GateDue(gate')
    BY DEF Gate, Typed
  <1> HIDE DEF e
  <1>5. /\ g \in Gates /\ g.s = Gathered(e, frame.motion.x, frame.motion.y)
        /\ g.sinceFrame = frame.age
        /\ g.sinceStart = IF HasPending(e) THEN gate.sinceStart ELSE frame.age
    <2>1. e = gate.s \/ e.samples = 0
      BY <1>2
    <2> QED
      BY <1>2, <2>1, GatheredGate
  <1>6. /\ g.s.active = e.active /\ g.s.have /\ g.s.samples = e.samples + 1 /\ e.samples \in Nat
    BY <1>1, <1>2, <1>5, GatheredType DEF Strategies
  <1> HIDE DEF g
  <1>7. CASE gate'.s = FreshGate
    BY <1>7, FreshType DEF Paced
  <1>8. CASE e.active /\ gate'.s = gate.s /\ gate'.sinceFrame = frame.age
    <2>1. gate'.s.active /\ ~HasPending(gate'.s) /\ gate'.s.have
      BY <1>2, <1>8 DEF Paced
    <2>2. GateDue(gate') \in -MaxWait..GateIdleMs
      BY <1>1, <1>3, <1>8, <2>1, GateDueRange
    <2> QED
      BY <1>4, <2>1, <2>2 DEF Paced
  <1>9. CASE /\ gate'.s.active /\ gate'.s.have /\ gate'.s.samples = 0
             /\ gate'.sinceFrame = frame.age
    <2>1. GateDue(gate') \in -MaxWait..GateIdleMs
      BY <1>1, <1>3, <1>9, GateDueRange
    <2> QED
      BY <1>4, <1>9, <2>1 DEF Paced, HasPending
  <1>10. CASE ~e.active /\ gate' = g
    <2>1. g.sinceStart <= QualificationMs + MaxWait
      <3>1. CASE HasPending(e)
        <4>1. e = gate.s /\ ~TimedOut(gate.s, Elapsed(gate.sinceStart))
          BY <1>2, <3>1 DEF HasPending
        <4>2. Elapsed(gate.sinceStart) < QualificationMs
          BY <1>1, <1>10, <3>1, <4>1 DEF TimedOut
        <4>3. QualificationMs \in 1..(Forever - MaxWait)
          BY TimesAssumption
        <4>4. gate.sinceStart < QualificationMs + MaxWait
          BY <1>1, <4>2, <4>3, ElapsedRecent
        <4> QED
          BY <1>1, <1>5, <3>1, <4>4
      <3>2. CASE ~HasPending(e)
        BY <1>1, <1>5, <3>2
      <3> QED
        BY <3>1, <3>2
    <2>2. ~g.s.active /\ HasPending(g.s) /\ g.s.have
      BY <1>6, <1>10 DEF HasPending
    <2>3. GateDue(g) \in -MaxWait..QualificationMs
      BY <1>1, <1>5, <2>1, <2>2, GateDueRange
    <2> QED
      BY <1>4, <1>10, <2>2, <2>3 DEF Paced
  <1> QED
    BY <1>3, <1>7, <1>8, <1>9, <1>10

LEMMA FlushGateTimed ==
  ASSUME Typed, Paced, FlushGate
  PROVE  Paced'
  <1> DEFINE e == Expired(gate.s, gate.sinceFrame, gate.sinceStart)
  <1>1. /\ gate \in Gates /\ gate.s \in Strategies
        /\ gate.sinceFrame \in Nat /\ gate.sinceStart \in Nat
        /\ MaxWait \in Nat /\ GateIdleMs \in Nat /\ QualificationMs \in Nat
    BY TimesAssumption DEF Typed, Gates
  <1>2. \/ e = gate.s /\ ~Idled(gate.s, gate.sinceFrame) /\ ~TimedOut(gate.s, gate.sinceStart)
        \/ ~e.active /\ e.samples = 0
    BY <1>1, ExpiredCases
  <1>3. gate'.s = e /\ (gate' = gate \/ e # gate.s)
    BY FlushGateStep
  <1>4. due'.gate = GateDue(gate')
    BY DEF FlushGate, Typed
  <1> HIDE DEF e
  <1>5. CASE ~e.active /\ e.samples = 0
    BY <1>3, <1>5 DEF Paced, HasPending
  <1>6. CASE e = gate.s /\ ~Idled(gate.s, gate.sinceFrame) /\ ~TimedOut(gate.s, gate.sinceStart)
    <2>1. gate' = gate
      BY <1>3, <1>6
    <2>2. /\ gate.s.active \/ HasPending(gate.s) => gate.sinceFrame <= GateIdleMs + MaxWait
          /\ HasPending(gate.s) => ~gate.s.active /\ gate.sinceStart <= QualificationMs + MaxWait
      BY <1>1, <1>6 DEF Paced, Idled, TimedOut
    <2>3. /\ gate.s.active => GateDue(gate) \in -MaxWait..GateIdleMs
          /\ HasPending(gate.s) => GateDue(gate) \in -MaxWait..QualificationMs
      BY <1>1, <2>2, GateDueRange
    <2> QED
      BY <1>4, <2>1, <2>3 DEF Paced
  <1> QED
    BY <1>2, <1>5, <1>6

LEMMA PacedKept ==
  ASSUME Typed, Paced, [Next]_vars
  PROVE  Paced'
  <1>1. CASE Reset
    BY <1>1, FreshType DEF Reset, NewGate, Paced
  <1>2. CASE Tick
    <2>1. gate'.s = gate.s
      BY <1>2, TickGate
    <2>2. due.gate # Never => due.gate > -MaxWait
      BY <1>2 DEF Tick, Typed
    <2>3. due'.gate = IF due.gate = Never THEN Never ELSE due.gate - 1
      BY <1>2 DEF Tick, Typed
    <2>4. due.gate \in Int /\ MaxWait \in Nat /\ GateIdleMs \in Nat /\ QualificationMs \in Nat
      BY TimesAssumption DEF Typed
    <2>5. ASSUME NEW n \in Nat, due.gate \in -MaxWait..n
          PROVE  due'.gate \in -MaxWait..n
      BY <2>2, <2>3, <2>4, <2>5 DEF Never
    <2> QED
      BY <2>1, <2>4, <2>5 DEF Paced
  <1>3. CASE gate' = gate /\ due'.gate = due.gate
    BY <1>3 DEF Paced
  <1>4. \A d : /\ [due EXCEPT !.held = d].gate = due.gate
               /\ [due EXCEPT !.batch = d].gate = due.gate
    BY DEF Typed
  <1>5. CASE FlushHeld
    <2>1. gate' = gate
      BY <1>5 DEF FlushHeld
    <2>2. PICK d, f :
            due' = [due EXCEPT !.held = d] \/ due' = [due EXCEPT !.held = d, !.batch = f]
      BY <1>5, FlushHeldStep
    <2>3. due'.gate = due.gate
      BY <2>2 DEF Typed
    <2> QED
      BY <1>3, <2>1, <2>3
  <1>6. CASE Constrain
    <2>1. gate' = gate
      BY <1>6 DEF Constrain
    <2>2. due' = due \/ \E d : due' = [due EXCEPT !.held = d]
      BY <1>6, ConstrainStep DEF Constrained, Decided
    <2> QED
      BY <1>3, <1>4, <2>1, <2>2
  <1> QED
    BY <1>1, <1>2, <1>3, <1>4, <1>5, <1>6, GateTimed, FlushGateTimed
       DEF Next, vars, stages, Press, Publish, Arrive, Intent, Quantize, Batch, Navigate,
           FlushBatch, Retune

LEMMA HoldTimedKept ==
  ASSUME Typed, HoldTimed, [Next]_vars
  PROVE  HoldTimed'
  <1>1. CASE Constrain
    <2>1. PICK h \in Holds : Constrained(h)
      BY <1>1, ConstrainStep
    <2>2. h.have => held.have
      BY <2>1 DEF Constrained
    <2>3. CASE promised' = 0
      BY <2>3 DEF HoldTimed
    <2>4. CASE /\ due' = [due EXCEPT !.held = FoldDue(TRUE)]
               /\ IF Interval # 0 THEN promised' = Interval
                  ELSE promised' = 0 \/ (h.have /\ promised' = promised)
      <3>1. frame.age \in 0..MaxWait /\ MaxWait \in Nat
        BY FrameFields, TimesAssumption
      <3>2. due'.held = FoldDue(TRUE)
        BY <2>4 DEF Typed
      <3>3. CASE Interval # 0
        <4>1. Interval \in Nat /\ due'.held = Interval - frame.age /\ promised' = Interval
          BY <2>4, <3>2, <3>3, FoldDueType
        <4>2. due'.held \in -MaxWait..promised'
          BY <3>1, <4>1
        <4> QED
          BY <4>2 DEF HoldTimed
      <3>4. CASE Interval = 0
        <4>1. due'.held = due.held
          BY <3>2, <3>4, FoldDueType
        <4> QED
          BY <2>2, <2>4, <3>4, <4>1 DEF HoldTimed
      <3> QED
        BY <3>3, <3>4
    <2>5. ASSUME NEW folds \in BOOLEAN, NEW i \in Intents, Decided(h, folds, i)
          PROVE  HoldTimed'
      <3>1. ~folds => due'.held = due.held
        BY <2>5 DEF Decided, Typed
      <3>2. promised' # 0 => ~folds /\ held.have /\ promised' = promised
        BY <2>2, <2>5 DEF Decided
      <3> QED
        BY <3>1, <3>2 DEF HoldTimed
    <2> QED
      BY <2>1, <2>3, <2>4, <2>5 DEF Constrained
  <1>2. CASE FlushHeld
    BY <1>2, FlushHeldStep DEF HoldTimed
  <1>3. CASE Reset
    BY <1>3 DEF Reset, NewHeld, HoldTimed
  <1>4. CASE Tick
    <2>1. held'.have = held.have /\ promised' = promised
      BY <1>4 DEF Tick, Typed, Holds
    <2>2. due.held # Never => due.held > -MaxWait
      BY <1>4 DEF Tick, Typed
    <2>3. due'.held = IF due.held = Never THEN Never ELSE due.held - 1
      BY <1>4 DEF Tick, Typed
    <2>4. due.held \in Int /\ MaxWait \in Nat /\ promised \in Nat
      BY TimesAssumption DEF Typed
    <2> QED
      BY <2>1, <2>2, <2>3, <2>4 DEF HoldTimed, Never
  <1>5. CASE held' = held /\ due'.held = due.held /\ promised' = promised
    BY <1>5 DEF HoldTimed
  <1>6. \A d : /\ [due EXCEPT !.gate = d].held = due.held
               /\ [due EXCEPT !.batch = d].held = due.held
    BY DEF Typed
  <1> QED
    BY <1>1, <1>2, <1>3, <1>4, <1>5, <1>6
       DEF Next, vars, stages, Press, Publish, Arrive, Gate, Intent, Quantize, Batch, Navigate,
           FlushGate, FlushBatch, Retune

\* The batch's deadline after scroll_batcher_stage_process.
LEMMA BatchedTimed ==
  ASSUME Typed, BatchTimed, NEW v \in Vectors, NEW since \in 0..MaxWait,
         NEW suppressed \in BOOLEAN,
         batch' = Batched(v, suppressed), due'.batch = BatchDue(since, suppressed)
  PROVE  BatchTimed'
  <1>1. /\ batch'.armed = (batch.armed \/ ~suppressed)
        /\ batch'.pending = IF suppressed THEN Zero ELSE Plus(batch.pending, v)
    BY BatchedType
  <1>2. batch.armed \in BOOLEAN /\ due.batch \in Int /\ BatchMs \in Nat \ {0} /\ MaxWait \in Nat
        /\ since \in Int
    BY TimesAssumption DEF Typed, Batches
  <1>3. CASE suppressed \/ batch.armed
    <2>1. due'.batch = due.batch /\ batch'.armed = batch.armed
      BY <1>1, <1>2, <1>3 DEF BatchDue
    <2>2. batch'.pending # Zero => batch.armed
      BY <1>1, <1>3
    <2> QED
      BY <2>1, <2>2 DEF BatchTimed
  <1>4. CASE ~suppressed /\ ~batch.armed
    <2>1. due'.batch = BatchMs - since /\ batch'.armed
      BY <1>1, <1>4 DEF BatchDue
    <2>2. BatchMs - since \in -MaxWait..BatchMs /\ BatchMs - since # Never
      BY <1>2 DEF Never
    <2> QED
      BY <2>1, <2>2 DEF BatchTimed
  <1> QED
    BY <1>3, <1>4

LEMMA BatchTimedKept ==
  ASSUME Typed, BatchTimed, [Next]_vars
  PROVE  BatchTimed'
  <1>1. CASE Batch
    <2>1. batch' = Batched(frame.motion, Suppressed) /\ due'.batch = BatchDue(frame.age, Suppressed)
      BY <1>1 DEF Batch, Typed
    <2>2. frame.motion \in Vectors /\ frame.age \in 0..MaxWait /\ Suppressed \in BOOLEAN
      BY FrameFields DEF Suppressed, Typed
    <2> QED
      BY <2>1, <2>2, BatchedTimed
  <1>2. CASE FlushHeld
    <2>1. PICK suppressed \in BOOLEAN :
            \/ batch' = Batched(held.sum, suppressed)
               /\ due' = [due EXCEPT !.held = Never, !.batch = BatchDue(0, suppressed)]
            \/ batch' = batch /\ due' = [due EXCEPT !.held = Never]
      BY <1>2, FlushHeldStep
    <2>2. CASE batch' = Batched(held.sum, suppressed)
               /\ due' = [due EXCEPT !.held = Never, !.batch = BatchDue(0, suppressed)]
      <3>1. due'.batch = BatchDue(0, suppressed)
        BY <2>2 DEF Typed
      <3>2. held.sum \in Vectors /\ 0 \in 0..MaxWait
        BY TimesAssumption DEF Typed, Holds
      <3> QED
        BY <2>2, <3>1, <3>2, BatchedTimed
    <2>3. CASE batch' = batch /\ due' = [due EXCEPT !.held = Never]
      BY <2>3 DEF Typed, BatchTimed
    <2> QED
      BY <2>1, <2>2, <2>3
  <1>3. CASE FlushBatch
    <2>1. due'.batch = Never /\ batch'.pending = Zero /\ ~batch'.armed
      BY <1>3 DEF FlushBatch, Typed
    <2> QED
      BY <2>1 DEF BatchTimed
  <1>4. CASE Reset
    BY <1>4 DEF Reset, NewBatch, NoneDue, BatchTimed
  <1>5. CASE Tick
    <2>1. batch' = batch
      BY <1>5 DEF Tick
    <2>2. due.batch # Never => due.batch > -MaxWait
      BY <1>5 DEF Tick, Typed
    <2>3. due'.batch = IF due.batch = Never THEN Never ELSE due.batch - 1
      BY <1>5 DEF Tick, Typed
    <2>4. due.batch \in Int /\ MaxWait \in Nat /\ BatchMs \in Nat
      BY TimesAssumption DEF Typed
    <2>5. /\ due'.batch # Never <=> due.batch # Never
          /\ due'.batch # Never /\ due.batch \in -MaxWait..BatchMs => due'.batch \in -MaxWait..BatchMs
      BY <2>2, <2>3, <2>4 DEF Never
    <2> QED
      BY <2>1, <2>5 DEF BatchTimed
  <1>6. CASE Quantize
    <2>1. batch'.armed = batch.armed /\ batch'.pending = batch.pending /\ due' = due
      BY <1>6 DEF Quantize, Typed, Batches
    <2> QED
      BY <2>1 DEF BatchTimed
  <1>7. CASE batch' = batch /\ due'.batch = due.batch
    BY <1>7 DEF BatchTimed
  <1>8. \A d : /\ [due EXCEPT !.gate = d].batch = due.batch
               /\ [due EXCEPT !.held = d].batch = due.batch
    BY DEF Typed
  <1>9. CASE Constrain
    <2>1. batch' = batch
      BY <1>9 DEF Constrain
    <2>2. PICK d : due' = due \/ due' = [due EXCEPT !.held = d]
      BY <1>9, ConstrainStep DEF Constrained, Decided
    <2>3. due'.batch = due.batch
      BY <2>2, <1>8
    <2> QED
      BY <1>7, <2>1, <2>3
  <1> QED
    BY <1>1, <1>2, <1>3, <1>4, <1>5, <1>6, <1>7, <1>8, <1>9
       DEF Next, vars, stages, Press, Publish, Arrive, Gate, Intent, Navigate, FlushGate,
           Retune

\* Nothing is held back without a deadline at most one interval away: the gate's
\* motion and its opening, the undecided motion, the batch of steps.  What the axis
\* constraint may be tuned to, the settings that give undecided motion no interval
\* among them, is any set of settings; motion that came under such settings alone
\* is promised nothing (schedule_undecided_expiry).
THEOREM HeldIsTimedInvariant == Spec => []HeldIsTimed
  <1>1. Init => Timed
    BY FreshType DEF Init, NewGate, NewHeld, NewBatch, NoneDue, Timed, Paced, HoldTimed, BatchTimed
  <1>2. Typed /\ Timed /\ [Next]_vars => Timed'
    BY PacedKept, HoldTimedKept, BatchTimedKept DEF Timed
  <1>3. Timed => HeldIsTimed
    BY DEF Timed, Paced, HoldTimed, BatchTimed, HeldIsTimed
  <1> QED
    BY <1>1, <1>2, <1>3, TypeInvariant, PTL DEF Spec

--------------------------------------------------------------------------------
(* One verdict per frame *)

\* What each chain can hold, and what the later stages still have to see while
\* the verdict of the first is out: a suppressed frame stays suppressed until it
\* is through, and what the stages it has passed held is gone.
Judged ==
  /\ chain = "cursor" => ~held.have /\ batch.pending = Zero
  /\ chain # "cursor" => ~HasPending(gate.s) /\ ~gate.s.active
  /\ chain # "scroll" => batch.pending = Zero
  /\ ~held.have => held.sum = Zero
  /\ at = "second" => chain # "cursor"
  /\ verdict /\ at = "tail" => chain # "cursor"
  /\ verdict /\ at \in {"second", "tail"} => Suppressed
  /\ verdict /\ at \in {"none", "tail"} => ~held.have
  /\ verdict /\ at = "none" =>
       batch.pending = Zero /\ ~HasPending(gate.s) /\ ~gate.s.active

\* While a frame is being handled no key leaves, and time does not undo, what
\* suppressed it.
LEMMA SuppressedKept ==
  ASSUME Prompt, Typed, Suppressed, at # "none", [Next]_vars,
         frame'.age = frame.age \/ Tick
  PROVE  Suppressed'
  <1>1. /\ frame.age \in 0..MaxWait /\ Forever \in Nat /\ MaxWait \in Nat
        /\ pressed.since \in Nat /\ SuppressMs \in 1..(Forever - MaxWait)
        /\ pressed \in [have : BOOLEAN, since : Nat]
    BY FrameFields, TimesAssumption DEF Typed
  <1>2. CASE Press
    <2>1. frame.age = 0 /\ pressed' = [pressed EXCEPT !.since = 0] /\ frame' = frame
      BY <1>2 DEF Press
    <2>2. pressed'.have = pressed.have /\ pressed'.since = 0 /\ frame'.age = 0
      BY <1>1, <2>1
    <2> QED
      BY <1>1, <2>2 DEF Suppressed, Elapsed
  <1>3. CASE Publish
    <2>1. pressed'.have /\ pressed'.since = pressed.since /\ frame'.age = frame.age
      BY <1>1, <1>3 DEF Publish
    <2> QED
      BY <1>1, <2>1 DEF Suppressed, Elapsed
  <1>4. CASE Tick
    <2>1. frame' = [frame EXCEPT !.age = @ + 1] /\ pressed' = [pressed EXCEPT !.since = Older(@)]
          /\ frame.age < MaxWait
      BY <1>4 DEF Tick
    <2>2. pressed'.have = pressed.have /\ pressed'.since = Older(pressed.since)
          /\ frame'.age = frame.age + 1
      BY <1>1, <2>1 DEF Typed, Frames
    <2> QED
      BY <1>1, <2>1, <2>2 DEF Suppressed, Elapsed, Older
  <1>5. CASE pressed' = pressed /\ frame'.age = frame.age
    BY <1>5 DEF Suppressed, Elapsed
  <1> QED
    BY <1>2, <1>3, <1>4, <1>5
       DEF Next, vars, guard, stages, Arrive, Gate, Intent, Constrain, Quantize, Batch, Navigate,
           FlushGate, FlushHeld, FlushBatch, Reset, Retune

LEMMA JudgedKept ==
  ASSUME Prompt, Typed, Judged, [Next]_vars
  PROVE  Judged'
  <1>1. CASE Press \/ Publish
    <2>1. /\ UNCHANGED <<chain, at, frame, gate, held, batch, verdict>>
      BY <1>1 DEF Press, Publish, stages
    <2>2. at # "none" /\ Suppressed => Suppressed'
      BY <2>1, SuppressedKept
    <2> QED
      BY <2>1, <2>2 DEF Judged
  <1>2. CASE Arrive
    BY <1>2 DEF Arrive, stages, Judged
  <1>3. CASE Gate
    <2>1. chain = "cursor" /\ verdict' = Suppressed /\ UNCHANGED <<chain, held, batch>>
      BY <1>3 DEF Gate
    <2>2. \/ Suppressed /\ gate'.s = FreshGate /\ Swallow
          \/ ~Suppressed /\ \E m : Emit("tail", m)
          \/ ~Suppressed /\ Swallow
      BY <1>3, GateStep
    <2>3. at' = "tail" \/ at' = "none"
      BY <2>2 DEF Emit, Swallow
    <2>4. verdict' => at' = "none" /\ gate'.s = FreshGate
      BY <2>1, <2>2 DEF Swallow
    <2> QED
      BY <2>1, <2>3, <2>4, FreshType DEF Judged
  <1>4. CASE Intent
    <2>1. /\ chain # "cursor" /\ verdict' = Suppressed /\ at' = "second"
          /\ UNCHANGED <<chain, gate, held, batch, pressed>>
      BY <1>4 DEF Intent, Emit, guard
    <2>2. frame'.age = frame.age
      BY <1>4 DEF Intent, Emit, Typed, Frames
    <2>3. Suppressed' = Suppressed
      BY <2>1, <2>2 DEF Suppressed, Elapsed
    <2> QED
      BY <2>1, <2>3 DEF Judged
  <1>5. CASE Constrain
    <2>1. /\ at = "second" /\ UNCHANGED <<chain, gate, batch, pressed, verdict>>
      BY <1>5 DEF Constrain, guard
    <2>2. PICK h \in Holds :
            /\ \/ h.sum = held.sum /\ h.have = held.have
               \/ h.sum = Zero /\ ~h.have
            /\ \/ Suppressed /\ held' = Released(held)
               \/ ~Suppressed /\ held'.have
               \/ /\ ~Suppressed
                  /\ \E folds \in BOOLEAN : /\ folds => h.have
                                            /\ held'.sum = IF folds THEN Zero ELSE h.sum
                                            /\ held'.have = (~folds /\ h.have)
            /\ \E m : Emit("tail", m)
      BY <1>5, ConstrainStep DEF Constrained, Decided
    <2>3. at' = "tail"
      BY <2>2 DEF Emit
    <2>4. frame'.age = frame.age
      BY <2>2 DEF Emit, Typed, Frames
    <2>5. Suppressed' = Suppressed
      BY <2>1, <2>4 DEF Suppressed, Elapsed
    <2>6. Suppressed => ~held'.have
      BY <2>2, ReleasedType DEF Typed
    <2>7. ~held'.have => held'.sum = Zero
      <3>1. ~h.have => h.sum = Zero
        BY <2>2 DEF Judged
      <3>2. CASE held' = Released(held)
        BY <3>2, ReleasedType DEF Typed
      <3>3. ASSUME NEW folds \in BOOLEAN, held'.sum = IF folds THEN Zero ELSE h.sum,
                   held'.have = (~folds /\ h.have)
            PROVE  ~held'.have => held'.sum = Zero
        BY <3>1, <3>3 DEF Holds
      <3> QED
        BY <2>2, <3>2, <3>3
    <2> QED
      BY <2>1, <2>3, <2>5, <2>6, <2>7 DEF Judged
  <1>6. CASE Quantize
    <2>1. /\ chain = "cursor" /\ at = "tail" /\ at' = "none"
          /\ UNCHANGED <<chain, gate, held, verdict>>
      BY <1>6 DEF Quantize, Swallow
    <2>2. batch'.pending = batch.pending
      BY <1>6 DEF Quantize, Typed, Batches
    <2> QED
      BY <2>1, <2>2 DEF Judged
  <1>7. CASE Batch
    <2>1. /\ chain = "scroll" /\ at = "tail" /\ at' = "none"
          /\ batch' = Batched(frame.motion, Suppressed)
          /\ UNCHANGED <<chain, gate, held, verdict>>
      BY <1>7 DEF Batch, Swallow
    <2>2. Suppressed => batch'.pending = Zero
      BY <2>1, BatchedType, FrameFields DEF Suppressed, Typed
    <2> QED
      BY <2>1, <2>2 DEF Judged
  <1>8. CASE Navigate
    <2>1. /\ chain = "text" /\ at = "tail" /\ at' = "none"
          /\ UNCHANGED <<chain, gate, held, batch, verdict>>
      BY <1>8 DEF Navigate, Swallow
    <2> QED
      BY <2>1 DEF Judged
  <1>9. CASE FlushGate
    <2> DEFINE e == Expired(gate.s, gate.sinceFrame, gate.sinceStart)
    <2>1. /\ at \in {"none", "waiting"} /\ UNCHANGED <<chain, at, held, batch, verdict>>
      BY <1>9 DEF FlushGate, Unlocked
    <2>2. gate.s \in Strategies /\ gate.sinceFrame \in Nat /\ gate.sinceStart \in Nat
      BY DEF Typed, Gates
    <2>3. e = gate.s \/ (~e.active /\ e.samples = 0)
      BY <2>2, ExpiredCases
    <2>4. gate'.s = e
      BY <1>9, FlushGateStep
    <2> HIDE DEF e
    <2>5. gate'.s = gate.s \/ (~gate'.s.active /\ ~HasPending(gate'.s))
      BY <2>3, <2>4 DEF HasPending
    <2> QED
      BY <2>1, <2>5 DEF Judged
  <1>10. CASE FlushHeld
    <2>1. /\ at \in {"none", "waiting"} /\ UNCHANGED <<chain, at, gate, verdict>>
      BY <1>10 DEF FlushHeld, Unlocked
    <2>2. /\ held'.sum = Zero /\ ~held'.have
          /\ (held.have /\ chain = "scroll") \/ batch' = batch
      BY <1>10, FlushHeldStep
    <2> QED
      BY <2>1, <2>2 DEF Judged
  <1>11. CASE FlushBatch
    <2>1. /\ at \in {"none", "waiting"} /\ UNCHANGED <<chain, at, gate, held, verdict>>
          /\ batch'.pending = Zero
      BY <1>11 DEF FlushBatch, Unlocked
    <2> QED
      BY <2>1 DEF Judged
  <1>12. CASE Reset
    <2>1. /\ at = "none" /\ UNCHANGED <<chain, at, verdict>>
          /\ gate'.s = FreshGate /\ ~held'.have /\ held'.sum = Zero /\ batch'.pending = Zero
      BY <1>12 DEF Reset, NewGate, NewHeld, NewBatch
    <2> QED
      BY <2>1, FreshType DEF Judged
  <1>13. CASE Tick
    <2>1. UNCHANGED <<chain, at, batch, verdict>>
      BY <1>13 DEF Tick
    <2>2. gate'.s = gate.s
      BY <1>13, TickGate
    <2>3. held'.have = held.have /\ held'.sum = held.sum
      BY <1>13 DEF Tick, Typed, Holds
    <2>4. at # "none" /\ Suppressed => Suppressed'
      BY <1>13, SuppressedKept
    <2> QED
      BY <2>1, <2>2, <2>3, <2>4 DEF Judged
  <1>14. CASE Retune
    BY <1>14 DEF Retune, guard, stages, Judged, Suppressed, Elapsed
  <1>15. CASE UNCHANGED vars
    BY <1>15 DEF vars, guard, stages, Judged, Suppressed, Elapsed
  <1> QED
    BY <1>1, <1>2, <1>3, <1>4, <1>5, <1>6, <1>7, <1>8, <1>9, <1>10, <1>11, <1>12, <1>13, <1>14,
       <1>15
       DEF Next

\* A frame the chain's first stage suppresses leaves nothing behind that was
\* taken in before the key was pressed: where no key is pressed after the stamp
\* of a frame that is on its way, the later stages come to the same verdict
\* (axis_intent_stage.c's comment).
THEOREM SharedVerdictInvariant == ASSUME Prompt PROVE Spec => []SharedVerdict
  <1>1. Init => Judged
    BY FreshType DEF Init, NewGate, NewHeld, NewBatch, Judged
  <1>2. Typed /\ Judged /\ [Next]_vars => Judged'
    BY JudgedKept
  <1>3. Judged => SharedVerdict
    BY DEF Judged, SharedVerdict
  <1> QED
    BY <1>1, <1>2, <1>3, TypeInvariant, PTL DEF Spec

--------------------------------------------------------------------------------
(* Motion leaves a chain once *)

\* The motion v on an axis, in fixed-point steps.
Steps(v, a) == Scale * v[a]

LEMMA StepsSum ==
  ASSUME NEW a \in Axes, NEW u \in Vectors, NEW v \in Vectors, NEW w \in Vectors
  PROVE  /\ Steps(u, a) \in Int
         /\ w[a] = u[a] + v[a] => Steps(w, a) = Steps(u, a) + Steps(v, a)
         /\ w[a] = u[a] - v[a] => Steps(w, a) = Steps(u, a) - Steps(v, a)
         /\ w[a] = u[a] => Steps(w, a) = Steps(u, a)
         /\ w[a] = 0 => Steps(w, a) = 0
  <1>1. u[a] \in Int /\ v[a] \in Int /\ w[a] \in Int /\ Scale \in Int
    BY ScaleAssumption DEF Vectors
  <1>2. \A k, p, q \in Int : k * (p + q) = k * p + k * q /\ k * (p - q) = k * p - k * q /\ k * 0 = 0
    OBVIOUS
  <1>3. Steps(u, a) \in Int
    BY <1>1 DEF Steps
  <1> QED
    BY <1>1, <1>2, <1>3 DEF Steps

LEMMA VectorAt ==
  ASSUME NEW a \in Axes, NEW u \in Vectors, NEW v \in Vectors, NEW k \in Int
  PROVE  /\ u[a] \in Int
         /\ Plus(u, v)[a] = u[a] + v[a] /\ Minus(u, v)[a] = u[a] - v[a]
         /\ Times(k, v)[a] = k * v[a] /\ Times(Scale, v)[a] = Steps(v, a)
         /\ Zero[a] = 0
  BY DEF Vectors, Plus, Minus, Times, Zero, Steps

LEMMA PlusAt ==
  ASSUME NEW a \in Axes, NEW u \in Vectors, NEW v \in Vectors
  PROVE  /\ Plus(u, v) \in Vectors /\ Plus(u, v)[a] = u[a] + v[a]
         /\ Minus(u, v) \in Vectors /\ Minus(u, v)[a] = u[a] - v[a]
         /\ u[a] \in Int /\ v[a] \in Int
  BY DEF Vectors, Plus, Minus

LEMMA StepsAt ==
  ASSUME NEW a \in Axes, NEW u \in Vectors, NEW v \in Vectors
  PROVE  /\ Steps(Plus(u, v), a) = Steps(u, a) + Steps(v, a)
         /\ Steps(Minus(u, v), a) = Steps(u, a) - Steps(v, a)
         /\ Steps(Zero, a) = 0 /\ Steps(u, a) \in Int
         /\ Times(Scale, u)[a] = Steps(u, a)
  <1>1. Plus(u, v) \in Vectors /\ Minus(u, v) \in Vectors /\ Zero \in Vectors
    BY VectorType, 0 \in Int
  <1>2. Plus(u, v)[a] = u[a] + v[a] /\ Minus(u, v)[a] = u[a] - v[a] /\ Zero[a] = 0
    BY VectorAt, 0 \in Int
  <1>3. Times(Scale, u)[a] = Steps(u, a)
    BY DEF Times, Steps
  <1> QED
    BY <1>1, <1>2, <1>3, StepsSum

LEMMA ScaledAt ==
  ASSUME NEW a \in Axes, NEW u \in Vectors, NEW o \in Vectors
  PROVE  /\ Times(Scale, u) \in Vectors /\ Times(Scale, u)[a] = Steps(u, a)
         /\ Minus(o, Times(Scale, u))[a] = o[a] - Steps(u, a)
         /\ Steps(u, a) \in Int
  <1>1. Scale \in Int
    BY ScaleAssumption
  <1>2. Times(Scale, u) \in Vectors
    BY <1>1, VectorType
  <1>3. Times(Scale, u)[a] = Steps(u, a) /\ Steps(u, a) \in Int
    BY StepsAt
  <1>4. Minus(o, Times(Scale, u))[a] = o[a] - Times(Scale, u)[a]
    BY <1>2, VectorAt, 0 \in Int
  <1> QED
    BY <1>2, <1>3, <1>4

\* One axis of the balance: o is owed for a frame of m, q in the gate, h held,
\* b in the batch, and the fractions r and n.
Balanced(a, o, m, q, h, b, r, n) ==
  o[a] = Steps(m, a) + Steps(q, a) + Steps(h, a) + Steps(b, a) + r[a] + n[a]

LEMMA BalanceIsOwed ==
  ASSUME NEW o \in Vectors, NEW m \in Vectors, NEW q \in Vectors, NEW h \in Vectors,
         NEW b \in Vectors, NEW r \in Vectors, NEW n \in Vectors
  PROVE  (o = Plus(Times(Scale, Plus(m, Plus(q, Plus(h, b)))), Plus(r, n)))
           <=> \A a \in Axes : Balanced(a, o, m, q, h, b, r, n)
  <1> DEFINE hb == Plus(h, b)
             qhb == Plus(q, hb)
             all == Plus(m, qhb)
             rn == Plus(r, n)
             total == Plus(Times(Scale, all), rn)
  <1>1. hb \in Vectors /\ qhb \in Vectors /\ all \in Vectors /\ rn \in Vectors
    BY VectorType, 0 \in Int
  <1>2. Times(Scale, all) \in Vectors /\ total \in Vectors
    BY <1>1, VectorType, ScaleAssumption
  <1>3. ASSUME NEW a \in Axes
        PROVE  total[a] = Steps(m, a) + Steps(q, a) + Steps(h, a) + Steps(b, a) + r[a] + n[a]
    <2>1. /\ Steps(hb, a) = Steps(h, a) + Steps(b, a)
          /\ Steps(h, a) \in Int /\ Steps(b, a) \in Int
      BY StepsAt
    <2>2. Steps(qhb, a) = Steps(q, a) + Steps(hb, a) /\ Steps(q, a) \in Int
      BY <1>1, StepsAt
    <2>3. Steps(all, a) = Steps(m, a) + Steps(qhb, a) /\ Steps(m, a) \in Int
      BY <1>1, StepsAt
    <2>4. rn[a] = r[a] + n[a] /\ r[a] \in Int /\ n[a] \in Int
      BY VectorAt, 0 \in Int
    <2>5. total[a] = Times(Scale, all)[a] + rn[a]
      BY <1>1, <1>2, VectorAt, 0 \in Int
    <2>6. Times(Scale, all)[a] = Steps(all, a)
      BY <1>1, StepsAt
    <2> HIDE DEF hb, qhb, all, rn, total
    <2> QED
      BY <2>1, <2>2, <2>3, <2>4, <2>5, <2>6
  <1>4. (o = total) <=> \A a \in Axes : o[a] = total[a]
    <2> HIDE DEF total
    <2> QED
      BY <1>2 DEF Vectors
  <1> HIDE DEF total
  <1>5. (o = total) <=> \A a \in Axes : Balanced(a, o, m, q, h, b, r, n)
    BY <1>3, <1>4 DEF Balanced
  <1> QED
    BY <1>5 DEF total

\* The balance as it stands.
Balance ==
  \A a \in Axes : Balanced(a, owed, frame.motion, Qualified(gate), held.sum, batch.pending,
                           batch.rest, nav.sum)

LEMMA StateVectors ==
  ASSUME Typed
  PROVE  /\ owed \in Vectors /\ frame.motion \in Vectors /\ Qualified(gate) \in Vectors
         /\ held.sum \in Vectors /\ batch.pending \in Vectors /\ batch.rest \in Vectors
         /\ nav.sum \in Vectors
         /\ gate.s \in Strategies /\ Zero \in Vectors
  BY QualifiedType, FrameFields DEF Typed, Gates, Holds, Batches, Navs, Zero, Vectors

LEMMA OwedIsBalance == Typed => (MotionOwed <=> Balance)
  <1> SUFFICES ASSUME Typed PROVE MotionOwed <=> Balance
    OBVIOUS
  <1> QED
    BY StateVectors, BalanceIsOwed DEF MotionOwed, Balance

\* What the strategy s has pending, on one axis.
LEMMA QualifiedAt ==
  ASSUME NEW g \in Gates, NEW a \in Axes
  PROVE  Qualified(g)[a] = IF a = "x" THEN g.s.x ELSE g.s.y
  BY DEF Qualified, Axes

LEMMA GateBalance == ASSUME Typed, Typed', Balance, Gate PROVE Balance'
  <1> DEFINE e == Expired(gate.s, Elapsed(gate.sinceFrame), Elapsed(gate.sinceStart))
             g == Evidenced(Joined(e), e)
             expired == IF e # gate.s THEN Times(Scale, [x |-> gate.s.x, y |-> gate.s.y]) ELSE Zero
             q == Qualified(gate)
  <1>1. /\ gate \in Gates /\ gate.s \in Strategies /\ gate.sinceFrame \in Nat /\ gate.sinceStart \in Nat
        /\ frame.motion.x \in Int /\ frame.motion.y \in Int
        /\ frame.motion \in Vectors /\ q \in Vectors /\ owed \in Vectors /\ Zero \in Vectors
    BY StateVectors, FrameFields DEF Typed, Gates, Vectors, Axes
  <1>2. /\ e \in Strategies
        /\ e = gate.s \/ (e.samples = 0 /\ e.x = 0 /\ e.y = 0)
        /\ e.active => e = gate.s
    BY <1>1, ElapsedType, ExpiredCases
  <1>3. UNCHANGED <<held, batch, nav>>
    BY DEF Gate
  <1>4. /\ gate' \in Gates
        /\ \/ /\ gate'.s = FreshGate /\ Swallow
              /\ owed' = Minus(owed, Times(Scale, Plus(frame.motion, q)))
           \/ gate'.s = gate.s /\ Emit("tail", frame.motion) /\ owed' = owed
           \/ /\ gate'.s.x = 0 /\ gate'.s.y = 0
              /\ Emit("tail", Qualified(g)) /\ owed' = Minus(owed, expired)
           \/ gate' = g /\ Swallow /\ owed' = Minus(owed, expired)
    BY GateStep
  <1> HIDE DEF e
  <1>5. g \in Gates /\ g.s = Gathered(e, frame.motion.x, frame.motion.y)
    <2>1. e = gate.s \/ e.samples = 0
      BY <1>2
    <2> QED
      BY <1>2, <2>1, GatheredGate
  <1>6. g.s.x = e.x + frame.motion.x /\ g.s.y = e.y + frame.motion.y
    BY <1>1, <1>2, <1>5, GatheredType
  <1>7. Qualified(g) \in Vectors
    BY <1>5, QualifiedType
  <1>8. expired = IF e # gate.s THEN Times(Scale, q) ELSE Zero
    BY DEF Qualified
  <1> HIDE DEF expired, g
  <1> SUFFICES ASSUME NEW a \in Axes
               PROVE  Balanced(a, owed', frame'.motion, Qualified(gate'), held'.sum, batch'.pending,
                               batch'.rest, nav'.sum)
    BY DEF Balance
  <1>9. /\ Steps(frame.motion, a) \in Int /\ Steps(q, a) \in Int /\ Steps(Zero, a) = 0
        /\ Steps(held.sum, a) \in Int /\ Steps(batch.pending, a) \in Int
        /\ batch.rest[a] \in Int /\ nav.sum[a] \in Int /\ owed[a] \in Int
    BY <1>1, StateVectors, StepsAt, VectorAt, 0 \in Int
  <1>10. owed[a] = Steps(frame.motion, a) + Steps(q, a) + Steps(held.sum, a)
                     + Steps(batch.pending, a) + batch.rest[a] + nav.sum[a]
    BY DEF Balance, Balanced
  \* What the gathered strategy has, and what expired, make up what there was.
  <1>11. /\ expired \in Vectors /\ expired[a] \in Int /\ Steps(Qualified(g), a) \in Int
         /\ Steps(Qualified(g), a) = Steps(frame.motion, a) + Steps(q, a) - expired[a]
    <2>1. Qualified(g)[a] = (IF a = "x" THEN e.x ELSE e.y) + frame.motion[a]
      BY <1>5, <1>6, QualifiedAt DEF Axes
    <2>2. CASE e = gate.s
      <3>1. expired = Zero
        BY <1>8, <2>2
      <3>2. Qualified(g)[a] = frame.motion[a] + q[a]
        BY <1>1, <2>1, <2>2, QualifiedAt, VectorAt, 0 \in Int
      <3>3. Steps(Qualified(g), a) = Steps(frame.motion, a) + Steps(q, a)
        BY <1>1, <1>7, <3>2, StepsSum
      <3> QED
        BY <1>1, <1>9, <3>1, <3>3, VectorAt, 0 \in Int
    <2>3. CASE e # gate.s
      <3>1. expired = Times(Scale, q) /\ expired \in Vectors /\ expired[a] = Steps(q, a)
        BY <1>1, <1>8, <2>3, ScaledAt
      <3>2. Qualified(g)[a] = frame.motion[a]
        BY <1>1, <1>2, <2>1, <2>3, VectorAt, 0 \in Int
      <3>3. Steps(Qualified(g), a) = Steps(frame.motion, a)
        BY <1>1, <1>7, <3>2, StepsSum
      <3> QED
        BY <1>9, <3>1, <3>3
    <2> QED
      BY <2>2, <2>3
  <1>12. Minus(owed, expired)[a] = owed[a] - expired[a]
    BY <1>1, <1>11, VectorAt, 0 \in Int
  <1>13. (gate'.s.x = 0 /\ gate'.s.y = 0) => Steps(Qualified(gate'), a) = 0
    <2>1. Qualified(gate') \in Vectors
      BY <1>4, QualifiedType
    <2>2. (gate'.s.x = 0 /\ gate'.s.y = 0) => Qualified(gate')[a] = 0
      BY <1>4, QualifiedAt
    <2> QED
      BY <1>1, <2>1, <2>2, StepsSum
  <1>14. CASE /\ gate'.s = FreshGate /\ Swallow
              /\ owed' = Minus(owed, Times(Scale, Plus(frame.motion, q)))
    <2>1. Steps(Qualified(gate'), a) = 0 /\ frame'.motion = Zero
      BY <1>13, <1>14, FreshType, SwallowType
    <2>2. /\ Plus(frame.motion, q) \in Vectors
          /\ Steps(Plus(frame.motion, q), a) = Steps(frame.motion, a) + Steps(q, a)
      BY <1>1, StepsAt, PlusAt
    <2>3. owed'[a] = owed[a] - (Steps(frame.motion, a) + Steps(q, a))
      BY <1>1, <1>14, <2>2, ScaledAt
    <2> HIDE DEF q
    <2> QED
      BY <1>3, <1>9, <1>10, <2>1, <2>3 DEF Balanced
  <1>15. CASE gate'.s = gate.s /\ Emit("tail", frame.motion) /\ owed' = owed
    <2>1. frame'.motion = frame.motion
      BY <1>1, <1>15, EmitType
    <2>2. Qualified(gate') = q
      BY <1>15 DEF Qualified
    <2> HIDE DEF q
    <2> QED
      BY <1>3, <1>10, <1>15, <2>1, <2>2 DEF Balanced
  <1>16. CASE /\ gate'.s.x = 0 /\ gate'.s.y = 0
              /\ Emit("tail", Qualified(g)) /\ owed' = Minus(owed, expired)
    <2>1. frame'.motion = Qualified(g)
      BY <1>7, <1>16, EmitType
    <2>2. owed'[a] = owed[a] - expired[a]
      BY <1>12, <1>16
    <2> HIDE DEF q
    <2> QED
      BY <1>3, <1>9, <1>10, <1>11, <1>13, <1>16, <2>1, <2>2 DEF Balanced
  <1>17. CASE gate' = g /\ Swallow /\ owed' = Minus(owed, expired)
    <2>1. frame'.motion = Zero
      BY <1>17, SwallowType
    <2>2. owed'[a] = owed[a] - expired[a]
      BY <1>12, <1>17
    <2> HIDE DEF q
    <2> QED
      BY <1>3, <1>9, <1>10, <1>11, <1>17, <2>1, <2>2 DEF Balanced
  <1> QED
    BY <1>4, <1>14, <1>15, <1>16, <1>17

LEMMA FlushGateBalance == ASSUME Typed, Balance, FlushGate PROVE Balance'
  <1> DEFINE e == Expired(gate.s, gate.sinceFrame, gate.sinceStart)
             d == [x |-> gate.s.x - e.x, y |-> gate.s.y - e.y]
  <1>1. /\ gate \in Gates /\ gate' \in Gates /\ gate'.s = e
        /\ owed' = Minus(owed, Times(Scale, d))
        /\ UNCHANGED <<frame, held, batch, nav>>
    BY FlushGateStep DEF Typed, FlushGate
  <1> HIDE DEF e
  <1>2. /\ Qualified(gate) \in Vectors /\ Qualified(gate') \in Vectors
    BY <1>1, QualifiedType
  <1>3. d \in Vectors
    <2>1. gate.s \in Strategies /\ e \in Strategies
      BY <1>1 DEF Gates
    <2> QED
      BY <2>1 DEF Strategies, Vectors, Axes
  <1> SUFFICES ASSUME NEW a \in Axes
               PROVE  Balanced(a, owed', frame'.motion, Qualified(gate'), held'.sum, batch'.pending,
                               batch'.rest, nav'.sum)
    BY DEF Balance
  <1>4. d[a] = Qualified(gate)[a] - Qualified(gate')[a]
    BY <1>1, QualifiedAt DEF Axes
  <1> HIDE DEF d
  <1>5. Steps(d, a) = Steps(Qualified(gate), a) - Steps(Qualified(gate'), a)
    BY <1>2, <1>3, <1>4, StepsSum
  <1>6. owed'[a] = owed[a] - Steps(d, a)
    BY <1>1, <1>3, StateVectors, ScaledAt
  <1>7. /\ Steps(frame.motion, a) \in Int /\ Steps(Qualified(gate), a) \in Int
        /\ Steps(Qualified(gate'), a) \in Int
        /\ Steps(held.sum, a) \in Int /\ Steps(batch.pending, a) \in Int
        /\ batch.rest[a] \in Int /\ nav.sum[a] \in Int /\ owed[a] \in Int
    BY <1>2, StateVectors, StepsAt, VectorAt, 0 \in Int
  <1>8. owed[a] = Steps(frame.motion, a) + Steps(Qualified(gate), a) + Steps(held.sum, a)
                    + Steps(batch.pending, a) + batch.rest[a] + nav.sum[a]
    BY DEF Balance, Balanced
  <1> QED
    BY <1>1, <1>5, <1>6, <1>7, <1>8 DEF Balanced

\* The step takes the motion v out of what is owed.
LeavesAt(v, a) == owed'[a] = owed[a] - Steps(v, a)

\* The balance on one axis, in integers.
LEMMA BalanceAt ==
  ASSUME Typed, Balance, NEW a \in Axes
  PROVE  /\ Steps(frame.motion, a) \in Int /\ Steps(Qualified(gate), a) \in Int
         /\ Steps(held.sum, a) \in Int /\ Steps(batch.pending, a) \in Int /\ Steps(Zero, a) = 0
         /\ batch.rest[a] \in Int /\ nav.sum[a] \in Int /\ owed[a] \in Int
         /\ owed[a] = Steps(frame.motion, a) + Steps(Qualified(gate), a) + Steps(held.sum, a)
                        + Steps(batch.pending, a) + batch.rest[a] + nav.sum[a]
  <1>1. /\ Steps(frame.motion, a) \in Int /\ Steps(Qualified(gate), a) \in Int
        /\ Steps(held.sum, a) \in Int /\ Steps(batch.pending, a) \in Int /\ Steps(Zero, a) = 0
        /\ batch.rest[a] \in Int /\ nav.sum[a] \in Int /\ owed[a] \in Int
    BY StateVectors, StepsAt, VectorAt, 0 \in Int
  <1> QED
    BY <1>1 DEF Balance, Balanced

LEMMA ConstrainBalance == ASSUME Typed, Balance, Constrain PROVE Balance'
  <1> SUFFICES ASSUME NEW a \in Axes
               PROVE  Balanced(a, owed', frame'.motion, Qualified(gate'), held'.sum, batch'.pending,
                               batch'.rest, nav'.sum)
    BY DEF Balance
  <1>1. PICK h \in Holds :
           /\ held' \in Holds
           /\ \/ /\ held' = Released(held) /\ Emit("tail", Zero)
                 /\ owed' = Minus(owed, Times(Scale, Plus(frame.motion, held.sum)))
              \/ /\ held'.sum = Plus(h.sum, frame.motion) /\ Emit("tail", Zero)
                 /\ owed' = Minus(owed, Times(Scale, Minus(held.sum, h.sum)))
              \/ \E folds \in BOOLEAN, i \in Intents :
                      LET sum == Plus(frame.motion, IF folds THEN h.sum ELSE Zero)
                      IN  /\ held'.sum = IF folds THEN Zero ELSE h.sum
                          /\ Emit("tail", Allowed(i, sum))
                          /\ owed' = Minus(owed, Times(Scale,
                               Plus(Minus(held.sum, h.sum), Minus(sum, Allowed(i, sum)))))
    BY ConstrainStep DEF Constrained, Decided
  <1>2. UNCHANGED <<gate, batch, nav>>
    BY DEF Constrain
  <1>3. /\ frame.motion \in Vectors /\ held.sum \in Vectors /\ h.sum \in Vectors /\ owed \in Vectors
        /\ Zero \in Vectors /\ held \in Holds
    BY StateVectors DEF Typed, Holds
  <1>4. Steps(h.sum, a) \in Int /\ Steps(Zero, a) = 0
    BY <1>3, StepsAt
  <1>5. CASE /\ held' = Released(held) /\ Emit("tail", Zero)
             /\ owed' = Minus(owed, Times(Scale, Plus(frame.motion, held.sum)))
    <2>1. frame'.motion = Zero /\ held'.sum = Zero
      BY <1>3, <1>5, EmitType, ReleasedType
    <2>2. LeavesAt(Plus(frame.motion, held.sum), a)
      <3>1. Plus(frame.motion, held.sum) \in Vectors
        BY <1>3, PlusAt
      <3> QED
        BY <1>3, <1>5, <3>1, ScaledAt DEF LeavesAt
    <2>3. Steps(Plus(frame.motion, held.sum), a) = Steps(frame.motion, a) + Steps(held.sum, a)
      BY <1>3, StepsAt
    <2>4. owed'[a] = owed[a] - (Steps(frame.motion, a) + Steps(held.sum, a))
      BY <2>2, <2>3 DEF LeavesAt
    <2> QED
      BY <1>2, <2>1, <2>4, BalanceAt DEF Balanced
  <1>6. CASE /\ held'.sum = Plus(h.sum, frame.motion) /\ Emit("tail", Zero)
             /\ owed' = Minus(owed, Times(Scale, Minus(held.sum, h.sum)))
    <2>1. frame'.motion = Zero
      BY <1>3, <1>6, EmitType
    <2>2. Steps(held'.sum, a) = Steps(h.sum, a) + Steps(frame.motion, a)
      BY <1>3, <1>6, StepsAt
    <2>3. LeavesAt(Minus(held.sum, h.sum), a)
      <3>1. Minus(held.sum, h.sum) \in Vectors
        BY <1>3, PlusAt
      <3> QED
        BY <1>3, <1>6, <3>1, ScaledAt DEF LeavesAt
    <2>4. Steps(Minus(held.sum, h.sum), a) = Steps(held.sum, a) - Steps(h.sum, a)
      BY <1>3, StepsAt
    <2>5. owed'[a] = owed[a] - (Steps(held.sum, a) - Steps(h.sum, a))
      BY <2>3, <2>4 DEF LeavesAt
    <2> QED
      BY <1>2, <1>4, <2>1, <2>2, <2>5, BalanceAt DEF Balanced
  <1>7. ASSUME NEW folds \in BOOLEAN, NEW i \in Intents,
               LET sum == Plus(frame.motion, IF folds THEN h.sum ELSE Zero)
               IN  /\ held'.sum = IF folds THEN Zero ELSE h.sum
                   /\ Emit("tail", Allowed(i, sum))
                   /\ owed' = Minus(owed, Times(Scale,
                        Plus(Minus(held.sum, h.sum), Minus(sum, Allowed(i, sum)))))
        PROVE  Balanced(a, owed', frame'.motion, Qualified(gate'), held'.sum, batch'.pending,
                        batch'.rest, nav'.sum)
    <2> DEFINE f == IF folds THEN h.sum ELSE Zero
               sum == Plus(frame.motion, f)
               passed == Allowed(i, sum)
               cleared == Minus(held.sum, h.sum)
               rest == Minus(sum, passed)
               lost == Plus(cleared, rest)
    <2>1. f \in Vectors /\ Steps(f, a) = IF folds THEN Steps(h.sum, a) ELSE 0
      BY <1>3, <1>4
    <2>2. held'.sum = IF folds THEN Zero ELSE h.sum
      BY <1>7
    <2>3. Steps(held'.sum, a) = Steps(h.sum, a) - Steps(f, a)
      BY <1>4, <2>1, <2>2
    <2> HIDE DEF f
    <2>4. sum \in Vectors /\ Steps(sum, a) = Steps(frame.motion, a) + Steps(f, a)
      BY <1>3, <2>1, StepsAt, PlusAt
    <2>5. Emit("tail", passed) /\ owed' = Minus(owed, Times(Scale, lost))
      BY <1>7 DEF f
    <2> HIDE DEF sum
    <2>6. passed \in Vectors
      BY <2>4, AllowedType
    <2> HIDE DEF passed
    <2>7. cleared \in Vectors /\ Steps(cleared, a) = Steps(held.sum, a) - Steps(h.sum, a)
      BY <1>3, StepsAt, PlusAt
    <2>8. rest \in Vectors /\ Steps(rest, a) = Steps(sum, a) - Steps(passed, a)
      BY <2>4, <2>6, StepsAt, PlusAt
    <2> HIDE DEF cleared, rest
    <2>9. lost \in Vectors /\ Steps(lost, a) = Steps(cleared, a) + Steps(rest, a)
      BY <2>7, <2>8, StepsAt, PlusAt
    <2> HIDE DEF lost
    <2>10. owed'[a] = owed[a] - Steps(lost, a)
      BY <1>3, <2>5, <2>9, ScaledAt
    <2>11. frame'.motion = passed /\ Steps(passed, a) \in Int /\ Steps(f, a) \in Int
      BY <1>3, <2>1, <2>5, <2>6, EmitType, StepsAt
    <2> QED
      BY <1>2, <1>4, <2>3, <2>4, <2>7, <2>8, <2>9, <2>10, <2>11, BalanceAt DEF Balanced
  <1> QED
    BY <1>1, <1>5, <1>6, <1>7

LEMMA IntentBalance == ASSUME Typed, Balance, Intent PROVE Balance'
  <1> SUFFICES ASSUME NEW a \in Axes
               PROVE  Balanced(a, owed', frame'.motion, Qualified(gate'), held'.sum, batch'.pending,
                               batch'.rest, nav'.sum)
    BY DEF Balance
  <1>1. UNCHANGED <<gate, held, batch, nav>>
    BY DEF Intent
  <1>2. CASE Suppressed
    <2>1. Emit("second", Zero) /\ owed' = Minus(owed, Times(Scale, frame.motion))
      BY <1>2 DEF Intent
    <2>2. frame'.motion = Zero /\ owed'[a] = owed[a] - Steps(frame.motion, a)
      BY <2>1, StateVectors, EmitType, ScaledAt
    <2> QED
      BY <1>1, <2>2, BalanceAt DEF Balanced
  <1>3. CASE ~Suppressed
    <2>1. owed' = owed /\ \E i : frame' = [frame EXCEPT !.intent = i]
      BY <1>3 DEF Intent
    <2>2. frame'.motion = frame.motion
      BY <2>1 DEF Typed, Frames
    <2> QED
      BY <1>1, <2>1, <2>2, BalanceAt DEF Balanced
  <1> QED
    BY <1>2, <1>3

\* What a report leaves of m and the rest before it is the next rest.
LEMMA ReportAt ==
  ASSUME Typed, NEW m \in Vectors, NEW a \in Axes
  PROVE  LET units == Plus(Times(Scale, m), batch.rest)
             sent == Times(Unit, Whole(units))
         IN  /\ sent[a] \in Int
             /\ Rest(units)[a] = Steps(m, a) + batch.rest[a] - sent[a]
             /\ Minus(owed, sent)[a] = owed[a] - sent[a]
  <1> DEFINE units == Plus(Times(Scale, m), batch.rest)
             sent == Times(Unit, Whole(units))
  <1>1. /\ Times(Scale, m) \in Vectors /\ Times(Scale, m)[a] = Steps(m, a)
        /\ batch.rest \in Vectors /\ owed \in Vectors /\ Unit \in Int
    BY StateVectors, ScaledAt, ScaleAssumption
  <1>2. units \in Vectors /\ units[a] = Steps(m, a) + batch.rest[a]
    <2>1. /\ units \in Vectors /\ units[a] = Times(Scale, m)[a] + batch.rest[a]
      BY <1>1, PlusAt
    <2> QED
      BY <1>1, <2>1
  <1> HIDE DEF units
  <1>3. sent \in Vectors
    BY <1>1, <1>2, WholeType, VectorType
  <1>4. Rest(units) = Minus(units, sent)
    BY DEF Rest
  <1> HIDE DEF sent
  <1>5. Rest(units)[a] = units[a] - sent[a] /\ sent[a] \in Int
        /\ Minus(owed, sent)[a] = owed[a] - sent[a]
    BY <1>1, <1>2, <1>3, <1>4, VectorAt, 0 \in Int
  <1> HIDE DEF units
  <1>6. /\ Rest(units)[a] = Steps(m, a) + batch.rest[a] - sent[a] /\ sent[a] \in Int
        /\ Minus(owed, sent)[a] = owed[a] - sent[a]
    <2>1. Steps(m, a) \in Int /\ batch.rest[a] \in Int
      BY <1>1, StepsAt, PlusAt
    <2> QED
      BY <1>2, <1>5, <2>1
  <1> QED
    BY <1>6 DEF units, sent

LEMMA QuantizeBalance == ASSUME Typed, Balance, Quantize PROVE Balance'
  <1> SUFFICES ASSUME NEW a \in Axes
               PROVE  Balanced(a, owed', frame'.motion, Qualified(gate'), held'.sum, batch'.pending,
                               batch'.rest, nav'.sum)
    BY DEF Balance
  <1> DEFINE units == Plus(Times(Scale, frame.motion), batch.rest)
             sent == Times(Unit, Whole(units))
  <1>1. /\ batch' = [batch EXCEPT !.rest = Rest(units)] /\ owed' = Minus(owed, sent)
        /\ Swallow /\ UNCHANGED <<gate, held, nav>>
    BY DEF Quantize
  <1>2. /\ sent[a] \in Int
        /\ Rest(units)[a] = Steps(frame.motion, a) + batch.rest[a] - sent[a]
        /\ Minus(owed, sent)[a] = owed[a] - sent[a]
    BY StateVectors, ReportAt
  <1> HIDE DEF units, sent
  <1>3. frame'.motion = Zero /\ batch'.pending = batch.pending /\ batch'.rest = Rest(units)
    BY <1>1, SwallowType DEF Typed, Batches
  <1> QED
    BY <1>1, <1>2, <1>3, BalanceAt DEF Balanced

LEMMA FlushBatchBalance == ASSUME Typed, Balance, FlushBatch PROVE Balance'
  <1> SUFFICES ASSUME NEW a \in Axes
               PROVE  Balanced(a, owed', frame'.motion, Qualified(gate'), held'.sum, batch'.pending,
                               batch'.rest, nav'.sum)
    BY DEF Balance
  <1> DEFINE units == Plus(Times(Scale, batch.pending), batch.rest)
             sent == Times(Unit, Whole(units))
  <1>1. /\ batch' = [pending |-> Zero, rest |-> Rest(units), armed |-> FALSE]
        /\ owed' = Minus(owed, sent) /\ UNCHANGED <<frame, gate, held, nav>>
    BY DEF FlushBatch
  <1>2. /\ sent[a] \in Int
        /\ Rest(units)[a] = Steps(batch.pending, a) + batch.rest[a] - sent[a]
        /\ Minus(owed, sent)[a] = owed[a] - sent[a]
    BY StateVectors, ReportAt
  <1> HIDE DEF units, sent
  <1>3. batch'.pending = Zero /\ batch'.rest = Rest(units)
    BY <1>1
  <1> QED
    BY <1>1, <1>2, <1>3, BalanceAt DEF Balanced

\* A batched motion moves from where it was into the batch, or is dropped with it.
LEMMA BatchedAt ==
  ASSUME Typed, NEW v \in Vectors, NEW suppressed \in BOOLEAN, NEW a \in Axes,
         batch' = Batched(v, suppressed),
         owed' = IF suppressed THEN Minus(owed, Times(Scale, Plus(batch.pending, v))) ELSE owed
  PROVE  /\ Steps(batch'.pending, a) - owed'[a] = Steps(batch.pending, a) + Steps(v, a) - owed[a]
         /\ Steps(batch'.pending, a) \in Int /\ owed'[a] \in Int /\ Steps(v, a) \in Int
         /\ batch'.rest = batch.rest
  <1>1. /\ batch.pending \in Vectors /\ owed \in Vectors /\ Plus(batch.pending, v) \in Vectors
        /\ Zero \in Vectors
    BY StateVectors, VectorType, 0 \in Int
  <1>2. /\ Steps(Plus(batch.pending, v), a) = Steps(batch.pending, a) + Steps(v, a)
        /\ Steps(batch.pending, a) \in Int /\ Steps(v, a) \in Int /\ owed[a] \in Int
        /\ Steps(Zero, a) = 0
    BY <1>1, StepsAt, VectorAt, 0 \in Int
  <1>3. /\ batch'.rest = batch.rest
        /\ batch'.pending = IF suppressed THEN Zero ELSE Plus(batch.pending, v)
    BY BatchedType
  <1>4. suppressed => owed'[a] = owed[a] - Steps(Plus(batch.pending, v), a)
    BY <1>1, ScaledAt
  <1> QED
    BY <1>2, <1>3, <1>4

LEMMA BatchBalance == ASSUME Typed, Balance, Batch PROVE Balance'
  <1> SUFFICES ASSUME NEW a \in Axes
               PROVE  Balanced(a, owed', frame'.motion, Qualified(gate'), held'.sum, batch'.pending,
                               batch'.rest, nav'.sum)
    BY DEF Balance
  <1>1. UNCHANGED <<gate, held, nav>> /\ frame'.motion = Zero
    BY SwallowType DEF Batch
  <1>2. /\ Steps(batch'.pending, a) - owed'[a]
             = Steps(batch.pending, a) + Steps(frame.motion, a) - owed[a]
        /\ Steps(batch'.pending, a) \in Int /\ owed'[a] \in Int /\ batch'.rest = batch.rest
    BY FrameFields, BatchedAt DEF Batch, Suppressed, Typed
  <1> QED
    BY <1>1, <1>2, BalanceAt DEF Balanced

\* A navigated motion moves into the navigation's remainder, or is dropped.
LEMMA NavigatedAt ==
  ASSUME Typed, NEW i, NEW v \in Vectors, NEW since \in Nat, NEW idle \in BOOLEAN, NEW a \in Axes,
         Navigated(i, v, since, idle)
  PROVE  /\ nav'.sum[a] - owed'[a] = Steps(v, a) + nav.sum[a] - owed[a]
         /\ nav'.sum[a] \in Int /\ owed'[a] \in Int /\ Steps(v, a) \in Int
  <1> DEFINE given == Plus(Times(Scale, v), nav.sum)
             spent == Minus(given, nav'.sum)
  <1>1. /\ nav' \in Navs /\ owed' = Minus(owed, spent)
    BY NavigatedType
  <1>2. nav'.sum \in Vectors /\ nav.sum \in Vectors /\ owed \in Vectors
    BY <1>1, StateVectors DEF Navs
  <1>3. Times(Scale, v) \in Vectors /\ Times(Scale, v)[a] = Steps(v, a) /\ Steps(v, a) \in Int
    BY ScaledAt
  <1>4. given \in Vectors /\ given[a] = Steps(v, a) + nav.sum[a]
    <2>1. /\ given \in Vectors /\ given[a] = Times(Scale, v)[a] + nav.sum[a]
      BY <1>2, <1>3, PlusAt
    <2> QED
      BY <1>3, <2>1
  <1> HIDE DEF given
  <1>5. spent \in Vectors /\ spent[a] = given[a] - nav'.sum[a]
    BY <1>2, <1>4, VectorType, VectorAt, 0 \in Int
  <1> HIDE DEF spent
  <1>6. /\ owed'[a] = owed[a] - spent[a] /\ owed[a] \in Int /\ nav.sum[a] \in Int
        /\ nav'.sum[a] \in Int
    BY <1>1, <1>2, <1>5, VectorAt, 0 \in Int
  <1> QED
    BY <1>3, <1>4, <1>5, <1>6

LEMMA NavigateBalance == ASSUME Typed, Balance, Navigate PROVE Balance'
  <1> SUFFICES ASSUME NEW a \in Axes
               PROVE  Balanced(a, owed', frame'.motion, Qualified(gate'), held'.sum, batch'.pending,
                               batch'.rest, nav'.sum)
    BY DEF Balance
  <1>1. UNCHANGED <<gate, held, batch>> /\ frame'.motion = Zero
    BY SwallowType DEF Navigate
  <1>2. /\ nav'.sum[a] - owed'[a] = Steps(frame.motion, a) + nav.sum[a] - owed[a]
        /\ nav'.sum[a] \in Int /\ owed'[a] \in Int
    <2>1. (~nav.have \/ Elapsed(nav.since) >= NavIdleMs) \in BOOLEAN
      OBVIOUS
    <2> QED
      BY <2>1, FrameFields, NavigatedAt DEF Navigate
  <1>3. owed'[a] = Steps(Qualified(gate), a) + Steps(held.sum, a)
                    + Steps(batch.pending, a) + batch.rest[a] + nav'.sum[a]
    BY <1>2, BalanceAt
  <1>4. Steps(frame'.motion, a) = 0
    BY <1>1, BalanceAt
  <1> QED
    BY <1>1, <1>2, <1>3, <1>4, BalanceAt DEF Balanced

LEMMA FlushHeldBalance == ASSUME Typed, Balance, FlushHeld PROVE Balance'
  <1> SUFFICES ASSUME NEW a \in Axes
               PROVE  Balanced(a, owed', frame'.motion, Qualified(gate'), held'.sum, batch'.pending,
                               batch'.rest, nav'.sum)
    BY DEF Balance
  <1>1. UNCHANGED <<frame, gate>> /\ held.sum \in Vectors
    BY StateVectors DEF FlushHeld
  <1>2. PICK suppressed \in BOOLEAN, idle \in BOOLEAN :
           /\ held'.sum = Zero
           /\ \/ /\ batch' = Batched(held.sum, suppressed) /\ nav' = nav
                 /\ owed' = IF suppressed THEN Minus(owed, Times(Scale, Plus(batch.pending, held.sum)))
                                          ELSE owed
              \/ batch' = batch /\ Navigated("undecided", held.sum, 0, idle)
              \/ batch' = batch /\ nav' = nav /\ owed' = Minus(owed, Times(Scale, held.sum))
    BY FlushHeldStep
  <1>3. CASE /\ batch' = Batched(held.sum, suppressed) /\ nav' = nav
             /\ owed' = IF suppressed THEN Minus(owed, Times(Scale, Plus(batch.pending, held.sum)))
                                      ELSE owed
    <2>1. /\ Steps(batch'.pending, a) - owed'[a]
               = Steps(batch.pending, a) + Steps(held.sum, a) - owed[a]
          /\ Steps(batch'.pending, a) \in Int /\ owed'[a] \in Int /\ batch'.rest = batch.rest
      BY <1>1, <1>3, BatchedAt
    <2> QED
      BY <1>1, <1>2, <1>3, <2>1, BalanceAt DEF Balanced
  <1>4. CASE batch' = batch /\ Navigated("undecided", held.sum, 0, idle)
    <2>1. /\ nav'.sum[a] - owed'[a] = Steps(held.sum, a) + nav.sum[a] - owed[a]
          /\ nav'.sum[a] \in Int /\ owed'[a] \in Int
      BY <1>1, <1>4, NavigatedAt, 0 \in Nat
    <2> QED
      BY <1>1, <1>2, <1>4, <2>1, BalanceAt DEF Balanced
  <1>5. CASE batch' = batch /\ nav' = nav /\ owed' = Minus(owed, Times(Scale, held.sum))
    <2>1. owed'[a] = owed[a] - Steps(held.sum, a)
      BY <1>1, <1>5, StateVectors, ScaledAt
    <2> QED
      BY <1>1, <1>2, <1>5, <2>1, BalanceAt DEF Balanced
  <1> QED
    BY <1>2, <1>3, <1>4, <1>5

LEMMA ArriveBalance == ASSUME Typed, Balance, Arrive PROVE Balance'
  <1> SUFFICES ASSUME NEW a \in Axes
               PROVE  Balanced(a, owed', frame'.motion, Qualified(gate'), held'.sum, batch'.pending,
                               batch'.rest, nav'.sum)
    BY DEF Balance
  <1>1. PICK m \in Motions : frame'.motion = m /\ owed' = Plus(owed, Times(Scale, m))
    BY DEF Arrive
  <1>2. m \in Vectors /\ owed \in Vectors
    BY StateVectors, MotionsAssumption DEF Vectors, Axes
  <1>3. Times(Scale, m) \in Vectors /\ Times(Scale, m)[a] = Steps(m, a) /\ Steps(m, a) \in Int
    BY <1>2, ScaledAt
  <1>4. owed'[a] = owed[a] + Steps(m, a)
    BY <1>1, <1>2, <1>3, VectorAt, 0 \in Int
  <1>5. frame.motion = Zero /\ UNCHANGED <<gate, held, batch, nav>>
    BY DEF Arrive, Typed, Stamped, stages
  <1> QED
    BY <1>1, <1>3, <1>4, <1>5, BalanceAt DEF Balanced

LEMMA ResetBalance == ASSUME Typed, Balance, Reset PROVE Balance'
  <1> SUFFICES ASSUME NEW a \in Axes
               PROVE  Balanced(a, owed', frame'.motion, Qualified(gate'), held'.sum, batch'.pending,
                               batch'.rest, nav'.sum)
    BY DEF Balance
  <1>1. /\ frame'.motion = Zero /\ held'.sum = Zero /\ batch'.pending = Zero /\ batch'.rest = Zero
        /\ nav'.sum = Zero /\ owed' = Zero
    BY DEF Reset, Typed, Stamped, NewHeld, NewBatch, NewNav
  <1>2. gate' \in Gates /\ gate'.s.x = 0 /\ gate'.s.y = 0
    BY FreshType DEF Reset, NewGate, Gates
  <1>3. Qualified(gate') \in Vectors /\ Qualified(gate')[a] = 0
    BY <1>2, QualifiedType, QualifiedAt
  <1>4. Steps(Qualified(gate'), a) = 0 /\ Steps(Zero, a) = 0 /\ Zero[a] = 0
    BY <1>3, StateVectors, StepsSum, StepsAt, VectorAt, 0 \in Int
  <1> QED
    BY <1>1, <1>4 DEF Balanced

LEMMA TickBalance == ASSUME Typed, Balance, Tick PROVE Balance'
  <1>1. Qualified(gate') = Qualified(gate)
    BY TickGate DEF Qualified
  <1>2. frame'.motion = frame.motion
    BY DEF Tick, Typed, Frames
  <1>3. held'.sum = held.sum /\ nav'.sum = nav.sum /\ UNCHANGED <<batch, owed>>
    BY DEF Tick, Typed, Holds, Navs
  <1> QED
    BY <1>1, <1>2, <1>3 DEF Balance

LEMMA BalanceKept == ASSUME Typed, Balance, [Next]_vars PROVE Balance'
  <1>1. Typed'
    BY TypedKept
  <1>2. CASE UNCHANGED <<frame, gate, held, batch, nav, owed>>
    BY <1>2 DEF Balance, Qualified
  <1> QED
    BY <1>1, <1>2, GateBalance, FlushGateBalance, ConstrainBalance, IntentBalance, QuantizeBalance,
       FlushBatchBalance, BatchBalance, NavigateBalance, FlushHeldBalance, ArriveBalance,
       ResetBalance, TickBalance
       DEF Next, vars, guard, stages, Press, Publish, Retune

\* Motion leaves a chain once: what was taken in and neither suppressed, timed
\* out, filtered by its axis nor sent is what the stages hold, to the fraction.
THEOREM MotionOwedInvariant == Spec => []MotionOwed
  <1>1. Init => Balance
    <2> SUFFICES ASSUME Init, NEW a \in Axes
                 PROVE  Balanced(a, owed, frame.motion, Qualified(gate), held.sum, batch.pending,
                                 batch.rest, nav.sum)
      BY DEF Balance
    <2>0. Typed
      BY InitTyped
    <2>1. /\ frame.motion = Zero /\ held.sum = Zero /\ batch.pending = Zero /\ batch.rest = Zero
          /\ nav.sum = Zero /\ owed = Zero
      BY DEF Init, Stamped, NewHeld, NewBatch, NewNav
    <2>2. gate \in Gates /\ gate.s.x = 0 /\ gate.s.y = 0
      BY <2>0, FreshType DEF Init, NewGate, Typed
    <2>3. Qualified(gate) \in Vectors /\ Qualified(gate)[a] = 0
      BY <2>2, QualifiedType, QualifiedAt
    <2>4. Steps(Qualified(gate), a) = 0 /\ Steps(Zero, a) = 0 /\ Zero[a] = 0
      BY <2>0, <2>3, StateVectors, StepsSum, StepsAt, VectorAt, 0 \in Int
    <2> QED
      BY <2>1, <2>4 DEF Balanced
  <1>2. Typed /\ Balance /\ [Next]_vars => Balance'
    BY BalanceKept
  <1>3. Typed /\ Balance => MotionOwed
    BY OwedIsBalance
  <1> QED
    BY <1>1, <1>2, <1>3, TypeInvariant, PTL DEF Spec
===============================================================================
