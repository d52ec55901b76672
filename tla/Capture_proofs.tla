--------------------------- MODULE Capture_proofs ---------------------------
(***************************************************************************)
(* Proofs about recording and tuning, for any routers, buffers, credits and *)
(* requests.                                                                *)
(*                                                                         *)
(* SettingsWhole: the worker copies settings only while it holds every      *)
(* router's lock, so a frame, which holds one, never sees the copy; and the *)
(* candidate it copies was checked against settings that nobody else can    *)
(* have changed since.                                                      *)
(*                                                                         *)
(* PressHeld: only the recorded pipeline freezes the guard, and another     *)
(* pipeline can be recorded only once every lock has been taken, hence once *)
(* no frame is under way.                                                   *)
(*                                                                         *)
(* NumbersTrue: between two markers the stored records are numbered one by  *)
(* one, and a marker accounts for exactly what is missing; the batch that   *)
(* is being sent remains a prefix of the buffer, however much is put after  *)
(* it meanwhile.                                                            *)
(*                                                                         *)
(* NothingStranded: credits and notifications on their way are always as    *)
(* many as there were credits, a buffer that holds anything has a batch to  *)
(* give, and a link that came while the worker sent to another woke it.     *)
(*                                                                         *)
(* DeltasDecode: a host that has heard everything has the frame every delta *)
(* is relative to, batch by batch from the host over the air to the buffer  *)
(* (Flow); the host there is agrees with it or has no frame at all.         *)
(***************************************************************************)
EXTENDS Capture, FiniteSetTheorems, SequenceTheorems, WellFoundedInduction, TLAPS

WorkerFields == {"pc", "wait", "goal", "send", "left", "conn"}
Taps ==
  [source : Sources \cup {NoSource}, press : Nat, last : BOOLEAN, pending : BOOLEAN, frozen : BOOLEAN]
Requests == Changes \cup {[kind |-> "control", target |-> p] : p \in Recordable \cup {None}}

Types ==
  /\ settings \in [Pipelines -> Configs]
  /\ began \in [Pipelines -> Configs]
  /\ lock \in [Pipelines -> {"free", "frame", "worker"}]
  /\ tap \in [Pipelines -> Taps]
  /\ press \in Nat
  /\ DOMAIN w = WorkerFields
  /\ asked = <<>> \/ \E r \in Requests : asked = <<r>>

Tuning == w.goal.kind \in {"set", "reset"}

\* What the worker is doing, as far as the settings are concerned.
Working ==
  /\ w.pc \in {"receive", "drain"} \/ (w.pc = "send" /\ w.send.kind = "batch") => ~Tuning
  /\ w.pc \in {"lock", "copy"} /\ Tuning =>
       /\ w.goal.target \in Pipelines
       /\ w.goal.kind = "set" => Applies(settings[w.goal.target], w.goal.values)
  /\ w.pc = "copy" => Tuning /\ \A p \in Pipelines : lock[p] = "worker"

\* Outside a copy all settings are valid, and a frame has those it began with.
Settled ==
  /\ w.pc # "copy" => \A p \in Pipelines : Valid(settings[p])
  /\ w.pc = "copy" => \A p \in Pipelines : p # w.goal.target => Valid(settings[p])
  /\ \A p \in Pipelines : lock[p] = "frame" => settings[p] = began[p]

\* Only a frame or flush of the recorded pipeline holds the guard.
Freezing ==
  \A p \in Pipelines : tap[p].frozen =>
    /\ lock[p] = "frame"
    /\ recording \in {p, None}
    /\ frozen = [on |-> TRUE, press |-> tap[p].press]
    /\ \A q \in Pipelines : tap[q].frozen => q = p

IInv == Types /\ Working /\ Settled /\ Freezing

-----------------------------------------------------------------------------
(* Settings.                                                                 *)

LEMMA CompiledIsConfig == Compiled \in Configs /\ Valid(Compiled)
  BY TuningAssumption

LEMMA PreparedType ==
  ASSUME NEW config \in Configs, NEW values, Applies(config, values)
  PROVE  Prepared(config, values) \in Configs /\ Valid(Prepared(config, values))
<1>1. \A i \in DOMAIN values : values[i].value \in 0..Maximum
  BY DEF Applies, Accepted
<1>2. ASSUME NEW p \in Params PROVE Prepared(config, values)[p] \in 0..Maximum
  <2>1. CASE \E i \in DOMAIN values : values[i].param = p
    BY <1>1, <2>1 DEF Prepared
  <2>2. CASE ~\E i \in DOMAIN values : values[i].param = p
    BY <2>2 DEF Prepared, Configs
  <2> QED BY <2>1, <2>2
<1>3. Prepared(config, values) = [p \in Params |-> Prepared(config, values)[p]]
  BY DEF Prepared
<1>4. Prepared(config, values) \in Configs
  BY <1>2, <1>3 DEF Configs
<1> QED BY <1>4 DEF Applies

LEMMA RestoredType ==
  ASSUME NEW config \in Configs
  PROVE  Restored(config) = Compiled
  BY TuningAssumption DEF Restored, Configs

\* What the worker is about to copy is a whole, valid configuration.
LEMMA CandidateType ==
  ASSUME IInv, w.pc \in {"lock", "copy"}, Tuning
  PROVE  /\ w.goal.target \in Pipelines
         /\ Candidate \in Configs /\ Valid(Candidate)
<1>1. w.goal.target \in Pipelines /\ settings[w.goal.target] \in Configs
  BY DEF IInv, Types, Working
<1>2. CASE w.goal.kind = "reset"
  BY <1>1, <1>2, RestoredType, CompiledIsConfig DEF Candidate
<1>3. CASE w.goal.kind = "set"
  <2>1. Applies(settings[w.goal.target], w.goal.values)
    BY <1>1, <1>3 DEF IInv, Working
  <2> QED BY <1>1, <1>3, <2>1, PreparedType DEF Candidate
<1> QED BY <1>1, <1>2, <1>3 DEF Tuning

\* A candidate keeps its value when its first half has been copied.
LEMMA PreparedHalfway ==
  ASSUME NEW config \in Configs, NEW values, NEW half,
         half = [config EXCEPT !["low"] = Prepared(config, values)["low"]]
  PROVE  Prepared(half, values) = Prepared(config, values)
<1>1. half["low"] = Prepared(config, values)["low"] /\ half["high"] = config["high"]
  BY DEF Configs, Params
<1>2. ASSUME NEW p \in Params PROVE Prepared(half, values)[p] = Prepared(config, values)[p]
  <2>1. CASE \E i \in DOMAIN values : values[i].param = p
    BY <2>1 DEF Prepared
  <2>2. CASE ~\E i \in DOMAIN values : values[i].param = p
    <3>1. Prepared(half, values)[p] = half[p] /\ Prepared(config, values)[p] = config[p]
      BY <2>2 DEF Prepared
    <3>2. p = "low" \/ p = "high"
      BY DEF Params
    <3> QED BY <1>1, <3>1, <3>2
  <2> QED BY <2>1, <2>2
<1> QED BY <1>2 DEF Prepared

LEMMA AppliesHalfway ==
  ASSUME NEW config \in Configs, NEW values, NEW half, Applies(config, values),
         half = [config EXCEPT !["low"] = Prepared(config, values)["low"]]
  PROVE  Applies(half, values)
  BY PreparedHalfway DEF Applies

-----------------------------------------------------------------------------
(* Each step keeps the invariant.                                            *)

LEMMA InitIInv == Init => IInv
<1> SUFFICES ASSUME Init PROVE IInv
  OBVIOUS
<1>1. NoTap \in Taps /\ ~NoTap.frozen
  BY DEF NoTap, Taps
<1>2. DOMAIN Idle = WorkerFields /\ Idle.pc = "idle"
  BY DEF Idle, WorkerFields
<1>3. Types
  BY <1>1, <1>2, CompiledIsConfig DEF Init, Types, Free
<1>4. Working
  BY <1>2 DEF Init, Working
<1>5. Settled
  BY <1>2, CompiledIsConfig DEF Init, Settled, Free
<1>6. Freezing
  BY <1>1 DEF Init, Freezing
<1> QED BY <1>3, <1>4, <1>5, <1>6 DEF IInv

\* Steps of the worker between requests.
LEMMA WorkerMoves ==
  ASSUME IInv, UNCHANGED <<settings, began, lock, tap, press, frozen, asked>>,
         recording' \in {recording, None}, DOMAIN w' = WorkerFields,
         w.pc # "copy", w'.pc # "copy",
         \/ ~Tuning'
         \/ w'.pc \in {"answer", "idle"} \/ (w'.pc = "send" /\ w'.send.kind # "batch")
  PROVE  IInv'
<1>1. Types'
  BY DEF IInv, Types
<1>2. Working'
  BY DEF IInv, Working
<1>3. Settled'
  BY DEF IInv, Settled
<1>4. Freezing'
  BY DEF IInv, Freezing
<1> QED BY <1>1, <1>2, <1>3, <1>4 DEF IInv

\* Steps that concern neither the worker nor a frame's settings.
LEMMA ElsewhereMoves ==
  ASSUME IInv, UNCHANGED <<settings, began, lock, tap, frozen, recording, w>>,
         press' \in Nat, asked' = <<>> \/ \E r \in Requests : asked' = <<r>>
  PROVE  IInv'
<1>1. Types'
  BY DEF IInv, Types
<1>2. Working'
  BY DEF IInv, Working, Tuning
<1>3. Settled'
  BY DEF IInv, Settled
<1>4. Freezing'
  BY DEF IInv, Freezing
<1> QED BY <1>1, <1>2, <1>3, <1>4 DEF IInv

LEMMA PipelineIsOne == ASSUME NEW p \in Pipelines PROVE p # None
<1>1. p \in 1..Cardinality(Pipelines)
  BY CaptureAssumption
<1>2. p >= 1
  BY <1>1
<1> QED BY <1>2 DEF None

\* A frame, flush or route change takes a router's lock.
LEMMA BeginMoves ==
  ASSUME IInv, NEW p \in Pipelines, Begin(p),
         UNCHANGED <<settings, recording, press, asked, w>>, tap' \in [Pipelines -> Taps],
         \A q \in Pipelines : q # p => tap'[q] = tap[q],
         \/ tap'[p].frozen /\ recording = p /\ frozen' = [on |-> TRUE, press |-> tap'[p].press]
         \/ ~tap'[p].frozen /\ frozen' = frozen
  PROVE  IInv'
<1>1. /\ lock[p] = "free"
      /\ lock' = [lock EXCEPT ![p] = "frame"]
      /\ began' = [began EXCEPT ![p] = settings[p]]
  BY DEF Begin, Free
<1>2. Types'
  BY <1>1 DEF IInv, Types
<1>3. w.pc # "copy"
  BY <1>1 DEF IInv, Working
<1>4. Working'
  BY <1>3 DEF IInv, Working, Tuning
<1>5. Settled'
  BY <1>1, <1>3 DEF IInv, Settled, Types
<1>6. Freezing'
  <2> SUFFICES ASSUME NEW q \in Pipelines, tap'[q].frozen
               PROVE  /\ lock'[q] = "frame"
                      /\ recording' \in {q, None}
                      /\ frozen' = [on |-> TRUE, press |-> tap'[q].press]
                      /\ \A r \in Pipelines : tap'[r].frozen => r = q
    BY DEF Freezing
  <2>1. lock'[p] = "frame" /\ \A r \in Pipelines : r # p => lock'[r] = lock[r]
    BY <1>1 DEF IInv, Types
  <2>2. ~tap[p].frozen
    BY <1>1 DEF IInv, Freezing
  <2>3. CASE tap'[p].frozen
    <3>1. ASSUME NEW r \in Pipelines, r # p PROVE ~tap'[r].frozen
      <4>1. tap'[r] = tap[r] /\ recording = p
        BY <2>3, <3>1
      <4>2. p # None
        BY PipelineIsOne
      <4> QED BY <3>1, <4>1, <4>2 DEF IInv, Freezing
    <3>2. q = p
      BY <3>1
    <3> QED BY <2>1, <2>3, <3>1, <3>2
  <2>4. CASE ~tap'[p].frozen
    <3>1. q # p /\ tap'[q] = tap[q] /\ tap[q].frozen /\ frozen' = frozen
      BY <2>4
    <3>2. \A r \in Pipelines : tap'[r].frozen => r = q
      BY <2>4, <3>1 DEF IInv, Freezing
    <3> QED BY <2>1, <3>1, <3>2 DEF IInv, Freezing
  <2> QED BY <2>3, <2>4
<1> QED BY <1>2, <1>4, <1>5, <1>6 DEF IInv

LEMMA RestartedType ==
  ASSUME NEW t \in Taps
  PROVE  Restarted(t) \in Taps /\ Restarted(t).frozen = t.frozen
  BY DEF Restarted, NoTap, Taps

LEMMA FrameIInv ==
  ASSUME IInv, NEW p \in Pipelines, NEW source \in Sources, NEW rested \in BOOLEAN,
         Frame(p, source, rested)
  PROVE  IInv'
<1> DEFINE t == IF ResyncDue(tap[p], rested) /\ (resync \/ tap[p].pending)
                THEN Restarted(tap[p]) ELSE tap[p]
           u == [source |-> source, press |-> press, last |-> TRUE, frozen |-> TRUE,
                 pending |-> t.pending \/ t.source \notin {NoSource, source}]
<1>1. /\ tap' = [tap EXCEPT ![p] = u]
      /\ Begin(p) /\ recording = p /\ frozen' = Frozen
      /\ UNCHANGED <<settings, recording, press, wake, w, asked>>
  BY DEF Frame
<1>2. tap \in [Pipelines -> Taps] /\ press \in Nat
  BY DEF IInv, Types
<1>3. t \in Taps
  BY <1>2, RestartedType
<1>4. u \in Taps /\ u.frozen /\ u.press = press
  <2>1. (t.pending \/ t.source \notin {NoSource, source}) \in BOOLEAN
    BY <1>3 DEF Taps
  <2> HIDE DEF t
  <2> QED BY <1>2, <2>1 DEF Taps
<1> HIDE DEF u
<1>5. tap' \in [Pipelines -> Taps] /\ tap'[p] = u /\ \A q \in Pipelines : q # p => tap'[q] = tap[q]
  BY <1>1, <1>2, <1>4
<1>6. frozen' = [on |-> TRUE, press |-> tap'[p].press]
  BY <1>1, <1>4, <1>5 DEF Frozen
<1> QED BY <1>1, <1>4, <1>5, <1>6, BeginMoves

LEMMA FlushIInv == ASSUME IInv, NEW p \in Pipelines, Flush(p) PROVE IInv'
<1>1. /\ tap' = [tap EXCEPT ![p].press = press, ![p].frozen = TRUE]
      /\ Begin(p) /\ recording = p /\ frozen' = Frozen
      /\ UNCHANGED <<settings, recording, press, w, asked>>
  BY DEF Flush
<1>2. tap \in [Pipelines -> Taps] /\ press \in Nat
  BY DEF IInv, Types
<1>3. /\ tap' \in [Pipelines -> Taps]
      /\ tap'[p].frozen /\ tap'[p].press = press
      /\ \A q \in Pipelines : q # p => tap'[q] = tap[q]
  BY <1>1, <1>2 DEF Taps
<1>4. frozen' = [on |-> TRUE, press |-> tap'[p].press]
  BY <1>1, <1>3 DEF Frozen
<1> QED BY <1>1, <1>3, <1>4, BeginMoves

\* Whoever finds a router's lock free finds its pipeline's tap thawed.
LEMMA FreeIsThawed ==
  ASSUME IInv, NEW p \in Pipelines, lock[p] # "frame"
  PROVE  ~tap[p].frozen
  BY DEF IInv, Freezing

LEMMA RouteIInv == ASSUME IInv, NEW p \in Pipelines, Route(p) PROVE IInv'
<1>1. /\ Begin(p)
      /\ tap' = tap \/ tap' = [tap EXCEPT ![p] = Restarted(tap[p])]
      /\ UNCHANGED <<settings, recording, press, frozen, w, asked>>
  BY DEF Route
<1>2. tap \in [Pipelines -> Taps]
  BY DEF IInv, Types
<1>3. ~tap[p].frozen
  BY <1>1, FreeIsThawed DEF Begin, Free
<1>4. /\ tap' \in [Pipelines -> Taps] /\ ~tap'[p].frozen
      /\ \A q \in Pipelines : q # p => tap'[q] = tap[q]
  BY <1>1, <1>2, <1>3, RestartedType
<1> QED BY <1>1, <1>4, BeginMoves

LEMMA UnrecordedIInv == ASSUME IInv, NEW p \in Pipelines, Unrecorded(p) PROVE IInv'
<1>1. Begin(p) /\ UNCHANGED <<settings, recording, tap, press, frozen, w, asked>>
  BY DEF Unrecorded, records
<1>2. tap \in [Pipelines -> Taps]
  BY DEF IInv, Types
<1>3. ~tap[p].frozen
  BY <1>1, FreeIsThawed DEF Begin, Free
<1> QED BY <1>1, <1>2, <1>3, BeginMoves

LEMMA EndIInv == ASSUME IInv, NEW p \in Pipelines, End(p) PROVE IInv'
<1>1. /\ lock[p] = "frame"
      /\ lock' = [lock EXCEPT ![p] = "free"]
      /\ began' = [began EXCEPT ![p] = Compiled]
      /\ tap' = [tap EXCEPT ![p].frozen = FALSE]
      /\ frozen' = IF tap[p].frozen THEN Live ELSE frozen
      /\ UNCHANGED <<settings, recording, press, w, asked>>
  BY DEF End, Free
<1>2. /\ tap \in [Pipelines -> Taps] /\ lock \in [Pipelines -> {"free", "frame", "worker"}]
      /\ began \in [Pipelines -> Configs]
  BY DEF IInv, Types
<1>3. /\ tap' \in [Pipelines -> Taps] /\ ~tap'[p].frozen
      /\ \A q \in Pipelines : q # p => tap'[q] = tap[q] /\ lock'[q] = lock[q] /\ began'[q] = began[q]
      /\ lock'[p] = "free"
  BY <1>1, <1>2 DEF Taps
<1>4. Types'
  BY <1>1, <1>3, CompiledIsConfig DEF IInv, Types
<1>5. w.pc # "copy"
  BY <1>1 DEF IInv, Working
<1>6. Working'
  BY <1>1, <1>5 DEF IInv, Working, Tuning
<1>7. Settled'
  BY <1>1, <1>3, <1>5 DEF IInv, Settled
<1>8. Freezing'
  <2> SUFFICES ASSUME NEW q \in Pipelines, tap'[q].frozen
               PROVE  /\ lock'[q] = "frame"
                      /\ recording' \in {q, None}
                      /\ frozen' = [on |-> TRUE, press |-> tap'[q].press]
                      /\ \A r \in Pipelines : tap'[r].frozen => r = q
    BY DEF Freezing
  <2>1. q # p /\ tap[q].frozen
    BY <1>3
  <2>2. ~tap[p].frozen
    BY <2>1 DEF IInv, Freezing
  <2>3. \A r \in Pipelines : tap'[r].frozen => r # p /\ tap[r].frozen
    BY <1>3
  <2> QED BY <1>1, <1>3, <2>1, <2>2, <2>3 DEF IInv, Freezing
<1> QED BY <1>4, <1>6, <1>7, <1>8 DEF IInv

LEMMA ReceivingType ==
  /\ DOMAIN Receiving = WorkerFields /\ DOMAIN Idle = WorkerFields
  /\ Receiving.pc = "receive" /\ Idle.pc = "idle"
  /\ Receiving.goal.kind = "none" /\ Idle.goal.kind = "none"
  BY DEF Receiving, Idle, NoRequest, WorkerFields

LEMMA ReceiveIInv == ASSUME IInv, Receive PROVE IInv'
<1> DEFINE r == Head(asked)
           through == r.kind = "reset" \/ (r.kind = "set" /\ Applies(settings[r.target], r.values))
<1>1. /\ w.pc = "receive" /\ asked # <<>> /\ asked' = Tail(asked)
      /\ w' = [Receiving EXCEPT !.goal = r,
                 !.pc = IF r.kind = "control" THEN "drain" ELSE IF through THEN "lock" ELSE "answer"]
      /\ recording' \in {recording, None}
      /\ UNCHANGED <<settings, began, tap, lock, press, frozen>>
  BY DEF Receive, tuned, input
<1>2. r \in Requests /\ asked' = <<>>
  <2>1. PICK q \in Requests : asked = <<q>>
    BY <1>1 DEF IInv, Types
  <2> QED BY <1>1, <2>1
<1>3. \/ r.kind = "control"
      \/ r.kind \in {"set", "reset"} /\ r.target \in Pipelines
  BY <1>2, CaptureAssumption DEF Requests
<1>4. /\ DOMAIN w' = WorkerFields /\ w'.goal = r
      /\ w'.pc = IF r.kind = "control" THEN "drain" ELSE IF through THEN "lock" ELSE "answer"
  BY <1>1, ReceivingType DEF WorkerFields
<1> HIDE DEF r
<1>5. Types'
  BY <1>1, <1>2, <1>4 DEF IInv, Types
<1>6. Working'
  BY <1>1, <1>3, <1>4 DEF Working, Tuning
<1>7. Settled'
  BY <1>1, <1>4 DEF IInv, Settled
<1>8. Freezing'
  BY <1>1 DEF IInv, Freezing
<1> QED BY <1>5, <1>6, <1>7, <1>8 DEF IInv

\* Where the worker goes from a drain.
LEMMA DrainedType ==
  ASSUME IInv, ~Tuning
  PROVE  DOMAIN Drained = WorkerFields /\ Drained.pc # "copy" /\ Drained.goal.kind \notin {"set", "reset"}
<1>1. DOMAIN w = WorkerFields /\ w.goal.kind \notin {"set", "reset"}
  BY DEF IInv, Types, Tuning
<1>2. CASE w.goal.kind = "none"
  BY <1>2, ReceivingType DEF Drained
<1>3. CASE w.goal.kind # "none" /\ ~w.wait
  BY <1>1, <1>3 DEF Drained, WorkerFields
<1>4. CASE w.goal.kind # "none" /\ w.wait
  BY <1>1, <1>4 DEF Drained, WorkerFields
<1> QED BY <1>2, <1>3, <1>4

LEMMA DrainingIsNoTuning == ASSUME IInv, Draining PROVE ~Tuning /\ w.pc # "copy"
  BY DEF IInv, Working, Draining

LEMMA RestIInv == ASSUME IInv, Rest PROVE IInv'
<1>1. Draining /\ w' = Drained /\ UNCHANGED <<settings, began, lock, tap, press, frozen, asked, recording>>
  BY DEF Rest, tuned, records, input
<1>2. ~Tuning' /\ DOMAIN w' = WorkerFields /\ w'.pc # "copy" /\ w.pc # "copy"
  BY <1>1, DrainingIsNoTuning, DrainedType DEF Tuning
<1> QED BY <1>1, <1>2, WorkerMoves

LEMMA SendIInv == ASSUME IInv, Send PROVE IInv'
<1>1. UNCHANGED <<settings, began, lock, tap, press, frozen, asked, recording>>
  BY DEF Send, tuned, records, input
<1> DEFINE Sends(frame, chunks) ==
             w' = [w EXCEPT !.pc = "send", !.send = frame, !.conn = conn, !.left = chunks]
           batch == [kind |-> "batch", take |-> Peek(buffer)]
           answer == IF w.goal.kind = "control" THEN Status(recording) ELSE Result
<1>2. \/ Draining /\ Sends(batch, Chunks(Peek(buffer)))
      \/ w.pc = "answer" /\ Sends(answer, 1)
  BY DEF Send
<1>3. ASSUME NEW frame, NEW chunks, Sends(frame, chunks)
      PROVE  /\ DOMAIN w' = WorkerFields /\ w'.pc = "send" /\ w'.goal = w.goal
             /\ w'.send = frame
  BY <1>3 DEF IInv, Types, WorkerFields
<1> HIDE DEF Sends, batch
<1>4. CASE Draining /\ Sends(batch, Chunks(Peek(buffer)))
  BY <1>1, <1>3, <1>4, DrainingIsNoTuning, WorkerMoves DEF Tuning
<1>5. CASE w.pc = "answer" /\ Sends(answer, 1)
  <2>1. answer.kind # "batch"
    BY DEF Status, Result
  <2> HIDE DEF answer
  <2> QED BY <1>1, <1>3, <1>5, <2>1, WorkerMoves
<1> QED BY <1>2, <1>4, <1>5

LEMMA NotifyIInv == ASSUME IInv, Notify PROVE IInv'
<1>1. w.pc = "send" /\ UNCHANGED <<settings, began, lock, tap, press, frozen, asked, recording>>
  BY DEF Notify, tuned, input
<1>2. DOMAIN w = WorkerFields /\ (w.send.kind = "batch" => ~Tuning)
  BY <1>1 DEF IInv, Types, Working
<1>3. \/ w' = [w EXCEPT !.left = w.left - 1]
      \/ w.send.kind = "batch" /\ w' = [w EXCEPT !.pc = "drain", !.send = NoSend]
      \/ w' = Receiving
  BY DEF Notify
<1>4. CASE w' = [w EXCEPT !.left = w.left - 1]
  <2>1. DOMAIN w' = WorkerFields /\ w'.pc = "send" /\ w'.send = w.send /\ w'.goal = w.goal
    BY <1>1, <1>2, <1>4 DEF WorkerFields
  <2> QED BY <1>1, <1>2, <2>1, WorkerMoves DEF Tuning
<1>5. CASE w.send.kind = "batch" /\ w' = [w EXCEPT !.pc = "drain", !.send = NoSend]
  <2>1. DOMAIN w' = WorkerFields /\ w'.pc = "drain" /\ w'.goal = w.goal
    BY <1>2, <1>5 DEF WorkerFields
  <2> QED BY <1>1, <1>2, <1>5, <2>1, WorkerMoves DEF Tuning
<1>6. CASE w' = Receiving
  BY <1>1, <1>6, ReceivingType, WorkerMoves DEF Tuning
<1> QED BY <1>3, <1>4, <1>5, <1>6

LEMMA SendFailsIInv == ASSUME IInv, SendFails PROVE IInv'
<1>1. /\ w.pc = "send" /\ UNCHANGED <<settings, began, lock, tap, press, frozen, asked, recording>>
      /\ w' = IF w.send.kind = "batch" THEN Drained ELSE Receiving
  BY DEF SendFails, tuned, input
<1>2. ~Tuning' /\ DOMAIN w' = WorkerFields /\ w'.pc # "copy"
  <2>1. CASE w.send.kind = "batch"
    <3>1. ~Tuning
      BY <1>1, <2>1 DEF IInv, Working
    <3> QED BY <1>1, <2>1, <3>1, DrainedType DEF Tuning
  <2>2. CASE w.send.kind # "batch"
    BY <1>1, <2>2, ReceivingType DEF Tuning
  <2> QED BY <2>1, <2>2
<1> QED BY <1>1, <1>2, WorkerMoves

LEMMA LockNextIInv == ASSUME IInv, LockNext PROVE IInv'
<1> DEFINE p == CHOOSE p \in Wanted : \A q \in Wanted : p <= q
<1>1. /\ w.pc = "lock" /\ lock[p] = "free" /\ lock' = [lock EXCEPT ![p] = "worker"]
      /\ UNCHANGED <<settings, began, tap, press, frozen, recording, w, asked>>
  BY DEF LockNext, tuned, records, input, Free
<1> HIDE DEF p
<1>2. lock \in [Pipelines -> {"free", "frame", "worker"}]
  BY DEF IInv, Types
<1>3. /\ lock' \in [Pipelines -> {"free", "frame", "worker"}]
      /\ \A q \in Pipelines : lock'[q] = "frame" <=> lock[q] = "frame"
  BY <1>1, <1>2
<1>4. Types'
  BY <1>1, <1>3 DEF IInv, Types
<1>5. Working'
  BY <1>1 DEF IInv, Working, Tuning
<1>6. Settled'
  BY <1>1, <1>3 DEF IInv, Settled
<1>7. Freezing'
  BY <1>1, <1>3 DEF IInv, Freezing
<1> QED BY <1>4, <1>5, <1>6, <1>7 DEF IInv

\* The worker has every lock when it has none left to take.
LEMMA AllLocked ==
  ASSUME IInv, Wanted = {}
  PROVE  \A p \in Pipelines : lock[p] = "worker"
  BY DEF Wanted, Locks, Held

LEMMA ReleasedType ==
  ASSUME IInv, \A p \in Pipelines : lock[p] = "worker"
  PROVE  Released = [p \in Pipelines |-> "free"]
  BY DEF Released, Held, Free

LEMMA StartIInv == ASSUME IInv, Start PROVE IInv'
<1> DEFINE p == w.goal.target
<1>1. /\ w.pc = "lock" /\ Wanted = {} /\ w.goal.kind = "control"
      /\ tap' = [tap EXCEPT ![p] = Restarted(tap[p])]
      /\ lock' = Released
      /\ w' = [w EXCEPT !.pc = "answer"]
      /\ UNCHANGED <<settings, began, press, frozen, asked>>
  BY DEF Start
<1>2. \A q \in Pipelines : lock[q] = "worker"
  BY <1>1, AllLocked
<1>3. lock' = [q \in Pipelines |-> "free"]
  BY <1>1, <1>2, ReleasedType
<1>4. tap' \in [Pipelines -> Taps] /\ \A q \in Pipelines : ~tap'[q].frozen
  <2>1. tap \in [Pipelines -> Taps] /\ \A q \in Pipelines : ~tap[q].frozen
    BY <1>2, FreeIsThawed DEF IInv, Types
  <2>2. \A q \in Pipelines : Restarted(tap[q]) \in Taps /\ ~Restarted(tap[q]).frozen
    BY <2>1, RestartedType
  <2> QED BY <1>1, <2>1, <2>2
<1>5. DOMAIN w' = WorkerFields /\ w'.pc = "answer" /\ w'.goal = w.goal
  BY <1>1 DEF IInv, Types, WorkerFields
<1>6. Types'
  BY <1>1, <1>3, <1>4, <1>5 DEF IInv, Types
<1>7. Working'
  BY <1>5 DEF Working
<1>8. Settled'
  BY <1>1, <1>3, <1>5 DEF IInv, Settled
<1>9. Freezing'
  BY <1>4 DEF Freezing
<1> QED BY <1>6, <1>7, <1>8, <1>9 DEF IInv

LEMMA CopyFirstIInv == ASSUME IInv, CopyFirst PROVE IInv'
<1> DEFINE p == w.goal.target
           c == settings[p]
           d == [c EXCEPT !["low"] = Candidate["low"]]
<1>1. /\ w.pc = "lock" /\ Wanted = {} /\ Tuning
      /\ settings' = [settings EXCEPT ![p]["low"] = Candidate["low"]]
      /\ w' = [w EXCEPT !.pc = "copy"]
      /\ UNCHANGED <<began, tap, lock, press, frozen, recording, asked>>
  BY DEF CopyFirst, Tuning, records, input
<1>2. \A q \in Pipelines : lock[q] = "worker"
  BY <1>1, AllLocked
<1>3. /\ settings \in [Pipelines -> Configs] /\ p \in Pipelines /\ c \in Configs
      /\ Candidate \in Configs
  BY <1>1, CandidateType DEF IInv, Types
<1>4. d \in Configs
  BY <1>3 DEF Configs, Params
<1>5. /\ settings' \in [Pipelines -> Configs] /\ settings'[p] = d
      /\ \A q \in Pipelines : q # p => settings'[q] = settings[q]
  BY <1>1, <1>3, <1>4
<1>6. DOMAIN w' = WorkerFields /\ w'.pc = "copy" /\ w'.goal = w.goal
  BY <1>1 DEF IInv, Types, WorkerFields
<1>7. Types'
  BY <1>1, <1>5, <1>6 DEF IInv, Types
<1>8. ASSUME w.goal.kind = "set" PROVE Applies(settings'[p], w.goal.values)
  <2>1. Applies(c, w.goal.values)
    BY <1>1, <1>8 DEF IInv, Working
  <2>2. Candidate = Prepared(c, w.goal.values)
    BY <1>8 DEF Candidate
  <2> HIDE DEF c
  <2> QED BY <1>3, <1>5, <2>1, <2>2, AppliesHalfway
<1>9. Working'
  BY <1>1, <1>2, <1>3, <1>6, <1>8 DEF Working, Tuning
<1>10. Settled'
  BY <1>1, <1>2, <1>5, <1>6 DEF IInv, Settled
<1>11. Freezing'
  BY <1>1 DEF IInv, Freezing
<1> QED BY <1>7, <1>9, <1>10, <1>11 DEF IInv

LEMMA CopyLastIInv == ASSUME IInv, CopyLast PROVE IInv'
<1> DEFINE p == w.goal.target
<1>1. /\ w.pc = "copy"
      /\ settings' = [settings EXCEPT ![p] = Candidate]
      /\ lock' = Released
      /\ w' = [w EXCEPT !.pc = "answer"]
      /\ UNCHANGED <<began, recording, tap, press, frozen, asked>>
  BY DEF CopyLast, input
<1>2. Tuning /\ \A q \in Pipelines : lock[q] = "worker"
  BY <1>1 DEF IInv, Working
<1>3. settings \in [Pipelines -> Configs] /\ p \in Pipelines /\ Candidate \in Configs /\ Valid(Candidate)
  BY <1>1, <1>2, CandidateType DEF IInv, Types
<1>4. /\ settings' \in [Pipelines -> Configs] /\ settings'[p] = Candidate
      /\ \A q \in Pipelines : q # p => settings'[q] = settings[q]
  BY <1>1, <1>3
<1>5. lock' = [q \in Pipelines |-> "free"]
  BY <1>1, <1>2, ReleasedType
<1>6. DOMAIN w' = WorkerFields /\ w'.pc = "answer"
  BY <1>1 DEF IInv, Types, WorkerFields
<1>7. Types'
  BY <1>1, <1>4, <1>5, <1>6 DEF IInv, Types
<1>8. Working'
  BY <1>6 DEF Working
<1>9. Settled'
  BY <1>1, <1>3, <1>4, <1>5, <1>6 DEF IInv, Settled
<1>10. Freezing'
  <2>1. \A q \in Pipelines : ~tap'[q].frozen
    BY <1>1, <1>2, FreeIsThawed
  <2> QED BY <2>1 DEF Freezing
<1> QED BY <1>7, <1>8, <1>9, <1>10 DEF IInv

LEMMA StepIInv == IInv /\ [Next]_vars => IInv'
<1> SUFFICES ASSUME IInv, [Next]_vars PROVE IInv'
  OBVIOUS
<1> USE DEF tuned, records, input, link
<1>1. press \in Nat /\ (asked = <<>> \/ \E r \in Requests : asked = <<r>>)
  BY DEF IInv, Types
<1>2. ASSUME NEW p \in Pipelines,
             \/ \E source \in Sources, rested \in BOOLEAN : Frame(p, source, rested)
             \/ Flush(p) \/ Unrecorded(p) \/ Route(p) \/ Submit(p) \/ End(p)
      PROVE  IInv'
  <2>1. CASE Submit(p)
    BY <1>1, <2>1, ElsewhereMoves DEF Submit
  <2> QED BY <1>2, <2>1, FrameIInv, FlushIInv, UnrecordedIInv, RouteIInv, EndIInv
<1>3. CASE KeyPress
  <2>1. press' \in Nat
    BY <1>1, <1>3 DEF KeyPress
  <2> QED BY <1>1, <1>3, <2>1, ElsewhereMoves DEF KeyPress
<1>4. CASE Wake
  BY <1>4, ReceivingType, WorkerMoves DEF Wake, Tuning
<1>5. CASE TimedOut
  BY <1>5, ReceivingType, WorkerMoves DEF TimedOut, Tuning
<1>6. CASE Sent
  BY <1>1, <1>6, ElsewhereMoves DEF Sent
<1>7. CASE Disconnect
  BY <1>1, <1>7, ElsewhereMoves DEF Disconnect
<1>8. ASSUME NEW r \in Controls \cup Changes, Ask(r) PROVE IInv'
  <2>1. r \in Requests
    BY DEF Controls, Requests
  <2>2. asked' = <<r>> /\ UNCHANGED <<tuned, records, lock, input, w>>
    BY <1>8 DEF Ask
  <2> QED BY <1>1, <2>1, <2>2, ElsewhereMoves
<1>9. CASE UNCHANGED vars
  BY <1>1, <1>9, ElsewhereMoves DEF vars
<1>10. CASE Receive \/ Rest \/ Send \/ Notify \/ SendFails \/ LockNext \/ Start \/ CopyFirst \/ CopyLast
  BY <1>10, ReceiveIInv, RestIInv, SendIInv, NotifyIInv, SendFailsIInv, LockNextIInv, StartIInv,
     CopyFirstIInv, CopyLastIInv
<1> QED BY <1>2, <1>3, <1>4, <1>5, <1>6, <1>7, <1>8, <1>9, <1>10 DEF Next

LEMMA Invariance == Spec => []IInv
  BY InitIInv, StepIInv, PTL DEF Spec

-----------------------------------------------------------------------------
(* The buffer.                                                               *)

Sequence(s) == \E S : s \in Seq(S)

LEMMA LengthOf ==
  ASSUME NEW s, Sequence(s)
  PROVE  Len(s) \in Nat /\ DOMAIN s = 1..Len(s) /\ (s = <<>> <=> Len(s) = 0)
<1>1. PICK S : s \in Seq(S)
  BY DEF Sequence
<1> QED BY <1>1

LEMMA Joined ==
  ASSUME NEW s, NEW t, Sequence(s), Sequence(t)
  PROVE  /\ Sequence(s \o t) /\ Len(s \o t) = Len(s) + Len(t)
         /\ \A i \in 1..Len(s) : (s \o t)[i] = s[i]
         /\ \A i \in 1..Len(t) : (s \o t)[Len(s) + i] = t[i]
<1>1. PICK S : s \in Seq(S)
  BY DEF Sequence
<1>2. PICK T : t \in Seq(T)
  BY DEF Sequence
<1>3. s \in Seq(S \cup T) /\ t \in Seq(S \cup T)
  BY <1>1, <1>2, SeqMonotonic
<1>4. s \o t \in Seq(S \cup T)
  BY <1>3, ConcatProperties
<1>5. Sequence(s \o t)
  BY <1>4 DEF Sequence
<1> QED BY <1>3, <1>5, ConcatProperties, LenProperties

LEMMA JoinedOne ==
  ASSUME NEW s, NEW x, Sequence(s)
  PROVE  /\ Sequence(s \o <<x>>) /\ Len(s \o <<x>>) = Len(s) + 1
         /\ \A i \in 1..Len(s) : (s \o <<x>>)[i] = s[i]
         /\ (s \o <<x>>)[Len(s) + 1] = x
<1> DEFINE e == <<x>>
<1>1. e \in Seq({x}) /\ Len(e) = 1 /\ e[1] = x
  OBVIOUS
<1> HIDE DEF e
<1>2. Sequence(e) /\ 1 \in 1..Len(e)
  BY <1>1 DEF Sequence
<1>3. /\ Sequence(s \o e) /\ Len(s \o e) = Len(s) + Len(e)
      /\ \A i \in 1..Len(s) : (s \o e)[i] = s[i]
      /\ \A i \in 1..Len(e) : (s \o e)[Len(s) + i] = e[i]
  BY <1>2, Joined
<1>4. (s \o e)[Len(s) + 1] = x
  BY <1>1, <1>2, <1>3
<1>5. /\ Sequence(s \o e) /\ Len(s \o e) = Len(s) + 1
      /\ \A i \in 1..Len(s) : (s \o e)[i] = s[i]
      /\ (s \o e)[Len(s) + 1] = x
  BY <1>1, <1>3, <1>4
<1> QED BY <1>5 DEF e

LEMMA JoinedTwo ==
  ASSUME NEW s, NEW x, NEW y, Sequence(s)
  PROVE  /\ Sequence(s \o (<<x>> \o <<y>>)) /\ Len(s \o (<<x>> \o <<y>>)) = Len(s) + 2
         /\ \A i \in 1..Len(s) : (s \o (<<x>> \o <<y>>))[i] = s[i]
         /\ (s \o (<<x>> \o <<y>>))[Len(s) + 1] = x
         /\ (s \o (<<x>> \o <<y>>))[Len(s) + 2] = y
<1> DEFINE d == <<x>>
           e == d \o <<y>>
<1>1. d \in Seq({x}) /\ Len(d) = 1 /\ d[1] = x
  OBVIOUS
<1> HIDE DEF d
<1>2. Sequence(d)
  BY <1>1 DEF Sequence
<1>3. /\ Sequence(e) /\ Len(e) = Len(d) + 1
      /\ \A i \in 1..Len(d) : e[i] = d[i]
      /\ e[Len(d) + 1] = y
  BY <1>2, JoinedOne
<1> HIDE DEF e
<1>4. Len(e) = 2 /\ 1 \in 1..Len(e) /\ 2 \in 1..Len(e) /\ e[1] = x /\ e[2] = y
  BY <1>1, <1>3
<1>5. Sequence(e)
  BY <1>3
<1>6. /\ Sequence(s \o e) /\ Len(s \o e) = Len(s) + Len(e)
      /\ \A i \in 1..Len(s) : (s \o e)[i] = s[i]
      /\ \A i \in 1..Len(e) : (s \o e)[Len(s) + i] = e[i]
  BY <1>5, Joined
<1>7. /\ Sequence(s \o e) /\ Len(s \o e) = Len(s) + 2
      /\ \A i \in 1..Len(s) : (s \o e)[i] = s[i]
      /\ (s \o e)[Len(s) + 1] = x /\ (s \o e)[Len(s) + 2] = y
  BY <1>4, <1>6
<1> QED BY <1>7 DEF e, d

LEMMA Part ==
  ASSUME NEW s, Sequence(s), NEW m \in 1..(Len(s) + 1), NEW n \in 0..Len(s)
  PROVE  /\ Sequence(SubSeq(s, m, n))
         /\ Len(SubSeq(s, m, n)) = IF m <= n THEN n - m + 1 ELSE 0
         /\ \A i \in 1..(n - m + 1) : SubSeq(s, m, n)[i] = s[m + i - 1]
<1>1. PICK S : s \in Seq(S)
  BY DEF Sequence
<1>2. m \in Int /\ n \in Int /\ \A i \in m..n : s[i] \in S
  BY <1>1
<1>3. SubSeq(s, m, n) \in Seq(S)
  BY <1>2, SubSeqProperties
<1>4. Sequence(SubSeq(s, m, n))
  BY <1>3 DEF Sequence
<1> QED BY <1>2, <1>4, SubSeqProperties

LEMMA AfterFirst ==
  ASSUME NEW s, Sequence(s), s # <<>>
  PROVE  /\ Sequence(Tail(s)) /\ Len(Tail(s)) = Len(s) - 1 /\ Head(s) = s[1]
         /\ \A i \in 1..(Len(s) - 1) : Tail(s)[i] = s[i + 1]
<1>1. PICK S : s \in Seq(S)
  BY DEF Sequence
<1>2. Tail(s) \in Seq(S)
  BY <1>1, HeadTailProperties
<1>3. Sequence(Tail(s))
  BY <1>2 DEF Sequence
<1> QED BY <1>1, <1>3, HeadTailProperties

LEMMA Appended ==
  ASSUME NEW s, NEW e, Sequence(s)
  PROVE  /\ Sequence(Append(s, e)) /\ Len(Append(s, e)) = Len(s) + 1
         /\ \A i \in 1..Len(s) : Append(s, e)[i] = s[i]
         /\ Append(s, e)[Len(s) + 1] = e
<1>1. PICK S : s \in Seq(S)
  BY DEF Sequence
<1>2. s \in Seq(S \cup {e})
  BY <1>1, SeqMonotonic
<1>3. Append(s, e) \in Seq(S \cup {e})
  BY <1>2
<1>4. Sequence(Append(s, e))
  BY <1>3 DEF Sequence
<1> QED BY <1>2, <1>4

BufferFields == {"stored", "next", "out", "gap", "previous"}

\* A marker is followed by a record, which fits into a batch of its own.
Shaped(b) ==
  \A i \in 1..Len(b.stored) :
    /\ b.stored[i].marker \in BOOLEAN
    /\ b.stored[i].marker => /\ i < Len(b.stored) /\ ~b.stored[i + 1].marker
                             /\ b.stored[i].missing \in Nat
    /\ ~b.stored[i].marker => b.stored[i].size \in 0..WholeSize /\ b.stored[i].n \in Nat

\* The first record after the m-th slot, stored or yet to come, is number n when
\* what is missing before it is added.
StartsAt(b, m, n) ==
  IF m = Len(b.stored) THEN b.next = n + b.gap
  ELSE IF b.stored[m + 1].marker THEN b.stored[m + 2].n = n + b.stored[m + 1].missing
  ELSE b.stored[m + 1].n = n

\* Records are numbered one by one, markers account for the rest.
Numbered(b) ==
  /\ StartsAt(b, 0, b.out)
  /\ \A i \in 1..Len(b.stored) : ~b.stored[i].marker => StartsAt(b, i, b.stored[i].n + 1)
  /\ \A i, j \in 1..Len(b.stored) :
       i <= j /\ (\A k \in i..j : ~b.stored[k].marker) => b.stored[j].n = b.stored[i].n + (j - i)

BufferOK(b) ==
  /\ DOMAIN b = BufferFields
  /\ Sequence(b.stored) /\ b.next \in Nat /\ b.out \in Nat /\ b.gap \in Nat
  /\ Shaped(b) /\ Numbered(b)

LEMMA NewBufferOK == BufferOK(NewBuffer)
<1>1. Sequence(<<>>)
  BY DEF Sequence
<1>2. /\ DOMAIN NewBuffer = BufferFields /\ NewBuffer.stored = <<>> /\ NewBuffer.next = 1
      /\ NewBuffer.out = 1 /\ NewBuffer.gap = 0
  BY DEF NewBuffer, BufferFields
<1>3. Len(NewBuffer.stored) = 0
  BY <1>2
<1> QED BY <1>1, <1>2, <1>3 DEF BufferOK, Shaped, Numbered, StartsAt

LEMMA DiscardOK == ASSUME NEW b, BufferOK(b) PROVE BufferOK(Discard(b))
<1>1. Sequence(<<>>)
  BY DEF Sequence
<1> DEFINE d == Discard(b)
<1>2. /\ DOMAIN d = BufferFields /\ d.stored = <<>> /\ d.next = b.next
      /\ d.out = b.next /\ d.gap = 0
  BY DEF Discard, BufferOK, BufferFields
<1> HIDE DEF d
<1>3. Len(d.stored) = 0
  BY <1>2
<1>4. BufferOK(d)
  BY <1>1, <1>2, <1>3 DEF BufferOK, Shaped, Numbered, StartsAt
<1> QED BY <1>4 DEF d

\* Storing or dropping a record leaves alone what is to be told of those before it.
LEMMA PutOK ==
  ASSUME NEW b, NEW r, BufferOK(b)
  PROVE  /\ BufferOK(Put(b, r))
         /\ \A m \in 0..Len(b.stored), n \in Nat :
              StartsAt(b, m, n) => m \in 0..Len(Put(b, r).stored) /\ StartsAt(Put(b, r), m, n)
<1> DEFINE d == Put(b, r)
           s == b.stored
           t == d.stored
           new == Slot(r, b.next, IF r.kind = "frame" THEN b.previous ELSE NoFrame)
<1>1. /\ Sequence(s) /\ b.next \in Nat /\ b.out \in Nat /\ b.gap \in Nat
      /\ Shaped(b) /\ Numbered(b) /\ DOMAIN b = BufferFields
  BY DEF BufferOK
<1>2. Len(s) \in Nat /\ DOMAIN s = 1..Len(s)
  BY <1>1, LengthOf
<1>3. CASE ~Fits(b, r)
  <2>1. d = Dropped(b)
    BY <1>3 DEF Put
  <2>2. DOMAIN d = BufferFields /\ t = s /\ d.next = b.next + 1 /\ d.out = b.out /\ d.gap = b.gap + 1
    BY <1>1, <2>1 DEF Dropped, BufferFields
  <2> HIDE DEF d, s
  <2>3. \A m \in 0..Len(s), n \in Nat : StartsAt(b, m, n) => StartsAt(d, m, n)
    BY <1>1, <1>2, <2>2 DEF StartsAt, s
  <2>4. Shaped(d)
    BY <1>1, <2>2 DEF Shaped, s
  <2>5. \A i \in 1..Len(s) : ~s[i].marker => s[i].n + 1 \in Nat
    BY <1>1 DEF Shaped, s
  <2>6. Numbered(d)
    BY <1>1, <1>2, <2>2, <2>3, <2>5 DEF Numbered, s
  <2> QED BY <1>1, <1>2, <2>2, <2>3, <2>4, <2>6 DEF BufferOK, d, s
<1>4. CASE Fits(b, r)
  <2> DEFINE e == Encoded(b, r)
             l == Len(s)
  <2>0. l \in Nat /\ l = Len(b.stored)
    BY <1>2
  <2>1. /\ DOMAIN d = BufferFields /\ t = s \o e /\ d.next = b.next + 1 /\ d.out = b.out /\ d.gap = 0
    BY <1>1, <1>4 DEF Put, BufferFields
  <2>2. ~new.marker /\ new.n = b.next /\ new.size \in 0..WholeSize /\ new.marker \in BOOLEAN
    BY BufferAssumption DEF Slot
  <2> HIDE DEF d, new
  <2>3. CASE b.gap = 0
    <3>1. e = <<>> \o <<new>>
      BY <2>3 DEF Encoded, new
    <3>2. e = <<new>>
      <4> HIDE DEF e
      <4> QED BY <3>1
    <3> HIDE DEF e
    <3>3. /\ Sequence(t) /\ Len(t) = l + 1 /\ t[l + 1] = new
          /\ \A i \in 1..l : t[i] = s[i]
      BY <1>1, <2>1, <3>2, JoinedOne
    <3> HIDE DEF s, t, l
    <3>4. Shaped(d)
      <4> SUFFICES ASSUME NEW i \in 1..(l + 1)
                   PROVE  /\ t[i].marker \in BOOLEAN
                          /\ t[i].marker => i < l + 1 /\ ~t[i + 1].marker /\ t[i].missing \in Nat
                          /\ ~t[i].marker => t[i].size \in 0..WholeSize /\ t[i].n \in Nat
        BY <2>0, <3>3 DEF Shaped, t
      <4>1. CASE i = l + 1
        BY <1>1, <2>2, <3>3, <4>1
      <4>2. CASE i \in 1..l
        <5>1. /\ s[i].marker \in BOOLEAN
              /\ s[i].marker => i + 1 \in 1..l /\ ~s[i + 1].marker /\ s[i].missing \in Nat
              /\ ~s[i].marker => s[i].size \in 0..WholeSize /\ s[i].n \in Nat
          BY <1>1, <2>0, <4>2 DEF Shaped, s
        <5> QED BY <2>0, <3>3, <4>2, <5>1
      <4> QED BY <2>0, <4>1, <4>2
    <3>5. \A m \in 0..l, n \in Nat : StartsAt(b, m, n) => StartsAt(d, m, n)
      <4> SUFFICES ASSUME NEW m \in 0..l, NEW n \in Nat, StartsAt(b, m, n) PROVE StartsAt(d, m, n)
        OBVIOUS
      <4>1. CASE m = l
        BY <1>1, <2>0, <2>2, <2>3, <3>3, <4>1 DEF StartsAt, s, t
      <4>2. CASE m < l /\ s[m + 1].marker
        <5>1. m + 1 \in 1..l /\ m + 2 \in 1..l
          BY <1>1, <2>0, <4>2 DEF Shaped, s
        <5> QED BY <2>0, <3>3, <4>2, <5>1 DEF StartsAt, s, t
      <4>3. CASE m < l /\ ~s[m + 1].marker
        <5>1. t[m + 1] = s[m + 1] /\ m # Len(t) /\ m # Len(s)
          BY <2>0, <3>3, <4>3 DEF s
        <5> QED BY <4>3, <5>1 DEF StartsAt, s, t
      <4>4. m = l \/ m < l
        BY <2>0
      <4> QED BY <4>1, <4>2, <4>3, <4>4
    <3>6. Numbered(d)
      <4>1. StartsAt(d, 0, d.out)
        BY <1>1, <2>0, <2>1, <3>5 DEF Numbered
      <4>2. ASSUME NEW i \in 1..(l + 1), ~t[i].marker PROVE StartsAt(d, i, t[i].n + 1)
        <5>1. CASE i = l + 1
          <6>1. i = Len(d.stored) /\ t[i].n = b.next
            BY <2>2, <3>3, <5>1 DEF t
          <6> QED BY <1>1, <2>1, <6>1 DEF StartsAt
        <5>2. CASE i \in 1..l
          <6>1. StartsAt(b, i, s[i].n + 1) /\ s[i].n + 1 \in Nat
            BY <2>0, <1>1, <3>3, <4>2, <5>2 DEF Numbered, Shaped, s
          <6> QED BY <3>3, <3>5, <5>2, <6>1
        <5> QED BY <2>0, <5>1, <5>2
      <4>3. ASSUME NEW i \in 1..(l + 1), NEW j \in 1..(l + 1), i <= j, \A k \in i..j : ~t[k].marker
            PROVE  t[j].n = t[i].n + (j - i)
        <5>1. CASE j \in 1..l
          <6>1. \A k \in i..j : ~s[k].marker
            BY <2>0, <3>3, <4>3, <5>1
          <6>2. i \in 1..l /\ j \in 1..l
            BY <2>0, <4>3, <5>1
          <6> QED BY <2>0, <1>1, <3>3, <4>3, <6>1, <6>2 DEF Numbered, s
        <5>2. CASE j = l + 1 /\ i = l + 1
          BY <1>1, <2>0, <2>2, <3>3, <5>2
        <5>3. CASE j = l + 1 /\ i \in 1..l
          <6>1. l \in 1..l /\ i <= l /\ \A k \in i..l : ~s[k].marker
            BY <2>0, <3>3, <4>3, <5>3
          <6>2. s[l].n = s[i].n + (l - i) /\ StartsAt(b, l, s[l].n + 1)
            BY <2>0, <1>1, <5>3, <6>1 DEF Numbered, s
          <6>3. b.next = s[l].n + 1
            BY <1>1, <2>0, <2>3, <6>2, <6>1 DEF StartsAt, s, Shaped
          <6>4. s[i].n \in Nat
            BY <1>1, <2>0, <5>3, <6>1 DEF Shaped, s
          <6>5. t[i] = s[i] /\ t[j].n = b.next
            BY <2>2, <3>3, <5>3
          <6> QED BY <2>0, <5>3, <6>2, <6>3, <6>4, <6>5
        <5> QED BY <2>0, <5>1, <5>2, <5>3, <4>3
      <4> QED BY <2>0, <3>3, <4>1, <4>2, <4>3 DEF Numbered, t
    <3>7. BufferOK(d)
      BY <1>1, <2>1, <3>3, <3>4, <3>6 DEF BufferOK, t
    <3> QED BY <2>0, <3>3, <3>5, <3>7 DEF d, s, t
  <2>4. CASE b.gap # 0
    <3> DEFINE mark == Marker(b.gap)
    <3>1. e = <<mark>> \o <<new>>
      BY <1>1, <2>4 DEF Encoded, new
    <3>2. mark.marker /\ mark.missing = b.gap /\ mark.marker \in BOOLEAN
      BY DEF Marker
    <3> HIDE DEF e, mark
    <3>4. /\ Sequence(t) /\ Len(t) = l + 2 /\ t[l + 1] = mark /\ t[l + 2] = new
          /\ \A i \in 1..l : t[i] = s[i]
      <4>1. LET u == s \o (<<mark>> \o <<new>>)
            IN  /\ Sequence(u) /\ Len(u) = Len(s) + 2
                /\ \A i \in 1..Len(s) : u[i] = s[i]
                /\ u[Len(s) + 1] = mark /\ u[Len(s) + 2] = new
        <5>1. Sequence(s)
          BY <1>1
        <5> HIDE DEF s
        <5> QED BY <5>1, JoinedTwo
      <4>2. t = s \o (<<mark>> \o <<new>>)
        BY <2>1, <3>1
      <4> HIDE DEF t
      <4> QED BY <4>1, <4>2
    <3> HIDE DEF s, t, l
    <3>5. Shaped(d)
      <4> SUFFICES ASSUME NEW i \in 1..(l + 2)
                   PROVE  /\ t[i].marker \in BOOLEAN
                          /\ t[i].marker => i < l + 2 /\ ~t[i + 1].marker /\ t[i].missing \in Nat
                          /\ ~t[i].marker => t[i].size \in 0..WholeSize /\ t[i].n \in Nat
        BY <2>0, <3>4 DEF Shaped, t
      <4>1. CASE i = l + 1
        <5>1. t[i] = mark /\ i < l + 2 /\ i + 1 = l + 2
          BY <2>0, <3>4, <4>1
        <5>2. t[i + 1] = new
          BY <3>4, <5>1
        <5> QED BY <1>1, <2>2, <3>2, <5>1, <5>2
      <4>2. CASE i = l + 2
        BY <1>1, <2>2, <3>4, <4>2
      <4>3. CASE i \in 1..l
        <5>1. /\ s[i].marker \in BOOLEAN
              /\ s[i].marker => i + 1 \in 1..l /\ ~s[i + 1].marker /\ s[i].missing \in Nat
              /\ ~s[i].marker => s[i].size \in 0..WholeSize /\ s[i].n \in Nat
          BY <1>1, <2>0, <4>3 DEF Shaped, s
        <5> QED BY <2>0, <3>4, <4>3, <5>1
      <4> QED BY <2>0, <4>1, <4>2, <4>3
    <3>6. \A m \in 0..l, n \in Nat : StartsAt(b, m, n) => StartsAt(d, m, n)
      <4> SUFFICES ASSUME NEW m \in 0..l, NEW n \in Nat, StartsAt(b, m, n) PROVE StartsAt(d, m, n)
        OBVIOUS
      <4>1. CASE m = l
        <5>1. m # Len(t) /\ t[m + 1] = mark /\ t[m + 2] = new
          BY <2>0, <3>4, <4>1
        <5>2. b.next = n + b.gap
          BY <2>0, <4>1 DEF StartsAt
        <5> QED BY <2>2, <3>2, <5>1, <5>2 DEF StartsAt, t
      <4>2. CASE m < l /\ s[m + 1].marker
        <5>1. m + 1 \in 1..l /\ m + 2 \in 1..l
          BY <1>1, <2>0, <4>2 DEF Shaped, s
        <5>2. t[m + 1] = s[m + 1] /\ t[m + 2] = s[m + 2] /\ m # Len(t) /\ m # Len(s)
          BY <2>0, <3>4, <4>2, <5>1 DEF s
        <5> QED BY <2>0, <4>2, <5>2 DEF StartsAt, s, t
      <4>3. CASE m < l /\ ~s[m + 1].marker
        <5>1. t[m + 1] = s[m + 1] /\ m # Len(t) /\ m # Len(s)
          BY <2>0, <3>4, <4>3 DEF s
        <5> QED BY <4>3, <5>1 DEF StartsAt, s, t
      <4>4. m = l \/ m < l
        BY <2>0
      <4> QED BY <4>1, <4>2, <4>3, <4>4
    <3>7. Numbered(d)
      <4>1. StartsAt(d, 0, d.out)
        BY <1>1, <2>0, <2>1, <3>6 DEF Numbered
      <4>2. ASSUME NEW i \in 1..(l + 2), ~t[i].marker PROVE StartsAt(d, i, t[i].n + 1)
        <5>1. CASE i = l + 2
          BY <2>0, <1>1, <2>1, <2>2, <3>4, <5>1 DEF StartsAt, t
        <5>2. CASE i \in 1..l
          <6>1. StartsAt(b, i, s[i].n + 1) /\ s[i].n + 1 \in Nat
            BY <2>0, <1>1, <3>4, <4>2, <5>2 DEF Numbered, Shaped, s
          <6> QED BY <3>4, <3>6, <5>2, <6>1
        <5> QED BY <2>0, <3>2, <3>4, <4>2, <5>1, <5>2
      <4>3. ASSUME NEW i \in 1..(l + 2), NEW j \in 1..(l + 2), i <= j, \A k \in i..j : ~t[k].marker
            PROVE  t[j].n = t[i].n + (j - i)
        <5>1. CASE j \in 1..l
          <6>1. \A k \in i..j : ~s[k].marker
            BY <2>0, <3>4, <4>3, <5>1
          <6>2. i \in 1..l /\ j \in 1..l
            BY <2>0, <4>3, <5>1
          <6> QED BY <2>0, <1>1, <3>4, <4>3, <6>1, <6>2 DEF Numbered, s
        <5>2. CASE j \notin 1..l
          <6>1. j = l + 2 /\ i = l + 2
            BY <2>0, <3>2, <3>4, <4>3, <5>2
          <6> QED BY <1>1, <2>0, <2>2, <3>4, <6>1
        <5> QED BY <5>1, <5>2
      <4> QED BY <2>0, <3>4, <4>1, <4>2, <4>3 DEF Numbered, t
    <3>8. BufferOK(d)
      BY <1>1, <2>1, <3>4, <3>5, <3>7 DEF BufferOK, t
    <3> QED BY <2>0, <3>4, <3>6, <3>8 DEF d, s, t
  <2> QED BY <2>3, <2>4
<1> QED BY <1>3, <1>4

LEMMA ConsumeOK ==
  ASSUME NEW b, NEW take, BufferOK(b), take.slots \in 0..Len(b.stored),
         take.sequence + Len(take.records) \in Nat,
         StartsAt(b, take.slots, take.sequence + Len(take.records))
  PROVE  BufferOK(Consume(b, take))
<1> DEFINE d == Consume(b, take)
           s == b.stored
           t == d.stored
           m == take.slots
           o == take.sequence + Len(take.records)
<1>1. /\ Sequence(s) /\ b.next \in Nat /\ b.gap \in Nat
      /\ Shaped(b) /\ Numbered(b) /\ DOMAIN b = BufferFields
  BY DEF BufferOK
<1>2. Len(s) \in Nat /\ m \in 0..Len(s) /\ m + 1 \in 1..(Len(s) + 1) /\ Len(s) \in 0..Len(s)
  BY <1>1, LengthOf
<1>3. /\ DOMAIN d = BufferFields /\ t = SubSeq(s, m + 1, Len(s)) /\ d.next = b.next
      /\ d.out = o /\ d.gap = b.gap
  BY <1>1 DEF Consume, BufferFields
<1>4. o \in Nat /\ StartsAt(b, m, o)
  OBVIOUS
<1> HIDE DEF d, m, o
<1>5. /\ Sequence(SubSeq(s, m + 1, Len(s)))
      /\ Len(SubSeq(s, m + 1, Len(s))) = IF m + 1 <= Len(s) THEN Len(s) - (m + 1) + 1 ELSE 0
      /\ \A i \in 1..(Len(s) - (m + 1) + 1) : SubSeq(s, m + 1, Len(s))[i] = s[m + 1 + i - 1]
  <2> HIDE DEF s
  <2> QED BY <1>1, <1>2, Part
<1>6. /\ Sequence(t) /\ Len(t) = Len(s) - m
      /\ \A i \in 1..(Len(s) - m) : t[i] = s[m + i] /\ m + i \in 1..Len(s)
  <2> HIDE DEF s, t
  <2> QED BY <1>2, <1>3, <1>5
<1> HIDE DEF s, t
<1>7. Shaped(d)
  <2> SUFFICES ASSUME NEW i \in 1..Len(t)
               PROVE  /\ t[i].marker \in BOOLEAN
                      /\ t[i].marker => i < Len(t) /\ ~t[i + 1].marker /\ t[i].missing \in Nat
                      /\ ~t[i].marker => t[i].size \in 0..WholeSize /\ t[i].n \in Nat
    BY DEF Shaped, t
  <2>1. t[i] = s[m + i] /\ m + i \in 1..Len(s)
    BY <1>6
  <2>2. /\ s[m + i].marker \in BOOLEAN
        /\ s[m + i].marker => m + i < Len(s) /\ ~s[m + i + 1].marker /\ s[m + i].missing \in Nat
        /\ ~s[m + i].marker => s[m + i].size \in 0..WholeSize /\ s[m + i].n \in Nat
    BY <1>1, <2>1 DEF Shaped, s
  <2>3. ASSUME m + i < Len(s) PROVE t[i + 1] = s[m + i + 1] /\ i < Len(t)
    <3>1. i + 1 \in 1..(Len(s) - m) /\ m + (i + 1) = m + i + 1
      BY <1>2, <1>6, <2>3
    <3>2. t[i + 1] = s[m + (i + 1)]
      BY <1>6, <3>1
    <3>3. i < Len(t)
      BY <1>2, <1>6, <3>1
    <3> QED BY <3>1, <3>2, <3>3
  <2> QED BY <2>1, <2>2, <2>3
<1>8. ASSUME NEW i \in 0..Len(t), NEW n \in Nat, StartsAt(b, m + i, n) PROVE StartsAt(d, i, n)
  <2>1. CASE i = Len(t)
    <3>1. m + i = Len(s)
      BY <1>2, <1>6, <2>1
    <3> QED BY <1>3, <1>8, <2>1, <3>1 DEF StartsAt, s, t
  <2>2. CASE i < Len(t)
    <3>1. m + i # Len(s) /\ i + 1 \in 1..(Len(s) - m) /\ m + (i + 1) = m + i + 1 /\ m + i + 1 \in 1..Len(s)
      BY <1>2, <1>6, <2>2
    <3>2. t[i + 1] = s[m + i + 1]
      BY <1>6, <3>1
    <3>3. CASE s[m + i + 1].marker
      <4>1. m + i + 1 < Len(s)
        BY <1>1, <3>1, <3>3 DEF Shaped, s
      <4>2. i + 2 \in 1..(Len(s) - m) /\ m + (i + 2) = m + i + 2
        BY <1>2, <1>6, <4>1
      <4>3. t[i + 2] = s[m + i + 2]
        BY <1>6, <4>2
      <4> QED BY <1>8, <2>2, <3>1, <3>2, <3>3, <4>3 DEF StartsAt, s, t
    <3>4. CASE ~s[m + i + 1].marker
      BY <1>8, <2>2, <3>1, <3>2, <3>4 DEF StartsAt, s, t
    <3> QED BY <3>3, <3>4
  <2>3. i = Len(t) \/ i < Len(t)
    BY <1>2, <1>6
  <2> QED BY <2>1, <2>2, <2>3
<1>9. Numbered(d)
  <2>1. StartsAt(d, 0, d.out)
    <3>1. 0 \in 0..Len(t) /\ m + 0 = m
      BY <1>2, <1>6
    <3> QED BY <1>3, <1>4, <1>8, <3>1
  <2>2. ASSUME NEW i \in 1..Len(t), ~t[i].marker PROVE StartsAt(d, i, t[i].n + 1)
    <3>1. t[i] = s[m + i] /\ m + i \in 1..Len(s)
      BY <1>6
    <3>2. StartsAt(b, m + i, s[m + i].n + 1) /\ s[m + i].n + 1 \in Nat
      BY <1>1, <2>2, <3>1 DEF Numbered, Shaped, s
    <3> QED BY <1>8, <3>1, <3>2
  <2>3. ASSUME NEW i \in 1..Len(t), NEW j \in 1..Len(t), i <= j, \A k \in i..j : ~t[k].marker
        PROVE  t[j].n = t[i].n + (j - i)
    <3>1. t[i] = s[m + i] /\ t[j] = s[m + j] /\ m + i \in 1..Len(s) /\ m + j \in 1..Len(s)
      BY <1>6
    <3>2. m + i <= m + j /\ (m + j) - (m + i) = j - i
      BY <1>2, <2>3
    <3>3. \A k \in (m + i)..(m + j) : ~s[k].marker
      <4> TAKE k \in (m + i)..(m + j)
      <4>1. k - m \in i..j /\ k - m \in 1..(Len(s) - m) /\ m + (k - m) = k
        BY <1>2, <1>6
      <4>2. t[k - m] = s[k]
        BY <1>6, <4>1
      <4> QED BY <2>3, <4>1, <4>2
    <3>4. s[m + j].n = s[m + i].n + ((m + j) - (m + i))
      BY <1>1, <3>1, <3>2, <3>3 DEF Numbered, s
    <3> QED BY <3>1, <3>2, <3>4
  <2> QED BY <2>1, <2>2, <2>3 DEF Numbered, t
<1>10. BufferOK(d)
  BY <1>1, <1>3, <1>4, <1>6, <1>7, <1>9 DEF BufferOK, t
<1> QED BY <1>10 DEF d

\* A set of lengths has a longest.
LEMMA Longest ==
  ASSUME NEW l \in Nat, NEW S \in SUBSET (1..l), S # {}
  PROVE  \E k \in S : \A j \in S : j <= k
<1> DEFINE Less == {e \in Nat \X Nat : e[1] < e[2]}
           T == {l - k : k \in S}
<1>1. IsWellFoundedOn(Less, Nat)
  BY NatLessThanWellFounded DEF OpToRel
<1>2. T \subseteq Nat /\ T # {}
  <2>1. \A k \in S : l - k \in Nat
    OBVIOUS
  <2> QED BY <2>1
<1>3. PICK x \in T : \A y \in T : <<y, x>> \notin Less
  <2> HIDE DEF Less, T
  <2> QED BY <1>1, <1>2, WFMin
<1>4. PICK k \in S : x = l - k
  BY <1>3
<1>5. ASSUME NEW j \in S PROVE j <= k
  <2>1. l - j \in T /\ l - j \in Nat /\ x \in Nat /\ j \in Nat /\ k \in Nat
    BY <1>2
  <2>2. ~(l - j < x)
    BY <1>3, <2>1
  <2> QED BY <1>4, <2>1, <2>2
<1> QED BY <1>5

\* A batch of its own has room for any record.
LEMMA OneFits ==
  ASSUME NEW e, NEW x, Len(e) = 1, DOMAIN e = 1..1, e[1] = x
  PROVE  Used(e) <= BatchSize
<1> DEFINE U == {unit \in (DOMAIN e) \X (1..WholeSize) : unit[2] <= e[unit[1]].size}
           V == (1..1) \X (1..WholeSize)
<1>1. U \in SUBSET V
  OBVIOUS
<1>2. WholeSize \in Nat \ {0} /\ BatchSize \in Nat /\ BatchSize >= WholeSize
  BY BufferAssumption
<1>3. /\ IsFiniteSet(1..1) /\ IsFiniteSet(1..WholeSize)
      /\ Cardinality(1..1) = 1 /\ Cardinality(1..WholeSize) = WholeSize
  <2>1. 1 \in Int /\ WholeSize \in Int /\ ~(1 > 1) /\ ~(1 > WholeSize)
    BY <1>2
  <2>2. /\ IsFiniteSet(1..1) /\ Cardinality(1..1) = 1 - 1 + 1
        /\ IsFiniteSet(1..WholeSize) /\ Cardinality(1..WholeSize) = WholeSize - 1 + 1
    BY <2>1, FS_Interval, Zenon
  <2> QED BY <1>2, <2>2
<1>4. IsFiniteSet(V) /\ Cardinality(V) = 1 * WholeSize
  <2>1. IsFiniteSet(V) /\ Cardinality(V) = Cardinality(1..1) * Cardinality(1..WholeSize)
    BY <1>3, FS_Product, Zenon
  <2> QED BY <1>3, <2>1
<1>5. Cardinality(U) <= Cardinality(V) /\ IsFiniteSet(U)
  <2> HIDE DEF U, V
  <2> QED BY <1>1, <1>4, FS_Subset
<1>6. Cardinality(U) \in Nat
  <2> HIDE DEF U
  <2> QED BY <1>5, FS_CardinalityType
<1>7. Cardinality(U) <= BatchSize
  <2> HIDE DEF U, V
  <2> QED BY <1>2, <1>4, <1>5, <1>6
<1> QED BY <1>7 DEF Used

\* The records of a batch have the numbers the host will count, and when anything
\* is stored there is at least one.
Consecutive(take) ==
  /\ take.sequence \in Nat /\ Sequence(take.records)
  /\ \A i \in 1..Len(take.records) : take.records[i].n = take.sequence + i - 1

\* A batch is the first slots of the buffer, without the marker they may start with.
PrefixOf(b, take) ==
  /\ take.slots \in 0..Len(b.stored) /\ Sequence(take.records)
  /\ \E f \in {0, 1} :
       /\ f <= take.slots /\ Len(take.records) = take.slots - f
       /\ \A i \in 1..Len(take.records) :
            take.records[i] = b.stored[f + i] /\ ~take.records[i].marker
       /\ IF f = 0 THEN take.sequence = b.out ELSE b.stored[1].marker

LEMMA PeekOK ==
  ASSUME NEW b, BufferOK(b)
  PROVE  LET take == Peek(b)
         IN  /\ Consecutive(take) /\ PrefixOf(b, take)
             /\ take.slots \in 0..Len(b.stored)
             /\ StartsAt(b, take.slots, take.sequence + Len(take.records))
             /\ b.stored # <<>> => take.records # <<>>
<1> DEFINE s == b.stored
           B == Batchable(s)
           most == IF B = {} THEN 0 ELSE CHOOSE k \in B : \A j \in B : j <= k
           taken == SubSeq(s, 1, most)
           skip == IF most > 0 /\ s[1].marker THEN s[1].missing ELSE 0
           recs == RecordsIn(taken)
           first == IF most > 0 /\ s[1].marker THEN 2 ELSE 1
           take == Peek(b)
<1>1. /\ Sequence(s) /\ b.out \in Nat /\ Shaped(b) /\ Numbered(b)
  BY DEF BufferOK
<1>2. Len(s) \in Nat /\ (s = <<>> <=> Len(s) = 0)
  BY <1>1, LengthOf
<1>3. take.sequence = b.out + skip /\ take.records = recs /\ take.slots = most
  BY DEF Peek
<1>4. B \in SUBSET (1..Len(s))
  BY DEF Batchable
<1>5. B # {} => most \in B /\ \A j \in B : j <= most
  <2> HIDE DEF B
  <2>1. ASSUME B # {} PROVE \E k \in B : \A j \in B : j <= k
    <3> HIDE DEF s
    <3> QED BY <1>2, <1>4, <2>1, Longest
  <2> QED BY <2>1
<1>6. most \in 0..Len(s)
  <2> HIDE DEF B
  <2>1. CASE B = {}
    BY <1>2, <2>1
  <2>2. CASE B # {}
    <3> HIDE DEF most
    <3>1. most \in B
      BY <1>5, <2>2
    <3>2. most \in 1..Len(s)
      BY <1>4, <3>1
    <3> QED BY <1>2, <3>2
  <2> QED BY <2>1, <2>2
<1>7. \A i \in 2..most : ~s[i].marker
  <2>1. CASE B = {}
    BY <2>1
  <2>2. CASE B # {}
    <3>1. most \in B
      BY <1>5, <2>2
    <3> HIDE DEF most
    <3> QED BY <3>1 DEF Batchable
  <2> QED BY <2>1, <2>2
<1> HIDE DEF most, B
<1>8. Sequence(taken) /\ Len(taken) = most /\ \A i \in 1..most : taken[i] = s[i]
  <2>1. 1 \in 1..(Len(s) + 1)
    BY <1>2
  <2>2. /\ Sequence(taken) /\ Len(taken) = IF 1 <= most THEN most - 1 + 1 ELSE 0
        /\ \A i \in 1..(most - 1 + 1) : taken[i] = s[1 + i - 1]
    <3> HIDE DEF s
    <3> QED BY <1>1, <1>6, <2>1, Part
  <2> HIDE DEF taken, s
  <2> QED BY <1>2, <1>6, <2>2
<1>9. taken = <<>> <=> most = 0
  BY <1>8, LengthOf
<1>10. most > 0 => taken[1] = s[1]
  BY <1>6, <1>8
<1> HIDE DEF taken
<1>11. /\ Sequence(recs) /\ Len(recs) = IF most = 0 THEN 0 ELSE most + 1 - first
       /\ \A i \in 1..Len(recs) : recs[i] = s[first + i - 1] /\ first + i - 1 \in first..most
  <2>1. CASE most = 0
    <3>1. recs = taken
      BY <1>9, <2>1 DEF RecordsIn
    <3> HIDE DEF recs
    <3> QED BY <1>8, <2>1, <3>1
  <2>2. CASE most > 0 /\ s[1].marker
    <3>1. recs = Tail(taken) /\ first = 2
      BY <1>9, <1>10, <2>2 DEF RecordsIn
    <3>2. /\ Sequence(Tail(taken)) /\ Len(Tail(taken)) = most - 1
          /\ \A i \in 1..(most - 1) : Tail(taken)[i] = taken[i + 1]
      BY <1>8, <1>9, <2>2, AfterFirst
    <3> HIDE DEF recs, first
    <3>3. Sequence(recs) /\ Len(recs) = most - 1
      BY <3>1, <3>2
    <3>4. ASSUME NEW i \in 1..Len(recs)
          PROVE  recs[i] = s[first + i - 1] /\ first + i - 1 \in first..most
      <4>1. i + 1 \in 1..most /\ i \in 1..(most - 1) /\ first + i - 1 = i + 1
        BY <1>6, <3>1, <3>3
      <4>2. recs[i] = s[i + 1]
        BY <1>8, <3>1, <3>2, <4>1
      <4> QED BY <1>6, <3>1, <4>1, <4>2
    <3> QED BY <1>6, <2>2, <3>1, <3>3, <3>4
  <2>3. CASE most > 0 /\ ~s[1].marker
    <3>1. recs = taken /\ first = 1
      BY <1>9, <1>10, <2>3 DEF RecordsIn
    <3> HIDE DEF recs, first
    <3> QED BY <1>6, <1>8, <2>3, <3>1
  <2>4. most = 0 \/ most > 0
    BY <1>6
  <2> QED BY <2>1, <2>2, <2>3, <2>4
<1>12. ASSUME most > 0
       PROVE  /\ s[1].marker \in BOOLEAN
              /\ s[1].marker => 1 < Len(s) /\ ~s[2].marker /\ s[1].missing \in Nat
              /\ StartsAt(b, 0, b.out) /\ 0 # Len(s)
  <2>1. 1 \in 1..Len(s)
    BY <1>2, <1>6, <1>12
  <2> QED BY <1>1, <2>1 DEF Shaped, Numbered
<1>13. skip \in Nat
  BY <1>12
<1>14. most > 0 /\ first <= most => s[first].n = b.out + skip
  <2> SUFFICES ASSUME most > 0, first <= most PROVE s[first].n = b.out + skip
    OBVIOUS
  <2>1. StartsAt(b, 0, b.out) /\ 0 # Len(s)
    BY <1>12
  <2>2. 0 + 1 = 1 /\ 0 + 2 = 2
    OBVIOUS
  <2>3. CASE s[1].marker
    BY <2>1, <2>2, <2>3 DEF StartsAt
  <2>4. CASE ~s[1].marker
    <3>1. s[1].n = b.out
      BY <2>1, <2>2, <2>4 DEF StartsAt
    <3> QED BY <1>1, <2>4, <3>1
  <2> QED BY <2>3, <2>4
<1>15. first \in {1, 2} /\ \A i \in first..most : ~s[i].marker /\ i \in 1..Len(s)
  BY <1>2, <1>6, <1>7
<1> HIDE DEF recs, skip, first
<1>16. ASSUME NEW i \in first..most PROVE s[i].n = b.out + skip + (i - first) /\ s[i].n \in Nat
  <2>1. first \in first..most /\ first <= i /\ most > 0 /\ first \in 1..Len(s) /\ i \in 1..Len(s)
    BY <1>6, <1>15
  <2>2. \A k \in first..i : ~s[k].marker
    BY <1>6, <1>15
  <2>3. s[i].n = s[first].n + (i - first)
    BY <1>1, <2>1, <2>2 DEF Numbered
  <2>4. s[i].n \in Nat
    BY <1>1, <1>15, <2>1 DEF Shaped
  <2> QED BY <1>6, <1>14, <2>1, <2>3, <2>4
<1>17. Consecutive(take)
  <2>1. ASSUME NEW i \in 1..Len(recs) PROVE recs[i].n = b.out + skip + i - 1
    <3>1. recs[i] = s[first + i - 1] /\ first + i - 1 \in first..most
      BY <1>11
    <3>2. (first + i - 1) - first = i - 1 /\ i \in Int
      BY <1>15
    <3> QED BY <1>1, <1>13, <1>16, <3>1, <3>2
  <2>2. b.out + skip \in Nat
    BY <1>1, <1>13
  <2> QED BY <1>3, <1>11, <2>1, <2>2 DEF Consecutive
<1>18. StartsAt(b, most, b.out + skip + Len(recs))
  <2>1. CASE most = 0
    <3>1. skip = 0 /\ Len(recs) = 0 /\ b.out + skip + Len(recs) = b.out
      BY <1>1, <1>11, <2>1 DEF skip
    <3> QED BY <1>1, <2>1, <3>1 DEF Numbered
  <2>2. CASE most > 0 /\ first <= most
    <3>1. most \in first..most /\ most \in 1..Len(s)
      BY <1>6, <1>15, <2>2
    <3>2. s[most].n = b.out + skip + (most - first) /\ ~s[most].marker
      BY <1>15, <1>16, <3>1
    <3>3. StartsAt(b, most, s[most].n + 1)
      BY <1>1, <3>1, <3>2 DEF Numbered
    <3>4. s[most].n + 1 = b.out + skip + Len(recs)
      BY <1>1, <1>6, <1>11, <1>13, <1>15, <2>2, <3>2
    <3> QED BY <3>3, <3>4
  <2>3. CASE most > 0 /\ first > most
    <3>1. most = 1 /\ first = 2 /\ s[1].marker
      BY <1>6, <1>15, <2>3 DEF first
    <3>2. StartsAt(b, 0, b.out) /\ 0 # Len(s) /\ 1 < Len(s) /\ ~s[2].marker /\ skip = s[1].missing
      BY <1>12, <2>3, <3>1 DEF skip
    <3>3. s[2].n = b.out + skip
      <4>1. 0 + 1 = 1 /\ 0 + 2 = 2
        OBVIOUS
      <4> QED BY <3>1, <3>2, <4>1 DEF StartsAt
    <3>4. Len(recs) = 0 /\ b.out + skip + Len(recs) = b.out + skip /\ most # Len(s) /\ most + 1 = 2
      BY <1>1, <1>11, <1>13, <3>1, <3>2
    <3> QED BY <3>2, <3>3, <3>4 DEF StartsAt
  <2> QED BY <1>6, <1>15, <2>1, <2>2, <2>3
<1>19. s # <<>> => recs # <<>>
  <2> SUFFICES ASSUME s # <<>> PROVE recs # <<>>
    OBVIOUS
  <2>1. 1 \in 1..Len(s) /\ Len(s) > 0
    BY <1>2
  <2>2. /\ s[1].marker \in BOOLEAN
        /\ s[1].marker => 1 < Len(s) /\ ~s[2].marker
    BY <1>1, <2>1 DEF Shaped
  <2> DEFINE one == IF s[1].marker THEN 2 ELSE 1
             e == SubSeq(s, 1, one)
  <2>3. one \in 1..Len(s) /\ 1 \in 1..(Len(s) + 1) /\ one \in 0..Len(s) /\ one \in {1, 2}
    BY <1>2, <2>1, <2>2
  <2>4. \A i \in 2..one : ~s[i].marker
    BY <2>2
  <2>5. /\ Sequence(e) /\ Len(e) = one /\ \A i \in 1..one : e[i] = s[i]
    <3>1. /\ Sequence(e) /\ Len(e) = IF 1 <= one THEN one - 1 + 1 ELSE 0
          /\ \A i \in 1..(one - 1 + 1) : e[i] = s[1 + i - 1]
      <4> HIDE DEF one, s
      <4> QED BY <1>1, <2>3, Part
    <3> HIDE DEF e, one, s
    <3> QED BY <2>3, <3>1
  <2>6. e # <<>> /\ e[1] = s[1]
    <3> HIDE DEF e, one
    <3> QED BY <2>3, <2>5, LengthOf
  <2>7. Sequence(RecordsIn(e)) /\ Len(RecordsIn(e)) = 1
    <3>1. CASE s[1].marker
      <4>1. RecordsIn(e) = Tail(e) /\ Len(e) = 2
        <5> HIDE DEF e
        <5> QED BY <2>5, <2>6, <3>1 DEF RecordsIn
      <4> HIDE DEF e
      <4>2. Sequence(e)
        BY <2>5
      <4>3. Sequence(Tail(e)) /\ Len(Tail(e)) = Len(e) - 1
        BY <2>6, <4>2, AfterFirst
      <4> QED BY <4>1, <4>3
    <3>2. CASE ~s[1].marker
      <4>1. RecordsIn(e) = e /\ Len(e) = 1
        <5> HIDE DEF e
        <5> QED BY <2>5, <2>6, <3>2 DEF RecordsIn
      <4> HIDE DEF e
      <4> QED BY <2>5, <4>1
    <3> QED BY <3>1, <3>2
  <2> HIDE DEF e
  <2>8. Used(RecordsIn(e)) <= BatchSize
    <3> DEFINE r == RecordsIn(e)
    <3>1. Sequence(r) /\ Len(r) = 1
      BY <2>7
    <3> HIDE DEF r
    <3>2. DOMAIN r = 1..1
      BY <3>1, LengthOf
    <3>3. Used(r) <= BatchSize
      BY <3>1, <3>2, OneFits
    <3> QED BY <3>3 DEF r
  <2> HIDE DEF one
  <2>9. one \in B
    BY <2>3, <2>4, <2>8 DEF B, Batchable, e
  <2>10. one <= most
    BY <1>5, <2>9
  <2>11. first = one
    BY <1>6, <2>3, <2>10 DEF first, one
  <2>12. Len(recs) > 0
    BY <1>6, <1>11, <2>3, <2>10, <2>11
  <2> HIDE DEF s
  <2> QED BY <1>11, <2>12, LengthOf
<1>20. PrefixOf(b, take)
  <2> DEFINE f == first - 1
  <2>1. f \in {0, 1} /\ first = f + 1
    BY <1>15
  <2>2. f <= most /\ Len(recs) = most - f
    <3>1. most = 0 => first = 1
      BY DEF first
    <3> QED BY <1>6, <1>11, <1>15, <3>1
  <2>3. IF f = 0 THEN b.out + skip = b.out ELSE s[1].marker
    <3>1. CASE most > 0 /\ s[1].marker
      BY <2>1, <3>1 DEF first
    <3>2. CASE ~(most > 0 /\ s[1].marker)
      BY <1>1, <3>2 DEF first, skip
    <3> QED BY <3>1, <3>2
  <2> HIDE DEF f
  <2>4. ASSUME NEW i \in 1..Len(recs) PROVE recs[i] = s[f + i] /\ ~recs[i].marker
    <3>1. recs[i] = s[first + i - 1] /\ first + i - 1 \in first..most
      BY <1>11
    <3>2. first + i - 1 = f + i
      BY <2>1
    <3>3. ~s[first + i - 1].marker
      BY <1>15, <3>1
    <3> QED BY <3>1, <3>2, <3>3
  <2> HIDE DEF take, s
  <2>5. take.slots = most /\ take.records = recs /\ take.sequence = b.out + skip
    BY <1>3
  <2>6. \E g \in {0, 1} :
          /\ g <= most /\ Len(recs) = most - g
          /\ \A i \in 1..Len(recs) : recs[i] = s[g + i] /\ ~recs[i].marker
          /\ IF g = 0 THEN b.out + skip = b.out ELSE s[1].marker
    BY <2>1, <2>2, <2>3, <2>4
  <2> QED BY <1>6, <1>11, <2>5, <2>6 DEF PrefixOf, s
<1> QED BY <1>3, <1>6, <1>17, <1>18, <1>19, <1>20

-----------------------------------------------------------------------------
(* Batches on their way, and the worker's sleep.                             *)

\* The batch that is being sent is a prefix of the buffer, still.
Sending ==
  w.pc = "send" /\ w.send.kind = "batch" =>
    LET take == w.send.take
    IN  /\ Consecutive(take)
        /\ take.slots \in 0..Len(buffer.stored)
        /\ StartsAt(buffer, take.slots, take.sequence + Len(take.records))

Arriving ==
  /\ Sequence(air)
  /\ \A i \in 1..Len(air) : air[i].frame.kind = "batch" => Consecutive(air[i].frame.take)

\* A credit is with the worker or with a notification.
Credited == credits \in Nat /\ credits + Len(air) = Credits

\* A host that has come while the worker sends to another has woken it.
Reconnected == w.pc = "send" /\ conn # 0 /\ w.conn # conn => wake

Sleeping == w.pc = "idle" /\ ~wake /\ buffer.stored # <<>> => conn = 0 \/ air # <<>>

DInv == BufferOK(buffer) /\ Sending /\ Arriving /\ Credited /\ Reconnected /\ Sleeping

LEMMA InitDInv == Init => DInv
<1> SUFFICES ASSUME Init PROVE DInv
  OBVIOUS
<1>1. Sequence(<<>>) /\ Len(<<>>) = 0 /\ Credits \in Nat
  BY CaptureAssumption DEF Sequence
<1>2. Idle.pc = "idle" /\ NewBuffer.stored = <<>>
  BY DEF Idle, NewBuffer
<1> QED BY <1>1, <1>2, NewBufferOK DEF Init, DInv, Sending, Arriving, Credited, Reconnected, Sleeping

\* Steps that are not the worker's and store nothing.
LEMMA AsideDInv ==
  ASSUME DInv, UNCHANGED <<buffer, w, air, credits, conn>>, wake' \in {wake, TRUE}
  PROVE  DInv'
<1>1. Sending' /\ Arriving'
  BY DEF DInv, Sending, Arriving
<1>2. Credited' /\ Reconnected' /\ Sleeping'
  BY DEF DInv, Credited, Reconnected, Sleeping
<1> QED BY <1>1, <1>2 DEF DInv

\* Steps of the worker that neither send nor end its turn.
LEMMA AwakeDInv ==
  ASSUME DInv, UNCHANGED <<air, credits, conn>>, w'.pc \notin {"idle", "send"}, BufferOK(buffer')
  PROVE  DInv'
<1>1. Sending' /\ Reconnected' /\ Sleeping'
  BY DEF Sending, Reconnected, Sleeping
<1>2. Arriving' /\ Credited'
  BY DEF DInv, Arriving, Credited
<1>3. BufferOK(buffer)'
  OBVIOUS
<1> QED BY <1>1, <1>2, <1>3 DEF DInv

\* A record that is stored wakes the worker.
LEMMA SubmittedDInv ==
  ASSUME DInv, NEW r, Submitted(r), UNCHANGED <<w, air, credits, conn>>
  PROVE  DInv'
<1>1. CASE recording = None
  BY <1>1, AsideDInv DEF Submitted
<1>2. CASE recording # None
  <2>1. buffer' = Put(buffer, r) /\ wake' = (wake \/ Fits(buffer, r))
    BY <1>2 DEF Submitted
  <2>2. /\ BufferOK(Put(buffer, r))
        /\ \A m \in 0..Len(buffer.stored), n \in Nat :
             StartsAt(buffer, m, n) => m \in 0..Len(Put(buffer, r).stored) /\ StartsAt(Put(buffer, r), m, n)
    BY PutOK DEF DInv
  <2>3. BufferOK(buffer)'
    BY <2>1, <2>2
  <2>4. Sending'
    <3> SUFFICES ASSUME w.pc = "send", w.send.kind = "batch"
                 PROVE  /\ Consecutive(w.send.take)
                        /\ w.send.take.slots \in 0..Len(buffer'.stored)
                        /\ StartsAt(buffer', w.send.take.slots, w.send.take.sequence + Len(w.send.take.records))
      BY DEF Sending
    <3> DEFINE m == w.send.take.slots
               n == w.send.take.sequence + Len(w.send.take.records)
    <3>1. Consecutive(w.send.take) /\ m \in 0..Len(buffer.stored) /\ StartsAt(buffer, m, n)
      BY DEF DInv, Sending
    <3>2. n \in Nat
      BY <3>1, LengthOf DEF Consecutive
    <3> HIDE DEF m, n
    <3>3. m \in 0..Len(buffer'.stored) /\ StartsAt(buffer', m, n)
      BY <2>1, <2>2, <3>1, <3>2
    <3> QED BY <3>1, <3>3 DEF m, n
  <2>5. Arriving' /\ Credited'
    BY DEF DInv, Arriving, Credited
  <2>6. Reconnected'
    BY <2>1 DEF DInv, Reconnected
  <2>7. Sleeping'
    <3>1. ~Fits(buffer, r) => buffer'.stored = buffer.stored
      BY <2>1 DEF Put, Dropped, DInv, BufferOK, BufferFields
    <3> QED BY <2>1, <3>1 DEF DInv, Sleeping
  <2> QED BY <2>3, <2>4, <2>5, <2>6, <2>7 DEF DInv
<1> QED BY <1>1, <1>2

\* Where the worker goes from a drain.
LEMMA DrainedGoes ==
  ASSUME IInv
  PROVE  Drained.pc \in {"idle", "drain", "answer", "lock"}
<1>1. DOMAIN w = WorkerFields
  BY DEF IInv, Types
<1>2. CASE w.goal.kind = "none"
  BY <1>2, ReceivingType DEF Drained
<1>3. CASE w.goal.kind # "none" /\ ~w.wait
  BY <1>1, <1>3 DEF Drained, WorkerFields
<1>4. CASE w.goal.kind # "none" /\ w.wait
  BY <1>1, <1>4 DEF Drained, WorkerFields
<1> QED BY <1>2, <1>3, <1>4

LEMMA RestDInv == ASSUME IInv, DInv, Rest PROVE DInv'
<1>1. NothingToSend /\ w' = Drained /\ UNCHANGED <<wake, buffer, air, credits, conn>>
  BY DEF Rest, records, link
<1>2. w'.pc \in {"idle", "drain", "answer", "lock"}
  BY <1>1, DrainedGoes
<1>3. Sending' /\ Reconnected'
  BY <1>2 DEF Sending, Reconnected
<1>4. Arriving' /\ Credited' /\ BufferOK(buffer)'
  BY <1>1 DEF DInv, Arriving, Credited
<1>5. buffer.stored # <<>> => air # <<>>
  <2> SUFFICES ASSUME buffer.stored # <<>> PROVE air # <<>>
    OBVIOUS
  <2>1. Peek(buffer).records # <<>>
    BY PeekOK DEF DInv
  <2>2. credits = 0 \/ credits < Smaller(Chunks(Peek(buffer)), Credits)
    BY <1>1, <2>1 DEF NothingToSend
  <2>3. Consecutive(Peek(buffer))
    BY PeekOK DEF DInv
  <2>4. Chunks(Peek(buffer)) \in Nat
    BY <2>3, LengthOf DEF Consecutive, Chunks
  <2>5. Smaller(Chunks(Peek(buffer)), Credits) <= Credits
    BY <2>4, CaptureAssumption DEF Smaller
  <2>6. Smaller(Chunks(Peek(buffer)), Credits) \in Nat
    BY <2>4, CaptureAssumption DEF Smaller
  <2>7. credits < Credits
    BY <2>2, <2>5, <2>6, CaptureAssumption DEF DInv, Credited
  <2>8. Len(air) # 0
    BY <2>7, CaptureAssumption DEF DInv, Credited
  <2> QED BY <2>8, LengthOf DEF DInv, Arriving
<1>6. Sleeping'
  BY <1>1, <1>5 DEF Sleeping
<1> QED BY <1>3, <1>4, <1>6 DEF DInv

LEMMA SendDInv == ASSUME IInv, DInv, Send PROVE DInv'
<1>1. UNCHANGED <<wake, buffer, air, credits, conn>>
  BY DEF Send, records, link
<1> DEFINE Sends(frame, chunks) ==
             w' = [w EXCEPT !.pc = "send", !.send = frame, !.conn = conn, !.left = chunks]
           batch == [kind |-> "batch", take |-> Peek(buffer)]
           answer == IF w.goal.kind = "control" THEN Status(recording) ELSE Result
<1>2. Sends(batch, Chunks(Peek(buffer))) \/ Sends(answer, 1)
  BY DEF Send
<1>3. ASSUME NEW frame, NEW chunks, Sends(frame, chunks)
      PROVE  w'.pc = "send" /\ w'.conn = conn /\ w'.send = frame
  BY <1>3 DEF IInv, Types, WorkerFields
<1>4. answer.kind # "batch" /\ batch.kind = "batch" /\ batch.take = Peek(buffer)
  BY DEF Status, Result
<1> HIDE DEF Sends, batch, answer
<1>5. w'.pc = "send" /\ w'.conn = conn /\ (w'.send = batch \/ w'.send.kind # "batch")
  BY <1>2, <1>3, <1>4
<1>6. Sending'
  <2>1. CASE w'.send.kind # "batch"
    BY <2>1 DEF Sending
  <2>2. CASE w'.send = batch
    <3>1. w'.send.take = Peek(buffer)
      BY <1>4, <2>2
    <3>2. /\ Consecutive(Peek(buffer))
          /\ Peek(buffer).slots \in 0..Len(buffer.stored)
          /\ StartsAt(buffer, Peek(buffer).slots, Peek(buffer).sequence + Len(Peek(buffer).records))
      BY PeekOK DEF DInv
    <3> QED BY <1>1, <3>1, <3>2 DEF Sending
  <2> QED BY <1>5, <2>1, <2>2
<1>7. Reconnected' /\ Sleeping'
  BY <1>1, <1>5 DEF Reconnected, Sleeping
<1>8. Arriving' /\ Credited' /\ BufferOK(buffer)'
  BY <1>1 DEF DInv, Arriving, Credited
<1> QED BY <1>6, <1>7, <1>8 DEF DInv

LEMMA NotifyDInv == ASSUME IInv, DInv, Notify PROVE DInv'
<1> DEFINE new == [frame |-> w.send, last |-> w.left = 1]
<1>1. /\ w.pc = "send" /\ w.conn = conn /\ credits > 0
      /\ credits' = credits - 1 /\ air' = Append(air, new)
      /\ UNCHANGED <<wake, conn>>
  BY DEF Notify
<1>2. /\ Sequence(air') /\ Len(air') = Len(air) + 1
      /\ \A i \in 1..Len(air) : air'[i] = air[i]
      /\ air'[Len(air) + 1] = new /\ Len(air) \in Nat
  BY <1>1, Appended, LengthOf DEF DInv, Arriving
<1>3. new.frame = w.send
  OBVIOUS
<1> HIDE DEF new
<1>4. Arriving'
  <2> SUFFICES ASSUME NEW i \in 1..Len(air'), air'[i].frame.kind = "batch"
               PROVE  Consecutive(air'[i].frame.take)
    BY <1>2 DEF Arriving
  <2>1. CASE i \in 1..Len(air)
    BY <1>2, <2>1 DEF DInv, Arriving
  <2>2. CASE i = Len(air) + 1
    BY <1>1, <1>2, <1>3, <2>2 DEF DInv, Sending
  <2> QED BY <1>2, <2>1, <2>2
<1>5. Credited'
  BY <1>1, <1>2, CaptureAssumption DEF DInv, Credited
<1>6. air' # <<>>
  BY <1>2, LengthOf
<1>7. \/ w.left > 1 /\ w' = [w EXCEPT !.left = w.left - 1] /\ buffer' = buffer
      \/ /\ w.send.kind = "batch" /\ w' = [w EXCEPT !.pc = "drain", !.send = NoSend]
         /\ buffer' = Consume(buffer, w.send.take)
      \/ w' = Receiving /\ buffer' = buffer
  BY DEF Notify
<1>8. CASE w' = [w EXCEPT !.left = w.left - 1] /\ buffer' = buffer
  <2>1. w'.pc = "send" /\ w'.conn = w.conn /\ w'.send = w.send
    BY <1>1, <1>8 DEF IInv, Types, WorkerFields
  <2>2. Sending' /\ Reconnected' /\ Sleeping'
    BY <1>1, <1>8, <2>1 DEF DInv, Sending, Reconnected, Sleeping
  <2>3. BufferOK(buffer)'
    BY <1>8 DEF DInv
  <2> QED BY <1>4, <1>5, <2>2, <2>3 DEF DInv
<1>9. CASE /\ w.send.kind = "batch" /\ w' = [w EXCEPT !.pc = "drain", !.send = NoSend]
           /\ buffer' = Consume(buffer, w.send.take)
  <2>1. w'.pc = "drain"
    BY <1>9 DEF IInv, Types, WorkerFields
  <2>2. /\ Consecutive(w.send.take) /\ w.send.take.slots \in 0..Len(buffer.stored)
        /\ StartsAt(buffer, w.send.take.slots, w.send.take.sequence + Len(w.send.take.records))
    BY <1>1, <1>9 DEF DInv, Sending
  <2>3. w.send.take.sequence + Len(w.send.take.records) \in Nat
    BY <2>2, LengthOf DEF Consecutive
  <2>4. BufferOK(buffer)'
    BY <1>9, <2>2, <2>3, ConsumeOK DEF DInv
  <2>5. Sending' /\ Reconnected' /\ Sleeping'
    BY <2>1 DEF Sending, Reconnected, Sleeping
  <2> QED BY <1>4, <1>5, <2>4, <2>5 DEF DInv
<1>10. CASE w' = Receiving /\ buffer' = buffer
  <2>1. w'.pc = "receive"
    BY <1>10, ReceivingType
  <2>2. Sending' /\ Reconnected' /\ Sleeping'
    BY <2>1 DEF Sending, Reconnected, Sleeping
  <2>3. BufferOK(buffer)'
    BY <1>10 DEF DInv
  <2> QED BY <1>4, <1>5, <2>2, <2>3 DEF DInv
<1> QED BY <1>7, <1>8, <1>9, <1>10

LEMMA SendFailsDInv == ASSUME IInv, DInv, SendFails PROVE DInv'
<1>1. /\ w.pc = "send" /\ (w.conn = 0 \/ w.conn # conn)
      /\ buffer' \in {buffer, Discard(buffer)}
      /\ w' = IF w.send.kind = "batch" THEN Drained ELSE Receiving
      /\ UNCHANGED <<wake, air, credits, conn>>
  BY DEF SendFails, link
<1>2. w'.pc \in {"idle", "drain", "answer", "lock", "receive"}
  BY <1>1, DrainedGoes, ReceivingType
<1>3. BufferOK(buffer)'
  BY <1>1, DiscardOK DEF DInv
<1>4. Sending' /\ Reconnected'
  BY <1>2 DEF Sending, Reconnected
<1>5. Arriving' /\ Credited'
  BY <1>1 DEF DInv, Arriving, Credited
<1>6. conn = 0 \/ wake
  BY <1>1 DEF DInv, Reconnected
<1>7. Sleeping'
  BY <1>1, <1>6 DEF Sleeping
<1> QED BY <1>3, <1>4, <1>5, <1>7 DEF DInv

LEMMA TimedOutDInv == ASSUME DInv, TimedOut PROVE DInv'
<1>1. buffer' = Discard(buffer) /\ w' = Idle /\ UNCHANGED <<air, credits, conn>>
  BY DEF TimedOut, link
<1>2. w'.pc = "idle" /\ buffer'.stored = <<>>
  BY <1>1, ReceivingType DEF Discard, DInv, BufferOK, BufferFields
<1>3. BufferOK(buffer)'
  BY <1>1, DiscardOK DEF DInv
<1>4. Sending' /\ Reconnected' /\ Sleeping'
  BY <1>2 DEF Sending, Reconnected, Sleeping
<1>5. Arriving' /\ Credited'
  BY <1>1 DEF DInv, Arriving, Credited
<1> QED BY <1>3, <1>4, <1>5 DEF DInv

LEMMA StartDInv == ASSUME IInv, DInv, Start PROVE DInv'
<1> DEFINE p == w.goal.target
<1>1. /\ buffer' = IF active[p] THEN Put(NewBuffer, Record("entered", settings[p])) ELSE NewBuffer
      /\ w' = [w EXCEPT !.pc = "answer"] /\ UNCHANGED <<air, credits, conn>>
  BY DEF Start, link
<1>2. w'.pc = "answer"
  BY <1>1 DEF IInv, Types, WorkerFields
<1>3. BufferOK(Put(NewBuffer, Record("entered", settings[p])))
  BY NewBufferOK, PutOK
<1>4. BufferOK(buffer')
  BY <1>1, <1>3, NewBufferOK
<1> QED BY <1>1, <1>2, <1>4, AwakeDInv

LEMMA CopyLastDInv == ASSUME IInv, DInv, CopyLast PROVE DInv'
<1>1. /\ buffer' \in {buffer, Put(buffer, Record("changed", None))}
      /\ w' = [w EXCEPT !.pc = "answer"] /\ UNCHANGED <<air, credits, conn>>
  BY DEF CopyLast, link
<1>2. w'.pc = "answer"
  BY <1>1 DEF IInv, Types, WorkerFields
<1>3. BufferOK(Put(buffer, Record("changed", None)))
  BY PutOK DEF DInv
<1>4. BufferOK(buffer')
  BY <1>1, <1>3 DEF DInv
<1> QED BY <1>1, <1>2, <1>4, AwakeDInv

LEMMA SentDInv == ASSUME DInv, Sent PROVE DInv'
<1>1. /\ air # <<>> /\ air' = Tail(air) /\ credits' = credits + 1 /\ wake' = TRUE
      /\ UNCHANGED <<buffer, w, conn>>
  BY DEF Sent, SentWakes, records
<1>2. /\ Sequence(air') /\ Len(air') = Len(air) - 1 /\ Len(air) \in Nat /\ Len(air) # 0
      /\ \A i \in 1..(Len(air) - 1) : air'[i] = air[i + 1]
  BY <1>1, AfterFirst, LengthOf DEF DInv, Arriving
<1>3. Arriving'
  <2> SUFFICES ASSUME NEW i \in 1..Len(air'), air'[i].frame.kind = "batch"
               PROVE  Consecutive(air'[i].frame.take)
    BY <1>2 DEF Arriving
  <2>1. air'[i] = air[i + 1] /\ i + 1 \in 1..Len(air)
    BY <1>2
  <2> QED BY <2>1 DEF DInv, Arriving
<1>4. Credited'
  BY <1>1, <1>2, CaptureAssumption DEF DInv, Credited
<1>5. Sending'
  BY <1>1 DEF DInv, Sending
<1>6. Reconnected' /\ Sleeping' /\ BufferOK(buffer)'
  BY <1>1 DEF DInv, Reconnected, Sleeping
<1> QED BY <1>3, <1>4, <1>5, <1>6 DEF DInv

LEMMA DisconnectDInv == ASSUME DInv, Disconnect PROVE DInv'
<1>1. /\ conn' = 0 /\ credits' = Credits /\ air' = <<>> /\ UNCHANGED <<buffer, w, wake>>
  BY DEF Disconnect, records
<1>2. Sequence(<<>>) /\ Len(<<>>) = 0 /\ Credits \in Nat
  BY CaptureAssumption DEF Sequence
<1>3. Arriving' /\ Credited'
  BY <1>1, <1>2 DEF Arriving, Credited
<1>4. Sending'
  BY <1>1 DEF DInv, Sending
<1>5. Reconnected' /\ Sleeping' /\ BufferOK(buffer)'
  BY <1>1 DEF DInv, Reconnected, Sleeping
<1> QED BY <1>3, <1>4, <1>5 DEF DInv

LEMMA AskDInv == ASSUME DInv, NEW r, Ask(r) PROVE DInv'
<1>1. wake' = TRUE /\ UNCHANGED <<buffer, w, air, credits>>
  BY DEF Ask, records
<1>2. Arriving' /\ Credited' /\ Sending'
  BY <1>1 DEF DInv, Arriving, Credited, Sending
<1>3. Reconnected' /\ Sleeping' /\ BufferOK(buffer)'
  BY <1>1 DEF DInv, Reconnected, Sleeping
<1> QED BY <1>2, <1>3 DEF DInv

LEMMA ReceiveDInv == ASSUME DInv, Receive PROVE DInv'
<1>1. UNCHANGED <<buffer, air, credits, conn>>
  BY DEF Receive, link
<1>2. w'.pc \in {"drain", "lock", "answer"}
  <2> DEFINE r == Head(asked)
  <2>1. \E pc \in {"drain", "lock", "answer"} : w' = [Receiving EXCEPT !.goal = r, !.pc = pc]
    BY DEF Receive
  <2> QED BY <2>1, ReceivingType DEF WorkerFields
<1> QED BY <1>1, <1>2, AwakeDInv DEF DInv

LEMMA StepDInv == IInv /\ DInv /\ [Next]_vars => DInv'
<1> SUFFICES ASSUME IInv, DInv, [Next]_vars PROVE DInv'
  OBVIOUS
<1> USE DEF tuned, records, input, link
<1>1. ASSUME NEW p \in Pipelines,
             \/ \E source \in Sources, rested \in BOOLEAN : Frame(p, source, rested)
             \/ Flush(p) \/ Unrecorded(p) \/ Route(p) \/ End(p)
      PROVE  DInv'
  <2>1. UNCHANGED <<buffer, w, air, credits, conn, wake>>
    BY <1>1 DEF Frame, Flush, Unrecorded, Route, End
  <2> QED BY <2>1, AsideDInv
<1>2. ASSUME NEW p \in Pipelines, Submit(p) PROVE DInv'
  <2>1. Submitted(Head(todo[p])) /\ UNCHANGED <<w, air, credits, conn>>
    BY <1>2 DEF Submit
  <2> QED BY <2>1, SubmittedDInv
<1>3. CASE KeyPress \/ LockNext \/ UNCHANGED vars
  <2>1. UNCHANGED <<buffer, w, air, credits, conn, wake>>
    BY <1>3 DEF KeyPress, LockNext, vars
  <2> QED BY <2>1, AsideDInv
<1>4. CASE Wake
  <2>1. w'.pc = "receive" /\ UNCHANGED <<buffer, air, credits, conn>>
    BY <1>4, ReceivingType DEF Wake
  <2> QED BY <2>1, AwakeDInv DEF DInv
<1>5. CASE CopyFirst
  <2>1. w' = [w EXCEPT !.pc = "copy"] /\ UNCHANGED <<buffer, air, credits, conn>>
    BY <1>5 DEF CopyFirst
  <2>2. w'.pc = "copy"
    BY <2>1 DEF IInv, Types, WorkerFields
  <2> QED BY <2>1, <2>2, AwakeDInv DEF DInv
<1>6. ASSUME NEW r \in Controls \cup Changes, Ask(r) PROVE DInv'
  BY <1>6, AskDInv
<1>7. CASE Receive \/ TimedOut \/ Rest \/ Send \/ Notify \/ SendFails
  BY <1>7, ReceiveDInv, TimedOutDInv, RestDInv, SendDInv, NotifyDInv, SendFailsDInv
<1>8. CASE Start \/ CopyLast \/ Sent \/ Disconnect
  BY <1>8, StartDInv, CopyLastDInv, SentDInv, DisconnectDInv
<1> QED BY <1>1, <1>2, <1>3, <1>4, <1>5, <1>6, <1>7, <1>8 DEF Next

LEMMA DrainInvariance == Spec => []DInv
<1>1. Init => DInv
  BY InitDInv
<1>2. IInv /\ DInv /\ [Next]_vars => DInv'
  BY StepDInv
<1> QED BY <1>1, <1>2, Invariance, PTL DEF Spec

-----------------------------------------------------------------------------
(* Deltas: the frame each stored frame is relative to.                       *)

\* The frame a delta may be relative to after slot s, when b was before it.
After(b, s) ==
  IF s.marker THEN NoFrame
  ELSE IF s.record.kind = "entered" THEN NoFrame
  ELSE IF s.record.kind = "frame" THEN s.n ELSE b

OnBase(b, s) == ~s.marker /\ s.record.kind = "frame" => s.base \in {NoFrame, b}

\* bs names that frame before each of the slots and after the last.
Based(slots, bs) ==
  \A i \in 1..Len(slots) : OnBase(bs[i], slots[i]) /\ bs[i + 1] = After(bs[i], slots[i])

Leads(b, slots, c) == \E bs : bs[1] = b /\ bs[Len(slots) + 1] = c /\ Based(slots, bs)

LEMMA LeadsNone == ASSUME NEW b PROVE Leads(b, <<>>, b)
<1> DEFINE bs == [i \in 1..1 |-> b]
<1>1. bs[1] = b /\ Len(<<>>) = 0
  OBVIOUS
<1> HIDE DEF bs
<1>2. Based(<<>>, bs)
  BY DEF Based
<1>3. bs[Len(<<>>) + 1] = b
  BY <1>1
<1> QED BY <1>1, <1>2, <1>3 DEF Leads

LEMMA LeadsOn ==
  ASSUME NEW s, NEW t, NEW b, NEW c, NEW d, Sequence(s), Sequence(t), Leads(b, s, c), Leads(c, t, d)
  PROVE  Leads(b, s \o t, d)
<1>1. PICK f : f[1] = b /\ f[Len(s) + 1] = c /\ Based(s, f)
  BY DEF Leads
<1>2. PICK g : g[1] = c /\ g[Len(t) + 1] = d /\ Based(t, g)
  BY DEF Leads
<1> DEFINE l == Len(s)
           m == Len(t)
           st == s \o t
           h == [i \in 1..(l + m + 1) |-> IF i <= l THEN f[i] ELSE g[i - l]]
<1>3. /\ l \in Nat /\ m \in Nat /\ Len(st) = l + m
      /\ \A i \in 1..l : st[i] = s[i]
      /\ \A i \in 1..m : st[l + i] = t[i]
  BY LengthOf, Joined
<1>4. f[1] = b /\ f[l + 1] = c /\ g[1] = c /\ g[m + 1] = d
  BY <1>1, <1>2
<1>5. /\ \A i \in 1..l : OnBase(f[i], s[i]) /\ f[i + 1] = After(f[i], s[i])
      /\ \A i \in 1..m : OnBase(g[i], t[i]) /\ g[i + 1] = After(g[i], t[i])
  BY <1>1, <1>2 DEF Based
<1> HIDE DEF l, m, st
<1>6. /\ \A i \in 1..(l + 1) : h[i] = f[i]
      /\ \A i \in 1..(m + 1) : h[l + i] = g[i]
  <2>1. ASSUME NEW i \in 1..(l + 1) PROVE h[i] = f[i]
    <3>1. i \in 1..(l + m + 1) /\ (i <= l \/ i = l + 1)
      BY <1>3
    <3>2. CASE i = l + 1
      <4>1. ~(i <= l) /\ i - l = 1
        BY <1>3, <3>2
      <4>2. h[i] = g[i - l]
        BY <3>1, <4>1
      <4> QED BY <1>4, <3>2, <4>1, <4>2
    <3> QED BY <3>1, <3>2
  <2>2. ASSUME NEW i \in 1..(m + 1) PROVE h[l + i] = g[i]
    <3>1. l + i \in 1..(l + m + 1) /\ ~(l + i <= l) /\ (l + i) - l = i
      BY <1>3
    <3>2. h[l + i] = g[(l + i) - l]
      BY <3>1
    <3> QED BY <3>1, <3>2
  <2> QED BY <2>1, <2>2
<1> HIDE DEF h
<1>7. h[1] = b /\ h[l + m + 1] = d
  <2>1. 1 \in 1..(l + 1) /\ m + 1 \in 1..(m + 1) /\ l + (m + 1) = l + m + 1
    BY <1>3
  <2>2. h[1] = f[1] /\ h[l + (m + 1)] = g[m + 1]
    BY <1>6, <2>1
  <2> QED BY <1>4, <2>1, <2>2
<1>8. ASSUME NEW i \in 1..(l + m) PROVE OnBase(h[i], st[i]) /\ h[i + 1] = After(h[i], st[i])
  <2>1. CASE i <= l
    <3>1. i \in 1..l /\ i \in 1..(l + 1) /\ i + 1 \in 1..(l + 1)
      BY <1>3, <2>1
    <3>2. h[i] = f[i] /\ h[i + 1] = f[i + 1] /\ st[i] = s[i]
      BY <1>3, <1>6, <3>1
    <3> QED BY <1>5, <3>1, <3>2
  <2>2. CASE ~(i <= l)
    <3> DEFINE j == i - l
    <3>1. j \in 1..m /\ j \in 1..(m + 1) /\ j + 1 \in 1..(m + 1) /\ l + j = i /\ l + (j + 1) = i + 1
      BY <1>3, <2>2
    <3> HIDE DEF j
    <3>2. h[l + j] = g[j] /\ h[l + (j + 1)] = g[j + 1] /\ st[l + j] = t[j]
      BY <1>3, <1>6, <3>1
    <3>3. h[i] = g[j] /\ h[i + 1] = g[j + 1] /\ st[i] = t[j]
      BY <3>1, <3>2
    <3> QED BY <1>5, <3>1, <3>3
  <2> QED BY <2>1, <2>2
<1>9. h[1] = b /\ h[Len(st) + 1] = d /\ Based(st, h)
  BY <1>3, <1>7, <1>8 DEF Based
<1>10. Leads(b, st, d)
  BY <1>9 DEF Leads
<1> QED BY <1>10 DEF st

LEMMA LeadsOne ==
  ASSUME NEW b, NEW s, OnBase(b, s)
  PROVE  Sequence(<<s>>) /\ Leads(b, <<s>>, After(b, s))
<1> DEFINE one == <<s>>
           bs == [i \in 1..2 |-> IF i = 1 THEN b ELSE After(b, s)]
<1>1. one \in Seq({s}) /\ Len(one) = 1 /\ one[1] = s
  OBVIOUS
<1>2. bs[1] = b /\ bs[2] = After(b, s)
  OBVIOUS
<1> HIDE DEF one, bs
<1>3. Based(one, bs)
  <2> SUFFICES ASSUME NEW i \in 1..Len(one) PROVE OnBase(bs[i], one[i]) /\ bs[i + 1] = After(bs[i], one[i])
    BY DEF Based
  <2>1. i = 1 /\ i + 1 = 2
    BY <1>1
  <2> QED BY <1>1, <1>2, <2>1
<1>4. bs[Len(one) + 1] = After(b, s)
  BY <1>1, <1>2
<1>5. Sequence(one) /\ Leads(b, one, After(b, s))
  BY <1>1, <1>2, <1>3, <1>4 DEF Leads, Sequence
<1> QED BY <1>5 DEF one

\* A sequence can be cut after any slot.
LEMMA LeadsCut ==
  ASSUME NEW s, Sequence(s), NEW b, NEW d, NEW k \in 0..Len(s), Leads(b, s, d),
         NEW p, Sequence(p), Len(p) = k, \A i \in 1..k : p[i] = s[i],
         NEW q, Sequence(q), Len(q) = Len(s) - k, \A i \in 1..(Len(s) - k) : q[i] = s[k + i]
  PROVE  \E c : Leads(b, p, c) /\ Leads(c, q, d)
<1>1. PICK f : f[1] = b /\ f[Len(s) + 1] = d /\ Based(s, f)
  BY DEF Leads
<1> DEFINE l == Len(s)
           g == [i \in 1..(l - k + 1) |-> f[k + i]]
<1>2. l \in Nat /\ k \in 0..l
  BY LengthOf
<1>3. \A i \in 1..l : OnBase(f[i], s[i]) /\ f[i + 1] = After(f[i], s[i])
  BY <1>1 DEF Based
<1> HIDE DEF l
<1>4. \A i \in 1..(l - k + 1) : g[i] = f[k + i]
  OBVIOUS
<1> HIDE DEF g
<1>5. Leads(b, p, f[k + 1])
  <2>1. ASSUME NEW i \in 1..k PROVE OnBase(f[i], p[i]) /\ f[i + 1] = After(f[i], p[i])
    BY <1>2, <1>3
  <2>2. Based(p, f)
    BY <2>1 DEF Based
  <2> QED BY <1>1, <2>2 DEF Leads
<1>6. Leads(f[k + 1], q, d)
  <2>0. Len(q) = l - k /\ \A i \in 1..(l - k) : q[i] = s[k + i]
    BY DEF l
  <2>1. ASSUME NEW i \in 1..(l - k) PROVE OnBase(g[i], q[i]) /\ g[i + 1] = After(g[i], q[i])
    <3>1. k + i \in 1..l /\ k + (i + 1) = (k + i) + 1 /\ i \in 1..(l - k + 1) /\ i + 1 \in 1..(l - k + 1)
      BY <1>2
    <3>2. g[i] = f[k + i] /\ g[i + 1] = f[(k + i) + 1] /\ q[i] = s[k + i]
      BY <1>4, <2>0, <3>1
    <3> QED BY <1>3, <3>1, <3>2
  <2>2. Based(q, g)
    BY <2>0, <2>1 DEF Based
  <2>3. g[1] = f[k + 1] /\ g[Len(q) + 1] = d
    <3>1. 1 \in 1..(l - k + 1) /\ Len(q) + 1 = l - k + 1 /\ l - k + 1 \in 1..(l - k + 1) /\ k + (l - k + 1) = l + 1
      BY <1>2, <2>0
    <3>2. f[l + 1] = d
      BY <1>1 DEF l
    <3> QED BY <1>4, <3>1, <3>2
  <2> QED BY <2>2, <2>3 DEF Leads
<1> QED BY <1>5, <1>6

\* What is stored is relative to the right frames when b was before it, and so
\* is what will be stored next.
BufferLeads(b, z) ==
  /\ \E y : Leads(z, b.stored, y) /\ b.previous \in {NoFrame, y}
  /\ b.gap > 0 => b.previous = NoFrame

LEMMA NewBufferLeads == BufferLeads(NewBuffer, NoFrame)
<1>1. NewBuffer.stored = <<>> /\ NewBuffer.gap = 0 /\ NewBuffer.previous = NoFrame
  BY DEF NewBuffer
<1> QED BY <1>1, LeadsNone DEF BufferLeads

LEMMA DiscardLeads == ASSUME NEW b, DOMAIN b = BufferFields PROVE BufferLeads(Discard(b), NoFrame)
<1>1. Discard(b).stored = <<>> /\ Discard(b).gap = 0 /\ Discard(b).previous = NoFrame
  BY DEF Discard, BufferFields
<1> QED BY <1>1, LeadsNone DEF BufferLeads

LEMMA PutLeads ==
  ASSUME NEW b, NEW r, NEW z, BufferOK(b), BufferLeads(b, z)
  PROVE  BufferLeads(Put(b, r), z)
<1> DEFINE d == Put(b, r)
           new == Slot(r, b.next, IF r.kind = "frame" THEN b.previous ELSE NoFrame)
<1>1. DOMAIN b = BufferFields /\ Sequence(b.stored) /\ b.gap \in Nat
  BY DEF BufferOK
<1>2. PICK y : Leads(z, b.stored, y) /\ b.previous \in {NoFrame, y}
  BY DEF BufferLeads
<1>3. CASE ~Fits(b, r)
  <2>1. d.stored = b.stored /\ d.previous = NoFrame
    BY <1>1, <1>3 DEF Put, Dropped, BufferFields
  <2> QED BY <1>2, <2>1 DEF BufferLeads
<1>4. CASE Fits(b, r)
  <2>1. /\ d.stored = b.stored \o Encoded(b, r) /\ d.gap = 0
        /\ d.previous = IF r.kind = "frame" THEN b.next ELSE Base(b, r)
    BY <1>1, <1>4 DEF Put, BufferFields
  <2>2. /\ ~new.marker /\ new.record = r /\ new.n = b.next
        /\ new.base = IF r.kind = "frame" THEN b.previous ELSE NoFrame
    BY DEF Slot
  <2> HIDE DEF d, new
  <2>3. ASSUME NEW s, Sequence(s), NEW x, Leads(z, s, x), b.previous = NoFrame \/ b.previous = x,
               d.stored = s \o <<new>>
        PROVE  BufferLeads(d, z)
    <3>1. OnBase(x, new)
      BY <2>2, <2>3 DEF OnBase
    <3>2. Sequence(<<new>>) /\ Leads(x, <<new>>, After(x, new))
      BY <3>1, LeadsOne
    <3>3. Leads(z, d.stored, After(x, new))
      BY <2>3, <3>2, LeadsOn
    <3>4. d.previous \in {NoFrame, After(x, new)}
      BY <2>1, <2>2, <2>3 DEF After, Base
    <3> QED BY <2>1, <3>3, <3>4 DEF BufferLeads
  <2>4. ASSUME b.gap > 0 PROVE BufferLeads(d, z)
    <3> DEFINE mark == Marker(b.gap)
               s == b.stored \o <<mark>>
    <3>1. mark.marker
      BY DEF Marker
    <3>2. b.previous = NoFrame
      BY <2>4 DEF BufferLeads
    <3> HIDE DEF mark
    <3>3. OnBase(y, mark) /\ After(y, mark) = NoFrame
      BY <3>1 DEF OnBase, After
    <3>4. Sequence(<<mark>>) /\ Leads(y, <<mark>>, NoFrame)
      BY <3>3, LeadsOne
    <3>5. Leads(z, s, NoFrame) /\ Sequence(s)
      BY <1>1, <1>2, <3>4, LeadsOn, Joined
    <3>6. d.stored = s \o <<new>>
      <4>1. Encoded(b, r) = <<mark>> \o <<new>>
        BY <2>4, Zenon DEF Encoded, mark, new
      <4>2. PICK S : b.stored \in Seq(S)
        BY <1>1 DEF Sequence
      <4>3. /\ b.stored \in Seq(S \cup {mark, new}) /\ <<mark>> \in Seq(S \cup {mark, new})
            /\ <<new>> \in Seq(S \cup {mark, new})
        BY <4>2, SeqMonotonic
      <4>4. b.stored \o (<<mark>> \o <<new>>) = (b.stored \o <<mark>>) \o <<new>>
        BY <4>3, ConcatAssociative
      <4> QED BY <2>1, <4>1, <4>4
    <3> HIDE DEF s
    <3> QED BY <2>3, <3>2, <3>5, <3>6
  <2>5. ASSUME ~(b.gap > 0) PROVE BufferLeads(d, z)
    <3>1. Encoded(b, r) = <<new>>
      <4>1. Encoded(b, r) = <<>> \o <<new>>
        BY <2>5, Zenon DEF Encoded, new
      <4>2. <<new>> \in Seq({new})
        OBVIOUS
      <4>3. <<>> \o <<new>> = <<new>>
        BY <4>2, ConcatEmptySeq
      <4> QED BY <4>1, <4>3
    <3>2. d.stored = b.stored \o <<new>>
      BY <2>1, <3>1
    <3>3. Sequence(b.stored) /\ Leads(z, b.stored, y) /\ (b.previous = NoFrame \/ b.previous = y)
      BY <1>1, <1>2
    <3> QED BY <2>3, <3>2, <3>3
  <2>6. BufferLeads(d, z)
    BY <2>4, <2>5
  <2> QED BY <2>6 DEF d
<1> QED BY <1>3, <1>4

LEMMA PutPrefix ==
  ASSUME NEW b, NEW r, NEW take, BufferOK(b), PrefixOf(b, take)
  PROVE  PrefixOf(Put(b, r), take)
<1> DEFINE d == Put(b, r)
<1>1. DOMAIN b = BufferFields /\ Sequence(b.stored)
  BY DEF BufferOK
<1>2. /\ d.out = b.out /\ Len(b.stored) \in Nat /\ Len(d.stored) \in Nat /\ Len(b.stored) <= Len(d.stored)
      /\ \A i \in 1..Len(b.stored) : d.stored[i] = b.stored[i]
  <2>1. CASE ~Fits(b, r)
    <3>1. d.out = b.out /\ d.stored = b.stored
      BY <1>1, <2>1 DEF Put, Dropped, BufferFields
    <3> QED BY <1>1, <3>1, LengthOf
  <2>2. CASE Fits(b, r)
    <3>1. d.out = b.out /\ d.stored = b.stored \o Encoded(b, r)
      BY <1>1, <2>2 DEF Put, BufferFields
    <3>2. Sequence(Encoded(b, r))
      <4> DEFINE new == Slot(r, b.next, IF r.kind = "frame" THEN b.previous ELSE NoFrame)
                 front == IF b.gap > 0 THEN <<Marker(b.gap)>> ELSE <<>>
      <4>1. Encoded(b, r) = front \o <<new>>
        BY Zenon DEF Encoded
      <4>2. Sequence(<<>>) /\ \A e : Sequence(<<e>>)
        <5>1. <<>> \in Seq({}) /\ \A e : <<e>> \in Seq({e})
          OBVIOUS
        <5>2. Sequence(<<>>)
          BY <5>1, Zenon DEF Sequence
        <5>3. ASSUME NEW e PROVE Sequence(<<e>>)
          BY <5>1, Zenon DEF Sequence
        <5> QED BY <5>2, <5>3
      <4>3. Sequence(front)
        BY <4>2
      <4> HIDE DEF new, front
      <4> QED BY <4>1, <4>3, JoinedOne
    <3> HIDE DEF d
    <3>3. /\ Len(d.stored) = Len(b.stored) + Len(Encoded(b, r))
          /\ \A i \in 1..Len(b.stored) : d.stored[i] = b.stored[i]
      BY <1>1, <3>1, <3>2, Joined
    <3>4. Len(b.stored) \in Nat /\ Len(Encoded(b, r)) \in Nat
      BY <1>1, <3>2, LengthOf
    <3> QED BY <3>1, <3>3, <3>4
  <2> QED BY <2>1, <2>2
<1> HIDE DEF d
<1>3. take.slots \in 0..Len(b.stored) /\ Sequence(take.records)
  BY DEF PrefixOf
<1>4. PICK f \in {0, 1} :
        /\ f <= take.slots /\ Len(take.records) = take.slots - f
        /\ \A i \in 1..Len(take.records) :
             take.records[i] = b.stored[f + i] /\ ~take.records[i].marker
        /\ IF f = 0 THEN take.sequence = b.out ELSE b.stored[1].marker
  BY DEF PrefixOf
<1>5. take.slots \in 0..Len(d.stored)
  BY <1>2, <1>3
<1>6. ASSUME NEW i \in 1..Len(take.records) PROVE take.records[i] = d.stored[f + i]
  <2>1. f + i \in 1..Len(b.stored)
    BY <1>2, <1>3, <1>4
  <2> QED BY <1>2, <1>4, <2>1
<1>7. IF f = 0 THEN take.sequence = d.out ELSE d.stored[1].marker
  <2>1. CASE f = 0
    BY <1>2, <1>4, <2>1
  <2>2. CASE f = 1
    <3>1. 1 \in 1..Len(b.stored)
      BY <1>2, <1>3, <1>4, <2>2
    <3> QED BY <1>2, <1>4, <2>2, <3>1
  <2> QED BY <2>1, <2>2
<1>8. PrefixOf(d, take)
  BY <1>3, <1>4, <1>5, <1>6, <1>7 DEF PrefixOf
<1> QED BY <1>8 DEF d

\* What is numbered from sequence on may be relative to frame x when number n comes
\* after what x is the last frame of; a whole frame may always come next.
Onward(z, x, n, sequence) == z = NoFrame \/ (z = x /\ n = sequence)

\* Taking a batch out of the buffer leaves a buffer that goes on from it.
LEMMA TakenLeads ==
  ASSUME NEW b, BufferOK(b), NEW take, PrefixOf(b, take), NEW z, BufferLeads(b, z)
  PROVE  \E a, u : /\ a = NoFrame \/ (a = z /\ take.sequence = b.out)
                   /\ Leads(a, take.records, u) /\ BufferLeads(Consume(b, take), u)
<1> DEFINE s == b.stored
           k == take.slots
           rest == SubSeq(s, k + 1, Len(s))
           recs == take.records
<1>1. DOMAIN b = BufferFields /\ Sequence(s) /\ k \in 0..Len(s) /\ Sequence(recs)
  BY DEF BufferOK, PrefixOf
<1>2. Len(s) \in Nat
  BY <1>1, LengthOf
<1>3. PICK y : Leads(z, s, y) /\ (b.previous = NoFrame \/ b.previous = y)
  BY DEF BufferLeads
<1>4. PICK f \in {0, 1} :
        /\ f <= k /\ Len(recs) = k - f
        /\ \A i \in 1..Len(recs) : recs[i] = s[f + i] /\ ~recs[i].marker
        /\ IF f = 0 THEN take.sequence = b.out ELSE s[1].marker
  BY DEF PrefixOf
<1>5. /\ Consume(b, take).stored = rest /\ Consume(b, take).gap = b.gap
      /\ Consume(b, take).previous = b.previous
  BY <1>1 DEF Consume, BufferFields
<1> DEFINE p == SubSeq(s, 1, f)
           q == SubSeq(s, f + 1, Len(s))
<1> HIDE DEF s, k, recs
<1>6. /\ f \in 0..Len(s) /\ 1 \in 1..(Len(s) + 1) /\ f + 1 \in 1..(Len(s) + 1)
      /\ Len(s) \in 0..Len(s) /\ k + 1 \in 1..(Len(s) + 1)
  BY <1>1, <1>2, <1>4
<1>7. Sequence(p) /\ Len(p) = f /\ \A i \in 1..f : p[i] = s[i]
  <2>1. /\ Sequence(p) /\ Len(p) = IF 1 <= f THEN f - 1 + 1 ELSE 0
        /\ \A i \in 1..(f - 1 + 1) : p[i] = s[1 + i - 1]
    BY <1>1, <1>6, Part
  <2> HIDE DEF p
  <2> QED BY <1>4, <2>1
<1>8. Sequence(q) /\ Len(q) = Len(s) - f /\ \A i \in 1..(Len(s) - f) : q[i] = s[f + i]
  <2>1. /\ Sequence(q) /\ Len(q) = IF f + 1 <= Len(s) THEN Len(s) - (f + 1) + 1 ELSE 0
        /\ \A i \in 1..(Len(s) - (f + 1) + 1) : q[i] = s[f + 1 + i - 1]
    BY <1>1, <1>6, Part
  <2> HIDE DEF q
  <2>2. Len(q) = Len(s) - f
    BY <1>2, <1>6, <2>1
  <2>3. ASSUME NEW i \in 1..(Len(s) - f) PROVE q[i] = s[f + i]
    <3>1. i \in 1..(Len(s) - (f + 1) + 1) /\ f + 1 + i - 1 = f + i
      BY <1>2, <1>6
    <3> QED BY <2>1, <3>1
  <2> QED BY <2>1, <2>2, <2>3
<1>9. Sequence(rest) /\ Len(rest) = Len(s) - k /\ \A i \in 1..(Len(s) - k) : rest[i] = s[k + i]
  <2>1. /\ Sequence(rest) /\ Len(rest) = IF k + 1 <= Len(s) THEN Len(s) - (k + 1) + 1 ELSE 0
        /\ \A i \in 1..(Len(s) - (k + 1) + 1) : rest[i] = s[k + 1 + i - 1]
    BY <1>1, <1>6, Part
  <2> HIDE DEF rest
  <2> QED BY <1>1, <1>2, <2>1
<1> HIDE DEF p, q, rest
<1>10. PICK a : Leads(z, p, a) /\ Leads(a, q, y)
  BY <1>1, <1>3, <1>6, <1>7, <1>8, LeadsCut
<1>11. a = NoFrame \/ (a = z /\ take.sequence = b.out)
  <2>1. PICK bs : bs[1] = z /\ bs[Len(p) + 1] = a /\ Based(p, bs)
    BY <1>10 DEF Leads
  <2>2. CASE f = 0
    BY <1>4, <1>7, <2>1, <2>2
  <2>3. CASE f = 1
    <3>1. 1 \in 1..Len(p) /\ p[1] = s[1] /\ Len(p) + 1 = 1 + 1
      BY <1>7, <2>3
    <3>2. a = After(bs[1], p[1])
      BY <2>1, <3>1 DEF Based
    <3> QED BY <1>4, <2>3, <3>1, <3>2 DEF After
  <2> QED BY <2>2, <2>3
<1> DEFINE m == k - f
<1>12. m \in 0..Len(q) /\ Len(recs) = m /\ Len(rest) = Len(q) - m
  BY <1>1, <1>2, <1>4, <1>8, <1>9
<1>13. ASSUME NEW i \in 1..m PROVE recs[i] = q[i]
  BY <1>1, <1>2, <1>4, <1>8, <1>12
<1>14. ASSUME NEW i \in 1..(Len(q) - m) PROVE rest[i] = q[m + i]
  <2>1. i \in 1..(Len(s) - k) /\ m + i \in 1..(Len(s) - f) /\ f + (m + i) = k + i
    BY <1>1, <1>2, <1>4, <1>8
  <2> QED BY <1>8, <1>9, <2>1
<1> HIDE DEF m
<1>15. PICK u : Leads(a, recs, u) /\ Leads(u, rest, y)
  <2>1. Sequence(q) /\ Sequence(recs) /\ Sequence(rest) /\ Leads(a, q, y)
    BY <1>1, <1>8, <1>9, <1>10
  <2> QED BY <1>12, <1>13, <1>14, <2>1, LeadsCut
<1>16. BufferLeads(Consume(b, take), u)
  <2>1. b.gap > 0 => b.previous = NoFrame
    BY DEF BufferLeads
  <2> QED BY <1>3, <1>5, <1>15, <2>1 DEF BufferLeads
<1> QED BY <1>11, <1>15, <1>16 DEF recs

-----------------------------------------------------------------------------
(* What is on its way.                                                       *)

BatchLeads(x, n, take, y, k) ==
  /\ \E z : Onward(z, x, n, take.sequence) /\ Leads(z, take.records, y)
  /\ \A i \in 1..Len(take.records) : ~take.records[i].marker
  /\ k = take.sequence + Len(take.records)

\* What message m makes of the base x and the number n that came before it, for
\* a host that has heard everything.  A host whose recording begins starts anew.
Carried(m, x, n, y, k) ==
  IF ~m.last \/ m.frame.kind = "result" THEN y = x /\ k = n
  ELSE IF m.frame.kind = "batch" THEN BatchLeads(x, n, m.frame.take, y, k)
  ELSE k = n /\ y = IF m.frame.recording = None THEN x ELSE NoFrame

Passing(msgs, xs, ns) ==
  \A i \in 1..Len(msgs) : Carried(msgs[i], xs[i], ns[i], xs[i + 1], ns[i + 1])

Stream(x, n, msgs, y, k) ==
  \E xs, ns : /\ xs[1] = x /\ ns[1] = n /\ xs[Len(msgs) + 1] = y /\ ns[Len(msgs) + 1] = k
              /\ Passing(msgs, xs, ns)

LEMMA StreamNone == ASSUME NEW x, NEW n PROVE Stream(x, n, <<>>, x, n)
<1> DEFINE xs == [i \in 1..1 |-> x]
           ns == [i \in 1..1 |-> n]
<1>1. xs[1] = x /\ ns[1] = n /\ Len(<<>>) = 0
  OBVIOUS
<1> HIDE DEF xs, ns
<1>2. Passing(<<>>, xs, ns)
  BY DEF Passing
<1>3. xs[Len(<<>>) + 1] = x /\ ns[Len(<<>>) + 1] = n
  BY <1>1
<1> QED BY <1>1, <1>2, <1>3 DEF Stream

LEMMA StreamFirst ==
  ASSUME NEW msgs, Sequence(msgs), msgs # <<>>, NEW x, NEW n, NEW y, NEW k, Stream(x, n, msgs, y, k)
  PROVE  \E v, o : Carried(msgs[1], x, n, v, o) /\ Stream(v, o, Tail(msgs), y, k)
<1>1. PICK xs, ns : /\ xs[1] = x /\ ns[1] = n /\ xs[Len(msgs) + 1] = y /\ ns[Len(msgs) + 1] = k
                    /\ Passing(msgs, xs, ns)
  BY DEF Stream
<1> DEFINE l == Len(msgs)
           t == Tail(msgs)
<1>2. /\ Sequence(t) /\ Len(t) = l - 1 /\ l \in Nat /\ l # 0
      /\ \A i \in 1..(l - 1) : t[i] = msgs[i + 1]
  BY AfterFirst, LengthOf
<1>3. \A i \in 1..l : Carried(msgs[i], xs[i], ns[i], xs[i + 1], ns[i + 1])
  BY <1>1 DEF Passing
<1>4. xs[l + 1] = y /\ ns[l + 1] = k
  BY <1>1
<1> DEFINE vs == [i \in 1..l |-> xs[i + 1]]
           os == [i \in 1..l |-> ns[i + 1]]
<1>5. \A i \in 1..l : vs[i] = xs[i + 1] /\ os[i] = ns[i + 1]
  OBVIOUS
<1> HIDE DEF l, t, vs, os
<1>6. Carried(msgs[1], x, n, xs[2], ns[2])
  <2>1. 1 \in 1..l /\ 1 + 1 = 2
    BY <1>2
  <2> QED BY <1>1, <1>3, <2>1
<1>7. Passing(t, vs, os)
  <2>1. ASSUME NEW i \in 1..(l - 1) PROVE Carried(t[i], vs[i], os[i], vs[i + 1], os[i + 1])
    <3>1. i \in 1..l /\ i + 1 \in 1..l
      BY <1>2
    <3>2. Carried(msgs[i + 1], xs[i + 1], ns[i + 1], xs[i + 1 + 1], ns[i + 1 + 1])
      BY <1>3, <3>1
    <3> QED BY <1>2, <1>5, <3>1, <3>2
  <2> QED BY <1>2, <2>1 DEF Passing
<1>8. vs[1] = xs[2] /\ os[1] = ns[2] /\ vs[Len(t) + 1] = y /\ os[Len(t) + 1] = k
  <2>1. 1 \in 1..l /\ 1 + 1 = 2 /\ l \in 1..l /\ Len(t) + 1 = l
    BY <1>2
  <2> QED BY <1>4, <1>5, <2>1
<1>9. Stream(xs[2], ns[2], t, y, k)
  BY <1>7, <1>8 DEF Stream
<1> QED BY <1>6, <1>9 DEF t

LEMMA StreamMore ==
  ASSUME NEW msgs, Sequence(msgs), NEW x, NEW n, NEW y, NEW k, Stream(x, n, msgs, y, k),
         NEW m, NEW v, NEW o, Carried(m, y, k, v, o)
  PROVE  Stream(x, n, Append(msgs, m), v, o)
<1>1. PICK xs, ns : /\ xs[1] = x /\ ns[1] = n /\ xs[Len(msgs) + 1] = y /\ ns[Len(msgs) + 1] = k
                    /\ Passing(msgs, xs, ns)
  BY DEF Stream
<1> DEFINE l == Len(msgs)
           t == Append(msgs, m)
           vs == [i \in 1..(l + 2) |-> IF i = l + 2 THEN v ELSE xs[i]]
           os == [i \in 1..(l + 2) |-> IF i = l + 2 THEN o ELSE ns[i]]
<1>2. /\ Len(t) = l + 1 /\ l \in Nat /\ t[l + 1] = m
      /\ \A i \in 1..l : t[i] = msgs[i]
  BY Appended, LengthOf
<1>3. \A i \in 1..l : Carried(msgs[i], xs[i], ns[i], xs[i + 1], ns[i + 1])
  BY <1>1 DEF Passing
<1>4. xs[l + 1] = y /\ ns[l + 1] = k
  BY <1>1
<1> HIDE DEF l, t
<1>5. /\ \A i \in 1..(l + 1) : vs[i] = xs[i] /\ os[i] = ns[i]
      /\ vs[l + 2] = v /\ os[l + 2] = o
  BY <1>2
<1> HIDE DEF vs, os
<1>6. Passing(t, vs, os)
  <2>1. ASSUME NEW i \in 1..(l + 1) PROVE Carried(t[i], vs[i], os[i], vs[i + 1], os[i + 1])
    <3>1. CASE i = l + 1
      <4>1. i + 1 = l + 2
        BY <1>2, <3>1
      <4> QED BY <1>2, <1>4, <1>5, <3>1, <4>1
    <3>2. CASE i # l + 1
      <4>1. i \in 1..l /\ i + 1 \in 1..(l + 1)
        BY <1>2, <3>2
      <4> QED BY <1>2, <1>3, <1>5, <4>1
    <3> QED BY <3>1, <3>2
  <2> QED BY <1>2, <2>1 DEF Passing
<1>7. vs[1] = x /\ os[1] = n /\ vs[Len(t) + 1] = v /\ os[Len(t) + 1] = o
  <2>1. 1 \in 1..(l + 1) /\ Len(t) + 1 = l + 2
    BY <1>2
  <2> QED BY <1>1, <1>5, <2>1
<1>8. Stream(x, n, t, v, o)
  BY <1>6, <1>7 DEF Stream
<1> QED BY <1>8 DEF t

-----------------------------------------------------------------------------
(* The host.                                                                 *)

LEMMA LeastNumber ==
  ASSUME NEW S \in SUBSET Nat, S # {}
  PROVE  \E k \in S : \A j \in S : k <= j
<1> DEFINE Less == {e \in Nat \X Nat : e[1] < e[2]}
<1>1. IsWellFoundedOn(Less, Nat)
  BY NatLessThanWellFounded DEF OpToRel
<1>2. PICK k \in S : \A j \in S : <<j, k>> \notin Less
  <2> HIDE DEF Less
  <2> QED BY <1>1, WFMin
<1>3. ASSUME NEW j \in S PROVE k <= j
  <2>1. j \in Nat /\ k \in Nat
    OBVIOUS
  <2>2. ~(j < k)
    BY <1>2, <2>1
  <2> QED BY <2>1, <2>2
<1> QED BY <1>3

\* The host as it looks for a gap before a batch.
Found(h, take) ==
  IF take.sequence = h.next THEN h ELSE [h EXCEPT !.base = NoFrame, !.trace = NoTrace]

\* hs is the host before each of the first n records of a batch, and after them.
Hears(h, take, n, hs) ==
  /\ hs = [i \in 1..(n + 1) |-> hs[i]] /\ hs[1] = Found(h, take)
  /\ \A i \in 1..n : hs[i + 1] = Decoded(hs[i], take.records[i], take.sequence + i - 1)

LEMMA HearsExists ==
  ASSUME NEW h, NEW take, NEW l \in Nat
  PROVE  \E hs : Hears(h, take, l, hs)
<1> DEFINE Without == {n \in 0..l : ~\E hs : Hears(h, take, n, hs)}
<1> SUFFICES ASSUME Without # {} PROVE FALSE
  <2>1. l \in 0..l
    OBVIOUS
  <2> QED BY <2>1
<1>1. PICK k \in Without : \A j \in Without : k <= j
  <2>1. Without \in SUBSET Nat
    OBVIOUS
  <2> HIDE DEF Without
  <2> QED BY <2>1, LeastNumber
<1>2. k \in 0..l /\ ~\E hs : Hears(h, take, k, hs)
  OBVIOUS
<1>3. CASE k = 0
  <2> DEFINE hs == [i \in 1..(0 + 1) |-> Found(h, take)]
  <2>1. hs = [i \in 1..(0 + 1) |-> hs[i]] /\ hs[1] = Found(h, take)
    OBVIOUS
  <2>2. Hears(h, take, 0, hs)
    <3> HIDE DEF hs
    <3> QED BY <2>1 DEF Hears
  <2> QED BY <1>2, <1>3, <2>2
<1>4. CASE k # 0
  <2>1. k - 1 \in 0..l /\ ~(k <= k - 1)
    BY <1>2, <1>4
  <2>2. k - 1 \notin Without
    BY <1>1, <2>1
  <2>3. PICK gs : Hears(h, take, k - 1, gs)
    BY <2>1, <2>2
  <2> HIDE DEF Without
  <2> DEFINE last == Decoded(gs[k], take.records[k], take.sequence + k - 1)
             hs == [i \in 1..(k + 1) |-> IF i = k + 1 THEN last ELSE gs[i]]
  <2> HIDE DEF last
  <2>4. \A i \in 1..k : hs[i] = gs[i]
    BY <1>2
  <2>5. hs[k + 1] = last /\ hs = [i \in 1..(k + 1) |-> hs[i]]
    BY <1>2
  <2> HIDE DEF hs
  <2>6. hs[1] = Found(h, take)
    <3>1. 1 \in 1..k
      BY <1>2, <1>4
    <3>2. gs[1] = Found(h, take)
      BY <2>3 DEF Hears
    <3> QED BY <2>4, <3>1, <3>2
  <2>7. ASSUME NEW i \in 1..k
        PROVE  hs[i + 1] = Decoded(hs[i], take.records[i], take.sequence + i - 1)
    <3>1. CASE i = k
      BY <2>4, <2>5, <3>1 DEF last
    <3>2. CASE i # k
      <4>1. i \in 1..(k - 1) /\ i + 1 \in 1..k
        BY <1>2, <3>2
      <4>2. gs[i + 1] = Decoded(gs[i], take.records[i], take.sequence + i - 1)
        BY <2>3, <4>1 DEF Hears
      <4> QED BY <2>4, <4>1, <4>2
    <3> QED BY <3>1, <3>2
  <2>8. Hears(h, take, k, hs)
    BY <2>5, <2>6, <2>7 DEF Hears
  <2> QED BY <1>2, <2>8
<1> QED BY <1>3, <1>4

LEMMA HeardIs ==
  ASSUME NEW h, NEW take, Sequence(take.records), take.sequence \in Nat
  PROVE  Hears(h, take, Len(take.records), Heard(h, take))
<1> DEFINE l == Len(take.records)
           Step(g) == [i \in 1..(l + 1) |->
                         IF i = 1 THEN Found(h, take)
                         ELSE Decoded(g[i - 1], take.records[i - 1], take.sequence + i - 2)]
           hs == CHOOSE g : g = Step(g)
<1>1. l \in Nat
  BY LengthOf
<1>2. PICK g : Hears(h, take, l, g)
  <2> HIDE DEF l
  <2> QED BY <1>1, HearsExists
<1> HIDE DEF l
<1>3. g = Step(g)
  <2>1. ASSUME NEW i \in 1..(l + 1) PROVE g[i] = Step(g)[i]
    <3>1. CASE i = 1
      BY <1>2, <3>1 DEF Hears
    <3>2. CASE i # 1
      <4>1. i - 1 \in 1..l /\ (i - 1) + 1 = i
        BY <1>1, <3>2
      <4>2. take.sequence + (i - 1) - 1 = take.sequence + i - 2
        BY <4>1
      <4>3. g[i] = Decoded(g[i - 1], take.records[i - 1], take.sequence + i - 2)
        BY <1>2, <4>1, <4>2 DEF Hears
      <4> QED BY <3>2, <4>3
    <3> QED BY <3>1, <3>2
  <2>2. g = [i \in 1..(l + 1) |-> g[i]]
    BY <1>2 DEF Hears
  <2>3. Step(g) = [i \in 1..(l + 1) |-> Step(g)[i]]
    OBVIOUS
  <2> HIDE DEF Step
  <2> QED BY <2>1, <2>2, <2>3
<1>4. hs = Step(hs)
  <2> HIDE DEF Step
  <2> QED BY <1>3
<1>5. Heard(h, take) = hs
  BY DEF Heard, Found, l
<1> HIDE DEF hs
<1>6. Hears(h, take, l, hs)
  <2>1. hs = [i \in 1..(l + 1) |-> hs[i]]
    BY <1>4
  <2>2. hs[1] = Found(h, take)
    <3>1. 1 \in 1..(l + 1)
      BY <1>1
    <3>2. Step(hs)[1] = Found(h, take)
      BY <3>1
    <3> HIDE DEF Step
    <3> QED BY <1>4, <3>2
  <2>3. ASSUME NEW i \in 1..l
        PROVE  hs[i + 1] = Decoded(hs[i], take.records[i], take.sequence + i - 1)
    <3>1. i + 1 \in 1..(l + 1) /\ i + 1 # 1 /\ (i + 1) - 1 = i
      BY <1>1
    <3>2. take.sequence + (i + 1) - 2 = take.sequence + i - 1
      BY <3>1
    <3>3. Step(hs)[i + 1] = Decoded(hs[i], take.records[i], take.sequence + i - 1)
      BY <3>1, <3>2
    <3> HIDE DEF Step
    <3> QED BY <1>4, <3>3
  <2> QED BY <2>1, <2>2, <2>3 DEF Hears
<1> QED BY <1>5, <1>6 DEF l

HostFields == {"active", "own", "next", "base", "trace"}

\* The host is where one is that has heard everything up to number n, or waits
\* for a whole frame because its own recording has not begun yet.
Follows(h, x, n) ==
  h.active /\ x # NoFrame => (h.base = x /\ h.next = n) \/ (h.base = NoFrame /\ ~h.own)

Alike(h, g) == DOMAIN h = HostFields /\ h.active = g.active /\ h.own = g.own

LEMMA DecodedFollows ==
  ASSUME NEW h, DOMAIN h = HostFields, NEW s, ~s.marker, NEW x, OnBase(x, s), NEW n, s.n = n,
         Follows(h, x, n)
  PROVE  Follows(Decoded(h, s, n), After(x, s), n + 1) /\ Alike(Decoded(h, s, n), h)
<1> DEFINE d == Decoded(h, s, n)
<1>1. /\ d.active = h.active /\ d.own = h.own /\ d.next = n + 1 /\ DOMAIN d = HostFields
      /\ d.base = IF Skipped(h, s) \/ s.record.kind = "entered" THEN NoFrame
                  ELSE IF s.record.kind = "frame" THEN n ELSE h.base
  BY DEF Decoded, HostFields
<1> HIDE DEF d
<1>2. Follows(d, After(x, s), n + 1)
  <2> SUFFICES ASSUME h.active, After(x, s) # NoFrame
               PROVE  d.base = After(x, s) \/ (d.base = NoFrame /\ ~h.own)
    BY <1>1 DEF Follows
  <2>1. s.record.kind # "entered"
    BY DEF After
  <2>2. CASE s.record.kind = "frame"
    <3>1. After(x, s) = n
      BY <2>1, <2>2 DEF After
    <3>2. CASE Skipped(h, s)
      <4>1. s.base # NoFrame /\ h.base = NoFrame
        BY <3>2 DEF Skipped
      <4>2. x = s.base
        BY <2>2, <4>1 DEF OnBase
      <4> QED BY <1>1, <3>2, <4>1, <4>2 DEF Follows
    <3>3. CASE ~Skipped(h, s)
      BY <1>1, <2>1, <2>2, <3>1, <3>3
    <3> QED BY <3>2, <3>3
  <2>3. CASE s.record.kind # "frame"
    <3>1. After(x, s) = x /\ d.base = h.base
      BY <1>1, <2>1, <2>3 DEF After, Skipped
    <3> QED BY <3>1 DEF Follows
  <2> QED BY <2>2, <2>3
<1>3. Alike(d, h)
  BY <1>1 DEF Alike
<1> QED BY <1>2, <1>3 DEF d

\* A host that follows a stream up to a batch follows it through the batch.
LEMMA HeardFollows ==
  ASSUME NEW h, DOMAIN h = HostFields, NEW take, Consecutive(take),
         NEW x, NEW n, Follows(h, x, n), NEW y, NEW k, BatchLeads(x, n, take, y, k)
  PROVE  LET hs == Heard(h, take)
         IN  /\ \A i \in 1..Len(take.records) :
                  \E b : /\ OnBase(b, take.records[i]) /\ ~take.records[i].marker
                         /\ Follows(hs[i], b, take.sequence + i - 1) /\ Alike(hs[i], h)
             /\ Follows(Last(hs), y, k) /\ Alike(Last(hs), h)
<1> DEFINE l == Len(take.records)
           s == take.records
           q == take.sequence
           hs == Heard(h, take)
<1>1. l \in Nat /\ q \in Nat /\ Sequence(s) /\ \A i \in 1..l : s[i].n = q + i - 1
  BY LengthOf DEF Consecutive
<1>2. /\ hs = [i \in 1..(l + 1) |-> hs[i]] /\ hs[1] = Found(h, take)
      /\ \A i \in 1..l : hs[i + 1] = Decoded(hs[i], s[i], q + i - 1)
  <2>1. Hears(h, take, l, hs)
    BY <1>1, HeardIs
  <2> HIDE DEF hs, l
  <2> QED BY <2>1 DEF Hears
<1>3. PICK z : Onward(z, x, n, q) /\ Leads(z, s, y)
  BY DEF BatchLeads
<1>4. /\ \A i \in 1..l : ~s[i].marker
      /\ k = q + l
  BY DEF BatchLeads
<1>5. PICK bs : bs[1] = z /\ bs[l + 1] = y /\ Based(s, bs)
  BY <1>3 DEF Leads
<1>6. \A i \in 1..l : OnBase(bs[i], s[i]) /\ bs[i + 1] = After(bs[i], s[i])
  BY <1>5 DEF Based
<1> HIDE DEF l, s, q, hs
<1> DEFINE Good(i) == Follows(hs[i], bs[i], q + i - 1) /\ Alike(hs[i], h)
<1>7. Good(1)
  <2>1. Alike(hs[1], h)
    BY <1>2 DEF Found, Alike, HostFields
  <2>2. Follows(Found(h, take), z, q)
    <3>1. CASE q = h.next
      BY <1>3, <3>1 DEF Found, Follows, Onward, q
    <3>2. CASE q # h.next
      <4>1. Found(h, take).base = NoFrame /\ Found(h, take).active = h.active /\ Found(h, take).own = h.own
        BY <3>2 DEF Found, HostFields, q
      <4>2. h.active /\ z # NoFrame => ~h.own
        BY <1>3, <3>2 DEF Follows, Onward
      <4> QED BY <4>1, <4>2 DEF Follows
    <3> QED BY <3>1, <3>2
  <2>3. q + 1 - 1 = q
    BY <1>1
  <2> QED BY <1>2, <1>5, <2>1, <2>2, <2>3
<1>8. ASSUME NEW i \in 1..l, Good(i) PROVE Good(i + 1)
  <2>1. Follows(hs[i], bs[i], q + i - 1) /\ Alike(hs[i], h)
    BY <1>8
  <2>2. DOMAIN hs[i] = HostFields
    BY <2>1 DEF Alike
  <2>3. ~s[i].marker /\ OnBase(bs[i], s[i]) /\ s[i].n = q + i - 1
    BY <1>1, <1>4, <1>6
  <2>4. /\ Follows(Decoded(hs[i], s[i], q + i - 1), After(bs[i], s[i]), q + i - 1 + 1)
        /\ Alike(Decoded(hs[i], s[i], q + i - 1), hs[i])
    BY <2>1, <2>2, <2>3, DecodedFollows
  <2>5. q + i - 1 + 1 = q + (i + 1) - 1
    BY <1>1
  <2>6. hs[i + 1] = Decoded(hs[i], s[i], q + i - 1) /\ bs[i + 1] = After(bs[i], s[i])
    BY <1>2, <1>6
  <2>7. Follows(hs[i + 1], bs[i + 1], q + (i + 1) - 1)
    BY <2>4, <2>5, <2>6
  <2>8. Alike(hs[i + 1], h)
    BY <2>1, <2>4, <2>6 DEF Alike
  <2> QED BY <2>7, <2>8
<1> HIDE DEF Good
<1>9. ASSUME NEW i \in 1..(l + 1) PROVE Good(i)
  <2> DEFINE Bad == {j \in 1..(l + 1) : ~Good(j)}
  <2> SUFFICES ASSUME Bad # {} PROVE FALSE
    OBVIOUS
  <2>1. PICK j \in Bad : \A m \in Bad : j <= m
    <3>1. Bad \in SUBSET Nat
      BY <1>1
    <3> HIDE DEF Bad
    <3> QED BY <3>1, LeastNumber
  <2>2. j \in 1..(l + 1) /\ ~Good(j) /\ j # 1
    BY <1>7
  <2>3. j - 1 \in 1..l /\ j - 1 \in 1..(l + 1) /\ ~(j <= j - 1) /\ (j - 1) + 1 = j
    BY <1>1, <2>2
  <2>4. Good(j - 1)
    BY <2>1, <2>3
  <2> HIDE DEF Bad
  <2>5. Good((j - 1) + 1)
    BY <1>8, <2>3, <2>4
  <2> QED BY <2>2, <2>3, <2>5
<1>10. ASSUME NEW i \in 1..l
       PROVE  \E b : /\ OnBase(b, s[i]) /\ ~s[i].marker
                     /\ Follows(hs[i], b, q + i - 1) /\ Alike(hs[i], h)
  <2>1. i \in 1..(l + 1)
    BY <1>1
  <2>2. Good(i)
    BY <1>9, <2>1
  <2> QED BY <1>4, <1>6, <2>2 DEF Good
<1>11. Last(hs) = hs[l + 1]
  <2> DEFINE S == {hs[i] : i \in 1..(l + 1)}
  <2>1. \A i \in 1..(l + 1) : hs[i] \in S
    OBVIOUS
  <2> HIDE DEF S
  <2>2. hs \in [1..(l + 1) -> S]
    BY <1>2, <2>1
  <2>3. Len(hs) = l + 1
    BY <1>1, <2>2
  <2> QED BY <2>3 DEF Last
<1>12. Follows(Last(hs), y, k) /\ Alike(Last(hs), h)
  <2>1. l + 1 \in 1..(l + 1) /\ q + (l + 1) - 1 = k /\ bs[l + 1] = y
    BY <1>1, <1>4, <1>5 DEF l
  <2>2. Good(l + 1)
    BY <1>9, <2>1
  <2> QED BY <1>11, <2>1, <2>2 DEF Good
<1> QED BY <1>10, <1>12 DEF l, s, q, hs

-----------------------------------------------------------------------------
(* From the buffer to the host.                                              *)

\* The host, what is on its way to it and the buffer fit together.
Flow ==
  \E x, n, y, k, z :
    /\ Follows(host, x, n) /\ Stream(x, n, air, y, k)
    /\ Onward(z, y, k, buffer.out) /\ BufferLeads(buffer, z)

\* The worker tells the host that its recording has begun.
Answering ==
  \/ w.pc = "answer" /\ w.goal.kind = "control" /\ recording # None
  \/ w.pc = "send" /\ w.send.kind \notin {"batch", "result"} /\ w.send.recording # None

\* Until it has, nothing of the recording was sent.
Fresh == Answering => BufferLeads(buffer, NoFrame)

\* What a control drains was recorded before it.
Ended ==
  /\ w.goal.kind = "control"
  /\ w.pc \in {"receive", "drain"} \/ (w.pc = "send" /\ w.send.kind = "batch")
  => recording = None

Prefixed == w.pc = "send" /\ w.send.kind = "batch" => PrefixOf(buffer, w.send.take)

Unfinished == w.pc = "send" => w.left \in Nat \ {0}

FInv == DOMAIN host = HostFields /\ Flow /\ Fresh /\ Ended /\ Prefixed /\ Unfinished

LEMMA InitFInv == Init => FInv
<1> SUFFICES ASSUME Init PROVE FInv
  OBVIOUS
<1>1. DOMAIN host = HostFields /\ ~host.active
  BY DEF Init, Away, HostFields
<1>2. w.pc = "idle"
  BY DEF Init, Idle
<1>3. Fresh /\ Ended /\ Prefixed /\ Unfinished
  BY <1>2 DEF Fresh, Answering, Ended, Prefixed, Unfinished
<1>4. Flow
  <2>1. Follows(host, NoFrame, 0)
    BY DEF Follows
  <2>2. Stream(NoFrame, 0, air, NoFrame, 0)
    BY StreamNone DEF Init
  <2>3. BufferLeads(buffer, NoFrame)
    BY NewBufferLeads DEF Init
  <2>4. Onward(NoFrame, NoFrame, 0, buffer.out)
    BY DEF Onward
  <2> QED BY <2>1, <2>2, <2>3, <2>4 DEF Flow
<1> QED BY <1>1, <1>3, <1>4 DEF FInv

\* A record more in the buffer, or an emptied one.
LEMMA PutFlow ==
  ASSUME Flow, BufferOK(buffer), NEW r, buffer' = Put(buffer, r), UNCHANGED <<air, host>>
  PROVE  Flow'
<1>1. PICK x, n, y, k, z :
        /\ Follows(host, x, n) /\ Stream(x, n, air, y, k)
        /\ Onward(z, y, k, buffer.out) /\ BufferLeads(buffer, z)
  BY DEF Flow
<1>2. BufferLeads(buffer', z)
  BY <1>1, PutLeads
<1>3. buffer'.out = buffer.out
  BY DEF Put, Dropped, BufferOK, BufferFields
<1>4. Onward(z, y, k, buffer'.out)
  BY <1>1, <1>3
<1>5. Follows(host', x, n) /\ Stream(x, n, air', y, k)
  BY <1>1
<1> QED BY <1>2, <1>4, <1>5 DEF Flow

LEMMA NewFlow ==
  ASSUME Flow, BufferLeads(buffer', NoFrame), UNCHANGED <<air, host>>
  PROVE  Flow'
<1>1. PICK x, n, y, k : Follows(host, x, n) /\ Stream(x, n, air, y, k)
  BY DEF Flow
<1>2. Onward(NoFrame, y, k, buffer'.out)
  BY DEF Onward
<1>3. Follows(host', x, n) /\ Stream(x, n, air', y, k)
  BY <1>1
<1> QED BY <1>2, <1>3 DEF Flow

LEMMA AsideFInv ==
  ASSUME FInv, UNCHANGED <<buffer, w, air, host, recording>>
  PROVE  FInv'
<1>1. Flow'
  <2>1. PICK x, n, y, k, z :
        /\ Follows(host, x, n) /\ Stream(x, n, air, y, k)
        /\ Onward(z, y, k, buffer.out) /\ BufferLeads(buffer, z)
    BY DEF FInv, Flow
  <2>2. /\ Follows(host', x, n) /\ Stream(x, n, air', y, k)
        /\ Onward(z, y, k, buffer'.out) /\ BufferLeads(buffer', z)
    BY <2>1
  <2> QED BY <2>2 DEF Flow
<1>2. Fresh'
  BY DEF FInv, Fresh, Answering
<1>3. Ended' /\ Prefixed' /\ Unfinished'
  BY DEF FInv, Ended, Prefixed, Unfinished
<1> QED BY <1>1, <1>2, <1>3 DEF FInv

\* Steps of the worker that neither send nor begin to answer a control.
LEMMA WorkFInv ==
  ASSUME FInv, Flow', UNCHANGED host, w'.pc # "send",
         w'.goal.kind = "control" /\ w'.pc \in {"answer", "receive", "drain"} => recording' = None
  PROVE  FInv'
<1>1. Fresh' /\ Ended' /\ Prefixed' /\ Unfinished'
  BY DEF Fresh, Answering, Ended, Prefixed, Unfinished
<1> QED BY <1>1 DEF FInv

LEMMA SameFlow == ASSUME Flow, UNCHANGED <<buffer, air, host>> PROVE Flow'
<1>1. PICK x, n, y, k, z :
        /\ Follows(host, x, n) /\ Stream(x, n, air, y, k)
        /\ Onward(z, y, k, buffer.out) /\ BufferLeads(buffer, z)
  BY DEF Flow
<1>2. /\ Follows(host', x, n) /\ Stream(x, n, air', y, k)
      /\ Onward(z, y, k, buffer'.out) /\ BufferLeads(buffer', z)
  BY <1>1
<1> QED BY <1>2 DEF Flow

LEMMA SubmittedFInv ==
  ASSUME BufferOK(buffer), FInv, NEW r, Submitted(r), UNCHANGED <<w, air, host, recording>>
  PROVE  FInv'
<1>1. CASE recording = None
  BY <1>1, AsideFInv DEF Submitted
<1>2. CASE recording # None
  <2>1. buffer' = Put(buffer, r)
    BY <1>2 DEF Submitted
  <2>2. Flow'
    BY <2>1, PutFlow DEF FInv
  <2>3. Fresh'
    <3>1. ASSUME Answering PROVE BufferLeads(buffer', NoFrame)
      BY <2>1, <3>1, PutLeads DEF FInv, Fresh
    <3>2. Answering' <=> Answering
      BY DEF Answering
    <3> QED BY <3>1, <3>2 DEF Fresh
  <2>4. Prefixed'
    <3>1. ASSUME w.pc = "send", w.send.kind = "batch" PROVE PrefixOf(buffer', w.send.take)
      BY <2>1, <3>1, PutPrefix DEF FInv, Prefixed
    <3> QED BY <3>1 DEF Prefixed
  <2>5. Ended' /\ Unfinished'
    BY DEF FInv, Ended, Unfinished
  <2> QED BY <2>2, <2>3, <2>4, <2>5 DEF FInv
<1> QED BY <1>1, <1>2

\* A drain that answers a control ends when nothing is recorded.
LEMMA DrainedEnds ==
  ASSUME IInv, FInv, Draining \/ (w.pc = "send" /\ w.send.kind = "batch")
  PROVE  Drained.goal.kind = "control" => recording = None
<1>1. DOMAIN w = WorkerFields
  BY DEF IInv, Types
<1>2. w.goal.kind = "control" => recording = None
  BY DEF FInv, Ended, Draining
<1>3. Drained.goal \in {NoRequest, w.goal}
  BY <1>1 DEF Drained, Idle, WorkerFields
<1> QED BY <1>2, <1>3 DEF NoRequest

LEMMA RestFInv == ASSUME IInv, FInv, Rest PROVE FInv'
<1>1. Draining /\ w' = Drained /\ UNCHANGED <<recording, buffer, air, host>>
  BY DEF Rest, records, link
<1>2. w'.pc # "send"
  BY <1>1, DrainedGoes
<1>3. w'.goal.kind = "control" => recording' = None
  BY <1>1, DrainedEnds
<1>4. Flow'
  BY <1>1, SameFlow DEF FInv
<1> QED BY <1>1, <1>2, <1>3, <1>4, WorkFInv

LEMMA SendFInv == ASSUME IInv, BufferOK(buffer), FInv, Send PROVE FInv'
<1>1. UNCHANGED <<recording, buffer, air, host>>
  BY DEF Send, records, link
<1> DEFINE Sends(frame, chunks) ==
             w' = [w EXCEPT !.pc = "send", !.send = frame, !.conn = conn, !.left = chunks]
           batch == [kind |-> "batch", take |-> Peek(buffer)]
           answer == IF w.goal.kind = "control" THEN Status(recording) ELSE Result
<1>2. \/ Draining /\ Peek(buffer).records # <<>> /\ Sends(batch, Chunks(Peek(buffer)))
      \/ w.pc = "answer" /\ Sends(answer, 1)
  BY DEF Send, NothingToSend
<1>3. ASSUME NEW frame, NEW chunks, Sends(frame, chunks)
      PROVE  w'.pc = "send" /\ w'.send = frame /\ w'.goal = w.goal /\ w'.left = chunks
  BY <1>3 DEF IInv, Types, WorkerFields
<1>4. /\ batch.kind = "batch" /\ batch.take = Peek(buffer) /\ answer.kind # "batch"
      /\ w.goal.kind # "control" => answer.kind = "result"
      /\ w.goal.kind = "control" => answer.recording = recording
  BY DEF Status, Result
<1> HIDE DEF Sends, batch, answer
<1>5. /\ w'.pc = "send" /\ w'.goal = w.goal
      /\ (Draining /\ w'.send = batch) \/ (w.pc = "answer" /\ w'.send = answer)
  BY <1>2, <1>3
<1>9. Unfinished'
  <2>1. Peek(buffer).records # <<>> => Chunks(Peek(buffer)) \in Nat \ {0}
    <3>1. Sequence(Peek(buffer).records)
      BY PeekOK DEF PrefixOf
    <3> QED BY <3>1, LengthOf DEF Chunks
  <2>2. w'.left \in Nat \ {0}
    BY <1>2, <1>3, <2>1
  <2> QED BY <2>2 DEF Unfinished
<1>6. Flow'
  BY <1>1, SameFlow DEF FInv
<1>7. CASE Draining /\ w'.send = batch
  <2>1. PrefixOf(buffer', w'.send.take)
    <3>1. PrefixOf(buffer, Peek(buffer))
      BY PeekOK
    <3> QED BY <1>1, <1>4, <1>7, <3>1
  <2>2. w'.goal.kind = "control" => recording' = None
    BY <1>1, <1>5, <1>7 DEF FInv, Ended, Draining
  <2>3. Fresh' /\ Ended' /\ Prefixed'
    BY <1>4, <1>5, <1>7, <2>1, <2>2 DEF Fresh, Answering, Ended, Prefixed
  <2> QED BY <1>1, <1>6, <1>9, <2>3 DEF FInv
<1>8. CASE w.pc = "answer" /\ w'.send = answer
  <2>1. Ended' /\ Prefixed'
    BY <1>4, <1>5, <1>8 DEF Ended, Prefixed
  <2>2. Fresh'
    <3> SUFFICES ASSUME Answering' PROVE BufferLeads(buffer', NoFrame)
      BY DEF Fresh
    <3>1. w'.send.kind # "result" /\ w'.send.recording # None
      BY <1>5 DEF Answering
    <3>2. w.goal.kind = "control" /\ recording # None
      BY <1>4, <1>8, <3>1
    <3> QED BY <1>1, <1>8, <3>2 DEF FInv, Fresh, Answering
  <2> QED BY <1>1, <1>6, <1>9, <2>1, <2>2 DEF FInv
<1> QED BY <1>5, <1>7, <1>8

\* The last notification of a batch takes it out of the buffer and onto the air.
LEMMA NotifyFInv == ASSUME IInv, DInv, FInv, Notify PROVE FInv'
<1> DEFINE new == [frame |-> w.send, last |-> w.left = 1]
<1>1. /\ w.pc = "send" /\ air' = Append(air, new) /\ UNCHANGED <<recording, host>>
      /\ \/ w.left > 1 /\ w' = [w EXCEPT !.left = w.left - 1] /\ buffer' = buffer
         \/ /\ ~(w.left > 1) /\ w.send.kind = "batch" /\ w' = [w EXCEPT !.pc = "drain", !.send = NoSend]
            /\ buffer' = Consume(buffer, w.send.take)
         \/ ~(w.left > 1) /\ w.send.kind # "batch" /\ w' = Receiving /\ buffer' = buffer
  BY DEF Notify
<1>2. Sequence(air) /\ BufferOK(buffer)
  BY DEF DInv, Arriving
<1>3. PICK x, n, y, k, z :
        /\ Follows(host, x, n) /\ Stream(x, n, air, y, k)
        /\ Onward(z, y, k, buffer.out) /\ BufferLeads(buffer, z)
  BY DEF FInv, Flow
<1>4. new.frame = w.send /\ (new.last <=> w.left = 1)
  OBVIOUS
<1> HIDE DEF new
<1>5. ASSUME NEW v, NEW o, Carried(new, y, k, v, o), NEW u, Onward(u, v, o, buffer'.out), BufferLeads(buffer', u)
      PROVE  Flow'
  <2>1. Stream(x, n, air', v, o)
    BY <1>1, <1>2, <1>3, <1>5, StreamMore
  <2>2. Follows(host', x, n)
    BY <1>1, <1>3
  <2> QED BY <1>5, <2>1, <2>2 DEF Flow
<1>6. CASE w.left > 1 /\ w' = [w EXCEPT !.left = w.left - 1] /\ buffer' = buffer
  <2>1. w'.pc = w.pc /\ w'.send = w.send /\ w'.goal = w.goal /\ w'.left = w.left - 1
    BY <1>6 DEF IInv, Types, WorkerFields
  <2>2. ~new.last
    BY <1>4, <1>6
  <2>3. Carried(new, y, k, y, k)
    BY <2>2 DEF Carried
  <2>4. Flow'
    BY <1>3, <1>5, <1>6, <2>3
  <2>5. Fresh' /\ Ended' /\ Prefixed'
    BY <1>1, <1>6, <2>1 DEF FInv, Fresh, Answering, Ended, Prefixed
  <2>6. Unfinished'
    BY <1>1, <1>6, <2>1 DEF FInv, Unfinished
  <2> QED BY <1>1, <2>4, <2>5, <2>6 DEF FInv
<1>7. CASE /\ ~(w.left > 1) /\ w.send.kind = "batch" /\ w' = [w EXCEPT !.pc = "drain", !.send = NoSend]
           /\ buffer' = Consume(buffer, w.send.take)
  <2> DEFINE take == w.send.take
  <2>1. w'.pc = "drain" /\ w'.goal = w.goal
    BY <1>7 DEF IInv, Types, WorkerFields
  <2>2. PrefixOf(buffer, take)
    BY <1>1, <1>7 DEF FInv, Prefixed
  <2>3. PICK a, u : /\ a = NoFrame \/ (a = z /\ take.sequence = buffer.out)
                    /\ Leads(a, take.records, u) /\ BufferLeads(buffer', u)
    BY <1>2, <1>3, <1>7, <2>2, TakenLeads
  <2>4. buffer'.out = take.sequence + Len(take.records)
    BY <1>2, <1>7 DEF Consume, BufferOK, BufferFields
  <2>5. \A i \in 1..Len(take.records) : ~take.records[i].marker
    BY <2>2 DEF PrefixOf
  <2>6. Onward(a, y, k, take.sequence)
    BY <1>3, <2>3 DEF Onward
  <2>7. Flow'
    <3>1. w.left = 1
      BY <1>1, <1>7 DEF FInv, Unfinished
    <3>2. BatchLeads(y, k, take, u, buffer'.out)
      BY <2>3, <2>4, <2>5, <2>6 DEF BatchLeads
    <3>3. Carried(new, y, k, u, buffer'.out)
      BY <1>4, <1>7, <3>1, <3>2 DEF Carried
    <3>4. Onward(u, u, buffer'.out, buffer'.out)
      BY DEF Onward
    <3> QED BY <1>5, <2>3, <3>3, <3>4
  <2>8. w'.goal.kind = "control" => recording' = None
    BY <1>1, <1>7, <2>1 DEF FInv, Ended
  <2> QED BY <1>1, <2>1, <2>7, <2>8, WorkFInv
<1>8. CASE ~(w.left > 1) /\ w.send.kind # "batch" /\ w' = Receiving /\ buffer' = buffer
  <2>1. w'.pc = "receive" /\ w'.goal.kind = "none"
    BY <1>8, ReceivingType
  <2>2. Flow'
    <3>1. CASE ~new.last \/ w.send.kind = "result" \/ w.send.recording = None
      <4>1. Carried(new, y, k, y, k)
        BY <1>4, <1>8, <3>1 DEF Carried
      <4> QED BY <1>3, <1>5, <1>8, <4>1
    <3>2. CASE ~(~new.last \/ w.send.kind = "result" \/ w.send.recording = None)
      <4>1. Carried(new, y, k, NoFrame, k)
        BY <1>4, <1>8, <3>2 DEF Carried
      <4>2. BufferLeads(buffer', NoFrame)
        BY <1>1, <1>8, <3>2 DEF FInv, Fresh, Answering
      <4>3. Onward(NoFrame, NoFrame, k, buffer'.out)
        BY DEF Onward
      <4> QED BY <1>5, <4>1, <4>2, <4>3
    <3> QED BY <3>1, <3>2
  <2> QED BY <1>1, <2>1, <2>2, WorkFInv
<1> QED BY <1>1, <1>6, <1>7, <1>8

LEMMA SendFailsFInv == ASSUME IInv, DInv, FInv, SendFails PROVE FInv'
<1>1. /\ w.pc = "send" /\ buffer' \in {buffer, Discard(buffer)}
      /\ w' = IF w.send.kind = "batch" THEN Drained ELSE Receiving
      /\ UNCHANGED <<recording, air, host>>
  BY DEF SendFails, link
<1>2. w'.pc # "send"
  BY <1>1, DrainedGoes, ReceivingType
<1>3. w'.goal.kind = "control" => recording' = None
  BY <1>1, DrainedEnds, ReceivingType
<1>4. Flow'
  <2>1. CASE buffer' = buffer
    BY <1>1, <2>1, SameFlow DEF FInv
  <2>2. CASE buffer' = Discard(buffer)
    <3>1. BufferLeads(buffer', NoFrame)
      BY <2>2, DiscardLeads DEF DInv, BufferOK
    <3> QED BY <1>1, <3>1, NewFlow DEF FInv
  <2> QED BY <1>1, <2>1, <2>2
<1> QED BY <1>1, <1>2, <1>3, <1>4, WorkFInv

LEMMA TimedOutFInv == ASSUME DInv, FInv, TimedOut PROVE FInv'
<1>1. buffer' = Discard(buffer) /\ w' = Idle /\ recording' = None /\ UNCHANGED <<air, host>>
  BY DEF TimedOut, link
<1>2. BufferLeads(buffer', NoFrame)
  BY <1>1, DiscardLeads DEF DInv, BufferOK
<1>3. Flow'
  BY <1>1, <1>2, NewFlow DEF FInv
<1>4. w'.pc # "send" /\ w'.goal.kind # "control"
  BY <1>1, ReceivingType
<1> QED BY <1>1, <1>3, <1>4, WorkFInv

LEMMA StartFInv == ASSUME IInv, FInv, Start PROVE FInv'
<1> DEFINE p == w.goal.target
<1>1. /\ buffer' = IF active[p] THEN Put(NewBuffer, Record("entered", settings[p])) ELSE NewBuffer
      /\ w' = [w EXCEPT !.pc = "answer"] /\ UNCHANGED <<air, host>>
  BY DEF Start, link
<1>2. w'.pc = "answer"
  BY <1>1 DEF IInv, Types, WorkerFields
<1>3. BufferLeads(Put(NewBuffer, Record("entered", settings[p])), NoFrame)
  BY NewBufferOK, NewBufferLeads, PutLeads
<1>4. BufferLeads(buffer', NoFrame)
  BY <1>1, <1>3, NewBufferLeads
<1>5. Flow'
  BY <1>1, <1>4, NewFlow DEF FInv
<1>6. Fresh' /\ Ended' /\ Prefixed' /\ Unfinished'
  BY <1>2, <1>4 DEF Fresh, Ended, Prefixed, Unfinished
<1> QED BY <1>1, <1>5, <1>6 DEF FInv

LEMMA CopyLastFInv == ASSUME IInv, DInv, FInv, CopyLast PROVE FInv'
<1>1. /\ w.pc = "copy" /\ w' = [w EXCEPT !.pc = "answer"] /\ UNCHANGED <<air, host>>
      /\ buffer' = buffer \/ buffer' = Put(buffer, Record("changed", None))
  BY DEF CopyLast, link
<1>2. w'.pc = "answer" /\ w'.goal = w.goal
  BY <1>1 DEF IInv, Types, WorkerFields
<1>3. w'.goal.kind # "control"
  BY <1>1, <1>2 DEF IInv, Working, Tuning
<1>4. Flow'
  <2>1. CASE buffer' = buffer
    BY <1>1, <2>1, SameFlow DEF FInv
  <2>2. CASE buffer' = Put(buffer, Record("changed", None))
    BY <1>1, <2>2, PutFlow DEF FInv, DInv
  <2> QED BY <1>1, <2>1, <2>2
<1> QED BY <1>1, <1>2, <1>3, <1>4, WorkFInv

LEMMA ReceiveFInv == ASSUME IInv, FInv, Receive PROVE FInv'
<1> DEFINE r == Head(asked)
<1>1. /\ UNCHANGED <<buffer, air, host>>
      /\ recording' = IF r.kind = "control" THEN None ELSE recording
      /\ \E pc \in {"drain", "lock", "answer"} : w' = [Receiving EXCEPT !.goal = r, !.pc = pc]
  BY DEF Receive, link
<1>2. w'.pc # "send" /\ w'.goal = r
  <2> HIDE DEF r
  <2> QED BY <1>1, ReceivingType DEF WorkerFields
<1> HIDE DEF r
<1>3. Flow'
  BY <1>1, SameFlow DEF FInv
<1> QED BY <1>1, <1>2, <1>3, WorkFInv

LEMMA AlikeFields == ASSUME NEW h, NEW g, Alike(h, g) PROVE DOMAIN h = HostFields
  BY DEF Alike

\* A notification that arrives takes the host where the stream leads.
LEMMA SentFInv == ASSUME DInv, FInv, Sent PROVE FInv'
<1> DEFINE m == Head(air)
           frame == m.frame
<1>1. /\ air # <<>> /\ air' = Tail(air) /\ UNCHANGED <<buffer, w, recording>>
      /\ host' = IF m.last THEN Received(frame) ELSE host
  BY DEF Sent, records
<1>2. PICK x, n, y, k, z :
        /\ Follows(host, x, n) /\ Stream(x, n, air, y, k)
        /\ Onward(z, y, k, buffer.out) /\ BufferLeads(buffer, z)
  BY DEF FInv, Flow
<1>3. Sequence(air) /\ m = air[1] /\ 1 \in 1..Len(air)
  BY <1>1, AfterFirst, LengthOf DEF DInv, Arriving
<1>4. PICK v, o : Carried(air[1], x, n, v, o) /\ Stream(v, o, Tail(air), y, k)
  BY <1>1, <1>2, <1>3, StreamFirst
<1>5. frame.kind = "batch" => Consecutive(frame.take)
  BY <1>3 DEF DInv, Arriving
<1>6. Carried(m, x, n, v, o)
  BY <1>3, <1>4
<1>7. DOMAIN host = HostFields
  BY DEF FInv
<1> HIDE DEF m
<1>8. Follows(host', v, o) /\ DOMAIN host' = HostFields
  <2>1. CASE ~m.last \/ frame.kind = "result"
    <3>1. v = x /\ o = n
      BY <1>6, <2>1 DEF Carried
    <3>2. frame.kind = "result" => Received(frame) = host
      BY DEF Received
    <3>3. host' = host
      BY <1>1, <2>1, <3>2
    <3>4. Follows(host', v, o)
      <4>1. Follows(host, x, n)
        BY <1>2
      <4> QED BY <3>1, <3>3, <4>1
    <3> QED BY <1>7, <3>3, <3>4
  <2>2. CASE m.last /\ frame.kind # "result" /\ ~host.active
    <3>1. Received(frame) = host
      BY <2>2 DEF Received
    <3>2. host' = host
      BY <1>1, <2>2, <3>1
    <3> QED BY <1>7, <2>2, <3>2 DEF Follows
  <2>3. CASE m.last /\ frame.kind = "batch" /\ host.active
    <3>1. host' = Last(Heard(host, frame.take))
      BY <1>1, <2>3 DEF Received
    <3>2. BatchLeads(x, n, frame.take, v, o)
      BY <1>6, <2>3 DEF Carried
    <3>3. /\ Follows(Last(Heard(host, frame.take)), v, o)
          /\ Alike(Last(Heard(host, frame.take)), host)
      BY <1>2, <1>5, <1>7, <2>3, <3>2, HeardFollows
    <3> QED BY <3>1, <3>3, AlikeFields
  <2>4. CASE m.last /\ frame.kind \notin {"batch", "result"} /\ host.active
    <3>1. host' = IF frame.recording = None THEN Away ELSE [host EXCEPT !.own = TRUE]
      BY <1>1, <2>4 DEF Received
    <3>2. CASE frame.recording = None
      <4>1. host' = Away
        BY <3>1, <3>2
      <4> QED BY <4>1 DEF Away, Follows, HostFields
    <3>3. CASE frame.recording # None
      <4>1. v = NoFrame
        BY <1>6, <2>4, <3>3 DEF Carried
      <4>2. DOMAIN host' = HostFields
        BY <1>7, <3>1, <3>3
      <4> QED BY <4>1, <4>2 DEF Follows
    <3> QED BY <3>2, <3>3
  <2> QED BY <2>1, <2>2, <2>3, <2>4
<1>9. Flow'
  <2>1. Stream(v, o, air', y, k) /\ Onward(z, y, k, buffer'.out) /\ BufferLeads(buffer', z)
    BY <1>1, <1>2, <1>4
  <2> QED BY <1>8, <2>1 DEF Flow
<1>10. Fresh'
  BY <1>1 DEF FInv, Fresh, Answering
<1>11. Ended' /\ Prefixed' /\ Unfinished'
  BY <1>1 DEF FInv, Ended, Prefixed, Unfinished
<1> QED BY <1>8, <1>9, <1>10, <1>11 DEF FInv

\* A host that is gone, or has just come, follows whatever it will be sent.
LEMMA OtherHost ==
  ASSUME FInv, UNCHANGED <<buffer, w, recording>>, DOMAIN host' = HostFields,
         \A x, n : Follows(host', x, n), air' \in {air, <<>>}
  PROVE  FInv'
<1>1. PICK x, n, y, k, z :
        /\ Stream(x, n, air, y, k) /\ Onward(z, y, k, buffer.out) /\ BufferLeads(buffer, z)
  BY DEF FInv, Flow
<1>2. Flow'
  <2>1. CASE air' = air
    <3>1. Stream(x, n, air', y, k) /\ Onward(z, y, k, buffer'.out) /\ BufferLeads(buffer', z)
      BY <1>1, <2>1
    <3> QED BY <3>1 DEF Flow
  <2>2. CASE air' = <<>>
    <3>1. Stream(z, buffer'.out, air', z, buffer'.out)
      BY <2>2, StreamNone
    <3>2. Onward(z, z, buffer'.out, buffer'.out)
      BY DEF Onward
    <3>3. BufferLeads(buffer', z)
      BY <1>1
    <3> QED BY <3>1, <3>2, <3>3 DEF Flow
  <2> QED BY <2>1, <2>2
<1>3. Fresh'
  BY DEF FInv, Fresh, Answering
<1>4. Ended' /\ Prefixed' /\ Unfinished'
  BY DEF FInv, Ended, Prefixed, Unfinished
<1> QED BY <1>2, <1>3, <1>4 DEF FInv

LEMMA DisconnectFInv == ASSUME FInv, Disconnect PROVE FInv'
<1>1. air' = <<>> /\ host' = Away /\ UNCHANGED <<buffer, w, recording>>
  BY DEF Disconnect, records
<1>2. DOMAIN Away = HostFields /\ ~Away.active
  BY DEF Away, HostFields
<1> QED BY <1>1, <1>2, OtherHost DEF Follows

LEMMA AskFInv == ASSUME FInv, NEW r, Ask(r) PROVE FInv'
<1>1. host' \in {host, Listening} /\ UNCHANGED <<buffer, w, recording, air>>
  BY DEF Ask, records
<1>2. DOMAIN Listening = HostFields /\ Listening.base = NoFrame /\ ~Listening.own
  BY DEF Listening, Away, HostFields
<1>3. CASE host' = host
  BY <1>1, <1>3, AsideFInv
<1>4. CASE host' = Listening
  BY <1>1, <1>2, <1>4, OtherHost DEF Follows
<1> QED BY <1>1, <1>3, <1>4

LEMMA StepFInv == IInv /\ DInv /\ FInv /\ [Next]_vars => FInv'
<1> SUFFICES ASSUME IInv, DInv, FInv, [Next]_vars PROVE FInv'
  OBVIOUS
<1> USE DEF tuned, records, input, link
<1>1. ASSUME NEW p \in Pipelines,
             \/ \E source \in Sources, rested \in BOOLEAN : Frame(p, source, rested)
             \/ Flush(p) \/ Unrecorded(p) \/ Route(p) \/ End(p)
      PROVE  FInv'
  <2>1. UNCHANGED <<buffer, w, air, host, recording>>
    BY <1>1 DEF Frame, Flush, Unrecorded, Route, End
  <2> QED BY <2>1, AsideFInv
<1>2. ASSUME NEW p \in Pipelines, Submit(p) PROVE FInv'
  <2>1. Submitted(Head(todo[p])) /\ UNCHANGED <<w, air, host, recording>>
    BY <1>2 DEF Submit
  <2> QED BY <2>1, SubmittedFInv DEF DInv
<1>3. CASE KeyPress \/ LockNext \/ UNCHANGED vars
  <2>1. UNCHANGED <<buffer, w, air, host, recording>>
    BY <1>3 DEF KeyPress, LockNext, vars
  <2> QED BY <2>1, AsideFInv
<1>4. CASE Wake \/ CopyFirst
  <2>1. UNCHANGED <<buffer, air, host>>
    BY <1>4 DEF Wake, CopyFirst
  <2>2. w' = Receiving \/ w' = [w EXCEPT !.pc = "copy"]
    BY <1>4 DEF Wake, CopyFirst
  <2>3. (w'.pc = "receive" /\ w'.goal.kind = "none") \/ w'.pc = "copy"
    BY <2>2, ReceivingType DEF IInv, Types, WorkerFields
  <2>4. Flow'
    BY <2>1, SameFlow DEF FInv
  <2> QED BY <2>1, <2>3, <2>4, WorkFInv
<1>5. ASSUME NEW r \in Controls \cup Changes, Ask(r) PROVE FInv'
  BY <1>5, AskFInv
<1>6. CASE Receive \/ TimedOut \/ Rest \/ Send \/ Notify \/ SendFails
  BY <1>6, ReceiveFInv, TimedOutFInv, RestFInv, SendFInv, NotifyFInv, SendFailsFInv DEF DInv
<1>7. CASE Start \/ CopyLast \/ Sent \/ Disconnect
  BY <1>7, StartFInv, CopyLastFInv, SentFInv, DisconnectFInv
<1> QED BY <1>1, <1>2, <1>3, <1>4, <1>5, <1>6, <1>7 DEF Next

LEMMA FollowInvariance == Spec => []FInv
<1>1. Init => FInv
  BY InitFInv
<1>2. IInv /\ DInv /\ FInv /\ [Next]_vars => FInv'
  BY StepFInv
<1> QED BY <1>1, <1>2, Invariance, DrainInvariance, PTL DEF Spec

-----------------------------------------------------------------------------
(* The theorems.                                                             *)

\* However many routers there are and whatever the host asks for: no frame runs
\* with settings that are half copied, invalid together, or changed while it
\* runs (apply_between_frames, zpt_zmk_router_lock_all).
THEOREM SettingsWholeInvariant == Spec => []SettingsWhole
<1>1. IInv => SettingsWhole
  <2> SUFFICES ASSUME IInv, NEW p \in Pipelines, lock[p] = "frame"
               PROVE  settings[p] = began[p] /\ Valid(settings[p])
    BY DEF SettingsWhole
  <2>1. w.pc # "copy"
    BY DEF IInv, Working
  <2> QED BY <2>1 DEF IInv, Settled
<1> QED BY <1>1, Invariance, PTL

\* However many pipelines can be recorded: the stages of a recorded frame or
\* flush decide with the key press that was recorded for it, whatever is pressed
\* while it runs (freeze_keypress and tap_done of observer/capture.c).
THEOREM PressHeldInvariant == Spec => []PressHeld
<1>1. IInv => PressHeld
  BY DEF IInv, Freezing, PressHeld, View
<1> QED BY <1>1, Invariance, PTL

\* Whatever the credits, the size of the buffer and the moment a host goes or
\* comes: stored records never wait for an event that does not come, and a worker
\* that waits for a credit has one coming (zpt_drain_records, zpt_gatt_sent,
\* zpt_gatt_notify_frame).
THEOREM NothingStrandedInvariant == Spec => []NothingStranded
<1>1. DInv => NothingStranded
  <2> SUFFICES ASSUME DInv PROVE NothingStranded
    OBVIOUS
  <2>1. ASSUME credits = 0 PROVE air # <<>>
    <3>1. Len(air) # 0
      BY <2>1, CaptureAssumption DEF DInv, Credited
    <3> QED BY <3>1, LengthOf DEF DInv, Arriving
  <2> QED BY <2>1 DEF DInv, Sleeping, NothingStranded
<1> QED BY <1>1, DrainInvariance, PTL

\* For a buffer and batches of any size: the number the host gives a record that
\* arrives is the number it was submitted with, however many were dropped before
\* it, and although the batch was read from an older state of the buffer than it
\* is consumed from (zpt_capture_buffer_put, _peek and _consume).
THEOREM NumbersTrueStep == Spec => NumbersTrue
<1>1. DInv => Arrivals(LAMBDA h, s, n : n = s.n)
  <2> SUFFICES ASSUME DInv, air # <<>>, Head(air).frame.kind = "batch",
                      NEW i \in DOMAIN Head(air).frame.take.records
               PROVE  Head(air).frame.take.sequence + i - 1 = Head(air).frame.take.records[i].n
    BY DEF Arrivals
  <2>1. Head(air) = air[1] /\ 1 \in 1..Len(air)
    <3>1. Sequence(air)
      BY DEF DInv, Arriving
    <3>2. Len(air) \in Nat /\ Len(air) # 0
      BY <3>1, LengthOf
    <3> QED BY <3>1, <3>2, AfterFirst
  <2>2. Consecutive(Head(air).frame.take)
    BY <2>1 DEF DInv, Arriving
  <2>3. DOMAIN Head(air).frame.take.records = 1..Len(Head(air).frame.take.records)
    BY <2>2, LengthOf DEF Consecutive
  <2> QED BY <2>2, <2>3 DEF Consecutive
<1> QED BY <1>1, DrainInvariance, PTL DEF NumbersTrue

\* For a buffer and batches of any size and whatever is dropped, lost with a link
\* or recorded anew: a delta frame reaches a host that has its frame's base, or
\* one whose own recording has not begun and that leaves it out (encode_delta,
\* zpt_capture_buffer_put, and parseCaptureBatch of web/protocol.js).
THEOREM DeltasDecodeStep == Spec => DeltasDecode
<1>1. DInv /\ FInv => Arrivals(LAMBDA h, s, n :
                        s.record.kind = "frame" /\ s.base # NoFrame =>
                          h.base = s.base \/ (h.base = NoFrame /\ ~h.own))
  <2> DEFINE take == Head(air).frame.take
             hs == Heard(host, take)
  <2> SUFFICES ASSUME DInv, FInv, air # <<>>, Head(air).last, Head(air).frame.kind = "batch",
                      host.active, NEW i \in DOMAIN take.records,
                      take.records[i].record.kind = "frame", take.records[i].base # NoFrame
               PROVE  hs[i].base = take.records[i].base \/ (hs[i].base = NoFrame /\ ~hs[i].own)
    BY DEF Arrivals
  <2>1. Sequence(air) /\ Head(air) = air[1] /\ 1 \in 1..Len(air)
    BY AfterFirst, LengthOf DEF DInv, Arriving
  <2>2. Consecutive(take)
    BY <2>1 DEF DInv, Arriving
  <2>3. PICK x, n, y, k : Follows(host, x, n) /\ Stream(x, n, air, y, k)
    BY DEF FInv, Flow
  <2>4. PICK v, o : Carried(air[1], x, n, v, o)
    BY <2>1, <2>3, StreamFirst
  <2>5. BatchLeads(x, n, take, v, o)
    BY <2>1, <2>4 DEF Carried
  <2>6. DOMAIN host = HostFields
    BY DEF FInv
  <2>7. i \in 1..Len(take.records)
    BY <2>2, LengthOf DEF Consecutive
  <2> HIDE DEF take
  <2>8. \E b : /\ OnBase(b, take.records[i]) /\ ~take.records[i].marker
               /\ Follows(hs[i], b, take.sequence + i - 1) /\ Alike(hs[i], host)
    BY <2>2, <2>3, <2>5, <2>6, <2>7, HeardFollows
  <2> HIDE DEF hs
  <2> QED BY <2>8 DEF OnBase, Follows, Alike
<1> QED BY <1>1, DrainInvariance, FollowInvariance, PTL DEF DeltasDecode
=============================================================================
