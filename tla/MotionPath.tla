----------------------------- MODULE MotionPath -----------------------------
(* From a sensor's axis events to the frames a router is given.  A local       *)
(* sensor's events go straight to the source processor.  A split half packs    *)
(* each frame into one input event first (compact_split_encoder.c and          *)
(* compact_split_codec.c); ZMK's split transport may lose or repeat it, and    *)
(* the central unpacks it (source_ingress.c, motion_source.c).  Meanwhile the  *)
(* device table may change the resolution the frames are labelled with.        *)
(*                                                                             *)
(* A sensor driver may flag the end of a frame on its last axis event or on an *)
(* event of its own.  In the second case the encoder reports its packet through *)
(* the input queue, where it passes the encoder again, with a sync of its own. *)
(*                                                                             *)
(* Left out: the 64-bit saturation of a frame (the encoder drops what leaves   *)
(* its 11-bit range long before), the format bits and the diagnostics.         *)
EXTENDS Integers, Sequences, SequencesExt, FiniteSets

CONSTANTS
  Axes,        \* enum zpt_motion_axis
  Values,      \* what one axis event may carry
  AxisMin,     \* ZPT_COMPACT_SPLIT_AXIS_MIN
  AxisMax,     \* ZPT_COMPACT_SPLIT_AXIS_MAX
  Modulus,     \* ZPT_COMPACT_SPLIT_SEQUENCE_MODULUS
  Span16,      \* sequences the signal's uint16_t tells apart: 65536 in the code
  Quantum,     \* ZPT_COMPACT_SPLIT_SPAN_QUANTUM_US, in milliseconds
  Saturated,   \* SPAN_SATURATED_CODE
  Cpis,        \* the resolutions the device table may report
  MaxTime,     \* bound: the clock stops here
  MaxFrames,   \* bound: frames the encoder takes
  MaxQueue,    \* bound: events in the split half's input queue
  MaxLink,     \* bound: packets on the air
  MaxSum,      \* bound: no axis event comes that would leave more than this
  MaxRepeats   \* bound: packets that arrive twice

ASSUME ValuesAssumption == Values \subseteq Int
\* zpt_device_current_cpi answers 0 for a device whose resolution is not known.
Unknown == 0
ASSUME CpisAssumption == Unknown \notin Cpis

ASSUME CodecAssumption ==
  /\ Modulus \in Nat \ {0, 1}
  /\ Span16 \in Nat /\ Modulus <= Span16
  /\ Quantum \in Nat \ {0}
  /\ Saturated \in Nat \ {0, 1}
  /\ AxisMin \in Int /\ AxisMax \in Int

VARIABLES
  split,     \* the source is fed by a split half
  now,       \* k_uptime_get_32() of the split half
  queue,     \* the split half's input queue
  packed,    \* the encoder's frame assembler
  encoder,   \* next_sequence, previous_frame_at_ms with saw_frame_time
  link,      \* ZMK's split transport
  table,     \* zpt_device_current_cpi, Unknown while it answers 0
  frame,     \* the source's frame assembler
  decoder,   \* the compact decoder's state
  label,     \* resolution_cpi
  staged,    \* staged_resolution_cpi
  sequence,  \* the motion source's own sequence
  out,       \* the signal the router is given, NoSignal when the step gave none
  taken,     \* history: frames the encoder took
  heard,     \* history: true number and time of the last packet decoded
  followed,  \* history: the last resolution the source read from the table
  started,   \* history: what it had followed when the open frame began
  owed,      \* history: motion taken in, not lost and not yet in a signal
  doubled,   \* history: motion of repetitions, given under the gap flag
  repeats    \* history: packets that arrived twice

half == <<now, queue, packed, encoder, taken>>
source == <<frame, decoder, label, staged, sequence>>
vars == <<split, half, link, table, source, out, heard, followed, started, owed, doubled, repeats>>

NoTime == -1
NoSequence == -1
Zero == [a \in Axes |-> 0]
Plus(u, v) == [a \in Axes |-> u[a] + v[a]]
Minus(u, v) == [a \in Axes |-> u[a] - v[a]]

\* zpt_frame_assembler_reset, _add and _take; a frame is ready once it saw an axis.
Empty == [saw |-> FALSE, counts |-> Zero]
Added(f, a, v) == [saw |-> TRUE, counts |-> [f.counts EXCEPT ![a] = @ + v]]

Bounded(f) == \A a \in Axes : f.counts[a] \in -MaxSum..MaxSum

NoPacket ==
  [n |-> NoSequence, wire |-> 0, span |-> 0, counts |-> Zero, at |-> NoTime, again |-> FALSE]
NoSignal == [given |-> FALSE, counts |-> Zero, span |-> 0, gap |-> FALSE,
             clipped |-> FALSE, sequence |-> 0, label |-> Unknown, owner |-> Unknown]

Init ==
  /\ split \in BOOLEAN
  /\ now = 0
  /\ queue = <<>>
  /\ packed = Empty
  /\ encoder = [next |-> 0, at |-> NoTime]
  /\ taken = 0
  /\ link = <<>>
  /\ table \in Cpis
  /\ frame = Empty
  /\ decoder = [saw |-> FALSE, wire |-> 0, sequence |-> 0]
  /\ label \in Cpis
  /\ staged = Unknown
  /\ sequence = 0
  /\ out = NoSignal
  /\ heard = [n |-> NoSequence, at |-> NoTime]
  /\ followed = label
  /\ started = Unknown
  /\ owed = Zero
  /\ doubled = Zero
  /\ repeats = 0

-----------------------------------------------------------------------------
(* The split half.                                                           *)

AxisEvent(a, v, sync) == [kind |-> "axis", axis |-> a, value |-> v, sync |-> sync]
SyncEvent == [kind |-> "sync", sync |-> TRUE]
PacketEvent(p) == [kind |-> "packet", packet |-> p, sync |-> TRUE]
SensorEvents == {AxisEvent(a, v, s) : a \in Axes, v \in Values, s \in BOOLEAN} \cup {SyncEvent}

Tick ==
  /\ split /\ now < MaxTime
  /\ now' = now + 1
  /\ out' = NoSignal
  /\ UNCHANGED <<split, queue, packed, encoder, taken, link, table, source, heard, followed, started, owed, doubled, repeats>>

\* The sensor's driver reports an event of the frame it is in.
Report ==
  /\ split /\ Len(queue) < MaxQueue
  /\ \E e \in SensorEvents : queue' = Append(queue, e)
  /\ out' = NoSignal
  /\ UNCHANGED <<split, now, packed, encoder, taken, link, table, source, heard, followed, started, owed, doubled, repeats>>

\* sample_span of the encoder: the time since the frame it took before.
Elapsed == IF encoder.at = NoTime THEN 0 ELSE now - encoder.at

\* encode_span.
SpanCode(elapsed) ==
  LET code == (elapsed + Quantum \div 2) \div Quantum
  IN  IF elapsed = 0 THEN 0
      ELSE IF code = 0 THEN 1
      ELSE IF code >= Saturated THEN Saturated ELSE code

Fits(counts) == \A a \in Axes : counts[a] \in AxisMin..AxisMax

Following == (encoder.next + 1) % Modulus

\* Slip: a frame that does not fit takes no sequence number.
NumberSent(f) ==
  encoder' = [next |-> IF Fits(f.counts) THEN Following ELSE encoder.next, at |-> now]

\* Slip: the time of the first frame is kept for all the spans.
NumberUntimed(f) ==
  encoder' = [next |-> Following, at |-> IF encoder.at = NoTime THEN now ELSE encoder.at]

\* zpt_compact_split_encode takes a number for every frame, sent or not.
Number(f) == encoder' = [next |-> Following, at |-> now]

\* The packet of frame f.  Three fields are history: its true number and time,
\* and whether it is the repetition of a packet that arrived before.
Packet(f) ==
  [n |-> taken, wire |-> encoder.next, span |-> SpanCode(Elapsed),
   counts |-> f.counts, at |-> now, again |-> FALSE]

\* The frame the encoder holds once it has handled the axis part of event e.
Holding(e) == IF e.kind = "axis" THEN Added(packed, e.axis, e.value) ELSE packed

\* The encoder handles event e, the queue's head.  A packet takes the place of
\* an axis event; for any other event it is reported anew, which fails when the
\* queue is full.  What is not stopped goes on to the link, where only packets
\* matter.
Handle(e, reported) ==
  LET f == Holding(e)
      ready == e.sync /\ f.saw
      anew == ready /\ Fits(f.counts) /\ e.kind # "axis"
      fails == ready /\ (~Fits(f.counts) \/ (anew /\ ~reported))
      onward == IF ready /\ ~fails /\ ~anew THEN <<Packet(f)>>
                ELSE IF e.kind = "packet" /\ ~fails THEN <<e.packet>> ELSE <<>>
      arrived == IF e.kind = "axis" THEN [Zero EXCEPT ![e.axis] = e.value] ELSE Zero
      dropped == IF ~fails THEN Zero
                 ELSE Plus(f.counts, IF e.kind = "packet" THEN e.packet.counts ELSE Zero)
  IN  /\ reported => anew /\ Len(queue) <= MaxQueue
      /\ ready => taken < MaxFrames
      /\ Bounded(f)
      /\ Len(link) + Len(onward) <= MaxLink
      /\ packed' = IF ready THEN Empty ELSE f
      /\ taken' = IF ready THEN taken + 1 ELSE taken
      /\ IF ready THEN Number(f) ELSE UNCHANGED encoder
      /\ queue' = Tail(queue) \o (IF reported THEN <<PacketEvent(Packet(f))>> ELSE <<>>)
      /\ link' = link \o onward
      /\ owed' = Minus(Plus(owed, arrived), dropped)

\* zpt_compact_split_encoder_handle_event.
Encode ==
  /\ queue # <<>>
  /\ \E reported \in BOOLEAN : Handle(Head(queue), reported)
  /\ out' = NoSignal
  /\ UNCHANGED <<split, now, table, source, heard, followed, started, doubled, repeats>>

\* The motion that packet p brings for the first time.
Fresh(p) == IF p.again THEN Zero ELSE p.counts

Lose ==
  /\ \E i \in DOMAIN link :
       /\ link' = RemoveAt(link, i)
       /\ owed' = Minus(owed, Fresh(link[i]))
  /\ out' = NoSignal
  /\ UNCHANGED <<split, half, table, source, heard, followed, started, doubled, repeats>>

-----------------------------------------------------------------------------
(* The central.  The device table changes under its own lock at any time; the *)
(* source processor reads it once per event, under frame_lock.                *)

SetResolution ==
  /\ table' \in Cpis \cup {Unknown}
  /\ table' # table
  /\ out' = NoSignal
  /\ UNCHANGED <<split, half, link, source, heard, followed, started, owed, doubled, repeats>>

\* Slip: the followed resolution is compared with the one in force, so that a
\* staged change is not taken back.
ComparedWithOld == label

\* zpt_source_ingress_follow_resolution: what the next frame will carry.
Upcoming == IF staged # Unknown THEN staged ELSE label

\* zpt_motion_source_set_resolution_cpi.
Resolved(cpi) ==
  IF frame.saw THEN [label |-> label, staged |-> cpi] ELSE [label |-> cpi, staged |-> Unknown]

\* zpt_source_ingress_follow_resolution of what the table answers.
Followed ==
  IF table # Unknown /\ table # Upcoming THEN Resolved(table)
  ELSE [label |-> label, staged |-> staged]

\* What the source has followed: the last resolution the table answered.
Asked == IF table # Unknown THEN table ELSE followed

\* The resolution followed when the frame that is open, or opens now, began.
Owner == IF frame.saw THEN started ELSE Asked

\* take_at_sequence: frame f leaves with the resolution in force, and a staged
\* resolution holds from the next frame on.
Take(f, r, seq, span, gap) ==
  /\ out' = [given |-> TRUE, counts |-> f.counts, span |-> span * Quantum, gap |-> gap,
             clipped |-> span = Saturated, sequence |-> seq, label |-> r.label, owner |-> Owner]
  /\ frame' = Empty
  /\ sequence' = (seq + 1) % Span16
  /\ label' = IF r.staged # Unknown THEN r.staged ELSE r.label
  /\ staged' = Unknown

\* The frame the source holds once it has handled the axis part of event e.
Gathered(e) == IF e.kind = "axis" THEN Added(frame, e.axis, e.value) ELSE frame

\* The motion that event e adds.
Moved(e) == Minus(Gathered(e).counts, frame.counts)

\* zpt_source_ingress_handle takes the frame on a sync...
Complete(e) ==
  /\ e.sync /\ Gathered(e).saw
  /\ Take(Gathered(e), Followed, sequence, 0, FALSE)
  /\ owed' = Minus(Plus(owed, Moved(e)), Gathered(e).counts)

\* ... and goes on gathering otherwise.
Gather(e) ==
  /\ ~(e.sync /\ Gathered(e).saw)
  /\ Bounded(Gathered(e))
  /\ frame' = Gathered(e)
  /\ label' = Followed.label
  /\ staged' = Followed.staged
  /\ out' = NoSignal
  /\ owed' = Plus(owed, Moved(e))
  /\ UNCHANGED sequence

\* zpt_source_processor_handle_event with an event of a local sensor: follow the
\* resolution, add the axis, and take the frame on a sync.
Local ==
  /\ ~split
  /\ \E e \in SensorEvents : Complete(e) \/ Gather(e)
  /\ followed' = Asked
  /\ started' = IF frame'.saw THEN Owner ELSE Unknown
  /\ UNCHANGED <<split, half, link, table, decoder, heard, doubled, repeats>>

\* How many frames the half took since the one decoded before, modulo Modulus.
Delta(p) == (p.wire - decoder.wire) % Modulus

\* Slip: only missing packets count as a gap, and a repetition as the next one.
Missing(p) == decoder.saw /\ Delta(p) > 1

\* zpt_compact_split_decode: is the sequence not the one after the last?
Gap(p) == decoder.saw /\ Delta(p) # 1

\* zpt_compact_split_decode: the sequence, expanded by what is missing.
Expanded(p) ==
  IF ~decoder.saw THEN p.wire
  ELSE (decoder.sequence + (IF Delta(p) > 1 THEN Delta(p) ELSE 1)) % Span16

\* take_compact_frame adds both axes of packet p and takes the frame, whether or
\* not it had the packet before.  again says that the link brings p once more.
Unpack(p, again) ==
  LET f == [saw |-> TRUE, counts |-> Plus(frame.counts, p.counts)]
  IN  /\ again => repeats < MaxRepeats
      /\ repeats' = IF again THEN repeats + 1 ELSE repeats
      /\ link' = (IF again THEN <<[p EXCEPT !.again = TRUE]>> ELSE <<>>) \o Tail(link)
      /\ Take(f, Followed, Expanded(p), p.span, Gap(p))
      /\ decoder' = [saw |-> TRUE, wire |-> p.wire, sequence |-> Expanded(p)]
      /\ heard' = [n |-> p.n, at |-> p.at]
      /\ owed' = Minus(owed, f.counts)
      /\ doubled' = IF p.again /\ out'.gap THEN Plus(doubled, p.counts) ELSE doubled

\* zpt_source_processor_handle_event with a packet, whose own sync takes no
\* second frame.
Deliver ==
  /\ link # <<>>
  /\ \E again \in BOOLEAN : Unpack(Head(link), again)
  /\ followed' = Asked
  /\ started' = IF frame'.saw THEN Owner ELSE Unknown
  /\ UNCHANGED <<split, half, table>>

Next == Tick \/ Report \/ Encode \/ Lose \/ SetResolution \/ Local \/ Deliver

Spec == Init /\ [][Next]_vars

-----------------------------------------------------------------------------
(* Properties.                                                               *)

Frames == [saw : BOOLEAN, counts : [Axes -> Int]]

\* Every variable keeps the type the code gives it.
TypeOK ==
  /\ split \in BOOLEAN
  /\ now \in 0..MaxTime
  /\ taken \in 0..MaxFrames
  /\ packed \in Frames /\ frame \in Frames
  /\ encoder \in [next : 0..(Modulus - 1), at : 0..MaxTime \cup {NoTime}]
  /\ decoder \in [saw : BOOLEAN, wire : 0..(Modulus - 1), sequence : 0..(Span16 - 1)]
  /\ table \in Cpis \cup {Unknown}
  /\ label \in Cpis /\ followed \in Cpis
  /\ staged \in Cpis \cup {Unknown}
  /\ sequence \in 0..(Span16 - 1)
  /\ Len(queue) <= MaxQueue + 1 /\ Len(link) <= MaxLink

\* All counts of a frame are labelled with the one resolution the device table
\* gave when the frame began, however often and however far the resolution
\* changes before the frame is taken (motion_source.c's staging).
OneLabel == out.given => out.label = out.owner

\* A frame that is not the next one the half took is given with the gap flag,
\* and its sequence advances by what is missing (modulo the signal's 16 bits),
\* unless exactly a multiple of the modulus is; the next one raises no alarm.
GapsShow ==
  [][LET missed == heard'.n - heard.n - 1
     IN  out'.given /\ split /\ heard.n # NoSequence =>
           /\ ~out'.gap => missed % Modulus = 0
           /\ missed = 0 => ~out'.gap
           /\ missed \in 0..(Modulus - 2) => out'.sequence = (sequence + missed) % Span16]_vars

\* The sample span of the next frame is the time between the two frames on the
\* half's own clock, to the nearest quantum; a longer one says it was clipped.
\* A repetition is not a next frame: it is given with its span once more.
SpanIsTime ==
  [][LET elapsed == heard'.at - heard.at
     IN  out'.given /\ split /\ heard.n # NoSequence /\ heard'.n = heard.n + 1 =>
           IF out'.clipped THEN 2 * elapsed >= (2 * Saturated - 1) * Quantum
           ELSE /\ 2 * (elapsed - out'.span) <= Quantum
                /\ 2 * (out'.span - elapsed) <= Quantum]_vars

\* What the packets in a sequence bring for the first time, all together.
InFlight(packets) ==
  LET sum[i \in 0..Len(packets)] ==
        IF i = 0 THEN Zero ELSE Plus(sum[i - 1], Fresh(packets[i]))
  IN  sum[Len(packets)]

Requeued == [i \in DOMAIN queue |-> IF queue[i].kind = "packet" THEN queue[i].packet ELSE NoPacket]

\* Motion that came in and was neither dropped out of range nor lost on the way
\* is either still in the two assemblers, the queue and the link, or was given.
\* It was given once, but for what a repeated packet carried: the decoder gives
\* that again, and every frame that does so has the gap flag.
MotionConserved ==
  Plus(owed, doubled) =
    Plus(Plus(packed.counts, frame.counts), Plus(InFlight(Requeued), InFlight(link)))
=============================================================================
