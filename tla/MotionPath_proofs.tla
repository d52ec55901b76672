------------------------- MODULE MotionPath_proofs -------------------------
(***************************************************************************)
(* Proofs about the way of a frame from the sensor to the router, for any   *)
(* axes, resolutions, sequence modulus, lengths of queue and link.          *)
(*                                                                         *)
(* OneLabel follows from what the staging keeps: a resolution is staged     *)
(* only while a frame is open, and what is staged, or else the label, is    *)
(* the last resolution the table answered.                                  *)
(*                                                                         *)
(* GapsShow follows from the numbers: every packet carries the remainder of *)
(* its true number, wherever it is on its way.                              *)
(*                                                                         *)
(* SpanIsTime follows from the times: of any two packets that are on their  *)
(* way, or decoded last, with consecutive true numbers the second carries   *)
(* the time between them, since the encoder remembers the frame it numbered *)
(* last.                                                                    *)
(*                                                                         *)
(* MotionConserved needs what a sum over a sequence does when a packet      *)
(* enters or leaves it anywhere, and Repeated, a part of the invariant on   *)
(* numbers: a repetition on the link comes next and right after the packet  *)
(* it repeats, so that it is decoded under the gap flag.                    *)
(***************************************************************************)
EXTENDS MotionPath, WellFoundedInduction, TLAPS

-----------------------------------------------------------------------------
(* The label of a frame.                                                     *)

LabelTypes ==
  /\ table \in Cpis \cup {Unknown}
  /\ label \in Cpis
  /\ staged \in Cpis \cup {Unknown}
  /\ frame.saw \in BOOLEAN

Staging ==
  /\ followed = Upcoming
  /\ staged # Unknown => frame.saw
  /\ frame.saw => started = label

LabelInv == LabelTypes /\ Staging /\ OneLabel

LEMMA InitLabel == Init => LabelInv
  BY CpisAssumption
  DEF Init, LabelInv, LabelTypes, Staging, OneLabel, Upcoming, Empty, NoSignal

\* What following the table does to the label and the staged resolution.
LEMMA FollowedLabel ==
  ASSUME LabelInv
  PROVE  /\ Followed.label \in Cpis
         /\ Followed.staged \in Cpis \cup {Unknown}
         /\ Asked = IF Followed.staged # Unknown THEN Followed.staged ELSE Followed.label
         /\ frame.saw => Followed.label = label
         /\ Followed.staged # Unknown => frame.saw
         /\ Owner = Followed.label
  BY CpisAssumption
  DEF LabelInv, LabelTypes, Staging, Followed, Resolved, Upcoming, Asked, Owner

\* A frame that is taken leaves the source with the resolution last asked for.
LEMMA TakeLabel ==
  ASSUME LabelInv, NEW f, NEW seq, NEW span, NEW gap, Take(f, Followed, seq, span, gap),
         followed' = Asked, UNCHANGED table
  PROVE  LabelInv'
<1>1. /\ frame' = [saw |-> FALSE, counts |-> Zero]
      /\ label' = IF Followed.staged # Unknown THEN Followed.staged ELSE Followed.label
      /\ staged' = Unknown
      /\ out'.label = Followed.label /\ out'.owner = Owner
  BY DEF Take, Empty
<1>2. LabelTypes'
  BY <1>1, FollowedLabel DEF LabelInv, LabelTypes
<1>3. Staging'
  BY <1>1, FollowedLabel DEF Staging, Upcoming
<1>4. OneLabel'
  BY <1>1, FollowedLabel DEF OneLabel
<1> QED BY <1>2, <1>3, <1>4 DEF LabelInv

LEMMA LocalLabel == ASSUME LabelInv, Local PROVE LabelInv'
<1>1. PICK e \in SensorEvents : Complete(e) \/ Gather(e)
  BY DEF Local
<1>2. /\ followed' = Asked
      /\ started' = IF frame'.saw THEN Owner ELSE Unknown
      /\ UNCHANGED table
  BY DEF Local
<1>3. CASE Complete(e)
  BY <1>2, <1>3, TakeLabel DEF Complete
<1>4. CASE Gather(e)
  <2>1. Gathered(e).saw \in BOOLEAN /\ (frame.saw => Gathered(e).saw)
    BY DEF LabelInv, LabelTypes, Gathered, Added
  <2>2. LabelTypes'
    BY <1>2, <1>4, <2>1, FollowedLabel DEF LabelInv, LabelTypes, Gather
  <2>3. Staging'
    BY <1>2, <1>4, <2>1, FollowedLabel DEF Staging, Upcoming, Gather
  <2>4. OneLabel'
    BY <1>4 DEF OneLabel, NoSignal, Gather
  <2> QED BY <2>2, <2>3, <2>4 DEF LabelInv
<1> QED BY <1>1, <1>3, <1>4

LEMMA DeliverLabel == ASSUME LabelInv, Deliver PROVE LabelInv'
<1>1. PICK f, seq, span, gap : Take(f, Followed, seq, span, gap)
  BY DEF Deliver, Unpack
<1>2. followed' = Asked /\ UNCHANGED table
  BY DEF Deliver
<1> QED BY <1>1, <1>2, TakeLabel

\* A step outside the source keeps the label.
LEMMA ElsewhereLabel ==
  ASSUME LabelInv, UNCHANGED <<source, followed, started>>, table' \in Cpis \cup {Unknown},
         out' = NoSignal
  PROVE  LabelInv'
  BY DEF LabelInv, LabelTypes, Staging, OneLabel, Upcoming, source, NoSignal

LEMMA StepLabel == LabelInv /\ [Next]_vars => LabelInv'
<1> SUFFICES ASSUME LabelInv, [Next]_vars PROVE LabelInv'
  OBVIOUS
<1>1. CASE Tick
  BY <1>1, ElsewhereLabel DEF Tick, LabelInv, LabelTypes
<1>2. CASE Report
  BY <1>2, ElsewhereLabel DEF Report, LabelInv, LabelTypes
<1>3. CASE Encode
  <2>1. UNCHANGED <<table, source, followed, started>> /\ out' = NoSignal
    BY <1>3 DEF Encode
  <2> QED BY <2>1, ElsewhereLabel DEF LabelInv, LabelTypes
<1>4. CASE Lose
  BY <1>4, ElsewhereLabel DEF Lose, LabelInv, LabelTypes
<1>5. CASE SetResolution
  BY <1>5, ElsewhereLabel DEF SetResolution
<1>6. CASE Local
  BY <1>6, LocalLabel
<1>7. CASE Deliver
  BY <1>7, DeliverLabel
<1>8. CASE UNCHANGED vars
  BY <1>8 DEF vars, source, LabelInv, LabelTypes, Staging, OneLabel, Upcoming
<1> QED BY <1>1, <1>2, <1>3, <1>4, <1>5, <1>6, <1>7, <1>8 DEF Next

\* However often the device table changes its answer, all counts of a frame are
\* given with the resolution the table had when the frame began
\* (zpt_source_ingress_follow_resolution, zpt_motion_source_set_resolution_cpi).
THEOREM OneLabelInvariant == Spec => []OneLabel
<1>1. LabelInv => OneLabel
  BY DEF LabelInv
<1> QED BY <1>1, InitLabel, StepLabel, PTL DEF Spec

-----------------------------------------------------------------------------
(* Sequence numbers and gaps.                                                *)

LEMMA Remainder ==
  ASSUME NEW a \in Int, NEW m \in Nat \ {0}
  PROVE  /\ a \div m \in Int /\ a % m \in 0..(m - 1)
         /\ a = m * (a \div m) + (a % m)
  BY SMT

LEMMA OneMultipleApart ==
  ASSUME NEW m \in Nat \ {0}, NEW j \in Int, NEW k \in Int, j < k
  PROVE  m * j + m <= m * k
<1>1. j + 1 <= k
  OBVIOUS
<1>2. m * (k - (j + 1)) >= 0
  BY <1>1, SMT
<1> QED BY <1>2, SMT

\* A number has one remainder.
LEMMA RemainderIsOne ==
  ASSUME NEW a \in Int, NEW m \in Nat \ {0}, NEW k \in Int, NEW r \in 0..(m - 1), a = m * k + r
  PROVE  a % m = r
<1> DEFINE q == a \div m
           s == a % m
<1>1. q \in Int /\ s \in 0..(m - 1) /\ a = m * q + s
  BY Remainder
<1> HIDE DEF q, s
<1>2. ~(q < k)
  <2> SUFFICES ASSUME q < k PROVE FALSE
    OBVIOUS
  <2>1. m * q + m <= m * k
    BY <1>1, OneMultipleApart
  <2>2. m * q \in Int /\ m * k \in Int
    BY <1>1
  <2> QED BY <1>1, <2>1, <2>2
<1>3. ~(k < q)
  <2> SUFFICES ASSUME k < q PROVE FALSE
    OBVIOUS
  <2>1. m * k + m <= m * q
    BY <1>1, OneMultipleApart
  <2>2. m * q \in Int /\ m * k \in Int
    BY <1>1
  <2> QED BY <1>1, <2>1, <2>2
<1>4. q = k
  BY <1>1, <1>2, <1>3
<1>5. s = r
  <2>1. m * k \in Int
    OBVIOUS
  <2> QED BY <1>1, <1>4, <2>1
<1> QED BY <1>5 DEF s

\* The remainder of a difference is that of the remainders' difference.
LEMMA RemainderOfDifference ==
  ASSUME NEW a \in Int, NEW b \in Int, NEW m \in Nat \ {0}
  PROVE  ((a % m) - (b % m)) % m = (a - b) % m
<1> DEFINE i == a \div m
           j == b \div m
           r == a % m
           s == b % m
           k == (r - s) \div m
           t == (r - s) % m
<1>1. i \in Int /\ r \in 0..(m - 1) /\ a = m * i + r
  BY Remainder
<1>2. j \in Int /\ s \in 0..(m - 1) /\ b = m * j + s
  BY Remainder
<1>3. k \in Int /\ t \in 0..(m - 1) /\ r - s = m * k + t
  <2>1. r - s \in Int
    BY <1>1, <1>2
  <2> HIDE DEF r, s
  <2> QED BY <2>1, Remainder
<1> HIDE DEF i, j, r, s, k, t
<1> DEFINE d == a - b
           e == i - j + k
<1>4. d = m * e + t /\ e \in Int /\ d \in Int
  BY <1>1, <1>2, <1>3, SMT
<1> HIDE DEF d, e
<1>5. d % m = t
  BY <1>3, <1>4, RemainderIsOne
<1> QED BY <1>5 DEF d, r, s, t

LEMMA SmallRemainder ==
  ASSUME NEW m \in Nat \ {0}, NEW d \in 0..(m - 1)
  PROVE  d % m = d
<1>1. d = m * 0 + d
  OBVIOUS
<1> QED BY <1>1, RemainderIsOne

\* Adding to a remainder is adding to the number.
LEMMA RemainderOfSum ==
  ASSUME NEW a \in Int, NEW b \in Int, NEW m \in Nat \ {0}
  PROVE  ((a % m) + b) % m = (a + b) % m
<1> DEFINE i == a \div m
           r == a % m
           k == (r + b) \div m
           t == (r + b) % m
<1>1. i \in Int /\ r \in 0..(m - 1) /\ a = m * i + r
  BY Remainder
<1>2. k \in Int /\ t \in 0..(m - 1) /\ r + b = m * k + t
  <2>1. r + b \in Int
    BY <1>1
  <2> HIDE DEF r
  <2> QED BY <2>1, Remainder
<1> HIDE DEF i, r, k, t
<1> DEFINE d == a + b
           e == i + k
<1>3. d = m * e + t /\ e \in Int /\ d \in Int
  BY <1>1, <1>2, SMT
<1> HIDE DEF d, e
<1>4. d % m = t
  BY <1>2, <1>3, RemainderIsOne
<1> QED BY <1>4 DEF d, r, t

\* Packets that carry the remainder of their true number.  What the half sends
\* is no repetition.
Packets ==
  {p \in [n : Nat, wire : Int, span : Int, counts : [Axes -> Int], at : Int, again : BOOLEAN] :
     p.wire = p.n % Modulus}
Sent == {p \in Packets : ~p.again}
Events == SensorEvents \cup {PacketEvent(p) : p \in Sent}

HalfTypes ==
  /\ now \in Int
  /\ taken \in Nat
  /\ packed \in Frames
  /\ encoder.at \in Int
  /\ encoder.next = taken % Modulus
  /\ queue \in Seq(Events)
  /\ link \in Seq(Packets)

\* What the decoder remembers is the packet it decoded last.
Decoded ==
  /\ heard.n # NoSequence =>
       /\ heard.n \in Nat
       /\ decoder.saw /\ decoder.wire = heard.n % Modulus
       /\ decoder.sequence \in Int
       /\ sequence = (decoder.sequence + 1) % Span16
  /\ decoder.saw => decoder.sequence \in Int /\ decoder.wire \in Int

\* Nothing is on its way from a half that there is not.
NoHalf == ~split => queue = <<>> /\ link = <<>> /\ heard.n = NoSequence

\* A repetition is the next packet to come, right behind the one it repeats.
Repeated ==
  \A i \in DOMAIN link : link[i].again => i = 1 /\ decoder.saw /\ link[i].wire = decoder.wire

NumberInv == HalfTypes /\ Decoded /\ NoHalf /\ Repeated

LEMMA InitNumber == Init => NumberInv
<1> SUFFICES ASSUME Init PROVE NumberInv
  OBVIOUS
<1>1. 0 % Modulus = 0
  <2>1. 0 \in 0..(Modulus - 1)
    BY CodecAssumption
  <2> QED BY <2>1, SmallRemainder, CodecAssumption
<1>2. Empty \in Frames
  BY DEF Empty, Frames, Zero
<1> QED BY <1>1, <1>2 DEF Init, NumberInv, HalfTypes, Decoded, NoHalf, Repeated, NoSequence, NoTime

LEMMA PacketType ==
  ASSUME NumberInv, NEW f \in Frames
  PROVE  Packet(f) \in Sent
<1>1. taken \in Nat /\ encoder.next = taken % Modulus /\ now \in Int /\ encoder.at \in Int
  BY DEF NumberInv, HalfTypes
<1>2. taken % Modulus \in Int
  BY <1>1, Remainder, CodecAssumption
<1>3. Elapsed \in Int
  BY <1>1 DEF Elapsed
<1>4. SpanCode(Elapsed) \in Int
  <2>1. Quantum \div 2 \in Int
    BY CodecAssumption
  <2>2. (Elapsed + Quantum \div 2) \div Quantum \in Int
    <3> DEFINE a == Elapsed + Quantum \div 2
    <3>1. a \in Int
      BY <1>3, <2>1
    <3> HIDE DEF a
    <3>2. a \div Quantum \in Int
      BY <3>1, Remainder, CodecAssumption
    <3> QED BY <3>2 DEF a
  <2> QED BY <2>2, CodecAssumption DEF SpanCode
<1>5. f.counts \in [Axes -> Int]
  BY DEF Frames
<1> QED BY <1>1, <1>2, <1>4, <1>5 DEF Packet, Packets, Sent

LEMMA EventType ==
  ASSUME NEW e \in Events
  PROVE  /\ e.kind = "axis" => e.axis \in Axes /\ e.value \in Int
         /\ e.kind = "packet" => e.packet \in Sent
<1>1. CASE \E a \in Axes, v \in Values, s \in BOOLEAN : e = AxisEvent(a, v, s)
  <2>1. PICK a \in Axes, v \in Values, s \in BOOLEAN : e = AxisEvent(a, v, s)
    BY <1>1
  <2>2. e.kind = "axis" /\ e.axis = a /\ e.value = v
    BY <2>1 DEF AxisEvent
  <2> QED BY <2>2, ValuesAssumption
<1>2. CASE e = SyncEvent
  BY <1>2 DEF SyncEvent
<1>3. CASE \E p \in Sent : e = PacketEvent(p)
  <2>1. PICK p \in Sent : e = PacketEvent(p)
    BY <1>3
  <2>2. e.kind = "packet" /\ e.packet = p
    BY <2>1 DEF PacketEvent
  <2> QED BY <2>2
<1> QED BY <1>1, <1>2, <1>3 DEF Events, SensorEvents

LEMMA AddedType ==
  ASSUME NEW f \in Frames, NEW a \in Axes, NEW v \in Int
  PROVE  Added(f, a, v) \in Frames
  BY DEF Added, Frames

LEMMA HandleNumber ==
  ASSUME NumberInv, queue # <<>>, NEW reported \in BOOLEAN, Handle(Head(queue), reported),
         UNCHANGED <<split, now, decoder, sequence, heard>>
  PROVE  NumberInv'
<1> DEFINE e == Head(queue)
           f == Holding(e)
           ready == e.sync /\ f.saw
<1>1. e \in Events /\ Tail(queue) \in Seq(Events)
  BY DEF NumberInv, HalfTypes
<1>2. f \in Frames
  BY <1>1, EventType, AddedType DEF Holding, NumberInv, HalfTypes
<1>3. Packet(f) \in Sent
  BY <1>2, PacketType
<1>4. packed' \in Frames
  <2>1. Empty \in Frames
    BY DEF Empty, Frames, Zero
  <2>2. packed' = IF ready THEN Empty ELSE f
    BY DEF Handle
  <2> QED BY <1>2, <2>1, <2>2
<1>5. queue' \in Seq(Events)
  <2>1. queue' = Tail(queue) \o (IF reported THEN <<PacketEvent(Packet(f))>> ELSE <<>>)
    BY DEF Handle
  <2>2. PacketEvent(Packet(f)) \in Events
    BY <1>3 DEF Events
  <2> HIDE DEF f
  <2> QED BY <1>1, <2>1, <2>2
<1>6. link' \in Seq(Packets) /\ Repeated'
  <2>1. \/ link' = link \o <<Packet(f)>>
        \/ e.kind = "packet" /\ link' = link \o <<e.packet>>
        \/ link' = link \o <<>>
    BY DEF Handle
  <2>2. e.kind = "packet" => e.packet \in Sent
    BY <1>1, EventType
  <2>3. link \in Seq(Packets) /\ Repeated
    BY DEF NumberInv, HalfTypes
  <2>4. ASSUME NEW p \in Sent, link' = link \o <<p>> PROVE link' \in Seq(Packets) /\ Repeated'
    <3>1. p \in Packets /\ ~p.again /\ <<p>> \in Seq(Packets)
      BY DEF Sent
    <3>2. link' \in Seq(Packets)
      BY <2>3, <2>4, <3>1
    <3>3. ASSUME NEW i \in DOMAIN link', link'[i].again PROVE i \in DOMAIN link /\ link'[i] = link[i]
      BY <2>3, <2>4, <3>1, <3>3
    <3> QED BY <2>3, <3>2, <3>3 DEF Repeated
  <2>5. CASE link' = link \o <<Packet(f)>>
    BY <1>3, <2>4, <2>5
  <2>6. CASE e.kind = "packet" /\ link' = link \o <<e.packet>>
    BY <2>2, <2>4, <2>6
  <2>7. CASE link' = link \o <<>>
    <3>1. link' = link
      BY <2>3, <2>7
    <3> QED BY <2>3, <3>1 DEF Repeated
  <2> QED BY <2>1, <2>5, <2>6, <2>7
<1>7. taken' \in Nat /\ encoder'.at \in Int /\ encoder'.next = taken' % Modulus
  <2>1. taken \in Nat /\ encoder.at \in Int /\ encoder.next = taken % Modulus /\ now \in Int
    BY DEF NumberInv, HalfTypes
  <2>2. \/ taken' = taken + 1 /\ Number(f)
        \/ taken' = taken /\ encoder' = encoder
    BY DEF Handle
  <2>3. ASSUME taken' = taken + 1, Number(f)
        PROVE  taken' \in Nat /\ encoder'.at \in Int /\ encoder'.next = taken' % Modulus
    <3>1. encoder'.next = (encoder.next + 1) % Modulus /\ encoder'.at = now
      BY <2>3 DEF Number, Following
    <3>2. ((taken % Modulus) + 1) % Modulus = (taken + 1) % Modulus
      <4> DEFINE one == 1
      <4>1. one \in Int /\ taken \in Int /\ Modulus \in Nat \ {0}
        BY <2>1, CodecAssumption
      <4> HIDE DEF one
      <4>2. ((taken % Modulus) + one) % Modulus = (taken + one) % Modulus
        BY <4>1, RemainderOfSum, Zenon
      <4> QED BY <4>2 DEF one
    <3> QED BY <2>1, <2>3, <3>1, <3>2
  <2>4. ASSUME taken' = taken, encoder' = encoder
        PROVE  taken' \in Nat /\ encoder'.at \in Int /\ encoder'.next = taken' % Modulus
    BY <2>1, <2>4
  <2> QED BY <2>2, <2>3, <2>4
<1>8. HalfTypes'
  BY <1>4, <1>5, <1>6, <1>7 DEF NumberInv, HalfTypes
<1>9. Decoded'
  BY DEF NumberInv, Decoded
<1>10. NoHalf'
  BY DEF NumberInv, NoHalf
<1> QED BY <1>6, <1>8, <1>9, <1>10 DEF NumberInv

\* What the decoder reads from a packet, once it has decoded one before.
LEMMA DeltaIsDifference ==
  ASSUME NumberInv, heard.n # NoSequence, NEW p \in Packets
  PROVE  Delta(p) = (p.n - heard.n) % Modulus
<1>1. p.n \in Nat /\ p.wire = p.n % Modulus
  BY DEF Packets
<1>2. heard.n \in Nat /\ decoder.wire = heard.n % Modulus
  BY DEF NumberInv, Decoded
<1>3. ((p.n % Modulus) - (heard.n % Modulus)) % Modulus = (p.n - heard.n) % Modulus
  BY <1>1, <1>2, RemainderOfDifference, CodecAssumption
<1> QED BY <1>1, <1>2, <1>3 DEF Delta

LEMMA ExpandedType ==
  ASSUME NumberInv, NEW p \in Packets
  PROVE  Expanded(p) \in Int
<1>1. p.wire \in Int
  BY DEF Packets
<1>2. CASE ~decoder.saw
  BY <1>1, <1>2 DEF Expanded
<1>3. CASE decoder.saw
  <2>1. decoder.sequence \in Int /\ decoder.wire \in Int
    BY <1>3 DEF NumberInv, Decoded
  <2> DEFINE d == p.wire - decoder.wire
  <2>2. d \in Int
    BY <1>1, <2>1
  <2> HIDE DEF d
  <2>3. d % Modulus \in Int
    BY <2>2, Remainder, CodecAssumption
  <2>4. Delta(p) \in Int
    BY <2>3 DEF d, Delta
  <2> DEFINE n == decoder.sequence + (IF Delta(p) > 1 THEN Delta(p) ELSE 1)
  <2>5. n \in Int /\ Expanded(p) = n % Span16
    BY <1>3, <2>1, <2>4 DEF Expanded
  <2> HIDE DEF n
  <2> QED BY <2>5, Remainder, CodecAssumption
<1> QED BY <1>2, <1>3

LEMMA UnpackNumber ==
  ASSUME NumberInv, link # <<>>, NEW again \in BOOLEAN, Unpack(Head(link), again),
         UNCHANGED <<split, half>>
  PROVE  NumberInv'
<1> DEFINE p == Head(link)
<1>1. p \in Packets /\ Tail(link) \in Seq(Packets) /\ link \in Seq(Packets)
  BY DEF NumberInv, HalfTypes
<1>2. p.n \in Nat /\ p.wire = p.n % Modulus /\ p.wire \in Int
  BY <1>1 DEF Packets
<1>3. Expanded(p) \in Int
  BY <1>1, ExpandedType
<1>4. /\ heard'.n = p.n
      /\ decoder'.saw /\ decoder'.wire = p.wire /\ decoder'.sequence = Expanded(p)
      /\ sequence' = (Expanded(p) + 1) % Span16
      /\ link' = (IF again THEN <<[p EXCEPT !.again = TRUE]>> ELSE <<>>) \o Tail(link)
  BY DEF Unpack, Take
<1> DEFINE q == [p EXCEPT !.again = TRUE]
<1>8. q \in Packets /\ q.wire = p.wire
  BY <1>1 DEF Packets
<1> HIDE DEF p, q
<1>9. link' \in Seq(Packets)
  <2>1. <<q>> \in Seq(Packets) /\ <<>> \in Seq(Packets)
    BY <1>8
  <2> QED BY <1>1, <1>4, <2>1 DEF q
<1>10. Repeated'
  <2> SUFFICES ASSUME NEW i \in DOMAIN link', link'[i].again
               PROVE  i = 1 /\ link'[i].wire = p.wire
    BY <1>4 DEF Repeated
  <2>1. ASSUME NEW j \in DOMAIN Tail(link) PROVE ~Tail(link)[j].again
    <3>1. Tail(link)[j] = link[j + 1] /\ j + 1 \in DOMAIN link /\ j + 1 # 1
      BY <1>1
    <3> QED BY <3>1 DEF NumberInv, Repeated
  <2>2. CASE again
    <3>1. link' = <<q>> \o Tail(link)
      BY <1>4, <2>2 DEF q
    <3>2. i = 1 \/ (i - 1 \in DOMAIN Tail(link) /\ link'[i] = Tail(link)[i - 1])
      BY <1>1, <1>8, <3>1
    <3>3. link'[1] = q
      BY <1>1, <1>8, <3>1
    <3> QED BY <1>8, <2>1, <3>2, <3>3
  <2>3. CASE ~again
    <3>1. link' = Tail(link)
      BY <1>1, <1>4, <2>3
    <3> QED BY <2>1, <3>1
  <2> QED BY <2>2, <2>3
<1>5. HalfTypes'
  BY <1>9 DEF NumberInv, HalfTypes, half
<1>6. Decoded'
  BY <1>2, <1>3, <1>4 DEF Decoded
<1>7. NoHalf'
  BY DEF NumberInv, NoHalf
<1> QED BY <1>5, <1>6, <1>7, <1>10 DEF NumberInv

LEMMA LoseNumber == ASSUME NumberInv, Lose PROVE NumberInv'
<1>1. PICK i \in DOMAIN link : link' = RemoveAt(link, i)
  BY DEF Lose
<1>2. link \in Seq(Packets)
  BY DEF NumberInv, HalfTypes
<1>3. i \in 1..Len(link)
  BY <1>2
<1>4. SubSeq(link, 1, i - 1) \in Seq(Packets) /\ SubSeq(link, i + 1, Len(link)) \in Seq(Packets)
  BY <1>2, <1>3
<1>5. link' \in Seq(Packets)
  BY <1>1, <1>4 DEF RemoveAt
<1>6. UNCHANGED <<split, half, source, heard>>
  BY DEF Lose
<1>7. HalfTypes'
  BY <1>5, <1>6 DEF NumberInv, HalfTypes, half
<1>8. Decoded'
  BY <1>6 DEF NumberInv, Decoded, source
<1>9. NoHalf'
  BY <1>2, <1>3, <1>6 DEF NumberInv, NoHalf, half
<1>10. Repeated'
  <2> SUFFICES ASSUME NEW j \in DOMAIN link', link'[j].again
               PROVE  j = 1 /\ decoder.saw /\ link'[j].wire = decoder.wire
    BY <1>6 DEF Repeated, source
  <2>1. Repeated
    BY DEF NumberInv
  <2>2. link' = SubSeq(link, 1, i - 1) \o SubSeq(link, i + 1, Len(link))
    BY <1>1 DEF RemoveAt
  <2>3. \/ j \in DOMAIN link /\ link'[j] = link[j]
        \/ j + 1 \in DOMAIN link /\ link'[j] = link[j + 1] /\ j + 1 # 1
    <3>1. j \in Nat /\ j >= 1 /\ i \in Nat
      BY <1>2, <1>3, <2>2
    <3> DEFINE u == SubSeq(link, 1, i - 1)
               v == SubSeq(link, i + 1, Len(link))
    <3>4. /\ u \in Seq(Packets) /\ Len(u) = i - 1 /\ \A k \in 1..(i - 1) : u[k] = link[k]
          /\ v \in Seq(Packets) /\ Len(v) = Len(link) - i
          /\ \A k \in 1..(Len(link) - i) : v[k] = link[k + i]
      BY <1>2, <1>3
    <3>5. link' = u \o v
      BY <2>2
    <3> HIDE DEF u, v
    <3>6. j <= Len(link) - 1 /\ Len(link) \in Nat /\ DOMAIN link = 1..Len(link)
      BY <1>2, <1>3, <3>4, <3>5
    <3>2. CASE j < i
      <4>1. j \in 1..(i - 1) /\ link'[j] = u[j]
        BY <3>1, <3>2, <3>4, <3>5
      <4> QED BY <1>3, <3>1, <3>4, <3>6, <4>1
    <3>3. CASE j >= i
      <4>1. j - (i - 1) \in 1..(Len(link) - i) /\ link'[j] = v[j - (i - 1)]
        BY <1>3, <3>1, <3>3, <3>4, <3>5, <3>6
      <4>2. j - (i - 1) + i = j + 1 /\ j + 1 \in DOMAIN link /\ j + 1 # 1
        BY <3>1, <3>6
      <4> QED BY <3>4, <4>1, <4>2
    <3> QED BY <3>1, <3>2, <3>3
  <2> QED BY <2>1, <2>3 DEF Repeated
<1> QED BY <1>7, <1>8, <1>9, <1>10 DEF NumberInv

LEMMA StepNumber == NumberInv /\ [Next]_vars => NumberInv'
<1> SUFFICES ASSUME NumberInv, [Next]_vars PROVE NumberInv'
  OBVIOUS
<1>1. CASE Tick
  <2>1. now' \in Int
    BY <1>1 DEF Tick, NumberInv, HalfTypes
  <2> QED BY <1>1, <2>1 DEF Tick, NumberInv, HalfTypes, Decoded, NoHalf, Repeated, source
<1>2. CASE Report
  <2>1. PICK e \in SensorEvents : queue' = Append(queue, e)
    BY <1>2 DEF Report
  <2>2. queue' \in Seq(Events)
    BY <2>1 DEF NumberInv, HalfTypes, Events
  <2> QED BY <1>2, <2>2 DEF Report, NumberInv, HalfTypes, Decoded, NoHalf, Repeated, source
<1>3. CASE Encode
  <2>1. PICK reported \in BOOLEAN : Handle(Head(queue), reported)
    BY <1>3 DEF Encode
  <2>2. queue # <<>> /\ UNCHANGED <<split, now, decoder, sequence, heard>>
    BY <1>3 DEF Encode, source
  <2> QED BY <2>1, <2>2, HandleNumber
<1>4. CASE Lose
  BY <1>4, LoseNumber
<1>5. CASE SetResolution
  BY <1>5 DEF SetResolution, NumberInv, HalfTypes, Decoded, NoHalf, Repeated, half, source
<1>6. CASE Local
  <2>1. ~split /\ UNCHANGED <<split, half, link, decoder, heard>>
    BY <1>6 DEF Local
  <2> QED BY <2>1 DEF NumberInv, HalfTypes, Decoded, NoHalf, Repeated, half
<1>7. CASE Deliver
  <2>1. PICK again \in BOOLEAN : Unpack(Head(link), again)
    BY <1>7 DEF Deliver
  <2>2. link # <<>> /\ UNCHANGED <<split, half>>
    BY <1>7 DEF Deliver
  <2> QED BY <2>1, <2>2, UnpackNumber
<1>8. CASE UNCHANGED vars
  BY <1>8 DEF vars, half, source, NumberInv, HalfTypes, Decoded, NoHalf, Repeated
<1> QED BY <1>1, <1>2, <1>3, <1>4, <1>5, <1>6, <1>7, <1>8 DEF Next

GapShows ==
  LET missed == heard'.n - heard.n - 1
  IN  out'.given /\ split /\ heard.n # NoSequence =>
        /\ ~out'.gap => missed % Modulus = 0
        /\ missed = 0 => ~out'.gap
        /\ missed \in 0..(Modulus - 2) => out'.sequence = (sequence + missed) % Span16

LEMMA UnpackGap ==
  ASSUME NumberInv, link # <<>>, NEW again \in BOOLEAN, Unpack(Head(link), again),
         heard.n # NoSequence
  PROVE  LET missed == heard'.n - heard.n - 1
         IN  /\ ~out'.gap => missed % Modulus = 0
             /\ missed = 0 => ~out'.gap
             /\ missed \in 0..(Modulus - 2) => out'.sequence = (sequence + missed) % Span16
<1> DEFINE p == Head(link)
           d == p.n - heard.n
<1>1. p \in Packets
  BY DEF NumberInv, HalfTypes
<1>2. /\ heard.n \in Nat /\ decoder.saw
      /\ decoder.sequence \in Int /\ sequence = (decoder.sequence + 1) % Span16
  BY DEF NumberInv, Decoded
<1>3. d \in Int /\ p.n \in Nat
  BY <1>1, <1>2 DEF Packets
<1>4. Delta(p) = d % Modulus
  BY <1>1, DeltaIsDifference
<1>5. heard'.n = p.n /\ out'.gap = Gap(p) /\ out'.sequence = Expanded(p)
  BY DEF Unpack, Take
<1>6. heard'.n - heard.n - 1 = d - 1
  BY <1>2, <1>3, <1>5
<1> HIDE DEF p, d
<1>7. Gap(p) <=> d % Modulus # 1
  BY <1>2, <1>4 DEF Gap
<1>8. Expanded(p) = (decoder.sequence + (IF d % Modulus > 1 THEN d % Modulus ELSE 1)) % Span16
  BY <1>2, <1>4 DEF Expanded
<1>9. Modulus \in Nat \ {0} /\ 1 \in 0..(Modulus - 1) /\ 0 \in 0..(Modulus - 1)
  BY CodecAssumption
<1>10. 1 % Modulus = 1 /\ 0 % Modulus = 0
  BY <1>9, SmallRemainder
<1>11. ASSUME ~Gap(p) PROVE (d - 1) % Modulus = 0
  <2> DEFINE one == 1
  <2>1. ((d % Modulus) - (one % Modulus)) % Modulus = (d - one) % Modulus
    <3>1. one \in Int
      OBVIOUS
    <3> HIDE DEF one
    <3> QED BY <1>3, <1>9, <3>1, RemainderOfDifference
  <2>2. d % Modulus = 1
    BY <1>7, <1>11
  <2> QED BY <1>10, <2>1, <2>2
<1>12. ASSUME d - 1 = 0 PROVE ~Gap(p)
  <2>1. d = 1
    BY <1>3, <1>12
  <2> QED BY <1>7, <1>10, <2>1
<1>13. ASSUME d - 1 \in 0..(Modulus - 2) PROVE Expanded(p) = (sequence + (d - 1)) % Span16
  <2>1. d \in 0..(Modulus - 1) /\ d >= 1
    BY <1>3, <1>9, <1>13
  <2>2. d % Modulus = d
    BY <1>9, <2>1, SmallRemainder
  <2>3. Expanded(p) = (decoder.sequence + d) % Span16
    <3>1. (IF d % Modulus > 1 THEN d % Modulus ELSE 1) = d
      BY <2>1, <2>2
    <3> QED BY <1>8, <3>1
  <2> DEFINE x == decoder.sequence + 1
             y == d - 1
  <2>4. x \in Int /\ y \in Int /\ x + y = decoder.sequence + d
    BY <1>2, <1>3
  <2>5. sequence = x % Span16
    BY <1>2
  <2> HIDE DEF x, y
  <2>6. ((x % Span16) + y) % Span16 = (x + y) % Span16
    <3>1. Span16 \in Nat \ {0}
      BY CodecAssumption
    <3> QED BY <2>4, <3>1, RemainderOfSum, Zenon
  <2> QED BY <2>3, <2>4, <2>5, <2>6 DEF y
<1> QED BY <1>5, <1>6, <1>11, <1>12, <1>13

LEMMA StepGap == NumberInv /\ [Next]_vars => [GapShows]_vars
<1> SUFFICES ASSUME NumberInv, Next, out'.given, split, heard.n # NoSequence
             PROVE  GapShows
  BY DEF GapShows
<1>1. Deliver
  <2>1. (Tick \/ Report \/ Encode \/ Lose \/ SetResolution) => out' = NoSignal
    BY DEF Tick, Report, Encode, Lose, SetResolution
  <2>2. ~NoSignal.given
    BY DEF NoSignal
  <2>3. ~Local
    BY DEF Local
  <2> QED BY <2>1, <2>2, <2>3 DEF Next
<1>2. PICK again \in BOOLEAN : Unpack(Head(link), again)
  BY <1>1 DEF Deliver
<1>3. link # <<>>
  BY <1>1 DEF Deliver
<1> QED BY <1>2, <1>3, UnpackGap DEF GapShows

\* Whatever is lost, repeated or held up between the halves: a frame that is not
\* the next one is given with the gap flag, unless exactly a multiple of the
\* modulus is missing, and the sequence advances by what is missing
\* (zpt_compact_split_encode, zpt_compact_split_decode).
THEOREM GapsShowAlways == Spec => GapsShow
<1>1. [GapShows]_vars <=> [LET missed == heard'.n - heard.n - 1
         IN  out'.given /\ split /\ heard.n # NoSequence =>
           /\ ~out'.gap => missed % Modulus = 0
           /\ missed = 0 => ~out'.gap
           /\ missed \in 0..(Modulus - 2) => out'.sequence = (sequence + missed) % Span16]_vars
  BY DEF GapShows
<1> QED BY <1>1, InitNumber, StepNumber, StepGap, PTL DEF Spec, GapsShow

-----------------------------------------------------------------------------
(* The sample span.                                                          *)

Requeues == {i \in DOMAIN queue : queue[i].kind = "packet"}

\* The packets on their way, whether they pass the encoder again or are sent.
OnTheWay == {queue[i].packet : i \in Requeues} \cup {link[i] : i \in DOMAIN link}

\* The packet decoded last and those that are to come.
Known == OnTheWay \cup (IF heard.n = NoSequence THEN {} ELSE {heard})

\* The encoder remembers the time of the frame it numbered last.
Clock == now \in Nat /\ encoder.at <= now /\ (taken > 0 => encoder.at \in Nat)

StampedWell(x) ==
  /\ x.n \in Nat /\ x.at \in Nat /\ x.n < taken
  /\ x.n = taken - 1 => x.at = encoder.at

Stamped == \A x \in Known : StampedWell(x)

\* A packet's span is the time from the frame numbered before it.
SpannedWell(x, y) ==
  y.n = x.n + 1 => y.at - x.at \in Nat /\ y.span = SpanCode(y.at - x.at)

Spanned == \A x \in Known, y \in OnTheWay : SpannedWell(x, y)

SpanInv == NumberInv /\ Clock /\ Stamped /\ Spanned

LEMMA InitSpan == Init => SpanInv
<1> SUFFICES ASSUME Init PROVE SpanInv
  OBVIOUS
<1>1. OnTheWay = {} /\ Known = {}
  BY DEF Init, OnTheWay, Known, Requeues
<1>2. Clock
  BY DEF Init, Clock, NoTime
<1> QED BY <1>1, <1>2, InitNumber DEF SpanInv, Stamped, Spanned

\* A step that takes no frame and makes no packet keeps what is known.
LEMMA NothingNew ==
  ASSUME SpanInv, NumberInv', now' \in Nat, now' >= now, UNCHANGED <<encoder, taken>>,
         OnTheWay' \subseteq OnTheWay, Known' \subseteq Known
  PROVE  SpanInv'
<1>1. Clock'
  BY DEF SpanInv, Clock, NumberInv, HalfTypes
<1>2. Stamped'
  BY DEF SpanInv, Stamped, StampedWell
<1>3. Spanned'
  BY DEF SpanInv, Spanned, SpannedWell
<1> QED BY <1>1, <1>2, <1>3 DEF SpanInv

LEMMA EncodeSpan ==
  ASSUME SpanInv, NumberInv', queue # <<>>, NEW reported \in BOOLEAN,
         Handle(Head(queue), reported), UNCHANGED <<now, heard>>
  PROVE  SpanInv'
<1> DEFINE e == Head(queue)
           f == Holding(e)
           ready == e.sync /\ f.saw
           new == Packet(f)
<1>1. queue \in Seq(Events) /\ link \in Seq(Packets) /\ taken \in Nat
  BY DEF SpanInv, NumberInv, HalfTypes
<1>2. /\ taken' = IF ready THEN taken + 1 ELSE taken
      /\ IF ready THEN Number(f) ELSE UNCHANGED encoder
      /\ reported => ready
  BY DEF Handle
<1>3. OnTheWay' \subseteq OnTheWay \cup (IF ready THEN {new} ELSE {})
  <2>1. queue' = Tail(queue) \o (IF reported THEN <<PacketEvent(new)>> ELSE <<>>)
    BY DEF Handle
  <2>2. \/ ready /\ link' = link \o <<new>>
        \/ e.kind = "packet" /\ link' = link \o <<e.packet>>
        \/ link' = link \o <<>>
    BY DEF Handle
  <2>3. ASSUME NEW i \in DOMAIN queue', queue'[i].kind = "packet"
        PROVE  queue'[i].packet \in OnTheWay \cup (IF ready THEN {new} ELSE {})
    <3>1. CASE i \in DOMAIN Tail(queue)
      <4>1. queue'[i] = queue[i + 1] /\ i + 1 \in DOMAIN queue
        BY <1>1, <2>1, <3>1
      <4> QED BY <2>3, <4>1 DEF OnTheWay, Requeues
    <3>2. CASE i \notin DOMAIN Tail(queue)
      <4> DEFINE ev == PacketEvent(new)
      <4>1. ev.packet = new
        BY DEF PacketEvent
      <4> HIDE DEF ev, new
      <4>2. reported /\ queue'[i] = ev
        BY <1>1, <2>1, <3>2, <2>3 DEF ev
      <4> QED BY <1>2, <4>1, <4>2
    <3> QED BY <3>1, <3>2
  <2>4. ASSUME NEW i \in DOMAIN link'
        PROVE  link'[i] \in OnTheWay \cup (IF ready THEN {new} ELSE {})
    <3>1. CASE i \in DOMAIN link
      <4>1. link'[i] = link[i]
        <5> HIDE DEF new, e
        <5>1. CASE link' = link \o <<new>>
          BY <1>1, <3>1, <5>1
        <5>2. CASE link' = link \o <<e.packet>>
          BY <1>1, <3>1, <5>2
        <5>3. CASE link' = link \o <<>>
          BY <1>1, <3>1, <5>3
        <5> QED BY <2>2, <5>1, <5>2, <5>3
      <4>2. link[i] \in {link[k] : k \in DOMAIN link}
        BY <3>1
      <4>3. link[i] \in OnTheWay
        BY <4>2 DEF OnTheWay
      <4> QED BY <4>1, <4>3
    <3>2. CASE i \notin DOMAIN link
      <4>1. e.kind = "packet" => e.packet \in OnTheWay
        <5>1. 1 \in DOMAIN queue /\ e = queue[1]
          BY <1>1
        <5> QED BY <5>1 DEF OnTheWay, Requeues
      <4> HIDE DEF new
      <4>2. \/ ready /\ link'[i] = new
            \/ e.kind = "packet" /\ link'[i] = e.packet
        BY <1>1, <2>2, <2>4, <3>2
      <4> QED BY <4>1, <4>2
    <3> QED BY <3>1, <3>2
  <2> QED BY <2>3, <2>4 DEF OnTheWay, Requeues
<1>4. CASE ~ready
  <2>1. OnTheWay' \subseteq OnTheWay /\ Known' \subseteq Known
    BY <1>3, <1>4 DEF Known
  <2>2. now' \in Nat /\ now' >= now
    BY DEF SpanInv, Clock
  <2> QED BY <1>2, <1>4, <2>1, <2>2, NothingNew
<1>5. CASE ready
  <2>1. /\ new.n = taken /\ new.at = now /\ new.span = SpanCode(Elapsed)
        /\ taken' = taken + 1 /\ encoder'.at = now
    BY <1>2, <1>5 DEF Packet, Number
  <2>2. OnTheWay' \subseteq OnTheWay \cup {new} /\ Known' \subseteq Known \cup {new}
    BY <1>3, <1>5 DEF Known
  <2>3. Clock /\ Stamped /\ Spanned
    BY DEF SpanInv
  <2> HIDE DEF new
  <2>4. Clock'
    BY <2>1, <2>3 DEF Clock
  <2>5. Stamped'
    <3>2. ASSUME NEW x \in Known PROVE x.n \in Nat /\ x.at \in Nat /\ x.n < taken
      BY <2>3 DEF Stamped, StampedWell
    <3>3. ASSUME NEW x \in Known' PROVE StampedWell(x)'
      <4>1. CASE x = new
        BY <1>1, <2>1, <2>3, <4>1 DEF StampedWell, Clock
      <4>2. CASE x \in Known
        BY <1>1, <2>1, <3>2, <4>2 DEF StampedWell
      <4> QED BY <2>2, <4>1, <4>2
    <3> QED BY <3>3 DEF Stamped
  <2>6. Spanned'
    <3> SUFFICES ASSUME NEW x \in Known', NEW y \in OnTheWay', y.n = x.n + 1
                 PROVE  y.at - x.at \in Nat /\ y.span = SpanCode(y.at - x.at)
      BY DEF Spanned, SpannedWell
    <3>1. CASE y = new
      <4>1. x \in Known
        BY <1>1, <2>1, <2>2, <3>1
      <4>2. StampedWell(x)
        BY <2>3, <4>1 DEF Stamped
      <4>3. x.n = taken - 1 /\ x.at = encoder.at /\ encoder.at \in Nat
        BY <1>1, <2>1, <3>1, <4>2 DEF StampedWell
      <4>4. Elapsed = now - encoder.at
        BY <4>3 DEF Elapsed, NoTime
      <4> QED BY <2>1, <2>3, <3>1, <4>3, <4>4 DEF Clock
    <3>2. CASE y \in OnTheWay
      <4>1. y \in Known
        BY <3>2 DEF Known
      <4>2. y.n < taken
        BY <2>3, <4>1 DEF Stamped, StampedWell
      <4>3. x # new
        BY <1>1, <2>1, <4>2, <2>3, <4>1 DEF Stamped, StampedWell
      <4>4. x \in Known
        BY <2>2, <4>3
      <4> QED BY <2>3, <3>2, <4>4 DEF Spanned, SpannedWell
    <3> QED BY <2>2, <3>1, <3>2
  <2> QED BY <2>4, <2>5, <2>6 DEF SpanInv
<1> QED BY <1>4, <1>5

LEMMA LoseSpan == ASSUME SpanInv, NumberInv', Lose PROVE SpanInv'
<1>1. PICK i \in DOMAIN link : link' = RemoveAt(link, i)
  BY DEF Lose
<1>2. link \in Seq(Packets)
  BY DEF SpanInv, NumberInv, HalfTypes
<1>3. UNCHANGED <<half, heard>>
  BY DEF Lose
<1>4. ASSUME NEW j \in DOMAIN link' PROVE \E k \in DOMAIN link : link'[j] = link[k]
  <2>1. link' = SubSeq(link, 1, i - 1) \o SubSeq(link, i + 1, Len(link))
    BY <1>1 DEF RemoveAt
  <2>2. i \in 1..Len(link)
    BY <1>2
  <2>3. CASE j < i
    <3>1. j \in DOMAIN link /\ link'[j] = link[j]
      BY <1>2, <1>4, <2>1, <2>2, <2>3
    <3> QED BY <3>1
  <2>4. CASE j >= i
    <3>1. j + 1 \in DOMAIN link /\ link'[j] = link[j + 1]
      BY <1>2, <1>4, <2>1, <2>2, <2>4
    <3> QED BY <3>1
  <2>5. j \in Nat /\ i \in Nat
    BY <1>2, <1>4, <2>1, <2>2
  <2> QED BY <2>3, <2>4, <2>5
<1>5. OnTheWay' \subseteq OnTheWay
  BY <1>3, <1>4 DEF OnTheWay, Requeues, half
<1>6. Known' \subseteq Known
  BY <1>3, <1>5 DEF Known
<1>7. now' \in Nat /\ now' >= now /\ UNCHANGED <<encoder, taken>>
  BY <1>3 DEF half, SpanInv, Clock
<1> QED BY <1>5, <1>6, <1>7, NothingNew

LEMMA DeliverSpan == ASSUME SpanInv, NumberInv', Deliver PROVE SpanInv'
<1>1. PICK again \in BOOLEAN : Unpack(Head(link), again)
  BY DEF Deliver
<1>2. link # <<>> /\ link \in Seq(Packets) /\ UNCHANGED half
  BY DEF Deliver, SpanInv, NumberInv, HalfTypes
<1> DEFINE p == Head(link)
<1>3. /\ heard' = [n |-> p.n, at |-> p.at]
      /\ link' = (IF again THEN <<[p EXCEPT !.again = TRUE]>> ELSE <<>>) \o Tail(link)
  BY <1>1 DEF Unpack
<1>4. p \in OnTheWay /\ p \in Packets
  <2>1. 1 \in DOMAIN link /\ p = link[1]
    BY <1>2
  <2> QED BY <1>2, <2>1 DEF OnTheWay
<1> DEFINE Alike(x, y) == x.n = y.n /\ x.at = y.at /\ x.span = y.span
<1>5. ASSUME NEW j \in DOMAIN link' PROVE \E y \in OnTheWay : Alike(link'[j], y)
  <2> DEFINE q == [p EXCEPT !.again = TRUE]
  <2>1. Alike(q, p)
    BY <1>4 DEF Packets
  <2>2. ASSUME NEW k \in DOMAIN Tail(link) PROVE Tail(link)[k] \in OnTheWay
    <3>1. Tail(link)[k] = link[k + 1] /\ k + 1 \in DOMAIN link
      BY <1>2
    <3> QED BY <3>1 DEF OnTheWay
  <2> HIDE DEF p, q, Alike
  <2>3. CASE again
    <3>1. link' = <<q>> \o Tail(link)
      BY <1>3, <2>3 DEF q
    <3>2. link'[j] = q \/ (j - 1 \in DOMAIN Tail(link) /\ link'[j] = Tail(link)[j - 1])
      BY <1>2, <3>1
    <3>3. \A y : Alike(y, y)
      BY DEF Alike
    <3> QED BY <1>4, <2>1, <2>2, <3>2, <3>3
  <2>4. CASE ~again
    <3>1. link' = Tail(link)
      BY <1>2, <1>3, <2>4
    <3>2. \A y : Alike(y, y)
      BY DEF Alike
    <3> QED BY <2>2, <3>1, <3>2
  <2> QED BY <2>3, <2>4
<1>6. ASSUME NEW x \in OnTheWay' PROVE \E y \in OnTheWay : Alike(x, y)
  <2>1. CASE x \in {queue[i].packet : i \in Requeues}
    <3>1. x \in OnTheWay /\ Alike(x, x)
      BY <2>1 DEF OnTheWay
    <3> QED BY <3>1
  <2>2. CASE \E i \in DOMAIN link' : x = link'[i]
    BY <1>5, <2>2
  <2> QED BY <1>2, <2>1, <2>2 DEF OnTheWay, Requeues, half
<1> HIDE DEF p
<1>7. ASSUME NEW x \in Known' PROVE \E y \in Known : x.n = y.n /\ x.at = y.at
  <2>1. CASE x = heard'
    BY <1>3, <1>4, <2>1 DEF Known
  <2>2. CASE x \in OnTheWay'
    BY <1>6, <2>2 DEF Known
  <2> QED BY <2>1, <2>2 DEF Known
<1>9. Clock /\ Stamped /\ Spanned
  BY DEF SpanInv
<1>10. Clock'
  BY <1>2, <1>9 DEF Clock, half
<1>11. Stamped'
  BY <1>2, <1>7, <1>9 DEF Stamped, StampedWell, half
<1>12. Spanned'
  <2> SUFFICES ASSUME NEW x \in Known', NEW y \in OnTheWay' PROVE SpannedWell(x, y)
    BY DEF Spanned, SpannedWell
  <2>1. PICK v \in Known : x.n = v.n /\ x.at = v.at
    BY <1>7
  <2>2. PICK w \in OnTheWay : Alike(y, w)
    BY <1>6
  <2>3. SpannedWell(v, w)
    BY <1>9 DEF Spanned
  <2> QED BY <2>1, <2>2, <2>3 DEF SpannedWell
<1> QED BY <1>10, <1>11, <1>12 DEF SpanInv

LEMMA StepSpan == SpanInv /\ [Next]_vars => SpanInv'
<1> SUFFICES ASSUME SpanInv, [Next]_vars PROVE SpanInv'
  OBVIOUS
<1>1. NumberInv'
  BY StepNumber DEF SpanInv
<1>2. Clock
  BY DEF SpanInv
<1>3. ASSUME UNCHANGED <<link, encoder, taken, heard>>, now' \in {now, now + 1},
             OnTheWay' \subseteq OnTheWay
      PROVE  SpanInv'
  <2>1. now' \in Nat /\ now' >= now
    BY <1>2, <1>3 DEF Clock
  <2>2. Known' \subseteq Known
    BY <1>3 DEF Known
  <2> QED BY <1>1, <1>3, <2>1, <2>2, NothingNew
<1>4. CASE Tick
  <2>1. UNCHANGED <<link, encoder, taken, heard, queue>> /\ now' = now + 1
    BY <1>4 DEF Tick
  <2> QED BY <1>3, <2>1 DEF OnTheWay, Requeues
<1>5. CASE Report
  <2>1. UNCHANGED <<link, encoder, taken, heard, now>>
    BY <1>5 DEF Report
  <2>2. PICK e \in SensorEvents : queue' = Append(queue, e)
    BY <1>5 DEF Report
  <2>3. queue \in Seq(Events)
    BY DEF SpanInv, NumberInv, HalfTypes
  <2>4. e.kind # "packet"
    BY DEF SensorEvents, AxisEvent, SyncEvent
  <2>5. ASSUME NEW i \in DOMAIN queue', queue'[i].kind = "packet"
        PROVE  i \in DOMAIN queue /\ queue'[i] = queue[i]
    BY <2>2, <2>3, <2>4, <2>5
  <2>6. OnTheWay' \subseteq OnTheWay
    BY <2>1, <2>5 DEF OnTheWay, Requeues
  <2> QED BY <1>3, <2>1, <2>6
<1>6. CASE Encode
  <2>1. PICK reported \in BOOLEAN : Handle(Head(queue), reported)
    BY <1>6 DEF Encode
  <2>2. queue # <<>> /\ UNCHANGED <<now, heard>>
    BY <1>6 DEF Encode
  <2> QED BY <1>1, <2>1, <2>2, EncodeSpan
<1>7. CASE Lose
  BY <1>1, <1>7, LoseSpan
<1>8. CASE SetResolution
  <2>1. UNCHANGED <<link, encoder, taken, heard, now, queue>>
    BY <1>8 DEF SetResolution, half
  <2> QED BY <1>3, <2>1 DEF OnTheWay, Requeues
<1>9. CASE Local
  <2>1. UNCHANGED <<link, encoder, taken, heard, now, queue>>
    BY <1>9 DEF Local, half
  <2> QED BY <1>3, <2>1 DEF OnTheWay, Requeues
<1>10. CASE Deliver
  BY <1>1, <1>10, DeliverSpan
<1>11. CASE UNCHANGED vars
  <2>1. UNCHANGED <<link, encoder, taken, heard, now, queue>>
    BY <1>11 DEF vars, half
  <2> QED BY <1>3, <2>1 DEF OnTheWay, Requeues
<1> QED BY <1>4, <1>5, <1>6, <1>7, <1>8, <1>9, <1>10, <1>11 DEF Next

\* The span encode_span gives is the time to the nearest quantum, or says that
\* it was clipped.  A quantum of three or more would make one of the shortest
\* times, where the nearest is none.
LEMMA SpanCodeIsNearest ==
  ASSUME Quantum <= 2, NEW elapsed \in Nat
  PROVE  IF SpanCode(elapsed) = Saturated THEN 2 * elapsed >= (2 * Saturated - 1) * Quantum
         ELSE /\ 2 * (elapsed - SpanCode(elapsed) * Quantum) <= Quantum
              /\ 2 * (SpanCode(elapsed) * Quantum - elapsed) <= Quantum
<1>1. Saturated \in Nat /\ Saturated > 1
  BY CodecAssumption
<1>2. CASE Quantum = 1
  <2>1. Quantum \div 2 = 0
    BY <1>2
  <2>2. (elapsed + Quantum \div 2) \div Quantum = elapsed
    BY <1>2, <2>1
  <2>3. SpanCode(elapsed) = IF elapsed >= Saturated THEN Saturated ELSE elapsed
    BY <1>1, <2>2 DEF SpanCode
  <2> QED BY <1>1, <1>2, <2>3
<1>3. CASE Quantum = 2
  <2> DEFINE code == (elapsed + 1) \div 2
  <2>1. code \in Nat /\ 2 * code <= elapsed + 1 /\ elapsed <= 2 * code
    OBVIOUS
  <2>2. (elapsed + Quantum \div 2) \div Quantum = code
    BY <1>3
  <2> HIDE DEF code
  <2>3. SpanCode(elapsed) = IF code >= Saturated THEN Saturated ELSE code
    BY <1>1, <2>1, <2>2 DEF SpanCode
  <2> QED BY <1>1, <1>3, <2>1, <2>3
<1>4. Quantum = 1 \/ Quantum = 2
  BY CodecAssumption
<1> QED BY <1>2, <1>3, <1>4

SpanTrue ==
  LET elapsed == heard'.at - heard.at
  IN  out'.given /\ split /\ heard.n # NoSequence /\ heard'.n = heard.n + 1 =>
        IF out'.clipped THEN 2 * elapsed >= (2 * Saturated - 1) * Quantum
        ELSE /\ 2 * (elapsed - out'.span) <= Quantum
             /\ 2 * (out'.span - elapsed) <= Quantum

LEMMA StepSpanTrue == Quantum <= 2 /\ SpanInv /\ [Next]_vars => [SpanTrue]_vars
<1> SUFFICES ASSUME Quantum <= 2, SpanInv, Next, out'.given, split, heard.n # NoSequence,
                    heard'.n = heard.n + 1
             PROVE  SpanTrue
  BY DEF SpanTrue
<1>1. Deliver
  <2>1. (Tick \/ Report \/ Encode \/ Lose \/ SetResolution) => out' = NoSignal
    BY DEF Tick, Report, Encode, Lose, SetResolution
  <2>2. ~NoSignal.given
    BY DEF NoSignal
  <2>3. ~Local
    BY DEF Local
  <2> QED BY <2>1, <2>2, <2>3 DEF Next
<1>2. PICK again \in BOOLEAN : Unpack(Head(link), again)
  BY <1>1 DEF Deliver
<1> DEFINE p == Head(link)
<1>3. p \in OnTheWay
  <2>1. link # <<>> /\ link \in Seq(Packets)
    BY <1>1 DEF Deliver, SpanInv, NumberInv, HalfTypes
  <2>2. 1 \in DOMAIN link /\ p = link[1]
    BY <2>1
  <2> QED BY <2>2 DEF OnTheWay
<1>4. /\ heard'.n = p.n /\ heard'.at = p.at
      /\ out'.span = p.span * Quantum /\ out'.clipped = (p.span = Saturated)
  BY <1>2 DEF Unpack, Take
<1> HIDE DEF p
<1>5. heard \in Known
  BY DEF Known
<1>6. SpannedWell(heard, p)
  BY <1>3, <1>5 DEF SpanInv, Spanned
<1> DEFINE elapsed == p.at - heard.at
<1>7. elapsed \in Nat /\ p.span = SpanCode(elapsed)
  BY <1>4, <1>6 DEF SpannedWell
<1>8. heard'.at - heard.at = elapsed
  BY <1>4
<1> HIDE DEF elapsed
<1>9. IF SpanCode(elapsed) = Saturated THEN 2 * elapsed >= (2 * Saturated - 1) * Quantum
      ELSE /\ 2 * (elapsed - SpanCode(elapsed) * Quantum) <= Quantum
           /\ 2 * (SpanCode(elapsed) * Quantum - elapsed) <= Quantum
  BY <1>7, SpanCodeIsNearest
<1> QED BY <1>4, <1>7, <1>8, <1>9 DEF SpanTrue

\* Whatever is lost, repeated or held up: the span of a frame that follows the
\* one before it is the time between the two on the half's own clock, to the
\* nearest quantum, and one that does not fit says so (sample_span, encode_span,
\* zpt_compact_split_decode).  The code's quantum is two milliseconds of a clock
\* that counts milliseconds.
THEOREM SpanIsTimeAlways == ASSUME Quantum <= 2 PROVE Spec => SpanIsTime
<1>1. [SpanTrue]_vars <=> [LET elapsed == heard'.at - heard.at
         IN  out'.given /\ split /\ heard.n # NoSequence /\ heard'.n = heard.n + 1 =>
           IF out'.clipped THEN 2 * elapsed >= (2 * Saturated - 1) * Quantum
           ELSE /\ 2 * (elapsed - out'.span) <= Quantum
                /\ 2 * (out'.span - elapsed) <= Quantum]_vars
  BY DEF SpanTrue
<1>2. SpanInv /\ [Next]_vars => [SpanTrue]_vars
  BY StepSpanTrue
<1> QED BY <1>1, <1>2, InitSpan, StepSpan, PTL DEF Spec, SpanIsTime

-----------------------------------------------------------------------------
(* What all the packets in a sequence bring for the first time.              *)

Vec == [Axes -> Int]
Loads == [n : Int, wire : Int, span : Int, counts : Vec, at : Int, again : BOOLEAN]

LEMMA VecType ==
  /\ Zero \in Vec /\ \A a \in Axes : Zero[a] = 0
  /\ \A u \in Vec, v \in Vec :
       /\ Plus(u, v) \in Vec /\ \A a \in Axes : Plus(u, v)[a] = u[a] + v[a]
       /\ Minus(u, v) \in Vec /\ \A a \in Axes : Minus(u, v)[a] = u[a] - v[a]
  BY DEF Vec, Zero, Plus, Minus

LEMMA SameVec ==
  ASSUME NEW u \in Vec, NEW v \in Vec, \A a \in Axes : u[a] = v[a]
  PROVE  u = v
  BY DEF Vec

LEMMA VecAt ==
  ASSUME NEW u \in Vec, NEW v \in Vec, NEW a \in Axes
  PROVE  /\ u[a] \in Int /\ v[a] \in Int
         /\ Plus(u, v)[a] = u[a] + v[a] /\ Minus(u, v)[a] = u[a] - v[a]
  BY DEF Vec, Plus, Minus

LEMMA VecBack ==
  ASSUME NEW u \in Vec, NEW c \in Vec
  PROVE  Minus(Plus(u, c), c) = u
<1>1. Plus(u, c) \in Vec /\ Minus(Plus(u, c), c) \in Vec
  BY VecType
<1>2. ASSUME NEW a \in Axes PROVE Minus(Plus(u, c), c)[a] = u[a]
  <2>1. Plus(u, c)[a] = u[a] + c[a] /\ u[a] \in Int /\ c[a] \in Int
    BY VecAt
  <2>2. Minus(Plus(u, c), c)[a] = Plus(u, c)[a] - c[a]
    BY <1>1, VecAt
  <2> QED BY <2>1, <2>2
<1> QED BY <1>1, <1>2, SameVec

LEMMA VecSwap ==
  ASSUME NEW u \in Vec, NEW v \in Vec, NEW c \in Vec
  PROVE  Minus(Plus(u, v), c) = Plus(Minus(u, c), v)
<1>1. Plus(u, v) \in Vec /\ Minus(u, c) \in Vec
  BY VecType
<1>2. Minus(Plus(u, v), c) \in Vec /\ Plus(Minus(u, c), v) \in Vec
  BY <1>1, VecType
<1>3. ASSUME NEW a \in Axes PROVE Minus(Plus(u, v), c)[a] = Plus(Minus(u, c), v)[a]
  <2>1. /\ Plus(u, v)[a] = u[a] + v[a] /\ Minus(u, c)[a] = u[a] - c[a]
        /\ u[a] \in Int /\ v[a] \in Int /\ c[a] \in Int
    BY VecAt
  <2>2. Minus(Plus(u, v), c)[a] = Plus(u, v)[a] - c[a]
    BY <1>1, VecAt
  <2>3. Plus(Minus(u, c), v)[a] = Minus(u, c)[a] + v[a]
    BY <1>1, VecAt
  <2> QED BY <2>1, <2>2, <2>3
<1> QED BY <1>2, <1>3, SameVec

LEMMA FreshType ==
  ASSUME NEW s \in Seq(Loads), NEW i \in 1..Len(s)
  PROVE  Fresh(s[i]) \in Vec
<1>1. s[i] \in Loads
  OBVIOUS
<1> QED BY <1>1, VecType DEF Loads, Fresh

\* g holds the sums of the first packets of s, of as many as n.
SumsTo(s, n, g) ==
  /\ g \in [0..n -> Vec]
  /\ g[0] = Zero
  /\ \A i \in 1..n : g[i] = Plus(g[i - 1], Fresh(s[i]))

LEMMA LeastNumber ==
  ASSUME NEW S \in SUBSET Nat, S # {}
  PROVE  \E k \in S : \A j \in S : k <= j
<1> DEFINE Less == {e \in Nat \X Nat : e[1] < e[2]}
<1>1. IsWellFoundedOn(Less, Nat)
  BY NatLessThanWellFounded DEF OpToRel
<1>2. PICK k \in S : \A j \in S : <<j, k>> \notin Less
  <2> HIDE DEF Less
  <2> QED BY <1>1, WFMin
<1>3. ASSUME NEW j \in S PROVE k <= j
  <2>1. j \in Nat /\ k \in Nat
    OBVIOUS
  <2>2. ~(j < k)
    BY <1>2, <2>1
  <2> QED BY <2>1, <2>2
<1> QED BY <1>3

\* There are such sums, as far as the sequence goes: the least length without
\* them would be one more than a length that has them.
LEMMA SumsExist ==
  ASSUME NEW s \in Seq(Loads)
  PROVE  \E g : SumsTo(s, Len(s), g)
<1> DEFINE Without == {n \in 0..Len(s) : ~\E g : SumsTo(s, n, g)}
<1> SUFFICES ASSUME Without # {} PROVE FALSE
  <2>1. Len(s) \in 0..Len(s)
    OBVIOUS
  <2> QED BY <2>1
<1>1. PICK k \in Without : \A j \in Without : k <= j
  <2>1. Without \in SUBSET Nat
    OBVIOUS
  <2> HIDE DEF Without
  <2> QED BY <2>1, LeastNumber
<1>2. k \in 0..Len(s) /\ Len(s) \in Nat /\ ~\E g : SumsTo(s, k, g)
  OBVIOUS
<1>3. CASE k = 0
  <2> DEFINE g == [i \in 0..0 |-> Zero]
  <2>1. g \in [0..0 -> Vec] /\ g[0] = Zero
    BY VecType
  <2>2. SumsTo(s, 0, g)
    <3> HIDE DEF g
    <3> QED BY <2>1 DEF SumsTo
  <2> QED BY <1>2, <1>3, <2>2
<1>4. CASE k # 0
  <2>1. k - 1 \in 0..Len(s) /\ ~(k <= k - 1)
    BY <1>2, <1>4
  <2>2. k - 1 \notin Without
    BY <1>1, <2>1
  <2>3. PICK h : SumsTo(s, k - 1, h)
    BY <2>1, <2>2
  <2> HIDE DEF Without
  <2>4. Fresh(s[k]) \in Vec
    BY <1>2, <1>4, FreshType
  <2> DEFINE last == Plus(h[k - 1], Fresh(s[k]))
             g == [i \in 0..k |-> IF i = k THEN last ELSE h[i]]
  <2>5. h \in [0..(k - 1) -> Vec] /\ h[0] = Zero
    BY <2>3 DEF SumsTo
  <2>6. last \in Vec
    BY <1>2, <1>4, <2>4, <2>5, VecType
  <2>7. g \in [0..k -> Vec] /\ g[0] = Zero
    <3> HIDE DEF last
    <3>1. ASSUME NEW i \in 0..k PROVE g[i] \in Vec
      BY <1>2, <1>4, <2>5, <2>6
    <3> QED BY <1>2, <1>4, <2>5, <3>1
  <2>8. ASSUME NEW i \in 1..k PROVE g[i] = Plus(g[i - 1], Fresh(s[i]))
    <3>1. CASE i = k
      <4>1. g[i] = last /\ g[i - 1] = h[k - 1]
        BY <1>2, <1>4, <3>1
      <4> QED BY <3>1, <4>1
    <3>2. CASE i # k
      <4>1. g[i] = h[i] /\ g[i - 1] = h[i - 1] /\ i \in 1..(k - 1)
        BY <1>2, <1>4, <3>2
      <4> QED BY <2>3, <4>1 DEF SumsTo
    <3> QED BY <3>1, <3>2
  <2> HIDE DEF g
  <2>9. SumsTo(s, k, g)
    BY <2>7, <2>8 DEF SumsTo
  <2> QED BY <1>2, <2>9
<1> QED BY <1>3, <1>4

\* There is one such function: two would differ first somewhere.
LEMMA SumsAgree ==
  ASSUME NEW s \in Seq(Loads), NEW g, NEW h, SumsTo(s, Len(s), g), SumsTo(s, Len(s), h)
  PROVE  g[Len(s)] = h[Len(s)]
<1> DEFINE Differ == {n \in 0..Len(s) : g[n] # h[n]}
<1> SUFFICES ASSUME Differ # {} PROVE FALSE
  <2>1. Len(s) \in 0..Len(s)
    OBVIOUS
  <2> QED BY <2>1
<1>1. PICK k \in Differ : \A j \in Differ : k <= j
  <2>1. Differ \in SUBSET Nat
    OBVIOUS
  <2> HIDE DEF Differ
  <2> QED BY <2>1, LeastNumber
<1>2. k \in 0..Len(s) /\ Len(s) \in Nat /\ g[k] # h[k]
  OBVIOUS
<1>3. k # 0
  BY <1>2 DEF SumsTo
<1>4. k - 1 \in 0..Len(s) /\ ~(k <= k - 1) /\ k \in 1..Len(s)
  BY <1>2, <1>3
<1>5. g[k - 1] = h[k - 1]
  BY <1>1, <1>4
<1>6. g[k] = Plus(g[k - 1], Fresh(s[k])) /\ h[k] = Plus(h[k - 1], Fresh(s[k]))
  BY <1>4 DEF SumsTo
<1> QED BY <1>2, <1>5, <1>6

LEMMA InFlightIsSum ==
  ASSUME NEW s \in Seq(Loads)
  PROVE  \E g : SumsTo(s, Len(s), g) /\ InFlight(s) = g[Len(s)]
<1> DEFINE Rec(g) == g = [i \in 0..Len(s) |-> IF i = 0 THEN Zero ELSE Plus(g[i - 1], Fresh(s[i]))]
           sum == CHOOSE g : Rec(g)
<1>1. PICK g : SumsTo(s, Len(s), g)
  BY SumsExist
<1>2. Len(s) \in Nat
  OBVIOUS
<1>3. Rec(g)
  <2> DEFINE r == [i \in 0..Len(s) |-> IF i = 0 THEN Zero ELSE Plus(g[i - 1], Fresh(s[i]))]
  <2>1. ASSUME NEW i \in 0..Len(s) PROVE g[i] = r[i]
    BY <1>1, <1>2 DEF SumsTo
  <2>2. g = [i \in 0..Len(s) |-> g[i]]
    BY <1>1 DEF SumsTo
  <2>3. r = [i \in 0..Len(s) |-> r[i]]
    OBVIOUS
  <2> HIDE DEF r
  <2>4. g = r
    BY <2>1, <2>2, <2>3
  <2> QED BY <2>4 DEF r
<1>4. Rec(sum)
  <2> HIDE DEF Rec
  <2> QED BY <1>3
<1>5. InFlight(s) = sum[Len(s)]
  BY DEF InFlight
<1>6. SumsTo(s, Len(s), sum)
  <2> HIDE DEF sum
  <2>1. sum[0] = Zero
    BY <1>2, <1>4
  <2>2. ASSUME NEW i \in 1..Len(s) PROVE sum[i] = Plus(sum[i - 1], Fresh(s[i]))
    BY <1>2, <1>4
  <2>3. DOMAIN sum = 0..Len(s) /\ sum = [i \in 0..Len(s) |-> sum[i]]
    BY <1>4
  <2>4. ASSUME NEW i \in 0..Len(s) PROVE sum[i] \in Vec
    <3> DEFINE Off == {n \in 0..Len(s) : sum[n] \notin Vec}
    <3> SUFFICES ASSUME Off # {} PROVE FALSE
      OBVIOUS
    <3>1. PICK k \in Off : \A j \in Off : k <= j
      <4>1. Off \in SUBSET Nat
        BY <1>2
      <4> HIDE DEF Off
      <4> QED BY <4>1, LeastNumber
    <3>2. k \in 0..Len(s) /\ sum[k] \notin Vec
      OBVIOUS
    <3>3. k # 0
      BY <2>1, <3>2, VecType
    <3>4. k - 1 \in 0..Len(s) /\ ~(k <= k - 1) /\ k \in 1..Len(s)
      BY <1>2, <3>2, <3>3
    <3>5. sum[k - 1] \in Vec
      BY <3>1, <3>4
    <3>6. Fresh(s[k]) \in Vec
      BY <3>4, FreshType
    <3> QED BY <2>2, <3>2, <3>4, <3>5, <3>6, VecType
  <2> HIDE DEF Rec
  <2> QED BY <2>1, <2>2, <2>3, <2>4 DEF SumsTo
<1> HIDE DEF sum
<1> QED BY <1>5, <1>6

\* What sums to g is in flight.
LEMMA InFlightIs ==
  ASSUME NEW s \in Seq(Loads), NEW g, SumsTo(s, Len(s), g)
  PROVE  InFlight(s) = g[Len(s)]
<1>1. PICK h : SumsTo(s, Len(s), h) /\ InFlight(s) = h[Len(s)]
  BY InFlightIsSum
<1> QED BY <1>1, SumsAgree

LEMMA InFlightType ==
  ASSUME NEW s \in Seq(Loads)
  PROVE  InFlight(s) \in Vec
<1>1. PICK h : SumsTo(s, Len(s), h) /\ InFlight(s) = h[Len(s)]
  BY InFlightIsSum
<1>2. Len(s) \in 0..Len(s)
  OBVIOUS
<1> QED BY <1>1, <1>2 DEF SumsTo

LEMMA InFlightEmpty == InFlight(<<>>) = Zero
<1>1. <<>> \in Seq(Loads) /\ Len(<<>>) = 0
  OBVIOUS
<1>2. PICK h : SumsTo(<<>>, Len(<<>>), h) /\ InFlight(<<>>) = h[Len(<<>>)]
  BY <1>1, InFlightIsSum
<1> QED BY <1>1, <1>2 DEF SumsTo

LEMMA InFlightMore ==
  ASSUME NEW s \in Seq(Loads), NEW p \in Loads
  PROVE  InFlight(s \o <<p>>) = Plus(InFlight(s), Fresh(p))
<1> DEFINE r == s \o <<p>>
           n == Len(s)
<1>1. /\ r \in Seq(Loads) /\ Len(r) = n + 1 /\ n \in Nat
      /\ r[n + 1] = p /\ \A i \in 1..n : r[i] = s[i]
  OBVIOUS
<1>2. PICK h : SumsTo(s, n, h) /\ InFlight(s) = h[n]
  BY InFlightIsSum
<1> HIDE DEF r, n
<1> DEFINE last == Plus(h[n], Fresh(p))
           g == [i \in 0..(n + 1) |-> IF i = n + 1 THEN last ELSE h[i]]
<1>3. h \in [0..n -> Vec] /\ h[0] = Zero
  BY <1>2 DEF SumsTo
<1>4. last \in Vec
  BY <1>1, <1>3, VecType DEF Loads, Fresh
<1>5. g \in [0..(n + 1) -> Vec] /\ g[0] = Zero
  <2> HIDE DEF last
  <2>1. ASSUME NEW i \in 0..(n + 1) PROVE g[i] \in Vec
    BY <1>1, <1>3, <1>4
  <2> QED BY <1>1, <1>3, <2>1
<1>6. ASSUME NEW i \in 1..(n + 1) PROVE g[i] = Plus(g[i - 1], Fresh(r[i]))
  <2>1. CASE i = n + 1
    <3>1. g[i] = last /\ g[i - 1] = h[n]
      BY <1>1, <2>1
    <3> QED BY <1>1, <2>1, <3>1
  <2>2. CASE i # n + 1
    <3>1. g[i] = h[i] /\ g[i - 1] = h[i - 1] /\ i \in 1..n
      BY <1>1, <2>2
    <3> QED BY <1>1, <1>2, <3>1 DEF SumsTo
  <2> QED BY <2>1, <2>2
<1>7. g[n + 1] = last
  BY <1>1
<1> HIDE DEF g
<1>8. SumsTo(r, Len(r), g)
  BY <1>1, <1>5, <1>6 DEF SumsTo
<1>9. InFlight(r) = last
  BY <1>1, <1>7, <1>8, InFlightIs
<1> QED BY <1>2, <1>9 DEF r, n

\* A sequence that lacks one packet has what it brings less in flight.
LEMMA InFlightLess ==
  ASSUME NEW s \in Seq(Loads), NEW r \in Seq(Loads), NEW k \in 1..Len(s),
         Len(r) = Len(s) - 1,
         \A i \in 1..Len(r) : r[i] = IF i < k THEN s[i] ELSE s[i + 1]
  PROVE  InFlight(r) = Minus(InFlight(s), Fresh(s[k]))
<1> DEFINE n == Len(r)
           c == Fresh(s[k])
<1>1. n \in Nat /\ Len(s) = n + 1 /\ c \in Vec
  BY FreshType
<1>2. PICK h : SumsTo(s, n + 1, h) /\ InFlight(s) = h[n + 1]
  BY <1>1, InFlightIsSum
<1> DEFINE g == [i \in 0..n |-> IF i < k THEN h[i] ELSE Minus(h[i + 1], c)]
<1>3. h \in [0..(n + 1) -> Vec] /\ h[0] = Zero
  BY <1>2 DEF SumsTo
<1>4. \A i \in 1..(n + 1) : h[i] = Plus(h[i - 1], Fresh(s[i]))
  BY <1>2 DEF SumsTo
<1>6. \A i \in 1..(n + 1) : Fresh(s[i]) \in Vec
  BY <1>1, FreshType
<1>7. k \in 1..(n + 1) /\ \A i \in 1..n : r[i] = IF i < k THEN s[i] ELSE s[i + 1]
  BY <1>1
<1> HIDE DEF n, c
<1>8. g \in [0..n -> Vec] /\ g[0] = Zero
  <2>1. ASSUME NEW i \in 0..n PROVE g[i] \in Vec
    <3>1. i \in 0..(n + 1) /\ i + 1 \in 0..(n + 1)
      BY <1>1
    <3> QED BY <1>1, <1>3, <3>1, VecType
  <2>2. 0 \in 0..n /\ 0 < k
    BY <1>1, <1>7
  <2> QED BY <1>3, <2>1, <2>2
<1>9. ASSUME NEW i \in 1..n PROVE g[i] = Plus(g[i - 1], Fresh(r[i]))
  <2>1. i \in 1..(n + 1) /\ i + 1 \in 1..(n + 1) /\ i - 1 \in 0..n /\ i \in 0..n /\ i + 1 - 1 = i
    BY <1>1
  <2>2. /\ h[i] = Plus(h[i - 1], Fresh(s[i]))
        /\ h[i + 1] = Plus(h[i], Fresh(s[i + 1]))
    <3>1. h[i + 1] = Plus(h[i + 1 - 1], Fresh(s[i + 1]))
      BY <1>4, <2>1
    <3> QED BY <1>4, <2>1, <3>1
  <2>3. h[i - 1] \in Vec /\ h[i] \in Vec /\ h[i + 1] \in Vec
    BY <1>1, <1>3, <2>1
  <2>4. CASE i < k
    <3>1. g[i] = h[i] /\ g[i - 1] = h[i - 1]
      BY <1>7, <2>1, <2>4
    <3> QED BY <1>7, <2>2, <2>4, <3>1
  <2>5. CASE i = k
    <3>1. g[i] = Minus(h[i + 1], c) /\ g[i - 1] = h[i - 1] /\ c = Fresh(s[i])
      BY <1>7, <2>1, <2>5 DEF c
    <3> DEFINE u == h[i - 1]
               v == Fresh(s[i + 1])
    <3>2. u \in Vec /\ v \in Vec /\ h[i] = Plus(u, c) /\ h[i + 1] = Plus(h[i], v)
      BY <1>6, <2>1, <2>2, <2>3, <3>1
    <3> HIDE DEF u, v
    <3>3. Minus(Plus(Plus(u, c), v), c) = Plus(u, v)
      <4>1. Plus(u, c) \in Vec
        BY <1>1, <3>2, VecType
      <4>2. Minus(Plus(Plus(u, c), v), c) = Plus(Minus(Plus(u, c), c), v)
        BY <1>1, <3>2, <4>1, VecSwap
      <4> QED BY <1>1, <3>2, <4>2, VecBack
    <3>4. Fresh(r[i]) = v
      BY <1>7, <2>5 DEF v
    <3> QED BY <3>1, <3>2, <3>3, <3>4 DEF u
  <2>6. CASE i > k
    <3>1. g[i] = Minus(h[i + 1], c) /\ g[i - 1] = Minus(h[i], c)
      BY <1>7, <2>1, <2>6
    <3> DEFINE u == h[i]
               v == Fresh(s[i + 1])
    <3>2. u \in Vec /\ v \in Vec /\ h[i + 1] = Plus(u, v)
      BY <1>6, <2>1, <2>2, <2>3
    <3>3. Fresh(r[i]) = v
      BY <1>7, <2>6
    <3> HIDE DEF u, v
    <3>4. Minus(Plus(u, v), c) = Plus(Minus(u, c), v)
      BY <1>1, <3>2, VecSwap
    <3> QED BY <3>1, <3>2, <3>3, <3>4 DEF u
  <2> QED BY <1>7, <2>1, <2>4, <2>5, <2>6
<1>10. g[n] = Minus(h[n + 1], c)
  <2>1. CASE n < k
    <3>1. k = n + 1
      BY <1>1, <1>7, <2>1
    <3>2. g[n] = h[n]
      BY <1>1, <2>1
    <3>3. h[n + 1] = Plus(h[n], c) /\ h[n] \in Vec
      <4>1. n + 1 \in 1..(n + 1) /\ n + 1 - 1 = n /\ n \in 0..(n + 1)
        BY <1>1
      <4>2. h[n + 1] = Plus(h[n + 1 - 1], Fresh(s[n + 1]))
        BY <1>4, <4>1
      <4> QED BY <1>3, <3>1, <4>1, <4>2 DEF c
    <3> DEFINE u == h[n]
    <3>4. u \in Vec
      BY <3>3
    <3> HIDE DEF u
    <3>5. Minus(Plus(u, c), c) = u
      BY <1>1, <3>4, VecBack
    <3> QED BY <3>2, <3>3, <3>5 DEF u
  <2>2. CASE ~(n < k)
    BY <1>1, <2>2
  <2> QED BY <2>1, <2>2
<1> HIDE DEF g
<1>11. SumsTo(r, n, g)
  BY <1>8, <1>9 DEF SumsTo
<1>12. InFlight(r) = g[n]
  BY <1>11, InFlightIs DEF n
<1> QED BY <1>2, <1>10, <1>12 DEF c

-----------------------------------------------------------------------------
(* Motion is conserved.                                                      *)

\* What a place holds; a balance of vectors is one for every axis.
LEMMA Balance ==
  ASSUME NEW o \in Vec, NEW p \in Vec, NEW f \in Vec, NEW r \in Vec, NEW l \in Vec
  PROVE  o = Plus(Plus(p, f), Plus(r, l)) <=> \A a \in Axes : o[a] = p[a] + f[a] + r[a] + l[a]
<1>1. Plus(p, f) \in Vec /\ Plus(r, l) \in Vec
  BY VecType
<1>2. Plus(Plus(p, f), Plus(r, l)) \in Vec
  BY <1>1, VecType
<1>3. ASSUME NEW a \in Axes
      PROVE  Plus(Plus(p, f), Plus(r, l))[a] = p[a] + f[a] + r[a] + l[a]
  <2>1. /\ Plus(p, f)[a] = p[a] + f[a] /\ Plus(r, l)[a] = r[a] + l[a]
        /\ p[a] \in Int /\ f[a] \in Int /\ r[a] \in Int /\ l[a] \in Int
    BY VecAt
  <2>2. Plus(Plus(p, f), Plus(r, l))[a] = Plus(p, f)[a] + Plus(r, l)[a]
    BY <1>1, VecAt
  <2> QED BY <2>1, <2>2
<1>4. (\A a \in Axes : o[a] = p[a] + f[a] + r[a] + l[a])
        <=> (\A a \in Axes : o[a] = Plus(Plus(p, f), Plus(r, l))[a])
  BY <1>3
<1> QED BY <1>2, <1>4, SameVec

MotionInv ==
  NumberInv /\ frame \in Frames /\ owed \in Vec /\ doubled \in Vec /\ MotionConserved

LEMMA LoadsSent ==
  /\ Packets \subseteq Loads /\ NoPacket \in Loads /\ Sent \subseteq Loads
  /\ Fresh(NoPacket) = Zero /\ \A p \in Sent : Fresh(p) = p.counts
<1>1. Packets \subseteq Loads
  BY DEF Packets, Loads, Vec
<1>2. NoPacket \in Loads
  BY VecType DEF NoPacket, Loads, NoSequence, NoTime
<1>3. Sent \subseteq Packets /\ \A p \in Sent : ~p.again
  BY DEF Sent
<1>4. Fresh(NoPacket) = Zero
  BY DEF Fresh, NoPacket
<1> QED BY <1>1, <1>2, <1>3, <1>4 DEF Fresh

LEMMA MotionTypes ==
  ASSUME NumberInv, frame \in Frames
  PROVE  /\ link \in Seq(Loads)
         /\ Requeued \in Seq(Loads) /\ Len(Requeued) = Len(queue)
         /\ packed.counts \in Vec /\ frame.counts \in Vec
         /\ InFlight(link) \in Vec /\ InFlight(Requeued) \in Vec
<1>1. queue \in Seq(Events) /\ link \in Seq(Packets) /\ packed \in Frames
  BY DEF NumberInv, HalfTypes
<1>2. link \in Seq(Loads)
  BY <1>1, LoadsSent
<1>3. packed.counts \in Vec /\ frame.counts \in Vec
  BY <1>1 DEF Frames, Vec
<1>4. Requeued \in Seq(Loads) /\ Len(Requeued) = Len(queue)
  <2>1. DOMAIN queue = 1..Len(queue) /\ Len(queue) \in Nat
    BY <1>1
  <2>2. ASSUME NEW i \in 1..Len(queue)
        PROVE  (IF queue[i].kind = "packet" THEN queue[i].packet ELSE NoPacket) \in Loads
    <3>1. queue[i] \in Events
      BY <1>1
    <3> QED BY <3>1, EventType, LoadsSent
  <2> QED BY <2>1, <2>2 DEF Requeued
<1> QED BY <1>2, <1>3, <1>4, InFlightType

LEMMA InitMotion == Init => MotionInv
<1> SUFFICES ASSUME Init PROVE MotionInv
  OBVIOUS
<1>1. NumberInv
  BY InitNumber
<1>2. frame \in Frames /\ owed = Zero /\ doubled = Zero /\ packed.counts = Zero /\ frame.counts = Zero
  BY DEF Init, Empty, Frames, Zero
<1>3. link = <<>> /\ Requeued = <<>>
  BY DEF Init, Requeued
<1>4. Plus(owed, doubled) = Plus(Plus(Zero, Zero), Plus(Zero, Zero))
  <2> DEFINE z == Zero
  <2>1. z \in Vec /\ \A a \in Axes : z[a] = 0
    BY VecType
  <2> HIDE DEF z
  <2>2. \A a \in Axes : z[a] = z[a] + z[a] + z[a] + z[a]
    BY <2>1
  <2>3. z = Plus(Plus(z, z), Plus(z, z))
    BY <2>1, <2>2, Balance
  <2>4. Plus(z, z) = z
    <3>1. Plus(z, z) \in Vec /\ \A a \in Axes : Plus(z, z)[a] = z[a]
      BY <2>1, VecType
    <3> QED BY <2>1, <3>1, SameVec
  <2> QED BY <1>2, <2>3, <2>4 DEF z
<1>5. MotionConserved
  BY <1>2, <1>3, <1>4, InFlightEmpty DEF MotionConserved
<1> QED BY <1>1, <1>2, <1>5, VecType DEF MotionInv

\* A balance at every axis, after the step.
LEMMA Settled ==
  ASSUME NumberInv', frame' \in Frames, owed' \in Vec, doubled' \in Vec,
         link' \in Seq(Loads), Requeued' \in Seq(Loads),
         NEW r, r = InFlight(Requeued'), NEW l, l = InFlight(link'),
         \A a \in Axes :
           owed'[a] = packed'.counts[a] + frame'.counts[a] + r[a] + l[a] - doubled'[a]
  PROVE  MotionInv'
<1>1. packed'.counts \in Vec /\ frame'.counts \in Vec
  BY DEF NumberInv, HalfTypes, Frames, Vec
<1>2. r \in Vec /\ l \in Vec
  BY InFlightType
<1>3. ASSUME NEW u, u = owed', NEW v, v = doubled',
             NEW p, p = packed'.counts, NEW f, f = frame'.counts
      PROVE  Plus(u, v) = Plus(Plus(p, f), Plus(r, l))
  <2>1. u \in Vec /\ v \in Vec /\ p \in Vec /\ f \in Vec
    BY <1>1, <1>3
  <2>2. ASSUME NEW a \in Axes PROVE u[a] + v[a] = p[a] + f[a] + r[a] + l[a]
    <3>1. /\ u[a] \in Int /\ v[a] \in Int /\ p[a] \in Int /\ f[a] \in Int
          /\ r[a] \in Int /\ l[a] \in Int
      BY <1>2, <2>1 DEF Vec
    <3>2. u[a] = p[a] + f[a] + r[a] + l[a] - v[a]
      BY <1>3
    <3> QED BY <3>1, <3>2
  <2> DEFINE o == Plus(u, v)
             h == Plus(p, f)
             g == Plus(r, l)
             s == Plus(h, g)
  <2>3. o \in Vec /\ h \in Vec /\ g \in Vec
    BY <1>2, <2>1, VecType
  <2>4. s \in Vec
    <3> HIDE DEF h, g
    <3> QED BY <2>3, VecType
  <2>5. ASSUME NEW a \in Axes PROVE o[a] = s[a]
    <3>1. o[a] = u[a] + v[a] /\ h[a] = p[a] + f[a] /\ g[a] = r[a] + l[a]
      BY <1>2, <2>1, VecAt
    <3>2. s[a] = h[a] + g[a]
      <4> HIDE DEF h, g
      <4> QED BY <2>3, VecAt
    <3>3. p[a] \in Int /\ f[a] \in Int /\ r[a] \in Int /\ l[a] \in Int
      BY <1>2, <2>1 DEF Vec
    <3> HIDE DEF o, h, g, s
    <3> QED BY <2>2, <3>1, <3>2, <3>3
  <2> HIDE DEF o, s
  <2>6. o = s
    BY <2>3, <2>4, <2>5, SameVec
  <2> QED BY <2>6 DEF o, s
<1>4. MotionConserved'
  BY <1>3 DEF MotionConserved
<1> QED BY <1>4 DEF MotionInv

\* What the state before the step holds, axis by axis.
LEMMA Before ==
  ASSUME MotionInv, NEW a \in Axes
  PROVE  /\ owed[a] = packed.counts[a] + frame.counts[a] + InFlight(Requeued)[a]
                      + InFlight(link)[a] - doubled[a]
         /\ doubled[a] \in Int
         /\ packed.counts[a] \in Int /\ frame.counts[a] \in Int
         /\ InFlight(Requeued)[a] \in Int /\ InFlight(link)[a] \in Int
<1>1. /\ packed.counts \in Vec /\ frame.counts \in Vec
      /\ InFlight(link) \in Vec /\ InFlight(Requeued) \in Vec
      /\ owed \in Vec /\ doubled \in Vec
  BY MotionTypes DEF MotionInv
<1> DEFINE o == Plus(owed, doubled)
<1>2. o = Plus(Plus(packed.counts, frame.counts), Plus(InFlight(Requeued), InFlight(link)))
  BY DEF MotionInv, MotionConserved
<1>3. o \in Vec /\ o[a] = owed[a] + doubled[a] /\ owed[a] \in Int /\ doubled[a] \in Int
  BY <1>1, VecType DEF Vec
<1> HIDE DEF o
<1>4. \A b \in Axes : o[b] = packed.counts[b] + frame.counts[b] + InFlight(Requeued)[b] + InFlight(link)[b]
  <2> DEFINE p == packed.counts
             f == frame.counts
             g == InFlight(Requeued)
             h == InFlight(link)
  <2>1. /\ p \in Vec /\ f \in Vec /\ g \in Vec /\ h \in Vec
        /\ o = Plus(Plus(p, f), Plus(g, h))
    BY <1>1, <1>2
  <2> HIDE DEF p, f, g, h
  <2>2. \A b \in Axes : o[b] = p[b] + f[b] + g[b] + h[b]
    BY <1>3, <2>1, Balance
  <2> QED BY <2>2 DEF p, f, g, h
<1>5. /\ packed.counts[a] \in Int /\ frame.counts[a] \in Int
      /\ InFlight(Requeued)[a] \in Int /\ InFlight(link)[a] \in Int
  BY <1>1 DEF Vec
<1> QED BY <1>3, <1>4, <1>5

\* The head of a sequence leaves it.
LEMMA InFlightTail ==
  ASSUME NEW s \in Seq(Loads), s # <<>>
  PROVE  InFlight(Tail(s)) = Minus(InFlight(s), Fresh(s[1]))
<1>1. /\ 1 \in 1..Len(s) /\ Tail(s) \in Seq(Loads) /\ Len(Tail(s)) = Len(s) - 1
      /\ \A i \in 1..Len(Tail(s)) : Tail(s)[i] = s[i + 1] /\ ~(i < 1)
  OBVIOUS
<1> QED BY <1>1, InFlightLess

LEMMA SameMotion ==
  ASSUME MotionInv, NumberInv', UNCHANGED <<owed, doubled, packed, frame, link>>,
         \/ UNCHANGED queue
         \/ \E e \in SensorEvents : queue' = Append(queue, e)
  PROVE  MotionInv'
<1>1. /\ link \in Seq(Loads) /\ Requeued \in Seq(Loads) /\ Len(Requeued) = Len(queue)
      /\ frame \in Frames /\ owed \in Vec /\ doubled \in Vec
      /\ InFlight(Requeued) \in Vec
  BY MotionTypes DEF MotionInv
<1>2. Requeued' \in Seq(Loads) /\ InFlight(Requeued') = InFlight(Requeued)
  <2>1. CASE UNCHANGED queue
    <3>1. Requeued' = Requeued
      BY <2>1 DEF Requeued
    <3> QED BY <1>1, <3>1
  <2>2. CASE \E e \in SensorEvents : queue' = Append(queue, e)
    <3>1. PICK e \in SensorEvents : queue' = Append(queue, e)
      BY <2>2
    <3>2. e.kind # "packet"
      BY DEF SensorEvents, AxisEvent, SyncEvent
    <3>3. queue \in Seq(Events)
      BY DEF MotionInv, NumberInv, HalfTypes
    <3>4. Requeued' = Requeued \o <<NoPacket>>
      BY <3>1, <3>2, <3>3 DEF Requeued
    <3>5. InFlight(Requeued \o <<NoPacket>>) = Plus(InFlight(Requeued), Fresh(NoPacket))
      BY <1>1, LoadsSent, InFlightMore
    <3>6. Fresh(NoPacket) = Zero
      BY LoadsSent
    <3>7. Plus(InFlight(Requeued), Zero) = InFlight(Requeued)
      <4>1. Plus(InFlight(Requeued), Zero) \in Vec
        BY <1>1, VecType
      <4>2. ASSUME NEW a \in Axes PROVE Plus(InFlight(Requeued), Zero)[a] = InFlight(Requeued)[a]
        <5>1. Plus(InFlight(Requeued), Zero)[a] = InFlight(Requeued)[a] + Zero[a]
          BY <1>1, VecType
        <5>2. InFlight(Requeued)[a] \in Int /\ Zero[a] = 0
          BY <1>1, VecType DEF Vec
        <5> QED BY <5>1, <5>2
      <4> QED BY <1>1, <4>1, <4>2, SameVec
    <3>8. Requeued \o <<NoPacket>> \in Seq(Loads)
      BY <1>1, LoadsSent
    <3> QED BY <3>4, <3>5, <3>6, <3>7, <3>8
  <2> QED BY <2>1, <2>2
<1>3. MotionConserved'
  BY <1>2 DEF MotionInv, MotionConserved
<1> QED BY <1>1, <1>3 DEF MotionInv

\* What one axis event adds.
Arrived(e) == IF e.kind = "axis" THEN [Zero EXCEPT ![e.axis] = e.value] ELSE Zero

LEMMA ArrivedType ==
  ASSUME NEW e \in Events
  PROVE  Arrived(e) \in Vec
<1>1. CASE e.kind = "axis"
  <2>1. e.axis \in Axes /\ e.value \in Int
    BY <1>1, EventType
  <2>2. [Zero EXCEPT ![e.axis] = e.value] \in Vec
    BY <2>1, VecType DEF Vec
  <2> QED BY <1>1, <2>2 DEF Arrived
<1>2. CASE e.kind # "axis"
  BY <1>2, VecType DEF Arrived
<1> QED BY <1>1, <1>2

\* A frame gathers what arrives.
LEMMA AddedCounts ==
  ASSUME NEW g \in Frames, NEW e \in Events, NEW a \in Axes,
         NEW f, f = IF e.kind = "axis" THEN Added(g, e.axis, e.value) ELSE g
  PROVE  f \in Frames /\ f.counts[a] = g.counts[a] + Arrived(e)[a]
<1>1. g.counts \in [Axes -> Int] /\ g.counts[a] \in Int
  BY DEF Frames
<1>2. Zero[a] = 0 /\ Zero \in [Axes -> Int]
  BY VecType DEF Vec
<1>3. CASE e.kind = "axis"
  <2>1. e.axis \in Axes /\ e.value \in Int
    BY <1>3, EventType
  <2>2. f.counts = [g.counts EXCEPT ![e.axis] = @ + e.value]
    BY <1>3 DEF Added
  <2>3. Arrived(e) = [Zero EXCEPT ![e.axis] = e.value]
    BY <1>3 DEF Arrived
  <2>4. f \in Frames
    BY <1>3, <2>1, AddedType
  <2>5. CASE a = e.axis
    <3>1. f.counts[a] = g.counts[a] + e.value
      BY <1>1, <2>2, <2>5
    <3>2. Arrived(e)[a] = e.value
      BY <1>2, <2>3, <2>5
    <3> QED BY <2>4, <3>1, <3>2
  <2>6. CASE a # e.axis
    <3>1. f.counts[a] = g.counts[a]
      BY <1>1, <2>2, <2>6
    <3>2. Arrived(e)[a] = 0
      BY <1>2, <2>3, <2>6
    <3> QED BY <1>1, <2>4, <3>1, <3>2
  <2> QED BY <2>5, <2>6
<1>4. CASE e.kind # "axis"
  <2>1. f = g /\ Arrived(e) = Zero
    BY <1>4 DEF Arrived
  <2> QED BY <1>1, <1>2, <2>1
<1> QED BY <1>3, <1>4

LEMMA EventSync ==
  ASSUME NEW e \in Events
  PROVE  e.sync \in BOOLEAN
<1>1. CASE \E a \in Axes, v \in Values, s \in BOOLEAN : e = AxisEvent(a, v, s)
  <2>1. PICK a \in Axes, v \in Values, s \in BOOLEAN : e = AxisEvent(a, v, s)
    BY <1>1
  <2> QED BY <2>1 DEF AxisEvent
<1>2. CASE e = SyncEvent
  BY <1>2 DEF SyncEvent
<1>3. CASE \E p \in Sent : e = PacketEvent(p)
  BY <1>3 DEF PacketEvent
<1> QED BY <1>1, <1>2, <1>3 DEF Events, SensorEvents

LEMMA HandleMotion ==
  ASSUME MotionInv, NumberInv', queue # <<>>, NEW reported \in BOOLEAN,
         Handle(Head(queue), reported), UNCHANGED <<frame, doubled>>
  PROVE  MotionInv'
<1> DEFINE e == Head(queue)
           f == Holding(e)
           new == Packet(f)
           ready == e.sync /\ f.saw
           anew == ready /\ Fits(f.counts) /\ e.kind # "axis"
           fails == ready /\ (~Fits(f.counts) \/ (anew /\ ~reported))
           through == Fresh(Requeued[1])
           arrived == Arrived(e)
           dropped == IF fails THEN Plus(f.counts, through) ELSE Zero
<1>1. /\ queue \in Seq(Events) /\ e \in Events /\ packed \in Frames /\ NumberInv
      /\ frame \in Frames /\ owed \in Vec /\ doubled' \in Vec
      /\ link \in Seq(Loads) /\ Requeued \in Seq(Loads) /\ Len(Requeued) = Len(queue)
      /\ InFlight(Requeued) \in Vec /\ InFlight(link) \in Vec
  BY MotionTypes DEF MotionInv, NumberInv, HalfTypes
<1>2. f \in Frames /\ \A a \in Axes : f.counts[a] = packed.counts[a] + arrived[a]
  <2>1. f = IF e.kind = "axis" THEN Added(packed, e.axis, e.value) ELSE packed
    BY DEF Holding
  <2>2. f \in Frames
    BY <1>1, EventType, AddedType DEF Holding
  <2> HIDE DEF e, f, arrived
  <2>3. ASSUME NEW a \in Axes PROVE f.counts[a] = packed.counts[a] + Arrived(e)[a]
    BY <1>1, <2>1, AddedCounts
  <2> QED BY <2>2, <2>3 DEF arrived
<1>3. new \in Loads /\ Fresh(new) = f.counts
  <2>1. new.counts = f.counts
    BY DEF Packet
  <2> HIDE DEF f
  <2> QED BY <1>1, <1>2, <2>1, PacketType, LoadsSent
<1>4. arrived \in Vec /\ f.counts \in Vec
  BY <1>1, <1>2, ArrivedType DEF Frames, Vec
<1>5. /\ through \in Vec
      /\ e.kind = "packet" =>
           e.packet \in Loads /\ Fresh(e.packet) = through /\ e.packet.counts = through
      /\ e.kind # "packet" => through = Zero
  <2>1. 1 \in 1..Len(Requeued) /\ e = queue[1] /\ 1 \in DOMAIN queue
    BY <1>1
  <2>2. Requeued[1] = IF e.kind = "packet" THEN e.packet ELSE NoPacket
    BY <2>1 DEF Requeued
  <2>3. Fresh(NoPacket) = Zero
    BY LoadsSent
  <2>4. e.kind = "packet" => e.packet \in Loads /\ Fresh(e.packet) = e.packet.counts
    BY <1>1, EventType, LoadsSent
  <2>5. through \in Vec
    BY <1>1, <2>1, FreshType
  <2> QED BY <2>2, <2>3, <2>4, <2>5
<1>6. /\ reported => anew
      /\ packed' = IF ready THEN Empty ELSE f
      /\ queue' = Tail(queue) \o (IF reported THEN <<PacketEvent(new)>> ELSE <<>>)
      /\ link' = link \o (IF ready /\ ~fails /\ ~anew THEN <<new>>
                          ELSE IF e.kind = "packet" /\ ~fails THEN <<e.packet>> ELSE <<>>)
  BY DEF Handle
<1>7. owed' = Minus(Plus(owed, arrived), dropped)
  <2>1. owed' = Minus(Plus(owed, arrived),
                      IF ~fails THEN Zero
                      ELSE Plus(f.counts, IF e.kind = "packet" THEN e.packet.counts ELSE Zero))
    BY DEF Handle, Arrived
  <2> HIDE DEF arrived, through, fails, e, f
  <2>2. through = IF e.kind = "packet" THEN e.packet.counts ELSE Zero
    BY <1>5
  <2> QED BY <2>1, <2>2 DEF dropped
<1>8. PICK r : /\ r = InFlight(Requeued') /\ Requeued' \in Seq(Loads) /\ r \in Vec
               /\ \A a \in Axes : r[a] = InFlight(Requeued)[a] - through[a]
                                         + (IF reported THEN f.counts[a] ELSE 0)
  <2>1. Requeued # <<>> /\ Tail(Requeued) \in Seq(Loads)
    BY <1>1
  <2>2. InFlight(Tail(Requeued)) = Minus(InFlight(Requeued), through)
    BY <1>1, <2>1, InFlightTail
  <2> DEFINE rest == Tail(Requeued)
             restCounts == InFlight(rest)
  <2>3. restCounts \in Vec /\ \A a \in Axes : restCounts[a] = InFlight(Requeued)[a] - through[a]
    BY <1>1, <1>5, <2>2, VecType
  <2>4. CASE reported
    <3>1. Requeued' = rest \o <<new>>
      <4> DEFINE ev == PacketEvent(new)
      <4>1. ev.kind = "packet" /\ ev.packet = new
        BY DEF PacketEvent
      <4>2. queue' = Tail(queue) \o <<ev>>
        BY <1>6, <2>4
      <4> HIDE DEF ev, new
      <4>3. /\ DOMAIN queue' = 1..Len(queue) /\ Len(queue) \in Nat /\ Len(queue) > 0
            /\ \A i \in 1..(Len(queue) - 1) : queue'[i] = queue[i + 1] /\ i + 1 \in DOMAIN queue
            /\ queue'[Len(queue)] = ev
        BY <1>1, <4>2
      <4>4. /\ rest \o <<new>> = [i \in 1..Len(queue) |-> (rest \o <<new>>)[i]]
            /\ \A i \in 1..(Len(queue) - 1) : (rest \o <<new>>)[i] = Requeued[i + 1]
            /\ (rest \o <<new>>)[Len(queue)] = new
        BY <1>1, <1>3, <2>1
      <4>5. ASSUME NEW i \in 1..Len(queue)
            PROVE  (IF queue'[i].kind = "packet" THEN queue'[i].packet ELSE NoPacket)
                     = (rest \o <<new>>)[i]
        <5>1. CASE i = Len(queue)
          BY <4>1, <4>3, <4>4, <5>1
        <5>2. CASE i # Len(queue)
          <6>1. i \in 1..(Len(queue) - 1)
            BY <1>1, <5>2
          <6>2. Requeued[i + 1] = IF queue[i + 1].kind = "packet" THEN queue[i + 1].packet ELSE NoPacket
            BY <4>3, <6>1 DEF Requeued
          <6> QED BY <4>3, <4>4, <6>1, <6>2
        <5> QED BY <5>1, <5>2
      <4>6. Requeued' = [i \in 1..Len(queue) |-> IF queue'[i].kind = "packet" THEN queue'[i].packet ELSE NoPacket]
        BY <4>3 DEF Requeued
      <4> HIDE DEF rest
      <4> QED BY <4>4, <4>5, <4>6
    <3> HIDE DEF rest, new, f
    <3>2. rest \o <<new>> \in Seq(Loads)
      BY <1>3, <2>1 DEF rest
    <3>3. InFlight(rest \o <<new>>) = Plus(restCounts, f.counts)
      BY <1>3, <2>1, InFlightMore DEF rest
    <3> HIDE DEF restCounts
    <3>4. Plus(restCounts, f.counts) \in Vec
      BY <1>4, <2>3, VecType
    <3>5. \A a \in Axes : Plus(restCounts, f.counts)[a] = restCounts[a] + f.counts[a]
      BY <1>4, <2>3, VecType
    <3>6. \A a \in Axes : Plus(restCounts, f.counts)[a]
                            = InFlight(Requeued)[a] - through[a] + (IF reported THEN f.counts[a] ELSE 0)
      BY <2>3, <2>4, <3>5
    <3> HIDE DEF through
    <3> QED BY <3>1, <3>2, <3>3, <3>4, <3>6
  <2>5. CASE ~reported
    <3>1. Requeued' = rest
      <4>1. queue' = Tail(queue)
        BY <1>1, <1>6, <2>5
      <4> QED BY <1>1, <2>1, <4>1 DEF Requeued
    <3>2. ASSUME NEW a \in Axes
          PROVE  restCounts[a] = InFlight(Requeued)[a] - through[a] + (IF reported THEN f.counts[a] ELSE 0)
      <4> HIDE DEF through, restCounts
      <4>1. InFlight(Requeued)[a] \in Int /\ through[a] \in Int
        BY <1>1, <1>5 DEF Vec
      <4> QED BY <2>3, <2>5, <4>1
    <3> HIDE DEF through
    <3>3. Requeued' \in Seq(Loads)
      BY <2>1, <3>1
    <3> QED BY <2>3, <3>1, <3>2, <3>3
  <2> QED BY <2>4, <2>5
<1> DEFINE sent == IF ready /\ ~fails /\ ~anew THEN f.counts
                   ELSE IF ~fails THEN through ELSE Zero
<1>9. PICK l : /\ l = InFlight(link') /\ link' \in Seq(Loads) /\ l \in Vec
               /\ \A a \in Axes : l[a] = InFlight(link)[a] + sent[a]
  <2>1. sent \in Vec
    BY <1>4, <1>5, VecType
  <2>2. ASSUME NEW p \in Loads, Fresh(p) = sent, link' = link \o <<p>>
        PROVE  /\ InFlight(link') \in Vec /\ link' \in Seq(Loads)
               /\ \A a \in Axes : InFlight(link')[a] = InFlight(link)[a] + sent[a]
    <3> HIDE DEF sent
    <3>1. InFlight(link \o <<p>>) = Plus(InFlight(link), sent)
      BY <1>1, <2>2, InFlightMore
    <3>2. link \o <<p>> \in Seq(Loads)
      BY <1>1, <2>2
    <3>3. Plus(InFlight(link), sent) \in Vec
          /\ \A a \in Axes : Plus(InFlight(link), sent)[a] = InFlight(link)[a] + sent[a]
      BY <1>1, <2>1, VecType
    <3> QED BY <2>2, <3>1, <3>2, <3>3
  <2>3. CASE ready /\ ~fails /\ ~anew
    <3>1. link' = link \o <<new>> /\ sent = f.counts
      BY <1>6, <2>3
    <3> HIDE DEF sent, new, f
    <3> QED BY <1>3, <2>2, <3>1
  <2>4. CASE ~(ready /\ ~fails /\ ~anew) /\ e.kind = "packet" /\ ~fails
    <3>1. link' = link \o <<e.packet>> /\ sent = through
      BY <1>6, <2>4
    <3>2. e.packet \in Loads /\ Fresh(e.packet) = through
      BY <1>5, <2>4
    <3> HIDE DEF sent, through, e
    <3> QED BY <2>2, <3>1, <3>2
  <2>5. CASE ~(ready /\ ~fails /\ ~anew) /\ ~(e.kind = "packet" /\ ~fails)
    <3>1. link' = link \o <<>> /\ sent = Zero
      BY <1>5, <1>6, <2>5
    <3> HIDE DEF sent
    <3>2. link' = link
      BY <1>1, <3>1
    <3>3. \A a \in Axes : InFlight(link)[a] \in Int /\ sent[a] = 0
      BY <1>1, <3>1, VecType DEF Vec
    <3> QED BY <1>1, <3>2, <3>3
  <2> QED BY <2>3, <2>4, <2>5
<1>10. dropped \in Vec /\ \A a \in Axes : dropped[a] = IF fails THEN f.counts[a] + through[a] ELSE 0
  <2>1. CASE fails
    <3>1. dropped = Plus(f.counts, through)
      BY <2>1
    <3> HIDE DEF dropped, through, f, fails
    <3> QED BY <1>4, <1>5, <2>1, <3>1, VecType
  <2>2. CASE ~fails
    <3>1. dropped = Zero
      BY <2>2
    <3> HIDE DEF dropped, fails
    <3> QED BY <2>2, <3>1, VecType
  <2> QED BY <2>1, <2>2
<1>11. owed' \in Vec /\ \A a \in Axes : owed'[a] = owed[a] + arrived[a] - dropped[a]
  <2> HIDE DEF arrived, dropped
  <2>1. Plus(owed, arrived) \in Vec /\ \A a \in Axes : Plus(owed, arrived)[a] = owed[a] + arrived[a]
    BY <1>1, <1>4, VecType
  <2>2. /\ Minus(Plus(owed, arrived), dropped) \in Vec
        /\ \A a \in Axes : Minus(Plus(owed, arrived), dropped)[a] = Plus(owed, arrived)[a] - dropped[a]
    BY <1>10, <2>1, VecType
  <2>3. owed' \in Vec
    BY <1>7, <2>2
  <2>4. ASSUME NEW a \in Axes PROVE owed'[a] = owed[a] + arrived[a] - dropped[a]
    <3>1. owed'[a] = Minus(Plus(owed, arrived), dropped)[a]
      BY <1>7
    <3>2. Minus(Plus(owed, arrived), dropped)[a] = Plus(owed, arrived)[a] - dropped[a]
      BY <2>2
    <3>3. Plus(owed, arrived)[a] = owed[a] + arrived[a]
      BY <2>1
    <3>4. owed[a] \in Int /\ arrived[a] \in Int /\ dropped[a] \in Int
      BY <1>1, <1>4, <1>10 DEF Vec
    <3> QED BY <3>1, <3>2, <3>3, <3>4
  <2> QED BY <2>3, <2>4
<1>12. /\ ready => packed'.counts = Zero
       /\ ~ready => packed'.counts = f.counts
  BY <1>6 DEF Empty
<1>13. ASSUME NEW a \in Axes
       PROVE  owed'[a] = packed'.counts[a] + frame'.counts[a] + r[a] + l[a] - doubled'[a]
  <2>1. /\ owed[a] = packed.counts[a] + frame.counts[a] + InFlight(Requeued)[a]
                     + InFlight(link)[a] - doubled[a]
        /\ doubled[a] \in Int
        /\ packed.counts[a] \in Int /\ frame.counts[a] \in Int
        /\ InFlight(Requeued)[a] \in Int /\ InFlight(link)[a] \in Int
    BY Before
  <2>2. arrived[a] \in Int /\ f.counts[a] \in Int /\ through[a] \in Int /\ Zero[a] = 0
    BY <1>4, <1>5, VecType DEF Vec
  <2>3. packed'.counts[a] = IF ready THEN 0 ELSE f.counts[a]
    BY <1>12, <2>2
  <2>4. e.kind # "packet" => through[a] = 0
    BY <1>5, <2>2
  <2>5. sent[a] = IF ready /\ ~fails /\ ~anew THEN f.counts[a]
                  ELSE IF ~fails THEN through[a] ELSE 0
    BY <2>2
  <2>6. /\ f.counts[a] = packed.counts[a] + arrived[a]
        /\ r[a] = InFlight(Requeued)[a] - through[a] + (IF reported THEN f.counts[a] ELSE 0)
        /\ l[a] = InFlight(link)[a] + sent[a]
        /\ owed'[a] = owed[a] + arrived[a] - dropped[a]
        /\ dropped[a] = IF fails THEN f.counts[a] + through[a] ELSE 0
        /\ frame' = frame
    BY <1>2, <1>8, <1>9, <1>10, <1>11
  <2>7. /\ reported => anew
        /\ anew => ready
        /\ reported => ~fails
        /\ anew /\ ~reported => fails
        /\ ready /\ ~fails /\ ~anew => through[a] = 0
    <3>1. ready /\ ~fails /\ ~anew => e.kind = "axis"
      OBVIOUS
    <3>2. e.kind = "axis" => e.kind # "packet"
      OBVIOUS
    <3>3. reported => anew
      BY <1>6
    <3> HIDE DEF through, e, f
    <3> QED BY <2>4, <3>1, <3>2, <3>3
  <2> DEFINE P == packed.counts[a]
             G == frame.counts[a]
             R == InFlight(Requeued)[a]
             L == InFlight(link)[a]
             A == arrived[a]
             T == through[a]
             D == doubled[a]
  <2>8. P \in Int /\ G \in Int /\ R \in Int /\ L \in Int /\ A \in Int /\ T \in Int /\ D \in Int
    BY <2>1, <2>2
  <2>9. /\ ready \in BOOLEAN /\ fails \in BOOLEAN /\ anew \in BOOLEAN
        /\ fails => ready
    <3>1. e.sync \in BOOLEAN /\ f.saw \in BOOLEAN
      <4>1. e.sync \in BOOLEAN
        BY <1>1, EventSync
      <4> QED BY <1>2, <4>1 DEF Frames
    <3>2. Fits(f.counts) \in BOOLEAN
      BY DEF Fits
    <3> HIDE DEF e, f
    <3> QED BY <3>1, <3>2
  <2>10. /\ owed[a] = P + G + R + L - D /\ doubled'[a] = D /\ f.counts[a] = P + A /\ frame'.counts[a] = G
         /\ owed'[a] = owed[a] + A - (IF fails THEN P + A + T ELSE 0)
         /\ packed'.counts[a] = IF ready THEN 0 ELSE P + A
         /\ r[a] = R - T + (IF reported THEN P + A ELSE 0)
         /\ l[a] = L + (IF ready /\ ~fails /\ ~anew THEN P + A ELSE IF ~fails THEN T ELSE 0)
    <3> HIDE DEF e, f, ready, anew, fails, through, arrived, dropped, sent
    <3> QED BY <2>1, <2>3, <2>5, <2>6
  <2> HIDE DEF e, f, ready, anew, fails, through, arrived, dropped, sent, P, G, R, L, A, T, D
  <2>11. ready /\ ~fails /\ ~anew => T = 0
    BY <2>7 DEF T
  <2>12. CASE ~ready
    <3>1. ~fails /\ ~reported
      BY <2>7, <2>9, <2>12
    <3>2. /\ owed'[a] = P + G + R + L + A - D /\ doubled'[a] = D
          /\ packed'.counts[a] = P + A /\ frame'.counts[a] = G
          /\ r[a] = R - T /\ l[a] = L + T
      BY <2>8, <2>10, <2>12, <3>1
    <3> QED BY <2>8, <3>2
  <2>13. CASE ready /\ fails
    <3>1. ~reported
      BY <2>7, <2>13
    <3>2. /\ owed'[a] = P + G + R + L + A - (P + A + T) - D /\ doubled'[a] = D
          /\ packed'.counts[a] = 0 /\ frame'.counts[a] = G
          /\ r[a] = R - T /\ l[a] = L
      BY <2>8, <2>10, <2>13, <3>1
    <3> QED BY <2>8, <3>2
  <2>14. CASE ready /\ ~fails /\ anew
    <3>1. reported
      BY <2>7, <2>14
    <3>2. /\ owed'[a] = P + G + R + L + A - D /\ doubled'[a] = D
          /\ packed'.counts[a] = 0 /\ frame'.counts[a] = G
          /\ r[a] = R - T + (P + A) /\ l[a] = L + T
      BY <2>8, <2>10, <2>14, <3>1
    <3> QED BY <2>8, <3>2
  <2>15. CASE ready /\ ~fails /\ ~anew
    <3>1. ~reported /\ T = 0
      BY <2>7, <2>11, <2>15
    <3>2. /\ owed'[a] = P + G + R + L + A - D /\ doubled'[a] = D
          /\ packed'.counts[a] = 0 /\ frame'.counts[a] = G
          /\ r[a] = R - T /\ l[a] = L + (P + A)
      BY <2>8, <2>10, <2>15, <3>1
    <3> QED BY <2>8, <3>1, <3>2
  <2> QED BY <2>12, <2>13, <2>14, <2>15
<1> HIDE DEF e, f, new, ready, anew, fails, through, arrived, dropped, sent
<1> QED BY <1>1, <1>8, <1>9, <1>11, <1>13, Settled

LEMMA LoseMotion == ASSUME MotionInv, NumberInv', Lose PROVE MotionInv'
<1>1. PICK i \in DOMAIN link : link' = RemoveAt(link, i) /\ owed' = Minus(owed, Fresh(link[i]))
  BY DEF Lose
<1>2. UNCHANGED <<queue, packed, frame, doubled>>
  BY DEF Lose, half, source
<1>3. /\ link \in Seq(Loads) /\ Requeued \in Seq(Loads)
      /\ frame \in Frames /\ owed \in Vec /\ doubled \in Vec
      /\ InFlight(link) \in Vec /\ InFlight(Requeued) \in Vec
  BY MotionTypes DEF MotionInv
<1>4. i \in 1..Len(link) /\ Fresh(link[i]) \in Vec
  BY <1>3, FreshType
<1>5. /\ link' \in Seq(Loads) /\ Len(link') = Len(link) - 1
      /\ \A j \in 1..Len(link') : link'[j] = IF j < i THEN link[j] ELSE link[j + 1]
  <2> DEFINE u == SubSeq(link, 1, i - 1)
             v == SubSeq(link, i + 1, Len(link))
  <2>1. Len(link) \in Nat /\ i \in Nat /\ i <= Len(link) /\ i >= 1
    BY <1>3, <1>4
  <2>2. /\ u \in Seq(Loads) /\ Len(u) = i - 1
        /\ \A j \in 1..(i - 1) : u[j] = link[j]
    BY <1>3, <2>1
  <2>3. /\ v \in Seq(Loads) /\ Len(v) = Len(link) - i
        /\ \A j \in 1..(Len(link) - i) : v[j] = link[j + i]
    BY <1>3, <2>1
  <2>4. link' = u \o v
    BY <1>1 DEF RemoveAt
  <2> HIDE DEF u, v
  <2>5. link' \in Seq(Loads) /\ Len(link') = Len(link) - 1
    BY <2>1, <2>2, <2>3, <2>4
  <2>6. ASSUME NEW j \in 1..Len(link')
        PROVE  link'[j] = IF j < i THEN link[j] ELSE link[j + 1]
    <3>1. CASE j < i
      <4>1. j \in 1..(i - 1) /\ link'[j] = u[j]
        BY <2>1, <2>2, <2>3, <2>4, <2>5, <3>1
      <4> QED BY <2>2, <3>1, <4>1
    <3>2. CASE ~(j < i)
      <4>1. j \in Nat /\ j >= i /\ j <= Len(link) - 1
        BY <2>1, <2>5, <3>2
      <4>2. j > Len(u) /\ j \in 1..(Len(u) + Len(v))
        BY <2>1, <2>2, <2>3, <4>1
      <4>3. link'[j] = v[j - Len(u)]
        BY <2>2, <2>3, <2>4, <4>2
      <4>4. j - (i - 1) \in 1..(Len(link) - i) /\ link'[j] = v[j - (i - 1)]
        BY <2>1, <2>2, <4>1, <4>3
      <4>5. j - (i - 1) + i = j + 1
        BY <2>1, <2>5
      <4> QED BY <2>3, <3>2, <4>4, <4>5
    <3> QED BY <3>1, <3>2
  <2> QED BY <2>5, <2>6
<1>6. InFlight(link') = Minus(InFlight(link), Fresh(link[i]))
  BY <1>3, <1>4, <1>5, InFlightLess
<1>7. Requeued' = Requeued
  BY <1>2 DEF Requeued
<1> DEFINE c == Fresh(link[i])
           r == InFlight(Requeued)
           l == Minus(InFlight(link), c)
<1>8. owed' \in Vec
  BY <1>1, <1>3, <1>4, VecType
<1>9. ASSUME NEW a \in Axes
      PROVE  owed'[a] = packed'.counts[a] + frame'.counts[a] + r[a] + l[a] - doubled'[a]
  <2>1. /\ owed[a] = packed.counts[a] + frame.counts[a] + InFlight(Requeued)[a]
                     + InFlight(link)[a] - doubled[a]
        /\ doubled[a] \in Int
        /\ packed.counts[a] \in Int /\ frame.counts[a] \in Int
        /\ InFlight(Requeued)[a] \in Int /\ InFlight(link)[a] \in Int
    BY Before
  <2>2. owed'[a] = owed[a] - c[a] /\ c[a] \in Int
    BY <1>1, <1>3, <1>4, VecAt
  <2>3. l[a] = InFlight(link)[a] - c[a]
    BY <1>3, <1>4, VecAt
  <2> HIDE DEF c, l
  <2> QED BY <1>2, <2>1, <2>2, <2>3
<1>10. r = InFlight(Requeued') /\ l = InFlight(link')
  BY <1>6, <1>7
<1>11. frame' \in Frames /\ doubled' \in Vec /\ Requeued' \in Seq(Loads)
  BY <1>2, <1>3, <1>7
<1> HIDE DEF r, l
<1> QED BY <1>5, <1>8, <1>9, <1>10, <1>11, Settled

LEMMA LocalMotion == ASSUME MotionInv, NumberInv', Local PROVE MotionInv'
<1>1. PICK e \in SensorEvents : Complete(e) \/ Gather(e)
  BY DEF Local
<1>2. UNCHANGED <<queue, packed, link, doubled>>
  BY DEF Local, half
<1>3. /\ link \in Seq(Loads) /\ Requeued \in Seq(Loads)
      /\ frame \in Frames /\ owed \in Vec /\ doubled \in Vec /\ frame.counts \in Vec
      /\ InFlight(link) \in Vec /\ InFlight(Requeued) \in Vec
  BY MotionTypes DEF MotionInv
<1> DEFINE g == Gathered(e)
           m == Minus(g.counts, frame.counts)
           r == InFlight(Requeued)
           l == InFlight(link)
<1>4. g \in Frames /\ g.counts \in Vec
  <2>1. e \in Events
    BY DEF Events
  <2>2. g \in Frames
    BY <1>3, <2>1, EventType, AddedType DEF Gathered
  <2> HIDE DEF g
  <2> QED BY <2>2 DEF Frames, Vec
<1>5. m \in Vec /\ \A a \in Axes : m[a] = g.counts[a] - frame.counts[a]
  <2> HIDE DEF g
  <2> QED BY <1>3, <1>4, VecType
<1>6. \/ owed' = Minus(Plus(owed, m), g.counts) /\ frame' = Empty
      \/ owed' = Plus(owed, m) /\ frame' = g
  BY <1>1 DEF Complete, Gather, Moved, Take
<1>7. Plus(owed, m) \in Vec
  <2> HIDE DEF m
  <2> QED BY <1>3, <1>5, VecType
<1>8. Requeued' = Requeued
  BY <1>2 DEF Requeued
<1> HIDE DEF g, m
<1>9. Minus(Plus(owed, m), g.counts) \in Vec
  BY <1>4, <1>7, VecType
<1>10. owed' \in Vec
  BY <1>6, <1>7, <1>9
<1>11. frame' \in Frames /\ doubled' \in Vec
  <2>1. Empty \in Frames
    BY DEF Empty, Frames, Zero
  <2> QED BY <1>2, <1>3, <1>4, <1>6, <2>1
<1>12. ASSUME NEW a \in Axes
       PROVE  owed'[a] = packed'.counts[a] + frame'.counts[a] + r[a] + l[a] - doubled'[a]
  <2>1. /\ owed[a] = packed.counts[a] + frame.counts[a] + r[a] + l[a] - doubled[a]
        /\ doubled[a] \in Int
        /\ packed.counts[a] \in Int /\ frame.counts[a] \in Int
        /\ r[a] \in Int /\ l[a] \in Int
    BY Before
  <2> HIDE DEF r, l
  <2>2. g.counts[a] \in Int /\ m[a] \in Int /\ owed[a] \in Int
    BY <1>3, <1>4, <1>5 DEF Vec
  <2>3. Plus(owed, m)[a] = owed[a] + m[a]
    BY <1>3, <1>5, VecAt
  <2>4. m[a] = g.counts[a] - frame.counts[a]
    BY <1>5
  <2>5. CASE owed' = Minus(Plus(owed, m), g.counts) /\ frame' = Empty
    <3>1. frame'.counts[a] = 0
      BY <2>5, VecType DEF Empty
    <3>2. Minus(Plus(owed, m), g.counts)[a] = Plus(owed, m)[a] - g.counts[a]
      BY <1>4, <1>7, VecAt
    <3>3. owed'[a] = owed[a] + m[a] - g.counts[a]
      BY <2>2, <2>3, <2>5, <3>2
    <3> QED BY <1>2, <2>1, <2>2, <2>4, <3>1, <3>3
  <2>6. CASE owed' = Plus(owed, m) /\ frame' = g
    BY <1>2, <2>1, <2>2, <2>3, <2>4, <2>6
  <2> QED BY <1>6, <2>5, <2>6
<1>13. r = InFlight(Requeued') /\ l = InFlight(link')
  BY <1>2, <1>8
<1>14. link' \in Seq(Loads) /\ Requeued' \in Seq(Loads)
  BY <1>2, <1>3, <1>8
<1> HIDE DEF r, l
<1> QED BY <1>10, <1>11, <1>12, <1>13, <1>14, Settled

LEMMA DeliverMotion == ASSUME MotionInv, NumberInv', Deliver PROVE MotionInv'
<1>1. PICK again \in BOOLEAN : Unpack(Head(link), again)
  BY DEF Deliver
<1>2. UNCHANGED <<queue, packed>> /\ link # <<>>
  BY DEF Deliver, half
<1>3. /\ link \in Seq(Loads) /\ Requeued \in Seq(Loads)
      /\ frame \in Frames /\ owed \in Vec /\ doubled \in Vec /\ frame.counts \in Vec
      /\ InFlight(link) \in Vec /\ InFlight(Requeued) \in Vec
  BY MotionTypes DEF MotionInv
<1> DEFINE p == Head(link)
           q == [p EXCEPT !.again = TRUE]
           c == p.counts
           b == Fresh(p)
           f == Plus(frame.counts, c)
           r == InFlight(Requeued)
           l == InFlight(link')
<1>4. p = link[1] /\ p \in Packets /\ c \in Vec /\ b \in Vec /\ Tail(link) \in Seq(Loads)
  <2>1. 1 \in 1..Len(link) /\ link \in Seq(Packets)
    BY <1>2, <1>3 DEF MotionInv, NumberInv, HalfTypes
  <2>2. p = link[1] /\ p \in Packets /\ Tail(link) \in Seq(Loads)
    BY <1>2, <1>3, <2>1
  <2> HIDE DEF p
  <2> QED BY <2>2, VecType DEF Packets, Fresh, Vec
<1>5. /\ owed' = Minus(owed, f) /\ frame' = Empty
      /\ link' = (IF again THEN <<q>> ELSE <<>>) \o Tail(link)
      /\ doubled' = IF p.again /\ Gap(p) THEN Plus(doubled, c) ELSE doubled
  BY <1>1 DEF Unpack, Take
<1>6. Requeued' = Requeued
  BY <1>2 DEF Requeued
\* A repetition is decoded with the gap flag.
<1>7. p.again => Gap(p)
  <2> SUFFICES ASSUME p.again PROVE Gap(p)
    OBVIOUS
  <2>1. decoder.saw /\ p.wire = decoder.wire /\ p.wire \in Int
    <3>1. 1 \in DOMAIN link
      BY <1>2, <1>3
    <3> HIDE DEF p
    <3>2. p.wire \in Int
      BY <1>4 DEF Packets
    <3> QED BY <1>4, <3>1, <3>2 DEF MotionInv, NumberInv, Repeated
  <2> HIDE DEF p
  <2>2. p.wire - decoder.wire = 0
    BY <2>1
  <2>3. 0 % Modulus = 0
    <3>1. 0 \in 0..(Modulus - 1)
      BY CodecAssumption
    <3> QED BY <3>1, SmallRemainder, CodecAssumption
  <2> QED BY <2>1, <2>2, <2>3 DEF Gap, Delta
\* The link is relieved of what the packet brought for the first time.
<1>8. link' \in Seq(Loads) /\ l = Minus(InFlight(link), b)
  <2>1. InFlight(Tail(link)) = Minus(InFlight(link), b)
    BY <1>2, <1>3, <1>4, InFlightTail
  <2>2. q \in Loads /\ Fresh(q) = Zero
    <3>1. q \in Packets /\ q.again
      BY <1>4 DEF Packets
    <3> QED BY <3>1, LoadsSent DEF Fresh
  <2> HIDE DEF p, q, b
  <2>3. CASE again
    <3>1. link' = <<q>> \o Tail(link)
      BY <1>5, <2>3
    <3>2. link' \in Seq(Loads) /\ Len(link') = Len(Tail(link)) + 1 /\ 1 \in 1..Len(link')
          /\ link'[1] = q
          /\ \A i \in 1..Len(Tail(link)) : Tail(link)[i] = IF i < 1 THEN link'[i] ELSE link'[i + 1]
      BY <1>4, <2>2, <3>1
    <3>3. InFlight(Tail(link)) = Minus(l, Fresh(q))
      <4> DEFINE m == link'
      <4>1. m \in Seq(Loads) /\ Len(Tail(link)) = Len(m) - 1 /\ 1 \in 1..Len(m) /\ m[1] = q
            /\ \A i \in 1..Len(Tail(link)) : Tail(link)[i] = IF i < 1 THEN m[i] ELSE m[i + 1]
        BY <1>4, <3>2
      <4> HIDE DEF m
      <4>2. InFlight(Tail(link)) = Minus(InFlight(m), Fresh(m[1]))
        BY <1>4, <4>1, InFlightLess
      <4> QED BY <4>1, <4>2 DEF m
    <3>4. l \in Vec
      BY <3>2, InFlightType
    <3> HIDE DEF l
    <3>5. Minus(l, Zero) = l
      <4>1. Minus(l, Zero) \in Vec /\ \A a \in Axes : Minus(l, Zero)[a] = l[a] - Zero[a]
        BY <3>4, VecType
      <4>2. \A a \in Axes : l[a] \in Int /\ Zero[a] = 0
        BY <3>4, VecType DEF Vec
      <4> QED BY <3>4, <4>1, <4>2, SameVec
    <3> QED BY <2>1, <2>2, <3>2, <3>3, <3>5
  <2>4. CASE ~again
    <3>1. link' = Tail(link)
      BY <1>4, <1>5, <2>4
    <3> QED BY <1>4, <2>1, <3>1
  <2> QED BY <2>3, <2>4
<1>9. b = IF p.again THEN Zero ELSE c
  BY DEF Fresh
<1> HIDE DEF p, c, b, l
<1>10. f \in Vec /\ \A a \in Axes : f[a] = frame.counts[a] + c[a]
  BY <1>3, <1>4, VecType
<1> HIDE DEF f
<1>11. owed' \in Vec /\ doubled' \in Vec /\ frame' \in Frames
  BY <1>3, <1>4, <1>5, <1>10, VecType DEF Empty, Frames, Zero
<1>12. ASSUME NEW a \in Axes
       PROVE  owed'[a] = packed'.counts[a] + frame'.counts[a] + r[a] + l[a] - doubled'[a]
  <2>1. /\ owed[a] = packed.counts[a] + frame.counts[a] + r[a] + InFlight(link)[a] - doubled[a]
        /\ doubled[a] \in Int
        /\ packed.counts[a] \in Int /\ frame.counts[a] \in Int
        /\ r[a] \in Int /\ InFlight(link)[a] \in Int
    BY Before
  <2> HIDE DEF r
  <2>2. l[a] = InFlight(link)[a] - b[a]
    BY <1>3, <1>4, <1>8, VecAt
  <2>3. c[a] \in Int /\ b[a] \in Int /\ owed[a] \in Int /\ Zero[a] = 0
    BY <1>3, <1>4, VecType DEF Vec
  <2>4. owed'[a] = owed[a] - f[a]
    BY <1>3, <1>5, <1>10, VecAt
  <2>5. f[a] = frame.counts[a] + c[a]
    BY <1>10
  <2>6. frame'.counts[a] = 0 /\ packed' = packed
    BY <1>2, <1>5, VecType DEF Empty
  <2>7. CASE p.again
    <3>1. b[a] = 0
      BY <1>9, <2>3, <2>7
    <3>2. doubled'[a] = doubled[a] + c[a]
      BY <1>3, <1>4, <1>5, <1>7, <2>7, VecAt
    <3> QED BY <2>1, <2>2, <2>3, <2>4, <2>5, <2>6, <3>1, <3>2
  <2>8. CASE ~p.again
    <3>1. b = c /\ doubled' = doubled
      BY <1>5, <1>9, <2>8
    <3> QED BY <2>1, <2>2, <2>3, <2>4, <2>5, <2>6, <3>1
  <2> QED BY <2>7, <2>8
<1>13. r = InFlight(Requeued') /\ Requeued' \in Seq(Loads)
  BY <1>3, <1>6
<1> HIDE DEF r
<1>14. l = InFlight(link')
  BY DEF l
<1> QED BY <1>8, <1>11, <1>12, <1>13, <1>14, Settled

LEMMA StepMotion == MotionInv /\ [Next]_vars => MotionInv'
<1> SUFFICES ASSUME MotionInv, [Next]_vars PROVE MotionInv'
  OBVIOUS
<1>1. NumberInv'
  BY StepNumber DEF MotionInv
<1>2. CASE Tick
  BY <1>1, <1>2, SameMotion DEF Tick, source
<1>3. CASE Report
  BY <1>1, <1>3, SameMotion DEF Report, source
<1>4. CASE Encode
  <2>1. PICK reported \in BOOLEAN : Handle(Head(queue), reported)
    BY <1>4 DEF Encode
  <2>2. queue # <<>> /\ UNCHANGED <<frame, doubled>>
    BY <1>4 DEF Encode, source
  <2> QED BY <1>1, <2>1, <2>2, HandleMotion
<1>5. CASE Lose
  BY <1>1, <1>5, LoseMotion
<1>6. CASE SetResolution
  BY <1>1, <1>6, SameMotion DEF SetResolution, half, source
<1>7. CASE Local
  BY <1>1, <1>7, LocalMotion
<1>8. CASE Deliver
  BY <1>1, <1>8, DeliverMotion
<1>9. CASE UNCHANGED vars
  BY <1>1, <1>9, SameMotion DEF vars, half, source
<1> QED BY <1>2, <1>3, <1>4, <1>5, <1>6, <1>7, <1>8, <1>9 DEF Next

\* Motion is lost only where the code says so, and given once but for what a
\* repeated packet carried, which is given again under the gap flag: for any
\* axes and counts, however much is lost, repeated, dropped out of range or
\* refused by a full queue (zpt_compact_split_decode, zpt_compact_split_encoder_handle_event,
\* take_compact_frame, zpt_source_ingress_handle).
THEOREM MotionConservedInvariant == Spec => []MotionConserved
<1>1. MotionInv => MotionConserved
  BY DEF MotionInv
<1> QED BY <1>1, InitMotion, StepMotion, PTL DEF Spec
=============================================================================
