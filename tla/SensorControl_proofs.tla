-------------------------- MODULE SensorControl_proofs --------------------------
(* Proofs about the relayed control of a sensor, for every declaration, every  *)
(* number of sequence numbers and requests, and every order in which messages  *)
(* are sent, lost, taken, answered and dropped by a reboot.                    *)
(*                                                                             *)
(* The argument.  Request k carries the number NumberOf(k).  Everything that   *)
(* is under way, in either queue or at the agent, is to one of the SeqMax      *)
(* newest requests (Flight), so two of them never share a number; and what is  *)
(* on its way to the agent is newer than whatever the agent has answered       *)
(* (Ordered).  That is Base, which needs nothing of the threads' timing.  As   *)
(* long as the callback gives the semaphore before the next relay begins       *)
(* (Prompt), what a relay heard is the answer to its own request (Matched),    *)
(* and what that answer says is still so at the sensor until another request   *)
(* or a reboot (Valued).                                                       *)
(*                                                                             *)
(* About the snapping: a request is snapped on either half, and the second     *)
(* time must change nothing; in a range that ends on a step what it is snapped *)
(* to is the supported resolution nearest to it.  What a list is searched for  *)
(* is a fold, about which nothing is proved: of lists SnapsNearest is assumed. *)
EXTENDS SensorControl, TLAPS

-----------------------------------------------------------------------------
(* Lemmas about the snapping.                                                  *)

LEMMA Division ==
  ASSUME NEW a \in Nat, NEW d \in Nat \ {0}
  PROVE  /\ a \div d \in Nat
         /\ (a \div d) * d <= a
         /\ a < (a \div d) * d + d
         /\ a - (a % d) = (a \div d) * d
  BY SMT

LEMMA Multiple ==
  ASSUME NEW k \in Nat, NEW d \in Nat \ {0}
  PROVE  (k * d) % d = 0 /\ k * d \in Nat
  BY SMT

LEMMA Monotone ==
  ASSUME NEW j \in Int, NEW k \in Int, j <= k, NEW d \in Nat
  PROVE  j * d <= k * d
  BY SMT

\* A step below or above the request, both of them at most one step away.
LEMMA PointIs ==
  ASSUME NEW min \in Nat, NEW max \in Nat, NEW step \in Nat \ {0}, NEW r \in Nat, min < r, r < max
  PROVE  \E k \in Nat :
           /\ k * step <= r - min /\ r - min < k * step + step
           /\ \/ /\ SnapPoint(min, max, step, r) = min + k * step + step
                 /\ k * step + step <= max - min
                 /\ k * step + step - (r - min) < r - min - k * step
              \/ /\ SnapPoint(min, max, step, r) = min + k * step
                 /\ \/ k * step + step > max - min
                    \/ r - min - k * step <= k * step + step - (r - min)
<1> DEFINE k == (r - min) \div step
<1>1. r - min \in Nat
  OBVIOUS
<1>2. /\ k \in Nat
      /\ k * step <= r - min /\ r - min < k * step + step
      /\ (r - min) - ((r - min) % step) = k * step
  BY <1>1, Division
<1>3. k * step \in Nat
  BY <1>2, Multiple
<1> HIDE DEF k
<1>4. \/ /\ SnapPoint(min, max, step, r) = min + k * step + step
         /\ k * step + step <= max - min
         /\ k * step + step - (r - min) < r - min - k * step
      \/ /\ SnapPoint(min, max, step, r) = min + k * step
         /\ \/ k * step + step > max - min
            \/ r - min - k * step <= k * step + step - (r - min)
  <2> DEFINE m == k * step
  <2>1. m \in Nat /\ (r - min) - ((r - min) % step) = m
    BY <1>2, <1>3
  <2> HIDE DEF m
  <2>2. SnapPoint(min, max, step, r)
          = min + (IF m + step <= max - min /\ m + step - (r - min) < r - min - m THEN m + step ELSE m)
    BY <2>1 DEF SnapPoint
  <2>3. \/ SnapPoint(min, max, step, r) = min + m + step /\ m + step <= max - min
                                          /\ m + step - (r - min) < r - min - m
        \/ SnapPoint(min, max, step, r) = min + m
             /\ (m + step > max - min \/ r - min - m <= m + step - (r - min))
    BY <2>1, <2>2
  <2> QED BY <2>3 DEF m
<1> QED BY <1>2, <1>4

\* What a range is snapped to lies in it, and is its end or on a step.
LEMMA SnapInRange ==
  ASSUME NEW min \in Nat, NEW max \in Nat, NEW step \in Nat \ {0}, NEW r \in Nat, min <= max
  PROVE  InRange(min, max, step, SnapRange(min, max, step, r))
<1>1. CASE r <= min
  BY <1>1, Multiple DEF SnapRange, InRange
<1>2. CASE r > min /\ r >= max
  BY <1>2 DEF SnapRange, InRange
<1>3. CASE r > min /\ r < max
  <2> min < r /\ r < max
    BY <1>3
  <2>1. PICK k \in Nat :
           /\ k * step <= r - min /\ r - min < k * step + step
           /\ \/ /\ SnapPoint(min, max, step, r) = min + k * step + step
                 /\ k * step + step <= max - min
                 /\ k * step + step - (r - min) < r - min - k * step
              \/ /\ SnapPoint(min, max, step, r) = min + k * step
                 /\ \/ k * step + step > max - min
                    \/ r - min - k * step <= k * step + step - (r - min)
    BY PointIs
  <2>2. k * step \in Nat /\ (k * step) % step = 0
    BY Multiple
  <2>3. k * step + step = (k + 1) * step
    OBVIOUS
  <2>4. k * step + step \in Nat /\ (k * step + step) % step = 0
    <3>1. k + 1 \in Nat
      OBVIOUS
    <3>2. ((k + 1) * step) % step = 0 /\ (k + 1) * step \in Nat
      BY <3>1, Multiple
    <3> QED BY <2>3, <3>2, Zenon
  <2>5. SnapRange(min, max, step, r) = SnapPoint(min, max, step, r)
    BY <1>3 DEF SnapRange
  <2> DEFINE m == k * step
  <2>6. \/ SnapRange(min, max, step, r) = min + (m + step) /\ m + step <= max - min
        \/ SnapRange(min, max, step, r) = min + m /\ m <= r - min
    BY <2>1, <2>2, <2>5
  <2>7. m \in Nat /\ m % step = 0 /\ m + step \in Nat /\ (m + step) % step = 0
    BY <2>2, <2>4
  <2> HIDE DEF m
  <2>8. CASE SnapRange(min, max, step, r) = min + (m + step) /\ m + step <= max - min
    BY <2>7, <2>8 DEF InRange
  <2>9. CASE SnapRange(min, max, step, r) = min + m /\ m <= r - min
    BY <1>3, <2>7, <2>9 DEF InRange
  <2> QED BY <2>6, <2>8, <2>9
<1> QED BY <1>1, <1>2, <1>3

\* A resolution of the range is snapped to itself.
LEMMA SnapKeeps ==
  ASSUME NEW min \in Nat, NEW max \in Nat, NEW step \in Nat \ {0}, NEW v \in Nat,
         InRange(min, max, step, v)
  PROVE  SnapRange(min, max, step, v) = v
<1>1. CASE v = min \/ v = max
  BY <1>1 DEF SnapRange, InRange
<1>2. CASE v # min /\ v # max
  <2>1. min < v /\ v < max /\ (v - min) % step = 0
    BY <1>2 DEF InRange
  <2>2. SnapPoint(min, max, step, v) = v
    <3> DEFINE rest == (v - min) % step
    <3>1. rest = 0
      BY <2>1
    <3> HIDE DEF rest
    <3>2. SnapPoint(min, max, step, v)
            = min + (IF (v - min) - rest + step <= max - min
                          /\ (v - min) - rest + step - (v - min) < (v - min) - ((v - min) - rest)
                     THEN (v - min) - rest + step ELSE (v - min) - rest)
      BY DEF SnapPoint, rest
    <3> QED BY <3>1, <3>2
  <2> QED BY <2>1, <2>2 DEF SnapRange
<1> QED BY <1>1, <1>2

\* What the central half snapped, the peripheral half applies as it is
\* (zpt_sensor_control_preview_remote, zpt_device_control_serve).
THEOREM SnapTwice ==
  ASSUME NEW min \in Nat, NEW max \in Nat, NEW step \in Nat \ {0}, NEW r \in Nat, min <= max
  PROVE  SnapRange(min, max, step, SnapRange(min, max, step, r)) = SnapRange(min, max, step, r)
<1> DEFINE v == SnapRange(min, max, step, r)
<1>1. InRange(min, max, step, v)
  BY SnapInRange
<1>2. v \in Nat
  BY <1>1 DEF InRange
<1> QED BY <1>1, <1>2, SnapKeeps

\* In a range that ends on a step, as the keyboard's does (config/corne.keymap),
\* a request gets the supported resolution nearest to it, the lower of two
\* (device_caps.h: "snapped to the nearest supported value").
THEOREM SnapIsNearest ==
  ASSUME NEW min \in Nat, NEW max \in Nat, NEW step \in Nat \ {0}, NEW r \in Nat, min <= max,
         NEW top \in Nat, max - min = top * step
  PROVE  IsNearest(SnapRange(min, max, step, r),
                   {v \in min..max : InRange(min, max, step, v)}, r)
<1> DEFINE s == SnapRange(min, max, step, r)
           set == {v \in min..max : InRange(min, max, step, v)}
<1>1. s \in set
  BY SnapInRange DEF InRange
<1>2. ASSUME NEW u \in set
      PROVE  \/ Distance(s, r) < Distance(u, r)
             \/ Distance(s, r) = Distance(u, r) /\ s <= u
  <2>1. u \in Nat /\ min <= u /\ u <= max /\ s \in Nat
    BY <1>1
  <2>2. CASE r <= min
    BY <2>1, <2>2 DEF SnapRange, Distance
  <2>3. CASE r > min /\ r >= max
    BY <2>1, <2>3 DEF SnapRange, Distance
  <2>4. CASE r > min /\ r < max
    <3> min < r /\ r < max
      BY <2>4
    <3>1. PICK k \in Nat :
             /\ k * step <= r - min /\ r - min < k * step + step
             /\ \/ /\ SnapPoint(min, max, step, r) = min + k * step + step
                   /\ k * step + step <= max - min
                   /\ k * step + step - (r - min) < r - min - k * step
                \/ /\ SnapPoint(min, max, step, r) = min + k * step
                   /\ \/ k * step + step > max - min
                      \/ r - min - k * step <= k * step + step - (r - min)
      BY PointIs
    <3>2. s = SnapPoint(min, max, step, r)
      BY <2>4 DEF SnapRange
    <3>3. PICK j \in Nat : u - min = j * step
      <4>1. CASE u = max
        BY <4>1
      <4>2. CASE (u - min) % step = 0
        <5>1. u - min \in Nat
          BY <2>1
        <5> DEFINE q == (u - min) \div step
        <5>2. q \in Nat /\ (u - min) - ((u - min) % step) = q * step
          BY <5>1, Division
        <5>3. u - min = q * step
          BY <4>2, <5>1, <5>2
        <5> QED BY <5>2, <5>3
      <4> QED BY <4>1, <4>2 DEF InRange
    <3>4. k * step + step = (k + 1) * step /\ k + 1 \in Nat
      OBVIOUS
    <3>5. k * step \in Nat /\ j * step \in Nat /\ top * step \in Nat
      BY Multiple
    <3>6. k + 1 <= top
      <4> SUFFICES ASSUME top <= k PROVE FALSE
        OBVIOUS
      <4>1. top * step <= k * step
        BY Monotone
      <4> QED BY <3>1, <3>5, <4>1
    <3>7. k * step + step <= max - min
      <4>1. (k + 1) * step <= top * step
        BY <3>4, <3>6, Monotone
      <4> QED BY <3>4, <4>1
    <3>8. j * step <= k * step \/ k * step + step <= j * step
      <4>1. CASE j <= k
        BY <4>1, Monotone
      <4>2. CASE k + 1 <= j
        <5>1. (k + 1) * step <= j * step
          BY <3>4, <4>2, Monotone
        <5> QED BY <3>4, <5>1
      <4> QED BY <4>1, <4>2
    <3> DEFINE a == k * step
               b == j * step
    <3>9. /\ a \in Nat /\ b \in Nat /\ u = min + b /\ (b <= a \/ a + step <= b)
          /\ a <= r - min /\ r - min < a + step /\ a + step <= max - min
          /\ \/ s = min + a + step /\ a + step - (r - min) < r - min - a
             \/ s = min + a /\ r - min - a <= a + step - (r - min)
      BY <2>1, <3>1, <3>2, <3>3, <3>5, <3>7, <3>8
    <3> HIDE DEF a, b, s
    <3> QED BY <3>9 DEF Distance
  <2> QED BY <2>1, <2>2, <2>3, <2>4
<1> QED BY <1>1, <1>2 DEF IsNearest

\* Declarations of a range that ends on a step have every request snapped to the
\* supported resolution nearest to it, and snapping it again changes nothing.
LEMMA RangesSnapNearest ==
  ASSUME \A d \in Declared :
           /\ ~d.discrete /\ d.min \in Nat /\ d.max \in Nat /\ d.step \in Nat \ {0} /\ d.min <= d.max
           /\ \E top \in Nat : d.max - d.min = top * d.step
  PROVE  SnapsNearest
<1> SUFFICES ASSUME NEW d \in Declared, NEW r \in Requests
             PROVE  IsNearest(Snap(d, r), Supported(d), r) /\ Snap(d, Snap(d, r)) = Snap(d, r)
  BY DEF SnapsNearest
<1> DEFINE min == d.min
           max == d.max
           step == d.step
<1>1. r \in Nat
  BY SensorControlAssumption
<1>2. /\ min \in Nat /\ max \in Nat /\ step \in Nat \ {0} /\ min <= max
      /\ \E top \in Nat : max - min = top * step
  OBVIOUS
<1>3. /\ \A x : Snap(d, x) = SnapRange(min, max, step, x)
      /\ Supported(d) = {v \in min..max : InRange(min, max, step, v)}
  BY DEF Snap, Supported
<1> HIDE DEF min, max, step
<1>4. PICK top \in Nat : max - min = top * step
  BY <1>2
<1>5. IsNearest(SnapRange(min, max, step, r), {v \in min..max : InRange(min, max, step, v)}, r)
  BY <1>1, <1>2, <1>4, SnapIsNearest
<1>6. SnapRange(min, max, step, SnapRange(min, max, step, r)) = SnapRange(min, max, step, r)
  BY <1>1, <1>2, SnapTwice
<1>7. QED
  BY <1>3, <1>5, <1>6

-----------------------------------------------------------------------------
(* Lemmas about sequence numbers.                                            *)

LEMMA Remainder ==
  ASSUME NEW a \in Int, NEW m \in Nat \ {0}
  PROVE  /\ a \div m \in Int /\ a % m \in 0..(m - 1)
         /\ a = m * (a \div m) + (a % m)
BY SMT

LEMMA MultiplesApart ==
  ASSUME NEW m \in Nat \ {0}, NEW j \in Int, NEW k \in Int, j < k
  PROVE  m * j + m <= m * k
<1>1. m * (k - (j + 1)) >= 0
  BY SMT
<1>2. QED
  BY <1>1, SMT

\* Two numbers with the same remainder are equal or far apart.
LEMMA SameRemainder ==
  ASSUME NEW m \in Nat \ {0}, NEW a \in Int, NEW b \in Int, a <= b, b - a < m, a % m = b % m
  PROVE  a = b
<1> DEFINE i == a \div m
           j == b \div m
           r == a % m
<1>1. i \in Int /\ r \in 0..(m - 1) /\ a = m * i + r
  BY Remainder
<1>2. j \in Int /\ b = m * j + r
  BY Remainder
<1> HIDE DEF i, j, r
<1>3. m * i \in Int /\ m * j \in Int
  BY <1>1, <1>2
<1>4. CASE i < j
  <2>1. m * i + m <= m * j
    BY <1>1, <1>2, <1>4, MultiplesApart
  <2>2. QED
    BY <1>1, <1>2, <1>3, <2>1
<1>5. CASE j < i
  <2>1. m * j + m <= m * i
    BY <1>1, <1>2, <1>5, MultiplesApart
  <2>2. QED
    BY <1>1, <1>2, <1>3, <2>1
<1>6. QED
  BY <1>1, <1>2, <1>4, <1>5

\* Counting one on: the remainder grows by one or starts over.
LEMMA NextRemainder ==
  ASSUME NEW m \in Nat \ {0}, NEW a \in Int
  PROVE  (a + 1) % m = IF (a % m) + 1 = m THEN 0 ELSE (a % m) + 1
<1> DEFINE i == a \div m
           r == a % m
           j == (a + 1) \div m
           s == (a + 1) % m
<1>1. i \in Int /\ r \in 0..(m - 1) /\ a = m * i + r
  BY Remainder
<1>2. j \in Int /\ s \in 0..(m - 1) /\ a + 1 = m * j + s
  BY Remainder
<1> HIDE DEF i, j, r, s
<1>3. m * i \in Int /\ m * j \in Int /\ m * (i + 1) = m * i + m
  BY <1>1, <1>2, SMT
<1>4. ~(j < i)
  <2> SUFFICES ASSUME j < i PROVE FALSE
    OBVIOUS
  <2>1. m * j + m <= m * i
    BY <1>1, <1>2, MultiplesApart
  <2>2. QED
    BY <1>1, <1>2, <1>3, <2>1
<1>5. ~(i + 1 < j)
  <2> SUFFICES ASSUME i + 1 < j PROVE FALSE
    OBVIOUS
  <2>1. m * (i + 1) + m <= m * j
    BY <1>1, <1>2, MultiplesApart
  <2>2. QED
    BY <1>1, <1>2, <1>3, <2>1
<1>6. j = i \/ j = i + 1
  BY <1>1, <1>2, <1>4, <1>5
<1>7. s = IF r + 1 = m THEN 0 ELSE r + 1
  BY <1>1, <1>2, <1>3, <1>6
<1>8. QED
  BY <1>7 DEF r, s

-----------------------------------------------------------------------------
(* The inductive invariant.                                                    *)

\* The sequence number of request k, and 0 before the first.
NumberOf(k) == IF k = 0 THEN 0 ELSE ((k - 1) % SeqMax) + 1

\* What a request asks for, and what the sensor or an answer may then have.
Requested == {Snap(d, r) : d \in Declared, r \in Requests} \cup {0}
Values == {Snap(d, v) : d \in Declared, v \in Requested} \cup {0, DefaultCpi}

RequestShape ==
  [seq : Nat, id : Nat, op : {"none", "get", "set"}, cpi : Requested]
AnswerShape ==
  [seq : Nat, id : Nat, boots : Nat, status : {"ok", "error"}, value : Values]

\* The types that the arguments below need.
Shape ==
  /\ caps \in Declared
  /\ session \in [last : Nat, expected : Nat, status : {"ok", "error"}, value : Values]
  /\ heard \in [id : Nat, boots : Nat]
  /\ sem \in {0, 1} /\ giving \in BOOLEAN
  /\ relay \in [pc : {"idle", "reset", "waiting", "answered", "unanswered"},
                op : {"none", "get", "set"}, cpi : Requested, wanted : Requests \cup {0}]
  /\ outcome \in [kind : {"none", "ok", "error", "timeout"}, asked : Nat, answered : Nat]
  /\ known \in Values /\ cpi \in Values
  /\ requests \in Seq(RequestShape)
  /\ answers \in Seq(AnswerShape)
  /\ slot \in RequestShape
  /\ queued \in BOOLEAN
  /\ serving \in RequestShape
  /\ n \in Nat /\ boots \in Nat

\* The session counts along with the requests, and the relay holds the newest.
Numbered ==
  /\ session.last = NumberOf(IF relay.pc = "reset" THEN n - 1 ELSE n)
  /\ relay.pc # "idle" => n > 0
  /\ session.expected # 0 => session.expected = session.last
  /\ relay.op = "set" => relay.wanted \in Requests /\ relay.cpi = Snap(caps, relay.wanted)

\* A message that is under way is to one of the SeqMax newest requests; the one to
\* the newest asks for what the relay asks for.
InFlight(m) ==
  /\ 0 < m.id /\ m.id <= n /\ n - m.id < SeqMax
  /\ m.seq = NumberOf(m.id)
  /\ relay.pc = "reset" => m.id < n

Asking(m) == InFlight(m) /\ (m.id = n => m.op = relay.op /\ m.cpi = relay.cpi)

Flight ==
  /\ \A i \in 1..Len(requests) : Asking(requests[i])
  /\ queued => Asking(slot)
  /\ serving # NoRequest => Asking(serving)
  /\ \A i \in 1..Len(answers) : InFlight(answers[i]) /\ answers[i].boots <= boots

\* Whatever is yet to be answered is newer than request k.
Done(k) ==
  /\ \A i \in 1..Len(requests) : k < requests[i].id
  /\ queued => k < slot.id
  /\ serving # NoRequest => k < serving.id

\* The queue keeps order, and what was answered is not answered again.
Ordered ==
  /\ \A i, j \in 1..Len(requests) : i < j => requests[i].id < requests[j].id
  /\ queued => \A i \in 1..Len(requests) : slot.id < requests[i].id
  /\ serving # NoRequest => /\ \A i \in 1..Len(requests) : serving.id < requests[i].id
                            /\ queued => serving.id < slot.id
  /\ \A i \in 1..Len(answers) : Done(answers[i].id)
  /\ Done(heard.id)
  /\ heard.id <= n /\ heard.boots <= boots
  /\ relay.pc = "reset" => heard.id < n

Base == Shape /\ Numbered /\ Flight /\ Ordered

\* The relay has an answer it has yet to return, or returned one last.
Heard == relay.pc = "answered" \/ (relay.pc = "waiting" /\ session.expected = 0)
Told == relay.pc = "idle" /\ outcome.kind \in {"ok", "error"}

\* Value v, answered in boot b, is what the relay asked for and what the sensor has.
Applied(v, b) == /\ b = boots => v = cpi
                 /\ relay.op = "set" => v = Snap(caps, relay.cpi)

\* The semaphore stands for an answer, and that is to the newest request.
Matched ==
  /\ relay.pc = "reset" => sem = 0 /\ ~giving
  /\ session.expected # 0 => relay.pc \in {"waiting", "unanswered"} /\ sem = 0 /\ ~giving
  /\ Heard \/ Told => heard.id = n
  /\ AnswerIsOwn
\* What the answer to the newest request says is so, wherever the answer has got to.
Valued ==
  /\ \A i \in 1..Len(answers) :
       answers[i].id = n /\ answers[i].status = "ok" => Applied(answers[i].value, answers[i].boots)
  /\ Heard /\ session.status = "ok" => Applied(session.value, heard.boots)
  /\ Told /\ outcome.kind = "ok" => Applied(known, heard.boots)


-----------------------------------------------------------------------------
(* Sequence numbers start over, but two requests that are under way together *)
(* never share one.                                                          *)

LEMMA NumberNext ==
  ASSUME NEW k \in Nat, k > 0
  PROVE  NumberOf(k) = (NumberOf(k - 1) % SeqMax) + 1
<1>1. SeqMax \in Nat \ {0}
  BY SensorControlAssumption
<1>2. 0 % SeqMax = 0
  BY <1>1, SMT
<1>3. CASE k = 1
  BY <1>2, <1>3 DEF NumberOf
<1>4. CASE k > 1
  <2> DEFINE r == (k - 2) % SeqMax
             t == (k - 1) % SeqMax
             w == (r + 1) % SeqMax
  <2>1. NumberOf(k - 1) = r + 1 /\ NumberOf(k) = t + 1
    <3>1. k - 1 # 0 /\ k # 0 /\ (k - 1) - 1 = k - 2
      BY <1>4
    <3>2. NumberOf(k) = t + 1
      BY <3>1 DEF NumberOf
    <3>3. NumberOf(k - 1) = (((k - 1) - 1) % SeqMax) + 1
      BY <3>1, Zenon DEF NumberOf
    <3>4. QED
      BY <3>1, <3>2, <3>3, Zenon
  <2>2. r \in 0..(SeqMax - 1)
    BY <1>1, Remainder
  <2>3. t = IF r + 1 = SeqMax THEN 0 ELSE r + 1
    <3>1. (k - 2) + 1 = k - 1
      OBVIOUS
    <3>2. k - 2 \in Int
      OBVIOUS
    <3>3. ((k - 2) + 1) % SeqMax
            = IF ((k - 2) % SeqMax) + 1 = SeqMax THEN 0 ELSE ((k - 2) % SeqMax) + 1
      BY <1>1, <3>2, NextRemainder, Zenon
    <3>4. QED
      BY <3>1, <3>3, Zenon
  <2>4. w = IF r + 1 = SeqMax THEN 0 ELSE r + 1
    <3> HIDE DEF r, t
    <3>1. r \in Int /\ r % SeqMax = r
      BY <1>1, <2>2, SMT
    <3>2. w = IF (r % SeqMax) + 1 = SeqMax THEN 0 ELSE (r % SeqMax) + 1
      BY <1>1, <3>1, NextRemainder
    <3>3. QED
      BY <3>1, <3>2
  <2>5. NumberOf(k) = w + 1
    BY <2>1, <2>3, <2>4
  <2>6. QED
    BY <2>1, <2>5, Zenon
<1>5. QED
  BY <1>3, <1>4

LEMMA NumberUnique ==
  ASSUME NEW j \in Nat, NEW k \in Nat, 0 < j, j <= k, k - j < SeqMax, NumberOf(j) = NumberOf(k)
  PROVE  j = k
<1>1. SeqMax \in Nat \ {0}
  BY SensorControlAssumption
<1>2. (j - 1) % SeqMax \in Int /\ (k - 1) % SeqMax \in Int
  BY <1>1, Remainder
<1>3. (j - 1) % SeqMax = (k - 1) % SeqMax
  <2> DEFINE r == (j - 1) % SeqMax
             s == (k - 1) % SeqMax
  <2>0. j # 0 /\ k # 0
    OBVIOUS
  <2>1. NumberOf(j) = r + 1 /\ NumberOf(k) = s + 1
    BY <2>0, Zenon DEF NumberOf
  <2>2. r \in Int /\ s \in Int
    BY <1>2
  <2> HIDE DEF r, s
  <2>3. r + 1 = s + 1
    BY <2>1, Zenon
  <2>4. r = s
    BY <2>2, <2>3
  <2>5. QED
    BY <2>4 DEF r, s
<1>4. j - 1 = k - 1
  <2>1. j - 1 \in Int /\ k - 1 \in Int /\ j - 1 <= k - 1 /\ (k - 1) - (j - 1) < SeqMax
    BY <1>1
  <2>2. QED
    BY <1>1, <1>3, <2>1, SameRemainder
<1>5. QED
  BY <1>4

\* A sequence number fits its field, and zero is none.
LEMMA NumberFits ==
  ASSUME NEW k \in Nat
  PROVE  /\ NumberOf(k) \in Nat
         /\ Wire(NumberOf(k)) = NumberOf(k)
         /\ k > 0 => NumberOf(k) > 0
<1>1. SeqMax \in Nat \ {0} /\ FieldSize \in Nat /\ SeqMax < FieldSize
  BY SensorControlAssumption
<1>2. (k - 1) % SeqMax \in 0..(SeqMax - 1)
  BY <1>1, Remainder
<1>3. NumberOf(k) \in 0..SeqMax /\ (k > 0 => NumberOf(k) > 0)
  BY <1>1, <1>2 DEF NumberOf
<1>4. \A x \in 0..SeqMax : x % FieldSize = x
  BY <1>1, SMT
<1>5. QED
  BY <1>3, <1>4 DEF Wire


-----------------------------------------------------------------------------
(* Lemmas about the queues.                                                  *)

LEMMA RequestFields ==
  ASSUME NEW m \in RequestShape
  PROVE  m.seq \in Nat /\ m.id \in Nat /\ m.op \in {"none", "get", "set"} /\ m.cpi \in Requested
BY DEF RequestShape

LEMMA AnswerFields ==
  ASSUME NEW m \in AnswerShape
  PROVE  /\ m.seq \in Nat /\ m.id \in Nat /\ m.boots \in Nat
         /\ m.status \in {"ok", "error"} /\ m.value \in Values
BY DEF AnswerShape

LEMMA Queues ==
  ASSUME Shape
  PROVE  /\ requests \in Seq(RequestShape) /\ answers \in Seq(AnswerShape)
         /\ Len(requests) \in Nat /\ Len(answers) \in Nat
         /\ DOMAIN requests = 1..Len(requests) /\ DOMAIN answers = 1..Len(answers)
         /\ \A i \in 1..Len(requests) : requests[i] \in RequestShape
         /\ \A i \in 1..Len(answers) : answers[i] \in AnswerShape
<1>1. requests \in Seq(RequestShape) /\ answers \in Seq(AnswerShape)
  BY DEF Shape
<1>2. QED
  BY <1>1

\* The head of a queue leaves the rest one place further on.
LEMMA TailIs ==
  ASSUME NEW S, NEW s \in Seq(S), s # <<>>
  PROVE  /\ Head(s) \in S /\ Head(s) = s[1] /\ 1 \in 1..Len(s)
         /\ Tail(s) \in Seq(S) /\ Len(Tail(s)) = Len(s) - 1
         /\ \A i \in 1..Len(Tail(s)) : i + 1 \in 1..Len(s) /\ Tail(s)[i] = s[i + 1]
OBVIOUS

\* What is appended comes last.
LEMMA AppendIs ==
  ASSUME NEW S, NEW s \in Seq(S), NEW e \in S
  PROVE  /\ Append(s, e) \in Seq(S) /\ Len(Append(s, e)) = Len(s) + 1
         /\ \A i \in 1..Len(Append(s, e)) :
              \/ i \in 1..Len(s) /\ Append(s, e)[i] = s[i]
              \/ i = Len(s) + 1 /\ Append(s, e)[i] = e
OBVIOUS

-----------------------------------------------------------------------------
(* Base is inductive, whether or not the callback is held up.                *)

LEMMA BaseInit == ASSUME Init PROVE Base
<1>1. 0 \in Requested /\ 0 \in Values /\ DefaultCpi \in Values
  BY DEF Requested, Values
<1>2. NoRequest \in RequestShape
  BY <1>1 DEF NoRequest, RequestShape
<1>3. Shape
  <2>1. requests \in Seq(RequestShape) /\ answers \in Seq(AnswerShape)
    BY DEF Init
  <2>2. session \in [last : Nat, expected : Nat, status : {"ok", "error"}, value : Values]
    BY <1>1 DEF Init
  <2>3. QED
    BY <1>1, <1>2, <2>1, <2>2 DEF Init, Shape
<1>4. Numbered
  BY DEF Init, Numbered, NumberOf
<1>5. Flight /\ Ordered
  BY DEF Init, Flight, Ordered, Done
<1>6. QED
  BY <1>3, <1>4, <1>5 DEF Base

LEMMA StartRelayBase ==
  ASSUME Base, NEW request \in {SetRequest(r) : r \in Requests} \cup {GetRequest},
         StartRelay(request)
  PROVE  Base'
<1>1. /\ request.op \in {"get", "set"} /\ request.cpi \in Requested
      /\ request.wanted \in Requests \cup {0}
      /\ request.op = "set" =>
           request.wanted \in Requests /\ request.cpi = Snap(caps, request.wanted)
  BY DEF Base, Shape, SetRequest, GetRequest, Requested
<1>2. /\ n' = n + 1 /\ relay.pc = "idle"
      /\ relay' = [pc |-> "reset", op |-> request.op, cpi |-> request.cpi,
                   wanted |-> request.wanted]
      /\ sem' = 0
      /\ UNCHANGED <<caps, session, heard, giving, outcome, known, link, peripheral, boots>>
  BY DEF StartRelay
<1>3. Shape'
  BY <1>1, <1>2 DEF Base, Shape, link, peripheral
<1>4. Numbered'
  <2>1. session'.last = NumberOf(n' - 1)
    BY <1>2 DEF Base, Shape, Numbered
  <2>2. QED
    BY <1>1, <1>2, <2>1 DEF Base, Shape, Numbered, NumberOf
<1>5. Flight'
  <2>1. \A m \in {requests[k] : k \in DOMAIN requests} \cup {answers[k] : k \in DOMAIN answers}
                   \cup {serving} \cup (IF queued THEN {slot} ELSE {}) :
          m.id = 0 \/ n + 1 - m.id < SeqMax
    BY DEF StartRelay, Fresh
  <2>2. SeqMax \in Nat /\ n \in Nat
    BY SensorControlAssumption DEF Base, Shape
  <2>3. UNCHANGED <<requests, answers, slot, queued, serving, boots>>
    BY <1>2 DEF link, peripheral
  <2>4. ASSUME NEW i \in 1..Len(requests) PROVE Asking(requests[i])'
    <3>1. requests[i].id \in Nat /\ requests[i] \in {requests[k] : k \in DOMAIN requests}
      BY Queues, RequestFields DEF Base
    <3>2. Asking(requests[i])
      BY DEF Base, Flight
    <3>3. n + 1 - requests[i].id < SeqMax
      BY <2>1, <3>1, <3>2 DEF Asking, InFlight
    <3>4. QED
      BY <1>2, <2>2, <2>3, <3>1, <3>2, <3>3 DEF Asking, InFlight
  <2>5. ASSUME NEW i \in 1..Len(answers) PROVE InFlight(answers[i])'
    <3>1. answers[i].id \in Nat /\ answers[i] \in {answers[k] : k \in DOMAIN answers}
      BY Queues, AnswerFields DEF Base
    <3>2. InFlight(answers[i])
      BY DEF Base, Flight
    <3>3. n + 1 - answers[i].id < SeqMax
      BY <2>1, <3>1, <3>2 DEF Asking, InFlight
    <3>4. QED
      BY <1>2, <2>2, <2>3, <3>1, <3>2, <3>3 DEF Asking, InFlight
  <2>6. ASSUME queued PROVE Asking(slot)'
    <3>1. slot.id \in Nat /\ Asking(slot)
      BY <2>6 DEF Base, Shape, Flight, RequestShape
    <3>2. n + 1 - slot.id < SeqMax
      BY <2>1, <2>6, <3>1 DEF Asking, InFlight
    <3>3. QED
      BY <1>2, <2>2, <2>3, <3>1, <3>2 DEF Asking, InFlight
  <2>7. ASSUME serving # NoRequest PROVE Asking(serving)'
    <3>1. serving.id \in Nat /\ Asking(serving)
      BY <2>7 DEF Base, Shape, Flight, RequestShape
    <3>2. n + 1 - serving.id < SeqMax
      BY <2>1, <3>1 DEF Asking, InFlight
    <3>3. QED
      BY <1>2, <2>2, <2>3, <3>1, <3>2 DEF Asking, InFlight
  <2>8. QED
    BY <2>3, <2>4, <2>5, <2>6, <2>7 DEF Base, Flight
<1>6. Ordered'
  <2>1. UNCHANGED <<requests, answers, slot, queued, serving, heard, boots>>
    BY <1>2 DEF link, peripheral
  <2>2. n \in Nat /\ heard.id \in Nat /\ n' = n + 1
    BY <1>2 DEF Base, Shape
  <2>3. Ordered
    BY DEF Base
  <2>4. heard'.id <= n' /\ heard'.boots <= boots' /\ heard'.id < n'
    BY <2>1, <2>2, <2>3 DEF Ordered
  <2>5. QED
    BY <2>1, <2>3, <2>4 DEF Ordered, Done
<1>7. QED
  BY <1>3, <1>4, <1>5, <1>6 DEF Base

\* Steps that leave the messages alone and do not begin or send a request.
LEMMA ElsewhereBase ==
  ASSUME Base, Shape', UNCHANGED <<caps, heard, link, peripheral, n, boots>>,
         session'.last = session.last, session'.expected \in {0, session.expected},
         relay'.pc = "reset" <=> relay.pc = "reset",
         relay'.pc # "idle" => relay.pc # "idle",
         relay'.op = relay.op, relay'.cpi = relay.cpi, relay'.wanted = relay.wanted
  PROVE  Base'
<1>1. Numbered'
  BY DEF Base, Numbered
<1>2. Flight'
  BY DEF Base, Flight, Asking, InFlight, link, peripheral
<1>3. Ordered'
  BY DEF Base, Ordered, Done, link, peripheral
<1>4. QED
  BY <1>1, <1>2, <1>3 DEF Base

LEMMA TakeBase == ASSUME Base, Take PROVE Base'
<1>1. Shape'
  BY DEF Take, Base, Shape, link, peripheral
<1>2. QED
  BY <1>1, ElsewhereBase DEF Take, Base, Shape

LEMMA TimeoutBase == ASSUME Base, Timeout PROVE Base'
<1>1. Shape'
  BY DEF Timeout, Base, Shape, link, peripheral
<1>2. QED
  BY <1>1, ElsewhereBase DEF Timeout, Base, Shape

LEMMA AnsweredBase == ASSUME Base, Answered PROVE Base'
<1>1. Shape'
  BY DEF Answered, Returns, Base, Shape, link, peripheral
<1>2. QED
  BY <1>1, ElsewhereBase DEF Answered, Returns, Base, Shape

LEMMA UnansweredBase == ASSUME Base, Unanswered PROVE Base'
<1>1. Shape'
  BY DEF Unanswered, Returns, Base, Shape, link, peripheral
<1>2. QED
  BY <1>1, ElsewhereBase DEF Unanswered, Returns, Base, Shape

LEMMA GiveBase == ASSUME Base, Give PROVE Base'
<1>1. Shape'
  BY DEF Give, Base, Shape, link, peripheral
<1>2. QED
  BY <1>1, ElsewhereBase DEF Give, Base, Shape

LEMMA SendBase == ASSUME Base, Send PROVE Base'
<1> DEFINE e == [seq |-> Wire(NextSeq), id |-> n, op |-> relay.op, cpi |-> relay.cpi]
<1>1. /\ relay.pc = "reset" /\ n \in Nat /\ n > 0 /\ SeqMax \in Nat \ {0}
      /\ session.last = NumberOf(n - 1)
  BY SensorControlAssumption DEF Send, Base, Shape, Numbered
<1>2. NextSeq = NumberOf(n) /\ Wire(NextSeq) = NumberOf(n) /\ NumberOf(n) \in Nat
  BY <1>1, NumberNext, NumberFits DEF NextSeq
<1>3. /\ session' = [session EXCEPT !.last = NextSeq, !.expected = NextSeq]
      /\ relay'.pc \in {"waiting", "unanswered"} /\ relay' = [relay EXCEPT !.pc = relay'.pc]
      /\ requests' = Append(requests, e) \/ requests' = requests
      /\ UNCHANGED <<caps, heard, sem, giving, outcome, known, answers, peripheral, n, boots>>
  BY DEF Send, Base, Shape
<1>4. relay'.op = relay.op /\ relay'.cpi = relay.cpi /\ relay'.wanted = relay.wanted
  BY <1>3 DEF Base, Shape
<1>5. e \in RequestShape
  BY <1>1, <1>2 DEF RequestShape, Base, Shape
<1>6. requests \in Seq(RequestShape) /\ Len(requests) \in Nat
  BY Queues DEF Base
<1>7. requests' \in Seq(RequestShape)
  BY <1>3, <1>5, <1>6, AppendIs
<1>8. \A i \in 1..Len(requests') :
        \/ i \in 1..Len(requests) /\ requests'[i] = requests[i]
        \/ i = Len(requests) + 1 /\ requests'[i] = e
  BY <1>3, <1>5, <1>6, AppendIs
<1>9. Shape'
  BY <1>2, <1>3, <1>7 DEF Base, Shape, peripheral
<1>10. Numbered'
  BY <1>1, <1>2, <1>3, <1>4 DEF Base, Shape, Numbered
<1>11. Flight'
  <2>1. \A i \in 1..Len(requests) : Asking(requests[i])
    BY DEF Base, Flight
  <2>2. \A i \in 1..Len(requests') : (Asking(requests[i]) /\ requests'[i] = requests[i]) \/ requests'[i] = e
    BY <1>8, <2>1
  <2>3. \A i \in 1..Len(requests') : Asking(requests[i])'
    BY <1>1, <1>2, <1>3, <1>4, <2>2 DEF Asking, InFlight
  <2>4. QED
    BY <1>3, <1>4, <2>3 DEF Base, Flight, Asking, InFlight, peripheral
<1>12. Ordered'
  <2>1. /\ \A i \in 1..Len(requests) : requests[i].id \in Nat /\ requests[i].id < n
        /\ \A i \in 1..Len(answers) : answers[i].id \in Nat /\ answers[i].id < n
        /\ queued => slot.id < n
        /\ serving # NoRequest => serving.id < n
        /\ heard.id < n
    BY <1>1, Queues, RequestFields, AnswerFields DEF Base, Flight, Asking, InFlight, Ordered
  <2>2. \A i, j \in 1..Len(requests') : i < j => requests'[i].id < requests'[j].id
    BY <1>6, <1>8, <2>1 DEF Base, Ordered
  <2>3. ASSUME NEW k, k < n, Done(k) PROVE Done(k)'
    BY <1>3, <1>8, <2>3 DEF Done, peripheral
  <2>4. QED
    BY <1>3, <1>8, <2>1, <2>2, <2>3 DEF Base, Ordered, peripheral
<1>13. QED
  BY <1>9, <1>10, <1>11, <1>12 DEF Base

LEMMA ReceiveBase == ASSUME Base, Receive PROVE Base'
<1>1. /\ answers # <<>> /\ answers' = Tail(answers)
      /\ UNCHANGED <<caps, sem, relay, outcome, known, requests, peripheral, n, boots>>
      /\ \/ UNCHANGED <<session, heard, giving>>
         \/ /\ session' = [session EXCEPT !.expected = 0, !.status = Head(answers).status,
                                          !.value = Head(answers).value]
            /\ heard' = [id |-> Head(answers).id, boots |-> Head(answers).boots]
            /\ giving' = TRUE
  BY DEF Receive
<1>2. /\ Head(answers) \in AnswerShape /\ Head(answers) = answers[1] /\ 1 \in 1..Len(answers)
      /\ answers' \in Seq(AnswerShape)
      /\ \A i \in 1..Len(answers') : i + 1 \in 1..Len(answers) /\ answers'[i] = answers[i + 1]
  BY <1>1, Queues, TailIs DEF Base
<1>3. Shape'
  <2>1. CASE UNCHANGED <<session, heard, giving>>
    BY <1>1, <1>2, <2>1 DEF Base, Shape, peripheral
  <2>2. CASE /\ session' = [session EXCEPT !.expected = 0, !.status = Head(answers).status,
                                           !.value = Head(answers).value]
             /\ heard' = [id |-> Head(answers).id, boots |-> Head(answers).boots]
             /\ giving' = TRUE
    <3> DEFINE a == Head(answers)
    <3>1. a.id \in Nat /\ a.boots \in Nat /\ a.status \in {"ok", "error"} /\ a.value \in Values
      BY <1>2, AnswerFields
    <3> HIDE DEF a
    <3>2. session \in [last : Nat, expected : Nat, status : {"ok", "error"}, value : Values]
      BY DEF Base, Shape
    <3>3. session' = [session EXCEPT !.expected = 0, !.status = a.status, !.value = a.value]
      BY <2>2 DEF a
    <3>4. session' \in [last : Nat, expected : Nat, status : {"ok", "error"}, value : Values]
      BY <3>1, <3>2, <3>3
    <3>5. heard' \in [id : Nat, boots : Nat]
      <4>1. heard' = [id |-> a.id, boots |-> a.boots]
        BY <2>2 DEF a
      <4>2. QED
        BY <3>1, <4>1
    <3>6. QED
      BY <1>1, <1>2, <2>2, <3>4, <3>5 DEF Base, Shape, peripheral
  <2>3. QED
    BY <1>1, <2>1, <2>2
<1>4. Numbered'
  BY <1>1 DEF Base, Shape, Numbered
<1>5. Flight'
  <2>1. \A i \in 1..Len(answers) : InFlight(answers[i]) /\ answers[i].boots <= boots
    BY DEF Base, Flight
  <2>2. \A i \in 1..Len(answers') : InFlight(answers[i + 1]) /\ answers[i + 1].boots <= boots
    BY <1>2, <2>1
  <2>3. \A i \in 1..Len(answers') : InFlight(answers[i])' /\ answers'[i].boots <= boots
    BY <1>1, <1>2, <2>2 DEF InFlight
  <2>4. QED
    BY <1>1, <2>3 DEF Base, Flight, Asking, InFlight, peripheral
<1>6. Ordered'
  <2>1. InFlight(answers[1]) /\ answers[1].boots <= boots /\ Done(answers[1].id)
    BY <1>2 DEF Base, Flight, Ordered
  <2>2. /\ heard'.id <= n /\ heard'.boots <= boots /\ Done(heard'.id)
        /\ relay.pc = "reset" => heard'.id < n
    BY <1>1, <1>2, <2>1 DEF InFlight, Base, Ordered
  <2>3. QED
    BY <1>1, <1>2, <2>2 DEF Base, Ordered, Done, peripheral
<1>7. QED
  BY <1>3, <1>4, <1>5, <1>6 DEF Base

LEMMA LoseRequestBase == ASSUME Base, LoseRequest PROVE Base'
<1>1. requests # <<>> /\ requests' = Tail(requests) /\ UNCHANGED <<caps, central, answers, peripheral, n, boots>>
  BY DEF LoseRequest
<1>2. /\ requests' \in Seq(RequestShape)
      /\ \A i \in 1..Len(requests') : i + 1 \in 1..Len(requests) /\ requests'[i] = requests[i + 1]
  BY <1>1, Queues, TailIs DEF Base
<1>3. Shape'
  BY <1>1, <1>2 DEF Base, Shape, central, peripheral
<1>4. Numbered'
  BY <1>1 DEF Base, Numbered, central
<1>5. Flight'
  <2>1. \A i \in 1..Len(requests) : Asking(requests[i])
    BY DEF Base, Flight
  <2>2. \A i \in 1..Len(requests') : Asking(requests[i + 1])
    BY <1>2, <2>1
  <2>3. \A i \in 1..Len(requests') : Asking(requests[i])'
    BY <1>1, <1>2, <2>2 DEF Asking, InFlight, central
  <2>4. QED
    BY <1>1, <2>3 DEF Base, Flight, Asking, InFlight, central, peripheral
<1>6. Ordered'
  BY <1>1, <1>2 DEF Base, Ordered, Done, central, peripheral
<1>7. QED
  BY <1>3, <1>4, <1>5, <1>6 DEF Base

LEMMA LoseAnswerBase == ASSUME Base, LoseAnswer PROVE Base'
<1>1. answers # <<>> /\ answers' = Tail(answers) /\ UNCHANGED <<caps, central, requests, peripheral, n, boots>>
  BY DEF LoseAnswer
<1>2. /\ answers' \in Seq(AnswerShape)
      /\ \A i \in 1..Len(answers') : i + 1 \in 1..Len(answers) /\ answers'[i] = answers[i + 1]
  BY <1>1, Queues, TailIs DEF Base
<1>3. Shape'
  BY <1>1, <1>2 DEF Base, Shape, central, peripheral
<1>4. Numbered'
  BY <1>1 DEF Base, Numbered, central
<1>5. Flight'
  <2>1. \A i \in 1..Len(answers) : InFlight(answers[i]) /\ answers[i].boots <= boots
    BY DEF Base, Flight
  <2>2. \A i \in 1..Len(answers') : InFlight(answers[i + 1]) /\ answers[i + 1].boots <= boots
    BY <1>2, <2>1
  <2>3. \A i \in 1..Len(answers') : InFlight(answers[i])' /\ answers'[i].boots <= boots
    BY <1>1, <1>2, <2>2 DEF InFlight, central
  <2>4. QED
    BY <1>1, <2>3 DEF Base, Flight, Asking, InFlight, central, peripheral
<1>6. Ordered'
  BY <1>1, <1>2 DEF Base, Ordered, Done, central, peripheral
<1>7. QED
  BY <1>3, <1>4, <1>5, <1>6 DEF Base

LEMMA PressedBase == ASSUME Base, Pressed PROVE Base'
<1>1. /\ requests # <<>> /\ requests' = Tail(requests) /\ slot' = Head(requests) /\ queued' = TRUE
      /\ UNCHANGED <<caps, central, answers, serving, cpi, n, boots>>
  BY DEF Pressed
<1>2. /\ Head(requests) \in RequestShape /\ Head(requests) = requests[1] /\ 1 \in 1..Len(requests)
      /\ requests' \in Seq(RequestShape)
      /\ \A i \in 1..Len(requests') : i + 1 \in 1..Len(requests) /\ requests'[i] = requests[i + 1]
  BY <1>1, Queues, TailIs DEF Base
<1>3. Shape'
  BY <1>1, <1>2 DEF Base, Shape, central
<1>4. Numbered'
  BY <1>1 DEF Base, Numbered, central
<1>5. Flight'
  <2>1. \A i \in 1..Len(requests) : Asking(requests[i])
    BY DEF Base, Flight
  <2>2. Asking(requests[1]) /\ \A i \in 1..Len(requests') : Asking(requests[i + 1])
    BY <1>2, <2>1
  <2>3. Asking(slot)' /\ \A i \in 1..Len(requests') : Asking(requests[i])'
    BY <1>1, <1>2, <2>2 DEF Asking, InFlight, central
  <2>4. QED
    BY <1>1, <2>3 DEF Base, Flight, Asking, InFlight, central
<1>6. Ordered'
  <2>1. \A i \in 1..Len(requests) : requests[i].id \in Nat
    BY Queues, RequestFields DEF Base
  <2>2. \A i \in 1..Len(requests') : requests[1].id < requests'[i].id
    BY <1>2, <2>1 DEF Base, Ordered
  <2>3. ASSUME NEW k, Done(k) PROVE Done(k)'
    BY <1>1, <1>2, <2>3 DEF Done
  <2>4. QED
    BY <1>1, <1>2, <2>2, <2>3 DEF Base, Ordered, central
<1>7. QED
  BY <1>3, <1>4, <1>5, <1>6 DEF Base

LEMMA StartServingBase == ASSUME Base, StartServing PROVE Base'
<1>1. /\ queued /\ serving = NoRequest /\ queued' = FALSE /\ serving' = slot
      /\ UNCHANGED <<caps, central, link, slot, cpi, n, boots>>
  BY DEF StartServing
<1>2. Shape'
  BY <1>1 DEF Base, Shape, central, link
<1>3. Numbered'
  BY <1>1 DEF Base, Numbered, central
<1>4. Flight'
  BY <1>1 DEF Base, Flight, Asking, InFlight, central, link
<1>5. Ordered'
  BY <1>1 DEF Base, Ordered, Done, central, link
<1>6. QED
  BY <1>2, <1>3, <1>4, <1>5 DEF Base

\* An answer is to a request before all that are still pending.
LEMMA ServeBase == ASSUME Base, Serve PROVE Base'
<1>1. /\ serving # NoRequest /\ serving' = NoRequest
      /\ UNCHANGED <<caps, central, requests, slot, queued, n, boots>>
  BY DEF Serve
<1>2. serving \in RequestShape /\ caps \in Declared /\ cpi \in Values /\ n \in Nat /\ boots \in Nat
  BY DEF Base, Shape
<1>3. Snap(caps, serving.cpi) \in Values /\ 0 \in Values
  BY <1>2, RequestFields DEF Values
<1>4. PICK e : /\ e.seq = serving.seq /\ e.id = serving.id /\ e.boots = boots
               /\ e \in AnswerShape /\ answers' = Append(answers, e) /\ cpi' \in Values
  <2>1. ASSUME NEW status \in {"ok", "error"}, NEW v \in Values
        PROVE  /\ Answer(status, v) \in AnswerShape
               /\ Answer(status, v).seq = serving.seq /\ Answer(status, v).id = serving.id
               /\ Answer(status, v).boots = boots
    BY <1>2, RequestFields DEF Answer, AnswerShape
  <2>2. QED
    BY <1>2, <1>3, <2>1 DEF Serve
<1>5. /\ answers' \in Seq(AnswerShape)
      /\ \A i \in 1..Len(answers') :
           (i \in 1..Len(answers) /\ answers'[i] = answers[i]) \/ answers'[i] = e
  BY <1>4, Queues, AppendIs DEF Base
<1>6. NoRequest \in RequestShape
  BY DEF NoRequest, RequestShape, Requested
<1>7. Shape'
  BY <1>1, <1>4, <1>5, <1>6 DEF Base, Shape, central
<1>8. Numbered'
  BY <1>1 DEF Base, Numbered, central
<1>9. Flight'
  <2>1. InFlight(serving) /\ \A i \in 1..Len(answers) : InFlight(answers[i]) /\ answers[i].boots <= boots
    BY <1>1 DEF Base, Flight, Asking
  <2>2. InFlight(e)
    BY <1>4, <2>1 DEF InFlight
  <2>3. \A i \in 1..Len(answers') : InFlight(answers[i])' /\ answers'[i].boots <= boots
    BY <1>1, <1>2, <1>4, <1>5, <2>1, <2>2 DEF InFlight, central
  <2>4. QED
    BY <1>1, <2>3 DEF Base, Flight, Asking, InFlight, central
<1>10. Ordered'
  <2>1. Done(e.id)'
    BY <1>1, <1>4 DEF Base, Ordered, Done
  <2>2. ASSUME NEW k, Done(k) PROVE Done(k)'
    BY <1>1, <2>2 DEF Done
  <2>3. QED
    BY <1>1, <1>5, <2>1, <2>2 DEF Base, Ordered, central
<1>11. QED
  BY <1>7, <1>8, <1>9, <1>10 DEF Base

LEMMA RebootBase == ASSUME Base, Reboot PROVE Base'
<1>1. /\ boots' = boots + 1 /\ requests' = <<>> /\ queued' = FALSE
      /\ slot' = NoRequest /\ serving' = NoRequest /\ cpi' = DefaultCpi
      /\ UNCHANGED <<caps, central, answers, n>>
  BY DEF Reboot
<1>2. NoRequest \in RequestShape /\ DefaultCpi \in Values
  BY DEF NoRequest, RequestShape, Requested, Values
<1>3. requests' \in Seq(RequestShape) /\ Len(requests') = 0
  BY <1>1
<1>4. Shape'
  <2>1. boots' \in Nat /\ queued' \in BOOLEAN
    <3>1. boots' \in Nat
      BY <1>1 DEF Base, Shape
    <3>2. queued' \in BOOLEAN
      BY <1>1, Zenon
    <3>3. QED
      BY <3>1, <3>2
  <2>2. slot' \in RequestShape /\ serving' \in RequestShape /\ cpi' \in Values
    BY <1>1, <1>2
  <2>3. QED
    BY <1>1, <1>3, <2>1, <2>2 DEF Base, Shape, central
<1>5. Numbered'
  BY <1>1 DEF Base, Numbered, central
<1>6. boots \in Nat /\ heard.boots \in Nat /\ \A i \in 1..Len(answers) : answers[i].boots \in Nat
  BY Queues, AnswerFields DEF Base, Shape
<1>7. Flight'
  BY <1>1, <1>3, <1>6 DEF Base, Flight, InFlight, central
<1>8. Ordered'
  BY <1>1, <1>3, <1>6 DEF Base, Ordered, Done, central
<1>9. QED
  BY <1>4, <1>5, <1>7, <1>8 DEF Base

LEMMA BaseNext == ASSUME Base, [Next]_vars PROVE Base'
<1>1. CASE UNCHANGED vars
  <2>1. UNCHANGED <<caps, central, link, peripheral, n, boots>>
    BY <1>1 DEF vars
  <2>2. Shape'
    BY <2>1 DEF Base, Shape, central, link, peripheral
  <2>3. QED
    BY <2>1, <2>2, ElsewhereBase DEF central
<1>2. ASSUME NEW request \in {SetRequest(r) : r \in Requests} \cup {GetRequest}, StartRelay(request)
      PROVE  Base'
  BY <1>2, StartRelayBase
<1>3. QED
  BY <1>1, <1>2, SendBase, TakeBase, TimeoutBase, AnsweredBase, UnansweredBase, ReceiveBase,
     GiveBase, LoseRequestBase, LoseAnswerBase, PressedBase, StartServingBase, ServeBase, RebootBase
  DEF Next

LEMMA BaseAlways == Spec => []Base
<1>1. Init => Base
  BY BaseInit
<1>2. Base /\ [Next]_vars => Base'
  BY BaseNext
<1>3. QED
  BY <1>1, <1>2, PTL DEF Spec

-----------------------------------------------------------------------------
(* The answer to the outstanding request is taken.                           *)

LEMMA OutstandingIs ==
  ASSUME Base, session.expected # 0, relay.pc # "reset"
  PROVE  session.expected = NumberOf(n)
BY DEF Base, Numbered

LEMMA OwnIsTaken ==
  ASSUME Base, Receive, relay.pc = "waiting", session.expected # 0, Head(answers).id = n
  PROVE  giving' /\ heard'.id = n
<1>1. answers # <<>>
  BY DEF Receive
<1>2. Head(answers) = answers[1] /\ 1 \in 1..Len(answers)
  BY <1>1, Queues, TailIs DEF Base
<1>3. Head(answers).seq = NumberOf(n)
  BY <1>2 DEF Base, Flight, InFlight
<1>4. Offered(Head(answers))
  BY <1>3, OutstandingIs DEF Offered
<1>5. QED
  BY <1>4 DEF Receive

\* The answer to the request that is outstanding is never taken for stale,
\* also when the sequence numbers start over, whether the callback gives the
\* semaphore in time or not (zpt_scw_session_offer()).
THEOREM OwnAnswerTakenAlways == Spec => OwnAnswerTaken
<1>1. Base /\ [Next]_vars
        => [ Receive /\ relay.pc = "waiting" /\ session.expected # 0 /\ Head(answers).id = n
               => giving' /\ heard'.id = n ]_vars
  BY OwnIsTaken
<1>2. QED
  BY <1>1, BaseAlways, PTL DEF Spec, OwnAnswerTaken

-----------------------------------------------------------------------------
(* An answer that is accepted is the answer to the request.                  *)

LEMMA AcceptedIsOwn ==
  ASSUME Base, Receive, Offered(Head(answers)), relay.pc # "reset", relay.pc # "idle"
  PROVE  Head(answers).id = n
<1>1. answers # <<>>
  BY DEF Receive
<1>2. Head(answers) = answers[1] /\ 1 \in 1..Len(answers)
  BY <1>1, Queues, TailIs DEF Base
<1> DEFINE k == Head(answers).id
<1>3. /\ 0 < k /\ k <= n /\ n - k < SeqMax /\ Head(answers).seq = NumberOf(k)
  BY <1>2 DEF Base, Flight, InFlight
<1>4. k \in Nat /\ n \in Nat
  BY <1>2, Queues, AnswerFields DEF Base, Shape
<1>5. NumberOf(k) = NumberOf(n)
  BY <1>3, OutstandingIs DEF Offered
<1> HIDE DEF k
<1>6. k = n
  BY <1>3, <1>4, <1>5, NumberUnique
<1>7. QED
  BY <1>6 DEF k

LEMMA MatchedInit == ASSUME Init PROVE Matched
BY DEF Init, Matched, Heard, Told, AnswerIsOwn

\* Steps that leave what the central half has of the answer as it is.
LEMMA ElsewhereMatched ==
  ASSUME Matched, UNCHANGED <<central, n>>
  PROVE  Matched'
BY DEF Matched, Heard, Told, AnswerIsOwn, central

LEMMA MatchedNext == ASSUME Prompt, Base, Matched, [Next]_vars PROVE Matched'
<1>0. NumberOf(n) \in Nat /\ session \in [last : Nat, expected : Nat, status : {"ok", "error"}, value : Values]
  BY NumberFits DEF Base, Shape
<1>1. ASSUME NEW request, StartRelay(request) PROVE Matched'
  BY <1>1 DEF Matched, Heard, Told, AnswerIsOwn, StartRelay
<1>2. CASE Send
  <2>1. session'.expected # 0
    <3>1. n \in Nat /\ n > 0 /\ session.last = NumberOf(n - 1)
      BY <1>2 DEF Send, Base, Shape, Numbered
    <3>2. NextSeq = NumberOf(n)
      BY <3>1, NumberNext DEF NextSeq
    <3>3. NumberOf(n) > 0
      BY <3>1, NumberFits
    <3>4. session'.expected = NextSeq
      BY <1>0, <1>2 DEF Send
    <3>5. QED
      BY <1>0, <3>2, <3>3, <3>4
  <2>2. relay'.pc \in {"waiting", "unanswered"}
    BY <1>2 DEF Send, Base, Shape
  <2>3. UNCHANGED <<heard, sem, giving, outcome, n>> /\ relay.pc = "reset"
    BY <1>2 DEF Send
  <2>4. QED
    BY <2>1, <2>2, <2>3 DEF Matched, Heard, Told, AnswerIsOwn
<1>3. CASE Take
  <2>1. relay'.pc = "answered" /\ relay.pc = "waiting" /\ sem = 1
    BY <1>3 DEF Take, Base, Shape
  <2>2. UNCHANGED <<session, heard, giving, outcome, n>>
    BY <1>3 DEF Take
  <2>3. QED
    BY <2>1, <2>2 DEF Matched, Heard, Told, AnswerIsOwn
<1>4. CASE Timeout
  <2>1. relay'.pc = "unanswered" /\ relay.pc = "waiting"
    BY <1>4 DEF Timeout, Base, Shape
  <2>2. UNCHANGED <<session, heard, sem, giving, outcome, n>>
    BY <1>4 DEF Timeout
  <2>3. QED
    BY <2>1, <2>2 DEF Matched, Heard, Told, AnswerIsOwn
<1>5. CASE Answered
  <2>1. relay'.pc = "idle" /\ relay.pc = "answered"
    BY <1>5 DEF Answered, Returns, Base, Shape
  <2>2. outcome' = [kind |-> session.status, asked |-> n, answered |-> heard.id]
    BY <1>5 DEF Answered, Returns
  <2>3. UNCHANGED <<session, heard, sem, giving, n>>
    BY <1>5 DEF Answered
  <2>4. QED
    BY <2>1, <2>2, <2>3 DEF Matched, Heard, Told, AnswerIsOwn
<1>6. CASE Unanswered
  <2>1. relay'.pc = "idle" /\ relay.pc = "unanswered" /\ session'.expected = 0
    BY <1>6 DEF Unanswered, Returns, Base, Shape
  <2>2. outcome' = [kind |-> "timeout", asked |-> n, answered |-> 0]
    BY <1>6 DEF Unanswered, Returns
  <2>3. UNCHANGED <<heard, sem, giving, n>>
    BY <1>6 DEF Unanswered
  <2>4. QED
    BY <2>1, <2>2, <2>3 DEF Matched, Heard, Told, AnswerIsOwn
<1>7. CASE Receive
  <2>1. UNCHANGED <<sem, relay, outcome, n>>
    BY <1>7 DEF Receive
  <2>2. CASE Offered(Head(answers))
    <3>1. relay.pc \in {"waiting", "unanswered"}
      BY <2>2 DEF Offered, Matched
    <3>2. Head(answers).id = n
      BY <1>7, <2>2, <3>1, AcceptedIsOwn
    <3>3. session'.expected = 0 /\ heard'.id = n
      <4>1. session' = [session EXCEPT !.expected = 0, !.status = Head(answers).status,
                                       !.value = Head(answers).value]
        BY <1>7, <2>2 DEF Receive
      <4>2. heard' = [id |-> Head(answers).id, boots |-> Head(answers).boots]
        BY <1>7, <2>2 DEF Receive
      <4>3. QED
        BY <1>0, <3>2, <4>1, <4>2
    <3>4. QED
      BY <2>1, <3>1, <3>3 DEF Matched, Heard, Told, AnswerIsOwn
  <2>3. CASE ~Offered(Head(answers))
    <3>1. UNCHANGED <<session, heard, giving>>
      BY <1>7, <2>3 DEF Receive
    <3>2. QED
      BY <2>1, <3>1 DEF Matched, Heard, Told, AnswerIsOwn
  <2>4. QED
    BY <2>2, <2>3
<1>8. CASE Give
  BY <1>8 DEF Give, Matched, Heard, Told, AnswerIsOwn
<1>9. CASE LoseRequest \/ LoseAnswer \/ Pressed \/ StartServing \/ Serve \/ Reboot \/ UNCHANGED vars
  <2>1. UNCHANGED <<central, n>>
    BY <1>9 DEF LoseRequest, LoseAnswer, Pressed, StartServing, Serve, Reboot, vars
  <2>2. QED
    BY <2>1, ElsewhereMatched
<1>10. QED
  BY <1>1, <1>2, <1>3, <1>4, <1>5, <1>6, <1>7, <1>8, <1>9 DEF Next

LEMMA MatchedAlways == ASSUME Prompt PROVE Spec => [](Base /\ Matched)
<1>1. Init => Matched
  BY MatchedInit
<1>2. Base /\ Matched /\ [Next]_vars => Matched'
  BY MatchedNext
<1>3. QED
  BY <1>1, <1>2, BaseAlways, PTL DEF Spec

\* A relay that returns an answer returns the answer to its own request.
THEOREM AnswerIsOwnInvariant == ASSUME Prompt PROVE Spec => []AnswerIsOwn
<1>1. Base /\ Matched => AnswerIsOwn
  BY DEF Matched
<1>2. QED
  BY <1>1, MatchedAlways, PTL

-----------------------------------------------------------------------------
(* What is recorded is what was applied.                                     *)

\* An answer is to the outstanding request only while nothing to the agent is.
LEMMA PendingIsLater ==
  ASSUME Base, serving # NoRequest
  PROVE  /\ serving.id <= n /\ heard.id # n
         /\ \A i \in 1..Len(answers) : answers[i].id # n
<1>1. serving.id \in Nat /\ n \in Nat /\ heard.id \in Nat /\ serving.id <= n
  BY RequestFields DEF Base, Shape, Flight, Asking, InFlight
<1>2. \A i \in 1..Len(answers) : answers[i].id \in Nat
  BY Queues, AnswerFields DEF Base
<1>3. heard.id < serving.id /\ \A i \in 1..Len(answers) : answers[i].id < serving.id
  BY DEF Base, Ordered, Done
<1>4. QED
  BY <1>1, <1>2, <1>3

LEMMA ValuedInit == ASSUME Init PROVE Valued
BY DEF Init, Valued, Heard, Told

\* The relay's own steps: what was heard is recorded, or nothing is claimed.
LEMMA ValuedRelay ==
  ASSUME Valued, UNCHANGED <<caps, session, heard, cpi, n, boots>>,
         relay'.op = relay.op, relay'.cpi = relay.cpi,
         \A i \in 1..Len(answers') :
           \E j \in 1..Len(answers) : answers'[i] = answers[j],
         Heard' => Heard,
         Told' /\ outcome'.kind = "ok"
           => \/ Told /\ outcome.kind = "ok" /\ known' = known
              \/ Heard /\ session.status = "ok" /\ known' = session.value
  PROVE  Valued'
<1>1. \A v, b : Applied(v, b)' <=> Applied(v, b)
  BY DEF Applied
<1>2. \A i \in 1..Len(answers') :
        answers'[i].id = n' /\ answers'[i].status = "ok"
          => Applied(answers[i].value, answers[i].boots)'
  BY <1>1 DEF Valued, Applied
<1>3. Heard' /\ session'.status = "ok" => Applied(session.value, heard.boots)'
  BY <1>1 DEF Valued, Applied
<1>4. Told' /\ outcome'.kind = "ok" => Applied(known, heard.boots)'
  BY <1>1 DEF Valued, Applied
<1>5. QED
  BY <1>2, <1>3, <1>4 DEF Valued

LEMMA ValuedServe == ASSUME Base, Matched, Valued, Serve PROVE Valued'
<1>1. /\ serving # NoRequest
      /\ UNCHANGED <<caps, session, heard, relay, outcome, known, n, boots>>
  BY DEF Serve, central
<1>2. /\ serving \in RequestShape /\ n \in Nat /\ boots \in Nat
      /\ serving.id = n => serving.op = relay.op /\ serving.cpi = relay.cpi
  BY <1>1 DEF Base, Shape, Flight, Asking
<1>3. ~Heard' /\ ~Told'
  <2>1. ~Heard /\ ~Told
    BY <1>1, PendingIsLater DEF Matched
  <2>2. QED
    BY <1>1, <2>1 DEF Heard, Told
<1>4. PICK e : /\ e.id = serving.id /\ e.boots = boots /\ e \in AnswerShape
               /\ answers' = Append(answers, e)
               /\ e.status = "ok" => /\ e.value = cpi'
                                     /\ serving.op = "set" => e.value = Snap(caps, serving.cpi)
  <2>1. ASSUME NEW status \in {"ok", "error"}, NEW v \in Values
        PROVE  /\ Answer(status, v) \in AnswerShape
               /\ Answer(status, v).id = serving.id /\ Answer(status, v).boots = boots
               /\ Answer(status, v).status = status /\ Answer(status, v).value = v
    BY <1>2, RequestFields DEF Answer, AnswerShape
  <2>2. cpi \in Values /\ Snap(caps, serving.cpi) \in Values /\ 0 \in Values
    BY <1>2, RequestFields DEF Base, Shape, Values
  <2>3. CASE serving.op = "get" /\ answers' = Append(answers, Answer("ok", cpi)) /\ cpi' = cpi
    BY <2>1, <2>2, <2>3
  <2>4. CASE /\ serving.op = "set" /\ cpi' = Snap(caps, serving.cpi)
             /\ answers' = Append(answers, Answer("ok", cpi'))
    BY <2>1, <2>2, <2>4
  <2>5. CASE answers' = Append(answers, Answer("error", 0)) /\ cpi' = cpi
    BY <2>1, <2>2, <2>5
  <2>6. QED
    BY <2>3, <2>4, <2>5 DEF Serve
<1>5. \A i \in 1..Len(answers') :
        (i \in 1..Len(answers) /\ answers'[i] = answers[i]) \/ answers'[i] = e
  BY <1>4, Queues, AppendIs DEF Base
<1>6. e.id = n /\ e.status = "ok" => Applied(e.value, e.boots)'
  BY <1>1, <1>2, <1>4 DEF Applied
<1>7. \A i \in 1..Len(answers) : answers[i].id # n
  BY <1>1, PendingIsLater
<1>8. \A i \in 1..Len(answers') :
        answers'[i].id = n' /\ answers'[i].status = "ok"
          => Applied(answers[i].value, answers[i].boots)'
  BY <1>1, <1>5, <1>6, <1>7 DEF Applied
<1>9. QED
  BY <1>3, <1>8 DEF Valued

LEMMA ValuedReceive == ASSUME Base, Matched, Valued, Receive PROVE Valued'
<1>1. /\ answers # <<>> /\ answers' = Tail(answers)
      /\ UNCHANGED <<caps, relay, outcome, known, cpi, n, boots>>
  BY DEF Receive, peripheral
<1>2. /\ Head(answers) = answers[1] /\ 1 \in 1..Len(answers)
      /\ \A i \in 1..Len(answers') : i + 1 \in 1..Len(answers) /\ answers'[i] = answers[i + 1]
  BY <1>1, Queues, TailIs DEF Base
<1>3. \A v, b : Applied(v, b) => (b = boots' => v = cpi')
                                 /\ (relay'.op = "set" => v = Snap(caps', relay'.cpi))
  BY <1>1 DEF Applied
<1>4. \A i \in 1..Len(answers') :
        answers'[i].id = n' /\ answers'[i].status = "ok"
          => Applied(answers[i].value, answers[i].boots)'
  BY <1>1, <1>2, <1>3 DEF Valued, Applied
<1>5. CASE Offered(Head(answers))
  <2>1. relay.pc \in {"waiting", "unanswered"}
    BY <1>5 DEF Offered, Matched
  <2>2. Head(answers).id = n
    BY <1>5, <2>1, AcceptedIsOwn
  <2>3. session'.status = Head(answers).status /\ session'.value = Head(answers).value
    <3>1. session' = [session EXCEPT !.expected = 0, !.status = Head(answers).status,
                                     !.value = Head(answers).value]
      BY <1>5 DEF Receive
    <3>2. session \in [last : Nat, expected : Nat, status : {"ok", "error"}, value : Values]
      BY DEF Base, Shape
    <3>3. QED
      BY <3>1, <3>2
  <2>4. heard'.boots = Head(answers).boots
    <3>1. heard' = [id |-> Head(answers).id, boots |-> Head(answers).boots]
      BY <1>5 DEF Receive
    <3>2. QED
      BY <3>1
  <2>5. session'.status = "ok" => Applied(session.value, heard.boots)'
    <3>1. Head(answers).status = "ok" => Applied(Head(answers).value, Head(answers).boots)
      BY <1>2, <2>2 DEF Valued
    <3>2. QED
      BY <1>3, <2>3, <2>4, <3>1 DEF Applied
  <2>6. ~Told'
    BY <1>1, <2>1 DEF Told
  <2>7. QED
    BY <1>4, <2>5, <2>6 DEF Valued
<1>6. CASE ~Offered(Head(answers))
  <2>1. UNCHANGED <<session, heard>>
    BY <1>6 DEF Receive
  <2>2. Heard' /\ session'.status = "ok" => Applied(session.value, heard.boots)'
    BY <1>1, <1>3, <2>1 DEF Valued, Heard, Applied
  <2>3. Told' /\ outcome'.kind = "ok" => Applied(known, heard.boots)'
    BY <1>1, <1>3, <2>1 DEF Valued, Told, Applied
  <2>4. QED
    BY <1>4, <2>2, <2>3 DEF Valued
<1>7. QED
  BY <1>5, <1>6

\* After a reboot nothing is claimed of what the sensor had before.
LEMMA ValuedReboot == ASSUME Base, Valued, Reboot PROVE Valued'
<1>1. boots' = boots + 1 /\ UNCHANGED <<caps, session, heard, relay, outcome, known, answers, n>>
  BY DEF Reboot, central
<1>2. /\ boots \in Nat /\ heard.boots \in Nat /\ heard.boots <= boots
      /\ \A i \in 1..Len(answers) : answers[i].boots \in Nat /\ answers[i].boots <= boots
  BY Queues, AnswerFields DEF Base, Shape, Flight, Ordered
<1>3. /\ heard.boots # boots' /\ \A i \in 1..Len(answers) : answers[i].boots # boots'
  BY <1>1, <1>2
<1>4. QED
  BY <1>1, <1>3 DEF Valued, Heard, Told, Applied

\* A request that is new has no answer yet.
LEMMA ValuedStart ==
  ASSUME Base, Valued, NEW request, StartRelay(request)
  PROVE  Valued'
<1>1. /\ n' = n + 1 /\ answers' = answers /\ relay'.pc = "reset"
  BY DEF StartRelay, link
<1>2. n \in Nat /\ \A i \in 1..Len(answers) : answers[i].id \in Nat /\ answers[i].id <= n
  BY Queues, AnswerFields DEF Base, Shape, Flight, InFlight
<1>3. \A i \in 1..Len(answers') : answers'[i].id # n'
  BY <1>1, <1>2
<1>4. ~Heard' /\ ~Told'
  BY <1>1 DEF Heard, Told
<1>5. QED
  BY <1>3, <1>4 DEF Valued

LEMMA ValuedSend == ASSUME Base, Valued, Send PROVE Valued'
<1>1. /\ relay.pc = "reset" /\ UNCHANGED <<answers, n>>
      /\ session'.expected = NextSeq /\ relay'.pc \in {"waiting", "unanswered"}
  BY DEF Send, Base, Shape
<1>2. n \in Nat /\ \A i \in 1..Len(answers) : answers[i].id \in Nat /\ answers[i].id < n
  BY <1>1, Queues, AnswerFields DEF Base, Shape, Flight, InFlight
<1>3. NextSeq # 0
  <2>1. n > 0 /\ session.last = NumberOf(n - 1)
    BY <1>1 DEF Base, Numbered
  <2>2. NextSeq = NumberOf(n)
    BY <1>2, <2>1, NumberNext DEF NextSeq
  <2>3. QED
    BY <1>2, <2>1, <2>2, NumberFits
<1>4. ~Heard' /\ ~Told'
  BY <1>1, <1>3 DEF Heard, Told
<1>5. \A i \in 1..Len(answers') : answers'[i].id # n'
  BY <1>1, <1>2
<1>6. QED
  BY <1>4, <1>5 DEF Valued

LEMMA ValuedNext == ASSUME Prompt, Base, Matched, Valued, [Next]_vars PROVE Valued'
<1>0. \A i \in 1..Len(answers) : \E j \in 1..Len(answers) : answers[i] = answers[j]
  OBVIOUS
<1>1. CASE Take
  <2>1. /\ relay'.pc = "answered" /\ relay.pc = "waiting" /\ sem = 1
        /\ relay'.op = relay.op /\ relay'.cpi = relay.cpi
        /\ UNCHANGED <<caps, session, heard, outcome, known, answers, cpi, n, boots>>
    BY <1>1 DEF Take, Base, Shape, link, peripheral
  <2>2. Heard /\ ~Told'
    BY <2>1 DEF Matched, Heard, Told
  <2>3. QED
    BY <1>0, <2>1, <2>2, ValuedRelay
<1>2. CASE Timeout
  <2>1. /\ relay'.pc = "unanswered"
        /\ relay'.op = relay.op /\ relay'.cpi = relay.cpi
        /\ UNCHANGED <<caps, session, heard, outcome, known, answers, cpi, n, boots>>
    BY <1>2 DEF Timeout, Base, Shape, link, peripheral
  <2>2. ~Heard' /\ ~Told'
    BY <2>1 DEF Heard, Told
  <2>3. QED
    BY <1>0, <2>1, <2>2, ValuedRelay
<1>3. CASE Answered
  <2>1. /\ relay.pc = "answered" /\ relay'.pc = "idle"
        /\ relay'.op = relay.op /\ relay'.cpi = relay.cpi
        /\ outcome' = [kind |-> session.status, asked |-> n, answered |-> heard.id]
        /\ known' = IF session.status = "ok" THEN session.value ELSE known
        /\ UNCHANGED <<caps, session, heard, answers, cpi, n, boots>>
    BY <1>3 DEF Answered, Returns, Base, Shape, link, peripheral
  <2>2. Heard /\ ~Heard' /\ outcome'.kind = session.status
    BY <2>1 DEF Heard
  <2>3. QED
    BY <1>0, <2>1, <2>2, ValuedRelay
<1>4. CASE Unanswered
  <2>1. /\ relay'.pc = "idle" /\ outcome'.kind = "timeout"
        /\ UNCHANGED <<caps, answers, n>>
        /\ relay'.op = relay.op /\ relay'.cpi = relay.cpi
        /\ UNCHANGED <<heard, cpi, boots>>
    BY <1>4 DEF Unanswered, Returns, Base, Shape, link, peripheral
  <2>2. ~Heard' /\ ~Told'
    BY <2>1 DEF Heard, Told
  <2>3. QED
    BY <2>1, <2>2 DEF Valued, Applied
<1>5. CASE Give \/ LoseRequest \/ Pressed \/ StartServing \/ UNCHANGED vars
  <2>1. UNCHANGED <<caps, session, heard, relay, outcome, known, answers, cpi, n, boots>>
    BY <1>5 DEF Give, LoseRequest, Pressed, StartServing, vars, central, link, peripheral
  <2>2. QED
    BY <2>1 DEF Valued, Heard, Told, Applied
<1>6. CASE LoseAnswer
  <2>1. /\ answers # <<>> /\ answers' = Tail(answers)
        /\ UNCHANGED <<caps, session, heard, relay, outcome, known, cpi, n, boots>>
    BY <1>6 DEF LoseAnswer, central, peripheral
  <2>2. \A i \in 1..Len(answers') : i + 1 \in 1..Len(answers) /\ answers'[i] = answers[i + 1]
    BY <2>1, Queues, TailIs DEF Base
  <2>3. (Heard' <=> Heard) /\ (Told' <=> Told)
    BY <2>1 DEF Heard, Told
  <2>4. \A i \in 1..Len(answers') : \E j \in 1..Len(answers) : answers'[i] = answers[j]
    BY <2>2
  <2>5. QED
    BY <2>1, <2>3, <2>4, ValuedRelay
<1>7. QED
  BY <1>1, <1>2, <1>3, <1>4, <1>5, <1>6, ValuedStart, ValuedSend, ValuedReceive, ValuedServe,
     ValuedReboot DEF Next

LEMMA ValuedAlways == ASSUME Prompt PROVE Spec => [](Base /\ Matched /\ Valued)
<1>1. Init => Valued
  BY ValuedInit
<1>2. Base /\ Matched /\ Valued /\ [Next]_vars => Valued'
  BY ValuedNext
<1>3. QED
  BY <1>1, <1>2, MatchedAlways, PTL DEF Spec

\* After a relay that went well the central labels that half's frames with
\* the resolution the sensor has.
THEOREM KnownIsAppliedInvariant == ASSUME Prompt PROVE Spec => []KnownIsApplied
<1>1. Base /\ Matched /\ Valued => KnownIsApplied
  BY DEF Valued, Told, Applied, KnownIsApplied
<1>2. QED
  BY <1>1, ValuedAlways, PTL

\* A host is told, and frames are labelled with, the supported resolution that
\* is nearest to the one it asked for.
THEOREM NearestAppliedInvariant ==
  ASSUME Prompt, SnapsNearest PROVE Spec => []NearestApplied
<1>1. Base /\ Matched /\ Valued => NearestApplied
  <2> SUFFICES ASSUME Base, Valued, relay.pc = "idle", outcome.kind = "ok", relay.op = "set"
               PROVE  IsNearest(known, Supported(caps), relay.wanted)
    BY DEF NearestApplied
  <2>1. known = Snap(caps, relay.cpi)
    BY DEF Valued, Told, Applied
  <2>2. caps \in Declared /\ relay.wanted \in Requests /\ relay.cpi = Snap(caps, relay.wanted)
    BY DEF Base, Shape, Numbered
  <2>3. QED
    BY <2>1, <2>2 DEF SnapsNearest
<1>2. QED
  BY <1>1, ValuedAlways, PTL
=================================================================================
