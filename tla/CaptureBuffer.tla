---------------------------- MODULE CaptureBuffer ----------------------------
(* The burst buffer of an input capture (observer/capture.c): records are      *)
(* numbered and stored in one step, a frame as a delta from the frame before   *)
(* it when there is one, and read out in batches.  A record that does not fit  *)
(* is dropped but numbered, and a gap marker before the next record says how   *)
(* many were.                                                                  *)
(*                                                                             *)
(* Bytes are counted in units of a short record (five bytes or so).  Left out: *)
(* the ring's positions and the bytes of a delta.                              *)
EXTENDS Naturals, Sequences, FiniteSets

CONSTANTS
  Capacity,    \* zpt_capture_buffer.capacity
  BatchSize,   \* the capacity zpt_capture_drain peeks with
  WholeSize    \* what encode_full writes for a frame

ASSUME BufferAssumption ==
  /\ Capacity \in Nat /\ WholeSize \in Nat \ {0}
  /\ BatchSize \in Nat /\ BatchSize >= WholeSize

NoFrame == 0  \* no previous frame: records are numbered from 1 here

\* zpt_capture_buffer_reset: a new recording.  previous names the frame the next
\* delta is from.
NewBuffer == [stored |-> <<>>, next |-> 1, out |-> 1, gap |-> 0, previous |-> NoFrame]

\* What the ring holds: a gap marker, or a record with the frame it is encoded
\* against (NoFrame when it went whole).
Marker(missing) == [marker |-> TRUE, missing |-> missing, size |-> 1]
Slot(r, n, base) ==
  [marker |-> FALSE, record |-> r, n |-> n, base |-> base,
   size |-> IF r.kind = "frame" /\ base = NoFrame THEN WholeSize ELSE 1]

\* The units of the ring that slots take.
Used(slots) ==
  Cardinality({unit \in (DOMAIN slots) \X (1..WholeSize) : unit[2] <= slots[unit[1]].size})

\* The records of a batch, in which a marker only comes first.
RecordsIn(slots) == IF slots # <<>> /\ slots[1].marker THEN Tail(slots) ELSE slots

\* What encode_delta is relative to for record r; entered starts a trace afresh.
Base(b, r) == IF r.kind = "entered" THEN NoFrame ELSE b.previous

\* The record as put stores it, after the marker of a gap that is pending.
Encoded(b, r) ==
  (IF b.gap > 0 THEN <<Marker(b.gap)>> ELSE <<>>)
    \o <<Slot(r, b.next, IF r.kind = "frame" THEN b.previous ELSE NoFrame)>>

Fits(b, r) == Used(b.stored) + Used(Encoded(b, r)) <= Capacity

\* Slip: only the first record of a gap is counted.
DroppedOnce(b) == [b EXCEPT !.next = @ + 1, !.gap = 1, !.previous = NoFrame]

\* Slip: the next frame is a delta from the frame before the gap.
DroppedFollows(b) == [b EXCEPT !.next = @ + 1, !.gap = @ + 1]

\* zpt_capture_buffer_put without room.
Dropped(b) == [b EXCEPT !.next = @ + 1, !.gap = @ + 1, !.previous = NoFrame]

\* zpt_capture_buffer_put.
Put(b, r) ==
  IF ~Fits(b, r) THEN Dropped(b)
  ELSE [b EXCEPT !.next = @ + 1, !.gap = 0, !.stored = @ \o Encoded(b, r),
                 !.previous = IF r.kind = "frame" THEN b.next ELSE Base(b, r)]

\* The lengths of what one batch may cover: a marker at the very start, then
\* records up to the next marker, as many as BatchSize holds.
Batchable(slots) ==
  {k \in 1..Len(slots) :
     /\ \A i \in 2..k : ~slots[i].marker
     /\ Used(RecordsIn(SubSeq(slots, 1, k))) <= BatchSize}

\* zpt_capture_buffer_peek: the records, the sequence the host is told of the
\* first of them, and what consume will take.
Peek(b) ==
  LET most == IF Batchable(b.stored) = {} THEN 0
              ELSE CHOOSE k \in Batchable(b.stored) : \A j \in Batchable(b.stored) : j <= k
      taken == SubSeq(b.stored, 1, most)
      skip == IF most > 0 /\ b.stored[1].marker THEN b.stored[1].missing ELSE 0
  IN  [sequence |-> b.out + skip, records |-> RecordsIn(taken), slots |-> most]

\* zpt_capture_buffer_consume.
Consume(b, take) ==
  [b EXCEPT !.stored = SubSeq(@, take.slots + 1, Len(@)),
            !.out = take.sequence + Len(take.records)]

\* zpt_capture_buffer_discard.
Discard(b) == [b EXCEPT !.stored = <<>>, !.gap = 0, !.out = b.next, !.previous = NoFrame]
=============================================================================
