------------------------------- MODULE Capture -------------------------------
(* Recording a pipeline's input while the host tunes its stages.  The taps     *)
(* (observer/capture.c) run on the input thread inside a router's lock and     *)
(* submit records; the protocol worker (service/telemetry.c) answers requests  *)
(* and sends the records over Bluetooth (transport/gatt.c) as its notification *)
(* credits allow; a change of settings holds every router's lock               *)
(* (platform/zmk/stage_tuning.c).  The host numbers, decodes and splits what   *)
(* arrives as web/protocol.js and host/replay/capture-convert.js do.           *)
(*                                                                             *)
(* Each pipeline has a router of its own; those of Recordable are replayable.  *)
(* The host is one peer at a time, subscribed while connected.  Left out: the  *)
(* state samples and diagnostics, and the failure of lock_all, whose mutexes   *)
(* wait forever.                                                               *)
EXTENDS CaptureBuffer, StageTuning, SequencesExt

CONSTANTS
  Pipelines,    \* 1..n, in the order the routers are locked
  Recordable,   \* the pipelines a host asks to record
  Sources,      \* source id, resolution and report link of a frame
  Credits,      \* ZPT_GATT_CREDITS
  Changes,      \* the tuning requests a host makes
  MaxPresses,   \* bound: key presses
  MaxEvents     \* bound: key presses, requests, disconnects, and frames, flushes
                \* and route changes of Recordable, taken together

ASSUME CaptureAssumption ==
  /\ Pipelines = 1..Cardinality(Pipelines) /\ Recordable \subseteq Pipelines
  /\ Credits \in Nat \ {0}
  /\ \A r \in Changes : r.kind \in {"set", "reset"} /\ r.target \in Pipelines

VARIABLES
  settings,   \* the configuration in force of each pipeline's stage
  hash,       \* zpt_capture_hash: what it is the hash of
  recording,  \* zpt_capture_recording
  resync,     \* zpt_capture_resync
  buffer,     \* zpt_capture_buffer
  tap,        \* zpt_capture_entries[p].tap
  active,     \* pipeline->active
  lock,       \* who holds the router's mutex: "free", "frame" or "worker"
  todo,       \* records the frame, flush or route change has still to submit
  began,      \* history: the settings in force when the frame took the lock
  since,      \* history: frames and flushes since the pipeline was reset
  press,      \* last_keypress_ms, 0 while there is none
  frozen,     \* the keypress guard's frozen and frozen_ms
  wake,       \* zpt_wake
  w,          \* the worker
  asked,      \* requests in the receive ring
  conn,       \* zpt_gatt_conn, 0 for none
  credits,    \* zpt_gatt_credits
  air,        \* notifications on their way
  host,       \* the console's recorder
  used        \* what MaxEvents counts

input == <<active, todo, since, press, frozen>>
tuned == <<settings, hash, began>>
records == <<recording, resync, buffer, tap>>
link == <<conn, credits, air, host>>
vars == <<tuned, records, lock, input, wake, w, asked, link, used>>

None == 0
NoSource == "none"
Free == "free"
Live == [on |-> FALSE, press |-> 0]
NoTap == [source |-> NoSource, press |-> 0, last |-> FALSE, pending |-> FALSE, frozen |-> FALSE]
NoTrace == [on |-> FALSE]
NoRequest == [kind |-> "none"]
NoSend == [kind |-> "none"]
Idle == [pc |-> "idle", wait |-> FALSE, goal |-> NoRequest, send |-> NoSend, left |-> 0,
         conn |-> 0]
Away == [active |-> FALSE, own |-> FALSE, next |-> 1, base |-> NoFrame, trace |-> NoTrace]

Init ==
  /\ settings = [p \in Pipelines |-> Compiled]
  /\ hash = Compiled
  /\ recording = None /\ resync = FALSE /\ buffer = NewBuffer
  /\ tap = [p \in Pipelines |-> NoTap]
  /\ active = [p \in Pipelines |-> TRUE]
  /\ lock = [p \in Pipelines |-> Free]
  /\ todo = [p \in Pipelines |-> <<>>]
  /\ began = settings
  /\ since = [p \in Pipelines |-> 0]
  /\ press = 0 /\ frozen = Live
  /\ wake = FALSE /\ w = Idle /\ asked = <<>>
  /\ conn = 0 /\ credits = Credits /\ air = <<>> /\ host = Away
  /\ used = 0

-----------------------------------------------------------------------------
(* The input thread: what the taps record.                                   *)

Record(kind, is) == [kind |-> kind, is |-> is]
\* What the stages ran with, for the records replay runs them on.
Truth(p, n, source, pressed) ==
  [since |-> n, settings |-> settings[p], source |-> source, press |-> pressed]
Run(kind, truth) == [kind |-> kind, is |-> truth.source, truth |-> truth]

\* Slip: the key press is not described again in the new trace.
RestartedPressed(t) == [NoTap EXCEPT !.frozen = t.frozen, !.press = t.press]

\* restart.
Restarted(t) == [NoTap EXCEPT !.frozen = t.frozen]

\* resync_at_rest, up to taking the request.
ResyncDue(t, rested) == t.last /\ rested

\* Slip: the guard is read but left as it is.
ReadOnly == Live

\* freeze_keypress: what the guard holds from here on.
Frozen == [on |-> TRUE, press |-> press]

\* record_keypress: the record if the press is new.
PressRecord(t) == IF press # 0 /\ press # t.press THEN <<Record("keypress", press)>> ELSE <<>>

Counted == used < MaxEvents /\ used' = used + 1

Begin(p) ==
  /\ lock[p] = Free
  /\ lock' = [lock EXCEPT ![p] = "frame"]
  /\ began' = [began EXCEPT ![p] = settings[p]]
  /\ IF p \in Recordable THEN Counted ELSE UNCHANGED used

\* A frame or flush of a pipeline that is not recorded: its tap does nothing.
Unrecorded(p) ==
  /\ recording # p /\ active[p] /\ Begin(p)
  /\ since' = IF p \in Recordable THEN [since EXCEPT ![p] = @ + 1] ELSE since
  /\ UNCHANGED <<settings, hash, records, active, todo, press, frozen, wake, w, asked, link>>

\* tap_input: resync_at_rest, describe_source, record_keypress, then the frame.
\* Whether the pipeline rested long enough, with no deadline left, is an input.
Frame(p, source, rested) ==
  LET due == ResyncDue(tap[p], rested)
      fresh == due /\ (resync \/ tap[p].pending)
      t == IF fresh THEN Restarted(tap[p]) ELSE tap[p]
      n == IF fresh THEN 0 ELSE since[p]
  IN  /\ recording = p /\ active[p] /\ Begin(p)
      /\ resync' = (resync /\ ~due)
      /\ tap' = [tap EXCEPT ![p] =
                   [source |-> source, press |-> press, last |-> TRUE, frozen |-> TRUE,
                    pending |-> t.pending \/ t.source \notin {NoSource, source}]]
      /\ frozen' = Frozen
      /\ since' = [since EXCEPT ![p] = n + 1]
      /\ todo' = [todo EXCEPT ![p] =
                    (IF fresh THEN <<Record("entered", hash)>> ELSE <<>>)
                      \o (IF t.source # source THEN <<Record("source", source)>> ELSE <<>>)
                      \o PressRecord(t) \o <<Run("frame", Truth(p, n, source, press))>>]
      /\ UNCHANGED <<settings, hash, recording, buffer, active, press, wake, w, asked, link>>

\* tap_flush, when some deadline is due.
Flush(p) ==
  /\ recording = p /\ active[p] /\ Begin(p)
  /\ tap' = [tap EXCEPT ![p].press = press, ![p].frozen = TRUE]
  /\ frozen' = Frozen
  /\ since' = [since EXCEPT ![p] = @ + 1]
  /\ todo' = [todo EXCEPT ![p] = PressRecord(tap[p])
                \o <<Run("flush", Truth(p, since[p], tap[p].source, press))>>]
  /\ UNCHANGED <<settings, hash, recording, resync, buffer, active, press, wake, w, asked, link>>

\* A route change: tap_lifecycle, and the reset that comes with it.
Route(p) ==
  /\ p \in Recordable /\ Begin(p)
  /\ active' = [active EXCEPT ![p] = ~@]
  /\ since' = [since EXCEPT ![p] = 0]
  /\ IF recording = p
     THEN /\ todo' = [todo EXCEPT ![p] = <<IF active[p] THEN Record("left", None)
                                                        ELSE Record("entered", hash)>>]
          /\ tap' = IF active[p] THEN tap ELSE [tap EXCEPT ![p] = Restarted(@)]
     ELSE UNCHANGED <<todo, tap>>
  /\ UNCHANGED <<settings, hash, recording, resync, buffer, press, frozen, wake, w, asked, link>>

\* zpt_capture_submit.  A record that is not stored does not wake the worker.
Submitted(r) ==
  LET b == Put(buffer, r) IN
  IF recording = None THEN wake' = TRUE /\ UNCHANGED <<buffer, resync>>
  ELSE /\ buffer' = b
       /\ resync' = (resync \/ ~Fits(buffer, r))
       /\ wake' = (wake \/ Fits(buffer, r))

Submit(p) ==
  /\ lock[p] = "frame" /\ todo[p] # <<>>
  /\ Submitted(Head(todo[p]))
  /\ todo' = [todo EXCEPT ![p] = Tail(@)]
  /\ UNCHANGED <<tuned, recording, tap, lock, active, since, press, frozen, w, asked, link, used>>

\* The stages ran; tap_done thaws the guard, and the router's mutex is released.
End(p) ==
  /\ lock[p] = "frame" /\ todo[p] = <<>>
  /\ lock' = [lock EXCEPT ![p] = Free]
  /\ began' = [began EXCEPT ![p] = Compiled]
  /\ tap' = [tap EXCEPT ![p].frozen = FALSE]
  /\ frozen' = IF tap[p].frozen THEN Live ELSE frozen
  /\ UNCHANGED <<settings, hash, recording, resync, buffer, active, todo, since, press, wake, w, asked, link, used>>

\* position_state_changed_listener.
KeyPress ==
  /\ press < MaxPresses /\ Counted
  /\ press' = press + 1
  /\ UNCHANGED <<tuned, records, lock, active, todo, since, frozen, wake, w, asked, link>>

-----------------------------------------------------------------------------
(* The worker: one turn of zpt_thread.                                       *)

Status(p) == [kind |-> "status", recording |-> p]
Result == [kind |-> "result"]

\* Between two frames of zpt_receive, having answered the last.
Receiving == [Idle EXCEPT !.pc = "receive"]

\* Where zpt_capture_drain returns to: zpt_handle_capture_control drains again,
\* waiting, and then starts the recording it was asked for or reports.
Drained ==
  IF w.goal.kind = "none" THEN Idle
  ELSE IF ~w.wait THEN [w EXCEPT !.pc = "drain", !.wait = TRUE, !.send = NoSend]
  ELSE [w EXCEPT !.pc = IF w.goal.target = None THEN "answer" ELSE "lock", !.send = NoSend]

Wake ==
  /\ w.pc = "idle" /\ wake
  /\ wake' = FALSE
  /\ w' = Receiving
  /\ UNCHANGED <<tuned, records, lock, input, asked, link, used>>

\* zpt_receive and zpt_dispatch.  A capture control stops the recording; a tuning request that is refused is answered at once.
Receive ==
  /\ w.pc = "receive" /\ asked # <<>>
  /\ LET r == Head(asked)
         through == r.kind = "reset" \/ (r.kind = "set" /\ Applies(settings[r.target], r.values))
     IN  /\ w' = [Receiving EXCEPT !.goal = r,
                     !.pc = IF r.kind = "control" THEN "drain"
                            ELSE IF through THEN "lock" ELSE "answer"]
         /\ recording' = IF r.kind = "control" THEN None ELSE recording
  /\ asked' = Tail(asked)
  /\ UNCHANGED <<tuned, resync, buffer, tap, lock, input, wake, link, used>>

\* zpt_drain_records, when the host was last heard from too long ago: the
\* recording ends.  Time passes as it likes.
TimedOut ==
  /\ w.pc = "receive" /\ asked = <<>> /\ recording # None
  /\ recording' = None
  /\ buffer' = Discard(buffer)
  /\ w' = Idle
  /\ UNCHANGED <<tuned, resync, tap, lock, input, wake, asked, link, used>>

Chunks(take) == Len(take.records)
Smaller(m, n) == IF m < n THEN m ELSE n

\* zpt_capture_drain, from zpt_drain_records too.
Draining == w.pc = "drain" \/ (w.pc = "receive" /\ asked = <<>>)

\* zpt_capture_drain up to the send: nothing stored, or no room for a batch that
\* may be dropped.
NothingToSend ==
  \/ ~w.wait /\ credits = 0
  \/ Peek(buffer).records = <<>>
  \/ ~w.wait /\ conn # 0 /\ credits < Smaller(Chunks(Peek(buffer)), Credits)

Rest ==
  /\ Draining /\ NothingToSend
  /\ w' = Drained
  /\ UNCHANGED <<tuned, records, lock, input, wake, asked, link, used>>

\* zpt_gatt_send of a batch, or of the answer to a request.
Send ==
  /\ LET take == Peek(buffer)
         Sending(frame, chunks) ==
           w' = [w EXCEPT !.pc = "send", !.send = frame, !.conn = conn, !.left = chunks]
     IN  \/ /\ Draining /\ ~NothingToSend
            /\ Sending([kind |-> "batch", take |-> take], Chunks(take))
         \/ /\ w.pc = "answer"
            /\ Sending(IF w.goal.kind = "control" THEN Status(recording) ELSE Result, 1)
  /\ UNCHANGED <<tuned, records, lock, input, wake, asked, link, used>>

\* zpt_gatt_notify_frame: each notification takes a credit.  The records are
\* consumed once the last is handed over; the snapshot they were read from may
\* be older than the buffer by then.
Notify ==
  /\ w.pc = "send" /\ w.conn # 0 /\ w.conn = conn /\ credits > 0
  /\ credits' = credits - 1
  /\ air' = Append(air, [frame |-> w.send, last |-> w.left = 1])
  /\ IF w.left > 1 THEN w' = [w EXCEPT !.left = @ - 1] /\ UNCHANGED buffer
     ELSE IF w.send.kind = "batch"
     THEN w' = [w EXCEPT !.pc = "drain", !.send = NoSend] /\ buffer' = Consume(buffer, w.send.take)
     ELSE w' = Receiving /\ UNCHANGED buffer
  /\ UNCHANGED <<tuned, recording, resync, tap, lock, input, wake, asked, conn, host, used>>

\* The link the frame was for is gone.  A drain that waits gives up what is left.
SendFails ==
  /\ w.pc = "send" /\ (w.conn = 0 \/ w.conn # conn)
  /\ LET lost == w.send.kind = "batch" /\ w.wait
     IN  /\ buffer' = IF lost THEN Discard(buffer) ELSE buffer
         /\ resync' = (resync \/ lost)
         /\ w' = IF w.send.kind = "batch" THEN Drained ELSE Receiving
  /\ UNCHANGED <<tuned, recording, tap, lock, input, wake, asked, link, used>>

\* Slip: as if there were one router.
LocksFirst(goal) == {1}

\* zpt_zmk_router_lock_all.
Locks(goal) == Pipelines

Held == {p \in Pipelines : lock[p] = "worker"}
Wanted == Locks(w.goal) \ Held
Released == [p \in Pipelines |-> IF p \in Held THEN Free ELSE lock[p]]

\* One router after the other in their order, waiting for each.
LockNext ==
  /\ w.pc = "lock" /\ Wanted # {}
  /\ LET p == CHOOSE p \in Wanted : \A q \in Wanted : p <= q
     IN  lock[p] = Free /\ lock' = [lock EXCEPT ![p] = "worker"]
  /\ UNCHANGED <<tuned, records, input, wake, w, asked, link, used>>

\* zpt_capture_start_between_frames and zpt_capture_tap_start: the buffer starts
\* afresh, and an active pipeline is reset and entered.
Start ==
  /\ w.pc = "lock" /\ Wanted = {} /\ w.goal.kind = "control"
  /\ LET p == w.goal.target IN
       /\ hash' = settings[p]
       /\ recording' = p /\ resync' = FALSE
       /\ tap' = [tap EXCEPT ![p] = Restarted(@)]
       /\ buffer' = IF active[p] THEN Put(NewBuffer, Record("entered", settings[p])) ELSE NewBuffer
       /\ since' = IF active[p] THEN [since EXCEPT ![p] = 0] ELSE since
       /\ wake' = (wake \/ active[p])
  /\ lock' = Released
  /\ w' = [w EXCEPT !.pc = "answer"]
  /\ UNCHANGED <<settings, began, active, todo, press, frozen, asked, link, used>>

Candidate ==
  IF w.goal.kind = "reset" THEN Restored(settings[w.goal.target])
  ELSE Prepared(settings[w.goal.target], w.goal.values)

\* apply_between_frames: memcpy, in two halves ...
CopyFirst ==
  /\ w.pc = "lock" /\ Wanted = {} /\ w.goal.kind \in {"set", "reset"}
  /\ settings' = [settings EXCEPT ![w.goal.target]["low"] = Candidate["low"]]
  /\ w' = [w EXCEPT !.pc = "copy"]
  /\ UNCHANGED <<hash, began, records, lock, input, wake, asked, link, used>>

\* zpt_capture_settings_changed: the hash of the recorded pipeline.
HashNow(p, config) == IF recording = p THEN config ELSE hash

\* ... then zpt_capture_settings_changed.
CopyLast ==
  /\ w.pc = "copy"
  /\ settings' = [settings EXCEPT ![w.goal.target] = Candidate]
  /\ hash' = HashNow(w.goal.target, Candidate)
  /\ IF recording = None THEN UNCHANGED <<buffer, resync, wake>>
     ELSE LET r == Record("changed", None) IN
       /\ buffer' = Put(buffer, r) /\ resync' = TRUE
       /\ wake' = (wake \/ Fits(buffer, r))
  /\ lock' = Released
  /\ w' = [w EXCEPT !.pc = "answer"]
  /\ UNCHANGED <<began, recording, tap, input, asked, link, used>>

-----------------------------------------------------------------------------
(* The link and the host.                                                    *)

\* captureDecoder and the trace under way, as a recording starts.
Listening == [Away EXCEPT !.active = TRUE]

\* parseCaptureBatch and segments, for one record with the number n the host
\* gives it.  A delta with no frame to follow is left out.
Split(trace, r) ==
  IF r.kind = "entered"
  THEN [on |-> TRUE, settings |-> r.is, source |-> NoSource, press |-> 0, since |-> 0]
  ELSE IF ~trace.on \/ r.kind \in {"left", "changed"} THEN NoTrace
  ELSE CASE r.kind = "source" -> IF trace.source = NoSource THEN [trace EXCEPT !.source = r.is] ELSE NoTrace
         [] r.kind = "keypress" -> [trace EXCEPT !.press = r.is]
         [] OTHER -> [trace EXCEPT !.since = @ + 1]

Skipped(h, s) == s.record.kind = "frame" /\ s.base # NoFrame /\ h.base = NoFrame
Decoded(h, s, n) ==
  [h EXCEPT
     !.next = n + 1,
     !.base = IF Skipped(h, s) \/ s.record.kind = "entered" THEN NoFrame
              ELSE IF s.record.kind = "frame" THEN n ELSE @,
     !.trace = IF Skipped(h, s) THEN NoTrace ELSE Split(@, s.record)]

\* The host before each record of a batch, and after the last.  The first
\* record's number tells whether records are missing before it.
Heard(h, take) ==
  LET found == IF take.sequence = h.next THEN h ELSE [h EXCEPT !.base = NoFrame, !.trace = NoTrace]
      hs[i \in 1..(Len(take.records) + 1)] ==
        IF i = 1 THEN found
        ELSE Decoded(hs[i - 1], take.records[i - 1], take.sequence + i - 2)
  IN  hs

Received(frame) ==
  IF ~host.active \/ frame.kind = "result" THEN host
  ELSE IF frame.kind = "batch" THEN Last(Heard(host, frame.take))
  ELSE IF frame.recording = None THEN Away ELSE [host EXCEPT !.own = TRUE]

\* Slip: only a request wakes the worker.
SentQuietly == wake

\* zpt_gatt_sent.
SentWakes == TRUE

\* A notification went out: the credit comes back.
Sent ==
  /\ air # <<>>
  /\ air' = Tail(air)
  /\ credits' = credits + 1
  /\ wake' = SentWakes
  /\ host' = IF Head(air).last THEN Received(Head(air).frame) ELSE host
  /\ UNCHANGED <<tuned, records, lock, input, w, asked, conn, used>>

\* zpt_gatt_disconnected; the recorder ends what it records.
Disconnect ==
  /\ conn # 0 /\ Counted
  /\ conn' = 0 /\ credits' = Credits /\ air' = <<>> /\ host' = Away
  /\ UNCHANGED <<tuned, records, lock, input, wake, w, asked>>

Controls ==
  {[kind |-> "control", target |-> p] : p \in IF host.active THEN {None} ELSE Recordable}

\* A connection the worker holds no reference to.
NewConn == IF w.conn = 1 THEN 2 ELSE 1

\* zpt_gatt_write by the recorder or the tuner, one request at a time.
Ask(r) ==
  /\ asked = <<>> /\ Counted
  /\ asked' = <<r>>
  /\ wake' = TRUE
  /\ conn' = IF conn # 0 THEN conn ELSE NewConn
  /\ host' = IF r.kind = "control" /\ ~host.active THEN Listening ELSE host
  /\ UNCHANGED <<tuned, records, lock, input, w, credits, air>>

Next ==
  \/ \E p \in Pipelines :
       \/ \E source \in Sources, rested \in BOOLEAN : Frame(p, source, rested)
       \/ Flush(p) \/ Unrecorded(p) \/ Route(p) \/ Submit(p) \/ End(p)
  \/ KeyPress
  \/ Wake \/ Receive \/ TimedOut \/ Rest \/ Send \/ Notify \/ SendFails
  \/ LockNext \/ Start \/ CopyFirst \/ CopyLast
  \/ Sent \/ Disconnect
  \/ \E r \in Controls \cup Changes : Ask(r)

Spec == Init /\ [][Next]_vars

-----------------------------------------------------------------------------
(* What must hold.                                                           *)

\* A batch reaches the host, and P holds of each of its records: of the host h
\* before it, the slot s it was stored in and the number n the host gives it.
Arrivals(P(_, _, _)) ==
  air # <<>> /\ air' = Tail(air) /\ conn' = conn
    /\ Head(air).last /\ Head(air).frame.kind = "batch" /\ host.active =>
    LET take == Head(air).frame.take
        hs == Heard(host, take)
    IN  \A i \in DOMAIN take.records : P(hs[i], take.records[i], take.sequence + i - 1)

\* protocol.md, "Drops and resyncs": the host sees every drop as a gap.  The
\* number it gives a record is the number the record had when it was submitted.
NumbersTrue == [][Arrivals(LAMBDA h, s, n : n = s.n)]_vars

\* protocol.md, delta frames: the host follows a delta from the very frame the
\* firmware took it from, and once its own recording runs it skips none.
DeltasDecode ==
  [][Arrivals(LAMBDA h, s, n :
       s.record.kind = "frame" /\ s.base # NoFrame =>
         h.base = s.base \/ (h.base = NoFrame /\ ~h.own))]_vars

\* protocol.md, "Turning a capture into a trace" and the test capture_replay:
\* a frame or flush of a trace replays after as many frames and flushes since
\* the reset, with the settings, source and key press its stages had.
ReplayExact ==
  [][Arrivals(LAMBDA h, s, n :
       s.record.kind \in {"frame", "flush"} /\ h.trace.on /\ ~Skipped(h, s) =>
         /\ h.trace.since = s.record.truth.since
         /\ h.trace.settings = s.record.truth.settings
         /\ h.trace.press = s.record.truth.press
         /\ s.record.kind = "frame" => h.trace.source = s.record.truth.source)]_vars

\* What the guard answers the stages that ask about the last key press.
View == IF frozen.on THEN frozen.press ELSE press

\* observer/capture.c:271: the recording holds exactly the key press the stages
\* decide with, whenever another comes while the frame or flush runs.
PressHeld == \A p \in Pipelines : lock[p] = "frame" /\ tap[p].frozen => View = tap[p].press

\* platform/zmk/stage_tuning.c:10: the settings a frame runs with are valid
\* together, and do not change while it runs.
SettingsWhole ==
  \A p \in Pipelines : lock[p] = "frame" => settings[p] = began[p] /\ Valid(settings[p])

\* service/telemetry.c:1302: stored records do not wait for an event that never
\* comes: while the worker sleeps a notification is out, or nobody is connected;
\* and a worker that waits for a credit has one coming.
NothingStranded ==
  /\ w.pc = "idle" /\ ~wake /\ buffer.stored # <<>> => conn = 0 \/ air # <<>>
  /\ w.pc = "send" /\ w.conn # 0 /\ w.conn = conn /\ credits = 0 => air # <<>>
=============================================================================
