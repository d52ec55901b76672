------------------------------ MODULE SensorControl ------------------------------
(***************************************************************************)
(* Setting and reading the resolution of a sensor on the other half of a   *)
(* split keyboard: the proxy on the central half                           *)
(* (platform/zmk/sensor_control_proxy.c), the session that correlates      *)
(* answers (source/sensor_control_session.c), the agent on the peripheral  *)
(* half (platform/zmk/sensor_control_agent.c) and the link between them.   *)
(*                                                                         *)
(* The relay runs in the thread that serves the host, the receive callback *)
(* in the thread that gets the peripheral's events; between accepting an   *)
(* answer and giving the semaphore the callback may be held up.  The link  *)
(* keeps order and loses: a command to a half that is away is dropped in   *)
(* silence.  The peripheral may reboot.                                    *)
(*                                                                         *)
(* Requests are numbered by n.  The fields id and boots of a message, the  *)
(* field wanted of the relay and the variable heard are history: the code  *)
(* does not see them.                                                      *)
(***************************************************************************)
EXTENDS DeviceCaps

CONSTANTS
  Declared,     \* the declarations the device may have, the same on both halves
  Requests,     \* the resolutions a host asks for
  DefaultCpi,   \* device->default_cpi, in force after a reboot
  SeqMax,       \* ZPT_SCW_SEQ_MAX, 15 in the code
  FieldSize,    \* values of the wire's sequence field, 16 in the code
  MaxRequests,  \* bound on n
  MaxBoots,     \* bound on boots
  Prompt        \* the callback gives the semaphore before the next relay begins

ASSUME SensorControlAssumption ==
  /\ DefaultCpi \in Nat \ {0}
  /\ Requests \subseteq Nat
  /\ \A d \in Declared : Supported(d) \subseteq Nat \ {0} /\ Supported(d) # {}
  /\ SeqMax \in Nat \ {0} /\ FieldSize \in Nat /\ SeqMax < FieldSize
  /\ MaxRequests \in Nat /\ MaxBoots \in Nat
  /\ Prompt \in BOOLEAN

VARIABLES
  caps,      \* device->caps, compiled into both halves
  session,   \* struct zpt_scw_session
  heard,     \* the request and the boot that session's answer is from
  sem,       \* response_ready
  giving,    \* the callback took an answer and has yet to give the semaphore
  relay,     \* the relay in progress
  outcome,   \* what the last relay returned
  known,     \* the resolution the central labels frames with
  requests,  \* commands on their way to the peripheral
  answers,   \* events on their way to the central
  slot,      \* zpt_agent_pending
  queued,    \* zpt_agent_work is queued
  serving,   \* the request that zpt_agent_serve() copied
  cpi,       \* the resolution of the sensor
  n, boots

central == <<session, heard, sem, giving, relay, outcome, known>>
link == <<requests, answers>>
peripheral == <<slot, queued, serving, cpi>>
vars == <<caps, central, link, peripheral, n, boots>>

NoRequest == [seq |-> 0, id |-> 0, op |-> "none", cpi |-> 0]

\* What is left of a sequence number in the wire's field.
Wire(s) == s % FieldSize

Init ==
  /\ caps \in Declared
  /\ session = [last |-> 0, expected |-> 0, status |-> "ok", value |-> 0]
  /\ heard = [id |-> 0, boots |-> 0]
  /\ sem = 0
  /\ giving = FALSE
  /\ relay = [pc |-> "idle", op |-> "none", cpi |-> 0, wanted |-> 0]
  /\ outcome = [kind |-> "none", asked |-> 0, answered |-> 0]
  /\ known = DefaultCpi
  /\ requests = <<>> /\ answers = <<>>
  /\ slot = NoRequest /\ queued = FALSE /\ serving = NoRequest
  /\ cpi = DefaultCpi
  /\ n = 0 /\ boots = 0
--------------------------------------------------------------------------------
(* The relay *)

\* Nothing is still under way from the last request that had the sequence
\* number the next one will get.
Fresh ==
  \A r \in {requests[k] : k \in DOMAIN requests} \cup {answers[k] : k \in DOMAIN answers}
             \cup {serving} \cup (IF queued THEN {slot} ELSE {}) :
    r.id = 0 \/ n + 1 - r.id < SeqMax

\* The request of zpt_sensor_control_preview_remote(), which snaps what the host
\* wants, or of zpt_sensor_control_get_remote().
SetRequest(r) == [op |-> "set", cpi |-> Snap(caps, r), wanted |-> r]
GetRequest == [op |-> "get", cpi |-> 0, wanted |-> 0]

\* zpt_sensor_proxy_relay() resets the semaphore.
StartRelay(request) ==
  /\ relay.pc = "idle"
  /\ n < MaxRequests /\ Fresh
  /\ Prompt => ~giving
  /\ sem' = 0
  /\ relay' = [pc |-> "reset", op |-> request.op, cpi |-> request.cpi, wanted |-> request.wanted]
  /\ n' = n + 1
  /\ UNCHANGED <<caps, session, heard, giving, outcome, known, link, peripheral, boots>>

\* Slip: the sequence numbers run one past the wire's field.
NextSeqPastField == (session.last % (SeqMax + 1)) + 1

NextSeq == (session.last % SeqMax) + 1

\* Then it begins the session and sends.  The command goes out, is dropped
\* because the half is away, or is refused by ZMK's queue.
Send ==
  /\ relay.pc = "reset"
  /\ session' = [session EXCEPT !.last = NextSeq, !.expected = NextSeq]
  /\ \/ /\ requests' = Append(requests, [seq |-> Wire(NextSeq), id |-> n,
                                         op |-> relay.op, cpi |-> relay.cpi])
        /\ relay' = [relay EXCEPT !.pc = "waiting"]
     \/ /\ relay' = [relay EXCEPT !.pc = "waiting"]
        /\ UNCHANGED requests
     \/ /\ relay' = [relay EXCEPT !.pc = "unanswered"]
        /\ UNCHANGED requests
  /\ UNCHANGED <<caps, heard, sem, giving, outcome, known, answers, peripheral, n, boots>>

Take ==
  /\ relay.pc = "waiting" /\ sem = 1
  /\ sem' = 0
  /\ relay' = [relay EXCEPT !.pc = "answered"]
  /\ UNCHANGED <<caps, session, heard, giving, outcome, known, link, peripheral, n, boots>>

Timeout ==
  /\ relay.pc = "waiting" /\ sem = 0
  /\ relay' = [relay EXCEPT !.pc = "unanswered"]
  /\ UNCHANGED <<caps, session, heard, sem, giving, outcome, known, link, peripheral, n, boots>>

Returns(kind, from) ==
  /\ relay' = [relay EXCEPT !.pc = "idle"]
  /\ outcome' = [kind |-> kind, asked |-> n, answered |-> from]

\* An answer's value is recorded unless the answer is an error.
Answered ==
  /\ relay.pc = "answered"
  /\ Returns(session.status, heard.id)
  /\ known' = IF session.status = "ok" THEN session.value ELSE known
  /\ UNCHANGED <<caps, session, heard, sem, giving, link, peripheral, n, boots>>

\* Slip: the request is not abandoned.
UnansweredStaysOpen ==
  /\ relay.pc = "unanswered"
  /\ Returns("timeout", 0)
  /\ UNCHANGED <<caps, session, heard, sem, giving, known, link, peripheral, n, boots>>

Unanswered ==
  /\ relay.pc = "unanswered"
  /\ session' = [session EXCEPT !.expected = 0]
  /\ Returns("timeout", 0)
  /\ UNCHANGED <<caps, heard, sem, giving, known, link, peripheral, n, boots>>
--------------------------------------------------------------------------------
(* The receive callback *)

Offered(a) == session.expected # 0 /\ a.seq = session.expected

Receive ==
  /\ answers # <<>> /\ ~giving
  /\ answers' = Tail(answers)
  /\ IF Offered(Head(answers))
       THEN LET a == Head(answers)
            IN  /\ session' = [session EXCEPT !.expected = 0, !.status = a.status,
                                              !.value = a.value]
                /\ heard' = [id |-> a.id, boots |-> a.boots]
                /\ giving' = TRUE
       ELSE UNCHANGED <<session, heard, giving>>
  /\ UNCHANGED <<caps, sem, relay, outcome, known, requests, peripheral, n, boots>>

Give ==
  /\ giving
  /\ sem' = 1
  /\ giving' = FALSE
  /\ UNCHANGED <<caps, session, heard, relay, outcome, known, link, peripheral, n, boots>>
--------------------------------------------------------------------------------
(* The link and the agent *)

LoseRequest ==
  /\ requests # <<>>
  /\ requests' = Tail(requests)
  /\ UNCHANGED <<caps, central, answers, peripheral, n, boots>>

LoseAnswer ==
  /\ answers # <<>>
  /\ answers' = Tail(answers)
  /\ UNCHANGED <<caps, central, requests, peripheral, n, boots>>

\* zpt_agent_pressed(): the newest request takes the one slot.
Pressed ==
  /\ requests # <<>>
  /\ requests' = Tail(requests)
  /\ slot' = Head(requests)
  /\ queued' = TRUE
  /\ UNCHANGED <<caps, central, answers, serving, cpi, n, boots>>

StartServing ==
  /\ queued /\ serving = NoRequest
  /\ queued' = FALSE
  /\ serving' = slot
  /\ UNCHANGED <<caps, central, link, slot, cpi, n, boots>>

Answer(status, v) ==
  [seq |-> serving.seq, id |-> serving.id, boots |-> boots,
   status |-> status, value |-> v]

\* Slip: the driver's refusal of the resolution is not looked at.
ServeIgnoresDriver ==
  /\ serving # NoRequest
  /\ serving' = NoRequest
  /\ \/ /\ serving.op = "get"
        /\ answers' = Append(answers, Answer("ok", cpi))
        /\ UNCHANGED cpi
     \/ /\ serving.op = "set"
        /\ cpi' \in {Snap(caps, serving.cpi), cpi}
        /\ answers' = Append(answers, Answer("ok", Snap(caps, serving.cpi)))
  /\ UNCHANGED <<caps, central, requests, slot, queued, n, boots>>

\* zpt_device_control_serve() and the report: a get reads the resolution, a set
\* snaps it once more and changes it, either may fail and then changes nothing.
Serve ==
  /\ serving # NoRequest
  /\ serving' = NoRequest
  /\ \/ /\ serving.op = "get"
        /\ answers' = Append(answers, Answer("ok", cpi))
        /\ UNCHANGED cpi
     \/ /\ serving.op = "set"
        /\ cpi' = Snap(caps, serving.cpi)
        /\ answers' = Append(answers, Answer("ok", cpi'))
     \/ /\ answers' = Append(answers, Answer("error", 0))
        /\ UNCHANGED cpi
  /\ UNCHANGED <<caps, central, requests, slot, queued, n, boots>>

\* What the peripheral had is gone; events the central has yet to take stay.
Reboot ==
  /\ boots < MaxBoots
  /\ boots' = boots + 1
  /\ requests' = <<>>
  /\ slot' = NoRequest /\ queued' = FALSE /\ serving' = NoRequest
  /\ cpi' = DefaultCpi
  /\ UNCHANGED <<caps, central, answers, n>>

Next ==
  \/ \E request \in {SetRequest(r) : r \in Requests} \cup {GetRequest} : StartRelay(request)
  \/ Send \/ Take \/ Timeout \/ Answered \/ Unanswered
  \/ Receive \/ Give
  \/ LoseRequest \/ LoseAnswer
  \/ Pressed \/ StartServing \/ Serve \/ Reboot

Spec == Init /\ [][Next]_vars
--------------------------------------------------------------------------------
(* Properties *)

Cpis == Supported(caps) \cup {DefaultCpi}

RequestType ==
  [seq : 0..(FieldSize - 1), id : 0..MaxRequests, op : {"none", "get", "set"}, cpi : Cpis \cup {0}]

AnswerType ==
  [seq : 0..(FieldSize - 1), id : 0..MaxRequests, boots : 0..MaxBoots,
   status : {"ok", "error"}, value : Cpis \cup {0}]

TypeOK ==
  /\ caps \in Declared
  /\ session \in [last : 0..SeqMax, expected : 0..SeqMax,
                  status : {"ok", "error"}, value : Cpis \cup {0}]
  /\ heard \in [id : 0..MaxRequests, boots : 0..MaxBoots]
  /\ sem \in {0, 1} /\ giving \in BOOLEAN
  /\ relay \in [pc : {"idle", "reset", "waiting", "answered", "unanswered"},
                op : {"none", "get", "set"}, cpi : Cpis \cup {0}, wanted : Requests \cup {0}]
  /\ outcome \in [kind : {"none", "ok", "error", "timeout"},
                  asked : 0..MaxRequests, answered : 0..MaxRequests]
  /\ known \in Cpis
  /\ requests \in Seq(RequestType) /\ answers \in Seq(AnswerType)
  /\ slot \in RequestType /\ queued \in BOOLEAN /\ serving \in RequestType
  /\ cpi \in Cpis
  /\ n \in 0..MaxRequests /\ boots \in 0..MaxBoots

\* A relay that returns an answer returns the answer to its own request: one
\* that came late is dropped rather than answering a later request
\* (sensor_control_session.h:34-36, device-cpi-control.md, "Behavior").
AnswerIsOwn ==
  outcome.kind \in {"ok", "error"} => outcome.answered = outcome.asked

\* After a relay that went well the central labels that half's frames with
\* the resolution the sensor has, whatever became of earlier requests that
\* timed out, until another request or a reboot of the peripheral
\* (sensor_control_proxy.h: "which the central records").
KnownIsApplied ==
  relay.pc = "idle" /\ outcome.kind = "ok" /\ heard.boots = boots => known = cpi

\* What the snapping promises of the declarations: a request is snapped to the
\* nearest supported resolution, and that is snapped to itself.
SnapsNearest ==
  \A d \in Declared, r \in Requests :
    IsNearest(Snap(d, r), Supported(d), r) /\ Snap(d, Snap(d, r)) = Snap(d, r)

\* What a host is told, and what the central labels frames with, after it asked
\* for a resolution is the supported one nearest to it, the lower of two
\* (protocol.md, "snaps to the nearest supported value"; device_caps.h), although
\* either half snaps it and the answer of the peripheral is what counts.
NearestApplied ==
  relay.pc = "idle" /\ outcome.kind = "ok" /\ relay.op = "set" =>
    IsNearest(known, Supported(caps), relay.wanted)

\* The answer to the request that is outstanding is never taken for stale,
\* also when the sequence numbers start over (sensor_control_session_test.c,
\* "every sixteenth request timed out").
OwnAnswerTaken ==
  [][ Receive /\ relay.pc = "waiting" /\ session.expected # 0 /\ Head(answers).id = n
        => giving' /\ heard'.id = n ]_vars
================================================================================
