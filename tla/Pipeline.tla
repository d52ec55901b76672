-------------------------------- MODULE Pipeline --------------------------------
(***************************************************************************)
(* One pipeline, src/src/core/pipeline.c: a chain of stages and a sink run *)
(* by push, flush, deactivate and activate.                                *)
(*                                                                         *)
(* An operation runs on one thread and calls into stage code, which calls  *)
(* back into zpt_stage_emit(), zpt_stage_schedule_flush() and              *)
(* zpt_stage_cancel_flush().  The call stack is a state variable: a frame  *)
(* for each stage call that has not returned.  A stage is any code that    *)
(* emits at most MaxEmit signals per call, moves its own deadline as it    *)
(* likes, succeeds or fails, and passes on the error of an emission that   *)
(* failed, as every stage of the repository does.                          *)
(*                                                                         *)
(* A signal is named by where it comes from: the input of a push is <<>>,  *)
(* the call of stage i by flush or deactivate is <<i>>, and the k-th       *)
(* emission of a call named p is Append(p, k).                             *)
(***************************************************************************)
EXTENDS Integers, Sequences, FiniteSets

CONSTANTS
  StageCount,  \* pipeline->stage_count
  Budget,      \* pipeline->dispatch_budget
  MaxEmit,     \* bound on the emissions of one stage call
  Period,      \* size of the uptime range, 2^32 in the code
  Intervals    \* how far ahead of now a stage sets its deadline

ASSUME PipelineAssumption ==
  /\ StageCount \in Nat \ {0}
  /\ Budget \in Nat \ {0}
  /\ MaxEmit \in Nat
  /\ Period \in Nat \ {0}
  /\ \A d \in Intervals : d \in Nat /\ 0 < d /\ 2 * d < Period

VARIABLES
  active,      \* pipeline->active
  deadline,    \* stage->deadline_ms, or NoDeadline if not deadline_pending
  live,        \* lifecycle of each stage's own state
  op,          \* the operation running, or the last one
  stack,       \* stage calls in progress, outermost first
  pending,     \* operation->pending and pending_index, or NoSignal
  reg,         \* what the call that just returned gave; "none" inside a call
  dispatched,  \* signals dispatch_at() has spent budget on, in order
  emitted      \* signals whose zpt_stage_emit() returned 0

vars == <<active, deadline, live, op, stack, pending, reg, dispatched, emitted>>
--------------------------------------------------------------------------------
Stages == 1..StageCount
Times == 0..(Period - 1)
NoDeadline == -1
NoSignal == [at |-> 0, path |-> <<>>]
Signal(i, p) == [at |-> i, path |-> p]

\* A call of stage i on behalf of signal p: what it emitted so far, the
\* emission that waits for the previous one, whether an emission failed.
Frame(i, p) ==
  [at |-> i, path |-> p, sent |-> 0, held |-> NoSignal, failed |-> FALSE]

Top == stack[Len(stack)]
Below == SubSeq(stack, 1, Len(stack) - 1)

\* Slip: the comparison of raw timestamps.
ReachedRaw(now, d) == now >= d

\* time_reached(): the sign of the wrapped difference.
Reached(now, d) == 2 * ((now - d) % Period) < Period

Pending(i) == deadline[i] # NoDeadline
Due(now) == {i \in Stages : Pending(i) /\ Reached(now, deadline[i])}

First(S) == CHOOSE i \in S : \A j \in S : i <= j

NothingPending == [i \in Stages |-> NoDeadline]
AllStages(phase) == [i \in Stages |-> phase]

\* The operation's code has control: no stage call is in progress.
InLoop == op.running /\ stack = <<>> /\ reg # "none"

\* drain() has nothing left to dispatch.
Drained == reg = "error" \/ pending = NoSignal

Init ==
  /\ active = FALSE
  /\ deadline = NothingPending
  /\ live = AllStages("reset")
  /\ op = [kind |-> "none", running |-> FALSE, now |-> 0, at |-> 0,
           left |-> 0, failed |-> FALSE]
  /\ stack = <<>>
  /\ pending = NoSignal
  /\ reg = "none"
  /\ dispatched = <<>>
  /\ emitted = {}
--------------------------------------------------------------------------------
(* Operations *)

\* begin_operation(), then drain() over what `first` holds.
Begin(kind, now, first) ==
  /\ op' = [kind |-> kind, running |-> TRUE, now |-> now, at |-> 0,
            left |-> Budget, failed |-> FALSE]
  /\ pending' = first
  /\ reg' = "ok"
  /\ dispatched' = <<>>
  /\ emitted' = {}
  /\ UNCHANGED <<active, deadline, live, stack>>

Finish(failed) ==
  /\ op' = [op EXCEPT !.running = FALSE, !.failed = failed]
  /\ pending' = NoSignal
  /\ reg' = "none"
  /\ UNCHANGED <<stack, dispatched, emitted>>

\* The activation callbacks get no context, so they emit and schedule
\* nothing; one that fails undoes the activation by a reset of every stage.
Activate ==
  /\ ~op.running /\ ~active
  /\ \/ /\ active' = TRUE
        /\ live' = AllStages("active")
     \/ /\ active' = FALSE
        /\ live' = AllStages("reset")
  /\ deadline' = NothingPending
  /\ op' = [op EXCEPT !.kind = "activate", !.failed = ~active']
  /\ UNCHANGED <<stack, pending, reg, dispatched, emitted>>

\* zpt_pipeline_reset() of a running pipeline, which an input capture asks
\* for: deadlines go, the stages forget their motion and stay activated.
Reset ==
  /\ ~op.running /\ active
  /\ deadline' = NothingPending
  /\ op' = [op EXCEPT !.kind = "reset", !.failed = FALSE]
  /\ UNCHANGED <<active, live, stack, pending, reg, dispatched, emitted>>

\* -EACCES or -EALREADY: the operation does not fit the pipeline's state.
Refuse ==
  /\ ~op.running
  /\ op' = [op EXCEPT !.kind = "refused", !.failed = TRUE]
  /\ UNCHANGED <<active, deadline, live, stack, pending, reg, dispatched, emitted>>

Push(now) ==
  /\ ~op.running /\ active
  /\ Begin("push", now, Signal(1, <<>>))

PushReturns ==
  /\ op.kind = "push" /\ InLoop /\ Drained
  /\ Finish(reg = "error")
  /\ UNCHANGED <<active, deadline, live>>

Flush(now) ==
  /\ ~op.running /\ active
  /\ Begin("flush", now, NoSignal)

\* The loop of flush reaches the next stage whose deadline has come.
FlushNext ==
  LET rest == {i \in Due(op.now) : i > op.at}
  IN  /\ op.kind = "flush" /\ InLoop /\ Drained
      /\ reg = "ok" /\ rest # {}
      /\ op' = [op EXCEPT !.at = First(rest)]
      /\ deadline' = [deadline EXCEPT ![First(rest)] = NoDeadline]
      /\ stack' = <<Frame(First(rest), <<First(rest)>>)>>
      /\ reg' = "none"
      /\ UNCHANGED <<active, live, pending, dispatched, emitted>>

FlushReturns ==
  /\ op.kind = "flush" /\ InLoop /\ Drained
  /\ reg = "error" \/ \A i \in Due(op.now) : i <= op.at
  /\ Finish(reg = "error")
  /\ UNCHANGED <<active, deadline, live>>

Deactivate(now) ==
  /\ ~op.running /\ active
  /\ Begin("deactivate", now, NoSignal)

\* The stage that was leaving has left.
Left == [live EXCEPT ![op.at] = "ended"]

\* Slip: the loop visits the stages from the sink's end to the input's.
DeactivateNextReversed ==
  LET i == StageCount - op.at
  IN  /\ op.kind = "deactivate" /\ InLoop /\ Drained
      /\ op.at < StageCount
      /\ live' = IF op.at = 0 THEN live ELSE [live EXCEPT ![i + 1] = "ended"]
      /\ op' = [op EXCEPT !.at = @ + 1, !.failed = @ \/ reg = "error"]
      /\ deadline' = [deadline EXCEPT ![i] = NoDeadline]
      /\ stack' = <<Frame(i, <<i>>)>>
      /\ pending' = NoSignal
      /\ reg' = "none"
      /\ UNCHANGED <<active, dispatched, emitted>>

\* The loop of deactivate goes on to the next stage whatever the last one
\* returned.
DeactivateNext ==
  LET i == op.at + 1
  IN  /\ op.kind = "deactivate" /\ InLoop /\ Drained
      /\ op.at < StageCount
      /\ live' = IF op.at = 0 THEN live ELSE Left
      /\ op' = [op EXCEPT !.at = i, !.failed = @ \/ reg = "error"]
      /\ deadline' = [deadline EXCEPT ![i] = NoDeadline]
      /\ stack' = <<Frame(i, <<i>>)>>
      /\ pending' = NoSignal
      /\ reg' = "none"
      /\ UNCHANGED <<active, dispatched, emitted>>

\* Slip: only the active flag goes, without the final reset.
DeactivateReturnsUnreset ==
  /\ op.kind = "deactivate" /\ InLoop /\ Drained
  /\ op.at = StageCount
  /\ active' = FALSE
  /\ live' = Left
  /\ \E sink \in BOOLEAN : Finish(op.failed \/ reg = "error" \/ ~sink)
  /\ UNCHANGED deadline

\* After the last stage the sink leaves, then everything is reset.
DeactivateReturns ==
  /\ op.kind = "deactivate" /\ InLoop /\ Drained
  /\ op.at = StageCount
  /\ active' = FALSE
  /\ live' = AllStages("reset")
  /\ deadline' = NothingPending
  /\ \E sink \in BOOLEAN : Finish(op.failed \/ reg = "error" \/ ~sink)
--------------------------------------------------------------------------------
(* The drain loop and the calls of a stage *)

\* dispatch_at() of the held signal, which leaves the slot first.  The sink
\* may accept or fail; a stage call starts and has yet to return.
Dispatch ==
  /\ op.running /\ reg = "ok" /\ pending # NoSignal
  /\ pending' = NoSignal
  /\ \/ /\ op.left = 0
        /\ reg' = "error"
        /\ UNCHANGED <<op, stack, dispatched>>
     \/ /\ op.left > 0
        /\ op' = [op EXCEPT !.left = @ - 1]
        /\ dispatched' = Append(dispatched, pending.path)
        /\ \/ /\ pending.at > StageCount
              /\ reg' \in {"ok", "error"}
              /\ UNCHANGED stack
           \/ /\ pending.at <= StageCount
              /\ reg' = "none"
              /\ stack' = Append(stack, Frame(pending.at, pending.path))
  /\ UNCHANGED <<active, deadline, live, emitted>>

\* A stage has control.
InStage == op.running /\ stack # <<>> /\ reg = "none"

\* Slip: the emission is addressed to the stage that made it.
EmissionToSelf == Signal(Top.at, Append(Top.path, Top.sent + 1))

Emission == Signal(Top.at + 1, Append(Top.path, Top.sent + 1))

\* The first emission of a call waits in the slot for the stage to return.
Emit ==
  /\ InStage /\ Top.sent < MaxEmit /\ ~Top.failed
  /\ pending = NoSignal
  /\ stack' = [stack EXCEPT ![Len(stack)].sent = @ + 1]
  /\ pending' = Emission
  /\ emitted' = emitted \cup {Emission.path}
  /\ UNCHANGED <<active, deadline, live, op, reg, dispatched>>

\* Slip: the new emission takes the slot and the earlier one waits.
EmitAgainSwaps ==
  /\ InStage /\ Top.sent < MaxEmit /\ ~Top.failed
  /\ pending # NoSignal
  /\ stack' = [stack EXCEPT ![Len(stack)].sent = @ + 1,
                            ![Len(stack)].held = pending]
  /\ pending' = Emission
  /\ reg' = "ok"
  /\ UNCHANGED <<active, deadline, live, op, dispatched, emitted>>

\* A later emission finds the slot taken: what is there is finished
\* downstream while the stage waits inside zpt_stage_emit().
EmitAgain ==
  /\ InStage /\ Top.sent < MaxEmit /\ ~Top.failed
  /\ pending # NoSignal
  /\ stack' = [stack EXCEPT ![Len(stack)].sent = @ + 1,
                            ![Len(stack)].held = Emission]
  /\ reg' = "ok"
  /\ UNCHANGED <<active, deadline, live, op, pending, dispatched, emitted>>

\* Slip: the result of the earlier emission is ignored.
EmitAgainReturnsAnyway ==
  /\ op.running /\ stack # <<>> /\ reg # "none" /\ Drained
  /\ stack' = [stack EXCEPT ![Len(stack)].held = NoSignal]
  /\ pending' = Top.held
  /\ emitted' = emitted \cup {Top.held.path}
  /\ reg' = "none"
  /\ UNCHANGED <<active, deadline, live, op, dispatched>>

\* The waiting emission takes the slot, or fails with the earlier one.
EmitAgainReturns ==
  /\ op.running /\ stack # <<>> /\ reg # "none" /\ Drained
  /\ \/ /\ reg = "ok"
        /\ stack' = [stack EXCEPT ![Len(stack)].held = NoSignal]
        /\ pending' = Top.held
        /\ emitted' = emitted \cup {Top.held.path}
     \/ /\ reg = "error"
        /\ stack' = [stack EXCEPT ![Len(stack)].held = NoSignal,
                                  ![Len(stack)].failed = TRUE]
        /\ pending' = NoSignal
        /\ UNCHANGED emitted
  /\ reg' = "none"
  /\ UNCHANGED <<active, deadline, live, op, dispatched>>

Schedule(d) ==
  /\ InStage
  /\ deadline' = [deadline EXCEPT ![Top.at] = (op.now + d) % Period]
  /\ UNCHANGED <<active, live, op, stack, pending, reg, dispatched, emitted>>

Cancel ==
  /\ InStage /\ Pending(Top.at)
  /\ deadline' = [deadline EXCEPT ![Top.at] = NoDeadline]
  /\ UNCHANGED <<active, live, op, stack, pending, reg, dispatched, emitted>>

\* The stage call returns to the drain loop that made it.
Return ==
  /\ InStage
  /\ reg' \in {"ok", "error"}
  /\ Top.failed => reg' = "error"
  /\ stack' = Below
  /\ UNCHANGED <<active, deadline, live, op, pending, dispatched, emitted>>

Next ==
  \/ Activate \/ Reset \/ Refuse
  \/ \E now \in Times : Push(now) \/ Flush(now) \/ Deactivate(now)
  \/ PushReturns
  \/ FlushNext \/ FlushReturns
  \/ DeactivateNext \/ DeactivateReturns
  \/ Dispatch
  \/ Emit \/ EmitAgain \/ EmitAgainReturns
  \/ \E d \in Intervals : Schedule(d)
  \/ Cancel \/ Return

Spec == Init /\ [][Next]_vars
--------------------------------------------------------------------------------
(* zpt_pipeline_next_deadline() *)

\* Slip: the scan compares the deadlines themselves.
DeltaRaw(now, i) == deadline[i]

\* What the scan measures a stage by.
Delta(now, i) == IF Reached(now, deadline[i]) THEN 0 ELSE (deadline[i] - now) % Period

\* The first stage of those with the smallest delta.
NextDeadline(now) ==
  LET waiting == {i \in Stages : Pending(i)}
      nearest == {i \in waiting : \A j \in waiting : Delta(now, i) <= Delta(now, j)}
  IN  IF waiting = {} THEN NoDeadline ELSE deadline[First(nearest)]
--------------------------------------------------------------------------------
(* Properties *)

SignalType == [at : 0..(StageCount + 1), path : Seq(Nat)]

FrameType ==
  [at : Stages, path : Seq(Nat), sent : Nat, held : SignalType, failed : BOOLEAN]

OpType ==
  [kind : {"none", "refused", "activate", "reset", "push", "flush", "deactivate"},
   running : BOOLEAN, now : Times, at : 0..StageCount, left : 0..Budget,
   failed : BOOLEAN]

TypeOK ==
  /\ active \in BOOLEAN
  /\ deadline \in [Stages -> Times \cup {NoDeadline}]
  /\ live \in [Stages -> {"reset", "active", "ended"}]
  /\ op \in OpType
  /\ stack \in Seq(FrameType)
  /\ pending \in SignalType
  /\ reg \in {"none", "ok", "error"}
  /\ dispatched \in Seq(Seq(Nat))
  /\ emitted \subseteq Seq(Nat)

\* p comes before q: at the first place they differ p has ended or is lower.
Before(p, q) ==
  \E k \in 1..Len(q) :
    /\ \A j \in 1..(k - 1) : j <= Len(p) /\ p[j] = q[j]
    /\ k > Len(p) \/ p[k] < q[k]

\* Stages and sink see signals in the order they would if each emission had
\* been dispatched the moment it was made, none of them twice
\* (pipeline-runtime.md:64-67; the comment in zpt_stage_emit()).
ImmediateOrder ==
  \A j, k \in DOMAIN dispatched : j < k => Before(dispatched[j], dispatched[k])

\* When an operation returns 0, every emission a stage was told went well
\* has been dispatched: one slot per operation loses nothing.
NothingLost ==
  ~op.running /\ ~op.failed /\ op.kind \in {"push", "flush", "deactivate"}
    => \A p \in emitted : \E k \in DOMAIN dispatched : dispatched[k] = p

\* A call of the operation has failed and the failure is on its way up.
Failing == reg = "error" \/ \E k \in DOMAIN stack : stack[k].failed

\* Once a call of a push or a flush has failed, the operation dispatches no
\* further signal and the failure reaches whoever asked for the operation
\* (pipeline-runtime.md:66).
FailureStops ==
  [][ op.running /\ op.kind \in {"push", "flush"} /\ Failing
        => /\ dispatched' = dispatched
           /\ IF op'.running THEN Failing' ELSE op'.failed ]_vars

\* The calls in progress are of ever later stages, so no stage is entered
\* again while one of its calls waits, and all but the last wait inside a
\* second emission: with one emission per call, one stage is on the stack
\* (pipeline-runtime.md:61-64).
NoReentry ==
  /\ \A j, k \in DOMAIN stack : j < k => stack[j].at < stack[k].at
  /\ \A k \in DOMAIN stack : k < Len(stack) => stack[k].sent > 1

\* A stage is called only between its activation and its deactivation, also
\* while the operation that deactivates upstream stages feeds it signals
\* (pipeline-runtime.md:100-104).
CallsOnlyLive ==
  \A k \in DOMAIN stack : active /\ live[stack[k].at] = "active"

\* A pipeline that is not active, whether it was deactivated, failed to
\* activate or failed halfway through deactivation, has no deadline pending
\* and every stage reset.
InactiveIsReset ==
  ~active => deadline = NothingPending /\ live = AllStages("reset")

\* A flush that returns 0 leaves nothing due at its time, though stages
\* schedule while it runs and a stage's output reaches stages the loop has
\* not come to yet: the caller that flushes what is due does not spin.
FlushDrains ==
  ~op.running /\ op.kind = "flush" /\ ~op.failed => Due(op.now) = {}

\* Sleeping from any time to the deadline zpt_pipeline_next_deadline() names
\* passes no deadline of any stage, across the wrap of the uptime; one that
\* has come already is named at once.
SleepMissesNothing ==
  \A now \in Times :
    LET next == NextDeadline(now)
    IN  IF next = NoDeadline
          THEN \A t \in Times : Due(t) = {}
          ELSE /\ Due(next) # {}
               /\ Reached(now, next) <=> Due(now) # {}
               /\ ~Reached(now, next) =>
                    \A k \in 0..(((next - now) % Period) - 1) :
                      Due((now + k) % Period) = {}
================================================================================
