----------------------------- MODULE Pipeline_proofs -----------------------------
(***************************************************************************)
(* Proofs about Pipeline: for every number of stages, dispatch budget and  *)
(* fan-out.  The inductive invariant says where the one pending slot and   *)
(* the calls in progress can point: always further down the pipeline than  *)
(* the call they come from.  On top of it come the wake-up times, the      *)
(* stages a flush has passed, the signals that were taken over and not yet *)
(* disposed of, and the order of dispatches along the tree of calls.       *)
(***************************************************************************)
EXTENDS Pipeline, SequenceTheorems, WellFoundedInduction, TLAPS

\* What the call stack looks like at any moment of an operation.
Idle == ~op.running => stack = <<>> /\ reg = "none" /\ pending = NoSignal

Running ==
  op.running =>
    /\ active
    /\ op.kind \in {"push", "flush", "deactivate"}
    /\ stack = <<>> => reg # "none"

\* A frame below another one, or one a call has just returned to, waits in a
\* second emission; what it holds goes to the stage after it.
WaitsToEmit(f) == f.sent > 1 /\ f.held.at = f.at + 1 /\ f.held # NoSignal

Downward == \A j, k \in DOMAIN stack : j < k => stack[j].at < stack[k].at

Waiting ==
  /\ \A k \in DOMAIN stack : k < Len(stack) => WaitsToEmit(stack[k])
  /\ stack # <<>> /\ reg # "none" => WaitsToEmit(Top)

Slot ==
  pending # NoSignal =>
    /\ pending.at > 0
    /\ stack # <<>> => pending.at > Top.at
    /\ stack # <<>> /\ reg = "none" => Top.sent > 0

\* While deactivate works, the stages it has not finished with are live and
\* no call or signal is at a stage it has finished with.
Leaving ==
  /\ active => \A i \in Stages :
       ~(op.running /\ op.kind = "deactivate" /\ i < op.at) => live[i] = "active"
  /\ op.running /\ op.kind = "deactivate" =>
       /\ \A k \in DOMAIN stack : stack[k].at >= op.at
       /\ pending # NoSignal => pending.at >= op.at

IInv ==
  /\ TypeOK
  /\ Idle
  /\ Running
  /\ Downward
  /\ Waiting
  /\ Slot
  /\ Leaving
  /\ InactiveIsReset
--------------------------------------------------------------------------------
(* Lemmas about the call stack as a sequence *)

\* A call adds a frame and keeps the others.
LEMMA Pushed ==
  ASSUME NEW S, NEW s \in Seq(S), NEW e \in S
  PROVE  /\ Append(s, e) \in Seq(S)
         /\ Len(Append(s, e)) = Len(s) + 1
         /\ Append(s, e)[Len(s) + 1] = e
         /\ \A k \in 1..Len(s) : Append(s, e)[k] = s[k]
  OBVIOUS

\* A return removes the last frame and keeps the others.
LEMMA Popped ==
  ASSUME NEW S, NEW s \in Seq(S), s # <<>>
  PROVE  LET t == SubSeq(s, 1, Len(s) - 1)
         IN  /\ t \in Seq(S)
             /\ Len(t) = Len(s) - 1
             /\ \A k \in 1..(Len(s) - 1) : t[k] = s[k]
  <1>1. Len(s) \in Nat \ {0} /\ \A k \in 1..(Len(s) - 1) : s[k] \in S
    BY ElementOfSeq, EmptySeq
  <1> DEFINE n == Len(s) - 1
             t == SubSeq(s, 1, n)
  <1>2. n \in Nat /\ \A i \in 1..n : s[i] \in S
    BY <1>1
  <1>3. t \in Seq(S) /\ Len(t) = n /\ \A i \in 1..n : t[i] = s[i]
    <2> HIDE DEF n
    <2> QED
      BY <1>2, SubSeqProperties
  <1> QED
    BY <1>3

\* A stage call that is in progress is the last frame.
LEMMA HasTop ==
  ASSUME NEW S, NEW s \in Seq(S), s # <<>>
  PROVE  /\ Len(s) \in Nat /\ Len(s) > 0
         /\ Len(s) \in DOMAIN s
         /\ DOMAIN s = 1..Len(s)
         /\ s[Len(s)] \in S
  OBVIOUS

\* Changing the last frame keeps the others.
LEMMA TopChanged ==
  ASSUME NEW S, NEW s \in Seq(S), s # <<>>, NEW e \in S
  PROVE  LET t == [s EXCEPT ![Len(s)] = e]
         IN  /\ t \in Seq(S)
             /\ Len(t) = Len(s)
             /\ t[Len(s)] = e
             /\ \A k \in 1..(Len(s) - 1) : t[k] = s[k]
  OBVIOUS

\* The empty slot is well typed.
LEMMA NoSignalType == NoSignal \in SignalType
  <1>1. <<>> \in Seq(Nat)
    BY EmptySeq
  <1> QED
    BY <1>1, PipelineAssumption DEF NoSignal, SignalType

\* A new call's frame is well typed and waits for nothing.
LEMMA NewFrame ==
  ASSUME NEW i \in Stages, NEW p \in Seq(Nat)
  PROVE  Frame(i, p) \in FrameType
  BY PipelineAssumption DEF Frame, FrameType, SignalType, NoSignal, Stages
--------------------------------------------------------------------------------
(* The invariant holds at first and every step keeps it *)

LEMMA InitIInv ==
  ASSUME Init
  PROVE  IInv
  <1>1. TypeOK
    <2>1. /\ deadline \in [Stages -> Times \cup {NoDeadline}]
          /\ live \in [Stages -> {"reset", "active", "ended"}]
      BY DEF Init, NothingPending, AllStages
    <2>2. op \in OpType /\ pending \in SignalType
      BY PipelineAssumption DEF Init, OpType, SignalType, NoSignal, Times
    <2>3. stack \in Seq(FrameType) /\ dispatched \in Seq(Seq(Nat))
      BY EmptySeq DEF Init
    <2> QED
      BY <2>1, <2>2, <2>3 DEF Init, TypeOK
  <1>2. Downward /\ Waiting /\ Slot /\ Leaving
    BY DEF Init, Downward, Waiting, Slot, Leaving
  <1> QED
    BY <1>1, <1>2 DEF Init, IInv, Idle, Running, InactiveIsReset

USE DEF NoDeadline

\* Between operations the stack stays empty and only the pipeline's own
\* state changes.
LEMMA BetweenIInv ==
  ASSUME IInv, Activate \/ Reset \/ Refuse
  PROVE  IInv'
  <1> USE DEF IInv, TypeOK, Idle, Running, Downward, Waiting, Slot, Leaving,
              InactiveIsReset, OpType, Times, Stages, NothingPending, AllStages, Top
  <1>1. CASE Activate
    BY <1>1 DEF Activate
  <1>2. CASE Reset
    BY <1>2 DEF Reset
  <1>3. CASE Refuse
    BY <1>3 DEF Refuse
  <1> QED
    BY <1>1, <1>2, <1>3

\* An operation starts on an active pipeline with nothing in progress.
LEMMA BeginIInv ==
  ASSUME IInv, NEW now \in Times,
         Push(now) \/ Flush(now) \/ Deactivate(now)
  PROVE  IInv'
  <1>1. /\ active /\ ~op.running
        /\ \E kind \in {"push", "flush", "deactivate"} :
             Begin(kind, now, IF kind = "push" THEN Signal(1, <<>>) ELSE NoSignal)
    BY DEF Push, Flush, Deactivate
  <1>2. PICK kind \in {"push", "flush", "deactivate"} :
          Begin(kind, now, IF kind = "push" THEN Signal(1, <<>>) ELSE NoSignal)
    BY <1>1
  <1>3. /\ pending' \in SignalType
        /\ kind # "push" => pending' = NoSignal
        /\ pending' # NoSignal => pending'.at = 1
    BY <1>2, PipelineAssumption DEF Begin, SignalType, Signal, NoSignal
  <1>4. op' \in OpType /\ op'.kind = kind /\ op'.running /\ op'.at = 0
    BY <1>2, PipelineAssumption DEF Begin, OpType
  <1>5. stack = <<>> /\ stack' = <<>> /\ reg' = "ok"
    BY <1>1, <1>2 DEF Begin, IInv, Idle
  <1>6. TypeOK'
    <2>1. <<>> \in Seq(Seq(Nat))
      BY EmptySeq
    <2> QED
      BY <1>2, <1>3, <1>4, <2>1 DEF Begin, IInv, TypeOK
  <1>7. UNCHANGED <<active, deadline, live>>
    BY <1>2 DEF Begin
  <1>8. Leaving'
    <2>1. \A i \in Stages : live[i] = "active"
      BY <1>1 DEF IInv, Leaving
    <2> QED
      BY <1>3, <1>4, <1>5, <1>7, <2>1 DEF Leaving
  <1>9. Idle' /\ Running' /\ Downward' /\ Waiting' /\ Slot'
    BY <1>1, <1>3, <1>4, <1>5, <1>7 DEF Idle, Running, Downward, Waiting, Slot
  <1> QED
    BY <1>1, <1>6, <1>7, <1>8, <1>9 DEF IInv, InactiveIsReset

\* Ending an operation that leaves the pipeline active.
LEMMA FinishIInv ==
  ASSUME IInv, PushReturns \/ FlushReturns
  PROVE  IInv'
  <1>1. /\ op.running /\ stack = <<>> /\ op.kind \in {"push", "flush"}
        /\ UNCHANGED <<active, deadline, live, stack, dispatched, emitted>>
        /\ op' = [op EXCEPT !.running = FALSE, !.failed = reg = "error"]
        /\ pending' = NoSignal /\ reg' = "none"
    BY DEF PushReturns, FlushReturns, InLoop, Finish
  <1>2. op \in OpType
    BY DEF IInv, TypeOK
  <1>3. op' \in OpType /\ op'.running = FALSE
    BY <1>1, <1>2 DEF OpType
  <1>4. pending' \in SignalType
    BY <1>1, NoSignalType
  <1>5. TypeOK'
    BY <1>1, <1>3, <1>4 DEF IInv, TypeOK
  <1> QED
    BY <1>1, <1>3, <1>5
    DEF IInv, Idle, Running, Downward, Waiting, Slot, Leaving, InactiveIsReset,
        NothingPending, AllStages

\* The first member of a set of stages is one of them and before the others.
LEMMA FirstStage ==
  ASSUME NEW S \in SUBSET Stages, S # {}
  PROVE  First(S) \in S /\ \A i \in S : First(S) <= i
  <1> DEFINE Less == {e \in Nat \X Nat : e[1] < e[2]}
  <1>1. IsWellFoundedOn(Less, Nat)
    BY NatLessThanWellFounded DEF OpToRel
  <1>2. S \subseteq Nat
    BY PipelineAssumption DEF Stages
  <1>3. PICK x \in S : \A y \in S : <<y, x>> \notin Less
    <2> HIDE DEF Less
    <2> QED
      BY <1>1, <1>2, WFMin
  <1>4. ASSUME NEW y \in S
        PROVE  x <= y
    <2>1. x \in Nat /\ y \in Nat
      BY <1>2
    <2>2. ~(y < x)
      BY <1>3, <2>1
    <2> QED
      BY <2>1, <2>2
  <1> QED
    BY <1>4 DEF First

\* A call by the loop of flush or deactivate starts a stack of one frame,
\* at a stage that is live.
LEMMA LoopCallIInv ==
  ASSUME IInv, FlushNext \/ DeactivateNext
  PROVE  IInv'
  <1>1. PICK i \in Stages :
          /\ op.running /\ stack = <<>> /\ reg # "none"
          /\ op.kind \in {"flush", "deactivate"}
          /\ \/ op.kind = "flush" /\ live' = live
             \/ /\ op.kind = "deactivate" /\ i = op.at + 1
                /\ live' = IF op.at = 0 THEN live ELSE Left
          /\ \E f \in BOOLEAN : op' = [op EXCEPT !.at = i, !.failed = f]
          /\ deadline' = [deadline EXCEPT ![i] = NoDeadline]
          /\ stack' = <<Frame(i, <<i>>)>>
          /\ pending' = NoSignal /\ reg' = "none"
          /\ UNCHANGED <<active, dispatched, emitted>>
    <2>1. CASE FlushNext
      <3> DEFINE rest == {i \in Due(op.now) : i > op.at}
      <3>1. First(rest) \in Stages
        BY <2>1, FirstStage DEF FlushNext, Due
      <3>2. pending' = NoSignal
        BY <2>1 DEF FlushNext, Drained
      <3>3. op' = [op EXCEPT !.at = First(rest), !.failed = op.failed] /\ op.failed \in BOOLEAN
        BY <2>1 DEF FlushNext, IInv, TypeOK, OpType
      <3> QED
        BY <2>1, <3>1, <3>2, <3>3 DEF FlushNext, InLoop
    <2>2. CASE DeactivateNext
      <3>1. op.at + 1 \in Stages
        BY <2>2, PipelineAssumption DEF DeactivateNext, IInv, TypeOK, OpType, Stages
      <3>2. op' = [op EXCEPT !.at = op.at + 1, !.failed = op.failed \/ reg = "error"]
        BY <2>2 DEF DeactivateNext
      <3> QED
        BY <2>2, <3>1, <3>2 DEF DeactivateNext, InLoop
    <2> QED
      BY <2>1, <2>2
  <1>2. /\ op' \in OpType /\ op'.kind = op.kind /\ op'.running /\ op'.at = i
        /\ op.kind = "deactivate" => i = op.at + 1
    <2>1. op \in OpType /\ i \in 0..StageCount
      BY PipelineAssumption DEF IInv, TypeOK, Stages
    <2> QED
      BY <1>1, <2>1 DEF OpType
  <1>3. stack' \in Seq(FrameType) /\ Len(stack') = 1 /\ stack'[1] = Frame(i, <<i>>)
    <2>1. <<i>> \in Seq(Nat)
      BY PipelineAssumption DEF Stages
    <2>2. Frame(i, <<i>>) \in FrameType
      BY <2>1, NewFrame
    <2> HIDE DEF Frame
    <2> QED
      BY <1>1, <2>2
  <1>4. pending' \in SignalType
    BY <1>1, NoSignalType
  <1>5. live' \in [Stages -> {"reset", "active", "ended"}] /\ active
    BY <1>1 DEF IInv, TypeOK, Left, Running
  <1>6. deadline' \in [Stages -> Times \cup {NoDeadline}]
    BY <1>1 DEF IInv, TypeOK
  <1>7. TypeOK'
    BY <1>1, <1>2, <1>3, <1>4, <1>5, <1>6 DEF IInv, TypeOK
  <1>8. \A j \in Stages : ~(op.kind = "deactivate" /\ j < i) => live'[j] = "active"
    BY <1>1, <1>2, <1>5 DEF IInv, TypeOK, OpType, Leaving, Left, Stages
  <1>9. Downward' /\ Waiting' /\ Slot'
    BY <1>1, <1>3 DEF Downward, Waiting, Slot
  <1>10. Leaving'
    BY <1>1, <1>2, <1>3, <1>8 DEF Leaving, Frame, Stages
  <1> QED
    BY <1>1, <1>2, <1>3, <1>5, <1>7, <1>9, <1>10
    DEF IInv, Idle, Running, InactiveIsReset

\* The last step of deactivate resets everything.
LEMMA DeactivateReturnsIInv ==
  ASSUME IInv, DeactivateReturns
  PROVE  IInv'
  <1>1. PICK f \in BOOLEAN : op' = [op EXCEPT !.running = FALSE, !.failed = f]
    BY DEF DeactivateReturns, Finish, IInv, TypeOK, OpType
  <1>2. /\ stack = <<>> /\ stack' = <<>>
        /\ pending' = NoSignal /\ reg' = "none" /\ active' = FALSE
        /\ live' = AllStages("reset") /\ deadline' = NothingPending
        /\ UNCHANGED <<dispatched, emitted>>
    BY DEF DeactivateReturns, Finish, InLoop
  <1>3. op' \in OpType /\ op'.running = FALSE
    BY <1>1 DEF IInv, TypeOK, OpType
  <1>4. TypeOK'
    BY <1>2, <1>3, NoSignalType DEF IInv, TypeOK, AllStages, NothingPending
  <1> QED
    BY <1>2, <1>3, <1>4
    DEF IInv, Idle, Running, Downward, Waiting, Slot, Leaving, InactiveIsReset
--------------------------------------------------------------------------------
(* Inside an operation *)

\* dispatch_at() goes further down than every call in progress.
LEMMA DispatchIInv ==
  ASSUME IInv, Dispatch
  PROVE  IInv'
  <1>1. /\ op.running /\ active /\ reg = "ok" /\ pending # NoSignal
        /\ pending' = NoSignal
        /\ UNCHANGED <<active, deadline, live, emitted>>
    BY DEF Dispatch, IInv, Running
  <1>2. /\ op' \in OpType /\ op'.kind = op.kind /\ op'.at = op.at /\ op'.running
        /\ dispatched' \in Seq(Seq(Nat))
    <2>1. op \in OpType /\ pending \in SignalType /\ dispatched \in Seq(Seq(Nat))
      BY DEF IInv, TypeOK
    <2>2. pending.path \in Seq(Nat)
      BY <2>1 DEF SignalType
    <2>3. \/ op' = op
          \/ op.left > 0 /\ op' = [op EXCEPT !.left = @ - 1]
      BY DEF Dispatch
    <2>4. op' \in OpType /\ op'.kind = op.kind /\ op'.at = op.at /\ op'.running
      <3>1. CASE op' = op
        BY <1>1, <2>1, <3>1
      <3>2. CASE op.left > 0 /\ op' = [op EXCEPT !.left = @ - 1]
        <4>1. op.left - 1 \in 0..Budget
          BY <2>1, <3>2, PipelineAssumption DEF OpType
        <4> QED
          BY <1>1, <2>1, <3>2, <4>1 DEF OpType
      <3> QED
        BY <2>3, <3>1, <3>2
    <2>5. dispatched' \in Seq(Seq(Nat))
      BY <2>1, <2>2, Pushed DEF Dispatch
    <2> QED
      BY <2>4, <2>5
  <1>3. CASE stack' = stack /\ reg' \in {"ok", "error"}
    <2>1. TypeOK'
      BY <1>1, <1>2, <1>3, NoSignalType DEF IInv, TypeOK
    <2>2. Downward' /\ Waiting' /\ Slot'
      BY <1>1, <1>3 DEF IInv, Downward, Waiting, Slot, Top
    <2>3. Leaving'
      BY <1>1, <1>2, <1>3 DEF IInv, Leaving
    <2> QED
      BY <1>1, <1>2, <1>3, <2>1, <2>2, <2>3 DEF IInv, Idle, Running, InactiveIsReset
  <1>4. CASE /\ reg' = "none" /\ pending.at <= StageCount
             /\ stack' = Append(stack, Frame(pending.at, pending.path))
    <2> DEFINE f == Frame(pending.at, pending.path)
               n == Len(stack)
    <2>1. pending \in SignalType /\ stack \in Seq(FrameType)
      BY DEF IInv, TypeOK
    <2>2. pending.at \in Stages /\ pending.path \in Seq(Nat)
      <3>1. pending.at > 0
        BY <1>1 DEF IInv, Slot
      <3> QED
        BY <1>4, <2>1, <3>1, PipelineAssumption DEF SignalType, Stages
    <2>3. f \in FrameType /\ f.at = pending.at
      BY <2>2, NewFrame DEF Frame
    <2> HIDE DEF f
    <2>4. /\ stack' \in Seq(FrameType) /\ Len(stack') = n + 1 /\ stack'[n + 1] = f
          /\ \A k \in 1..n : stack'[k] = stack[k]
          /\ DOMAIN stack' = 1..(n + 1) /\ DOMAIN stack = 1..n /\ n \in Nat
      BY <1>4, <2>1, <2>3, Pushed DEF f
    <2>5. n > 0 => stack # <<>> /\ stack[n].at < pending.at /\ WaitsToEmit(stack[n])
      BY <1>1, <2>1 DEF IInv, Slot, Waiting, Top
    <2>6. TypeOK'
      BY <1>1, <1>2, <1>4, <2>4, NoSignalType DEF IInv, TypeOK
    <2>7. Downward'
      <3>1. \A k \in 1..n : stack[k].at < pending.at
        <4>1. \A k \in 1..n : stack[k].at \in Nat
          <5>1. \A k \in 1..n : stack[k] \in FrameType
            BY <2>1, ElementOfSeq
          <5> QED
            BY <5>1, PipelineAssumption DEF FrameType, Stages
        <4>2. pending.at \in Nat
          BY <2>2, PipelineAssumption DEF Stages
        <4>3. \A k \in 1..n : k < n => stack[k].at < stack[n].at
          BY <2>4 DEF IInv, Downward
        <4>4. ASSUME NEW k \in 1..n
              PROVE  stack[k].at < pending.at
          <5>1. stack[n].at \in Nat /\ stack[n].at < pending.at
            BY <2>4, <2>5, <4>1
          <5> QED
            BY <2>4, <4>1, <4>2, <4>3, <5>1
        <4> QED
          BY <4>4
      <3> QED
        BY <2>3, <2>4, <3>1 DEF IInv, Downward
    <2>8. Waiting' /\ Slot'
      <3>1. \A k \in 1..n : WaitsToEmit(stack[k])
        BY <2>4, <2>5 DEF IInv, Waiting
      <3> QED
        BY <1>1, <1>4, <2>4, <3>1 DEF Waiting, Slot, WaitsToEmit
    <2>9. Leaving'
      BY <1>1, <1>2, <2>3, <2>4 DEF IInv, Leaving
    <2>10. stack' # <<>>
      BY <2>4
    <2> QED
      BY <1>1, <1>2, <2>6, <2>7, <2>8, <2>9, <2>10 DEF IInv, Idle, Running, InactiveIsReset
  <1> QED
    BY <1>1, <1>3, <1>4 DEF Dispatch

\* A step of zpt_stage_emit() changes the frame of the stage that called it
\* and the slot.
LEMMA EmitStepIInv ==
  ASSUME IInv, op.running, stack # <<>>,
         NEW f \in FrameType, f.at = Top.at,
         stack' = [stack EXCEPT ![Len(stack)] = f],
         pending' \in SignalType, reg' \in {"none", "ok"}, emitted' \subseteq Seq(Nat),
         pending' # NoSignal => pending'.at > Top.at,
         pending' # NoSignal /\ reg' = "none" => f.sent > 0,
         reg' # "none" => WaitsToEmit(f),
         UNCHANGED <<active, deadline, live, op, dispatched>>
  PROVE  IInv'
  <1> DEFINE n == Len(stack)
  <1>1. stack \in Seq(FrameType)
    BY DEF IInv, TypeOK
  <1>2. /\ stack' \in Seq(FrameType) /\ Len(stack') = n /\ stack'[n] = f
        /\ \A k \in 1..(n - 1) : stack'[k] = stack[k]
        /\ n \in Nat /\ n > 0 /\ DOMAIN stack = 1..n /\ DOMAIN stack' = 1..n
    BY <1>1, TopChanged, HasTop
  <1>len. n = Len(stack)
    OBVIOUS
  <1> HIDE DEF n
  <1>3. \A k \in 1..n : stack'[k].at = stack[k].at
    BY <1>2 DEF Top
  <1>top. Top' = f /\ stack' # <<>>
    <2>1. Len(stack') # 0
      BY <1>2
    <2>2. stack' # <<>>
      BY <2>1, EmptySeq
    <2>3. Top' = stack'[Len(stack')]
      BY DEF Top
    <2> QED
      BY <1>2, <2>2, <2>3
  <1>4. TypeOK'
    BY <1>2 DEF IInv, TypeOK
  <1>5. Downward'
    BY <1>2, <1>3 DEF IInv, Downward
  <1>6. Waiting'
    <2>1. \A k \in 1..n : k < n => WaitsToEmit(stack'[k])
      BY <1>2 DEF IInv, Waiting
    <2> QED
      BY <1>2, <1>top, <2>1 DEF Waiting, WaitsToEmit
  <1>7. Slot'
    <2>1. Top.at \in Nat /\ (pending' # NoSignal => pending'.at > 0)
      <3>1. Top \in FrameType
        BY <1>1, HasTop DEF Top
      <3>2. Top.at \in Nat
        BY <3>1, PipelineAssumption DEF FrameType, Stages
      <3>3. pending'.at \in Nat
        BY PipelineAssumption DEF SignalType
      <3> QED
        BY <3>2, <3>3
    <2> QED
      BY <1>top, <2>1 DEF Slot
  <1>8. Leaving'
    <2>1. Top.at >= op.at \/ op.kind # "deactivate"
      BY <1>2 DEF IInv, Leaving, Top
    <2>2. Top.at \in Nat /\ op.at \in Nat /\ pending'.at \in Nat
      <3>1. Top \in FrameType /\ op \in OpType
        BY <1>1, HasTop DEF Top, IInv, TypeOK
      <3>2. Top.at \in Nat /\ op.at \in Nat
        BY <3>1, PipelineAssumption DEF FrameType, OpType, Stages
      <3>3. pending'.at \in Nat
        BY PipelineAssumption DEF SignalType
      <3> QED
        BY <3>2, <3>3
    <2> QED
      BY <1>2, <1>3, <2>1, <2>2 DEF IInv, Leaving
  <1> QED
    BY <1>4, <1>5, <1>6, <1>7, <1>8, <1>top DEF IInv, Idle, Running, InactiveIsReset

\* The emission of the stage in control is addressed to what comes after it.
LEMMA EmissionType ==
  ASSUME IInv, stack # <<>>
  PROVE  /\ Top \in FrameType /\ Top.at \in Nat /\ Top.sent \in Nat
         /\ Emission \in SignalType /\ Emission # NoSignal
         /\ Emission.at = Top.at + 1
         /\ Emission.path \in Seq(Nat)
  <1>1. Top \in FrameType
    BY HasTop DEF IInv, TypeOK, Top
  <1>2. Top.at \in Stages /\ Top.path \in Seq(Nat) /\ Top.sent \in Nat
    BY <1>1 DEF FrameType
  <1>3. Append(Top.path, Top.sent + 1) \in Seq(Nat)
    BY <1>2, Pushed
  <1> QED
    BY <1>1, <1>2, <1>3, PipelineAssumption DEF Emission, Signal, SignalType, NoSignal, Stages

LEMMA EmitIInv ==
  ASSUME IInv, Emit
  PROVE  IInv'
  <1> DEFINE f == [Top EXCEPT !.sent = @ + 1]
  <1>1. op.running /\ stack # <<>> /\ reg = "none" /\ reg' = "none"
    BY DEF Emit, InStage
  <1>2. stack' = [stack EXCEPT ![Len(stack)] = f]
    BY DEF Emit, Top
  <1>3. f \in FrameType /\ f.at = Top.at /\ f.sent > 0
    BY <1>1, EmissionType DEF FrameType
  <1>4. /\ pending' = Emission /\ pending' \in SignalType
        /\ pending'.at > Top.at /\ emitted' \subseteq Seq(Nat)
    BY <1>1, EmissionType DEF Emit, IInv, TypeOK
  <1>5. UNCHANGED <<active, deadline, live, op, dispatched>>
    BY DEF Emit
  <1> HIDE DEF f
  <1> QED
    BY <1>1, <1>2, <1>3, <1>4, <1>5, EmitStepIInv

\* A frame that counts a further emission and holds it.
LEMMA FrameHolds ==
  ASSUME NEW t \in FrameType, NEW h \in SignalType
  PROVE  LET f == [t EXCEPT !.sent = t.sent + 1, !.held = h]
         IN  f \in FrameType /\ f.at = t.at /\ f.sent = t.sent + 1 /\ f.held = h
  <1> DEFINE g == [t EXCEPT !.sent = t.sent + 1]
  <1>1. g \in FrameType /\ g.sent = t.sent + 1 /\ g.at = t.at
    BY DEF FrameType
  <1> DEFINE f == [g EXCEPT !.held = h]
  <1> HIDE DEF g
  <1>2. f \in FrameType /\ f.sent = g.sent /\ f.at = g.at /\ f.held = h
    BY <1>1 DEF FrameType
  <1>3. f = [t EXCEPT !.sent = t.sent + 1, !.held = h]
    BY <1>1 DEF FrameType, g
  <1> QED
    BY <1>1, <1>2, <1>3

LEMMA EmitAgainIInv ==
  ASSUME IInv, EmitAgain
  PROVE  IInv'
  <1> DEFINE f == [Top EXCEPT !.sent = Top.sent + 1, !.held = Emission]
  <1>1. op.running /\ stack # <<>> /\ reg = "none" /\ reg' = "ok" /\ pending # NoSignal
    BY DEF EmitAgain, InStage
  <1>2. stack' = [stack EXCEPT ![Len(stack)] = f]
    BY DEF EmitAgain, Top
  <1>3. Top.sent > 0 /\ pending.at > Top.at
    BY <1>1 DEF IInv, Slot
  <1>4. f \in FrameType /\ f.at = Top.at /\ WaitsToEmit(f)
    <2>1. Top \in FrameType /\ Top.sent \in Nat /\ Emission \in SignalType
      BY <1>1, EmissionType
    <2>2. f \in FrameType /\ f.at = Top.at /\ f.sent = Top.sent + 1 /\ f.held = Emission
      BY <2>1, FrameHolds
    <2> HIDE DEF f
    <2> QED
      BY <1>1, <1>3, <2>1, <2>2, EmissionType DEF WaitsToEmit
  <1>5. pending' = pending /\ UNCHANGED <<active, deadline, live, op, dispatched, emitted>>
    BY DEF EmitAgain
  <1>6. pending' \in SignalType /\ emitted' \subseteq Seq(Nat)
    BY <1>5 DEF IInv, TypeOK
  <1> HIDE DEF f
  <1> QED
    BY <1>1, <1>2, <1>3, <1>4, <1>5, <1>6, EmitStepIInv

LEMMA EmitAgainReturnsIInv ==
  ASSUME IInv, EmitAgainReturns
  PROVE  IInv'
  <1>1. op.running /\ stack # <<>> /\ reg # "none" /\ reg' = "none"
    BY DEF EmitAgainReturns
  <1>2. UNCHANGED <<active, deadline, live, op, dispatched>>
    BY DEF EmitAgainReturns
  <1>3. WaitsToEmit(Top) /\ Top \in FrameType
    BY <1>1, EmissionType DEF IInv, Waiting
  <1>4. Top.held \in SignalType /\ Top.held.path \in Seq(Nat) /\ Top.at \in Nat
    BY <1>1, <1>3, EmissionType DEF FrameType, SignalType
  <1>5. CASE /\ stack' = [stack EXCEPT ![Len(stack)].held = NoSignal]
             /\ pending' = Top.held
             /\ emitted' = emitted \cup {Top.held.path}
    <2> DEFINE f == [Top EXCEPT !.held = NoSignal]
    <2>1. stack' = [stack EXCEPT ![Len(stack)] = f]
      BY <1>5 DEF Top
    <2>2. f \in FrameType /\ f.at = Top.at /\ f.sent > 0
      BY <1>3, NoSignalType DEF FrameType, WaitsToEmit
    <2>3. emitted' \subseteq Seq(Nat) /\ pending'.at > Top.at
      BY <1>3, <1>4, <1>5 DEF IInv, TypeOK, WaitsToEmit
    <2> HIDE DEF f
    <2> QED
      BY <1>1, <1>2, <1>4, <1>5, <2>1, <2>2, <2>3, EmitStepIInv
  <1>6. CASE /\ stack' = [stack EXCEPT ![Len(stack)].held = NoSignal,
                                       ![Len(stack)].failed = TRUE]
             /\ pending' = NoSignal
             /\ UNCHANGED emitted
    <2> DEFINE f == [Top EXCEPT !.held = NoSignal, !.failed = TRUE]
    <2>1. stack' = [stack EXCEPT ![Len(stack)] = f]
      <3>1. stack \in Seq(FrameType) /\ Len(stack) \in DOMAIN stack
        BY <1>1, HasTop DEF IInv, TypeOK
      <3> QED
        BY <1>6, <3>1 DEF Top
    <2>2. f \in FrameType /\ f.at = Top.at
      BY <1>3, NoSignalType DEF FrameType
    <2>3. emitted' \subseteq Seq(Nat) /\ pending' \in SignalType
      BY <1>6, NoSignalType DEF IInv, TypeOK
    <2> HIDE DEF f
    <2> QED
      BY <1>1, <1>2, <1>6, <2>1, <2>2, <2>3, EmitStepIInv
  <1> QED
    BY <1>5, <1>6 DEF EmitAgainReturns

\* A stage moves no deadline but its own.
LEMMA DeadlineIInv ==
  ASSUME IInv, Cancel \/ \E d \in Intervals : Schedule(d)
  PROVE  IInv'
  <1>1. /\ op.running /\ stack # <<>> /\ reg = "none" /\ active
        /\ UNCHANGED <<active, live, op, stack, pending, reg, dispatched, emitted>>
    BY DEF Cancel, Schedule, InStage, IInv, Running
  <1>2. deadline' \in [Stages -> Times \cup {NoDeadline}]
    <2>1. deadline \in [Stages -> Times \cup {NoDeadline}] /\ op.now \in Times
      BY DEF IInv, TypeOK, OpType
    <2>2. CASE Cancel
      BY <2>1, <2>2 DEF Cancel
    <2>3. ASSUME NEW d \in Intervals, Schedule(d)
          PROVE  deadline' \in [Stages -> Times \cup {NoDeadline}]
      <3>1. (op.now + d) % Period \in Times
        BY <2>1, PipelineAssumption DEF Times
      <3> QED
        BY <2>1, <2>3, <3>1 DEF Schedule
    <2> QED
      BY <2>2, <2>3
  <1> QED
    BY <1>1, <1>2
    DEF IInv, TypeOK, Idle, Running, Downward, Waiting, Slot, Leaving, InactiveIsReset, Top

\* After a return the caller, if it is a stage, waits in its emission.
LEMMA ReturnIInv ==
  ASSUME IInv, Return
  PROVE  IInv'
  <1> DEFINE n == Len(stack)
  <1>1. /\ op.running /\ stack # <<>> /\ active
        /\ stack' = SubSeq(stack, 1, n - 1) /\ reg' \in {"ok", "error"}
        /\ UNCHANGED <<active, deadline, live, op, pending, dispatched, emitted>>
    BY DEF Return, InStage, Below, IInv, Running
  <1>2. stack \in Seq(FrameType)
    BY DEF IInv, TypeOK
  <1>3. /\ stack' \in Seq(FrameType) /\ Len(stack') = n - 1
        /\ \A k \in 1..(n - 1) : stack'[k] = stack[k]
        /\ n \in Nat /\ n > 0 /\ DOMAIN stack = 1..n /\ DOMAIN stack' = 1..(n - 1)
    BY <1>1, <1>2, Popped, HasTop, LenProperties
  <1>4. TypeOK'
    BY <1>1, <1>3 DEF IInv, TypeOK
  <1>5. Downward'
    BY <1>3 DEF IInv, Downward
  <1>6. Waiting'
    BY <1>3 DEF IInv, Waiting, Top
  <1>7. Slot'
    <2>1. \A k \in 1..n : stack[k].at \in Nat
      <3>1. \A k \in 1..n : stack[k] \in FrameType
        BY <1>2, ElementOfSeq
      <3> QED
        BY <3>1, PipelineAssumption DEF FrameType, Stages
    <2>2. pending.at \in Nat
      BY PipelineAssumption DEF IInv, TypeOK, SignalType
    <2>3. n > 1 => stack[n - 1].at < stack[n].at
      BY <1>3 DEF IInv, Downward
    <2>4. n > 1 /\ pending # NoSignal => pending.at > stack[n - 1].at
      BY <1>1, <1>3, <2>1, <2>2, <2>3 DEF IInv, Slot, Top
    <2>5. stack' # <<>> => n > 1
      BY <1>3
    <2> QED
      BY <1>1, <1>3, <2>4, <2>5 DEF IInv, Slot, Top
  <1>8. Leaving'
    BY <1>1, <1>3 DEF IInv, Leaving
  <1> QED
    BY <1>1, <1>4, <1>5, <1>6, <1>7, <1>8 DEF IInv, Idle, Running, InactiveIsReset

LEMMA NextIInv ==
  ASSUME IInv, [Next]_vars
  PROVE  IInv'
  <1>1. CASE UNCHANGED vars
    BY <1>1 DEF vars, IInv, TypeOK, Idle, Running, Downward, Waiting, Slot,
                Leaving, InactiveIsReset, Top
  <1>2. CASE Next
    BY <1>2, BetweenIInv, BeginIInv, FinishIInv, LoopCallIInv, DeactivateReturnsIInv,
       DispatchIInv, EmitIInv, EmitAgainIInv, EmitAgainReturnsIInv, DeadlineIInv, ReturnIInv
    DEF Next
  <1> QED
    BY <1>1, <1>2
--------------------------------------------------------------------------------
(* Theorems *)

LEMMA InductiveInvariant == Spec => []IInv
  <1>1. Init => IInv
    BY InitIInv
  <1>2. IInv /\ [Next]_vars => IInv'
    BY NextIInv
  <1> QED
    BY <1>1, <1>2, PTL DEF Spec

\* Every field keeps its type; the dispatch budget never goes below zero.
THEOREM TypeInvariant == Spec => []TypeOK
  <1>1. IInv => TypeOK
    BY DEF IInv
  <1> QED
    BY <1>1, InductiveInvariant, PTL

\* However long the pipeline and however often its stages emit, no stage is
\* entered while one of its calls is in progress, and a stage is suspended
\* only inside a second emission (zpt_stage_emit(), drain()).
THEOREM NoReentryInvariant == Spec => []NoReentry
  <1>1. IInv => NoReentry
    BY DEF IInv, NoReentry, Downward, Waiting, WaitsToEmit
  <1> QED
    BY <1>1, InductiveInvariant, PTL

\* Stages are called only while activated, also by the operation that is
\* deactivating them one after the other (zpt_pipeline_deactivate()).
THEOREM CallsOnlyLiveInvariant == Spec => []CallsOnlyLive
  <1>1. IInv => CallsOnlyLive
    <2> SUFFICES ASSUME IInv, NEW k \in DOMAIN stack
                 PROVE  active /\ live[stack[k].at] = "active"
      BY DEF CallsOnlyLive
    <2>1. op.running /\ active
      BY DEF IInv, Idle, Running
    <2>2. stack[k].at \in Stages /\ op.at \in Nat
      <3>1. stack[k] \in FrameType /\ op \in OpType
        BY ElementOfSeq, LenProperties DEF IInv, TypeOK
      <3> QED
        BY <3>1 DEF FrameType, OpType
    <2>3. op.kind = "deactivate" => stack[k].at >= op.at
      BY <2>1 DEF IInv, Leaving
    <2> QED
      BY <2>1, <2>2, <2>3, PipelineAssumption DEF IInv, Leaving, Stages
  <1> QED
    BY <1>1, InductiveInvariant, PTL

\* A pipeline that is not active waits for nothing and remembers nothing.
THEOREM InactiveIsResetInvariant == Spec => []InactiveIsReset
  <1>1. IInv => InactiveIsReset
    BY DEF IInv
  <1> QED
    BY <1>1, InductiveInvariant, PTL
--------------------------------------------------------------------------------
(* A failure ends the operation *)

\* Only the call in control can have seen an emission fail.
FailedOnTop ==
  \A k \in DOMAIN stack : stack[k].failed => k = Len(stack) /\ reg = "none"

\* zpt_stage_emit() replaces the last frame by one that has failed only if
\* control is back in the stage.
LEMMA TopFails ==
  ASSUME IInv, FailedOnTop, stack # <<>>, NEW f \in FrameType,
         stack' = [stack EXCEPT ![Len(stack)] = f], f.failed => reg' = "none"
  PROVE  FailedOnTop'
  <1>1. stack \in Seq(FrameType)
    BY DEF IInv, TypeOK
  <1>2. /\ Len(stack') = Len(stack) /\ stack'[Len(stack)] = f
        /\ \A k \in 1..(Len(stack) - 1) : stack'[k] = stack[k]
        /\ Len(stack) \in Nat
        /\ DOMAIN stack = 1..Len(stack) /\ DOMAIN stack' = 1..Len(stack)
    BY <1>1, TopChanged, HasTop
  <1>3. ASSUME NEW k \in DOMAIN stack', stack'[k].failed
        PROVE  k = Len(stack') /\ reg' = "none"
    <2>1. CASE k = Len(stack)
      BY <1>2, <1>3, <2>1
    <2>2. CASE k # Len(stack)
      <3>1. k \in DOMAIN stack /\ stack'[k] = stack[k]
        BY <1>2, <2>2
      <3> QED
        BY <1>3, <2>2, <3>1 DEF FailedOnTop
    <2> QED
      BY <2>1, <2>2
  <1> QED
    BY <1>3 DEF FailedOnTop

LEMMA FailedOnTopKept ==
  ASSUME IInv, FailedOnTop, [Next]_vars
  PROVE  FailedOnTop'
  <1>1. CASE stack' = <<>>
    BY <1>1 DEF FailedOnTop
  <1>2. CASE stack' = stack /\ reg' = reg
    BY <1>2 DEF FailedOnTop
  <1>3. CASE FlushNext \/ DeactivateNext
    <2>1. \E i \in Nat : \E p : stack' = <<Frame(i, p)>>
      <3>1. op.at + 1 \in Nat
        BY PipelineAssumption DEF IInv, TypeOK, OpType
      <3>2. ASSUME NEW S \in SUBSET Stages, S # {}
            PROVE  First(S) \in Nat
        <4>1. First(S) \in Stages
          BY <3>2, FirstStage
        <4> QED
          BY <4>1, PipelineAssumption DEF Stages
      <3>3. CASE FlushNext
        <4> DEFINE rest == {i \in Due(op.now) : i > op.at}
        <4>1. First(rest) \in Nat
          BY <3>2, <3>3 DEF FlushNext, Due
        <4> QED
          BY <3>3, <4>1 DEF FlushNext
      <3> QED
        BY <1>3, <3>1, <3>3 DEF DeactivateNext
    <2> QED
      BY <2>1 DEF FailedOnTop, Frame
  <1>4. CASE Dispatch
    <2>1. \A k \in DOMAIN stack : ~stack[k].failed
      BY <1>4 DEF Dispatch, FailedOnTop
    <2>2. CASE stack' = stack
      BY <2>1, <2>2 DEF FailedOnTop
    <2>3. CASE /\ stack' = Append(stack, Frame(pending.at, pending.path))
               /\ pending.at <= StageCount
      <3> DEFINE f == Frame(pending.at, pending.path)
      <3>1. f \in FrameType /\ ~f.failed
        <4>1. pending \in SignalType /\ pending.at > 0
          BY <1>4 DEF IInv, TypeOK, Slot, Dispatch
        <4>2. pending.at \in Stages /\ pending.path \in Seq(Nat)
          BY <2>3, <4>1, PipelineAssumption DEF SignalType, Stages
        <4> QED
          BY <4>2, NewFrame DEF Frame
      <3> HIDE DEF f
      <3>2. stack \in Seq(FrameType)
        BY DEF IInv, TypeOK
      <3>3. /\ Len(stack') = Len(stack) + 1 /\ stack'[Len(stack) + 1] = f
            /\ \A k \in 1..Len(stack) : stack'[k] = stack[k]
            /\ DOMAIN stack' = 1..(Len(stack) + 1) /\ DOMAIN stack = 1..Len(stack)
            /\ Len(stack) \in Nat
        BY <2>3, <3>1, <3>2, Pushed, LenProperties DEF f
      <3> QED
        BY <2>1, <3>1, <3>3 DEF FailedOnTop
    <2> QED
      BY <1>4, <2>2, <2>3 DEF Dispatch
  <1>5. CASE Emit \/ EmitAgain
    <2>1. stack # <<>> /\ ~Top.failed /\ Top \in FrameType /\ Top.sent \in Nat
          /\ Emission \in SignalType
      BY <1>5, EmissionType DEF Emit, EmitAgain, InStage
    <2>2. CASE Emit
      <3> DEFINE f == [Top EXCEPT !.sent = @ + 1]
      <3>1. stack' = [stack EXCEPT ![Len(stack)] = f]
        BY <2>2 DEF Emit, Top
      <3>2. f \in FrameType /\ ~f.failed
        BY <2>1 DEF FrameType
      <3> QED
        BY <2>1, <3>1, <3>2, TopFails
    <2>3. CASE EmitAgain
      <3> DEFINE f == [Top EXCEPT !.sent = Top.sent + 1, !.held = Emission]
      <3>1. stack' = [stack EXCEPT ![Len(stack)] = f]
        BY <2>3 DEF EmitAgain, Top
      <3>2. f \in FrameType
        BY <2>1, FrameHolds
      <3>3. ~f.failed
        BY <2>1 DEF FrameType
      <3> HIDE DEF f
      <3> QED
        BY <2>1, <3>1, <3>2, <3>3, TopFails
    <2> QED
      BY <1>5, <2>2, <2>3
  <1>6. CASE EmitAgainReturns
    <2>1. stack # <<>> /\ reg' = "none" /\ Top \in FrameType
      BY <1>6, EmissionType DEF EmitAgainReturns
    <2>2. CASE reg = "ok"
      <3> DEFINE f == [Top EXCEPT !.held = NoSignal]
      <3>1. stack' = [stack EXCEPT ![Len(stack)] = f]
        BY <1>6, <2>2 DEF EmitAgainReturns, Top
      <3>2. f \in FrameType
        BY <2>1, NoSignalType DEF FrameType
      <3> HIDE DEF f
      <3> QED
        BY <2>1, <3>1, <3>2, TopFails
    <2>3. CASE reg = "error"
      <3> DEFINE f == [Top EXCEPT !.held = NoSignal, !.failed = TRUE]
      <3>1. stack' = [stack EXCEPT ![Len(stack)] = f]
        <4>1. stack \in Seq(FrameType) /\ Len(stack) \in DOMAIN stack
          BY <2>1, HasTop DEF IInv, TypeOK
        <4>2. stack' = [stack EXCEPT ![Len(stack)].held = NoSignal,
                                     ![Len(stack)].failed = TRUE]
          BY <1>6, <2>3 DEF EmitAgainReturns
        <4> QED
          BY <4>1, <4>2 DEF Top
      <3>2. f \in FrameType
        BY <2>1, NoSignalType DEF FrameType
      <3> HIDE DEF f
      <3> QED
        BY <2>1, <3>1, <3>2, TopFails
    <2> QED
      BY <1>6, <2>2, <2>3 DEF EmitAgainReturns
  <1>7. CASE Return
    <2>1. stack # <<>> /\ stack' = SubSeq(stack, 1, Len(stack) - 1) /\ stack \in Seq(FrameType)
      BY <1>7 DEF Return, InStage, Below, IInv, TypeOK
    <2>2. /\ DOMAIN stack' = 1..(Len(stack) - 1) /\ DOMAIN stack = 1..Len(stack)
          /\ \A k \in 1..(Len(stack) - 1) : stack'[k] = stack[k]
          /\ Len(stack) \in Nat
      BY <2>1, Popped, HasTop, LenProperties
    <2>3. \A k \in 1..(Len(stack) - 1) : ~stack[k].failed
      BY <2>2 DEF FailedOnTop
    <2> QED
      BY <2>2, <2>3 DEF FailedOnTop
  <1>8. CASE Activate \/ Reset \/ Refuse \/ Cancel \/ UNCHANGED vars
    BY <1>2, <1>8 DEF Activate, Reset, Refuse, Cancel, vars
  <1>9. CASE PushReturns \/ FlushReturns \/ DeactivateReturns
    BY <1>1, <1>9 DEF PushReturns, FlushReturns, DeactivateReturns, Finish, InLoop
  <1>10. ASSUME NEW now \in Times, Push(now) \/ Flush(now) \/ Deactivate(now)
         PROVE  FailedOnTop'
    <2>1. stack' = stack /\ ~op.running
      BY <1>10 DEF Push, Flush, Deactivate, Begin
    <2> QED
      BY <1>1, <2>1 DEF IInv, Idle
  <1>11. ASSUME NEW d \in Intervals, Schedule(d)
         PROVE  FailedOnTop'
    BY <1>2, <1>11 DEF Schedule
  <1> QED
    BY <1>3, <1>4, <1>5, <1>6, <1>7, <1>8, <1>9, <1>10, <1>11 DEF Next

\* A failed call of a push or a flush stops every later dispatch of that
\* operation, through any depth of suspended emissions, and is what the
\* caller is told (zpt_stage_emit(), drain(), zpt_pipeline_flush()).
THEOREM FailureStopsAlways == Spec => FailureStops
  <1> DEFINE P == op.running /\ op.kind \in {"push", "flush"} /\ Failing
                    => /\ dispatched' = dispatched
                       /\ IF op'.running THEN Failing' ELSE op'.failed
  <1>1. ASSUME IInv, FailedOnTop, [Next]_vars
        PROVE  P
    <2> SUFFICES ASSUME op.running, op.kind \in {"push", "flush"}, Failing
                 PROVE  /\ dispatched' = dispatched
                        /\ IF op'.running THEN Failing' ELSE op'.failed
      OBVIOUS
    <2>1. CASE reg = "error"
      <3>1. CASE PushReturns \/ FlushReturns
        <4>1. op \in OpType
          BY <1>1 DEF IInv, TypeOK
        <4>2. op' = [op EXCEPT !.running = FALSE, !.failed = TRUE]
          BY <2>1, <3>1 DEF PushReturns, FlushReturns, Finish
        <4>3. op'.failed /\ ~op'.running
          BY <4>1, <4>2 DEF OpType
        <4> QED
          BY <3>1, <4>3 DEF PushReturns, FlushReturns, Finish
      <3>2. CASE EmitAgainReturns
        <4>1. stack \in Seq(FrameType) /\ stack # <<>>
          BY <1>1, <3>2 DEF IInv, TypeOK, EmitAgainReturns
        <4>2. Len(stack) \in DOMAIN stack /\ Top \in FrameType
          BY <4>1, HasTop DEF Top
        <4>3. stack' = [stack EXCEPT ![Len(stack)].held = NoSignal,
                                     ![Len(stack)].failed = TRUE]
          BY <2>1, <3>2 DEF EmitAgainReturns
        <4>4. DOMAIN stack' = DOMAIN stack /\ stack'[Len(stack)].failed
          BY <4>2, <4>3 DEF Top, FrameType
        <4> QED
          BY <3>2, <4>2, <4>4 DEF EmitAgainReturns, Failing
      <3>3. CASE UNCHANGED vars
        BY <3>3, <2>1 DEF vars, Failing
      <3> QED
        BY <1>1, <2>1, <3>1, <3>2, <3>3
        DEF Next, Activate, Reset, Refuse, Push, Flush, Deactivate, FlushNext,
            DeactivateNext, DeactivateReturns, Dispatch, Emit, EmitAgain,
            Schedule, Cancel, Return, InStage
    <2>2. CASE reg # "error"
      <3>1. stack # <<>> /\ Top.failed /\ reg = "none"
        <4>1. PICK k \in DOMAIN stack : stack[k].failed
          BY <2>2 DEF Failing
        <4>2. k = Len(stack) /\ reg = "none"
          BY <1>1, <4>1 DEF FailedOnTop
        <4>3. stack # <<>>
          BY <4>1
        <4> QED
          BY <4>1, <4>2, <4>3 DEF Top
      <3>2. CASE Cancel \/ (\E d \in Intervals : Schedule(d)) \/ UNCHANGED vars
        BY <3>2 DEF Cancel, Schedule, vars, Failing
      <3>3. CASE Return
        BY <3>1, <3>3 DEF Return, Failing
      <3> QED
        BY <1>1, <3>1, <3>2, <3>3
        DEF Next, Activate, Reset, Refuse, Push, Flush, Deactivate, PushReturns,
            FlushReturns, FlushNext, DeactivateNext, DeactivateReturns, InLoop,
            Dispatch, Emit, EmitAgain, EmitAgainReturns
    <2> QED
      BY <2>1, <2>2
  <1>2. Init => FailedOnTop
    BY DEF Init, FailedOnTop
  <1>3. IInv /\ FailedOnTop /\ [Next]_vars => FailedOnTop'
    BY FailedOnTopKept
  <1>4. IInv /\ FailedOnTop /\ [Next]_vars => [P]_vars
    BY <1>1
  <1> QED
    BY <1>2, <1>3, <1>4, InductiveInvariant, PTL DEF Spec, FailureStops
--------------------------------------------------------------------------------
(* The uptime that wraps *)

LEMMA Wrapped ==
  ASSUME NEW r \in Times
  PROVE  r % Period = r /\ (r + Period) % Period = r /\ (r - Period) % Period = r
  BY PipelineAssumption, SMT DEF Times

\* The wrapped difference of two times.
LEMMA Difference ==
  ASSUME NEW s \in Times, NEW t \in Times
  PROVE  (s - t) % Period = IF t <= s THEN s - t ELSE s - t + Period
  <1>1. CASE t <= s
    <2>1. s - t \in Times
      BY <1>1, PipelineAssumption DEF Times
    <2> QED
      BY <1>1, <2>1, Wrapped
  <1>2. CASE ~(t <= s)
    <2>1. s - t + Period \in Times /\ s - t = (s - t + Period) - Period
      BY <1>2, PipelineAssumption DEF Times
    <2>2. ((s - t + Period) - Period) % Period = s - t + Period
      BY <2>1, Wrapped
    <2> QED
      BY <1>2, <2>1, <2>2
  <1> QED
    BY <1>1, <1>2

\* A clock value less than a whole turn on.
LEMMA Onward ==
  ASSUME NEW t \in Times, NEW d \in Times
  PROVE  /\ (t + d) % Period = IF t + d < Period THEN t + d ELSE t + d - Period
         /\ (t + d) % Period \in Times
  <1>1. CASE t + d < Period
    <2>1. t + d \in Times
      BY <1>1, PipelineAssumption DEF Times
    <2> QED
      BY <1>1, <2>1, Wrapped
  <1>2. CASE ~(t + d < Period)
    <2>1. t + d - Period \in Times /\ t + d = (t + d - Period) + Period
      BY <1>2, PipelineAssumption DEF Times
    <2>2. ((t + d - Period) + Period) % Period = t + d - Period
      BY <2>1, Wrapped
    <2> QED
      BY <1>2, <2>1, <2>2
  <1> QED
    BY <1>1, <1>2

\* What a stage schedules is not yet due.
LEMMA NotYet ==
  ASSUME NEW now \in Times, NEW d \in Intervals
  PROVE  ~Reached(now, (now + d) % Period)
  <1> DEFINE x == (now + d) % Period
  <1>1. d \in Times /\ 0 < d /\ 2 * d < Period
    BY PipelineAssumption DEF Times
  <1>2. x \in Times /\ x = IF now + d < Period THEN now + d ELSE now + d - Period
    BY <1>1, Onward
  <1> HIDE DEF x
  <1>3. (now - x) % Period = Period - d
    BY <1>1, <1>2, Difference, PipelineAssumption DEF Times
  <1>4. ~Reached(now, x)
    BY <1>1, <1>3, PipelineAssumption DEF Reached, Times
  <1> QED
    BY <1>4 DEF x

--------------------------------------------------------------------------------
(* zpt_pipeline_next_deadline() *)

\* The wrapped distances of the stages that wait have a least one.
LEMMA NearestExists ==
  ASSUME NEW W \in SUBSET Stages, W # {}, NEW D \in [W -> Nat]
  PROVE  \E i \in W : \A j \in W : D[i] <= D[j]
  <1> DEFINE N == {D[i] : i \in W}
             Less == {e \in Nat \X Nat : e[1] < e[2]}
  <1>1. IsWellFoundedOn(Less, Nat)
    BY NatLessThanWellFounded DEF OpToRel
  <1>2. N \subseteq Nat /\ N # {}
    OBVIOUS
  <1>3. PICK x \in N : \A y \in N : <<y, x>> \notin Less
    <2> HIDE DEF Less, N
    <2> QED
      BY <1>1, <1>2, WFMin
  <1>4. PICK i \in W : x = D[i]
    OBVIOUS
  <1>5. ASSUME NEW j \in W
        PROVE  D[i] <= D[j]
    <2>1. D[j] \in Nat /\ D[i] \in Nat
      OBVIOUS
    <2>2. ~(D[j] < D[i])
      BY <1>3, <1>4, <2>1
    <2> QED
      BY <2>1, <2>2
  <1> QED
    BY <1>5

\* How far a stage's deadline is, and when it is reached on the way there.
LEMMA DeltaIs ==
  ASSUME NEW now \in Times, NEW i \in Stages, deadline[i] \in Times
  PROVE  /\ Delta(now, i) \in Times
         /\ Delta(now, i) = 0 <=> Reached(now, deadline[i])
         /\ ~Reached(now, deadline[i]) =>
              \A k \in 0..(Delta(now, i) - 1) : ~Reached((now + k) % Period, deadline[i])
  <1> DEFINE d == deadline[i]
             back == (now - d) % Period
             on == (d - now) % Period
  <1>1. back = (IF d <= now THEN now - d ELSE now - d + Period)
        /\ on = (IF now <= d THEN d - now ELSE d - now + Period)
    BY Difference
  <1>2. Reached(now, d) <=> 2 * back < Period
    BY DEF Reached
  <1>3. Delta(now, i) = IF Reached(now, d) THEN 0 ELSE on
    BY DEF Delta
  <1>d. d \in Times
    OBVIOUS
  <1> HIDE DEF d, back, on
  <1>4. back \in Times /\ on \in Times /\ (on = 0 => back = 0) /\ (on # 0 => back = Period - on)
    BY <1>1, <1>d, PipelineAssumption DEF Times
  <1>5. Delta(now, i) \in Times /\ (Delta(now, i) = 0 <=> Reached(now, d))
    BY <1>2, <1>3, <1>4, PipelineAssumption DEF Times
  <1>6. ASSUME ~Reached(now, d), NEW k \in 0..(Delta(now, i) - 1)
        PROVE  ~Reached((now + k) % Period, d)
    <2> DEFINE t == (now + k) % Period
    <2>0. Delta(now, i) = on
      BY <1>3, <1>6
    <2>1. k \in Times /\ k < on
      BY <1>4, <2>0, PipelineAssumption DEF Times
    <2>2. t \in Times /\ t = IF now + k < Period THEN now + k ELSE now + k - Period
      BY <2>1, Onward
    <2> HIDE DEF t
    <2>3. (t - d) % Period = IF d <= t THEN t - d ELSE t - d + Period
      BY <1>d, <2>2, Difference
    <2>4. (t - d) % Period = back + k
      BY <1>1, <1>d, <1>4, <2>1, <2>2, <2>3, PipelineAssumption DEF Times
    <2>5. 2 * (back + k) >= Period
      BY <1>2, <1>4, <1>6, <2>1, PipelineAssumption DEF Times
    <2>6. ~Reached(t, d)
      BY <1>4, <2>1, <2>4, <2>5, PipelineAssumption DEF Reached, Times
    <2> QED
      BY <2>6 DEF t
  <1> QED
    BY <1>5, <1>6 DEF d

\* The deadline that is named is one of a stage, and no stage's is nearer.
LEMMA NextDeadlineNearest ==
  ASSUME deadline \in [Stages -> Times \cup {NoDeadline}], NEW now \in Times
  PROVE  \/ NextDeadline(now) = NoDeadline /\ \A i \in Stages : ~Pending(i)
         \/ \E i \in Stages : /\ deadline[i] \in Times /\ NextDeadline(now) = deadline[i]
                              /\ \A j \in Stages : Pending(j) => Delta(now, i) <= Delta(now, j)
  <1> DEFINE W == {i \in Stages : Pending(i)}
             N == {i \in W : \A j \in W : Delta(now, i) <= Delta(now, j)}
  <1>1. NextDeadline(now) = IF W = {} THEN NoDeadline ELSE deadline[First(N)]
    BY DEF NextDeadline
  <1>2. \A i \in W : deadline[i] \in Times /\ Delta(now, i) \in Times
    <2>1. \A i \in W : deadline[i] \in Times
      BY DEF Pending
    <2> QED
      BY <2>1, DeltaIs
  <1>3. CASE W = {}
    BY <1>1, <1>3
  <1>4. CASE W # {}
    <2> DEFINE D == [i \in W |-> Delta(now, i)]
    <2>1. D \in [W -> Nat]
      BY <1>2, PipelineAssumption DEF Times
    <2>2. W \in SUBSET Stages
      OBVIOUS
    <2> HIDE DEF W, D
    <2>3. \E i \in W : \A j \in W : D[i] <= D[j]
      BY <1>4, <2>1, <2>2, NearestExists
    <2>4. N # {} /\ N \in SUBSET Stages
      BY <2>2, <2>3 DEF D
    <2>5. First(N) \in N
      <3> HIDE DEF N
      <3> QED
        BY <2>4, FirstStage
    <2>6. First(N) \in W /\ \A j \in W : Delta(now, First(N)) <= Delta(now, j)
      BY <2>5
    <2>7. \A j \in Stages : Pending(j) => j \in W
      BY DEF W
    <2> QED
      BY <1>1, <1>2, <1>4, <2>2, <2>6, <2>7
  <1> QED
    BY <1>3, <1>4

LEMMA SleepsWell ==
  ASSUME deadline \in [Stages -> Times \cup {NoDeadline}]
  PROVE  SleepMissesNothing
  <1> SUFFICES ASSUME NEW now \in Times
               PROVE  LET next == NextDeadline(now)
                      IN  IF next = NoDeadline
                            THEN \A t \in Times : Due(t) = {}
                            ELSE /\ Due(next) # {}
                                 /\ Reached(now, next) <=> Due(now) # {}
                                 /\ ~Reached(now, next) =>
                                      \A k \in 0..(((next - now) % Period) - 1) :
                                        Due((now + k) % Period) = {}
    BY DEF SleepMissesNothing
  <1> DEFINE next == NextDeadline(now)
  <1>1. \A i \in Stages : Pending(i) => deadline[i] \in Times
    BY DEF Pending
  <1>2. CASE next = NoDeadline /\ \A i \in Stages : ~Pending(i)
    BY <1>2 DEF Due
  <1>3. ASSUME NEW i \in Stages, deadline[i] \in Times, next = deadline[i],
               \A j \in Stages : Pending(j) => Delta(now, i) <= Delta(now, j)
        PROVE  /\ next # NoDeadline
               /\ Due(next) # {}
               /\ Reached(now, next) <=> Due(now) # {}
               /\ ~Reached(now, next) =>
                    \A k \in 0..(((next - now) % Period) - 1) : Due((now + k) % Period) = {}
    <2>0. next \in Times
      BY <1>3
    <2> HIDE DEF next
    <2>1. next # NoDeadline /\ Pending(i)
      BY <1>3, PipelineAssumption DEF Times, Pending
    <2>2. Reached(next, next)
      <3>1. (next - next) % Period = 0
        BY <2>0, Difference, PipelineAssumption DEF Times
      <3> QED
        BY <3>1, PipelineAssumption DEF Reached
    <2>3. Due(next) # {}
      BY <1>3, <2>1, <2>2 DEF Due
    <2>4. \A j \in Stages : Pending(j) => Delta(now, i) \in Nat /\ Delta(now, j) \in Nat
      BY <1>1, <1>3, DeltaIs, PipelineAssumption DEF Times
    <2>5. ASSUME ~Reached(now, next), NEW j \in Stages, Pending(j)
          PROVE  ~Reached(now, deadline[j])
      <3>1. Delta(now, i) # 0
        BY <1>3, <2>5, DeltaIs
      <3>2. Delta(now, j) # 0
        BY <1>3, <2>4, <2>5, <3>1
      <3> QED
        BY <1>1, <2>5, <3>2, DeltaIs
    <2>6. Reached(now, next) <=> Due(now) # {}
      BY <1>3, <2>1, <2>5 DEF Due
    <2>7. ASSUME ~Reached(now, next), NEW k \in 0..(((next - now) % Period) - 1)
          PROVE  Due((now + k) % Period) = {}
      <3>1. Delta(now, i) = (next - now) % Period
        BY <1>3, <2>7 DEF Delta
      <3>2. ASSUME NEW j \in Stages, Pending(j)
            PROVE  ~Reached((now + k) % Period, deadline[j])
        <4>1. ~Reached(now, deadline[j])
          BY <2>5, <2>7, <3>2
        <4>2. k \in 0..(Delta(now, j) - 1)
          <5>1. Delta(now, i) \in Nat /\ Delta(now, j) \in Nat /\ Delta(now, i) <= Delta(now, j)
            BY <1>3, <2>4, <3>2
          <5>2. k \in 0..(Delta(now, i) - 1)
            BY <2>7, <3>1
          <5> QED
            BY <5>1, <5>2
        <4> QED
          BY <1>1, <3>2, <4>1, <4>2, DeltaIs
      <3> QED
        BY <3>2 DEF Due
    <2> QED
      BY <2>1, <2>3, <2>6, <2>7
  <1>4. \/ next = NoDeadline /\ \A i \in Stages : ~Pending(i)
        \/ \E i \in Stages : /\ deadline[i] \in Times /\ next = deadline[i]
                             /\ \A j \in Stages : Pending(j) => Delta(now, i) <= Delta(now, j)
    BY NextDeadlineNearest
  <1> HIDE DEF next
  <1> QED
    BY <1>2, <1>3, <1>4 DEF next

\* Whoever sleeps until the deadline zpt_pipeline_next_deadline() names
\* oversleeps no stage's, for every number of stages, whatever deadlines they
\* have set and wherever the uptime wraps.
THEOREM SleepMissesNothingInvariant == Spec => []SleepMissesNothing
  <1>1. IInv => SleepMissesNothing
    BY SleepsWell DEF IInv, TypeOK
  <1> QED
    BY <1>1, InductiveInvariant, PTL
--------------------------------------------------------------------------------
(* A flush leaves nothing due *)

\* What the loop of flush has passed is not due, or not again.
Passed ==
  /\ op.running /\ op.kind = "flush" => \A i \in Due(op.now) : i > op.at
  /\ FlushDrains

\* The loop calls the first stage that is due and clears its deadline.
LEMMA FlushNextPassed ==
  ASSUME IInv, Passed, FlushNext
  PROVE  Passed'
  <1> DEFINE rest == {i \in Due(op.now) : i > op.at}
  <1>1. /\ op' = [op EXCEPT !.at = First(rest)] /\ op.running /\ op.kind = "flush"
        /\ deadline' = [deadline EXCEPT ![First(rest)] = NoDeadline]
        /\ rest \in SUBSET Stages /\ rest # {}
    BY DEF FlushNext, InLoop, Due
  <1>2. op \in OpType /\ deadline \in [Stages -> Times \cup {NoDeadline}]
    BY DEF IInv, TypeOK
  <1>3. First(rest) \in rest /\ \A i \in rest : First(rest) <= i
    <2> HIDE DEF rest
    <2> QED
      BY <1>1, FirstStage
  <1>4. op'.at = First(rest) /\ op'.now = op.now /\ op'.running
    BY <1>1, <1>2 DEF OpType
  <1>5. ASSUME NEW i \in Due(op.now)'
        PROVE  i > op'.at
    <2>1. i \in Stages /\ deadline'[i] # NoDeadline
      BY <1>5 DEF Due, Pending
    <2>2. i # First(rest)
      BY <1>1, <1>2, <2>1
    <2>3. i \in Due(op.now)
      BY <1>1, <1>2, <1>4, <1>5, <2>1, <2>2 DEF Due, Pending
    <2>4. i \in rest
      BY <1>1, <2>3 DEF Passed
    <2>5. i \in Nat /\ First(rest) \in Nat
      BY <1>1, <1>3, <2>1, PipelineAssumption DEF Stages
    <2> QED
      BY <1>3, <1>4, <2>2, <2>4, <2>5
  <1> QED
    BY <1>4, <1>5 DEF Passed, FlushDrains

\* A stage may set its deadline again, but not to what has come.
LEMMA StagePassed ==
  ASSUME IInv, Passed, Cancel \/ \E d \in Intervals : Schedule(d)
  PROVE  Passed'
  <1>1. op' = op /\ op.running /\ op.now \in Times
    BY DEF Cancel, Schedule, InStage, IInv, TypeOK, OpType
  <1>2. deadline \in [Stages -> Times \cup {NoDeadline}]
    BY DEF IInv, TypeOK
  <1>3. Due(op.now)' \subseteq Due(op.now)
    <2>1. CASE Cancel
      BY <1>1, <1>2, <2>1 DEF Cancel, Due, Pending
    <2>2. ASSUME NEW d \in Intervals, Schedule(d)
          PROVE  Due(op.now)' \subseteq Due(op.now)
      <3>1. ~Reached(op.now, (op.now + d) % Period)
        BY <1>1, NotYet
      <3>2. deadline' = [deadline EXCEPT ![Top.at] = (op.now + d) % Period]
        BY <2>2 DEF Schedule
      <3>3. ASSUME NEW i \in Due(op.now)'
            PROVE  i \in Due(op.now)
        <4>1. i \in Stages /\ deadline'[i] # NoDeadline /\ Reached(op.now, deadline'[i])
          BY <1>1, <3>3 DEF Due, Pending
        <4>2. deadline'[i] = deadline[i]
          BY <1>2, <3>1, <3>2, <4>1
        <4> QED
          BY <4>1, <4>2 DEF Due, Pending
      <3> QED
        BY <3>3
    <2> QED
      BY <2>1, <2>2
  <1> QED
    BY <1>1, <1>3 DEF Passed, FlushDrains

LEMMA PassedKept ==
  ASSUME IInv, Passed, [Next]_vars
  PROVE  Passed'
  <1>0. op \in OpType
    BY DEF IInv, TypeOK
  <1>1. CASE UNCHANGED <<op, deadline>>
    BY <1>1 DEF Passed, FlushDrains, Due, Pending
  <1>2. CASE Activate \/ Reset \/ Refuse
    BY <1>0, <1>2 DEF Activate, Reset, Refuse, Passed, FlushDrains, OpType
  <1>3. ASSUME NEW now \in Times, Push(now) \/ Flush(now) \/ Deactivate(now)
        PROVE  Passed'
    <2>1. op'.running /\ op'.at = 0
      BY <1>3 DEF Push, Flush, Deactivate, Begin
    <2>2. \A i \in Stages : i > 0
      BY PipelineAssumption DEF Stages
    <2> QED
      BY <2>1, <2>2 DEF Passed, FlushDrains, Due
  <1>4. CASE PushReturns
    BY <1>0, <1>4 DEF PushReturns, Finish, Passed, FlushDrains, OpType
  <1>5. CASE FlushReturns
    <2>1. op' = [op EXCEPT !.running = FALSE, !.failed = reg = "error"] /\ deadline' = deadline
      BY <1>5 DEF FlushReturns, Finish
    <2>2. op'.running = FALSE /\ op'.now = op.now /\ op'.failed = (reg = "error")
      BY <1>0, <2>1 DEF OpType
    <2>3. reg # "error" => Due(op.now) = {}
      <3>1. \A i \in Due(op.now) : i > op.at
        BY <1>5 DEF Passed, FlushReturns, InLoop
      <3>2. reg # "error" => \A i \in Due(op.now) : i <= op.at
        BY <1>5 DEF FlushReturns
      <3>3. \A i \in Due(op.now) : i \in Nat /\ op.at \in Nat
        BY <1>0, PipelineAssumption DEF Due, Stages, OpType
      <3> QED
        BY <3>1, <3>2, <3>3
    <2> QED
      BY <2>1, <2>2, <2>3 DEF Passed, FlushDrains, Due, Pending
  <1>6. CASE FlushNext
    BY <1>6, FlushNextPassed
  <1>7. CASE DeactivateNext \/ DeactivateReturns
    <2>1. op.kind = "deactivate"
      BY <1>7 DEF DeactivateNext, DeactivateReturns
    <2>2. op'.kind = "deactivate"
      BY <1>0, <1>7, <2>1 DEF DeactivateNext, DeactivateReturns, Finish, OpType
    <2> QED
      BY <2>2 DEF Passed, FlushDrains
  <1>8. CASE Dispatch
    <2>1. /\ deadline' = deadline /\ op.running
          /\ op' = op \/ op' = [op EXCEPT !.left = @ - 1]
      BY <1>8 DEF Dispatch
    <2>2. /\ op'.running = op.running /\ op'.kind = op.kind /\ op'.now = op.now
          /\ op'.at = op.at
      BY <1>0, <2>1 DEF OpType
    <2> QED
      BY <2>1, <2>2 DEF Passed, FlushDrains, Due, Pending
  <1>9. CASE Emit \/ EmitAgain \/ EmitAgainReturns \/ Return \/ UNCHANGED vars
    BY <1>1, <1>9 DEF Emit, EmitAgain, EmitAgainReturns, Return, vars
  <1>10. CASE Cancel \/ \E d \in Intervals : Schedule(d)
    BY <1>10, StagePassed
  <1> QED
    BY <1>2, <1>3, <1>4, <1>5, <1>6, <1>7, <1>8, <1>9, <1>10 DEF Next

\* A flush that succeeds leaves no deadline that has come, whatever the stages
\* scheduled while it ran and wherever the uptime wraps (zpt_pipeline_flush()).
THEOREM FlushDrainsInvariant == Spec => []FlushDrains
  <1>1. Init => Passed
    BY DEF Init, Passed, FlushDrains
  <1>2. IInv /\ Passed /\ [Next]_vars => Passed'
    BY PassedKept
  <1>3. Passed => FlushDrains
    BY DEF Passed
  <1> QED
    BY <1>1, <1>2, <1>3, InductiveInvariant, PTL DEF Spec
--------------------------------------------------------------------------------
(* No emission is lost *)

Done == {dispatched[k] : k \in DOMAIN dispatched}

\* Unless a failure is on its way, what was emitted is dispatched or is the
\* signal in the slot.
Accounted ==
  /\ op.running /\ op.kind \in {"push", "flush"} => ~op.failed
  /\ op.running /\ ~op.failed /\ ~Failing =>
       \A p \in emitted : p \in Done \/ (pending # NoSignal /\ pending.path = p)
  /\ NothingLost

\* An operation that ends well ends with an empty slot.
LEMMA EndAccounted ==
  ASSUME IInv, Accounted, op.running, stack = <<>>, Drained,
         NEW f \in BOOLEAN, op' = [op EXCEPT !.running = FALSE, !.failed = f],
         ~f => ~op.failed /\ reg # "error", UNCHANGED <<dispatched, emitted>>
  PROVE  Accounted'
  <1>1. op \in OpType
    BY DEF IInv, TypeOK
  <1>2. ~op'.running /\ op'.failed = f
    BY <1>1 DEF OpType
  <1>3. ~f => ~Failing /\ pending = NoSignal
    BY DEF Failing, Drained
  <1>4. ~f => \A p \in emitted : \E k \in DOMAIN dispatched : dispatched[k] = p
    BY <1>3 DEF Accounted, Done
  <1> QED
    BY <1>2, <1>4 DEF Accounted, NothingLost

\* A step inside an operation that keeps what is accounted for so.
LEMMA InsideAccounted ==
  ASSUME IInv, Accounted, op.running, op' = op, dispatched' = dispatched,
         ~Failing' => ~Failing,
         ~Failing /\ ~Failing' =>
           \A p \in emitted' : \/ p \in emitted /\ pending' = pending
                               \/ p \in emitted /\ pending = NoSignal
                               \/ pending' # NoSignal /\ pending'.path = p
  PROVE  Accounted'
  <1>1. Done' = Done
    BY DEF Done
  <1> QED
    BY <1>1 DEF Accounted, NothingLost

LEMMA DispatchAccounted ==
  ASSUME IInv, Accounted, Dispatch
  PROVE  Accounted'
  <1>1. /\ op.running /\ reg = "ok" /\ pending # NoSignal /\ pending' = NoSignal
        /\ emitted' = emitted /\ op \in OpType
        /\ dispatched \in Seq(Seq(Nat)) /\ pending.path \in Seq(Nat)
    BY DEF Dispatch, IInv, TypeOK, SignalType
  <1>2. CASE reg' = "error" /\ op' = op
    BY <1>1, <1>2 DEF Accounted, NothingLost, Failing
  <1>3. CASE op' = [op EXCEPT !.left = @ - 1] /\ dispatched' = Append(dispatched, pending.path)
    <2>1. /\ op'.running /\ op'.kind = op.kind /\ op'.failed = op.failed
      BY <1>1, <1>3 DEF OpType
    <2>2. Done \cup {pending.path} \subseteq Done'
      <3>1. /\ DOMAIN dispatched = 1..Len(dispatched) /\ Len(dispatched) \in Nat
            /\ DOMAIN dispatched' = 1..(Len(dispatched) + 1)
            /\ dispatched'[Len(dispatched) + 1] = pending.path
            /\ \A k \in 1..Len(dispatched) : dispatched'[k] = dispatched[k]
        BY <1>1, <1>3, Pushed, LenProperties
      <3> QED
        BY <3>1 DEF Done
    <2>3. ASSUME ~op.failed, ~Failing'
          PROVE  ~Failing
      <3>1. stack' = stack \/ \E e : stack' = Append(stack, e)
        BY DEF Dispatch
      <3>2. stack \in Seq(FrameType)
        BY DEF IInv, TypeOK
      <3>3. \A k \in DOMAIN stack : k \in DOMAIN stack' /\ stack'[k] = stack[k]
        <4>1. CASE stack' = stack
          BY <4>1
        <4>2. ASSUME NEW e, stack' = Append(stack, e)
              PROVE  \A k \in DOMAIN stack : k \in DOMAIN stack' /\ stack'[k] = stack[k]
          BY <3>2, <4>2
        <4> QED
          BY <3>1, <4>1, <4>2
      <3> QED
        BY <1>1, <2>3, <3>3 DEF Failing
    <2> QED
      BY <1>1, <2>1, <2>2, <2>3 DEF Accounted, NothingLost
  <1> QED
    BY <1>2, <1>3 DEF Dispatch

LEMMA EmitAccounted ==
  ASSUME IInv, Accounted, Emit \/ EmitAgain \/ EmitAgainReturns
  PROVE  Accounted'
  <1>1. op.running /\ stack # <<>> /\ op' = op /\ dispatched' = dispatched
    BY DEF Emit, EmitAgain, EmitAgainReturns, InStage
  <1>2. stack \in Seq(FrameType) /\ Top \in FrameType
    BY <1>1, EmissionType DEF IInv, TypeOK
  <1>3. /\ DOMAIN stack' = DOMAIN stack /\ Len(stack) \in DOMAIN stack
        /\ \A k \in DOMAIN stack : k # Len(stack) => stack'[k] = stack[k]
    BY <1>1, <1>2, HasTop DEF Emit, EmitAgain, EmitAgainReturns
  <1>4. stack[Len(stack)].failed => stack'[Len(stack)].failed
    <2>1. CASE Emit \/ EmitAgain
      BY <2>1 DEF Emit, EmitAgain, Top
    <2>2. CASE EmitAgainReturns
      BY <1>2, <1>3, <2>2 DEF EmitAgainReturns, Top, FrameType
    <2> QED
      BY <2>1, <2>2
  <1>5. reg = "error" => stack'[Len(stack)].failed
    BY <1>2, <1>3 DEF Emit, EmitAgain, EmitAgainReturns, InStage, Top, FrameType
  <1>6. ~Failing' => ~Failing
    BY <1>3, <1>4, <1>5 DEF Failing
  <1>7. CASE Emit
    <2>1. pending = NoSignal /\ pending' = Emission /\ emitted' = emitted \cup {Emission.path}
      BY <1>7 DEF Emit
    <2>2. Emission # NoSignal
      BY <1>1, EmissionType
    <2> QED
      BY <1>1, <1>6, <2>1, <2>2, InsideAccounted
  <1>8. CASE EmitAgain
    <2>1. pending' = pending /\ emitted' = emitted
      BY <1>8 DEF EmitAgain
    <2> QED
      BY <1>1, <1>6, <2>1, InsideAccounted
  <1>9. CASE EmitAgainReturns
    <2>1. Top.held # NoSignal
      BY <1>9 DEF IInv, Waiting, WaitsToEmit, EmitAgainReturns
    <2>2. reg # "error" => /\ pending = NoSignal /\ pending' = Top.held
                           /\ emitted' = emitted \cup {Top.held.path}
      BY <1>9 DEF EmitAgainReturns, Drained
    <2>3. reg = "error" => Failing
      BY DEF Failing
    <2> QED
      BY <1>1, <1>6, <2>1, <2>2, <2>3, InsideAccounted
  <1> QED
    BY <1>7, <1>8, <1>9

LEMMA AccountedKept ==
  ASSUME IInv, FailedOnTop, Accounted, [Next]_vars
  PROVE  Accounted'
  <1>0. op \in OpType
    BY DEF IInv, TypeOK
  <1>1. CASE Activate \/ Reset \/ Refuse
    BY <1>0, <1>1 DEF Activate, Reset, Refuse, Accounted, NothingLost, OpType
  <1>2. ASSUME NEW now \in Times, Push(now) \/ Flush(now) \/ Deactivate(now)
        PROVE  Accounted'
    <2>1. op'.running /\ ~op'.failed /\ emitted' = {}
      BY <1>2 DEF Push, Flush, Deactivate, Begin
    <2> QED
      BY <2>1 DEF Accounted, NothingLost
  <1>3. CASE PushReturns \/ FlushReturns
    <2>1. /\ op.running /\ op.kind \in {"push", "flush"} /\ stack = <<>> /\ Drained
          /\ op' = [op EXCEPT !.running = FALSE, !.failed = (reg = "error")]
          /\ UNCHANGED <<dispatched, emitted>>
      BY <1>3 DEF PushReturns, FlushReturns, Finish, InLoop
    <2>2. ~op.failed
      BY <2>1 DEF Accounted
    <2> QED
      BY <2>1, <2>2, EndAccounted
  <1>4. CASE DeactivateReturns
    <2>1. PICK sink \in BOOLEAN : Finish(op.failed \/ reg = "error" \/ ~sink)
      BY <1>4 DEF DeactivateReturns
    <2> DEFINE f == op.failed \/ reg = "error" \/ ~sink
    <2>2. /\ op.running /\ stack = <<>> /\ Drained
          /\ op' = [op EXCEPT !.running = FALSE, !.failed = f]
          /\ UNCHANGED <<dispatched, emitted>>
      BY <1>4, <2>1 DEF DeactivateReturns, Finish, InLoop
    <2>3. f \in BOOLEAN /\ (~f => ~op.failed /\ reg # "error")
      OBVIOUS
    <2> HIDE DEF f
    <2> QED
      BY <2>2, <2>3, EndAccounted
  <1>5. CASE FlushNext \/ DeactivateNext
    <2>1. /\ op.running /\ stack = <<>> /\ Drained /\ pending' = NoSignal
          /\ UNCHANGED <<dispatched, emitted>>
          /\ op.kind \in {"flush", "deactivate"}
      BY <1>5 DEF FlushNext, DeactivateNext, InLoop, Drained
    <2>2. /\ op'.running /\ op'.kind = op.kind
          /\ ~op'.failed => ~op.failed
          /\ op.kind = "flush" => op'.failed = op.failed
          /\ ~op'.failed => reg # "error"
      BY <1>0, <1>5 DEF FlushNext, DeactivateNext, InLoop, OpType
    <2>3. reg # "error" => ~Failing /\ pending = NoSignal
      BY <2>1 DEF Failing, Drained
    <2>4. Done' = Done
      BY <2>1 DEF Done
    <2> QED
      BY <2>1, <2>2, <2>3, <2>4 DEF Accounted, NothingLost
  <1>6. CASE Dispatch
    BY <1>6, DispatchAccounted
  <1>7. CASE Emit \/ EmitAgain \/ EmitAgainReturns
    BY <1>7, EmitAccounted
  <1>8. CASE Cancel \/ \E d \in Intervals : Schedule(d)
    <2>1. op.running /\ UNCHANGED <<op, stack, pending, reg, dispatched, emitted>>
      BY <1>8 DEF Cancel, Schedule, InStage
    <2> QED
      BY <2>1, InsideAccounted DEF Failing
  <1>9. CASE Return
    <2>1. /\ op.running /\ stack # <<>> /\ reg = "none" /\ reg' \in {"ok", "error"}
          /\ Top.failed => reg' = "error"
          /\ UNCHANGED <<op, pending, dispatched, emitted>>
      BY <1>9 DEF Return, InStage
    <2>2. ~Failing' => ~Failing
      BY <2>1 DEF Failing, FailedOnTop, Top
    <2> QED
      BY <2>1, <2>2, InsideAccounted
  <1>10. CASE UNCHANGED vars
    BY <1>10 DEF vars, Accounted, NothingLost, Failing, Done
  <1> QED
    BY <1>1, <1>2, <1>3, <1>4, <1>5, <1>6, <1>7, <1>8, <1>9, <1>10 DEF Next

LEMMA FailedOnTopAlways == Spec => []FailedOnTop
  <1>1. Init => FailedOnTop
    BY DEF Init, FailedOnTop
  <1>2. IInv /\ FailedOnTop /\ [Next]_vars => FailedOnTop'
    BY FailedOnTopKept
  <1> QED
    BY <1>1, <1>2, InductiveInvariant, PTL DEF Spec

\* One slot per operation loses nothing: what stages were told went well has
\* reached the next stage or the sink when the operation returns 0, however
\* many emissions were suspended in each other (zpt_stage_emit(), drain()).
THEOREM NothingLostInvariant == Spec => []NothingLost
  <1>1. Init => Accounted
    BY DEF Init, Accounted, NothingLost
  <1>2. IInv /\ FailedOnTop /\ Accounted /\ [Next]_vars => Accounted'
    BY AccountedKept
  <1>3. Accounted => NothingLost
    BY DEF Accounted
  <1> QED
    BY <1>1, <1>2, <1>3, InductiveInvariant, FailedOnTopAlways, PTL DEF Spec
--------------------------------------------------------------------------------
(* The order of dispatches *)

\* The number of the emission of f that may be dispatched next: the one it
\* holds, or else the one it may still make.
NextOf(f) == IF f.held = NoSignal THEN f.sent + 1 ELSE f.sent

\* The path p comes from an emission of f before that one.
Under(p, f) ==
  /\ Len(f.path) < Len(p)
  /\ \A j \in 1..Len(f.path) : p[j] = f.path[j]
  /\ p[Len(f.path) + 1] < NextOf(f)

\* All that is done comes before q.
Ahead(done, q) == \A k \in DOMAIN done : Before(done[k], q)

\* In a flush or a deactivation, p comes from a stage the loop has called.
Rooted(o, p) ==
  o.running /\ o.kind \in {"flush", "deactivate"} => Len(p) > 0 /\ p[1] <= o.at

HeldNext ==
  /\ \A k \in DOMAIN stack :
       stack[k].held # NoSignal => stack[k].held.path = Append(stack[k].path, stack[k].sent)
  /\ stack # <<>> /\ reg = "none" => Top.held = NoSignal

Nested ==
  /\ \A j, k \in DOMAIN stack : j < k => Under(stack[k].path, stack[j])
  /\ pending # NoSignal => \A k \in DOMAIN stack : Under(pending.path, stack[k])

AllRooted ==
  /\ \A k \in DOMAIN stack : Rooted(op, stack[k].path)
  /\ \A k \in DOMAIN dispatched : Rooted(op, dispatched[k])
  /\ pending # NoSignal => Rooted(op, pending.path)

\* What may still be dispatched comes after what was.
Later ==
  /\ pending # NoSignal => Ahead(dispatched, pending.path)
  /\ \A k \in DOMAIN stack : \A s \in Nat :
       s >= NextOf(stack[k]) => Ahead(dispatched, Append(stack[k].path, s))

Ordered == ImmediateOrder /\ HeldNext /\ Nested /\ AllRooted /\ Later

\* What comes before a call comes before its emissions, and so does the call.
LEMMA BeforeDeeper ==
  ASSUME NEW p \in Seq(Nat), NEW q \in Seq(Nat), NEW s \in Nat
  PROVE  /\ Before(p, q) => Before(p, Append(q, s))
         /\ Before(q, Append(q, s))
  <1> DEFINE r == Append(q, s)
  <1>1. /\ Len(r) = Len(q) + 1 /\ r[Len(q) + 1] = s /\ Len(q) \in Nat
        /\ \A j \in 1..Len(q) : r[j] = q[j]
    BY Pushed, LenProperties
  <1> HIDE DEF r
  <1>2. ASSUME Before(p, q)
        PROVE  Before(p, r)
    <2>1. PICK k \in 1..Len(q) : /\ \A j \in 1..(k - 1) : j <= Len(p) /\ p[j] = q[j]
                                 /\ k > Len(p) \/ p[k] < q[k]
      BY <1>2 DEF Before
    <2>2. k \in 1..Len(r) /\ r[k] = q[k] /\ \A j \in 1..(k - 1) : r[j] = q[j]
      BY <1>1, <2>1
    <2> QED
      BY <2>1, <2>2 DEF Before
  <1>3. Before(q, r)
    <2>1. /\ Len(q) + 1 \in 1..Len(r) /\ Len(q) + 1 > Len(q)
          /\ \A j \in 1..((Len(q) + 1) - 1) : j <= Len(q) /\ q[j] = r[j]
      BY <1>1
    <2> QED
      BY <2>1 DEF Before
  <1> QED
    BY <1>2, <1>3 DEF r

\* A path that comes from an earlier emission comes before the next one.
LEMMA BeforeNext ==
  ASSUME NEW p \in Seq(Nat), NEW f \in FrameType, Under(p, f), NEW s \in Nat, s >= NextOf(f)
  PROVE  Before(p, Append(f.path, s))
  <1> DEFINE n == Len(f.path)
             r == Append(f.path, s)
  <1>1. f.path \in Seq(Nat) /\ f.sent \in Nat
    BY DEF FrameType
  <1>2. Len(r) = n + 1 /\ r[n + 1] = s /\ n \in Nat /\ \A j \in 1..n : r[j] = f.path[j]
    BY <1>1, Pushed, LenProperties
  <1>3. NextOf(f) \in Nat
    BY <1>1 DEF NextOf
  <1>4. Len(p) \in Nat /\ n < Len(p) /\ p[n + 1] < NextOf(f) /\ \A j \in 1..n : p[j] = f.path[j]
    BY LenProperties DEF Under
  <1>n. n = Len(f.path) /\ r = Append(f.path, s)
    OBVIOUS
  <1> HIDE DEF n, r
  <1>5. p[n + 1] \in Nat
    BY <1>2, <1>4, ElementOfSeq
  <1>6. p[n + 1] < s
    BY <1>3, <1>4, <1>5
  <1>7. /\ n + 1 \in 1..Len(r)
        /\ \A j \in 1..((n + 1) - 1) : j <= Len(p) /\ p[j] = r[j]
    BY <1>2, <1>4
  <1>8. Before(p, r)
    BY <1>2, <1>6, <1>7 DEF Before
  <1> QED
    BY <1>8, <1>n

\* What comes from stages the loop has called comes before the next call's.
LEMMA BeforeCall ==
  ASSUME NEW p \in Seq(Nat), NEW i \in Nat, Len(p) > 0, p[1] < i, NEW s \in Nat
  PROVE  Before(p, Append(<<i>>, s))
  <1>1. <<i>> \in Seq(Nat) /\ Len(<<i>>) = 1 /\ <<i>>[1] = i
    OBVIOUS
  <1>2. Before(p, <<i>>)
    BY <1>1 DEF Before
  <1> QED
    BY <1>1, <1>2, BeforeDeeper

\* Emissions of a call come from where the call comes from.
LEMMA UnderDeeper ==
  ASSUME NEW p \in Seq(Nat), NEW f \in FrameType, NEW s \in Nat
  PROVE  /\ Under(p, f) => Under(Append(p, s), f)
         /\ p = f.path /\ s < NextOf(f) => Under(Append(p, s), f)
  <1> DEFINE r == Append(p, s)
  <1>1. /\ Len(r) = Len(p) + 1 /\ r[Len(p) + 1] = s /\ Len(p) \in Nat
        /\ \A j \in 1..Len(p) : r[j] = p[j]
    BY Pushed, LenProperties
  <1>2. f.path \in Seq(Nat) /\ Len(f.path) \in Nat
    BY LenProperties DEF FrameType
  <1> HIDE DEF r
  <1>3. ASSUME Under(p, f)
        PROVE  Under(r, f)
    <2>1. Len(f.path) + 1 \in 1..Len(p) /\ \A j \in 1..Len(f.path) : j \in 1..Len(p)
      BY <1>1, <1>2, <1>3 DEF Under
    <2>2. r[Len(f.path) + 1] = p[Len(f.path) + 1] /\ \A j \in 1..Len(f.path) : r[j] = p[j]
      BY <1>1, <2>1
    <2>3. Len(f.path) < Len(r)
      BY <1>1, <1>2, <1>3 DEF Under
    <2> QED
      BY <1>3, <2>2, <2>3 DEF Under
  <1>4. p = f.path /\ s < NextOf(f) => Under(r, f)
    BY <1>1 DEF Under
  <1> QED
    BY <1>3, <1>4 DEF r

\* The frames of the stack and what they are told apart by.
LEMMA StackFrames ==
  ASSUME IInv
  PROVE  /\ stack \in Seq(FrameType) /\ DOMAIN stack = 1..Len(stack) /\ Len(stack) \in Nat
         /\ \A k \in DOMAIN stack : /\ stack[k] \in FrameType
                                    /\ stack[k].path \in Seq(Nat)
                                    /\ NextOf(stack[k]) \in Nat
  <1>1. stack \in Seq(FrameType) /\ DOMAIN stack = 1..Len(stack) /\ Len(stack) \in Nat
    BY LenProperties DEF IInv, TypeOK
  <1>2. \A k \in DOMAIN stack : stack[k] \in FrameType
    BY <1>1, ElementOfSeq
  <1>3. \A f \in FrameType : f.path \in Seq(Nat) /\ NextOf(f) \in Nat
    BY DEF FrameType, NextOf
  <1> QED
    BY <1>1, <1>2, <1>3

LEMMA DispatchedPaths ==
  ASSUME IInv
  PROVE  /\ DOMAIN dispatched = 1..Len(dispatched) /\ Len(dispatched) \in Nat
         /\ \A k \in DOMAIN dispatched : dispatched[k] \in Seq(Nat)
  <1>1. dispatched \in Seq(Seq(Nat))
    BY DEF IInv, TypeOK
  <1>2. DOMAIN dispatched = 1..Len(dispatched) /\ Len(dispatched) \in Nat
    BY <1>1, LenProperties
  <1> QED
    BY <1>1, <1>2, ElementOfSeq

\* A step of zpt_stage_emit() puts at most the caller's next emission into
\* the slot.
LEMMA EmitStepOrdered ==
  ASSUME IInv, Ordered, stack # <<>>, NEW f \in FrameType,
         stack' = [stack EXCEPT ![Len(stack)] = f],
         f.path = Top.path, NextOf(f) >= NextOf(Top),
         f.held # NoSignal => f.held.path = Append(f.path, f.sent),
         reg' = "none" => f.held = NoSignal,
         UNCHANGED <<op, dispatched>>,
         \/ pending' \in {pending, NoSignal}
         \/ \E s \in Nat : /\ pending'.path = Append(Top.path, s)
                           /\ s >= NextOf(Top) /\ s < NextOf(f)
  PROVE  Ordered'
  <1> DEFINE n == Len(stack)
  <1>1. /\ stack \in Seq(FrameType) /\ DOMAIN stack = 1..n /\ n \in Nat /\ n \in DOMAIN stack
        /\ \A k \in DOMAIN stack : /\ stack[k] \in FrameType /\ stack[k].path \in Seq(Nat)
                                   /\ NextOf(stack[k]) \in Nat
    BY StackFrames, HasTop
  <1>2. /\ DOMAIN stack' = DOMAIN stack /\ stack'[n] = f /\ Len(stack') = n
        /\ \A k \in DOMAIN stack : k # n => stack'[k] = stack[k]
    BY <1>1, TopChanged
  <1>top. Top = stack[n] /\ Top' = f
    BY <1>2 DEF Top
  <1>n. n = Len(stack)
    OBVIOUS
  <1> HIDE DEF n
  <1>3. NextOf(f) \in Nat
    BY DEF NextOf, FrameType
  <1>4. \A k \in DOMAIN stack : /\ stack'[k].path = stack[k].path
                                /\ NextOf(stack'[k]) >= NextOf(stack[k])
    BY <1>1, <1>2, <1>top
  <1>5. ASSUME NEW p, NEW k \in DOMAIN stack, Len(p) \in Nat, Under(p, stack[k]),
               p[Len(stack[k].path) + 1] \in Nat
        PROVE  Under(p, stack'[k])
    <2>1. NextOf(stack'[k]) \in Nat /\ NextOf(stack[k]) \in Nat
      BY <1>1, <1>2, <1>3
    <2>2. p[Len(stack[k].path) + 1] < NextOf(stack[k])
      BY <1>5 DEF Under
    <2>3. p[Len(stack[k].path) + 1] < NextOf(stack'[k])
      BY <1>4, <1>5, <2>1, <2>2
    <2>4. stack'[k].path = stack[k].path
      BY <1>4
    <2> QED
      BY <1>5, <2>3, <2>4 DEF Under
  <1>6. ASSUME NEW p \in Seq(Nat), NEW k \in DOMAIN stack, Under(p, stack[k])
        PROVE  Under(p, stack'[k])
    <2>1. Len(p) \in Nat /\ Len(stack[k].path) \in Nat /\ Len(stack[k].path) < Len(p)
      BY <1>1, <1>6, LenProperties DEF Under
    <2>2. p[Len(stack[k].path) + 1] \in Nat
      BY <2>1, ElementOfSeq
    <2> QED
      BY <1>5, <1>6, <2>1, <2>2
  <1>7. HeldNext'
    BY <1>2, <1>top DEF Ordered, HeldNext
  <1>8. \A j, k \in DOMAIN stack : j < k => Under(stack'[k].path, stack'[j])
    BY <1>1, <1>4, <1>6 DEF Ordered, Nested
  <1>9. \A q : Ahead(dispatched', q) = Ahead(dispatched, q)
    BY DEF Ahead
  <1>10. \A q : Rooted(op', q) = Rooted(op, q)
    BY DEF Rooted
  <1>11. \A k \in DOMAIN stack : \A s \in Nat :
           s >= NextOf(stack'[k]) => Ahead(dispatched, Append(stack'[k].path, s))
    <2> SUFFICES ASSUME NEW k \in DOMAIN stack, NEW s \in Nat, s >= NextOf(stack'[k])
                 PROVE  Ahead(dispatched, Append(stack'[k].path, s))
      OBVIOUS
    <2>1. NextOf(stack'[k]) \in Nat /\ NextOf(stack[k]) \in Nat
      BY <1>1, <1>2, <1>3
    <2>2. s >= NextOf(stack[k])
      BY <1>4, <2>1
    <2> QED
      BY <1>4, <2>2 DEF Ordered, Later
  <1>12. CASE pending' \in {pending, NoSignal}
    <2>1. pending' # NoSignal => pending' = pending /\ pending.path \in Seq(Nat)
      BY <1>12 DEF IInv, TypeOK, SignalType
    <2>2. Nested'
      BY <1>2, <1>6, <1>8, <2>1 DEF Ordered, Nested
    <2>3. AllRooted'
      BY <1>2, <1>4, <1>10, <2>1 DEF Ordered, AllRooted
    <2>4. Later'
      BY <1>2, <1>9, <1>11, <2>1 DEF Ordered, Later
    <2> QED
      BY <1>7, <2>2, <2>3, <2>4 DEF Ordered, ImmediateOrder
  <1>13. ASSUME NEW s \in Nat, pending'.path = Append(Top.path, s),
                s >= NextOf(Top), s < NextOf(f)
         PROVE  Ordered'
    <2>1. Top.path \in Seq(Nat) /\ Top \in FrameType
      BY <1>1, <1>top
    <2>2. \A k \in DOMAIN stack : Under(pending'.path, stack'[k])
      <3>1. ASSUME NEW k \in DOMAIN stack, k # n
            PROVE  Under(pending'.path, stack'[k])
        <4>1. Under(Top.path, stack[k]) /\ stack'[k] = stack[k]
          BY <1>1, <1>2, <1>top, <3>1 DEF Ordered, Nested
        <4> QED
          BY <1>1, <1>13, <2>1, <4>1, UnderDeeper
      <3>2. Under(pending'.path, f)
        BY <1>13, <2>1, UnderDeeper
      <3> QED
        BY <1>2, <3>1, <3>2
    <2>3. Rooted(op, pending'.path)
      <3>1. Rooted(op, Top.path)
        BY <1>1, <1>top DEF Ordered, AllRooted
      <3>2. Len(Top.path) > 0 =>
              Len(Append(Top.path, s)) > 0 /\ Append(Top.path, s)[1] = Top.path[1]
        <4>1. /\ Len(Append(Top.path, s)) = Len(Top.path) + 1 /\ Len(Top.path) \in Nat
              /\ \A j \in 1..Len(Top.path) : Append(Top.path, s)[j] = Top.path[j]
          BY <2>1, Pushed, LenProperties
        <4> QED
          BY <4>1
      <3> QED
        BY <1>13, <3>1, <3>2 DEF Rooted
    <2>4. Ahead(dispatched, pending'.path)
      BY <1>1, <1>top, <1>13 DEF Ordered, Later
    <2>5. Nested'
      BY <1>2, <1>8, <2>2 DEF Nested
    <2>6. AllRooted'
      BY <1>2, <1>4, <1>10, <2>3 DEF Ordered, AllRooted
    <2>7. Later'
      BY <1>2, <1>9, <1>11, <2>4 DEF Later
    <2> QED
      BY <1>7, <2>5, <2>6, <2>7 DEF Ordered, ImmediateOrder
  <1> QED
    BY <1>12, <1>13

LEMMA EmitOrdered ==
  ASSUME IInv, Ordered, Emit \/ EmitAgain \/ EmitAgainReturns
  PROVE  Ordered'
  <1>1. stack # <<>> /\ UNCHANGED <<op, dispatched>>
    BY DEF Emit, EmitAgain, EmitAgainReturns, InStage
  <1>2. /\ Top \in FrameType /\ Top.sent \in Nat
        /\ Emission \in SignalType /\ Emission # NoSignal
    BY <1>1, EmissionType
  <1>3. Top.path \in Seq(Nat) /\ Top = stack[Len(stack)] /\ Len(stack) \in DOMAIN stack
    BY <1>1, <1>2, HasTop DEF FrameType, Top, IInv, TypeOK
  <1>4. CASE Emit
    <2> DEFINE f == [Top EXCEPT !.sent = Top.sent + 1]
    <2>1. stack' = [stack EXCEPT ![Len(stack)] = f]
      BY <1>4 DEF Emit, Top
    <2>2. /\ f \in FrameType /\ f.path = Top.path /\ f.held = Top.held
          /\ f.sent = Top.sent + 1
      BY <1>2 DEF FrameType
    <2>3. Top.held = NoSignal
      BY <1>1, <1>4 DEF Ordered, HeldNext, Emit, InStage
    <2> HIDE DEF f
    <2>4. NextOf(Top) = Top.sent + 1 /\ NextOf(f) = Top.sent + 2
      BY <1>2, <2>2, <2>3 DEF NextOf
    <2>5. pending'.path = Append(Top.path, Top.sent + 1)
      BY <1>4 DEF Emit, Emission, Signal
    <2>6. Top.sent + 1 \in Nat /\ Top.sent + 1 >= NextOf(Top) /\ Top.sent + 1 < NextOf(f)
          /\ NextOf(f) >= NextOf(Top)
      BY <1>2, <2>4
    <2> QED
      BY <1>1, <2>1, <2>2, <2>3, <2>5, <2>6, EmitStepOrdered
  <1>5. CASE EmitAgain
    <2> DEFINE f == [Top EXCEPT !.sent = Top.sent + 1, !.held = Emission]
    <2>1. stack' = [stack EXCEPT ![Len(stack)] = f] /\ reg' = "ok" /\ pending' = pending
      BY <1>5 DEF EmitAgain, Top
    <2>2. f \in FrameType /\ f.held = Emission /\ f.sent = Top.sent + 1
      BY <1>2, FrameHolds
    <2>3. f.path = Top.path
      BY <1>2 DEF FrameType
    <2>4. Top.held = NoSignal
      BY <1>1, <1>5 DEF Ordered, HeldNext, EmitAgain, InStage
    <2> HIDE DEF f
    <2>5. NextOf(Top) = Top.sent + 1 /\ NextOf(f) = Top.sent + 1
      BY <1>2, <2>2, <2>4 DEF NextOf
    <2>6. f.held.path = Append(f.path, f.sent)
      BY <2>2, <2>3 DEF Emission, Signal
    <2>7. NextOf(f) >= NextOf(Top)
      BY <1>2, <2>5
    <2>8. reg' # "none" /\ pending' \in {pending, NoSignal}
      BY <2>1
    <2> QED
      BY <1>1, <2>1, <2>2, <2>3, <2>6, <2>7, <2>8, EmitStepOrdered
  <1>6. CASE EmitAgainReturns
    <2>1. Top.held # NoSignal
      BY <1>6 DEF IInv, Waiting, WaitsToEmit, EmitAgainReturns
    <2>2. Top.held.path = Append(Top.path, Top.sent)
      BY <1>3, <2>1 DEF Ordered, HeldNext
    <2>3. PICK e \in BOOLEAN :
            stack' = [stack EXCEPT ![Len(stack)] = [Top EXCEPT !.held = NoSignal, !.failed = e]]
      <3>1. CASE stack' = [stack EXCEPT ![Len(stack)].held = NoSignal]
        <4>1. [Top EXCEPT !.held = NoSignal] = [Top EXCEPT !.held = NoSignal, !.failed = Top.failed]
          BY <1>2 DEF FrameType
        <4>2. Top.failed \in BOOLEAN
          BY <1>2 DEF FrameType
        <4> QED
          BY <1>3, <3>1, <4>1, <4>2
      <3>2. CASE stack' = [stack EXCEPT ![Len(stack)].held = NoSignal,
                                        ![Len(stack)].failed = TRUE]
        <4>1. stack \in Seq(FrameType)
          BY DEF IInv, TypeOK
        <4> QED
          BY <1>3, <3>2, <4>1
      <3> QED
        BY <1>6, <3>1, <3>2 DEF EmitAgainReturns
    <2> DEFINE f == [Top EXCEPT !.held = NoSignal, !.failed = e]
    <2>4. f \in FrameType /\ f.path = Top.path /\ f.held = NoSignal /\ f.sent = Top.sent
      BY <1>2, NoSignalType DEF FrameType
    <2>5. stack' = [stack EXCEPT ![Len(stack)] = f]
      BY <2>3
    <2> HIDE DEF f
    <2>6. NextOf(Top) = Top.sent /\ NextOf(f) = Top.sent + 1 /\ NextOf(f) >= NextOf(Top)
      BY <1>2, <2>1, <2>4 DEF NextOf
    <2>7. pending' = NoSignal \/ pending' = Top.held
      BY <1>6 DEF EmitAgainReturns
    <2>8. CASE pending' = NoSignal
      BY <1>1, <2>4, <2>5, <2>6, <2>8, EmitStepOrdered
    <2>9. CASE pending' = Top.held
      <3>1. /\ pending'.path = Append(Top.path, Top.sent)
            /\ Top.sent >= NextOf(Top) /\ Top.sent < NextOf(f)
        BY <1>2, <2>2, <2>6, <2>9
      <3> QED
        BY <1>1, <1>2, <2>4, <2>5, <2>6, <3>1, EmitStepOrdered
    <2> QED
      BY <2>7, <2>8, <2>9
  <1> QED
    BY <1>4, <1>5, <1>6

\* The signal in the slot is the next in turn, and its call's emissions come
\* right after it.
LEMMA DispatchOrdered ==
  ASSUME IInv, Ordered, Dispatch
  PROVE  Ordered'
  <1> DEFINE p == pending.path
             m == Len(dispatched)
             n == Len(stack)
  <1>1. /\ pending # NoSignal /\ pending' = NoSignal /\ pending \in SignalType
        /\ p \in Seq(Nat) /\ op \in OpType /\ dispatched \in Seq(Seq(Nat))
    BY DEF Dispatch, IInv, TypeOK, SignalType
  <1>2. /\ Ahead(dispatched, p) /\ Rooted(op, p) /\ \A k \in DOMAIN stack : Under(p, stack[k])
    BY <1>1 DEF Ordered, Later, AllRooted, Nested
  <1>3. \A q : Rooted(op', q) = Rooted(op, q)
    <2>1. op' = op \/ op' = [op EXCEPT !.left = @ - 1]
      BY DEF Dispatch
    <2>2. op'.running = op.running /\ op'.kind = op.kind /\ op'.at = op.at
      BY <1>1, <2>1 DEF OpType
    <2> QED
      BY <2>2 DEF Rooted
  <1>4. CASE UNCHANGED <<stack, dispatched>>
    <2>1. reg' # "none"
      BY <1>1, <1>4 DEF Dispatch
    <2>2. HeldNext' /\ Nested' /\ ImmediateOrder'
      BY <1>1, <1>4, <2>1 DEF Ordered, HeldNext, Nested, ImmediateOrder
    <2>3. AllRooted' /\ Later'
      BY <1>1, <1>3, <1>4 DEF Ordered, AllRooted, Later, Ahead
    <2> QED
      BY <2>2, <2>3 DEF Ordered
  <1>5. CASE dispatched' = Append(dispatched, p)
    <2>1. /\ DOMAIN dispatched = 1..m /\ m \in Nat /\ DOMAIN dispatched' = 1..(m + 1)
          /\ dispatched'[m + 1] = p /\ \A k \in 1..m : dispatched'[k] = dispatched[k]
      BY <1>1, <1>5, Pushed, LenProperties
    <2>s. /\ DOMAIN stack = 1..n /\ n \in Nat /\ stack \in Seq(FrameType)
          /\ \A k \in DOMAIN stack : /\ stack[k] \in FrameType /\ stack[k].path \in Seq(Nat)
                                     /\ NextOf(stack[k]) \in Nat
      BY StackFrames
    <2> HIDE DEF m, n, p
    <2>2. ImmediateOrder'
      BY <1>2, <2>1 DEF Ordered, ImmediateOrder, Ahead
    <2>3. \A q : Ahead(dispatched, q) /\ Before(p, q) => Ahead(dispatched', q)
      BY <2>1 DEF Ahead
    <2>4. \A k \in DOMAIN stack : \A s \in Nat :
            s >= NextOf(stack[k]) => Ahead(dispatched', Append(stack[k].path, s))
      BY <1>1, <1>2, <2>3, <2>s, BeforeNext DEF Ordered, Later
    <2>5. \A k \in DOMAIN dispatched' : Rooted(op', dispatched'[k])
      BY <1>2, <1>3, <2>1 DEF Ordered, AllRooted
    <2>6. CASE stack' = stack
      <3>1. reg' # "none"
        BY <1>1, <2>6 DEF Dispatch
      <3> QED
        BY <1>1, <1>3, <2>2, <2>4, <2>5, <2>6, <3>1
        DEF Ordered, HeldNext, Nested, AllRooted, Later
    <2>7. CASE stack' = Append(stack, Frame(pending.at, p)) /\ pending.at <= StageCount
      <3> DEFINE f == Frame(pending.at, p)
      <3>1. pending.at \in Stages
        <4>1. pending.at > 0
          BY <1>1 DEF IInv, Slot
        <4> QED
          BY <1>1, <2>7, <4>1, PipelineAssumption DEF SignalType, Stages
      <3>2. f \in FrameType /\ f.path = p /\ f.held = NoSignal /\ f.sent = 0
        BY <1>1, <3>1, NewFrame DEF Frame
      <3>3. NextOf(f) = 1
        BY <3>2 DEF NextOf
      <3> HIDE DEF f
      <3>4. /\ DOMAIN stack' = 1..(n + 1) /\ Len(stack') = n + 1 /\ stack'[n + 1] = f
            /\ \A k \in 1..n : stack'[k] = stack[k]
        BY <2>7, <2>s, <3>2, Pushed, LenProperties DEF f, n
      <3>5. HeldNext'
        <4>1. Top' = f
          BY <3>4 DEF Top
        <4>2. ASSUME NEW k \in DOMAIN stack', stack'[k].held # NoSignal
              PROVE  stack'[k].held.path = Append(stack'[k].path, stack'[k].sent)
          <5>1. k # n + 1
            BY <3>2, <3>4, <4>2
          <5>2. k \in 1..n /\ n \in Nat
            BY <2>s, <3>4, <5>1, LenProperties DEF n
          <5>3. k \in DOMAIN stack /\ stack'[k] = stack[k]
            BY <2>s, <3>4, <5>2 DEF n
          <5> QED
            BY <4>2, <5>3 DEF Ordered, HeldNext
        <4>3. Top'.held = NoSignal
          BY <3>2, <4>1
        <4> QED
          BY <4>2, <4>3 DEF HeldNext
      <3>6. Nested'
        BY <1>1, <1>2, <2>s, <3>2, <3>4 DEF Ordered, Nested
      <3>7. AllRooted'
        BY <1>1, <1>2, <1>3, <2>5, <2>s, <3>2, <3>4 DEF Ordered, AllRooted
      <3>8. \A s \in Nat : Ahead(dispatched', Append(f.path, s))
        <4> SUFFICES ASSUME NEW s \in Nat
                     PROVE  Ahead(dispatched', Append(p, s))
          BY <3>2
        <4>1. Ahead(dispatched, Append(p, s))
          BY <1>1, <1>2, DispatchedPaths, BeforeDeeper DEF Ahead
        <4>2. Before(p, Append(p, s))
          BY <1>1, BeforeDeeper
        <4> QED
          BY <2>3, <4>1, <4>2
      <3>9. Later'
        <4> SUFFICES ASSUME NEW k \in DOMAIN stack', NEW s \in Nat, s >= NextOf(stack'[k])
                     PROVE  Ahead(dispatched', Append(stack'[k].path, s))
          BY <1>1 DEF Later
        <4>1. CASE k = n + 1
          BY <3>4, <3>8, <4>1
        <4>2. CASE k \in 1..n
          BY <2>4, <2>s, <3>4, <4>2
        <4> QED
          BY <2>s, <3>4, <4>1, <4>2
      <3> QED
        BY <2>2, <3>5, <3>6, <3>7, <3>9 DEF Ordered
    <2> QED
      BY <2>6, <2>7 DEF Dispatch, p
  <1> QED
    BY <1>4, <1>5 DEF Dispatch

\* The loop goes on to a later stage than all it has called.
LEMMA LoopOrdered ==
  ASSUME IInv, Ordered, FlushNext \/ DeactivateNext
  PROVE  Ordered'
  <1>0. op \in OpType
    BY DEF IInv, TypeOK
  <1>1. PICK i \in Nat :
          /\ op.running /\ op.kind \in {"flush", "deactivate"} /\ i > op.at
          /\ op'.at = i /\ stack' = <<Frame(i, <<i>>)>>
          /\ pending' = NoSignal /\ dispatched' = dispatched
    <2>1. CASE FlushNext
      <3> DEFINE rest == {i \in Due(op.now) : i > op.at}
      <3>1. rest \in SUBSET Stages /\ rest # {}
        BY <2>1 DEF FlushNext, Due
      <3>2. First(rest) \in rest
        <4> HIDE DEF rest
        <4> QED
          BY <3>1, FirstStage
      <3>3. First(rest) \in Nat /\ First(rest) > op.at
        <4>1. \A i \in rest : i \in Nat /\ i > op.at
          BY <3>1, PipelineAssumption DEF Stages
        <4> HIDE DEF rest
        <4> QED
          BY <3>2, <4>1
      <3>4. /\ op.running /\ op.kind = "flush" /\ op' = [op EXCEPT !.at = First(rest)]
            /\ stack' = <<Frame(First(rest), <<First(rest)>>)>>
            /\ pending' = NoSignal /\ dispatched' = dispatched
        BY <2>1 DEF FlushNext, InLoop, Drained
      <3>5. op'.at = First(rest)
        BY <1>0, <3>4 DEF OpType
      <3> QED
        BY <3>3, <3>4, <3>5
    <2>2. CASE DeactivateNext
      <3>1. op.at + 1 \in Nat /\ op.at + 1 > op.at
        BY <1>0, PipelineAssumption DEF OpType
      <3>2. op'.at = op.at + 1
        BY <1>0, <2>2 DEF DeactivateNext, OpType
      <3> QED
        BY <2>2, <3>1, <3>2 DEF DeactivateNext, InLoop
    <2> QED
      BY <2>1, <2>2
  <1> DEFINE f == Frame(i, <<i>>)
  <1>2. f.path = <<i>> /\ f.held = NoSignal /\ f.sent = 0 /\ NextOf(f) = 1
    BY DEF Frame, NextOf
  <1> HIDE DEF f
  <1>3. DOMAIN stack' = {1} /\ stack'[1] = f /\ Len(stack') = 1
    BY <1>1 DEF f
  <1>4. op.at \in Nat
    BY <1>0, PipelineAssumption DEF OpType
  <1>5. \A k \in DOMAIN dispatched : /\ dispatched[k] \in Seq(Nat) /\ Len(dispatched[k]) > 0
                                     /\ dispatched[k][1] <= op.at
    BY <1>1, DispatchedPaths DEF Ordered, AllRooted, Rooted
  <1>6. \A k \in DOMAIN dispatched : dispatched[k][1] \in Nat
    <2> SUFFICES ASSUME NEW q \in Seq(Nat), Len(q) > 0
                 PROVE  q[1] \in Nat
      BY <1>5
    <2>1. 1 \in 1..Len(q)
      BY LenProperties
    <2> QED
      BY <2>1, ElementOfSeq
  <1>7. \A k \in DOMAIN dispatched : dispatched[k][1] < i /\ dispatched[k][1] <= op'.at
    BY <1>1, <1>4, <1>5, <1>6
  <1>8. HeldNext' /\ Nested' /\ ImmediateOrder'
    <2>1. Top' = f
      BY <1>3 DEF Top
    <2> QED
      BY <1>1, <1>2, <1>3, <2>1 DEF Ordered, HeldNext, Nested, ImmediateOrder
  <1>9. AllRooted'
    <2>1. Len(<<i>>) > 0 /\ <<i>>[1] <= op'.at
      BY <1>1
    <2>2. \A k \in DOMAIN stack' : Rooted(op', stack'[k].path)
      <3>1. Rooted(op', <<i>>)
        BY <2>1 DEF Rooted
      <3> QED
        BY <1>2, <1>3, <3>1
    <2>3. \A k \in DOMAIN dispatched' : Rooted(op', dispatched'[k])
      BY <1>1, <1>5, <1>7 DEF Rooted
    <2>4. pending' = NoSignal
      BY <1>1
    <2> QED
      BY <2>2, <2>3, <2>4 DEF AllRooted
  <1>10. Later'
    <2>1. \A s \in Nat : Ahead(dispatched, Append(<<i>>, s))
      BY <1>5, <1>7, BeforeCall DEF Ahead
    <2>2. \A q : Ahead(dispatched', q) = Ahead(dispatched, q)
      BY <1>1 DEF Ahead
    <2> QED
      BY <1>1, <1>2, <1>3, <2>1, <2>2 DEF Later
  <1> QED
    BY <1>8, <1>9, <1>10 DEF Ordered

\* A call that returns leaves the calls below it as they were.
LEMMA ReturnOrdered ==
  ASSUME IInv, Ordered, Return
  PROVE  Ordered'
  <1>1. /\ stack # <<>> /\ stack' = SubSeq(stack, 1, Len(stack) - 1) /\ reg' # "none"
        /\ UNCHANGED <<op, pending, dispatched>>
    BY DEF Return, InStage, Below
  <1>2. stack \in Seq(FrameType)
    BY DEF IInv, TypeOK
  <1>3. /\ DOMAIN stack' = 1..(Len(stack) - 1) /\ DOMAIN stack = 1..Len(stack)
        /\ \A k \in 1..(Len(stack) - 1) : stack'[k] = stack[k]
        /\ Len(stack) \in Nat
    BY <1>1, <1>2, Popped, HasTop, LenProperties
  <1>4. \A k \in DOMAIN stack' : k \in DOMAIN stack /\ stack'[k] = stack[k]
    BY <1>3
  <1>5. HeldNext' /\ Nested' /\ ImmediateOrder'
    BY <1>1, <1>4 DEF Ordered, HeldNext, Nested, ImmediateOrder
  <1>6. AllRooted' /\ Later'
    BY <1>1, <1>4 DEF Ordered, AllRooted, Rooted, Later, Ahead
  <1> QED
    BY <1>5, <1>6 DEF Ordered

LEMMA OrderedKept ==
  ASSUME IInv, Ordered, [Next]_vars
  PROVE  Ordered'
  <1>0. op \in OpType
    BY DEF IInv, TypeOK
  <1>1. CASE /\ stack = <<>> /\ stack' = <<>> /\ ~op'.running /\ pending' = NoSignal
             /\ dispatched' = dispatched
    BY <1>1 DEF Ordered, HeldNext, Nested, AllRooted, Rooted, Later, ImmediateOrder
  <1>2. CASE Activate \/ Reset \/ Refuse
    <2>1. ~op.running /\ UNCHANGED <<stack, pending, dispatched>>
      BY <1>2 DEF Activate, Reset, Refuse
    <2>2. ~op'.running
      BY <1>0, <1>2 DEF Activate, Reset, Refuse, OpType
    <2> QED
      BY <1>1, <2>1, <2>2 DEF IInv, Idle
  <1>3. CASE PushReturns \/ FlushReturns \/ DeactivateReturns
    <2>1. stack = <<>> /\ UNCHANGED <<stack, dispatched>> /\ pending' = NoSignal
      BY <1>3 DEF PushReturns, FlushReturns, DeactivateReturns, Finish, InLoop
    <2>2. ~op'.running
      BY <1>0, <1>3 DEF PushReturns, FlushReturns, DeactivateReturns, Finish, OpType
    <2> QED
      BY <1>1, <2>1, <2>2
  <1>4. ASSUME NEW now \in Times, Push(now) \/ Flush(now) \/ Deactivate(now)
        PROVE  Ordered'
    <2>1. stack = <<>> /\ stack' = <<>> /\ dispatched' = <<>>
      BY <1>4 DEF Push, Flush, Deactivate, Begin, IInv, Idle
    <2>2. op'.kind \in {"flush", "deactivate"} => pending' = NoSignal
      BY <1>4 DEF Push, Flush, Deactivate, Begin
    <2> QED
      BY <2>1, <2>2
      DEF Ordered, HeldNext, Nested, AllRooted, Rooted, Later, Ahead, ImmediateOrder
  <1>5. CASE FlushNext \/ DeactivateNext
    BY <1>5, LoopOrdered
  <1>6. CASE Dispatch
    BY <1>6, DispatchOrdered
  <1>7. CASE Emit \/ EmitAgain \/ EmitAgainReturns
    BY <1>7, EmitOrdered
  <1>8. CASE Return
    BY <1>8, ReturnOrdered
  <1>9. CASE UNCHANGED <<op, stack, pending, reg, dispatched>>
    BY <1>9 DEF Ordered, HeldNext, Nested, AllRooted, Rooted, Later, Ahead, ImmediateOrder, Top
  <1>10. CASE Cancel \/ (\E d \in Intervals : Schedule(d)) \/ UNCHANGED vars
    BY <1>9, <1>10 DEF Cancel, Schedule, vars
  <1> QED
    BY <1>2, <1>3, <1>4, <1>5, <1>6, <1>7, <1>8, <1>10 DEF Next

\* Signals reach stages and sink in the order they would if every emission
\* were dispatched at once, none twice, for every length of pipeline, budget
\* and number of emissions (zpt_stage_emit(), drain()).
THEOREM ImmediateOrderInvariant == Spec => []ImmediateOrder
  <1>1. Init => Ordered
    BY DEF Init, Ordered, HeldNext, Nested, AllRooted, Later, ImmediateOrder
  <1>2. IInv /\ Ordered /\ [Next]_vars => Ordered'
    BY OrderedKept
  <1>3. Ordered => ImmediateOrder
    BY DEF Ordered
  <1> QED
    BY <1>1, <1>2, <1>3, InductiveInvariant, PTL DEF Spec
================================================================================
