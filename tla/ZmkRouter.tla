------------------------------- MODULE ZmkRouter -------------------------------
(***************************************************************************)
(* A motion router in the firmware: platform/zmk/router.c and              *)
(* platform/zmk/router_executor.c around core/router.c.                    *)
(*                                                                         *)
(* Threads that change layers or press and release route keys take the     *)
(* route lock, work out the pipeline that should be active and, under the  *)
(* executor's lock, select it.  The input thread pushes frames and the     *)
(* deadline work item flushes, both under the executor's lock.  Whoever    *)
(* holds that lock reschedules the work item before letting it go, from    *)
(* the time it captured before it began to wait.                           *)
(*                                                                         *)
(* Times are relative to the present: the clock always reads 0 and Tick    *)
(* moves every stored time one back.  A time that was captured is 0 when   *)
(* it is read and negative later.                                          *)
(***************************************************************************)
EXTENDS Integers, FiniteSets

CONSTANTS
  Callers,          \* threads that change routes; also their key positions
  Input,            \* the thread that delivers motion frames
  Work,             \* executor->deadline_work and the queue that runs it
  Nobody,           \* the owner of a mutex that is free
  Pipelines,        \* the router's pipelines
  DefaultPipeline,  \* config->default_pipeline_device
  NoPipeline,       \* no pipeline, no override
  TopLayer,         \* ZMK_KEYMAP_LAYERS_LEN - 1
  DefaultLayer,     \* zmk_keymap_layer_default()
  LayerRoute,       \* layer -> pipeline, for the layers some route child names
  Capacity,         \* route overrides that can be held at once
  Stages,           \* stages of a pipeline
  Intervals,        \* how far ahead stages set deadlines
  NoDeadline,       \* no deadline, timer not armed
  MaxLag,           \* bound: how old a captured time gets before it is used
  MaxLate           \* bound: how far in the past a pending deadline gets

Layers == 0..TopLayer

Threads == Callers \cup {Input, Work}

ASSUME ZmkRouterAssumption ==
  /\ Input \notin Callers /\ Work \notin Callers /\ Input # Work
  /\ Nobody \notin Threads
  /\ DefaultPipeline \in Pipelines /\ NoPipeline \notin Pipelines
  /\ TopLayer \in Nat /\ DefaultLayer \in Layers
  /\ DOMAIN LayerRoute \subseteq Layers
  /\ \A l \in DOMAIN LayerRoute : LayerRoute[l] \in Pipelines
  /\ Capacity \in Nat \ {0}
  /\ Stages \subseteq Nat /\ Intervals \subseteq Nat \ {0}
  /\ NoDeadline \notin Int
  /\ MaxLag \in Nat /\ MaxLate \in Nat

VARIABLES
  layers,      \* ZMK's active layers besides the default one
  route, newer, ret,                         \* the override table
  up, index, running, deadline, outcome,     \* the core router
  routeLock,   \* data->route_lock
  execLock,    \* executor->lock
  pc,          \* where each thread is
  now,         \* the time each thread captured
  ask,         \* what each caller was called for
  look,        \* the layer each caller's scan looks at next
  goal,        \* the pipeline each caller found
  work,        \* the deadline work item: when its timer fires, is it queued
  refused      \* the last select was refused

Table == INSTANCE RoutePrecedence WITH Positions <- Callers

Core == INSTANCE Router WITH Times <- -MaxLag..0

table == <<route, newer, ret>>
core == <<up, index, running, deadline, outcome>>
locks == <<routeLock, execLock>>
mind == <<ask, look, goal>>
vars == <<layers, table, core, locks, pc, now, mind, work, refused>>

NoAsk == [op |-> "refresh", pipeline |-> NoPipeline]

\* router_init() activates the default pipeline and then selects what the scan
\* finds while no key is held and no layer is active but the default one.
InitialPipeline ==
  IF DefaultLayer \in DOMAIN LayerRoute THEN LayerRoute[DefaultLayer] ELSE DefaultPipeline

Init ==
  /\ layers = {}
  /\ Table!Init
  /\ up = TRUE
  /\ index = InitialPipeline
  /\ running = [p \in Pipelines |-> p = InitialPipeline]
  /\ deadline = [p \in Pipelines |-> Core!Reset]
  /\ outcome = "ok"
  /\ routeLock = Nobody
  /\ execLock = Nobody
  /\ pc = [t \in Threads |-> "idle"]
  /\ now = [t \in Threads |-> 0]
  /\ ask = [k \in Callers |-> NoAsk]
  /\ look = [k \in Callers |-> TopLayer]
  /\ goal = [k \in Callers |-> DefaultPipeline]
  /\ work = [at |-> NoDeadline, queued |-> FALSE]
  /\ refused = FALSE
--------------------------------------------------------------------------------
(* The deadline work item. *)

\* Slip: a deadline that has come is left to the timer.
RescheduledSkipsDue(at) ==
  LET next == Core!NextDeadline
  IN  CASE next = NoDeadline -> [at |-> NoDeadline, queued |-> FALSE]
        [] next # NoDeadline /\ next <= at -> work
        [] OTHER -> [work EXCEPT !.at = next - at]

\* Slip: nothing is cancelled.
RescheduledKeepsPending(at) ==
  LET next == Core!NextDeadline
  IN  CASE next = NoDeadline -> work
        [] next # NoDeadline /\ next <= at -> [at |-> NoDeadline, queued |-> TRUE]
        [] OTHER -> [work EXCEPT !.at = next - at]

\* The work item after update_deadline_locked(), called with the time `at`.  A
\* timer that has run out leaves the item queued whatever the timer is set to
\* afterwards; only a cancel takes it out.
Rescheduled(at) ==
  LET next == Core!NextDeadline
  IN  CASE next = NoDeadline -> [at |-> NoDeadline, queued |-> FALSE]
        [] next # NoDeadline /\ next <= at -> [at |-> NoDeadline, queued |-> TRUE]
        [] OTHER -> [work EXCEPT !.at = next - at]

\* A thread leaves its call; what it had captured and worked out is gone.
Leave(t) ==
  /\ pc' = [pc EXCEPT ![t] = "idle"]
  /\ now' = [now EXCEPT ![t] = 0]
  /\ ask' = [k \in Callers |-> IF k = t THEN NoAsk ELSE ask[k]]
  /\ look' = [k \in Callers |-> IF k = t THEN TopLayer ELSE look[k]]
  /\ goal' = [k \in Callers |-> IF k = t THEN DefaultPipeline ELSE goal[k]]

\* update_deadline_locked() and the unlocking of whatever `t` holds.
Update(t) ==
  /\ pc[t] = "update"
  /\ work' = Rescheduled(now[t])
  /\ execLock' = Nobody
  /\ routeLock' = IF t \in Callers THEN Nobody ELSE routeLock
  /\ Leave(t)
  /\ UNCHANGED <<layers, table, core, refused>>

Expire ==
  /\ work.at # NoDeadline /\ work.at <= 0
  /\ work' = [at |-> NoDeadline, queued |-> TRUE]
  /\ UNCHANGED <<layers, table, core, locks, pc, now, mind, refused>>

\* deadline_work_handler() reads the clock, then waits for the lock.
Start ==
  /\ work.queued
  /\ pc[Work] = "idle"
  /\ work' = [work EXCEPT !.queued = FALSE]
  /\ pc' = [pc EXCEPT ![Work] = "exec"]
  /\ UNCHANGED <<layers, table, core, locks, now, mind, refused>>

Lock(t) ==
  /\ pc[t] = "exec"
  /\ execLock = Nobody
  /\ execLock' = t
  /\ pc' = [pc EXCEPT ![t] = "update"]

Flush ==
  /\ Lock(Work)
  /\ Core!Flush(now[Work]) \/ Core!NotRouted
  /\ UNCHANGED <<layers, table, routeLock, now, mind, work, refused>>
--------------------------------------------------------------------------------
(* The input thread: a frame carries the time it was completed at. *)

Frame ==
  /\ pc[Input] = "idle"
  /\ pc' = [pc EXCEPT ![Input] = "exec"]
  /\ UNCHANGED <<layers, table, core, locks, now, mind, work, refused>>

\* The push is stamped with the frame's time; the reschedule after it reads
\* the clock again.
Push ==
  /\ Lock(Input)
  /\ Core!Push(now[Input]) \/ Core!NotRouted
  /\ now' = [now EXCEPT ![Input] = 0]
  /\ UNCHANGED <<layers, table, routeLock, mind, work, refused>>
--------------------------------------------------------------------------------
(* Threads that change routes. *)

Call(k, op, i) ==
  /\ pc[k] = "idle"
  /\ pc' = [pc EXCEPT ![k] = "route"]
  /\ ask' = [ask EXCEPT ![k] = [op |-> op, pipeline |-> i]]
  /\ UNCHANGED <<table, core, locks, now, look, goal, work, refused>>

\* ZMK changes its layers first and raises the event then.  A router without
\* layer routes returns at once.
ToggleLayer(k, l) ==
  /\ l # DefaultLayer
  /\ layers' = IF l \in layers THEN layers \ {l} ELSE layers \cup {l}
  /\ IF DOMAIN LayerRoute = {}
       THEN /\ pc[k] = "idle"
            /\ UNCHANGED <<table, core, locks, pc, now, mind, work, refused>>
       ELSE Call(k, "refresh", NoPipeline)

PressKey(k, i) == Call(k, "press", i) /\ UNCHANGED layers

ReleaseKey(k) == Call(k, "release", NoPipeline) /\ UNCHANGED layers

\* Slip: the route lock is let go as soon as the table has been read.
DecideUnlocks(k) ==
  /\ UNCHANGED <<routeLock, now, ask>>
  /\ \/ /\ Table!Selected' # NoPipeline
        /\ goal' = [goal EXCEPT ![k] = Table!Selected']
        /\ pc' = [pc EXCEPT ![k] = "exec"]
        /\ UNCHANGED look
     \/ /\ Table!Selected' = NoPipeline
        /\ pc' = [pc EXCEPT ![k] = "scan"]
        /\ UNCHANGED <<look, goal>>

\* Under the route lock: an override that is held decides; without one the
\* scan of the layers begins at the top.
Decide(k) ==
  /\ routeLock' = k
  /\ \/ /\ Table!Selected' # NoPipeline
        /\ goal' = [goal EXCEPT ![k] = Table!Selected']
        /\ pc' = [pc EXCEPT ![k] = "exec"]
        /\ UNCHANGED look
     \/ /\ Table!Selected' = NoPipeline
        /\ pc' = [pc EXCEPT ![k] = "scan"]
        /\ UNCHANGED <<look, goal>>
  /\ UNCHANGED <<now, ask>>

Route(k) ==
  /\ pc[k] = "route"
  /\ routeLock = Nobody
  /\ \/ ask[k].op = "refresh" /\ UNCHANGED table /\ Decide(k)
     \/ ask[k].op = "release" /\ Table!Release(k) /\ Decide(k)
     \/ ask[k].op = "press" /\ Table!Press(k, ask[k].pipeline) /\ Decide(k)
     \/ ask[k].op = "press" /\ Table!Refuse(k) /\ Leave(k) /\ UNCHANGED routeLock
  /\ UNCHANGED <<layers, core, execLock, work, refused>>

Routes(l) == (l = DefaultLayer \/ l \in layers) /\ l \in DOMAIN LayerRoute

\* One layer of the scan.  Layers change without the route lock, so each is
\* read when the scan gets there.
ScanLayer(k) ==
  /\ pc[k] = "scan"
  /\ \/ /\ Routes(look[k])
        /\ goal' = [goal EXCEPT ![k] = LayerRoute[look[k]]]
        /\ pc' = [pc EXCEPT ![k] = "exec"]
        /\ UNCHANGED look
     \/ /\ ~Routes(look[k]) /\ look[k] = DefaultLayer
        /\ goal' = [goal EXCEPT ![k] = DefaultPipeline]
        /\ pc' = [pc EXCEPT ![k] = "exec"]
        /\ UNCHANGED look
     \/ /\ ~Routes(look[k]) /\ look[k] # DefaultLayer
        /\ look' = [look EXCEPT ![k] = @ - 1]
        /\ UNCHANGED <<goal, pc>>
  /\ UNCHANGED <<layers, table, core, locks, now, ask, work, refused>>

Select(k) ==
  /\ Lock(k)
  /\ Core!Select(goal[k])
  /\ refused' = (outcome' = "refused")
  /\ UNCHANGED <<layers, table, routeLock, now, mind, work>>
--------------------------------------------------------------------------------
(* Time passes.  Timers fire on time; threads may be late by MaxLag and the *)
(* queue may leave a deadline pending for MaxLate.                          *)

Earlier(t) == IF t = NoDeadline THEN NoDeadline ELSE t - 1

Tick ==
  /\ \A t \in Threads : pc[t] # "idle" => now[t] > -MaxLag
  /\ \A p \in Pipelines, s \in Stages :
       deadline[p][s] # NoDeadline => deadline[p][s] > -MaxLate
  /\ work.at # NoDeadline => work.at > 0
  /\ now' = [t \in Threads |-> IF pc[t] = "idle" THEN 0 ELSE now[t] - 1]
  /\ deadline' = [p \in Pipelines |-> [s \in Stages |-> Earlier(deadline[p][s])]]
  /\ work' = [work EXCEPT !.at = Earlier(@)]
  /\ UNCHANGED <<layers, table, up, index, running, outcome, locks, pc, mind, refused>>

Next ==
  \/ \E t \in Threads : Update(t)
  \/ Expire \/ Start \/ Flush
  \/ Frame \/ Push
  \/ \E k \in Callers :
       \/ \E l \in Layers : ToggleLayer(k, l)
       \/ \E i \in Pipelines : PressKey(k, i)
       \/ ReleaseKey(k) \/ Route(k) \/ ScanLayer(k) \/ Select(k)
  \/ Tick

Spec == Init /\ [][Next]_vars

\* No thread waits for a lock for ever, the queue gets to what is queued and
\* time passes.  Nothing is assumed of the threads' coming to begin with.
Fairness ==
  /\ \A t \in Threads : WF_vars(Update(t))
  /\ WF_vars(Expire) /\ WF_vars(Start)
  /\ SF_vars(Flush) /\ SF_vars(Push)
  /\ \A k \in Callers : SF_vars(Route(k)) /\ WF_vars(ScanLayer(k)) /\ SF_vars(Select(k))
  /\ SF_vars(Tick)

FairSpec == Spec /\ Fairness
--------------------------------------------------------------------------------
(* Properties *)

TypeOK ==
  /\ layers \subseteq Layers
  /\ DOMAIN route \subseteq Callers
  /\ Core!TypeOK
  /\ routeLock \in Callers \cup {Nobody} /\ execLock \in Threads \cup {Nobody}
  /\ pc \in [Threads -> {"idle", "route", "scan", "exec", "update"}]
  /\ now \in [Threads -> -MaxLag..0]
  /\ ask \in [Callers -> [op : {"refresh", "press", "release"},
                          pipeline : Pipelines \cup {NoPipeline}]]
  /\ look \in [Callers -> Layers]
  /\ goal \in [Callers -> Pipelines]
  /\ work \in [at : Int \cup {NoDeadline}, queued : BOOLEAN]
  /\ refused \in BOOLEAN

\* A pending deadline has a wake-up coming whenever nobody is in the router:
\* the work item is queued, or is about to take the lock and look, or its
\* timer fires no earlier than the deadline and no more than MaxLag after it,
\* however long the thread that set it had waited with the time it captured
\* (zmk-pipeline-boundary.md:233-237).
DeadlineCovered ==
  execLock = Nobody /\ Core!NextDeadline # NoDeadline =>
    \/ work.queued
    \/ pc[Work] = "exec"
    \/ /\ work.at # NoDeadline
       /\ work.at \in Core!NextDeadline .. Core!NextDeadline + MaxLag

\* When no stage waits for anything the work item is not pending: a route
\* change that cleared the deadlines has also cancelled the wake-up
\* (zmk-pipeline-boundary.md:239-241).
NothingStray ==
  execLock = Nobody /\ Core!NextDeadline = NoDeadline =>
    work = [at |-> NoDeadline, queued |-> FALSE]

\* What the override table and the layers, as they are now, ask for.
Desired ==
  LET routed == {l \in DefaultLayer..TopLayer : Routes(l)}
  IN  IF Table!Selected # NoPipeline THEN Table!Selected
      ELSE IF routed = {} THEN DefaultPipeline
      ELSE LayerRoute[CHOOSE l \in routed : \A m \in routed : m <= l]

\* Once every thread that changed a layer or a route key has returned, the
\* active pipeline is the one the layers and held keys ask for, in whatever
\* order the threads changed, scanned and selected, unless a pipeline refused
\* to be entered (router.c:61-92, 94-160).
RouteSettled ==
  (\A k \in Callers : pc[k] = "idle") /\ ~refused => index = Desired

\* The active pipeline has a deadline that has come.
Overdue == Core!Routed /\ Core!Due(0) # {}

\* A deadline that has come gets its flush: without another frame the work
\* item runs (zmk-pipeline-boundary.md:236-237).
DueIsFlushed == Overdue ~> (pc[Work] = "update" \/ ~Overdue)
================================================================================
