---------------------------------- MODULE Router ----------------------------------
(***************************************************************************)
(* The router of a motion source, src/src/core/router.c: it owns a set of  *)
(* pipelines and has one of them active at a time.                         *)
(*                                                                         *)
(* A pipeline is what Pipeline promises of it between operations: it is    *)
(* active or not, each of its stages may have a deadline, activation may   *)
(* fail and then leaves it reset, deactivation always succeeds in leaving  *)
(* it reset though it may report an error, and a flush clears what is due  *)
(* up to the stage it fails at.                                            *)
(***************************************************************************)
EXTENDS RouterIndex, Integers

CONSTANTS
  DefaultPipeline,  \* router->default_pipeline_index
  Stages,           \* the stages of a pipeline, numbered in order
  Intervals,        \* how far ahead of now stages set their deadlines
  NoDeadline,       \* stage->deadline_pending is false
  Times             \* values of now that callers pass

ASSUME RouterAssumption ==
  /\ DefaultPipeline \in Pipelines
  /\ Stages \subseteq Nat
  /\ Intervals \subseteq Nat \ {0}
  /\ Times \subseteq Int
  /\ NoDeadline \notin Int

VARIABLES
  up,        \* router->active
  index,     \* router->active_pipeline_index
  running,   \* pipeline->active
  deadline,  \* pipeline -> stage -> deadline_ms
  outcome    \* what the last operation returned

vars == <<up, index, running, deadline, outcome>>

Reset == [s \in Stages |-> NoDeadline]

\* zpt_router_active_pipeline() found one.
Routed == up /\ index # NoPipeline

Due(now) ==
  {s \in Stages : deadline[index][s] # NoDeadline /\ deadline[index][s] <= now}

\* The stages outside `kept` clear their deadlines or set them anew.
Rearm(kept, now) ==
  \E f \in [Stages \ kept -> {NoDeadline} \cup {now + d : d \in Intervals}] :
    deadline' = [deadline EXCEPT ![index] =
      [s \in Stages |-> IF s \in kept THEN @[s] ELSE f[s]]]

Init ==
  /\ up = FALSE
  /\ index = NoPipeline
  /\ running = [p \in Pipelines |-> FALSE]
  /\ deadline = [p \in Pipelines |-> Reset]
  /\ outcome = "ok"

\* zpt_pipeline_activate(p) succeeds only on a pipeline that is not active.
CanEnter(p) == ~running[p]

Activate ==
  /\ ~up
  /\ \/ /\ CanEnter(DefaultPipeline)
        /\ up' = TRUE
        /\ index' = DefaultPipeline
        /\ running' = [running EXCEPT ![DefaultPipeline] = TRUE]
        /\ deadline' = [deadline EXCEPT ![DefaultPipeline] = Reset]
        /\ outcome' = "ok"
     \/ /\ outcome' = "refused"
        /\ UNCHANGED <<up, index, running, deadline>>

\* Slip: only the pipeline that is entered is reset.
SwitchKeepsLeft(left, entered) ==
  /\ running' = [p \in Pipelines |-> p = entered \/ (p # left /\ running[p])]
  /\ deadline' = [deadline EXCEPT ![IF entered = NoPipeline THEN left ELSE entered] = Reset]

\* The pipelines after `left` was deactivated and `entered` activated, each
\* of which may be NoPipeline.
Switch(left, entered) ==
  /\ running' = [p \in Pipelines |-> p = entered \/ (p # left /\ running[p])]
  /\ deadline' = [p \in Pipelines |-> IF p \in {left, entered} THEN Reset ELSE deadline[p]]

\* Leaving a pipeline may report an error, though it leaves it all the same.
LeaveOutcomes == IF index = NoPipeline THEN {"ok"} ELSE {"ok", "left_with_error"}

\* Slip: after the rollback the index is left as the failed switch set it.
SelectForgetsIndex(i) ==
  /\ up
  /\ index # i
  /\ \/ /\ CanEnter(i) /\ Switch(index, i)
        /\ index' = i
        /\ outcome' \in LeaveOutcomes
     \/ /\ index # NoPipeline /\ Switch(index, index)
        /\ index' = NoPipeline
        /\ outcome' = "refused"
  /\ UNCHANGED up

\* Slip: the rollback enters the default pipeline.
SelectFallsBackToDefault(i) ==
  /\ up
  /\ index # i
  /\ \/ /\ CanEnter(i) /\ Switch(index, i)
        /\ index' = i
        /\ outcome' \in LeaveOutcomes
     \/ /\ Switch(index, DefaultPipeline)
        /\ index' = DefaultPipeline
        /\ outcome' = "refused"
  /\ UNCHANGED up

\* The outgoing pipeline is left first.  If the incoming one refuses, the
\* outgoing one is entered again; if that refuses too none is active.
Select(i) ==
  /\ up
  /\ \/ /\ index = i
        /\ outcome' = "ok"
        /\ UNCHANGED <<index, running, deadline>>
     \/ /\ index # i /\ CanEnter(i)
        /\ Switch(index, i)
        /\ index' = i
        /\ outcome' \in LeaveOutcomes
     \/ /\ index # i /\ index # NoPipeline
        /\ Switch(index, index)
        /\ outcome' = "refused"
        /\ UNCHANGED index
     \/ /\ index # i
        /\ Switch(index, NoPipeline)
        /\ index' = NoPipeline
        /\ outcome' = "refused"
  /\ UNCHANGED up

Deactivate ==
  /\ up
  /\ Switch(index, NoPipeline)
  /\ up' = FALSE
  /\ index' = NoPipeline
  /\ outcome' \in LeaveOutcomes

Push(now) ==
  /\ Routed
  /\ \E kept \in SUBSET Stages : Rearm(kept, now)
  /\ outcome' \in {"ok", "error"}
  /\ UNCHANGED <<up, index, running>>

\* The stages whose deadline has come are flushed in order, up to `last` if
\* that one fails.  The rest change only if one of them was flushed.
Flush(now) ==
  /\ Routed
  /\ \/ /\ Due(now) = {}
        /\ outcome' = "ok"
        /\ UNCHANGED deadline
     \/ \E last \in Due(now), kept \in SUBSET Stages :
          /\ \A s \in Due(now) \cap kept : s > last
          /\ Rearm(kept, now)
          /\ outcome' \in IF Due(now) \cap kept = {} THEN {"ok", "error"} ELSE {"error"}
  /\ UNCHANGED <<up, index, running>>

\* -EACCES: no pipeline is active.
NotRouted ==
  /\ ~Routed
  /\ outcome' = "no_pipeline"
  /\ UNCHANGED <<up, index, running, deadline>>

Next ==
  \/ Activate
  \/ \E i \in Pipelines : Select(i)
  \/ Deactivate
  \/ \E now \in Times : Push(now) \/ Flush(now)
  \/ NotRouted

Spec == Init /\ [][Next]_vars
--------------------------------------------------------------------------------
(* zpt_router_next_deadline(), for times that do not wrap: Pipeline checks   *)
(* the wrapped comparison.                                                   *)

Waiting == IF Routed THEN {s \in Stages : deadline[index][s] # NoDeadline} ELSE {}

NextDeadline ==
  IF Waiting = {}
    THEN NoDeadline
    ELSE CHOOSE t \in {deadline[index][s] : s \in Waiting} :
           \A s \in Waiting : t <= deadline[index][s]
--------------------------------------------------------------------------------
(* Properties *)

TypeOK ==
  /\ up \in BOOLEAN
  /\ index \in Pipelines \cup {NoPipeline}
  /\ running \in [Pipelines -> BOOLEAN]
  /\ deadline \in [Pipelines -> [Stages -> Int \cup {NoDeadline}]]
  /\ outcome \in {"ok", "error", "left_with_error", "refused", "no_pipeline"}

\* Exactly the pipeline the router would route to is active, after any
\* sequence of switches that failed and rolled back: none keeps running
\* unreachable, and input is not routed to one that was left
\* (pipeline-runtime.md:112-125).
OneActive == \A p \in Pipelines : running[p] <=> up /\ index = p

\* A pipeline that is not the active one waits for nothing, so the one
\* deadline work item of the router speaks for all of its pipelines.
OnlyActiveWaits ==
  \A p \in Pipelines : ~(up /\ index = p) => deadline[p] = Reset

\* A switch that was refused ends on the pipeline it started from or, when
\* that one could not be entered again, on none; it never ends on a third
\* and never keeps what the pipeline remembered (router.c:123-135).
RefusedRollsBack ==
  [][ up /\ up' /\ outcome' = "refused" =>
        /\ index' \in {index, NoPipeline}
        /\ \A p \in Pipelines : deadline'[p] = Reset ]_vars
================================================================================
