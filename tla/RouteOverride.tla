----------------------------- MODULE RouteOverride -----------------------------
(***************************************************************************)
(* The table of explicit route overrides, src/src/core/route_override.c.   *)
(*                                                                         *)
(* The table is a fixed array of slots.  A press reuses the slot of its    *)
(* position or takes the first inactive one and stamps it with the next    *)
(* order number; a release only clears the slot's active flag, so the rest *)
(* of a slot stays as the last press left it.  The selected override is    *)
(* the active one with the highest order.                                  *)
(***************************************************************************)
EXTENDS RouterIndex, Naturals, FiniteSets

CONSTANTS
  Positions,   \* key positions
  Capacity,    \* CONFIG_ZMK_POINTING_TOOLS_ROUTER_MAX_EXPLICIT_ROUTES
  MaxOrder     \* bound on next_order, a 64-bit counter in the code

ASSUME RouteOverrideAssumption ==
  /\ Positions \subseteq Nat
  /\ Pipelines \subseteq Nat
  /\ Capacity \in Nat \ {0}
  /\ MaxOrder \in Nat

VARIABLES
  overrides,   \* table->overrides: slot -> struct zpt_route_override
  next_order,  \* table->next_order
  ret          \* what the last call returned

tableVars == <<overrides, next_order, ret>>

Slots == 1..Capacity

Override ==
  [position : Nat, pipeline_index : Nat, order : Nat, active : BOOLEAN]

Active == {s \in Slots : overrides[s].active}

Matching(p) == {s \in Active : overrides[s].position = p}

\* The first slot of a set in table order: the scans stop at the first hit.
First(S) == CHOOSE s \in S : \A t \in S : s <= t

TableInit ==
  /\ overrides = [s \in Slots |->
       [position |-> 0, pipeline_index |-> 0, order |-> 0, active |-> FALSE]]
  /\ next_order = 0
  /\ ret = "ok"

\* Slip: the scan stops at the first slot that is inactive or matches.
AvailableFirstHit(p) ==
  LET hit == {s \in Slots : s \notin Active \/ overrides[s].position = p}
  IN  IF hit = {} THEN {} ELSE {First(hit)}

\* The scan keeps the first inactive slot in hand and abandons it for the
\* slot that already belongs to the position.
Available(p) == IF Matching(p) # {} THEN Matching(p) ELSE Slots \ Active

Press(p, i) ==
  /\ next_order < MaxOrder
  /\ Available(p) # {}
  /\ overrides' = [overrides EXCEPT ![First(Available(p))] =
       [position |-> p, pipeline_index |-> i,
        order |-> next_order + 1, active |-> TRUE]]
  /\ next_order' = next_order + 1
  /\ ret' = "ok"

PressRefused(p) ==
  /\ Available(p) = {}
  /\ ret' = "ENOSPC"
  /\ UNCHANGED <<overrides, next_order>>

Release(p) ==
  /\ overrides' = IF Matching(p) = {}
                    THEN overrides
                    ELSE [overrides EXCEPT ![First(Matching(p))].active = FALSE]
  /\ ret' = "ok"
  /\ UNCHANGED next_order

\* Slip: the scan compares slot indices where it should compare orders.
LastInTable(s) == \A t \in Active : t <= s

\* An active slot that no other active slot beats: the scan replaces its
\* candidate only on a strictly higher order.
Newest(s) == \A t \in Active : overrides[t].order <= overrides[s].order

Selected ==
  IF Active = {}
    THEN NoPipeline
    ELSE overrides[First({s \in Active : Newest(s)})].pipeline_index

TableNext ==
  \E p \in Positions :
    \/ \E i \in Pipelines : Press(p, i)
    \/ PressRefused(p)
    \/ Release(p)

TableSpec == TableInit /\ [][TableNext]_tableVars

--------------------------------------------------------------------------------
(* Properties *)

TableTypeOK ==
  /\ overrides \in [Slots -> Override]
  /\ next_order \in 0..MaxOrder
  /\ ret \in {"ok", "ENOSPC"}
  /\ \A s \in Active : /\ overrides[s].position \in Positions
                       /\ overrides[s].pipeline_index \in Pipelines

\* No two active slots hold the same position and no two carry the same
\* order, however presses and releases reused the slots: a release that
\* clears one slot has really let go of the position, and "newest" names one
\* slot (route_override.c, the scans of press and release).
HeldOnce ==
  /\ \A s, t \in Active : overrides[s].position = overrides[t].position => s = t
  /\ \A s, t \in Active : overrides[s].order = overrides[t].order => s = t
  /\ \A s \in Active : overrides[s].order \in 1..next_order

\* The positions the table holds, the slot of each, and the routes and the
\* order of presses they stand for.
HeldPositions == {overrides[s].position : s \in Active}

SlotOf(p) == CHOOSE s \in Active : overrides[s].position = p

RouteBar ==
  [p \in HeldPositions |-> overrides[SlotOf(p)].pipeline_index]

NewerBar ==
  {e \in HeldPositions \X HeldPositions :
     overrides[SlotOf(e[1])].order > overrides[SlotOf(e[2])].order}

Precedence == INSTANCE RoutePrecedence WITH route <- RouteBar, newer <- NewerBar

\* Every press, refusal and release of the table is one of the promise's, slots
\* reused and orders grown as they may be: the table implements the order of
\* presses it stands for (route_override.h, the comment on the table).
PrecedenceSpec == Precedence!Spec

\* zpt_route_override_selected() answers what the order of presses says.
SelectedIsNewest == Selected = Precedence!Selected
================================================================================
