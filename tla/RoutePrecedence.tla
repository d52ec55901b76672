---------------------------- MODULE RoutePrecedence ----------------------------
(***************************************************************************)
(* What the explicit route overrides of a motion router promise            *)
(* (include/zmk/pointing_tools/core/route_override.h): every held key      *)
(* position has one route, the newest press decides, a release reveals the *)
(* next newest press that is still held, and a press that finds Capacity   *)
(* other positions held is refused and changes nothing.                    *)
(*                                                                         *)
(* There is no table here: a position is held or it is not, and "newer" is *)
(* the order in which the held positions were last pressed.                *)
(***************************************************************************)
EXTENDS RouterIndex, Naturals, FiniteSets

CONSTANTS
  Positions,   \* key positions that route behaviors are bound to
  Capacity     \* positions that can be held at once

VARIABLES
  route,   \* held position -> the pipeline its last press asked for
  newer,   \* <<p, q>> : both held and p was pressed after q
  ret      \* what the last operation returned

vars == <<route, newer, ret>>

Held == DOMAIN route

Newest(p) == \A q \in Held \ {p} : <<p, q>> \in newer

Selected ==
  IF Held = {} THEN NoPipeline ELSE route[CHOOSE p \in Held : Newest(p)]

Init ==
  /\ route = [p \in {} |-> NoPipeline]
  /\ newer = {}
  /\ ret = "ok"

Press(p, i) ==
  /\ p \in Held \/ Cardinality(Held) < Capacity
  /\ route' = [q \in Held \cup {p} |-> IF q = p THEN i ELSE route[q]]
  /\ newer' = {e \in newer : e[1] # p /\ e[2] # p} \cup ({p} \X (Held \ {p}))
  /\ ret' = "ok"

Refuse(p) ==
  /\ p \notin Held
  /\ Cardinality(Held) = Capacity
  /\ ret' = "ENOSPC"
  /\ UNCHANGED <<route, newer>>

Release(p) ==
  /\ route' = [q \in Held \ {p} |-> route[q]]
  /\ newer' = {e \in newer : e[1] # p /\ e[2] # p}
  /\ ret' = "ok"

Next ==
  \E p \in Positions :
    \/ \E i \in Pipelines : Press(p, i)
    \/ Refuse(p)
    \/ Release(p)

Spec == Init /\ [][Next]_vars
================================================================================
