-------------------------- MODULE MCGestureStages --------------------------
(* Two displacements: one that is held on one axis, and one that reverses it *)
(* and is large enough to qualify or to report at once.  Timeouts of two and *)
(* three milliseconds, so that a stage's own deadline falls before, on and   *)
(* after its neighbour's.                                                    *)
EXTENDS GestureStages

\* The axis constraint as config/corne.keymap sets it, and one that passes its
\* held motion on after its idle time, or never.
MCSettings ==
  {[discard |-> TRUE, idle |-> 3, fold |-> 2], [discard |-> FALSE, idle |-> 3, fold |-> 0],
   [discard |-> FALSE, idle |-> 0, fold |-> 0]}

MCMotions == {[x |-> 1, y |-> 0], [x |-> -1, y |-> 2]}
=============================================================================
