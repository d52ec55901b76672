--------------------------------- MODULE MCRouter ---------------------------------
(***************************************************************************)
(* Three pipelines, so that a rollback could end on a third; two stages,   *)
(* so that a flush can fail between two deadlines.                         *)
(***************************************************************************)
EXTENDS Router

MCTimes == 0..2
================================================================================
