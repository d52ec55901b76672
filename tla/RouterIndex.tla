------------------------------- MODULE RouterIndex -------------------------------
(***************************************************************************)
(* How a router, its overrides and its layer policy name a pipeline: by    *)
(* its index in router->pipelines (core/router.h).                         *)
(***************************************************************************)

CONSTANTS
  Pipelines,   \* router-relative pipeline indices
  NoPipeline   \* ZPT_ROUTER_NO_PIPELINE

ASSUME IndexAssumption == NoPipeline \notin Pipelines
================================================================================
