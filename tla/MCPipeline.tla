------------------------------- MODULE MCPipeline -------------------------------
(***************************************************************************)
(* Three stages that emit up to twice per call, so second emissions nest   *)
(* two deep and fail there; the budget covers a signal's way to the sink   *)
(* but not the largest fan-out, so it also runs out; the uptime wraps.     *)
(***************************************************************************)
EXTENDS Pipeline
================================================================================
