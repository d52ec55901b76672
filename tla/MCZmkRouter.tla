------------------------------- MODULE MCZmkRouter -------------------------------
(***************************************************************************)
(* Two threads that change routes, so that one can decide while the other  *)
(* changes what it decides on; one routed layer above the default one.    *)
(***************************************************************************)
EXTENDS ZmkRouter, TLC

MCOneLayerRoute == 1 :> 1

\* The default layer has a route as well, so the router starts on pipeline 1.
MCTwoLayerRoutes == 0 :> 1 @@ 1 :> 0
================================================================================
