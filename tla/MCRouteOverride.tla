---------------------------- MODULE MCRouteOverride ----------------------------
(***************************************************************************)
(* A table of two slots and three positions: it fills up, refuses, is      *)
(* reused in an order other than slot order, and a held position can be    *)
(* pressed again.                                                          *)
(***************************************************************************)
EXTENDS RouteOverride

================================================================================
