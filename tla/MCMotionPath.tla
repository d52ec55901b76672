---------------------------- MODULE MCMotionPath ----------------------------
(* One axis, a sequence number modulo three, modulo four once expanded, and a *)
(* span that saturates at four milliseconds; one count fits a packet and two  *)
(* do not.                                                                    *)
EXTENDS MotionPath, TLC

MCAxisMin == -1
Labels == Permutations(Cpis)
=============================================================================
