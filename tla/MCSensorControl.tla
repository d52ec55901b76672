----------------------------- MODULE MCSensorControl -----------------------------
(***************************************************************************)
(* Three sequence numbers and more requests than that, so that they start  *)
(* over; a list of two resolutions, or a range of three; requests between  *)
(* two of them, halfway and not, and beyond the last; one reboot.          *)
(***************************************************************************)
EXTENDS SensorControl

MCDeclared ==
  {[discrete |-> TRUE, values |-> <<1, 3>>],
   [discrete |-> FALSE, min |-> 1, max |-> 7, step |-> 3]}

ASSUME MCSnapsNearest == SnapsNearest
================================================================================
