------------------------- MODULE MCCursorCoalescer -------------------------
(* Two links with different intervals; a frame that overflows one report, two *)
(* small ones that cancel on both axes, and one that quantized to zero.       *)
EXTENDS CursorCoalescer

MCInterval == [usb |-> 1, ble |-> 3]
MCDeltas ==
  {[x |-> 3, y |-> 0], [x |-> -1, y |-> 1], [x |-> 1, y |-> -1],
   [x |-> 0, y |-> 0]}
=============================================================================
