SPECIFICATION Spec
CONSTANTS
  Period = 12
  Links = {"usb", "ble"}
  Interval <- MCInterval
  HidMax = 1
  Deltas <- MCDeltas
  MaxPending = 3
  MaxLate = 1
  Prompt = FALSE
PROPERTY OnePerInterval
