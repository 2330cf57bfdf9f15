\* A board that sends reports of its own in the middle of the dialogue.
CONSTANTS
  Kinds = {"balance"}
  BoardTemperature = 20
  Bytes = {0, 7}
  Faults = {"unsolicited"}
  InCap = 2
  MaxStatus = 1
SPECIFICATION Spec
INVARIANT CalibratedTruly
CHECK_DEADLOCK FALSE
