\* Boards that refuse requests or are none, reports that get lost, links that
\* come back.
CONSTANTS
  Kinds = {"balance", "other"}
  BoardTemperature = 20
  Bytes = {0, 7}
  Faults = {"write", "read", "loss", "reconnect"}
  InCap = 2
  MaxStatus = 3
SPECIFICATION FairSpec
INVARIANTS TypeOK CalibratedTruly RequestPending ReadsPermitted
PROPERTIES QueryEnds Calibrates
CHECK_DEADLOCK FALSE
