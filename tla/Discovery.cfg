\* Commands fail, get refused and get lost; any device may be found by scans,
\* connect by itself, or both.
CONSTANTS
  b1 = b1
  b2 = b2
  remote = remote
  stranger = stranger
  NoDevice = NoDevice
  Boards = {b1, b2}
  Remotes = {remote}
  Strangers = {stranger}
  Discoverable = {b1, b2, stranger}
  Calling = {b1, remote, stranger}
  Failures = {"bringUp", "name", "connect", "refuse"}
  RxCap = 1
  TxCap = 2
  MaxCalls = 1
SPECIFICATION FairSpec
INVARIANTS TypeOK NoThrow ScanWhenConfigured RequestsOutstanding OneOpenerInOrder
PROPERTIES ScanEnds BoardsOpened PairingEnds
CHECK_DEADLOCK FALSE
