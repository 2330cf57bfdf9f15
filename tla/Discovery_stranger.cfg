\* A device of another class connects by itself.
CONSTANTS
  b1 = b1
  b2 = b2
  remote = remote
  stranger = stranger
  NoDevice = NoDevice
  Boards = {b1}
  Remotes = {remote}
  Strangers = {stranger}
  Discoverable = {b1}
  Calling = {stranger}
  Failures = {}
  RxCap = 2
  TxCap = 2
  MaxCalls = 1
SPECIFICATION Spec
INVARIANT NoStranger
CHECK_DEADLOCK FALSE
