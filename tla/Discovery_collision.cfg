\* A board connects by itself while the host connects to it.
CONSTANTS
  b1 = b1
  b2 = b2
  remote = remote
  stranger = stranger
  NoDevice = NoDevice
  Boards = {b1}
  Remotes = {remote}
  Strangers = {}
  Discoverable = {b1}
  Calling = {b1}
  Failures = {}
  RxCap = 2
  TxCap = 3
  MaxCalls = 1
SPECIFICATION Spec
INVARIANT OneOpener
CHECK_DEADLOCK FALSE
