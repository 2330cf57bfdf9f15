\* The application and the board close the same channel.
CONSTANTS
  h1 = h1
  h2 = h2
  Handle = {h1}
  Junk <- JunkChannels
  PeerCid = {80, 81}
  PeerPsm = {17, 19}
  Results = {0}
  ConfResults = {0}
  Forms = {0}
  AppPsm = {19}
  Moves = {"appDisconnect", "peerDisconnect"}
  FirstCid = 64
  RxCap = 2
  TxCap = 6
  AirCap = 2
  MaxOpens = 3
  MaxMoves = 2
SPECIFICATION Spec
INVARIANT NoPastEnd
CHECK_DEADLOCK FALSE
