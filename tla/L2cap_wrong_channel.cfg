\* Two boards: data for one goes to the identifier of the other.
CONSTANTS
  h1 = h1
  h2 = h2
  Handle = {h1, h2}
  Junk <- JunkChannels
  PeerCid = {80, 81}
  PeerPsm = {17, 19}
  Results = {0}
  ConfResults = {0}
  Forms = {0}
  AppPsm = {19}
  Moves = {}
  FirstCid = 64
  RxCap = 2
  TxCap = 6
  AirCap = 2
  MaxOpens = 2
  MaxMoves = 0
SPECIFICATION Spec
INVARIANT RightChannel
CHECK_DEADLOCK FALSE
