\* Two boards, host- or board-initiated, that may ask for a PSM the host refuses.
CONSTANTS
  h1 = h1
  h2 = h2
  Handle = {h1, h2}
  Junk <- JunkChannels
  PeerCid = {80, 81}
  PeerPsm = {1, 17, 19}
  Results = {0}
  ConfResults = {0}
  Forms = {0}
  AppPsm = {19}
  Moves = {"peerDisconnect"}
  FirstCid = 64
  RxCap = 1
  TxCap = 5
  AirCap = 1
  MaxOpens = 3
  MaxMoves = 1
SPECIFICATION Spec
INVARIANTS UniqueLocalCid CidAgreement
PROPERTIES OthersUndisturbed NeverReused
SYMMETRY TwoHandles
CHECK_DEADLOCK FALSE
