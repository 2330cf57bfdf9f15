\* One willing board: both channels open, and get closed from either side.
CONSTANTS
  h1 = h1
  h2 = h2
  Handle = {h1}
  Junk <- JunkChannels
  PeerCid = {80, 81}
  PeerPsm = {17, 19}
  Results = {0, 1}
  ConfResults = {0}
  Forms = {0}
  AppPsm = {19}
  Moves = {"data", "peerDisconnect", "appDisconnect"}
  FirstCid = 64
  RxCap = 1
  TxCap = 5
  AirCap = 1
  MaxOpens = 4
  MaxMoves = 1
SPECIFICATION FairSpec
INVARIANTS CidAgreement
PROPERTIES ImplementsLifecycle ChannelsOpen PeerCloses DisconnectEnds
CHECK_DEADLOCK FALSE
