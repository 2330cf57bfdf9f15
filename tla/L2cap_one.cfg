\* One board: it may refuse or delay channels and their configuration, use other
\* options, repeat its configuration, close channels, be lost and come back.
CONSTANTS
  h1 = h1
  h2 = h2
  Handle = {h1}
  Junk <- JunkChannels
  PeerCid = {80, 81}
  PeerPsm = {17, 19}
  Results = {0, 1, 4}
  ConfResults = {0, 1, 4}
  Forms = {0, 1}
  AppPsm = {19}
  Moves = {"data", "reconfigure", "peerDisconnect", "linkLoss", "relink"}
  FirstCid = 64
  RxCap = 2
  TxCap = 6
  AirCap = 1
  MaxOpens = 4
  MaxMoves = 1
SPECIFICATION Spec
INVARIANTS TypeOK CidAgreement ConfigExchanged RightChannel NoUncaught NoPastEnd ConnectedOnce
PROPERTIES ImplementsLifecycle
CHECK_DEADLOCK FALSE
