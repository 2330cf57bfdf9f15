\* Two tasks, small rings: items wrap around, packets wait and are too long.
CONSTANTS
  RxRoom = 5
  TxRoom = 2
  RxSizes = {1, 2, 3}
  TxSizes = {1}
  MaxGiven = 3
  MaxMade = 3
SPECIFICATION FairSpec
INVARIANT TypeOK
PROPERTIES ImplementsQueues RecvReturns
