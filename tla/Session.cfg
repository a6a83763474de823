SPECIFICATION FairSpec
CONSTANTS
  Keys = {k1, k2, enter}
  Enters = {enter}
  MaxQueue = 2
  MaxOut = 1
INVARIANTS
  TypeOK
  HandshakeIntact
PROPERTY
  EveryAnswerIsDrawn
CHECK_DEADLOCK FALSE
