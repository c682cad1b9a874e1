SPECIFICATION FairSpec
CONSTANTS
  MaxInputs = 2
  MaxAttempts = 2
INVARIANTS
  TypeOK
  DecoderOnlyWhileConnected
  TerminationWakesLoop
  ConnectionFailureReported
PROPERTIES
  KeepsItsTurn
  ReconnectOnlyAfterVideo
  MicOnlyOnRequest
  UserQuitEnds
CHECK_DEADLOCK FALSE
