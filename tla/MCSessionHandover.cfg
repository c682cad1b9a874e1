SPECIFICATION FairSpec
CONSTANTS
  s1 = s1
  s2 = s2
  s3 = s3
  NoSession = NoSession
  Sessions = {s1, s2, s3}
INVARIANTS
  CallbacksFindSession
  DeletedLast
PROPERTIES
  SessionsTakeTurns
  StartGoesOn
CHECK_DEADLOCK FALSE
