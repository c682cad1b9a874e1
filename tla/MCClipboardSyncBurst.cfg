SPECIFICATION Spec
CONSTANTS
  small = small
  middle = middle
  large = large
  image = image
  blob = blob
  broken = broken
  None = None
  Texts = {small, middle}
  Images = {image, broken}
  Corrupt = {broken}
  Size <- MCSize
  ECHO_MAX = 2
  MAX_PENDING_BURSTS = 1
  TokenModulus = 3
  MaxCopies = 1
  MaxPushes = 1
INVARIANTS
  BurstTextFirst
CHECK_DEADLOCK FALSE
