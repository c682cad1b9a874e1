SPECIFICATION Spec
CONSTANTS
  small = small
  middle = middle
  large = large
  image = image
  blob = blob
  broken = broken
  None = None
  Texts = {small, large}
  Images = {image, broken}
  Corrupt = {broken}
  Size <- MCSize
  ECHO_MAX = 2
  MAX_PENDING_BURSTS = 1
  TokenModulus = 3
  MaxCopies = 2
  MaxPushes = 2
INVARIANTS
  TypeOK
  OnlyUserContentSent
  LocalCopiesSeen
PROPERTIES
  FilesKept
CHECK_DEADLOCK FALSE
