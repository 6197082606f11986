CONSTANTS
  Sessions = {s1, s2, s3}
  Tiles = {near}
  None = None
SPECIFICATION Spec
PROPERTY SlotWasEmpty
