\* Three turns, a window that three messages fill, checkpoints of two milliseconds.
CONSTANTS
  Turns = {t1, t2, t3}
  NoTurn = NoTurn
  KeepRecent = 1
  MaxMessages = 2
  Percent = 60
  Window = 7
  MaxOutput = 2
  Overhead = 1
  Keep = 1
  Wrap = 2
  MaxTime = 2
  MaxRows = 2
  MaxLength = 3
SYMMETRY Symmetry
SPECIFICATION Spec
INVARIANTS
  Remembers
PROPERTIES
  TranscriptBounded
