\* A queue of one chunk that can be filled again behind a chunk taken out of it:
\* four calls, two of them left behind at a time, and a flush.
SPECIFICATION FairSpec
CONSTANTS
  Capacity = 1
  MaxChunks = 4
  MaxFlushes = 1
  MaxBehind = 2
INVARIANTS
  Conserved
  UntimedSafe
PROPERTIES
  CallsEnd
CHECK_DEADLOCK FALSE
