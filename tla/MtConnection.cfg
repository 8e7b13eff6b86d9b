SPECIFICATION ConnSpec
CONSTANTS
  Alphabet = {"l", "o", "a", "d", "e", "1", " "}
  RCVBUFSIZE = 32
  MaxBytes = 5
INVARIANTS
  ChunkingInvisible
  ClosedForCause
CHECK_DEADLOCK FALSE
