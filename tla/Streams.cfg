\* Blocks of two words of two bytes, messages and outputs of up to two blocks and a half;
\* four entries of three coefficients, blocks of two triples, one of them at first;
\* two threads that fill three bytes each.
CONSTANTS
  Rate = 4
  Word = 2
  ShakeDomain <- Shake
  Sha3Domain <- Sha3
  HashBytes = 2
  MaxMessage = 10
  MaxOutput = 10
  K = 2
  N = 3
  BlockBytes = 6
  NBlocks = 1
  Rejections <- OneBadStream
  Threads = {t1, t2}
  Length = 3
  MaxChunk = 2
  MaxInterrupts = 2
SPECIFICATION MCSpec
INVARIANTS PositionCounts EntriesFromStreams TransposeAgrees FilledWhenReturned
PROPERTIES ImplementsXof CallsReturn
CHECK_DEADLOCK FALSE
