\* A program that writes to both its outputs, in pieces of two bytes of which three
\* may be kept; a history and a queue of two events, one client, and a timeout.
CONSTANTS
  out = out  err = err  s1 = s1
  Pumps <- TwoPumps
  Killers <- TimeoutOnly
  Streams <- OneStream
  MaxBytes = 3
  Chunks <- TwoBytes
  HistoryLimit = 2
  QueueSize = 2
SPECIFICATION OutputSpec
INVARIANTS LogIsSound EndedHasAll
PROPERTY StreamsEnd
\* When the program has ended and the client has left, nothing happens.
CHECK_DEADLOCK FALSE
