\* The store alone: seven events, of which three fit into the history.
CONSTANTS
  w = w  a = a  s1 = s1  s2 = s2
  Worker = w
  Publishers <- WorkerOnly
  Streams <- NoStream
  QueueSize = 1
  EventBound = 7
  Chunk = 2
  MaxEvents = 3
SPECIFICATION Spec
INVARIANT HistoryIsSound
\* At most EventBound events: when all is published and read, nothing happens.
CHECK_DEADLOCK FALSE
