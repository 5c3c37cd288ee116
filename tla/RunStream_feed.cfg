\* Two threads publish, one client follows; the history stays short enough.
CONSTANTS
  w = w  a = a  s1 = s1  s2 = s2
  Worker = w
  Publishers <- TwoThreads
  Streams <- OneStream
  QueueSize = 1
  EventBound = 3
  Chunk = 2
  MaxEvents = 9
SPECIFICATION Spec
INVARIANT FeedIsSound
PROPERTIES InOrderOnce StreamsEnd
\* At most EventBound events: when all is published and read, nothing happens.
CHECK_DEADLOCK FALSE
