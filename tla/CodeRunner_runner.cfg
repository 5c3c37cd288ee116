\* Two sessions, of a program with a window and one without, for one slot; another
\* backend's container, a docker that may fail, and a shutdown.
CONSTANTS
  s1 = s1  s2 = s2  old = old  other = other
  Sessions <- TwoSessions
  MaxConcurrent = 1
  Configured = "none"
  Request <- PlainAndWindow
  OldNames <- NoName
  OtherNames <- OtherOne
  DockerFails = TRUE
SPECIFICATION Spec
INVARIANT SessionsAreSound
PROPERTIES PoolSpec SlotsComeBack
\* Sessions are started once: when all have ended nothing happens.
CHECK_DEADLOCK FALSE
