\* Two slots, and a container that an earlier backend left behind: two sessions that
\* start at the same time.
CONSTANTS
  s1 = s1  s2 = s2  old = old  other = other
  Sessions <- TwoSessions
  MaxConcurrent = 2
  Configured = "none"
  Request <- PlainAndWindow
  OldNames <- OldOne
  OtherNames <- OtherOne
  DockerFails = TRUE
SPECIFICATION Spec
INVARIANT OnlyStaleIsRemoved
\* Sessions are started once: when all have ended nothing happens.
CHECK_DEADLOCK FALSE
