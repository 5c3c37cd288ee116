\* One run of a passwordless profile and two of a protected one, and two
\* crashes, failed recoveries or damaged artifacts.
CONSTANTS
  r1 = r1  r2 = r2  r3 = r3  open = open  locked = locked
  Runs <- ThreeRuns
  Profiles <- TwoProfiles
  Owner <- FirstIsOpen
  Protected <- OneLocked
  MaxFaults = 2
SPECIFICATION Spec
INVARIANTS DiskIsSound RunsAreHeld
PROPERTIES OutcomeKept EveryRunEnds
