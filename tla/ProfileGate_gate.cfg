\* A profile with a password, one without, and three API threads.
CONSTANTS
  open = open  shut = shut  t1 = t1  t2 = t2  t3 = t3  NoProfile = NoProfile
  Profiles <- TwoProfiles
  Protected <- WithPassword
  Threads <- ThreeThreads
SPECIFICATION Spec
SYMMETRY SameThreads
INVARIANTS GateIsExact WorkIsReadable MarkedHasKey
PROPERTY IsLock
