\* A run of a profile with a password, one client that cancels it, one
\* API thread that locks, deletes or resets, and a shutdown.
CONSTANTS
  r1 = r1  r2 = r2  c1 = c1  t1 = t1  shut = shut  NoRun = NoRun  NoProfile = NoProfile
  Runs <- OneRun
  Compacts <- NoRuns
  Clients <- OneClient
  ClaimMayFail = FALSE
  Profiles <- OneProfile
  Protected <- OneProfile
  ApiThreads <- OneThread
  Owner <- AllShut
SPECIFICATION Service
INVARIANT StoreAnswers
PROPERTY GateHolds
