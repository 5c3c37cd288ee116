\* One chat run, one compaction, one client.
CONSTANTS
  r1 = r1  r2 = r2  c1 = c1  c2 = c2  NoRun = NoRun
  Runs <- TwoRuns
  Compacts <- OneRun
  Clients <- OneClient
  ClaimMayFail = FALSE
SPECIFICATION Spec
INVARIANTS CompletedIsCheckpointed NoOrphanRun ClosedIsSettled
PROPERTY EveryRunEnds
\* once the service is closed nothing happens any more
CHECK_DEADLOCK FALSE
