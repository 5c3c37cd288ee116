\* Two chat runs and two clients: both clients may cancel the same run, or one
\* of them a run whose predecessor is executing, while the service shuts down and
\* the claim of a job may raise in the store.
CONSTANTS
  r1 = r1  r2 = r2  c1 = c1  c2 = c2  NoRun = NoRun
  Runs <- TwoRuns
  Compacts <- NoRuns
  Clients <- TwoClients
  ClaimMayFail = TRUE
SPECIFICATION Spec
SYMMETRY Permuted
INVARIANTS Inductive ExclusiveOwner OneOutcome
PROPERTIES CancellingNeverCompletes AbortsOnlyCancelled
\* once the service is closed nothing happens any more
CHECK_DEADLOCK FALSE
