\* Two downloads of two models, one at a time, with a history of one; two requests to
\* prepare the GUI runtime; two model calls, two context windows and two clients; two
\* runs of two threads that compact; two starts of a thread; a migration with two
\* failures or crashes; three processes that make the storage key, two of which die.
CONSTANTS
  small = small  large = large  a1 = a1  a2 = a2  s1 = s1  s2 = s2
  hot = hot  named = named  p1 = p1  p2 = p2  p3 = p3
  Pulls <- TwoPulls  Models <- TwoModels  MaxPulls = 1  MaxHistory = 1
  Asks <- TwoAsks  NoAsk = NoAsk
  CallCount = 2  Windows <- TwoWindows  MaxClients = 2  Aborters <- BothAborters
  MaxThreads = 2  MaxTurns = 2  Sizes <- SmallAndLarge  SummarySizes <- SmallAndLarge
  Threshold = 5  Target = 4  BatchLimit = 5  PromptBudget = 6  Pasts <- TwoPasts
  Starters <- TwoStarters  ChatModels <- TwoModels  Heats <- OneHeat  Names <- OneName
  Unset = Unset
  MaxFaults = 2
  Processes <- ThreeProcesses  Free = Free  MaxDeaths = 2
SPECIFICATION PartsSpec
INVARIANTS PartsAreSound CallsAreSound ThreadIsKept DataSurvives
PROPERTIES EndedPullStays AbortsOnlyStopped ContextShrinks LockIsKept KeyIsKept
PROPERTIES CancelStopsTransfer PreparationEnds
\* The parts may come to rest: all downloads used, all requests answered.
CHECK_DEADLOCK FALSE
