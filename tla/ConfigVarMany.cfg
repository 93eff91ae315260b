\* Three threads that between them play every pair of roles.
CONSTANTS
  NoThread = NoThread
  NoVal = NoVal
  Vals = {v0, v1, v2}
  InitVal = v0
  Setters = {t1, t2}
  Admins = {t2, t3}
  Readers = {t1, t3}
  InitCbs = 1
  MaxId = 3
  CanThrow = TRUE
SPECIFICATION FairSpec
INVARIANTS IInv ReadsAreStable RoundIsLive ListenersInSync
PROPERTIES OnlyLiveListenersHear FeedSpec QuietThenDone
