\* Log calls of two threads among changes of lists and levels, and clearAppenders.
\* The program may stop: clearAppenders can bring the process down.
CONSTANTS
  NoThread = NoThread
  NoLogger = NoLogger
  NoAppender = NoAppender
  NoFormatter = NoFormatter
  DefFormatter = f0
  Formatters = {f1}
  Threads = {t1, t2}
  Loggers = {root, net}
  Root = root
  Appenders = {p, q}
  Levels = {1, 2}
  DEBUG = 1
  Ops = {"log", "add", "del", "clear", "level"}
  Careful = {}
  MaxList = 2
SPECIFICATION FairSpec
INVARIANTS IInv WalkIsWhole RootStandsIn
PROPERTIES DeliverySpec QuietThenDone
CHECK_DEADLOCK FALSE
