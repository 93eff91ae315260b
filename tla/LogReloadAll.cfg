\* Two threads load configurations, one logs.
\* The program may stop: clearAppenders can bring the process down.
CONSTANTS
  NoThread = NoThread
  NoLogger = NoLogger
  NoAppender = NoAppender
  NoFormatter = NoFormatter
  DefFormatter = "f0"
  Formatters = {"f1", "f2"}
  Threads = {t1, t2, t3}
  Setters = {t1, t2}
  Main = t1
  Loggers = {"root", "net"}
  Root = "root"
  Appenders = {1, 2, 3, 4, 5}
  Levels = {0, 1, 2, 3, 4, 5, 100}
  DEBUG = 1
  INFO = 2
  Texts = {"", "f1", "f2", "bad", "m"}
  Events = {2}
  Ops = {"log", "add", "clear", "format", "format appender", "level", "level appender"}
  Careful = {1, 2, 3, 4, 5}
  MaxList = 4
  Documents <- MCDocuments
  MaxLoads = 2
SPECIFICATION ReloadFairSpec
INVARIANTS ReloadTypeOK OldOrNew NoCircle
PROPERTIES UnchangedUntouched ReloadEnds
CHECK_DEADLOCK FALSE
