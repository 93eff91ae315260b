\* Formatters of loggers and appenders, p used as LogIniter uses them, q in any way.
\* The program may stop: clearAppenders can bring the process down.
CONSTANTS
  NoThread = NoThread
  NoLogger = NoLogger
  NoAppender = NoAppender
  NoFormatter = NoFormatter
  DefFormatter = f0
  Formatters = {f1, f2}
  Threads = {t1, t2}
  Loggers = {root, net}
  Root = root
  Appenders = {p, q}
  Levels = {1, 2}
  DEBUG = 1
  Ops = {"add", "clear", "format", "format appender", "level appender"}
  Careful = {p}
  MaxList = 2
SPECIFICATION Spec
SYMMETRY SymFormats
INVARIANTS FormattersPresent FormatterInherited OwnFormatterKept
CHECK_DEADLOCK FALSE
