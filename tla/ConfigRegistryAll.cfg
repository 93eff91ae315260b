\* Two threads look variables up and register them, one of them also visits,
\* while a third loads a file.  The program may stop: undefined behaviour.
CONSTANTS
  port = port
  port_logs = port_logs
  Port = Port
  int = int
  str = str
  num = num
  word = word
  None = None
  Default = Default
  Threads = {t1, t2}
  Visitors = {t2}
  Loader = t3
  Names = {port, port_logs, Port}
  ValidNames = {port, port_logs}
  Types = {int, str}
  Texts = {num, word}
  Fits <- CastAll
  File <- Doc
SPECIFICATION Spec
INVARIANTS IInv LoadedInFull
PROPERTIES NeverRebound VisitIsSnapshot
CHECK_DEADLOCK FALSE
