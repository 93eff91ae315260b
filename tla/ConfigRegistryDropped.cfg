\* A thread registers variables while another loads a file.  The program may
\* stop: undefined behaviour.
CONSTANTS
  port = port
  port_logs = port_logs
  Port = Port
  int = int
  str = str
  num = num
  word = word
  None = None
  Default = Default
  Threads = {t1}
  Visitors = {}
  Loader = t3
  Names = {port, port_logs, Port}
  ValidNames = {port, port_logs}
  Types = {int, str}
  Texts = {num, word}
  Fits <- CastAll
  File <- Doc
SPECIFICATION Spec
INVARIANT NothingDropped
CHECK_DEADLOCK FALSE
