\* Two setters and the one listener registered before main.
CONSTANTS
  NoThread = NoThread
  NoVal = NoVal
  Vals = {v0, v1, v2}
  InitVal = v0
  Setters = {t1, t2}
  Admins = {}
  Readers = {}
  InitCbs = 1
  MaxId = 1
  CanThrow = FALSE
SPECIFICATION Spec
PROPERTY NoSilentChange
