\* A file, there from an earlier run or not, that nobody touches.
CONSTANTS
  Inodes = {i1, i2, i3}
  NoFile = NoFile
  World = {}
SPECIFICATION Spec
INVARIANT EveryEventKept
