\* A file that others delete, replace, lock away and starve of room.
CONSTANTS
  Inodes = {i1, i2, i3}
  NoFile = NoFile
  World = {"delete", "create", "forbid", "fill"}
SPECIFICATION FairSpec
INVARIANT IInv
PROPERTIES OrphansAreUnseen Recovers
