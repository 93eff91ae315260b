\* Values of all types up to two containers, some of three, read four times.
\* The program may stop reading and writing.
CONSTANTS
  Files <- MCFiles
  Ints <- MCInts
  MaxTrips = 4
SPECIFICATION Spec
INVARIANTS FilesAreRead RoundTrip
PROPERTIES Settles
CHECK_DEADLOCK FALSE
