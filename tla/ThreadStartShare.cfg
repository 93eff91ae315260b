\* The constructing thread shares its pointer and two others join at once.
\* The program may stop: the thread has ended or something undefined happened.
CONSTANTS
  u1 = u1
  u2 = u2
  u3 = u3
  n1 = n1
  n2 = n2
  Users = {u1, u2, u3}
  Owner = u1
  Joiners = {u2, u3}
  Names = {n1, n2}
  FirstName = n1
  Interrupts = TRUE
SPECIFICATION FairSpec
INVARIANTS Handshake StraysExplained NamesAgree ReapedOnce
PROPERTY BlockedMovesOn
CHECK_DEADLOCK FALSE
