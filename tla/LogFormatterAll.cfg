\* All patterns up to a length; m is a known directive, x an unknown one.
CONSTANTS
  MaxSize = 6
  Chars = {"%", "{", "}", "m", "x", "-"}
  Patterns <- MCPatterns
  Letters = {"m", "x"}
  Known = {"m"}
SPECIFICATION FairSpec
INVARIANTS IInv Tiled RefusedIfMalformed
PROPERTIES Advances Terminates
