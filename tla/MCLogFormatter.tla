--------------------------- MODULE MCLogFormatter ---------------------------
(* Every pattern up to a length over six classes of characters. *)
EXTENDS LogFormatter

CONSTANT MaxSize        \* bound: the length of a pattern

MCPatterns == UNION {[1 .. k -> Chars] : k \in 0 .. MaxSize}
=============================================================================
