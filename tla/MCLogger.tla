------------------------------ MODULE MCLogger ------------------------------
(* Instances of Logger for TLC. *)
EXTENDS Logger

\* Threads play the same role, and so do the formatters given.
SymFormats == Permutations(Threads) \cup Permutations(Formatters)
=============================================================================
