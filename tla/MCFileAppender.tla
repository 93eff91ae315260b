--------------------------- MODULE MCFileAppender ---------------------------
(* Instances of FileAppender for TLC. *)
EXTENDS FileAppender, TLC
=============================================================================
