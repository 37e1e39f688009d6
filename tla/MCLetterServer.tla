--------------------------- MODULE MCLetterServer ---------------------------
(* Small instances of LetterServer for TLC; the cfg files fix the sizes. *)
EXTENDS LetterServer
=============================================================================
