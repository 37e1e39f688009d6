---------------------------- MODULE MCReaderWriter ----------------------------
(* Small instances of ReadersWriters for TLC; the cfg file fixes the sizes. *)
EXTENDS ReadersWriters
=============================================================================
