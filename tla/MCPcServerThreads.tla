------------------------- MODULE MCPcServerThreads --------------------------
(* Small instances of PcServerThreads for TLC; the cfg files fix the sizes. *)
EXTENDS PcServerThreads
=============================================================================
