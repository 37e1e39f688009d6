------------------------ MODULE MCPcServerIterative -------------------------
(* Small instances of PcServerIterative for TLC; the cfg files fix the sizes. *)
EXTENDS PcServerIterative
=============================================================================
