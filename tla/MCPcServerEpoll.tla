--------------------------- MODULE MCPcServerEpoll ---------------------------
(* Small instances of PcServerEpoll for TLC; the cfg files fix the sizes.   *)
EXTENDS PcServerEpoll
=============================================================================
