----------------------------- MODULE MCTicketRpc -----------------------------
(* A small instance of TicketRpc for TLC; the cfg file fixes the sizes.      *)
EXTENDS TicketRpc
=============================================================================
