---------------------------- MODULE MCBakeryRpc -----------------------------
(* A small instance of BakeryRpc for TLC; the cfg file fixes the sizes.      *)
EXTENDS BakeryRpc
=============================================================================
