----------------------------- MODULE MCLabModules -----------------------------
(* A small instance of LabModules for TLC; the cfg file fixes the sizes.     *)
EXTENDS LabModules
=============================================================================
