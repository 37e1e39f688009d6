-------------------------- MODULE MCProducerConsumer --------------------------
(* Small instances of ProducerConsumer for TLC; the cfg files fix the sizes. *)
EXTENDS ProducerConsumer
=============================================================================
