------------------------------- MODULE MCTree -------------------------------
(* Tree on a few epochs. *)
EXTENDS Tree
MCEpochs == 1 .. 5
=============================================================================
