---------------------------- MODULE MCNetChan ----------------------------
(* NetChan with small sets, for TLC. *)
EXTENDS NetChanProps, TLC

MessageSymmetry == Permutations(Messages)
=============================================================================
