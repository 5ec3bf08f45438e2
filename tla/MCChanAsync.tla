---------------------------- MODULE MCChanAsync ----------------------------
(* Small instances of ChanAsync for TLC. *)
EXTENDS ChanAsyncProps, TLC

(* No definition tells one sender, or one receiver, from another. *)
ThreadSymmetry == Permutations(Senders) \cup Permutations(Receivers)
=============================================================================
