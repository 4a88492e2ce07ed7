------------------------- MODULE MCChannelLifecycle -------------------------
(* Small instances of ChannelLifecycle: two requests race each other, an     *)
(* administrator and restarts.                                               *)
EXTENDS ChannelLifecycle, TLC

RequestSymmetry == Permutations(Requests)
=============================================================================
