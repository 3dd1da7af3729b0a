-------------------------- MODULE MCServerChannels --------------------------
(* ServerChannels for TLC: the channel ids and the remote addresses are      *)
(* interchangeable.                                                          *)
EXTENDS ServerChannels, TLC

Symmetry == Permutations(Chan) \cup Permutations(Addr)
=============================================================================
