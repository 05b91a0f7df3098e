---------------------------- MODULE MCChannelBank ---------------------------
(* Instances of ChannelBank for TLC.  The order of channel IDs is immaterial. *)
EXTENDS ChannelBank, TLC

Symmetry == Permutations(ChannelIDs)
=============================================================================
