------------------------ MODULE MCChannelBankReplay ------------------------
(* Instances of ChannelBankReplay for TLC. *)
EXTENDS ChannelBankReplay, TLC

Symmetry == Permutations(ChannelIDs)
=============================================================================
