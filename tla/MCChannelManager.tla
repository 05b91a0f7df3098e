-------------------------- MODULE MCChannelManager --------------------------
(* Instances of ChannelManager for TLC: the blocks of one L2 chain, the *)
(* last of which fits in no channel.                                    *)
EXTENDS ChannelManager

CONSTANTS ChainLength, BlocksPerEpoch

MCL2Blocks ==
  {[number |-> n, fork |-> 0, parentFork |-> 0, epoch |-> 1 + (n - 1) \div BlocksPerEpoch] :
     n \in 1..ChainLength}

MCOversized == {b \in MCL2Blocks : b.number = ChainLength}
=============================================================================
