----------------------------- MODULE MCTxManager ----------------------------
(***************************************************************************)
(* Instances of TxManager for TLC.  With a fee limit of once the suggested *)
(* fees, TwoMarkets gives each transaction two versions, the second one a  *)
(* valid bump of the first, and OneMarket gives it one.                    *)
(***************************************************************************)
EXTENDS TxManager

TwoMarkets == {<<10, 5>>, <<12, 5>>}
OneMarket == {<<10, 5>>}
=============================================================================
