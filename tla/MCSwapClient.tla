---------------------------- MODULE MCSwapClient ----------------------------
(***************************************************************************)
(* Two calls of swap by one payer.                                         *)
(***************************************************************************)
EXTENDS SwapClient, TLC

SplPools   == [quoteMint : {"SOL", "USDC"}, tokenType : {0}]
SolPool    == [quoteMint : {"SOL"}, tokenType : {0}]
UsdcPool   == [quoteMint : {"USDC"}, tokenType : {0}]
Token2022Pool == [quoteMint : {"USDC"}, tokenType : {1}]

Calls == Permutations(Sessions)

=============================================================================
