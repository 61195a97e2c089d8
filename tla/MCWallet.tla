------------------------------ MODULE MCWallet ------------------------------
(***************************************************************************)
(* Two outputs, of 1 and 2; one payment needs 1 and the other needs both.  *)
(***************************************************************************)
EXTENDS Wallet, TLC

CONSTANTS small, large, one, both

Values == (small :> 1) @@ (large :> 2)
Needs == (one :> 1) @@ (both :> 3)
=============================================================================
