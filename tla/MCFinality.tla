------------------------------ MODULE MCFinality ----------------------------
(***************************************************************************)
(* Two validators, both followed: the proposers of the first two heights.  *)
(* "pay" spends the coin, "empty" spends nothing.                          *)
(***************************************************************************)
EXTENDS Finality

TwoValidators == <<"v0", "v1">>
Bodies == {"pay", "empty"}
BodySpends == [b \in Bodies |-> IF b = "empty" THEN {} ELSE {"coin"}]
=============================================================================
