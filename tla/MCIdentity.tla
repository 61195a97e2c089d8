----------------------------- MODULE MCIdentity -----------------------------
(***************************************************************************)
(* Two identities, of which ann may govern, two anchor ids and two keys.   *)
(* ann holds a credential made with k1, bob none: he can only be           *)
(* registered by the node's operator.                                      *)
(***************************************************************************)
EXTENDS Identity, TLC

CONSTANTS ann, bob, a1, a2, k1, k2, v1

ParamSets == {[required |-> 1, minMint |-> 1], [required |-> 2, minMint |-> 1]}
GenesisParams == [required |-> 1, minMint |-> 1]
Boot == a1 :> k1
Subjects == v1 :> ann
Signers == v1 :> k1
Expiries == v1 :> 0
=============================================================================
