---------------------------- MODULE MCNLifecycle ----------------------------
(***************************************************************************)
(* Two addresses, a narrow corridor, and two sets of parameters of which   *)
(* one asks for fewer signatures and a smaller first issuance.             *)
(***************************************************************************)
EXTENDS NLifecycle

TwoAddresses == <<"alice", "bob">>
Strict == [required |-> 2, minMint |-> 2]
Lax == [required |-> 1, minMint |-> 0]
BothParams == {Strict, Lax}
=============================================================================
