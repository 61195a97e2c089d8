------------------------------ MODULE MCOffline -----------------------------
(***************************************************************************)
(* A ledger with one output.  The device can spend it (pay), spend it      *)
(* differently (again), and spend what the first payment created (onward); *)
(* the second of these may also come from another device with the key.     *)
(***************************************************************************)
EXTENDS Offline

CONSTANTS alloc, pay, onward, again

Txs == {pay, onward, again}

InputsOf ==
  (pay :> <<<<alloc, 1>>>>) @@ (onward :> <<<<pay, 1>>>>) @@
  (again :> <<<<alloc, 1>>>>)

OutputsOf == (alloc :> <<1>>) @@ [t \in Txs |-> <<1>>]

One == [t \in Txs |-> 1]
=============================================================================
