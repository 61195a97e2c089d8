------------------------------ MODULE Delivery ------------------------------
(***************************************************************************)
(* Chain while no node restarts, on a network that keeps its promise:      *)
(* a block is broadcast once, and reaches every node once, in any order.   *)
(* P2PNode._handle_message remembers the id of a block whether             *)
(* process_block took it or not, and request_blocks asks nobody: a block   *)
(* that was refused does not come again.                                   *)
(***************************************************************************)
EXTENDS Chain

VARIABLES
  arrived, \* the blocks that reached each node, in that order
  unsound  \* transactions posted to the validator that were invalid then

deliveryVars == <<vars, arrived, unsound>>

DeliveryInit ==
  /\ Init
  /\ arrived = [n \in Node |-> <<>>]
  /\ unsound = {}

\* Only what the validator holds is proposed: the pools of the others stay empty.
Submitted(t) ==
  /\ Submit(Validator, t)
  /\ UNCHANGED <<arrived, unsound>>

Posted(t) ==
  /\ Post(Validator, t)
  /\ unsound' = IF TxValid(t, utxo[Validator]) THEN unsound ELSE unsound \cup {t}
  /\ UNCHANGED arrived

Proposed ==
  /\ Propose
  /\ UNCHANGED <<arrived, unsound>>

\* The one arrival of a block: process_block takes or refuses it, for good.
Deliver(n, b) ==
  /\ b \notin ToSet(arrived[n])
  /\ IF BlockValid(b, tip[n], utxo[n]) THEN ReceiveBlock(n, b) ELSE UNCHANGED vars
  /\ arrived' = [arrived EXCEPT ![n] = Append(@, b)]
  /\ UNCHANGED unsound

DeliveryNext ==
  \/ \E t \in Tx : Submitted(t) \/ Posted(t)
  \/ Proposed
  \/ \E n \in Node : \E b \in sent : Deliver(n, b)

(***************************************************************************)
(* The loop takes a turn every block interval, and the connections hold    *)
(* until what was broadcast has arrived.                                   *)
(***************************************************************************)
DeliverySpec ==
  /\ DeliveryInit /\ [][DeliveryNext]_deliveryVars
  /\ WF_deliveryVars(Proposed)
  /\ \A n \in Node : WF_deliveryVars(\E b \in sent : Deliver(n, b))

-----------------------------------------------------------------------------
Conflicting(t, u) == t # u /\ ToSet(Inputs[t]) \cap ToSet(Inputs[u]) # {}

\* An invalid transaction is in the validator's next block, and every next one.
HeldUp ==
  \E t \in ToSet(ProposedBlock(Validator).txs) :
    /\ ~TxValid(t, utxo[Validator])
    /\ t \in unsound \/ \E u \in Confirmed(Validator) : Conflicting(t, u)


(* Every block of the validator reaches every node, and is stored there,    *)
(* unless a block overtook another on the way.                              *)
NodesCatchUp ==
  \A n \in Node : \A t \in Tx :
    t \in Confirmed(Validator) ~>
      t \in Confirmed(n) \/ \E i \in DOMAIN arrived[n] : arrived[n][i].height # i

(* The mempool is a temporary pool, which a transaction leaves again: when  *)
(* it is confirmed, or when one in conflict with it has been.               *)
PoolIsTemporary ==
  \A t \in Tx : t \in pool[Validator].entries ~> t \notin pool[Validator].entries

(* A node that is behind asks for the blocks it lacks, and has them.        *)
StragglersCatchUp ==
  \A n \in Node : \A t \in Tx : t \in Confirmed(Validator) ~> t \in Confirmed(n)
=============================================================================
