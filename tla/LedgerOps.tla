----------------------------- MODULE LedgerOps ------------------------------
(***************************************************************************)
(* Transactions, the UTXO set and blocks (core/utxo.py, core/validator.py, *)
(* core/block.py) as operators.                                            *)
(*                                                                         *)
(* An outpoint is <<t, i>>, output i of transaction t; a UTXO set is the   *)
(* set of its outpoints, since a transaction fixes the amounts of its      *)
(* outputs.  Alloc stands for the transaction that funds the ledger before *)
(* the first block and is applied without validation.                      *)
(*                                                                         *)
(* The hash of a block commits to its transactions and to the hash of its  *)
(* predecessor, so it is modelled as what it commits to: the list of the   *)
(* transaction lists of the block's ancestors, with its own at the end.    *)
(* Timestamps always pass: clocks agree within the ten seconds tolerated   *)
(* and a node's clock does not run back.                                   *)
(***************************************************************************)
EXTENDS MempoolOps

CONSTANTS
  Alloc,     \* the funding transaction, not in Tx
  Inputs,    \* the outpoints it spends
  Outputs,   \* the amounts
  WellFormed \* transactions whose version, scripts and type rules pass

\* Inputs are sequences, of whatever they refer to; amounts are not negative.
ASSUME LedgerAssumption ==
  /\ Alloc \notin Tx
  /\ \A t \in Tx : Inputs[t] \in Seq(ToSet(Inputs[t]))
  /\ \A t \in Tx \cup {Alloc} : Outputs[t] \in Seq(Nat)

OutpointsOf(t) == {<<t, i>> : i \in 1 .. Len(Outputs[t])}

Outpoints == UNION {OutpointsOf(t) : t \in Tx \cup {Alloc}}

Amount(o) == Outputs[o[1]][o[2]]

Value(S) == MapThenSumSet(Amount, S)

(***************************************************************************)
(* UTXOSet: apply_transaction removes the inputs, present or not, and adds *)
(* the outputs that are not zero; apply_block applies a block's in order.  *)
(***************************************************************************)
ApplyTx(utxo, t) ==
  (utxo \ ToSet(Inputs[t])) \cup {o \in OutpointsOf(t) : Amount(o) # 0}

ApplyBlock(utxo, b) == Along(ApplyTx, utxo, b.txs)

\* The UTXO set of a ledger that is only funded.
Funded == {o \in OutpointsOf(Alloc) : Amount(o) # 0}

\* Slip: the amounts are not compared.
TxValid_NoValueCheck(t, utxo) ==
  /\ t \in WellFormed
  /\ Inputs[t] # <<>> /\ Outputs[t] # <<>>
  /\ ToSet(Inputs[t]) \subseteq utxo

\* Slip: the inputs are not looked up.
TxValid_NoLookup(t, utxo) ==
  /\ t \in WellFormed
  /\ Inputs[t] # <<>> /\ Outputs[t] # <<>>

(***************************************************************************)
(* TxValidator.validate: inputs there and distinct, every input unspent,   *)
(* and no more value created than consumed.                                *)
(***************************************************************************)
TxValid(t, utxo) ==
  /\ t \in WellFormed
  /\ Inputs[t] # <<>> /\ Outputs[t] # <<>>
  /\ IsInjective(Inputs[t])
  /\ ToSet(Inputs[t]) \subseteq utxo
  /\ Value(ToSet(Inputs[t])) >= Value(OutpointsOf(t))

-----------------------------------------------------------------------------
Block == [height : Nat, prev : Seq(Seq(Tx)), txs : Seq(Tx)]

Genesis == [height |-> 0, prev |-> <<>>, txs |-> <<>>]

Hash(b) == Append(b.prev, b.txs)

LinkValid(b, prev) == b.prev = Hash(prev) /\ b.height = prev.height + 1

(***************************************************************************)
(* validate_block of a block after `prev`: the link, then every            *)
(* transaction by itself, each against the UTXO set as it was before the   *)
(* block.  Who proposed it is a matter of Chain.                           *)
(***************************************************************************)
BlockValid(b, prev, utxo) ==
  /\ LinkValid(b, prev)
  /\ \A i \in 1 .. Len(b.txs) : TxValid(b.txs[i], utxo)
=============================================================================
