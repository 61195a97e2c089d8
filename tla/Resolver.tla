------------------------------ MODULE Resolver ------------------------------
(***************************************************************************)
(* How a payment written offline is built (offline/tx_builder.py) and how  *)
(* one that the network refuses is rescued (offline/conflict_resolver.py). *)
(*                                                                         *)
(* A payment is the sequence of its output amounts, the sequence of the    *)
(* UTXOs it spends, a UTXO being the pair of its outpoint and its amount,  *)
(* and its kind; the external amount of a sale or a wage is 0 when the     *)
(* extra field lacks it.  Scripts and metadata are copied and left out.    *)
(* Ratios are exact fractions: the floats of the code agree with them on   *)
(* small amounts.                                                          *)
(***************************************************************************)
EXTENDS Sorting, Naturals

CONSTANTS
  Overhead, PerInput, PerOutput  \* _estimate_tx_size: 120, 150 and 50 bytes

SumOf(s) == FoldLeft(LAMBDA x, y : x + y, 0, s)
ValueOf(utxos) == SumOf([i \in DOMAIN utxos |-> utxos[i][2]])
Outpoints(utxos) == {utxos[i][1] : i \in DOMAIN utxos}

-----------------------------------------------------------------------------
EstimateFee(ins, outs, rate) == (Overhead + ins * PerInput + outs * PerOutput) * rate

(***************************************************************************)
(* create_offline_tx: refused (an empty set) or built with what is left    *)
(* over as a last output, unless nothing is.                               *)
(***************************************************************************)
Change(utxos, outs, fee) == ValueOf(utxos) - SumOf(outs) - fee

create_offline_tx(kind, utxos, outs, rate) ==
  LET fee    == EstimateFee(Len(utxos), Len(outs), rate)
      change == Change(utxos, outs, fee)
  IN  IF \/ kind \notin {"TRANSFER", "TRANSFER_SALE", "TRANSFER_WAGE"}
         \/ ValueOf(utxos) < SumOf(outs) + fee
      THEN {}
      ELSE {[kind |-> kind, inputs |-> utxos,
             outputs |-> IF change > 0 THEN Append(outs, change) ELSE outs]}

-----------------------------------------------------------------------------
(***************************************************************************)
(* _rebuild_tx: the largest UTXOs first (a stable sort), up to the first   *)
(* that reaches the target; the outputs as they were, no change.           *)
(***************************************************************************)
LargestFirst(utxos) == StableSort(utxos, LAMBDA u, v : u[2] > v[2])

\* Slip: the sum is compared before the last one is added.
Enough_Late(utxos, target) ==
  {n \in 1 .. Len(utxos) : ValueOf(SubSeq(utxos, 1, n - 1)) >= target}

Enough(utxos, target) ==
  {n \in 1 .. Len(utxos) : ValueOf(SubSeq(utxos, 1, n)) >= target}

Prefix(utxos, target) ==
  LET e == Enough(utxos, target)
  IN  IF e = {} THEN utxos ELSE SubSeq(utxos, 1, CHOOSE n \in e : \A k \in e : n <= k)

Rebuild(tx, utxos, target) ==
  [strategy |-> "REBUILD",
   tx |-> [tx EXCEPT !.inputs = Prefix(LargestFirst(utxos), target)]]

Adjust(tx, outs) == [strategy |-> "ADJUST", tx |-> [tx EXCEPT !.outputs = outs]]
Refuse(tx) == [strategy |-> "REJECT", tx |-> tx]
AskUser(tx) == [strategy |-> "USER_INTERVENTION", tx |-> tx]

Available(c, wallet) == IF c.available # <<>> THEN c.available ELSE wallet

resolve_double_spend(c, wallet) ==
  LET free   == SelectSeq(Available(c, wallet), LAMBDA u : u[1] \notin c.spent)
      target == SumOf(c.tx.outputs)
  IN  CASE ValueOf(free) >= target -> Rebuild(c.tx, free, target)
        [] ValueOf(free) < target /\ c.priority > 0 -> AskUser(c.tx)
        [] OTHER -> Refuse(c.tx)

(***************************************************************************)
(* _reduce_outputs: every output shrinks in proportion, none below 1.      *)
(***************************************************************************)
ReduceOutputs(outs, total) ==
  IF SumOf(outs) = 0 \/ total >= SumOf(outs) THEN outs
  ELSE [i \in DOMAIN outs |->
          LET part == (outs[i] * total) \div SumOf(outs)
          IN  IF part > 1 THEN part ELSE 1]

resolve_insufficient_balance(c, wallet) ==
  LET utxos   == Available(c, wallet)
      reduced == ReduceOutputs(c.tx.outputs, ValueOf(utxos))
  IN  CASE ValueOf(utxos) >= SumOf(c.tx.outputs) ->
             Rebuild(c.tx, utxos, SumOf(c.tx.outputs))
        [] /\ ValueOf(utxos) < SumOf(c.tx.outputs)
           /\ SumOf(reduced) <= ValueOf(utxos) -> Adjust(c.tx, reduced)
        [] OTHER -> Refuse(c.tx)

(***************************************************************************)
(* resolve_rule_change: the N of a sale or wage is recomputed under the    *)
(* new ratio, rounded down, and lowered to it; never raised.               *)
(***************************************************************************)
RequiredUnder(external, ratio) == (external * ratio.num) \div ratio.den

resolve_rule_change(c, wallet) ==
  LET required == RequiredUnder(c.external, c.ratio)
      outs     == c.tx.outputs
  IN  CASE c.tx.kind = "TRANSFER" -> Adjust(c.tx, outs)
        [] c.tx.kind \in {"TRANSFER_SALE", "TRANSFER_WAGE"} ->
             CASE c.external <= 0 -> Refuse(c.tx)
               [] c.external > 0 /\ outs # <<>> /\ outs[1] >= required ->
                    Adjust(c.tx, [outs EXCEPT ![1] = required])
               [] OTHER -> AskUser(c.tx)
        [] OTHER -> AskUser(c.tx)

resolve(c, wallet) ==
  CASE c.type = "DOUBLE_SPEND"         -> resolve_double_spend(c, wallet)
    [] c.type = "RULE_CHANGE"          -> resolve_rule_change(c, wallet)
    [] c.type = "INSUFFICIENT_BALANCE" -> resolve_insufficient_balance(c, wallet)
    [] c.type = "TIMEOUT"              -> Refuse(c.tx)
    [] OTHER                           -> AskUser(c.tx)
=============================================================================
