----------------------------- MODULE MempoolOps -----------------------------
(***************************************************************************)
(* The operations of core/mempool.py on the two structures a Mempool       *)
(* keeps: `_entries` (dict, hash -> entry) and `_ordered` (list of         *)
(* entries, best first).  A pool is a record of both, so that the          *)
(* stand-alone module Mempool and the node in Chain share one translation. *)
(*                                                                         *)
(* A transaction is a value of Tx; its MempoolEntry is determined by it:   *)
(* Priority[t] stands for fee / size_bytes (sort_index is its negation)    *)
(* and Size[t] for size_bytes.  Entries are Python dataclasses compared by *)
(* sort_index alone, so two entries are EQUAL when their priorities are.   *)
(***************************************************************************)
EXTENDS Traversal, FiniteSets, SequencesExt

CONSTANTS
  Tx,        \* the transactions
  Priority,  \* [Tx -> Nat], fee per byte of the entry
  Size,      \* [Tx -> Nat], size in bytes of the entry
  MaxSize    \* Mempool(max_size)

ASSUME PoolAssumption ==
  /\ Priority \in [Tx -> Nat]
  /\ Size \in [Tx -> Nat]
  /\ MaxSize \in Nat

EmptyPool == [entries |-> {}, ordered |-> <<>>]

Pools == [entries : SUBSET Tx, ordered : Seq(Tx)]

\* Best first.
IsOrdered(s) ==
  \A i, j \in 1 .. Len(s) : i < j => Priority[s[i]] >= Priority[s[j]]

Precedes(s, t, u) == \E i, j \in 1 .. Len(s) : i < j /\ s[i] = t /\ s[j] = u

\* Dict and list hold the same transactions, in order and within the limit.
Coherent(p) ==
  /\ p \in Pools
  /\ IsOrdered(p.ordered)
  /\ IsInjective(p.ordered)
  /\ ToSet(p.ordered) = p.entries
  /\ IsFiniteSet(p.entries)
  /\ Cardinality(p.entries) <= MaxSize

(***************************************************************************)
(* _insert_ordered: before the first entry that compares greater, so ties  *)
(* keep their arrival order; at the end when there is none.                *)
(***************************************************************************)
Worse(s, t) == {i \in 1 .. Len(s) : Priority[t] > Priority[s[i]]}

InsertPosition(s, t) == IF Worse(s, t) = {} THEN Len(s) + 1 ELSE Min(Worse(s, t))

InsertOrdered(s, t) == InsertAt(s, InsertPosition(s, t), t)

\* list.remove(entry): the first element EQUAL to the entry, not the entry itself.
RemoveEqual(s, t) == RemoveFirstMatch(s, LAMBDA u : Priority[u] = Priority[t])

\* Slip: the eviction takes the head of the list.
EvictLowest_Head(p) ==
  IF p.ordered = <<>> THEN p
  ELSE [entries |-> p.entries \ {Head(p.ordered)}, ordered |-> Tail(p.ordered)]

\* Slip: the eviction forgets the dict.
EvictLowest_ListOnly(p) ==
  IF p.ordered = <<>> THEN p ELSE [p EXCEPT !.ordered = Front(@)]

\* _evict_lowest: the last of the list, and the dict's entry of that hash.
EvictLowest(p) ==
  IF p.ordered = <<>> THEN p
  ELSE [entries |-> p.entries \ {Last(p.ordered)}, ordered |-> Front(p.ordered)]

(***************************************************************************)
(* add_tx: refused when the hash is known; otherwise inserted into both    *)
(* structures, after which one entry is evicted if the pool is over its    *)
(* limit (possibly the one just added: add_tx still answers True).         *)
(***************************************************************************)
AddTx(p, t) ==
  LET q == [entries |-> p.entries \cup {t}, ordered |-> InsertOrdered(p.ordered, t)]
  IN  IF t \in p.entries THEN p
      ELSE IF Cardinality(q.entries) > MaxSize THEN EvictLowest(q) ELSE q

(***************************************************************************)
(* remove_tx: pops the dict, then removes an equal element of the list;    *)
(* when the list has none, list.remove raises and the dict stays popped.   *)
(***************************************************************************)
RemoveTx(p, t) ==
  IF t \notin p.entries THEN p
  ELSE [entries |-> p.entries \ {t}, ordered |-> RemoveEqual(p.ordered, t)]

RemoveTxRaises(p, t) ==
  t \in p.entries /\ \A u \in ToSet(p.ordered) : Priority[u] # Priority[t]

\* remove_confirmed, and the loop at the end of commit_block: until one raises.
RemoveConfirmed(p, txs) ==
  LET Step(acc, t) ==
        IF acc.raised THEN acc
        ELSE [pool |-> RemoveTx(acc.pool, t), raised |-> RemoveTxRaises(acc.pool, t)]
  IN  Along(Step, [pool |-> p, raised |-> FALSE], txs).pool

\* Slip: the size limit ends the selection instead of skipping the entry.
SelectTransactions_Break(p, maxCount, maxBytes) ==
  LET Step(acc, t) ==
        IF acc.full \/ Len(acc.txs) >= maxCount THEN acc
        ELSE IF acc.bytes + Size[t] > maxBytes THEN [acc EXCEPT !.full = TRUE]
        ELSE [acc EXCEPT !.txs = Append(@, t), !.bytes = @ + Size[t]]
  IN  Along(Step, [txs |-> <<>>, bytes |-> 0, full |-> FALSE], p.ordered).txs

(***************************************************************************)
(* select_transactions: along `_ordered`, until maxCount are selected,     *)
(* skipping an entry that would take the total over maxBytes.              *)
(***************************************************************************)
SelectTransactions(p, maxCount, maxBytes) ==
  LET Step(acc, t) ==
        IF Len(acc.txs) >= maxCount \/ acc.bytes + Size[t] > maxBytes THEN acc
        ELSE [txs |-> Append(acc.txs, t), bytes |-> acc.bytes + Size[t]]
  IN  Along(Step, [txs |-> <<>>, bytes |-> 0], p.ordered).txs
=============================================================================
