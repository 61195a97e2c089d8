------------------------------ MODULE Mempool -------------------------------
(***************************************************************************)
(* The transaction pool of core/mempool.py on its own, with every          *)
(* operation that changes it.                                              *)
(***************************************************************************)
EXTENDS MempoolOps

CONSTANTS
  MaxCount,  \* max_count of the block builder's select_transactions
  MaxBytes   \* its max_size_bytes

ASSUME MempoolAssumption ==
  /\ MaxCount \in Nat
  /\ MaxBytes \in Nat

VARIABLE pool

Init == pool = EmptyPool

\* add_tx of a new hash (of a known one it changes nothing).
Add(t) ==
  /\ t \notin pool.entries
  /\ pool' = AddTx(pool, t)

\* remove_tx of a known hash.
Remove1(t) ==
  /\ t \in pool.entries
  /\ pool' = RemoveTx(pool, t)

\* remove_confirmed of the transactions the builder selected: the block was committed.
ConfirmBlock ==
  /\ pool.ordered # <<>>
  /\ pool' = RemoveConfirmed(pool, SelectTransactions(pool, MaxCount, MaxBytes))

\* clear
Clear ==
  /\ pool.ordered # <<>>
  /\ pool' = EmptyPool

Next ==
  \/ \E t \in Tx : Add(t)
  \/ \E t \in Tx : Remove1(t)
  \/ ConfirmBlock
  \/ Clear

Spec == Init /\ [][Next]_pool

-----------------------------------------------------------------------------
(* The two structures of a Mempool stay one pool, though remove_tx and      *)
(* _evict_lowest update dict and list separately: what is looked up by      *)
(* hash, offered to the block builder, evicted and removed are the same     *)
(* transactions.  They come apart in one way only: one that leaves from     *)
(* behind another that pays the same and stays, which list.remove takes.    *)
DriftHasCause ==
  [][Coherent(pool) =>
       \/ Coherent(pool')
       \/ \E t \in pool.entries \ pool'.entries, u \in pool'.entries :
            Priority[u] = Priority[t] /\ Precedes(pool.ordered, u, t)]_pool

(* An addition costs a coherent pool at most one transaction, and one that  *)
(* pays no more than any that stays: overflow evicts the cheapest, be it    *)
(* the transaction that add_tx reports as added, and always that one        *)
(* rather than an earlier one that pays the same.                           *)
EvictsCheapest ==
  [][Coherent(pool) =>
       \A t \in Tx : Add(t) =>
         \A gone \in (pool.entries \cup {t}) \ pool'.entries :
           /\ pool'.entries = (pool.entries \cup {t}) \ {gone}
           /\ gone = t \/ Priority[gone] < Priority[t]
           /\ \A stay \in pool'.entries : Priority[gone] <= Priority[stay]
    ]_pool

\* The size of a list of transactions.
Bytes(txs) == Along(LAMBDA acc, t : acc + Size[t], 0, txs)

(* The block builder's choice from a coherent pool is justified: the order  *)
(* of the list, where the first of those that pay the same came first, both *)
(* limits kept, and one is passed over only because the block already has   *)
(* max_count transactions or because it did not fit beside the k listed     *)
(* before it and taken.                                                     *)
SelectionJustified ==
  Coherent(pool) =>
    LET chosen == SelectTransactions(pool, MaxCount, MaxBytes)
    IN  /\ ToSet(chosen) \subseteq pool.entries
        /\ Len(chosen) <= MaxCount /\ Bytes(chosen) <= MaxBytes
        /\ \A i, j \in 1 .. Len(chosen) : i < j => Precedes(pool.ordered, chosen[i], chosen[j])
        /\ \A t \in pool.entries \ ToSet(chosen) :
             \E k \in 0 .. Len(chosen) :
               /\ \A i \in 1 .. Len(chosen) : i <= k <=> Precedes(pool.ordered, chosen[i], t)
               /\ k = MaxCount \/ Bytes(SubSeq(chosen, 1, k)) + Size[t] > MaxBytes

(* What remove_tx promises ("Remove a transaction by its hash"): a          *)
(* transaction that left the pool is not offered to the block builder.      *)
RemovedIsNotOffered == ToSet(pool.ordered) \subseteq pool.entries
=============================================================================
