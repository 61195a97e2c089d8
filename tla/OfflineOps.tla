----------------------------- MODULE OfflineOps -----------------------------
(***************************************************************************)
(* The two stores of an offline device as values: UTXOSyncView             *)
(* (offline/utxo_view.py) and TxCache (offline/cache.py).                  *)
(*                                                                         *)
(* A view is a record of its layers: `chain` is _chain_utxos, `spent` the  *)
(* keys of _local_spent (the spender stored with a key is only reported),  *)
(* `created` is _local_created and `applied` lists _applied_local_txs in   *)
(* the order of the dict.                                                  *)
(***************************************************************************)
EXTENDS LedgerOps

\* The outputs a transaction spends; the funding transaction spends none.
Ins(t) == IF t = Alloc THEN {} ELSE ToSet(Inputs[t])

NewView(S) == [chain |-> S, spent |-> {}, created |-> {}, applied |-> <<>>]

Views == [chain : SUBSET Outpoints, spent : SUBSET Outpoints,
          created : SUBSET Outpoints, applied : Seq(Tx)]

\* The checks of apply_local_tx, all made before anything is written.
CanApply(v, t) ==
  /\ Ins(t) \cap v.spent = {}
  /\ Ins(t) \subseteq v.chain \cup v.created

\* The writes of apply_local_tx; a key that is there keeps its place in a dict.
Applied(v, t) ==
  [v EXCEPT !.spent = @ \cup Ins(t),
            !.created = @ \cup OutpointsOf(t),
            !.applied = IF t \in ToSet(@) THEN @ ELSE Append(@, t)]

\* Slip: the inputs stay marked as spent.
Reverted_KeepSpent(v, t) ==
  IF t \notin ToSet(v.applied) THEN v
  ELSE [v EXCEPT !.created = @ \ OutpointsOf(t),
                 !.applied = RemoveFirst(@, t)]

\* revert_on_conflict; local transactions that spend its outputs stay.
Reverted(v, t) ==
  IF t \notin ToSet(v.applied) THEN v
  ELSE [v EXCEPT !.spent = @ \ Ins(t),
                 !.created = @ \ OutpointsOf(t),
                 !.applied = RemoveFirst(@, t)]

\* A local transaction is applied again, or dropped if that raises.
Reapplied(v, t) == IF CanApply(v, t) THEN Applied(v, t) ELSE v

\* Slip: the created layer survives.
Synced_KeepCreated(v, S) ==
  Along(Reapplied, [NewView(S) EXCEPT !.created = v.created], v.applied)

(***************************************************************************)
(* sync_with_chain: the chain layer is replaced, the local layers emptied, *)
(* and the local transactions applied again in their order.                *)
(***************************************************************************)
Synced(v, S) == Along(Reapplied, NewView(S), v.applied)

\* The local layers are those of the local transactions, which spend nothing twice.
Layered(v) ==
  /\ v.spent = UNION {Ins(t) : t \in ToSet(v.applied)}
  /\ v.created = UNION {OutpointsOf(t) : t \in ToSet(v.applied)}
  /\ \A i, j \in 1 .. Len(v.applied) :
       i # j => /\ v.applied[i] # v.applied[j]
                /\ Ins(v.applied[i]) \cap Ins(v.applied[j]) = {}

\* Each local transaction spends what the chain or one before it has created.
Grounded(v) ==
  \A i \in 1 .. Len(v.applied) :
     Ins(v.applied[i]) \subseteq
        v.chain \cup UNION {OutpointsOf(v.applied[j]) : j \in 1 .. i - 1}

(***************************************************************************)
(* The UTXO set of _core_stubs.py, which replays blocks, keeps outputs of  *)
(* amount zero, and ignores an input that is not there.                    *)
(***************************************************************************)
StubApply(S, t) == (S \ Ins(t)) \cup OutpointsOf(t)

Replayed(blocks) ==
  Along(LAMBDA S, b : Along(StubApply, S, b), {}, blocks)

-----------------------------------------------------------------------------
(***************************************************************************)
(* The cache: rows by hash.  Of the seven states of TxStatus the program   *)
(* itself uses four.  Each row has an expiry of its own, which only        *)
(* purge_expired reads, so at any time any of the rows may have expired.   *)
(***************************************************************************)
Statuses == {"CACHED", "PENDING_NETWORK", "CONFIRMED", "REJECTED"}

\* cache_tx: inserts the row or overwrites it, status and place in the queue too.
Cached(rows, t, seq) ==
  [u \in DOMAIN rows \cup {t} |->
     IF u = t THEN [status |-> "CACHED", seq |-> seq] ELSE rows[u]]

\* update_status: nothing when the row is gone.
WithStatus(rows, t, status) ==
  IF t \in DOMAIN rows THEN [rows EXCEPT ![t].status = status] ELSE rows

\* The rows left when those of `expired` are deleted, whatever their status.
Purged(rows, expired) == [t \in DOMAIN rows \ expired |-> rows[t]]

\* Slip: only what the network has is asked for, not what is still to be submitted.
Unsettled_OnlyPending(rows) ==
  {t \in DOMAIN rows : rows[t].status = "PENDING_NETWORK"}

\* The rows of get_pending: neither confirmed nor rejected, expired or not.
Unsettled(rows) ==
  {t \in DOMAIN rows : rows[t].status \notin {"CONFIRMED", "REJECTED"}}

\* get_pending: by sequence number, rows of the same number in any order.
PendingOrders(rows) ==
  {s \in SetToSeqs(Unsettled(rows)) :
     \A i, j \in 1 .. Len(s) : i < j => rows[s[i]].seq <= rows[s[j]].seq}
=============================================================================
