------------------------------- MODULE Chain --------------------------------
(***************************************************************************)
(* Block production and replication: the consensus object of               *)
(* core/consensus.py on every node, driven as node.py drives it.           *)
(*                                                                         *)
(* node.py gives every node the same one-member validator set, so one node *)
(* proposes every block and its signature is the whole threshold.  No      *)
(* handler awaits between its first read and its last write, so each is    *)
(* one step; what can come between is a crash, and the blocks and index    *)
(* rows already written to SQLite survive it while the rest does not.      *)
(*                                                                         *)
(* NLifecycleManager has neither the `current_height` that node.py passes  *)
(* it nor the `on_block` that _index_block ends with: both are taken as    *)
(* there and without effect on this state.                                 *)
(***************************************************************************)
EXTENDS LedgerOps

CONSTANTS
  Node,
  Validator,      \* the node whose key is the configured validator's
  MaxTxPerBlock,  \* SystemParams.max_tx_per_block
  MaxBlockBytes,  \* SystemParams.max_block_size
  MaxEmptyBlocks, \* bound: blocks without a transaction the validator proposes
  MaxRestarts     \* bound: restarts of one node

\* Every caller of add_tx leaves its fee at 0: the entries of a pool pay the same.
ASSUME ChainAssumption ==
  /\ Priority = [t \in Tx |-> 0]
  /\ Validator \in Node
  /\ MaxTxPerBlock \in Nat
  /\ MaxBlockBytes \in Nat
  /\ MaxEmptyBlocks \in Nat
  /\ MaxRestarts \in Nat

VARIABLES
  pool,     \* mempool of each node
  utxo,     \* UTXOSet, in memory
  tip,      \* consensus.chain_tip
  store,    \* BlockStore, durable: height -> block
  index,    \* IndexStore, durable: height of a transaction, unspent outpoints
  sent,     \* blocks broadcast so far; delivered late, twice, in any order or never
  restarts  \* how often each node restarted

vars == <<pool, utxo, tip, store, index, sent, restarts>>

\* No transaction is in the genesis block: height 0 stands for no row.
EmptyIndex == [height |-> [t \in Tx |-> 0], unspent |-> {}]

Indexes == [height : [Tx -> Nat], unspent : SUBSET Outpoints]

\* Every node starts funded and with the genesis block stored.
Init ==
  /\ pool = [n \in Node |-> EmptyPool]
  /\ utxo = [n \in Node |-> Funded]
  /\ tip = [n \in Node |-> Genesis]
  /\ store = [n \in Node |-> [h \in {0} |-> Genesis]]
  /\ index = [n \in Node |-> EmptyIndex]
  /\ sent = {}
  /\ restarts = [n \in Node |-> 0]

-----------------------------------------------------------------------------
\* save_block: one row per height, overwritten when the height is there.
SaveBlock(s, b) ==
  [h \in DOMAIN s \cup {b.height} |-> IF h = b.height THEN b ELSE s[h]]

LatestBlock(s) == s[Max(DOMAIN s)]

\* Slip: the inputs are not marked spent.
IndexTx_KeepInputs(ix, t, h) ==
  [height |-> [ix.height EXCEPT ![t] = h], unspent |-> ix.unspent \cup OutpointsOf(t)]

(***************************************************************************)
(* _index_block for one transaction: its own row, then its outputs, then   *)
(* its inputs, each committed by itself.  `rows` of them are written.      *)
(***************************************************************************)
IndexRows(ix, t, h, rows) ==
  [height  |-> IF rows = 0 THEN ix.height ELSE [ix.height EXCEPT ![t] = h],
   unspent |-> (ix.unspent \cup {o \in OutpointsOf(t) : o[2] < rows})
                 \ {Inputs[t][i] : i \in {i \in DOMAIN Inputs[t] : Len(Outputs[t]) + i < rows}}]

Rows(t) == 1 + Len(Outputs[t]) + Len(Inputs[t])

IndexTx(ix, t, h) == IndexRows(ix, t, h, Rows(t))

IndexBlock(ix, txs, h) == Along(LAMBDA acc, t : IndexTx(acc, t, h), ix, txs)

\* What a crash can leave of the index of a block.
TornIndexes(ix, b) ==
  {IndexBlock(ix, b.txs, b.height)} \cup
  UNION {{IndexRows(IndexBlock(ix, SubSeq(b.txs, 1, k - 1), b.height), b.txs[k], b.height, rows) :
            rows \in 0 .. Rows(b.txs[k])} : k \in 1 .. Len(b.txs)}

\* propose_block: the next block on the tip, with what the mempool selects.
ProposedBlock(n) ==
  [height |-> tip[n].height + 1,
   prev   |-> Hash(tip[n]),
   txs    |-> SelectTransactions(pool[n], MaxTxPerBlock, MaxBlockBytes)]

\* validate_block's own effect: a valid block is applied to the node's UTXO set.
ApplyValidated(u, b) == ApplyBlock(u, b)

\* Slip: the validation is simulated on a copy and the commit relies on it.
Commit_NotApplied(n, b) ==
  /\ tip' = [tip EXCEPT ![n] = b]
  /\ store' = [store EXCEPT ![n] = SaveBlock(@, b)]
  /\ pool' = [pool EXCEPT ![n] = RemoveConfirmed(@, b.txs)]
  /\ index' = [index EXCEPT ![n] = IndexBlock(@, b.txs, b.height)]
  /\ UNCHANGED utxo


(***************************************************************************)
(* validate_block, commit_block and _index_block of a valid block: the     *)
(* validation applies it to the UTXO set, and the commit applies it again. *)
(***************************************************************************)
Commit(n, b) ==
  /\ tip' = [tip EXCEPT ![n] = b]
  /\ store' = [store EXCEPT ![n] = SaveBlock(@, b)]
  /\ utxo' = [utxo EXCEPT ![n] = ApplyBlock(ApplyValidated(@, b), b)]
  /\ pool' = [pool EXCEPT ![n] = RemoveConfirmed(@, b.txs)]
  /\ index' = [index EXCEPT ![n] = IndexBlock(@, b.txs, b.height)]

\* Slip: a restarted node continues from the genesis block.
Restarted_TipLost(n) ==
  /\ tip' = [tip EXCEPT ![n] = Genesis]
  /\ utxo' = [utxo EXCEPT ![n] = {}]
  /\ pool' = [pool EXCEPT ![n] = EmptyPool]
  /\ restarts[n] < MaxRestarts
  /\ restarts' = [restarts EXCEPT ![n] = @ + 1]

(***************************************************************************)
(* A new process on the old data directory: __init__ makes an empty UTXO   *)
(* set and an empty mempool, start() reads the tip from the block store.   *)
(***************************************************************************)
Restarted(n) ==
  /\ tip' = [tip EXCEPT ![n] = LatestBlock(store'[n])]
  /\ utxo' = [utxo EXCEPT ![n] = {}]
  /\ pool' = [pool EXCEPT ![n] = EmptyPool]
  /\ restarts[n] < MaxRestarts
  /\ restarts' = [restarts EXCEPT ![n] = @ + 1]
-----------------------------------------------------------------------------
\* submit_transaction: validated against the node's UTXO set, then added.
Submit(n, t) ==
  /\ t \notin pool[n].entries
  /\ TxValid(t, utxo[n])
  /\ pool' = [pool EXCEPT ![n] = AddTx(@, t)]
  /\ UNCHANGED <<utxo, tip, store, index, sent, restarts>>

(***************************************************************************)
(* POST /tx, /offline/submit-batch and the gRPC SubmitTransaction: add_tx  *)
(* on the node's mempool, of whatever came in.                             *)
(***************************************************************************)
Post(n, t) ==
  /\ t \notin pool[n].entries
  /\ pool' = [pool EXCEPT ![n] = AddTx(@, t)]
  /\ UNCHANGED <<utxo, tip, store, index, sent, restarts>>

\* The block a turn of _consensus_loop commits; an invalid proposal is dropped.
Proposes(b) ==
  /\ b = ProposedBlock(Validator)
  /\ BlockValid(b, tip[Validator], utxo[Validator])
  /\ b.txs = <<>> =>
       Cardinality({h \in DOMAIN store[Validator] : store[Validator][h].txs = <<>>})
         <= MaxEmptyBlocks

\* A turn of _consensus_loop: propose, validate, commit, index, broadcast.
Propose ==
  LET b == ProposedBlock(Validator) IN
  /\ Proposes(b)
  /\ Commit(Validator, b)
  /\ sent' = sent \cup {b}
  /\ UNCHANGED restarts

\* Slip: a block without transactions is ignored.
ReceiveBlock_SkipEmpty(n, b) ==
  /\ BlockValid(b, tip[n], utxo[n])
  /\ IF b.txs = <<>> THEN UNCHANGED <<pool, utxo, tip, store, index>> ELSE Commit(n, b)
  /\ UNCHANGED <<sent, restarts>>

\* process_block of a block that arrived; an invalid one changes nothing.
ReceiveBlock(n, b) ==
  /\ BlockValid(b, tip[n], utxo[n])
  /\ Commit(n, b)
  /\ UNCHANGED <<sent, restarts>>

Restart(n) ==
  /\ UNCHANGED <<store, index, sent>>
  /\ Restarted(n)

(***************************************************************************)
(* The process dies within a commit: the block is saved, it is indexed in  *)
(* part, and if it is a block of its own it was not broadcast.             *)
(***************************************************************************)
CrashInCommit(n, b) ==
  /\ IF n = Validator THEN Proposes(b) ELSE b \in sent /\ BlockValid(b, tip[n], utxo[n])
  /\ store' = [store EXCEPT ![n] = SaveBlock(@, b)]
  /\ \E torn \in TornIndexes(index[n], b) : index' = [index EXCEPT ![n] = torn]
  /\ Restarted(n)
  /\ UNCHANGED sent

Next ==
  \/ \E n \in Node, t \in Tx : Submit(n, t) \/ Post(n, t)
  \/ Propose
  \/ \E n \in Node : \E b \in sent : ReceiveBlock(n, b)
  \/ \E n \in Node : Restart(n)
  \/ \E n \in Node : \E b \in sent \cup {ProposedBlock(Validator)} : CrashInCommit(n, b)

Spec == Init /\ [][Next]_vars

-----------------------------------------------------------------------------
Height(n) == tip[n].height

\* The transaction lists a node's tip commits to, the genesis block's first.
History(n) == Hash(tip[n])

Confirmed(n) == UNION {ToSet(store[n][h].txs) : h \in DOMAIN store[n]}

Indexed(n) == {t \in Tx : index[n].height[t] > 0}

DisjointInputs(b) ==
  \A i, j \in 1 .. Len(b.txs) :
    i # j => ToSet(Inputs[b.txs[i]]) \cap ToSet(Inputs[b.txs[j]]) = {}

TypeOK ==
  /\ pool \in [Node -> Pools]
  /\ utxo \in [Node -> SUBSET Outpoints]
  /\ tip \in [Node -> Block]
  /\ store = [n \in Node |-> [h \in 0 .. Height(n) |-> store[n][h]]]
  /\ \A n \in Node : \A h \in 0 .. Height(n) : store[n][h] \in Block
  /\ index \in [Node -> Indexes]
  /\ sent \subseteq Block
  /\ restarts \in [Node -> Nat]

(* A node's block store is one chain, whatever crashes it went through:     *)
(* above the genesis block every block is linked to the one below, and the  *)
(* tip is on top, though save_block overwrites and knows nothing of links.  *)
StoreIsChain ==
  \A n \in Node :
    /\ store[n][0] = Genesis
    /\ store[n][Height(n)] = tip[n]
    /\ \A h \in 1 .. Height(n) : LinkValid(store[n][h], store[n][h - 1])

(* What a tip's hash commits to is what is stored below it.                 *)
HistoryIsStored ==
  \A n \in Node :
    /\ Len(History(n)) = Height(n) + 1
    /\ \A h \in 0 .. Height(n) : History(n)[h + 1] = store[n][h].txs

(* Every block that was broadcast is, and stays, in the validator's store.  *)
SentIsStored ==
  \A b \in sent : b.height \in DOMAIN store[Validator] /\ store[Validator][b.height] = b

(* Every other node has blocks of the validator's chain and no others.      *)
ValidatorLeads ==
  \A n \in Node : \A h \in DOMAIN store[n] :
    h \in DOMAIN store[Validator] /\ store[n][h] = store[Validator][h]

(* The invariant of replication: chains that crashes leave whole, grown by  *)
(* the validator alone, with nothing broadcast that it could forget.        *)
ChainInv ==
  TypeOK /\ StoreIsChain /\ HistoryIsStored /\ SentIsStored /\ ValidatorLeads

(* No two nodes ever store different blocks at one height, although the     *)
(* validator may die between saving a block and broadcasting it, and blocks *)
(* arrive late, twice or out of order.                                      *)
Agreement ==
  \A m, n \in Node : \A h \in DOMAIN store[m] \cap DOMAIN store[n] :
    store[m][h] = store[n][h]

(* While a node has not restarted, its UTXO set is what one application of  *)
(* each stored block to the funded ledger gives, although every block is    *)
(* applied to it twice, once by validate_block and once by commit_block.    *)
UtxoIsReplay ==
  \A n \in Node :
    restarts[n] = 0 =>
      utxo[n] = Along(ApplyBlock, Funded, [h \in 1 .. Height(n) |-> store[n][h]])

(* The same for every node: what a restarted node validates against is the  *)
(* state its chain determines.                                              *)
RestartKeepsLedger ==
  \A n \in Node :
    utxo[n] = Along(ApplyBlock, Funded, [h \in 1 .. Height(n) |-> store[n][h]])

(* The index never runs ahead of the chain: a transaction it lists is in    *)
(* the stored block of that height.  While a node has not restarted the     *)
(* index is the chain's: it lists every stored transaction, and its unspent *)
(* rows are the outputs of blocks that the node's UTXO set holds.           *)
IndexFollowsChain ==
  \A n \in Node :
    /\ \A t \in Indexed(n) :
         /\ index[n].height[t] \in DOMAIN store[n]
         /\ t \in ToSet(store[n][index[n].height[t]].txs)
    /\ restarts[n] = 0 =>
         /\ Indexed(n) = Confirmed(n)
         /\ {o \in index[n].unspent : Amount(o) # 0} = utxo[n] \ Funded

(* A transaction is in one block at most, at one place of it, and one that  *)
(* is confirmed validates nowhere its block is stored, although every API   *)
(* route puts it into a pool again, the pool then lists it twice or offers  *)
(* it when it holds it no longer, and blocks validate their transactions    *)
(* one by one.                                                              *)
ConfirmedOnce ==
  \A n \in Node :
    /\ \A g, h \in DOMAIN store[n] : \A i \in DOMAIN store[n][g].txs, j \in DOMAIN store[n][h].txs :
         store[n][g].txs[i] = store[n][h].txs[j] => g = h /\ i = j
    /\ \A t \in Confirmed(n) : ~TxValid(t, utxo[n])

(* A block whose transactions spend different outpoints creates no value:   *)
(* the UTXO set is worth no more after it than before.                      *)
DisjointBlockConserves ==
  [][\A n \in Node : tip'[n] # tip[n] /\ DisjointInputs(tip'[n]) =>
       Value(utxo'[n]) <= Value(utxo[n])]_vars

(* Of two transactions of a block that refer to one UTXO only one succeeds: *)
(* no stored block spends an outpoint twice.                                *)
BlockSpendsOnce == \A n \in Node : \A h \in DOMAIN store[n] : DisjointInputs(store[n][h])

(* The nodes together keep one chain that the validator extends and the     *)
(* others copy; a crash is no step of it, so no crash loses a block.        *)
R == INSTANCE ReplicatedChain WITH
  Replica <- Node, Leader <- Validator, First <- <<>>,
  chain <- [n \in Node |-> History(n)]

RefinesReplicatedChain == R!Spec
=============================================================================
