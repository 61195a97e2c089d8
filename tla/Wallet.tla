------------------------------- MODULE Wallet -------------------------------
(***************************************************************************)
(* A wallet that pays while it is offline: the outputs it packs, the       *)
(* transactions it makes from them (wallet/tx_creator.py), the queue       *)
(* offline_txs and its synchronisation (wallet/offline_mode.py), as the    *)
(* commands of cli/main.py use them.                                       *)
(*                                                                         *)
(* sync_when_online goes through the queue record by record and asks the   *)
(* node two questions for each; the node moves on between them, and a call *)
(* may fail before or after it has reached the node.  The queue is on      *)
(* disk.  The node takes what its chain allows, whatever its pool holds    *)
(* (node.py, submit_transaction); its blocks hold the pool, which fits;    *)
(* it loses the pool when it restarts.                                     *)
(*                                                                         *)
(* The hash of a transaction leaves signatures out, so a transaction is    *)
(* what is paid and the outputs that pay it.                               *)
(***************************************************************************)
EXTENDS Integers, Sequences, FiniteSets, FiniteSetsExt, SequencesExt

CONSTANTS
  Coin, Value,      \* the outputs of the address and their amounts
  Payment, Need,    \* what can be asked for; amount plus fee
  MaxUtxos,         \* max_utxos of a package
  MaxSeq,           \* bound: sequence numbers
  MaxFaults         \* bound: failing calls, cut synchronisations, node restarts

ASSUME WalletAssumption ==
  /\ Value \in [Coin -> Nat \ {0}] /\ Need \in [Payment -> Nat \ {0}]
  /\ MaxUtxos \in Nat /\ MaxSeq \in Nat /\ MaxFaults \in Nat

VARIABLES
  package,   \* offline_utxo_snapshot
  rows,      \* offline_txs, in the order of creation
  counter,   \* _sequence_counter
  sync,      \* the running sync_when_online
  taken,     \* outputs spent on the chain
  mined,     \* transactions of this wallet on the chain
  nodePool,  \* transactions of this wallet in the pool of the node
  lost,      \* whether the node ever lost its pool
  faults     \* failing calls, cut synchronisations, node restarts

device == <<package, rows, counter, sync>>
node == <<taken, mined, nodePool, lost>>
walletVars == <<device, node, faults>>

OfflineTx == [pay : Payment, ins : SUBSET Coin]
Status == {"draft", "cached", "pending", "confirmed", "conflicted", "rejected"}
Idle == [todo |-> <<>>, pc |-> "check"]

WalletTypeOK ==
  /\ package \subseteq Coin
  /\ rows \in Seq([tx : OfflineTx, status : Status, seq : 0 .. MaxSeq])
  /\ counter \in 0 .. MaxSeq
  /\ sync.todo \in Seq(OfflineTx) /\ sync.pc \in {"check", "submit"}
  /\ taken \subseteq Coin /\ mined \subseteq OfflineTx /\ nodePool \subseteq OfflineTx
  /\ lost \in BOOLEAN /\ faults \in 0 .. MaxFaults

WalletInit ==
  /\ package = {} /\ rows = <<>> /\ counter = 0 /\ sync = Idle
  /\ taken = {} /\ mined = {} /\ nodePool = {} /\ lost = FALSE
  /\ faults = 0

-----------------------------------------------------------------------------
Total(S) == MapThenSumSet(LAMBDA c : Value[c], S)

Ascending(S) == SetToSortSeq(S, LAMBDA c, d : Value[c] < Value[d])

\* select_utxos, smallest first: outputs are taken until they suffice.
Selected(S, need) ==
  LET s == Ascending(S)
      First(k) == {s[i] : i \in 1 .. k}
  IN  First(Min({k \in 1 .. Len(s) : Total(First(k)) >= need}))

Known(t) == \E i \in DOMAIN rows : rows[i].tx = t
RowOf(t) == CHOOSE i \in DOMAIN rows : rows[i].tx = t

\* _store_offline_tx: a record with this hash is overwritten in its place.
Stored(t, status, seq) ==
  LET r == [tx |-> t, status |-> status, seq |-> seq]
  IN  IF Known(t) THEN [rows EXCEPT ![RowOf(t)] = r] ELSE Append(rows, r)

\* UPDATE offline_txs SET status, where the hash is that of t
Marked(t, status) ==
  [i \in DOMAIN rows |-> IF rows[i].tx = t THEN [rows[i] EXCEPT !.status = status] ELSE rows[i]]

\* Slip: a record that the node once accepted is not looked at again.
Queued_NotPending == {"draft", "cached", "conflicted"}

Queued == {"draft", "cached", "pending", "conflicted"}

\* get_pending_queue: by sequence number, then by creation.
PendingQueue ==
  LET s == SelectSeq(rows, LAMBDA r : r.status \in Queued)
      Before(i, j) == s[i].seq < s[j].seq \/ (s[i].seq = s[j].seq /\ i < j)
      order == SetToSortSeq(DOMAIN s, Before)
  IN  [k \in DOMAIN order |-> s[order[k]].tx]

\* Commands run when no synchronisation does.
Free == sync = Idle

\* offline prepare-utxos: refresh the cache of outputs from the node, pack
\* the largest.
PrepareUtxos ==
  /\ Free
  /\ LET s == Reverse(Ascending(Coin \ taken))
     IN  package' = {s[i] : i \in 1 .. Min({MaxUtxos, Len(s)})}
  /\ UNCHANGED <<rows, counter, sync, node, faults>>

\* create_offline_transaction: it selects from the package, whatever earlier
\* offline transactions took.
CreateOffline(p) ==
  /\ Free
  /\ package # {} /\ Total(package) >= Need[p]
  /\ rows' = Stored([pay |-> p, ins |-> Selected(package, Need[p])], "draft", 0)
  /\ UNCHANGED <<package, counter, sync, node, faults>>

\* queue_for_sync, for a transaction that was made before.
QueueForSync(t) ==
  /\ Free
  /\ Known(t) /\ counter < MaxSeq
  /\ counter' = counter + 1
  /\ rows' = Stored(t, "cached", counter + 1)
  /\ UNCHANGED <<package, sync, node, faults>>

\* clear_queue
ClearQueue ==
  /\ Free
  /\ rows' = <<>>
  /\ counter' = 0
  /\ UNCHANGED <<package, sync, node, faults>>

\* mark_confirmed, by a caller that saw the transaction on the chain.
MarkConfirmed(t) ==
  /\ Free
  /\ Known(t) /\ t \in mined
  /\ rows' = Marked(t, "confirmed")
  /\ UNCHANGED <<package, counter, sync, node, faults>>

\* The process ends: every command is one of its own, and a synchronisation
\* may be cut short.
Restart ==
  /\ Free \/ faults < MaxFaults
  /\ faults' = IF Free THEN faults ELSE faults + 1
  /\ counter' = 0
  /\ sync' = Idle
  /\ UNCHANGED <<package, rows, node>>

-----------------------------------------------------------------------------
(***************************************************************************)
(* sync_when_online.                                                       *)
(***************************************************************************)
SyncStart ==
  /\ Free
  /\ PendingQueue # <<>>
  /\ sync' = [todo |-> PendingQueue, pc |-> "check"]
  /\ UNCHANGED <<package, rows, counter, node, faults>>

NextRecord == [todo |-> Tail(sync.todo), pc |-> "check"]

\* utxo_exists, for every input.
Exists(t) == t.ins \cap taken = {}

SyncCheck ==
  /\ sync.todo # <<>> /\ sync.pc = "check"
  /\ LET t == Head(sync.todo)
     IN  IF Exists(t) THEN /\ sync' = [sync EXCEPT !.pc = "submit"]
                           /\ UNCHANGED rows
         ELSE /\ rows' = Marked(t, "conflicted")
              /\ sync' = NextRecord
  /\ UNCHANGED <<package, counter, node, faults>>

\* submit_transaction of node.py validates against the chain's outputs only;
\* that add_tx may know the hash already makes no difference to the answer.
NodeAccepts(t) == t.ins \cap taken = {}

\* Slip: any answer counts as acceptance.
Answer_Always(accepted) == "pending"

Answer(accepted) == IF accepted THEN "pending" ELSE "rejected"

SyncSubmit ==
  /\ sync.todo # <<>> /\ sync.pc = "submit"
  /\ LET t == Head(sync.todo)
     IN  /\ rows' = Marked(t, Answer(NodeAccepts(t)))
         /\ nodePool' = IF NodeAccepts(t) THEN nodePool \cup {t} ELSE nodePool
  /\ sync' = NextRecord
  /\ UNCHANGED <<package, counter, taken, mined, lost, faults>>

\* submit_transaction raises; the node may have accepted before that.
SyncFailure ==
  /\ sync.todo # <<>> /\ sync.pc = "submit"
  /\ faults < MaxFaults
  /\ faults' = faults + 1
  /\ LET t == Head(sync.todo)
     IN  /\ rows' = Marked(t, "rejected")
         /\ nodePool' \in {nodePool, IF NodeAccepts(t) THEN nodePool \cup {t} ELSE nodePool}
  /\ sync' = NextRecord
  /\ UNCHANGED <<package, counter, taken, mined, lost>>

-----------------------------------------------------------------------------
(***************************************************************************)
(* The node.                                                               *)
(***************************************************************************)
\* Some transaction of the pool has lost an input: a block with it is invalid.
PoolIsStale == \E t \in nodePool : t.ins \cap taken # {}

\* Each is valid before the block, which is all that is asked of a block:
\* two of them may spend the same output.
Mine ==
  /\ nodePool # {} /\ ~ PoolIsStale
  /\ taken' = taken \cup UNION {t.ins : t \in nodePool}
  /\ mined' = mined \cup nodePool
  /\ nodePool' = {}
  /\ UNCHANGED <<device, lost, faults>>

\* Another device with the same keys spends an output.
SpentElsewhere(c) ==
  /\ c \notin taken
  /\ taken' = taken \cup {c}
  /\ UNCHANGED <<device, mined, nodePool, lost, faults>>

NodeRestart ==
  /\ faults < MaxFaults /\ nodePool # {}
  /\ faults' = faults + 1
  /\ nodePool' = {} /\ lost' = TRUE
  /\ UNCHANGED <<device, taken, mined>>

SyncStep == SyncStart \/ SyncCheck \/ SyncSubmit

WalletNext ==
  \/ PrepareUtxos
  \/ \E p \in Payment : CreateOffline(p)
  \/ \E i \in DOMAIN rows : QueueForSync(rows[i].tx) \/ MarkConfirmed(rows[i].tx)
  \/ ClearQueue
  \/ Restart
  \/ SyncStep
  \/ SyncFailure
  \/ Mine
  \/ \E c \in Coin : SpentElsewhere(c)
  \/ NodeRestart

WalletSpec == WalletInit /\ [][WalletNext]_walletVars

\* The owner synchronises again and again, and the node makes blocks.
WalletFairSpec ==
  /\ WalletSpec
  /\ WF_walletVars(SyncStep)
  /\ WF_walletVars(Mine)

-----------------------------------------------------------------------------
StatusIs(t, S) == \E i \in DOMAIN rows : rows[i].tx = t /\ rows[i].status \in S

Accepted == {"pending", "confirmed"}

\* Offline transactions are made from the same package whatever earlier ones
\* took, and the node accepts two that spend the same output.  As long as it
\* keeps its pool, which fits in a block, neither is left behind: both wait in
\* the pool or both have been mined, and an accepted one is never anywhere
\* else (offline_mode.py:315, 513; node.py:637).
AcceptedTogether ==
  ~lost => \A i, j \in DOMAIN rows :
    LET pair == {rows[i].tx, rows[j].tx}
    IN  /\ rows[i].status \in Accepted /\ rows[j].status \in Accepted
        /\ rows[i].tx.ins \cap rows[j].tx.ins # {}
        => pair \subseteq nodePool \/ pair \subseteq mined

\* A queued transaction is not left in between, also when the node forgot it
\* after accepting it: it reaches the chain, or loses an input, or leaves the
\* queue with a status the owner sees (offline_mode.py get_pending_queue,
\* sync_when_online).  Only a pool that holds a transaction without its input
\* may keep it waiting, for as long as the node runs.
QueuedSettles ==
  \A p \in Payment, S \in SUBSET Coin :
    LET t == [pay |-> p, ins |-> S]
    IN  StatusIs(t, {"cached", "pending"}) ~>
          \/ t.ins \cap taken # {}
          \/ ~StatusIs(t, {"cached", "pending"})
          \/ PoolIsStale

\* "Conflict detection and resolution for double-spends" (offline_mode.py:10):
\* two transactions that spend the same output are not both accepted.
AcceptedAreCompatible ==
  ~lost => \A i, j \in DOMAIN rows :
    i # j /\ rows[i].status \in Accepted /\ rows[j].status \in Accepted
      => rows[i].tx.ins \cap rows[j].tx.ins = {}
=============================================================================
