------------------------------- MODULE Offline ------------------------------
(***************************************************************************)
(* A device that pays while it is offline and synchronises with a peer:    *)
(* UTXOSyncView, TxCache and SyncEngine (offline/sync.py).                 *)
(*                                                                         *)
(* sync_with_peer is a coroutine: an action takes it from one answer of    *)
(* the peer to the next question, and everything else can happen while it  *)
(* waits.  The program above it (offline/sync.py:525 and the tests are all *)
(* there is) applies and caches a payment in one go, passes the header it  *)
(* was left with as local_tip, and reverts what a sync reported.           *)
(*                                                                         *)
(* The peer is a node that does not lose its pool; its chain only grows.   *)
(* Block h is blocks[h + 1], a list of transactions; block 0 funds the     *)
(* ledger.                                                                 *)
(***************************************************************************)
EXTENDS OfflineOps

CONSTANTS
  Own,          \* the transactions the device makes
  Foreign,      \* those others hand to the peer, another device of the owner included
  Threshold,    \* full_sync_threshold
  Window,       \* replay_window
  BatchSize,    \* BLOCK_BATCH_SIZE
  MaxRetry,     \* MAX_RETRY
  MaxSeq,       \* bound: sequence numbers
  MaxFaults,    \* bound: failed questions to the peer, restarts of the device
  MaxEmpty      \* bound: blocks without transactions

ASSUME OfflineAssumption ==
  /\ Own \subseteq Tx /\ Foreign \subseteq Tx
  /\ Alloc \notin Tx
  /\ Threshold \in Nat /\ Window \in Nat \ {0} /\ BatchSize \in Nat \ {0}
  /\ MaxRetry \in Nat \ {0}
  /\ MaxSeq \in Nat /\ MaxFaults \in Nat /\ MaxEmpty \in Nat

VARIABLES
  view,       \* UTXOSyncView
  rows,       \* the table offline_txs
  seqCounter, \* _seq_counter
  sync,       \* the running sync_with_peer, if any
  rejected,   \* rejected_txs of the last SyncResult
  localTip,   \* the height of the header the program passes as local_tip
  faults,     \* calls that failed, and restarts
  blocks,     \* the peer's chain
  peerPool    \* the peer's mempool

device == <<view, rows, seqCounter, sync, rejected, localTip>>
peer == <<blocks, peerPool>>
vars == <<device, faults, peer>>

NoTip == -1

Idle == [pc |-> "idle", common |-> NoTip, to |-> NoTip, todo |-> <<>>,
         valid |-> <<>>, reported |-> {}, attempt |-> 0, answer |-> "none"]

PeerTip == Len(blocks) - 1

\* The node's own replay of a block: no outputs of amount zero.
NodeApply(S, t) == IF t = Alloc THEN Funded ELSE ApplyTx(S, t)

\* The peer's UTXO set after block h.
UtxoAt(h) ==
  Along(LAMBDA S, b : Along(NodeApply, S, b), {}, SubSeq(blocks, 1, h + 1))

PeerUtxo == UtxoAt(PeerTip)

OnChain(t) == \E h \in 1 .. Len(blocks) : t \in ToSet(blocks[h])

Init ==
  /\ view = NewView(Funded)
  /\ rows = [t \in {} |-> {}]
  /\ seqCounter = 0
  /\ sync = Idle
  /\ rejected = {}
  /\ localTip = 0
  /\ faults = 0
  /\ blocks = <<<<Alloc>>>>
  /\ peerPool = {}

-----------------------------------------------------------------------------
(***************************************************************************)
(* The program around the engine.                                          *)
(***************************************************************************)

\* apply_local_tx, and cache_tx if it did not raise.
Pay(t) ==
  /\ seqCounter < MaxSeq
  /\ CanApply(view, t)
  /\ view' = Applied(view, t)
  /\ rows' = Cached(rows, t, seqCounter + 1)
  /\ seqCounter' = seqCounter + 1
  /\ UNCHANGED <<sync, rejected, localTip, faults, peer>>

\* revert_on_conflict for a transaction that was reported.
Revert(t) ==
  /\ t \in rejected
  /\ t \in ToSet(view.applied)
  /\ view' = Reverted(view, t)
  /\ UNCHANGED <<rows, seqCounter, sync, rejected, localTip, faults, peer>>

\* update_status(CONFIRMED), once the transaction has been seen in a block.
Confirm(t) ==
  /\ t \in Unsettled(rows)
  /\ OnChain(t)
  /\ rows' = WithStatus(rows, t, "CONFIRMED")
  /\ UNCHANGED <<view, seqCounter, sync, rejected, localTip, faults, peer>>

\* purge_expired; deleting several rows at once is deleting them one by one.
Purge(t) ==
  /\ t \in DOMAIN rows
  /\ rows' = Purged(rows, {t})
  /\ UNCHANGED <<view, seqCounter, sync, rejected, localTip, faults, peer>>

Fault == faults < MaxFaults /\ faults' = faults + 1

(***************************************************************************)
(* The process starts again: the table is a file, the rest is gone.  The   *)
(* counter starts at the time of day, which is above the numbers in the    *)
(* table unless they grew by more than one a second.                       *)
(***************************************************************************)
Restart ==
  /\ Fault
  /\ view' = NewView({})
  /\ seqCounter' \in {0, seqCounter}
  /\ sync' = Idle
  /\ rejected' = {}
  /\ localTip' = NoTip
  /\ UNCHANGED <<rows, peer>>

-----------------------------------------------------------------------------
(***************************************************************************)
(* sync_with_peer.                                                         *)
(***************************************************************************)
\* The SyncResult: its new tip is that of the blocks downloaded, if there were any.
Return(s, reported) ==
  /\ sync' = Idle
  /\ rejected' = reported
  /\ localTip' = IF s.to = NoTip THEN localTip ELSE s.to

(***************************************************************************)
(* Phase 1.  A tip that the peer has too is the ancestor.  Otherwise the   *)
(* binary search compares the peer's headers with those made up by         *)
(* _get_local_header_at, which match none, and ends at height 0.           *)
(***************************************************************************)
StartSync ==
  /\ sync.pc = "idle"
  /\ sync' = [Idle EXCEPT !.pc = "download",
                          !.common = IF localTip \in {NoTip, PeerTip} THEN localTip ELSE 0]
  /\ UNCHANGED <<view, rows, seqCounter, rejected, localTip, faults, peer>>

\* The start of phase 6: get_pending, and nothing to do if it is empty.
BeginSubmit(s) ==
  \/ Unsettled(rows) = {} /\ Return(s, {})
  \/ /\ Unsettled(rows) # {}
     /\ \E order \in PendingOrders(rows) :
          sync' = [s EXCEPT !.pc = "filter", !.todo = order]
     /\ UNCHANGED <<rejected, localTip>>

(***************************************************************************)
(* Phases 2 to 5 up to the next question: the blocks after the ancestor,   *)
(* cut short by an empty batch; then either the snapshot is asked for, or  *)
(* the blocks are replayed, on an empty UTXO set, into the view.           *)
(***************************************************************************)
Download(to) ==
  LET missing == SubSeq(blocks, sync.common + 2, to + 1)
  IN  /\ sync.pc = "download"
      /\ to \in sync.common .. PeerTip
      /\ IF to = PeerTip THEN UNCHANGED faults
         ELSE Fault /\ (to - sync.common) % BatchSize = 0
      /\ IF missing = <<>>
         THEN BeginSubmit(sync) /\ UNCHANGED view
         ELSE IF Len(missing) > Threshold /\ sync.common # NoTip
         THEN /\ sync' = [sync EXCEPT !.pc = "snapshot", !.to = to]
              /\ UNCHANGED <<view, rejected, localTip>>
         ELSE /\ view' = Synced(view, Replayed(missing))
              /\ BeginSubmit([sync EXCEPT !.to = to])
      /\ UNCHANGED <<rows, seqCounter, peer>>

\* Phase 4's snapshot goes into the view, and phase 5 replaces it by the window.
Snapshot ==
  LET missing == SubSeq(blocks, sync.common + 2, sync.to + 1)
      window == SubSeq(missing, Max({1, Len(missing) - Window + 1}), Len(missing))
  IN  /\ sync.pc = "snapshot"
      /\ view' = Synced(Synced(view, UtxoAt(sync.common)), Replayed(window))
      /\ BeginSubmit(sync)
      /\ UNCHANGED <<rows, seqCounter, faults, peer>>

\* A question of phases 1 to 4 fails: SyncError, and nothing has changed.
Interrupt ==
  /\ sync.pc \in {"download", "snapshot"}
  /\ Fault
  /\ sync' = Idle
  /\ UNCHANGED <<view, rows, seqCounter, rejected, localTip, peer>>

\* filter_valid_offline_txs done: on to the submissions, if any is left.
Filtered(s) ==
  IF s.todo # <<>> THEN sync' = s /\ UNCHANGED <<rejected, localTip>>
  ELSE IF s.valid = <<>> THEN Return(s, s.reported)
  ELSE /\ sync' = [s EXCEPT !.pc = "submit", !.todo = s.valid]
       /\ UNCHANGED <<rejected, localTip>>

\* get_utxo_exists for every input.
InputsExist(t) == Ins(t) \subseteq PeerUtxo

\* One round of filter_valid_offline_txs; the row is not touched.
Filter ==
  LET t == Head(sync.todo)
      rest == [sync EXCEPT !.todo = Tail(@)]
  IN  /\ sync.pc = "filter"
      /\ IF InputsExist(t) THEN Filtered([rest EXCEPT !.valid = Append(@, t)])
         ELSE Filtered([rest EXCEPT !.reported = @ \cup {t}])
      /\ UNCHANGED <<view, rows, seqCounter, faults, peer>>

\* The question fails, which counts as an input that does not exist.
FilterFails ==
  /\ sync.pc = "filter"
  /\ Fault
  /\ Filtered([sync EXCEPT !.todo = Tail(@), !.reported = @ \cup {Head(sync.todo)}])
  /\ UNCHANGED <<view, rows, seqCounter, peer>>

(***************************************************************************)
(* What the peer answers.  submit_transaction of node.py validates against *)
(* the UTXO set only; POST /tx and submit-batch take anything.  add_tx of  *)
(* what the pool has already answers False, which none of them looks at.   *)
(***************************************************************************)
Answers(t) == {"accepted"} \cup (IF TxValid(t, PeerUtxo) THEN {} ELSE {"refused"})

\* submit_tx reaches the peer: what it accepts is in its pool.
Deliver ==
  LET t == Head(sync.todo)
  IN  /\ sync.pc = "submit" /\ sync.answer = "none" /\ sync.attempt < MaxRetry
      /\ \E answer \in Answers(t) :
           /\ sync' = [sync EXCEPT !.answer = answer]
           /\ peerPool' = IF answer = "accepted" THEN peerPool \cup {t} ELSE peerPool
      /\ UNCHANGED <<view, rows, seqCounter, rejected, localTip, faults, blocks>>

\* The call raises, before the peer got it or after it answered; it is made again.
Retry ==
  /\ sync.pc = "submit" /\ sync.attempt < MaxRetry
  /\ sync' = [sync EXCEPT !.attempt = @ + 1, !.answer = "none"]
  /\ UNCHANGED <<view, rows, seqCounter, rejected, localTip, faults, peer>>

\* Slip: the retries are over, and the transaction counts as handed over.
Conclusion_Hopeful(s) == IF s.answer = "refused" THEN "REJECTED" ELSE "PENDING_NETWORK"

\* What phase 6 writes for the answer, or for want of one.
Conclusion(s) == IF s.answer = "accepted" THEN "PENDING_NETWORK" ELSE "REJECTED"

\* The rest of a round of phase 6, after _submit_with_retry has returned.
Conclude ==
  LET t == Head(sync.todo)
      reported == IF Conclusion(sync) = "REJECTED" THEN sync.reported \cup {t} ELSE sync.reported
      rest == [sync EXCEPT !.todo = Tail(@), !.reported = reported,
                           !.attempt = 0, !.answer = "none"]
  IN  /\ sync.pc = "submit"
      /\ sync.answer # "none" \/ sync.attempt = MaxRetry
      /\ rows' = WithStatus(rows, t, Conclusion(sync))
      /\ IF rest.todo = <<>> THEN Return(rest, reported)
         ELSE sync' = rest /\ UNCHANGED <<rejected, localTip>>
      /\ UNCHANGED <<view, seqCounter, faults, peer>>

-----------------------------------------------------------------------------
(***************************************************************************)
(* The peer.                                                               *)
(***************************************************************************)

\* submit_transaction of one that did not come from the device.
Submit(t) ==
  /\ t \in Foreign \ peerPool
  /\ TxValid(t, PeerUtxo)
  /\ peerPool' = peerPool \cup {t}
  /\ UNCHANGED <<device, faults, blocks>>

\* A block with the pool, which fits; an invalid one in it holds every block up.
Mine ==
  /\ peerPool # {}
  /\ \A t \in peerPool : TxValid(t, PeerUtxo)
  /\ blocks' = Append(blocks, SetToSeq(peerPool))
  /\ peerPool' = {}
  /\ UNCHANGED <<device, faults>>

MineEmpty ==
  /\ Cardinality({h \in 1 .. Len(blocks) : blocks[h] = <<>>}) < MaxEmpty
  /\ blocks' = Append(blocks, <<>>)
  /\ UNCHANGED <<device, faults, peerPool>>

SyncStep ==
  \/ StartSync
  \/ Download(PeerTip)
  \/ Snapshot
  \/ Filter
  \/ Deliver
  \/ Conclude

Next ==
  \/ \E t \in Own : Pay(t) \/ Revert(t) \/ Confirm(t) \/ Purge(t)
  \/ Restart
  \/ SyncStep
  \/ \E to \in NoTip .. PeerTip - 1 : Download(to)
  \/ Interrupt
  \/ FilterFails
  \/ Retry
  \/ \E t \in Tx : Submit(t)
  \/ Mine
  \/ MineEmpty

Spec == Init /\ [][Next]_vars

\* The program synchronises again and again, and the peer's proposer works.
FairSpec == Spec /\ WF_vars(SyncStep) /\ WF_vars(Mine)

-----------------------------------------------------------------------------
Syncs ==
  [pc : {"idle", "download", "snapshot", "filter", "submit"},
   common : Nat \cup {NoTip}, to : Nat \cup {NoTip}, todo : Seq(Own), valid : Seq(Own),
   reported : SUBSET Own, attempt : 0 .. MaxRetry, answer : {"none", "accepted", "refused"}]

\* Types, and when a running synchronisation has work in its hands.
TypeOK ==
  /\ view \in Views
  /\ DOMAIN rows \subseteq Own
  /\ \A t \in DOMAIN rows : rows[t] \in [status : Statuses, seq : Nat]
  /\ seqCounter \in Nat /\ faults \in Nat
  /\ sync \in Syncs
  /\ sync.pc \in {"filter", "submit"} <=> sync.todo # <<>>
  /\ rejected \subseteq Own
  /\ localTip \in Nat \cup {NoTip}
  /\ blocks \in Seq(Seq(Tx \cup {Alloc}))
  /\ peerPool \subseteq Tx

(***************************************************************************)
(* The local layers of the view are those of the local transactions it     *)
(* lists, no two of which spend the same output, whatever order of         *)
(* applying, reverting and synchronising led there (offline/utxo_view.py). *)
(***************************************************************************)
LayersMatchApplied == Layered(view)

(***************************************************************************)
(* After sync_with_chain a local transaction is only kept if what it       *)
(* spends is in the new chain layer or was created by a local transaction  *)
(* before it: no payment rests on one that was dropped.                    *)
(***************************************************************************)
SyncGrounds == [][view'.chain # view.chain => Grounded(view')]_vars

(***************************************************************************)
(* A row that says PENDING_NETWORK is a transaction the peer has, in its   *)
(* pool or in a block, through lost answers, retries, purges and a second  *)
(* synchronisation that submits it again (offline/sync.py, phase 6).       *)
(***************************************************************************)
OnNetwork(t) == t \in peerPool \/ OnChain(t)

PendingIsOnNetwork ==
  \A t \in DOMAIN rows : rows[t].status = "PENDING_NETWORK" => OnNetwork(t)

(***************************************************************************)
(* Again and again there is a moment when every cached payment is settled: *)
(* it is in a block, or a transaction that spends one of its inputs is, or *)
(* its row says that it was rejected or is gone, or it spends what a       *)
(* payment that fared so was to create.                                    *)
(***************************************************************************)
Lost(t) ==
  \/ t \notin DOMAIN rows
  \/ rows[t].status = "REJECTED"
  \/ \E u \in Tx \ {t} : OnChain(u) /\ Ins(u) \cap Ins(t) # {}

Settled(t) ==
  \/ OnChain(t)
  \/ Lost(t)
  \/ \E u \in Own : Lost(u) /\ Ins(t) \cap OutpointsOf(u) # {}

PaymentsSettle ==
  []<>(\A t \in DOMAIN rows : rows[t].status = "CACHED" => Settled(t))

(***************************************************************************)
(* utxo_view.py:55 calls the chain layer the last known canonical UTXO set *)
(* from chain sync: after a synchronisation it is the ledger's at the      *)
(* height the program was left with.                                       *)
(***************************************************************************)
ViewIsLedger ==
  sync.pc = "idle" /\ localTip # NoTip => view.chain = UtxoAt(localTip)

\* A row that says REJECTED is not a transaction that the network took.
RejectedIsOffNetwork ==
  \A t \in DOMAIN rows : rows[t].status = "REJECTED" => ~OnNetwork(t)
=============================================================================
