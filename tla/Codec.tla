------------------------------- MODULE Codec -------------------------------
(***************************************************************************)
(* What becomes of transactions, blocks, messages, parameters, UTXOs and   *)
(* accounts on their way through dictionaries, the schemas of the API, the *)
(* frames of the network, rows of the database, files, QR codes and NFC.   *)
(*                                                                         *)
(* Bytes are <<"bytes", x>>, the same in hexadecimal <<"hex", x>>; a       *)
(* dictionary is a function on its keys, and its JSON text is left out.    *)
(* zk_proof is <<>> or <<p>>.  A conversion that may raise yields a set,   *)
(* empty when it raises.                                                   *)
(***************************************************************************)
EXTENDS Sorting, Integers

CONSTANTS QrMax, NfcMax  \* 2953 and 2048 - 12 bytes

-----------------------------------------------------------------------------
hex(b) == <<"hex", b[2]>>
fromhex(h) == <<"bytes", h[2]>>

Each(Op(_), s) == [i \in DOMAIN s |-> Op(s[i])]
With(Op(_), r, F) == [f \in DOMAIN r |-> IF f \in F THEN Op(r[f]) ELSE r[f]]

InputBytes  == {"unlock_script"}
OutputBytes == {"lock_script", "metadata"}
ProofBytes  == {"proof_data", "public_inputs"}
HeaderBytes == {"extra_data"}

(* The byte fields of a transaction, under Op. *)
OnBytes(Op(_), tx) ==
  [tx EXCEPT !.inputs    = Each(LAMBDA i : With(Op, i, InputBytes), @),
             !.outputs   = Each(LAMBDA o : With(Op, o, OutputBytes), @),
             !.extra     = Op(@),
             !.witnesses = Each(Op, @),
             !.zk_proof  = Each(LAMBDA p : With(Op, p, ProofBytes), @)]

(* to_dict leaves the key zk_proof out when there is no proof. *)
TxToDict(tx) ==
  LET d == OnBytes(hex, tx)
  IN  [f \in {f \in DOMAIN d : f = "zk_proof" => d[f] # <<>>} |-> d[f]]

TxFromDict(d) ==
  OnBytes(fromhex, [f \in DOMAIN d \cup {"zk_proof"} |-> IF f \in DOMAIN d THEN d[f] ELSE <<>>])

(* TransactionSchema: amounts, indices and lock times below 0 are refused. *)
TxFromCore(tx) ==
  {OnBytes(hex, t) : t \in {t \in {tx} :
     /\ t.lock_time >= 0
     /\ \A i \in DOMAIN t.inputs : t.inputs[i].output_index >= 0
     /\ \A o \in DOMAIN t.outputs : t.outputs[o].amount >= 0}}

TxToCore(s) == OnBytes(fromhex, s)

-----------------------------------------------------------------------------
(***************************************************************************)
(* Headers and blocks.  Making a header reads the clock when its timestamp *)
(* is 0; making a block sets the count of its header.  The hash leaves the *)
(* signature out.                                                          *)
(***************************************************************************)
NewHeader(h, now) == [h EXCEPT !.timestamp = IF @ = 0 THEN now ELSE @]

NewBlock(h, txs) == [header |-> [h EXCEPT !.tx_count = Len(txs)], transactions |-> txs]

header_hash(h) == [f \in DOMAIN h \ {"signature"} |-> With(hex, h, HeaderBytes)[f]]

BlockToDict(b) ==
  [header |-> With(hex, b.header, HeaderBytes), body |-> Each(TxToDict, b.transactions)]

BlockFromDict(d, now) ==
  NewBlock(NewHeader(With(fromhex, d.header, HeaderBytes), now), Each(TxFromDict, d.body))

BlockFromCore(b) ==
  IF b.header.height < 0 \/ \E i \in DOMAIN b.transactions : TxFromCore(b.transactions[i]) = {}
  THEN {}
  ELSE {[header       |-> With(hex, b.header, HeaderBytes),
         transactions |-> Each(LAMBDA t : CHOOSE s \in TxFromCore(t) : TRUE, b.transactions)]}

BlockToCore(s, now) ==
  NewBlock(NewHeader(With(fromhex, s.header, HeaderBytes), now), Each(TxToCore, s.transactions))

(* A row of the table of blocks is read back from its two JSON columns. *)
BlockRow(b) ==
  [height |-> b.header.height, hash |-> header_hash(b.header),
   prev_hash |-> b.header.prev_block_hash, timestamp |-> b.header.timestamp,
   tx_count |-> b.header.tx_count,
   header_json |-> BlockToDict(b).header, body_json |-> BlockToDict(b).body]

RowToBlock(row, now) ==
  BlockFromDict([header |-> row.header_json, body |-> row.body_json], now)

-----------------------------------------------------------------------------
(***************************************************************************)
(* Messages.  A node frames with msgpack when the library is there, with   *)
(* JSON when not, and reads a msgpack frame only when it has the library.  *)
(***************************************************************************)
MessageBytes == {"payload", "signature"}

NewMessage(m) ==
  [m EXCEPT !.msg_id = IF @ = <<>> THEN <<m.type, m.timestamp, m.payload>> ELSE @]

to_bytes(m, packs) ==
  IF packs THEN [magic |-> "BCSM", version |-> 1, content |-> m]
  ELSE [magic |-> "BCSJ", version |-> 1, content |-> With(hex, m, MessageBytes)]

from_bytes(f, packs) ==
  CASE f.version = 1 /\ f.magic = "BCSM" /\ packs -> {NewMessage(f.content)}
    [] f.version = 1 /\ f.magic = "BCSJ"          ->
         {NewMessage(With(fromhex, f.content, MessageBytes))}
    [] OTHER                                      -> {}

(* make_tx_new and make_block_new. *)
MessageOf(type, dict, from, now) ==
  NewMessage([type |-> type, payload |-> <<"bytes", dict>>, from_addr |-> from,
              timestamp |-> now, signature |-> <<"bytes", "">>, msg_id |-> <<>>])

-----------------------------------------------------------------------------
(***************************************************************************)
(* TxExporter.  size is the length of the transaction's JSON.  A QR code   *)
(* is its base64 without the padding, whose length the importer makes good.*)
(***************************************************************************)
Base64Len(size) == (4 * size + 2) \div 3

\* Slip: as much padding as there is left over.
FullLength_Leftover(n) == n + (n % 4)

FullLength(n) == LET padding == 4 - (n % 4) IN IF padding # 4 THEN n + padding ELSE n

export_to_qr(tx, size) ==
  IF size > QrMax THEN {} ELSE {[length |-> Base64Len(size), text |-> TxToDict(tx)]}

import_from_qr(qr) == {TxFromDict(q.text) : q \in {q \in {qr} : FullLength(q.length) % 4 = 0}}

(* The checksum of a text stands for the text. *)
export_to_nfc(tx, size) ==
  IF size > NfcMax THEN {}
  ELSE {[magic |-> "BCS1", len |-> size, text |-> TxToDict(tx), size |-> size,
         crc |-> <<"crc", TxToDict(tx)>>]}

import_from_nfc(p) ==
  {TxFromDict(q.text) :
     q \in {q \in {p} : q.magic = "BCS1" /\ q.len = q.size /\ q.crc = <<"crc", q.text>>}}

export_to_file(txs) == [version |-> 1, count |-> Len(txs), transactions |-> Each(TxToDict, txs)]
import_from_file(f) == Each(TxFromDict, f.transactions)

-----------------------------------------------------------------------------
(***************************************************************************)
(* SystemParameters: validators are a tuple, a list in JSON.  A history is *)
(* sorted by height when it is loaded; without a file it is the default.   *)
(***************************************************************************)
ParamsToDict(p) == [p EXCEPT !.validators = <<"list", @[2]>>]
ParamsFromDict(d) == [d EXCEPT !.validators = <<"tuple", @[2]>>]

ByHeight(history) == StableSort(history, LAMBDA r, s : r.height < s.height)

NewGovernance(history, genesis) ==
  IF history = <<>> THEN <<[height |-> 0, params |-> genesis, change_reason |-> "genesis"]>>
  ELSE ByHeight(history)

SaveHistory(g) == Each(LAMBDA rec : With(ParamsToDict, rec, {"params"}), g)

LoadHistory(file, genesis) ==
  NewGovernance(Each(LAMBDA d : With(ParamsFromDict, d, {"params"}), file), genesis)

-----------------------------------------------------------------------------
(* UTXO, in a snapshot and in UTXOSchema. *)
UtxoEncoded(u) == With(hex, u, OutputBytes)
UtxoDecoded(d) == With(fromhex, d, OutputBytes)

(***************************************************************************)
(* AccountState: an available balance of 0 is taken for one not given.     *)
(***************************************************************************)
NewAccount(a) ==
  [a EXCEPT !.n_available =
     IF @ # 0 \/ (a.n_balance = 0 /\ a.n_locked = 0) THEN @
     ELSE IF a.n_balance > a.n_locked THEN a.n_balance - a.n_locked ELSE 0]

UpdateAccount(a, fields) ==
  NewAccount([f \in DOMAIN a |-> IF f \in DOMAIN fields THEN fields[f] ELSE a[f]])

CloneAccounts(states) == [addr \in DOMAIN states |-> NewAccount(states[addr])]
=============================================================================
