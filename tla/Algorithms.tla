----------------------------- MODULE Algorithms -----------------------------
(***************************************************************************)
(* The repository's pure algorithms, each run once on an input chosen at   *)
(* the start, and what their answers have to agree with; and the API's     *)
(* limit on the rate (Intake), request by request under a configuration    *)
(* chosen at the start.                                                    *)
(***************************************************************************)
EXTENDS Script, Merkle, Payments, Codec, Intake

CONSTANTS
  ScriptTasks, MerkleTasks, BuildTasks, ConflictTasks,
  RangeTasks, TransferTasks, RatioTasks, IdentityTasks,
  TradeTasks, RuleTasks, CarryTasks, BlockTasks, MessageTasks, RecordTasks,
  Q, H, MaxBits,
  Now, Later  \* the clock where a block is made, and where it is read

ASSUME AlgorithmsAssumption ==
  /\ Q \in Nat /\ Q > 2 /\ H \in 1 .. Q - 1 /\ MaxBits \in Nat \ {0}
  /\ Now # 0 /\ Later # 0 /\ Now # Later

Z == INSTANCE Zk

VARIABLES kind, input, answer  \* answer is <<>> until the algorithm has run

task == <<kind, input, answer>>
vars == <<task, intakeVars>>

Tasks(k) ==
  CASE k = "script"   -> ScriptTasks   [] k = "merkle"   -> MerkleTasks
    [] k = "build"    -> BuildTasks    [] k = "conflict" -> ConflictTasks
    [] k = "range"    -> RangeTasks    [] k = "transfer" -> TransferTasks
    [] k = "ratio"    -> RatioTasks    [] k = "identity" -> IdentityTasks
    [] k = "trade"    -> TradeTasks    [] k = "rule"     -> RuleTasks
    [] k = "carry"    -> CarryTasks    [] k = "block"    -> BlockTasks
    [] k = "message"  -> MessageTasks  [] k = "record"   -> RecordTasks
    [] k = "intake"   -> Config

Init ==
  /\ kind \in {"script", "merkle", "build", "conflict", "range", "transfer",
               "ratio", "identity", "trade", "rule", "carry", "block", "message",
               "record", "intake"}
  /\ input \in Tasks(kind)
  /\ answer = <<>>
  /\ config = IF kind = "intake" THEN input ELSE CHOOSE c \in Config : TRUE
  /\ IntakeInit

Answers(k, result) ==
  kind = k /\ answer = <<>> /\ answer' = <<result>> /\ UNCHANGED <<kind, input, intakeVars>>

LockScript(i) ==
  CASE i.lock = "p2pkh"    -> p2pkh_lock_script(i.keys[1])
    [] i.lock = "multisig" -> multisig_lock_script(i.m, i.keys)
    [] i.lock = "gov"      -> gov_lock_script(i.m, i.keys)
    [] i.lock = "did"      -> did_lock_script(i.keys[1])

\* What the unlock script pushes, and the length of a last push that has no
\* data of its own (0 for none).
UnlockScript(i) == Pushes(i.items) \o (IF i.cut = 0 THEN <<>> ELSE <<<<"push", i.cut>>>>)

RunScript == Answers("script", Execute(LockScript(input), UnlockScript(input), input.ctx))

(* A proof for the leaf at, checked with another transaction. *)
RunMerkle ==
  Answers("merkle",
    [block  |-> verify_merkle_proof(compute_merkle_root(input.txs), input.t,
                                    compute_merkle_proof(input.txs, input.at)),
     client |-> ClientVerifies(ClientRoot(input.txs), input.t,
                               ClientProof(input.txs, input.at))])

RunBuild ==
  Answers("build", create_offline_tx(input.kind, input.utxos, input.outs, input.rate))

RunConflict == Answers("conflict", resolve(input.conflict, input.wallet))

RunRange == Answers("range", Z!ProveRange(input.v, input.rs))

RunTransfer == Answers("transfer", Z!ProveTransfer(input.st, input.k, input.e))

RunRatio ==
  Answers("ratio", Z!ProveRatio(input.d, input.n, input.num, input.den, input.k, input.e))

RunIdentity ==
  Answers("identity",
          Z!ProveIdentity(input.doc, input.sig, input.pk, input.sk, input.k, input.e))

(* A wallet writes a payment, and the rule of its kind judges it. *)
Written(i) ==
  CASE i.what = "transfer" -> create_transfer(i.from, i.to, i.n, i.fee, i.utxos, i.change)
    [] i.what = "sale"     -> create_sale(i.from, i.to, i.d, i.n, i.fee, i.utxos, i.change)
    [] i.what = "wage"     -> create_wage(i.from, i.to, i.d, i.n, i.fee, i.utxos, i.change)
    [] i.what = "mint"     -> create_mint(i.to, i.n, i.gov)

Judged(what, tx, i) ==
  CASE what = "transfer" -> validate_transfer(tx)
    [] what = "sale"     -> validate_sale_transaction(tx, i.rate, i.balance)
    [] what = "wage"     -> validate_wage_transaction(tx, i.rate, i.balance)
    [] what = "mint"     -> validate_mint_transaction(tx, i.required, i.least)

RunTrade ==
  Answers("trade", {[tx |-> tx, valid |-> Judged(input.what, tx, input)] : tx \in Written(input)})

RunRule == Answers("rule", Judged(input.what, input.tx, input))

(* A transaction goes from hand to hand, over NFC perhaps garbled. *)
Damaged(p, part) ==
  CASE part = "none"  -> p
    [] part = "magic" -> [p EXCEPT !.magic = "other"]
    [] part = "len"   -> [p EXCEPT !.len = @ + 1]
    [] part = "text"  -> [p EXCEPT !.text.version = @ + 1]
    [] part = "crc"   -> [p EXCEPT !.crc = <<"other">>]

Carry(by, tx, i) ==
  CASE by = "gossip" ->
         {TxFromDict(m.payload[2]) :
            m \in from_bytes(to_bytes(MessageOf("TX_NEW", TxToDict(tx), "a", Now), i.sender), i.receiver)}
    [] by = "rest" -> {TxToCore(s) : s \in TxFromCore(tx)}
    [] by = "file" -> ToSet(import_from_file(export_to_file(<<tx>>)))
    [] by = "qr"   -> UNION {import_from_qr(q) : q \in export_to_qr(tx, i.size)}
    [] by = "nfc"  -> UNION {import_from_nfc(Damaged(p, i.damage)) : p \in export_to_nfc(tx, i.size)}

RunCarry ==
  Answers("carry",
    FoldLeft(LAMBDA S, by : UNION {Carry(by, tx, input) : tx \in S}, {input.tx}, input.way))

(* A block is made of a header and transactions, or read from a dictionary *)
(* elsewhere; what was made goes through dictionary, schema and row.       *)
RunBlock ==
  LET made == NewBlock(NewHeader(input.header, Now), input.txs)
      sent == [header |-> With(hex, input.header, HeaderBytes), body |-> Each(TxToDict, input.txs)]
  IN  Answers("block",
        [made  |-> made,
         read  |-> BlockFromDict(sent, Later),
         moved |-> {RowToBlock(BlockRow(BlockFromDict(BlockToDict(BlockToCore(s, Later)), Later)), Later) :
                      s \in BlockFromCore(made)}])

RunMessage ==
  Answers("message", from_bytes(to_bytes(NewMessage(input.msg), input.sender), input.receiver))

(* Records are saved and loaded, an account after updates. *)
RunRecord ==
  LET history == NewGovernance(input.history, input.genesis)
      made    == NewAccount(input.account)
      updated == UpdateAccount(made, input.fields)
  IN  Answers("record",
        [history |-> history, loaded |-> LoadHistory(SaveHistory(history), input.genesis),
         utxo |-> UtxoDecoded(UtxoEncoded(input.utxo)),
         made |-> made, updated |-> updated, cloned |-> CloneAccounts([a |-> updated])])

RunIntake == kind = "intake" /\ IntakeNext /\ UNCHANGED task

Next ==
  \/ RunScript \/ RunMerkle \/ RunBuild \/ RunConflict
  \/ RunRange \/ RunTransfer \/ RunRatio \/ RunIdentity
  \/ RunTrade \/ RunRule \/ RunCarry \/ RunBlock \/ RunMessage \/ RunRecord \/ RunIntake

Spec == Init /\ [][Next]_vars

Done(k) == kind = k /\ answer # <<>>

-----------------------------------------------------------------------------
(* What a standard output promises about the items an unlock script pushes *)
Promised(i) ==
  CASE i.lock = "p2pkh"    -> PaysToKey(i.keys[1], i.items)
    [] i.lock = "multisig" -> PaysToSome(i.m, i.keys, i.items)
    [] i.lock = "gov"      -> PaysToCouncil(i.m, i.keys, i.ctx)
    [] i.lock = "did"      -> FALSE

(***************************************************************************)
(* An unlock script whose pushes all have their data spends a standard     *)
(* output exactly when they hold what the lock asks for: a signature of    *)
(* the key, or signatures of enough of the keys in their order above one   *)
(* more item, or a council of the context that signed in number; and none  *)
(* spends a did lock, whose hash OP_CHECKSIG takes for a key.  One whose   *)
(* last push is longer than its data runs on into the lock script: where   *)
(* it takes the whole of it, the run ends with that item and succeeds;     *)
(* where it takes less (the first opcode alone, or all but the last), it   *)
(* spends nothing but what a council of the context signed for, whose lock *)
(* needs its last opcode only (core/script.py:117-335, 348-412).           *)
(***************************************************************************)
ScriptsPayAsPromised ==
  Done("script") =>
    CASE input.cut = 0 -> answer[1] <=> Promised(input)
      [] input.cut \in 1 .. Len(LockScript(input)) - 1 ->
           answer[1] => input.lock = "gov" /\ CouncilSigned(input.ctx)
      [] OTHER -> answer[1]

(***************************************************************************)
(* The proof made for one transaction of a block convinces of that         *)
(* transaction and of no other, whatever the number of transactions; the   *)
(* light client's convinces likewise, save in a block of one, where it     *)
(* refuses the empty proof (core/block.py:245-303, light_client.py:68-154, *)
(* 288-326).                                                               *)
(***************************************************************************)
MerkleProofsExact ==
  Done("merkle") =>
    /\ answer[1].block <=> input.t = input.txs[input.at]
    /\ answer[1].client <=> input.t = input.txs[input.at] /\ Len(input.txs) > 1

(***************************************************************************)
(* No money is made or lost where payments are written.  One built by the  *)
(* wallet or offline spends exactly its outputs and the fee.  The wallet's *)
(* pays the key named, spends what it is offered and no more than it needs,*)
(* and is refused only for want of funds, or when it would pay a key whose *)
(* hash starts with the byte 0: such an address reads back too short, and  *)
(* no lock is made (wallet.py:167-173).  A rebuilt payment keeps the       *)
(* outputs, spends only outputs on offer, none that the network has seen   *)
(* spent, and would not reach the total without the last of them; an       *)
(* adjusted one raises no output above 1, and fits what is left when the   *)
(* balance was short (tx_creator.py:87-150, 392-440, tx_builder.py:100-192,*)
(* conflict_resolver.py:126-416).                                          *)
(***************************************************************************)
Unpayable(address) == \E h \in [1 .. HashLen - 1 -> 0 .. Byte - 1] : address = base58_encode(<<0>> \o h)

AmountsOf(outs) == [i \in DOMAIN outs |-> outs[i].amount]
UtxosOf(tx) == [i \in DOMAIN tx.inputs |-> tx.inputs[i].utxo]

AmountsBalance ==
  /\ Done("build") => \A tx \in answer[1] :
       ValueOf(tx.inputs) = SumOf(tx.outputs)
                            + EstimateFee(Len(input.utxos), Len(input.outs), input.rate)
  /\ Done("trade") /\ input.what # "mint" =>
       LET need == input.n + input.fee
           fits == /\ input.utxos # <<>> /\ ValueOf(input.utxos) >= need
                   /\ ~ Unpayable(input.to)
       IN  /\ \A a \in answer[1] :
                /\ SumOf(AmountsOf(a.tx.outputs)) + input.fee = ValueOf(UtxosOf(a.tx))
                /\ a.tx.outputs[1].amount = input.n
                /\ base58_encode(a.tx.outputs[1].lock[2]) = input.to
                /\ \A i \in DOMAIN a.tx.inputs : a.tx.inputs[i].unlock = <<"key", input.from>>
                /\ ToSet(UtxosOf(a.tx)) \subseteq ToSet(input.utxos)
                /\ IsInjective(UtxosOf(a.tx))
                /\ Len(a.tx.inputs) > 1 => ValueOf(Front(UtxosOf(a.tx))) < need
           /\ answer[1] # {} => fits
           /\ fits /\ ~ Unpayable(input.change) => answer[1] # {}
  /\ Done("conflict") =>
       LET c     == input.conflict
           tx    == answer[1].tx
           offer == ToSet(Available(c, input.wallet))
       IN  /\ answer[1].strategy = "REBUILD" =>
                /\ tx.outputs = c.tx.outputs
                /\ ToSet(tx.inputs) \subseteq offer
                /\ c.type = "DOUBLE_SPEND" => Outpoints(tx.inputs) \cap c.spent = {}
                /\ ValueOf(tx.inputs) >= SumOf(tx.outputs)
                /\ Len(tx.inputs) > 1 =>
                     ValueOf(Front(tx.inputs)) < SumOf(tx.outputs)
           /\ answer[1].strategy = "ADJUST" =>
                /\ tx.inputs = c.tx.inputs
                /\ \A i \in DOMAIN tx.outputs :
                     tx.outputs[i] <= 1 \/ tx.outputs[i] <= c.tx.outputs[i]
                /\ c.type = "INSUFFICIENT_BALANCE" =>
                     SumOf(tx.outputs) <= ValueOf(Available(c, input.wallet))

(***************************************************************************)
(* What an honest prover proves, the verifier accepts under the conditions *)
(* it is given: a transfer exactly while none of its nullifiers is spent,  *)
(* a ratio with its amounts, an identity exactly under the document it was *)
(* made for, which a batch takes from the public inputs where its caller   *)
(* has put one; each unless the response is 0.  A range proof opens and    *)
(* its bits add up to a commitment to the value; the proof of balance      *)
(* holds when the fee is 0 (zk/circuits.py, zk/commitment.py,              *)
(* zk/prover.py, zk/verifier.py).                                          *)
(***************************************************************************)
HonestProofsVerify ==
  /\ Done("range") => \A p \in answer[1] :
       /\ Z!VerifyRange(p)
       /\ Z!Reconstructed(p) =
            Z!Commit(input.v, SumOf([i \in DOMAIN p |-> input.rs[i] * 2 ^ (i - 1)]))
  /\ Done("transfer") => \A p \in answer[1] :
       /\ \A spent \in {{}, {<<"other", input.st.sk>>}, {CHOOSE n \in p.nullifiers : TRUE}} :
            Z!BatchVerify(p, spent, 0, 0, "", input.e)
              <=> p.ownership.r # 0 /\ p.nullifiers \cap spent = {}
       /\ input.st.fee = 0 /\ p.balance.r # 0 =>
            Z!VerifyDlog(p.balance, Z!BalancePoint(input.st), H, input.e)
  /\ Done("ratio") => \A p \in answer[1] :
       Z!BatchVerify(p, {}, input.d, input.n, "", input.e)
  /\ Done("identity") => \A p \in answer[1], given \in {input.doc, "other"} :
       /\ Z!VerifyIdentity(p, given, input.e) <=> given = input.doc /\ p.ownership.r # 0
       /\ Z!BatchVerify(p, {}, 0, 0, given, input.e) <=> Z!VerifyIdentity(p, given, input.e)

(***************************************************************************)
(* What the verifier's own test asserts of batch_verify, "All proofs       *)
(* should verify in batch" (zk/verifier.py:507-510), whose proofs come as  *)
(* the prover made them.  The code does not keep to it: the prover puts    *)
(* only the hash of the document among the public inputs, the batch        *)
(* compares the empty document, and the identity proof is refused.         *)
(***************************************************************************)
BatchAcceptsHonest ==
  Done("identity") => \A p \in answer[1] :
    p.ownership.r # 0 => Z!BatchVerify(p, {}, 0, 0, "", input.e)

(***************************************************************************)
(* The rule of a sale or a wage passes exactly when an external amount     *)
(* above 0 is declared and the party named, by the hexadecimal hash of its *)
(* key, is paid the ratio of it or more, in the exact fraction, by a payer *)
(* who has as much.  A sale or wage that the wallet writes names the party *)
(* by its address, so it never passes while the ratio is above 0, and the  *)
(* wallet's mint holds one governance signature at most                    *)
(* (rules_engine.py:220-494, params.py:118-140, tx_creator.py:214-220).    *)
(***************************************************************************)
RatioDecides ==
  LET covers(amount, d) == amount * input.rate.den >= input.rate.num * d
  IN  /\ Done("rule") =>
           LET outs == input.tx.outputs
               paid == {i \in DOMAIN outs : /\ outs[i].asset = "N" /\ outs[i].lock # <<>>
                                            /\ outs[i].lock[2] = input.who
                                            /\ input.how \in {"hex", "0x", "binary"}}
           IN  answer[1] <=>
                 /\ input.d > 0 /\ input.how # "nobody"
                 /\ input.tx.inputs # <<>> /\ outs # <<>>
                 /\ covers(SumOf([i \in DOMAIN outs |-> IF i \in paid THEN outs[i].amount ELSE 0]),
                           input.d)
                 /\ \A b \in input.balance : covers(b, input.d)
      /\ Done("trade") => \A a \in answer[1] :
           a.valid <=> CASE input.what = "transfer" -> TRUE
                         [] input.what = "mint" ->
                              /\ input.required <= IF input.gov THEN 1 ELSE 0
                              /\ input.n >= input.least
                         [] OTHER -> input.rate.num = 0 /\ input.d > 0

(***************************************************************************)
(* What is sent arrives as it was sent, or not at all.  A transaction is   *)
(* stopped by a code or a tag too small for it, by a garbled tag, by the   *)
(* API when a number is below 0, by a node that lacks the sender's msgpack;*)
(* a block survives dictionaries, schemas and rows, and everyone who reads *)
(* it sees the same hash unless its timestamp is 0; a history of parameters*)
(* and a UTXO come back as saved; an account keeps what an update wrote,   *)
(* save an available balance of 0 while some of the balance is unlocked    *)
(* (core/transaction.py, core/block.py:30-219, api/schemas.py:27-342,      *)
(* network/messages.py:74-254, wallet/exporter.py, core/state.py:76-224).  *)
(***************************************************************************)
TravelsUnchanged ==
  /\ Done("carry") =>
       LET stops(by) ==
             CASE by = "gossip" -> input.sender /\ ~ input.receiver
               [] by = "rest"   -> \E o \in ToSet(input.tx.outputs) : o.amount < 0
               [] by = "file"   -> FALSE
               [] by = "qr"     -> input.size > QrMax
               [] by = "nfc"    -> input.size > NfcMax \/ input.damage # "none"
       IN  answer[1] = IF \E by \in ToSet(input.way) : stops(by) THEN {} ELSE {input.tx}
  /\ Done("block") =>
       /\ answer[1].moved = {answer[1].made}
       /\ answer[1].read.transactions = input.txs
       /\ header_hash(answer[1].made.header) = header_hash(answer[1].read.header)
            <=> input.header.timestamp # 0
  /\ Done("message") =>
       IF input.sender /\ ~ input.receiver THEN answer[1] = {}
       ELSE \E m \in answer[1] :
              /\ answer[1] = {m}
              /\ input.msg.msg_id # <<>> => m = input.msg
              /\ input.msg.msg_id = <<>> =>
                   m = [input.msg EXCEPT !.msg_id = <<m.type, m.timestamp, m.payload>>]
  /\ Done("record") =>
       /\ answer[1].loaded = answer[1].history
       /\ answer[1].utxo = input.utxo
       /\ answer[1].cloned["a"] = answer[1].updated
       /\ \A f \in DOMAIN input.fields :
            \/ answer[1].updated[f] = input.fields[f]
            \/ f = "n_available" /\ input.fields[f] = 0
                 /\ answer[1].updated.n_balance > answer[1].updated.n_locked
       /\ \A f \in DOMAIN input.account \ (DOMAIN input.fields \cup {"n_available"}) :
            answer[1].updated[f] = answer[1].made[f]
=============================================================================
