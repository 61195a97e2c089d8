---------------------------- MODULE MCAlgorithms ----------------------------
(***************************************************************************)
(* Small inputs of every algorithm.                                        *)
(***************************************************************************)
EXTENDS Algorithms

UpTo(n, S) == UNION {[1 .. i -> S] : i \in 0 .. n}

Ctx(keys, threshold, sigs, did) ==
  [keys |-> keys, threshold |-> threshold, sigs |-> sigs, did |-> did]
NoCouncil == Ctx(<<>>, 0, <<>>, FALSE)
Sig(k) == <<"sig", k>>
Items == {<<"n", 0>>, <<"pk", "k1">>, <<"sig", "none">>}
            \cup {Sig(k) : k \in Key}
Unlocks == UpTo(4, Items)
KeyLists == {<<"k1", "k2">>, <<"k1", "k2", "k3">>,
             <<"k1", "k2", "k3", "k1", "k2", "k3">>}

Lock(lock, m, keys, items, ctx) ==
  [lock |-> lock, m |-> m, keys |-> keys, items |-> items, cut |-> 0, ctx |-> ctx]

WholeScripts ==
  {Lock("p2pkh", 1, <<"k1">>, u, NoCouncil) : u \in Unlocks}
    \cup {Lock("multisig", m, ks, u, NoCouncil) : m \in 1 .. 2, ks \in KeyLists, u \in Unlocks}
    \cup {Lock("multisig", 3, <<"k1", "k2", "k3">>, u, NoCouncil) : u \in Unlocks}
    \cup {Lock("did", 1, <<"k1">>, u, Ctx(<<>>, 0, <<>>, d)) : u \in UpTo(2, Items), d \in BOOLEAN}
    \cup {Lock("gov", m, ks, <<>>, Ctx(c, t, s, FALSE)) :
            m \in 1 .. 2, ks \in KeyLists, c \in {<<>>, <<"k2", "k1">>, <<"k1", "k2", "k3">>},
            t \in 0 .. 3, s \in UpTo(3, {<<"sig", "none">>} \cup {Sig(k) : k \in Key})}

(* A last push takes the first opcode of the lock script, all of it but    *)
(* the last opcode, all of it, or more.                                    *)
Cuts(i) == LET n == Len(LockScript(i)) IN {1, n - 1, n, n + 1}

Scripts ==
  WholeScripts \cup UNION {{[i EXCEPT !.cut = c] : c \in Cuts(i)} :
                             i \in {w \in WholeScripts : Len(w.items) <= 2 /\ Len(w.ctx.sigs) <= 1}}

Txs == <<"t1", "t2", "t3", "t4", "t5", "t6", "t7", "t8", "t9">>
Blocks == {[txs |-> SubSeq(Txs, 1, n), at |-> at, t |-> t] :
             n \in 1 .. 9, at \in 1 .. 9, t \in ToSet(Txs) \cup {"none"}}
Merkles == {b \in Blocks : b.at <= Len(b.txs)}

Utxos == UNION {{s \in [1 .. n -> {"u1", "u2", "u3"} \X (1 .. 3)] :
                   \A i, j \in 1 .. n : i < j => s[i][1] # s[j][1]} : n \in 0 .. 3}
SomeUtxos == {s \in Utxos : \A i \in DOMAIN s : s[i][1] = <<"u1", "u2", "u3">>[i]}
Outs == UNION {[1 .. n -> 1 .. 4] : n \in 1 .. 2}

Builds == {[kind |-> k, utxos |-> u, outs |-> o, rate |-> r] :
             k \in {"TRANSFER", "BURN"}, u \in SomeUtxos, o \in Outs, r \in 0 .. 1}

Conflict(type, tk, outs, spent, avail, prio, ext, ratio) ==
  [type |-> type, spent |-> spent, available |-> avail, priority |-> prio,
   external |-> ext, ratio |-> ratio,
   tx |-> [kind |-> tk, inputs |-> <<<<"u1", 2>>>>, outputs |-> outs]]
NoRatio == [num |-> 0, den |-> 1]

Conflicts ==
  {[conflict |-> Conflict(t, "TRANSFER", o, s, a, p, 0, NoRatio), wallet |-> w] :
     t \in {"DOUBLE_SPEND", "INSUFFICIENT_BALANCE", "TIMEOUT"}, o \in Outs,
     s \in {{}, {"u1"}, {"u1", "u2"}}, a \in SomeUtxos, p \in 0 .. 1,
     w \in {<<>>, <<<<"u1", 2>>, <<"u3", 3>>>>}}
  \cup {[conflict |-> Conflict("RULE_CHANGE", k, o, {}, <<>>, 0, x, [num |-> n, den |-> 3]),
         wallet |-> <<>>] :
     k \in {"TRANSFER", "TRANSFER_SALE", "TRANSFER_WAGE", "BURN"}, o \in Outs,
     x \in 0 .. 5, n \in 0 .. 3}

Scalars == {1, 3}
Ranges == {[v |-> v, rs |-> rs] : v \in 0 .. 8, rs \in [1 .. 3 -> Scalars]}

Spent(a, b) == <<[utxo |-> "u1", amount |-> a, owner |-> 1]>>
                 \o (IF b = 0 THEN <<>> ELSE <<[utxo |-> "u2", amount |-> b, owner |-> 1]>>)
Statements ==
  {st \in [ins : {Spent(a, b) : a \in 1 .. 3, b \in 0 .. 2}, outs : UpTo(2, 0 .. 3),
           fee : 0 .. 1, sk : {1, 2}, rin : [1 .. 2 -> Scalars], rout : [1 .. 2 -> Scalars]] :
     st.sk = 1 \/ st.fee = 0}
Transfers ==
  {[st |-> [st EXCEPT !.rin = SubSeq(@, 1, Len(st.ins)), !.rout = SubSeq(@, 1, Len(st.outs))],
    k |-> k, e |-> e] : st \in Statements, k \in 1 .. 2, e \in {0, 4}}

Ratios == {[d |-> d, n |-> n, num |-> x, den |-> y, k |-> 1, e |-> 2] :
             d \in 0 .. 4, n \in 0 .. 4, x \in 0 .. 3, y \in 0 .. 3}
Identities == {[doc |-> "doc", sig |-> <<s, pk>>, pk |-> pk, sk |-> sk, k |-> k, e |-> e] :
                 s \in {"doc", "other"}, pk \in 1 .. 4, sk \in 1 .. 4, k \in 1 .. 4, e \in 0 .. 4}

Hashes == {<<1, 2>>, <<3, 0>>, <<0, 2>>, <<0, 0>>}
Addresses == {base58_encode(h) : h \in Hashes}
Rates == {[num |-> r[1], den |-> r[2]] : r \in {<<0, 2>>, <<1, 2>>, <<2, 3>>}}

Trade(what, to, d, n, fee, utxos, change, rate) ==
  [what |-> what, from |-> base58_encode(<<1, 2>>), to |-> to, d |-> d, n |-> n, fee |-> fee,
   utxos |-> utxos, change |-> change, rate |-> rate, balance |-> {}, gov |-> FALSE,
   required |-> 0, least |-> 0]
NoRate == [num |-> 1, den |-> 2]

Trades ==
  {Trade("transfer", to, 0, n, f, u, c, NoRate) :
     to \in Addresses, n \in 0 .. 4, f \in 0 .. 1, u \in SomeUtxos, c \in Addresses}
  \cup {Trade(w, to, d, n, 1, u, base58_encode(<<3, 0>>), r) :
           w \in {"sale", "wage"}, to \in Addresses, d \in 0 .. 3, n \in {0, 2},
           u \in SomeUtxos, r \in Rates}
  \cup {[Trade("mint", to, 0, n, 0, <<>>, to, NoRate) EXCEPT !.gov = g, !.required = q, !.least = 2] :
           to \in Addresses, n \in 1 .. 3, g \in BOOLEAN, q \in 0 .. 2}

Locks == {<<>>, <<"p2pkh", <<1, 2>>>>, <<"script", <<1, 2>>>>, <<"p2pkh", <<3, 0>>>>}
RuleOuts == {<<>>} \cup {<<[amount |-> a, lock |-> l, asset |-> s]>> :
                            a \in 0 .. 3, l \in Locks, s \in {"N", "X"}}
            \cup {<<[amount |-> 1, lock |-> <<"p2pkh", <<1, 2>>>>, asset |-> "N"],
                    [amount |-> a, lock |-> l, asset |-> "N"]>> : a \in 0 .. 2, l \in Locks}
Party(what) == IF what = "sale" THEN "buyer" ELSE "employer"

(* How the extra field declares d and names h. *)
Said(what, how, d, h) ==
  CASE how = "hex"    -> <<"json", (Party(what) :> <<"hex", h>>) @@ [external_amount |-> d]>>
    [] how = "0x"     -> <<"json", (Party(what) :> <<>>) @@ [to |-> <<"0x", h>>, payment_amount |-> d]>>
    [] how = "b58"    -> <<"json", (Party(what) :> <<"b58", base58_encode(h)>>) @@ [d_amount |-> d]>>
    [] how = "nobody" -> <<"json", [d_amount |-> d]>>
    [] how = "binary" -> <<"binary", <<"hex", h>>, d>>

Rules ==
  {[what |-> w, rate |-> r, balance |-> b, d |-> d, who |-> <<1, 2>>, how |-> how,
    tx |-> [inputs |-> i, outputs |-> o, extra |-> Said(w, how, d, <<1, 2>>)]] :
     w \in {"sale", "wage"}, r \in Rates, b \in {{}, {1}}, d \in {0, 1, 3},
     how \in {"hex", "0x", "b58", "nobody", "binary"}, i \in {<<>>, <<"u1">>}, o \in RuleOuts}

Data(x) == <<"bytes", x>>
SomeTx(i, a, proof) ==
  [version |-> 1, tx_type |-> "TRANSFER", lock_time |-> 0, extra |-> Data("e"),
   witnesses |-> <<Data("w")>>, zk_proof |-> proof,
   inputs  |-> [k \in 1 .. i |-> [tx_hash |-> "t", output_index |-> k, unlock_script |-> Data("u")]],
   outputs |-> <<[amount |-> a, lock_script |-> Data("l"), asset_type |-> 0, metadata |-> Data("")]>>]
Proofs == {<<>>, <<[proof_data |-> Data("p"), public_inputs |-> Data("i"), circuit_id |-> 1]>>}
SomeTxs == {SomeTx(i, a, p) : i \in 0 .. 1, a \in -1 .. 1, p \in Proofs}

Carries ==
  {[tx |-> tx, way |-> w, size |-> s, sender |-> x, receiver |-> y, damage |-> "none"] :
     tx \in SomeTxs, w \in UpTo(2, {"gossip", "rest", "file", "qr", "nfc"}), s \in 4 .. 9,
     x \in BOOLEAN, y \in BOOLEAN}
  \cup {[tx |-> tx, way |-> <<"nfc">>, size |-> 4, sender |-> TRUE, receiver |-> TRUE, damage |-> d] :
           tx \in SomeTxs, d \in {"magic", "len", "text", "crc"}}

BlockTxs == UpTo(2, {SomeTx(1, 1, p) : p \in Proofs})
MadeBlocks ==
  {[txs |-> s, header |-> [prev_block_hash |-> "h", timestamp |-> t, height |-> 1, tx_count |-> c,
                           validator_pubkey |-> "v", signature |-> "s", extra_data |-> Data("x")]] :
     s \in BlockTxs, t \in {0, 5}, c \in 0 .. 2}

Messages ==
  {[sender |-> x, receiver |-> y,
    msg |-> [type |-> t, payload |-> Data("p"), from_addr |-> "a", timestamp |-> Now,
             signature |-> Data(s), msg_id |-> id]] :
     x \in BOOLEAN, y \in BOOLEAN, t \in {"TX_NEW", "BLOCK_NEW"}, s \in {"", "s"},
     id \in {<<>>, <<"id">>}}

Params(v) == [phi_numerator |-> v, validators |-> <<"tuple", <<"v1", "v2">>>>]
Histories == UpTo(3, {[height |-> h, params |-> Params(v), change_reason |-> "r"] :
                        h \in 0 .. 1, v \in 1 .. 2})
Account(b, l, a) ==
  [address |-> "a", n_balance |-> b, n_locked |-> l, n_available |-> a, nonce |-> 1]
Fields == {[n_balance |-> b] : b \in 0 .. 2} \cup {[n_available |-> a] : a \in 0 .. 1}
            \cup {[n_locked |-> l, n_available |-> 0] : l \in 0 .. 2} \cup {[nonce |-> 2]}
Records ==
  {[history |-> h, genesis |-> Params(3), account |-> Account(1, 0, 0), fields |-> [nonce |-> 2],
    utxo |-> [amount |-> 1, lock_script |-> Data("l"), metadata |-> Data("")]] : h \in Histories}
  \cup {[history |-> <<>>, genesis |-> Params(3), account |-> Account(b, l, a), fields |-> f,
         utxo |-> [amount |-> 1, lock_script |-> Data("l"), metadata |-> Data("m")]] :
           b \in 0 .. 2, l \in 0 .. 2, a \in 0 .. 2, f \in Fields}

CONSTANTS busy, other

Asking == [c \in {busy, other} |-> IF c = busy THEN 5 ELSE 1]

Requests ==
  {[key |-> "key",  signed |-> FALSE, exempt |-> FALSE],
   [key |-> "none", signed |-> TRUE,  exempt |-> FALSE],
   [key |-> "none", signed |-> FALSE, exempt |-> TRUE]}

Configs ==
  {[keys |-> {"key"}, requireSignature |-> FALSE],
   [keys |-> {}, requireSignature |-> FALSE],
   [keys |-> {}, requireSignature |-> TRUE]}
=============================================================================
