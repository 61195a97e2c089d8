---------------------------- MODULE ChainProofs -----------------------------
(***************************************************************************)
(* Agreement of the nodes of Chain, and that they implement                *)
(* ReplicatedChain; then what each node's ledger, index and pool have to   *)
(* do with its chain, and what a block does to the value of the ledger;    *)
(* all for every set of nodes and of transactions.                         *)
(***************************************************************************)
EXTENDS Chain, OpsProofs

LEMMA MaxOfRange ==
  ASSUME NEW h \in Nat
  PROVE  Max(0 .. h) = h
<1>1. h \in 0 .. h /\ \A k \in 0 .. h : h >= k
  OBVIOUS
<1>2. \E x \in 0 .. h : \A k \in 0 .. h : x >= k
  BY <1>1
<1>3. Max(0 .. h) \in 0 .. h /\ \A k \in 0 .. h : Max(0 .. h) >= k
  BY <1>2 DEF Max
<1> HIDE DEF Max
<1> QED BY <1>1, <1>3

(***************************************************************************)
(* The part of ChainInv that is about blocks, and the only way a step      *)
(* changes it.                                                             *)
(***************************************************************************)
BlocksOK ==
  /\ tip \in [Node -> Block]
  /\ store = [n \in Node |-> [h \in 0 .. Height(n) |-> store[n][h]]]
  /\ \A n \in Node : \A h \in 0 .. Height(n) : store[n][h] \in Block
  /\ sent \subseteq Block

BlocksInv == BlocksOK /\ StoreIsChain /\ HistoryIsStored /\ SentIsStored /\ ValidatorLeads

Appends(n, b) ==
  /\ LinkValid(b, tip[n])
  /\ n # Validator => b \in sent
  /\ tip' = [tip EXCEPT ![n] = b]
  /\ store' = [store EXCEPT ![n] = SaveBlock(@, b)]
  /\ \/ sent' = sent
     \/ n = Validator /\ sent' = sent \cup {b}

\* The blocks of a node in BlocksOK.
LEMMA StoredBlocks ==
  ASSUME BlocksOK, NEW n \in Node
  PROVE  /\ tip[n] \in Block /\ Height(n) \in Nat
         /\ DOMAIN store[n] = 0 .. Height(n)
         /\ \A h \in 0 .. Height(n) : store[n][h] \in Block
<1>1. tip[n] \in Block /\ Height(n) \in Nat
  BY DEF BlocksOK, Height, Block
<1>2. store[n] = [h \in 0 .. Height(n) |-> store[n][h]]
  BY DEF BlocksOK
<1>3. DOMAIN store[n] = 0 .. Height(n)
  BY <1>2
<1> QED BY <1>1, <1>3 DEF BlocksOK

\* What an appended block does to tips and stores.
LEMMA AppendsIs ==
  ASSUME BlocksOK, NEW n \in Node, NEW b \in Block, Appends(n, b)
  PROVE  /\ b.height = Height(n) + 1 /\ b.prev = History(n)
         /\ tip' \in [Node -> Block]
         /\ tip'[n] = b /\ \A m \in Node \ {n} : tip'[m] = tip[m]
         /\ store'[n] = [h \in 0 .. b.height |-> IF h = b.height THEN b ELSE store[n][h]]
         /\ \A m \in Node \ {n} : store'[m] = store[m]
         /\ DOMAIN store' = Node
<1>1. Height(n) \in Nat /\ DOMAIN store[n] = 0 .. Height(n) /\ DOMAIN store = Node
  BY StoredBlocks DEF BlocksOK
<1>2. b.height = Height(n) + 1 /\ b.prev = History(n)
  BY DEF Appends, LinkValid, Height, History
<1>3. 0 .. Height(n) \cup {b.height} = 0 .. b.height
  BY <1>1, <1>2
<1>4. store'[n] = SaveBlock(store[n], b) /\ \A m \in Node \ {n} : store'[m] = store[m]
  BY <1>1 DEF Appends
<1>5. SaveBlock(store[n], b) = [h \in 0 .. b.height |-> IF h = b.height THEN b ELSE store[n][h]]
  BY <1>1, <1>3 DEF SaveBlock
<1>6. /\ tip' \in [Node -> Block]
      /\ tip'[n] = b /\ \A m \in Node \ {n} : tip'[m] = tip[m]
  BY DEF Appends, BlocksOK
<1>7. DOMAIN store' = Node
  BY <1>1 DEF Appends
<1> QED BY <1>2, <1>4, <1>5, <1>6, <1>7

\* Appending keeps the stores chains, and the other nodes behind the validator.
LEMMA AppendsKeepsBlocks ==
  ASSUME BlocksInv, NEW n \in Node, NEW b \in Block, Appends(n, b)
  PROVE  BlocksInv'
<1> DEFINE h == Height(n)
<1>1. BlocksOK  BY DEF BlocksInv
<1>2. /\ b.height = h + 1 /\ b.prev = History(n)
      /\ tip' \in [Node -> Block]
      /\ tip'[n] = b /\ \A m \in Node \ {n} : tip'[m] = tip[m]
      /\ store'[n] = [k \in 0 .. b.height |-> IF k = b.height THEN b ELSE store[n][k]]
      /\ \A m \in Node \ {n} : store'[m] = store[m]
      /\ DOMAIN store' = Node
  BY <1>1, AppendsIs
<1>3. h \in Nat /\ \A m \in Node : Height(m) \in Nat /\ DOMAIN store[m] = 0 .. Height(m)
  BY <1>1, StoredBlocks
<1>4. Height(n)' = h + 1 /\ \A m \in Node \ {n} : Height(m)' = Height(m)
  BY <1>2 DEF Height
<1>5. /\ DOMAIN store'[n] = 0 .. h + 1
      /\ store'[n][h + 1] = b
      /\ \A k \in 0 .. h : store'[n][k] = store[n][k]
  <2>1. \A k \in 0 .. h : k \in 0 .. h + 1 /\ k # h + 1  BY <1>3
  <2>2. h + 1 \in 0 .. h + 1  BY <1>3
  <2> HIDE DEF h
  <2> QED BY <1>2, <2>1, <2>2
<1>6. \A k \in 0 .. h + 1 : k \in 0 .. h \/ k = h + 1
  BY <1>3
<1> HIDE DEF h
<1>7. BlocksOK'
  <2>1. store' = [m \in Node |-> [k \in 0 .. Height(m)' |-> store'[m][k]]]
    <3>1. ASSUME NEW m \in Node PROVE store'[m] = [k \in 0 .. Height(m)' |-> store'[m][k]]
      <4>1. CASE m = n
        BY <1>2, <1>4, <1>5, <4>1
      <4>2. CASE m # n
        <5>1. store[m] = [k \in 0 .. Height(m) |-> store[m][k]]  BY <1>1 DEF BlocksOK
        <5>2. store'[m] = store[m] /\ Height(m)' = Height(m)  BY <1>2, <1>4, <4>2
        <5> QED BY <5>1, <5>2
      <4> QED BY <4>1, <4>2
    <3>2. store' = [m \in Node |-> store'[m]]
      BY <1>1 DEF BlocksOK, Appends
    <3> QED BY <3>1, <3>2
  <2>2. ASSUME NEW m \in Node, NEW k \in 0 .. Height(m)' PROVE store'[m][k] \in Block
    <3>1. CASE m = n
      BY <1>1, <1>4, <1>5, <1>6, <3>1 DEF BlocksOK, h
    <3>2. CASE m # n
      BY <1>1, <1>2, <1>4, <3>2 DEF BlocksOK
    <3> QED BY <3>1, <3>2
  <2>3. sent' \subseteq Block
    BY <1>1 DEF BlocksOK, Appends
  <2> QED BY <1>2, <2>1, <2>2, <2>3 DEF BlocksOK
<1>8. StoreIsChain'
  <2> SUFFICES ASSUME NEW m \in Node
               PROVE  /\ store'[m][0] = Genesis
                      /\ store'[m][Height(m)'] = tip'[m]
                      /\ \A k \in 1 .. Height(m)' : LinkValid(store'[m][k], store'[m][k - 1])
    BY DEF StoreIsChain
  <2>0. /\ store[m][0] = Genesis /\ store[m][Height(m)] = tip[m]
        /\ \A k \in 1 .. Height(m) : LinkValid(store[m][k], store[m][k - 1])
    BY DEF BlocksInv, StoreIsChain
  <2>1. CASE m # n
    BY <1>2, <1>4, <2>0, <2>1
  <2>2. CASE m = n
    <3>1. store'[n][0] = Genesis
      BY <1>3, <1>5, <2>0, <2>2
    <3>2. ASSUME NEW k \in 1 .. h + 1 PROVE LinkValid(store'[n][k], store'[n][k - 1])
      <4>1. CASE k = h + 1
        <5>1. k - 1 = h /\ h \in 0 .. h  BY <1>3, <4>1
        <5>2. store'[n][k - 1] = tip[n]  BY <1>5, <2>0, <2>2, <5>1 DEF h
        <5>3. store'[n][k] = b  BY <1>5, <4>1
        <5> QED BY <5>2, <5>3 DEF Appends
      <4>2. CASE k # h + 1
        <5>1. k \in 1 .. h /\ k \in 0 .. h /\ k - 1 \in 0 .. h  BY <1>3, <4>2
        <5> QED BY <1>5, <2>0, <2>2, <5>1 DEF h
      <4> QED BY <4>1, <4>2
    <3> QED BY <1>2, <1>4, <1>5, <2>2, <3>1, <3>2
  <2> QED BY <2>1, <2>2
<1>9. HistoryIsStored'
  <2> SUFFICES ASSUME NEW m \in Node
               PROVE  /\ Len(History(m)') = Height(m)' + 1
                      /\ \A k \in 0 .. Height(m)' : History(m)'[k + 1] = store'[m][k].txs
    BY DEF HistoryIsStored
  <2>0. /\ Len(History(m)) = Height(m) + 1
        /\ \A k \in 0 .. Height(m) : History(m)[k + 1] = store[m][k].txs
    BY DEF BlocksInv, HistoryIsStored
  <2>1. CASE m # n
    <3>1. History(m)' = History(m)  BY <1>2, <2>1 DEF History
    <3> QED BY <1>2, <1>4, <2>0, <2>1, <3>1
  <2>2. CASE m = n
    <3>1. b.prev \in Seq(Seq(Tx)) /\ b.txs \in Seq(Tx)  BY DEF Block
    <3>2. History(n)' = Append(b.prev, b.txs)  BY <1>2 DEF History, Hash
    <3>3. Len(b.prev) = h + 1 /\ \A k \in 0 .. h : b.prev[k + 1] = store[n][k].txs
      BY <1>2, <2>0, <2>2 DEF h
    <3>4. /\ Len(Append(b.prev, b.txs)) = h + 2
          /\ Append(b.prev, b.txs)[h + 2] = b.txs
          /\ \A k \in 1 .. h + 1 : Append(b.prev, b.txs)[k] = b.prev[k]
      BY <1>3, <3>1, <3>3 DEF h
    <3>5. ASSUME NEW k \in 0 .. h + 1
          PROVE  Append(b.prev, b.txs)[k + 1] = store'[n][k].txs
      <4>1. CASE k = h + 1
        <5>1. k + 1 = h + 2  BY <1>3, <4>1 DEF h
        <5> QED BY <1>5, <3>4, <4>1, <5>1
      <4>2. CASE k # h + 1
        <5>1. k \in 0 .. h /\ k + 1 \in 1 .. h + 1  BY <1>3, <4>2 DEF h
        <5> QED BY <1>5, <3>3, <3>4, <5>1
      <4> QED BY <4>1, <4>2
    <3>6. (h + 1) + 1 = h + 2  BY <1>3
    <3> QED BY <1>4, <2>2, <3>2, <3>4, <3>5, <3>6
  <2> QED BY <2>1, <2>2
\* A block the validator had is where it was.
<1>10. ASSUME NEW c \in Block, c.height \in DOMAIN store[Validator]
       PROVE  /\ c.height \in DOMAIN store'[Validator]
              /\ store'[Validator][c.height] = store[Validator][c.height]
  <2>0. Validator \in Node  BY ChainAssumption DEF ChainAssumption
  <2>1. CASE n # Validator
    BY <1>2, <1>10, <2>0, <2>1
  <2>2. CASE n = Validator
    <3>1. c.height \in 0 .. h /\ c.height \in 0 .. h + 1
      BY <1>3, <1>10, <2>2 DEF h
    <3> QED BY <1>5, <2>2, <3>1
  <2> QED BY <2>1, <2>2
<1>11. SentIsStored'
  <2> SUFFICES ASSUME NEW c \in sent'
               PROVE  c.height \in DOMAIN store'[Validator] /\ store'[Validator][c.height] = c
    BY DEF SentIsStored
  <2>1. CASE c \in sent
    <3>1. c \in Block  BY <1>1, <2>1 DEF BlocksOK
    <3> QED BY <1>10, <2>1, <3>1 DEF BlocksInv, SentIsStored
  <2>2. CASE c \notin sent
    <3>1. c = b /\ n = Validator  BY <2>2 DEF Appends
    <3> QED BY <1>2, <1>3, <1>5, <3>1
  <2> QED BY <2>1, <2>2
<1>12. ValidatorLeads'
  <2> SUFFICES ASSUME NEW m \in Node, NEW k \in DOMAIN store'[m]
               PROVE  k \in DOMAIN store'[Validator] /\ store'[m][k] = store'[Validator][k]
    BY DEF ValidatorLeads
  <2>0. Validator \in Node  BY ChainAssumption DEF ChainAssumption
  <2>1. CASE m = Validator
    BY <2>1
  <2>2. ASSUME m # Validator, k \in DOMAIN store[m], store'[m][k] = store[m][k]
        PROVE  k \in DOMAIN store'[Validator] /\ store'[m][k] = store'[Validator][k]
    <3>1. k \in DOMAIN store[Validator] /\ store[m][k] = store[Validator][k]
      BY <2>2 DEF BlocksInv, ValidatorLeads
    <3>2. k \in 0 .. Height(m) /\ store[m][k] \in Block
      BY <1>1, <2>2, StoredBlocks
    <3>3. CASE n # Validator
      BY <1>2, <2>0, <2>2, <3>1, <3>3
    <3>4. CASE n = Validator
      <4>1. k \in 0 .. h /\ k \in 0 .. h + 1  BY <1>3, <2>0, <3>1, <3>4 DEF h
      <4> QED BY <1>5, <2>2, <3>1, <3>4, <4>1
    <3> QED BY <3>3, <3>4
  <2>3. CASE m # Validator /\ m # n
    <3>1. store'[m] = store[m]  BY <1>2, <2>3
    <3> QED BY <2>2, <2>3, <3>1
  <2>4. CASE m # Validator /\ m = n
    <3>1. CASE k \in 0 .. h
      BY <1>3, <1>5, <2>2, <2>4, <3>1 DEF h
    <3>2. CASE ~ (k \in 0 .. h)
      <4>1. k = h + 1 /\ store'[m][k] = b  BY <1>5, <1>6, <2>4, <3>2
      <4>2. b.height \in DOMAIN store[Validator] /\ store[Validator][b.height] = b
        BY <2>4 DEF BlocksInv, SentIsStored, Appends
      <4> QED BY <1>2, <1>10, <4>1, <4>2
    <3> QED BY <3>1, <3>2
  <2> QED BY <2>1, <2>3, <2>4
<1> QED BY <1>7, <1>8, <1>9, <1>11, <1>12 DEF BlocksInv

-----------------------------------------------------------------------------
(***************************************************************************)
(* The rest of TypeOK: what the operations on pools, UTXO sets and indexes *)
(* make are such again.                                                    *)
(***************************************************************************)
LEMMA OutpointsOfTx == \A t \in Tx : OutpointsOf(t) \subseteq Outpoints
BY DEF Outpoints

\* The rounds of apply_block.
LEMMA ApplyRun ==
  ASSUME NEW u, NEW b, b.txs \in Seq(Tx)
  PROVE  \E r : /\ r[0] = u
                /\ \A i \in 1 .. Len(b.txs) : r[i] = ApplyTx(r[i - 1], b.txs[i])
                /\ ApplyBlock(u, b) = r[Len(b.txs)]
<1> DEFINE s == b.txs
           n == Len(s)
           G == SUBSET (u \cup Outpoints)
           f == [x \in G \X Tx |-> ApplyTx(x[1], x[2])]
           Rounds(r) == r = [i \in 0 .. n |-> IF i = 0 THEN u ELSE ApplyTx(r[i - 1], s[i])]
           after == CHOOSE r : Rounds(r)
<1>1. s \in Seq(Tx) /\ n \in Nat /\ u \in G /\ \A i \in 1 .. n : s[i] \in Tx
  OBVIOUS
<1>2. ASSUME NEW a \in G, NEW t \in Tx PROVE ApplyTx(a, t) \in G
  BY DEF ApplyTx, Outpoints
<1> HIDE DEF G
<1>3. IsBody(f, G, Tx)
  BY <1>2 DEF IsBody
<1>0. ApplyBlock(u, b) = after[n]
  BY DEF ApplyBlock, Along
<1> HIDE DEF s
<1>4. \E r : Rounds(r)
  <2>1. HasRun(f, G, u, s)
    <3> HIDE DEF f
    <3> QED BY <1>1, <1>3, RunExists
  <2>2. PICK r \in [0 .. n -> G] : r[0] = u /\ \A i \in 1 .. n : r[i] = f[<<r[i - 1], s[i]>>]
    <3> HIDE DEF f
    <3> QED BY <2>1 DEF HasRun
  <2>3. ASSUME NEW i \in 1 .. n PROVE r[i] = ApplyTx(r[i - 1], s[i])
    <3>0. i - 1 \in 0 .. n /\ s[i] \in Tx  BY <1>1
    <3>1. <<r[i - 1], s[i]>> \in G \X Tx  BY <2>2, <3>0
    <3> QED BY <2>2, <3>1
  <2>4. Rounds(r)
    BY <1>1, <2>2, <2>3
  <2> QED BY <2>4
<1>5. Rounds(after)
  <2> HIDE DEF Rounds
  <2> QED BY <1>4
<1>7. after[0] = u /\ \A i \in 1 .. n : after[i] = ApplyTx(after[i - 1], s[i])
  <2>1. 0 \in 0 .. n /\ \A i \in 1 .. n : i \in 0 .. n /\ i # 0  BY <1>1
  <2>2. after = [i \in 0 .. n |-> IF i = 0 THEN u ELSE ApplyTx(after[i - 1], s[i])]
    BY <1>5
  <2> HIDE DEF after, n
  <2> QED BY <2>1, <2>2
<1> HIDE DEF after
<1> QED BY <1>0, <1>7 DEF s

LEMMA ApplyBlockInOutpoints ==
  ASSUME NEW u \in SUBSET Outpoints, NEW b, b.txs \in Seq(Tx)
  PROVE  ApplyBlock(u, b) \in SUBSET Outpoints
<1> DEFINE s == b.txs
           n == Len(s)
           G == SUBSET Outpoints
<1>1. n \in Nat /\ u \in G /\ \A i \in 1 .. n : s[i] \in Tx
  OBVIOUS
<1>2. PICK r : /\ r[0] = u /\ \A i \in 1 .. n : r[i] = ApplyTx(r[i - 1], s[i])
               /\ ApplyBlock(u, b) = r[n]
  BY ApplyRun
<1>3. r[0] \in G /\ \A i \in 1 .. n : r[i - 1] \in G => r[i] \in G
  BY <1>1, <1>2, OutpointsOfTx DEF ApplyTx
<1>4. r[n] \in G
  <2> HIDE DEF n, G
  <2> QED BY <1>1, <1>3, LoopIn
<1> QED BY <1>2, <1>4

(* Applying a block again changes nothing: what commit_block does after     *)
(* validate_block.                                                          *)
LEMMA ApplyBlockTwice ==
  ASSUME NEW u, NEW b, b.txs \in Seq(Tx)
  PROVE  ApplyBlock(ApplyBlock(u, b), b) = ApplyBlock(u, b)
<1> DEFINE s == b.txs
           n == Len(s)
           end == ApplyBlock(u, b)
<1>0. n \in Nat
  OBVIOUS
<1>1. PICK r : /\ r[0] = u /\ \A i \in 1 .. n : r[i] = ApplyTx(r[i - 1], s[i])
               /\ end = r[n]
  BY ApplyRun
<1>2. PICK q : /\ q[0] = end /\ \A i \in 1 .. n : q[i] = ApplyTx(q[i - 1], s[i])
               /\ ApplyBlock(end, b) = q[n]
  BY ApplyRun
<1> HIDE DEF s, n, end
<1> DEFINE Between == {i \in 0 .. n : r[i] \cap end \subseteq q[i] /\ q[i] \subseteq r[i] \cup end}
<1>3. 0 \in Between
  BY <1>0, <1>2
<1>4. ASSUME NEW i \in 1 .. n, i - 1 \in Between PROVE i \in Between
  <2>1. i \in 0 .. n  BY <1>0
  <2>2. r[i] = ApplyTx(r[i - 1], s[i]) /\ q[i] = ApplyTx(q[i - 1], s[i])
    BY <1>1, <1>2
  <2>3. r[i - 1] \cap end \subseteq q[i - 1] /\ q[i - 1] \subseteq r[i - 1] \cup end
    BY <1>4
  <2> QED BY <2>1, <2>2, <2>3 DEF ApplyTx
<1>5. n \in Between
  <2>1. 0 .. n \subseteq Between
    <3> HIDE DEF Between
    <3> QED BY <1>0, <1>3, <1>4, Induct
  <2> QED BY <1>0, <2>1
<1>6. q[n] = end
  BY <1>1, <1>5
<1> QED BY <1>2, <1>6 DEF end

\* The UTXO set after the blocks of a list.
Replay(u, bs) == Along(ApplyBlock, u, bs)

\* The rounds of a replay.
LEMMA ReplayRun ==
  ASSUME NEW u, NEW bs \in Seq(Block)
  PROVE  \E r : /\ r[0] = u
                /\ \A i \in 1 .. Len(bs) : r[i] = ApplyBlock(r[i - 1], bs[i])
                /\ Replay(u, bs) = r[Len(bs)]
<1> DEFINE n == Len(bs)
           G == SUBSET (u \cup Outpoints)
           f == [x \in G \X Block |-> ApplyBlock(x[1], x[2])]
           Rounds(r) == r = [i \in 0 .. n |-> IF i = 0 THEN u ELSE ApplyBlock(r[i - 1], bs[i])]
           after == CHOOSE r : Rounds(r)
<1>1. n \in Nat /\ u \in G /\ \A i \in 1 .. n : bs[i] \in Block
  OBVIOUS
<1>2. ASSUME NEW a \in G, NEW b \in Block PROVE ApplyBlock(a, b) \in G
  <2> DEFINE m == Len(b.txs)
  <2>1. m \in Nat /\ b.txs \in Seq(Tx) /\ \A i \in 1 .. m : b.txs[i] \in Tx  BY DEF Block
  <2>2. PICK r : /\ r[0] = a /\ \A i \in 1 .. m : r[i] = ApplyTx(r[i - 1], b.txs[i])
                 /\ ApplyBlock(a, b) = r[m]
    BY <2>1, ApplyRun
  <2>3. \A i \in 1 .. m : r[i - 1] \in G => r[i] \in G
    BY <2>1, <2>2 DEF ApplyTx, Outpoints
  <2> HIDE DEF G, m
  <2> QED BY <2>1, <2>2, <2>3, LoopIn
<1> HIDE DEF G
<1>3. IsBody(f, G, Block)
  BY <1>2 DEF IsBody
<1>0. Replay(u, bs) = after[n]
  BY DEF Replay, Along
<1>4. \E r : Rounds(r)
  <2>1. HasRun(f, G, u, bs)
    <3> HIDE DEF f
    <3> QED BY <1>1, <1>3, RunExists
  <2>2. PICK r \in [0 .. n -> G] : r[0] = u /\ \A i \in 1 .. n : r[i] = f[<<r[i - 1], bs[i]>>]
    <3> HIDE DEF f
    <3> QED BY <2>1 DEF HasRun
  <2>3. ASSUME NEW i \in 1 .. n PROVE r[i] = ApplyBlock(r[i - 1], bs[i])
    <3>0. i - 1 \in 0 .. n /\ bs[i] \in Block  BY <1>1
    <3>1. <<r[i - 1], bs[i]>> \in G \X Block  BY <2>2, <3>0
    <3> QED BY <2>2, <3>1
  <2>4. Rounds(r)
    BY <1>1, <2>2, <2>3
  <2> QED BY <2>4
<1>5. Rounds(after)
  <2> HIDE DEF Rounds
  <2> QED BY <1>4
<1>7. after[0] = u /\ \A i \in 1 .. n : after[i] = ApplyBlock(after[i - 1], bs[i])
  <2>1. 0 \in 0 .. n /\ \A i \in 1 .. n : i \in 0 .. n /\ i # 0  BY <1>1
  <2>2. after = [i \in 0 .. n |-> IF i = 0 THEN u ELSE ApplyBlock(after[i - 1], bs[i])]
    BY <1>5
  <2> HIDE DEF after, n
  <2> QED BY <2>1, <2>2
<1> HIDE DEF after
<1> QED BY <1>0, <1>7

\* The blocks of a node above the genesis block.
Blocks(n) == [h \in 1 .. Height(n) |-> store[n][h]]

(* A replay of one block more applies that block to the replay before it.   *)
LEMMA ReplayGrows ==
  ASSUME NEW u, NEW k \in Nat, NEW bs \in [1 .. k -> Block],
         NEW cs \in [1 .. k + 1 -> Block], \A h \in 1 .. k : cs[h] = bs[h]
  PROVE  Replay(u, cs) = ApplyBlock(Replay(u, bs), cs[k + 1])
<1>1. bs \in Seq(Block) /\ Len(bs) = k /\ cs \in Seq(Block) /\ Len(cs) = k + 1
  OBVIOUS
<1>2. PICK r : /\ r[0] = u /\ \A i \in 1 .. k : r[i] = ApplyBlock(r[i - 1], bs[i])
               /\ Replay(u, bs) = r[k]
  <2>1. PICK s \in Seq(Block) : s = bs
    BY <1>1
  <2>2. PICK r : /\ r[0] = u /\ \A i \in 1 .. Len(s) : r[i] = ApplyBlock(r[i - 1], s[i])
                 /\ Replay(u, s) = r[Len(s)]
    BY ReplayRun
  <2> QED BY <1>1, <2>1, <2>2
<1>3. PICK q : /\ q[0] = u /\ \A i \in 1 .. k + 1 : q[i] = ApplyBlock(q[i - 1], cs[i])
               /\ Replay(u, cs) = q[k + 1]
  <2>1. PICK s \in Seq(Block) : s = cs
    BY <1>1
  <2>2. PICK q : /\ q[0] = u /\ \A i \in 1 .. Len(s) : q[i] = ApplyBlock(q[i - 1], s[i])
                 /\ Replay(u, s) = q[Len(s)]
    BY ReplayRun
  <2> QED BY <1>1, <2>1, <2>2
<1> DEFINE Same == {i \in 0 .. k : q[i] = r[i]}
<1>4. 0 \in Same
  BY <1>2, <1>3
<1>5. ASSUME NEW i \in 1 .. k, i - 1 \in Same PROVE i \in Same
  <2>1. i \in 0 .. k /\ i \in 1 .. k + 1  OBVIOUS
  <2>2. q[i] = ApplyBlock(q[i - 1], cs[i]) /\ r[i] = ApplyBlock(r[i - 1], bs[i])
    BY <1>2, <1>3, <2>1
  <2>3. q[i - 1] = r[i - 1] /\ cs[i] = bs[i]  BY <1>5
  <2> QED BY <2>1, <2>2, <2>3
<1>6. k \in Same
  <2>1. 0 .. k \subseteq Same
    <3> HIDE DEF Same
    <3> QED BY <1>4, <1>5, Induct
  <2> QED BY <2>1
<1>7. k + 1 \in 1 .. k + 1 /\ (k + 1) - 1 = k
  OBVIOUS
<1> QED BY <1>2, <1>3, <1>6, <1>7

LEMMA IndexRowsInIndexes ==
  ASSUME NEW ix \in Indexes, NEW t \in Tx, NEW h \in Nat, NEW rows
  PROVE  IndexRows(ix, t, h, rows) \in Indexes
<1>1. ix.height \in [Tx -> Nat] /\ ix.unspent \subseteq Outpoints
  BY DEF Indexes
<1>2. (IF rows = 0 THEN ix.height ELSE [ix.height EXCEPT ![t] = h]) \in [Tx -> Nat]
  BY <1>1
<1> QED BY <1>1, <1>2, OutpointsOfTx DEF IndexRows, Indexes

\* The rounds of _index_block.
LEMMA IndexRun ==
  ASSUME NEW ix \in Indexes, NEW s \in Seq(Tx), NEW h \in Nat
  PROVE  \E r : /\ r[0] = ix
                /\ \A i \in 1 .. Len(s) : r[i] = IndexTx(r[i - 1], s[i], h)
                /\ IndexBlock(ix, s, h) = r[Len(s)]
<1> DEFINE n == Len(s)
           G == Indexes
           f == [x \in G \X Tx |-> IndexTx(x[1], x[2], h)]
           Rounds(r) == r = [i \in 0 .. n |-> IF i = 0 THEN ix ELSE IndexTx(r[i - 1], s[i], h)]
           after == CHOOSE r : Rounds(r)
<1>1. n \in Nat /\ ix \in G /\ \A i \in 1 .. n : s[i] \in Tx
  OBVIOUS
<1>2. ASSUME NEW a \in G, NEW t \in Tx PROVE IndexTx(a, t, h) \in G
  BY IndexRowsInIndexes DEF IndexTx
<1> HIDE DEF G
<1>3. IsBody(f, G, Tx)
  BY <1>2 DEF IsBody
<1>0. IndexBlock(ix, s, h) = after[n]
  BY DEF IndexBlock, Along
<1>4. \E r : Rounds(r)
  <2>1. HasRun(f, G, ix, s)
    <3> HIDE DEF f
    <3> QED BY <1>1, <1>3, RunExists
  <2>2. PICK r \in [0 .. n -> G] : r[0] = ix /\ \A i \in 1 .. n : r[i] = f[<<r[i - 1], s[i]>>]
    <3> HIDE DEF f
    <3> QED BY <2>1 DEF HasRun
  <2>3. ASSUME NEW i \in 1 .. n PROVE r[i] = IndexTx(r[i - 1], s[i], h)
    <3>0. i - 1 \in 0 .. n /\ s[i] \in Tx  BY <1>1
    <3>1. <<r[i - 1], s[i]>> \in G \X Tx  BY <2>2, <3>0
    <3> QED BY <2>2, <3>1
  <2>4. Rounds(r)
    BY <1>1, <2>2, <2>3
  <2> QED BY <2>4
<1>5. Rounds(after)
  <2> HIDE DEF Rounds
  <2> QED BY <1>4
<1>7. after[0] = ix /\ \A i \in 1 .. n : after[i] = IndexTx(after[i - 1], s[i], h)
  <2>1. 0 \in 0 .. n /\ \A i \in 1 .. n : i \in 0 .. n /\ i # 0  BY <1>1
  <2>2. after = [i \in 0 .. n |-> IF i = 0 THEN ix ELSE IndexTx(after[i - 1], s[i], h)]
    BY <1>5
  <2> HIDE DEF after, n
  <2> QED BY <2>1, <2>2
<1> HIDE DEF after
<1> QED BY <1>0, <1>7

LEMMA IndexBlockInIndexes ==
  ASSUME NEW ix \in Indexes, NEW s \in Seq(Tx), NEW h \in Nat
  PROVE  IndexBlock(ix, s, h) \in Indexes
<1> DEFINE n == Len(s)
           G == Indexes
<1>1. n \in Nat /\ ix \in G /\ \A i \in 1 .. n : s[i] \in Tx
  OBVIOUS
<1>2. PICK r : /\ r[0] = ix /\ \A i \in 1 .. n : r[i] = IndexTx(r[i - 1], s[i], h)
               /\ IndexBlock(ix, s, h) = r[n]
  BY IndexRun
<1>3. r[0] \in G /\ \A i \in 1 .. n : r[i - 1] \in G => r[i] \in G
  BY <1>1, <1>2, IndexRowsInIndexes DEF IndexTx
<1>4. r[n] \in G
  <2> HIDE DEF n, G
  <2> QED BY <1>1, <1>3, LoopIn
<1> QED BY <1>2, <1>4

LEMMA TornIndexesInIndexes ==
  ASSUME NEW ix \in Indexes, NEW b, b.txs \in Seq(Tx), b.height \in Nat
  PROVE  TornIndexes(ix, b) \subseteq Indexes
<1>1. IndexBlock(ix, b.txs, b.height) \in Indexes
  BY IndexBlockInIndexes
<1>2. ASSUME NEW k \in 1 .. Len(b.txs), NEW rows
      PROVE  IndexRows(IndexBlock(ix, SubSeq(b.txs, 1, k - 1), b.height), b.txs[k], b.height, rows)
               \in Indexes
  <2>1. SubSeq(b.txs, 1, k - 1) \in Seq(Tx) /\ b.txs[k] \in Tx
    <3>1. k - 1 \in 0 .. Len(b.txs)  BY <1>2
    <3> QED BY <3>1, SubSeqProperties
  <2>2. IndexBlock(ix, SubSeq(b.txs, 1, k - 1), b.height) \in Indexes
    BY <2>1, IndexBlockInIndexes
  <2> QED BY <2>1, <2>2, IndexRowsInIndexes
<1> QED BY <1>1, <1>2 DEF TornIndexes

RestOK ==
  /\ pool \in [Node -> Pools]
  /\ utxo \in [Node -> SUBSET Outpoints]
  /\ index \in [Node -> Indexes]
  /\ restarts \in [Node -> Nat]

LEMMA TypeOKParts == TypeOK <=> BlocksOK /\ RestOK
BY DEF TypeOK, BlocksOK, RestOK

LEMMA ChainInvParts == ChainInv <=> BlocksInv /\ RestOK
BY TypeOKParts DEF ChainInv, BlocksInv

LEMMA ProposedIsBlock ==
  ASSUME TypeOK, NEW n \in Node
  PROVE  ProposedBlock(n) \in Block
<1>1. pool[n] \in Pools /\ tip[n] \in Block
  BY DEF TypeOK
<1>2. SelectTransactions(pool[n], MaxTxPerBlock, MaxBlockBytes) \in Seq(Tx)
  BY <1>1, SelectTransactionsIs, ChainAssumption DEF ChainAssumption
<1>3. tip[n].height + 1 \in Nat
  BY <1>1 DEF Block
<1>4. Hash(tip[n]) \in Seq(Seq(Tx))
  <2>1. tip[n].prev \in Seq(Seq(Tx)) /\ tip[n].txs \in Seq(Tx)
    BY <1>1 DEF Block
  <2> QED BY <2>1 DEF Hash
<1> QED BY <1>2, <1>3, <1>4 DEF ProposedBlock, Block

LEMMA CommitTypes ==
  ASSUME TypeOK, NEW n \in Node, NEW b \in Block, Commit(n, b)
  PROVE  /\ pool' \in [Node -> Pools]
         /\ utxo' \in [Node -> SUBSET Outpoints]
         /\ index' \in [Node -> Indexes]
<1>1. b.txs \in Seq(Tx) /\ b.height \in Nat
  BY DEF Block
<1>2. /\ pool \in [Node -> Pools] /\ utxo \in [Node -> SUBSET Outpoints]
      /\ index \in [Node -> Indexes]
  BY DEF TypeOK
<1>3. RemoveConfirmed(pool[n], b.txs) \in Pools
  BY <1>1, <1>2, RemoveConfirmedInPools
<1>4. ApplyBlock(ApplyValidated(utxo[n], b), b) \in SUBSET Outpoints
  <2>1. ApplyBlock(utxo[n], b) \in SUBSET Outpoints
    BY <1>1, <1>2, ApplyBlockInOutpoints
  <2> QED BY <1>1, <2>1, ApplyBlockInOutpoints DEF ApplyValidated
<1>5. IndexBlock(index[n], b.txs, b.height) \in Indexes
  BY <1>1, <1>2, IndexBlockInIndexes
<1> QED BY <1>2, <1>3, <1>4, <1>5 DEF Commit

\* Where a restarted node resumes.
LEMMA ResumesAtTip ==
  ASSUME BlocksInv, NEW n \in Node
  PROVE  LatestBlock(store[n]) = tip[n]
<1>1. Height(n) \in Nat /\ DOMAIN store[n] = 0 .. Height(n)
  BY StoredBlocks DEF BlocksInv
<1>2. Max(DOMAIN store[n]) = Height(n)
  BY <1>1, MaxOfRange
<1> QED BY <1>2 DEF LatestBlock, BlocksInv, StoreIsChain

\* The block that a crash interrupts is saved, and the node resumes on it.
LEMMA CrashAppends ==
  ASSUME ChainInv, NEW n \in Node, NEW b \in sent \cup {ProposedBlock(Validator)},
         CrashInCommit(n, b)
  PROVE  b \in Block /\ Appends(n, b)
<1>0. TypeOK /\ BlocksOK /\ Validator \in Node
  BY ChainInvParts, TypeOKParts, ChainAssumption DEF ChainInv, ChainAssumption
<1>1. b \in Block
  BY <1>0, ProposedIsBlock DEF BlocksOK
<1>2. LinkValid(b, tip[n]) /\ (n # Validator => b \in sent)
  BY DEF CrashInCommit, Proposes, BlockValid
<1>3. store' = [store EXCEPT ![n] = SaveBlock(@, b)]
  BY DEF CrashInCommit
<1>4. Height(n) \in Nat /\ DOMAIN store[n] = 0 .. Height(n) /\ b.height = Height(n) + 1
  BY <1>0, <1>2, StoredBlocks DEF LinkValid, Height
<1>5. DOMAIN store[n] \cup {b.height} = 0 .. b.height
  BY <1>4
<1>6. /\ DOMAIN SaveBlock(store[n], b) = 0 .. b.height
      /\ SaveBlock(store[n], b)[b.height] = b
  <2>1. b.height \in 0 .. b.height  BY <1>4
  <2> QED BY <1>5, <2>1 DEF SaveBlock
<1>7. LatestBlock(SaveBlock(store[n], b)) = b
  <2>1. Max(0 .. b.height) = b.height  BY <1>4, MaxOfRange
  <2> QED BY <1>6, <2>1 DEF LatestBlock
<1>8. store'[n] = SaveBlock(store[n], b)
  BY <1>0, <1>3 DEF BlocksOK
<1>9. tip' = [tip EXCEPT ![n] = b]
  BY <1>7, <1>8 DEF CrashInCommit, Restarted
<1>10. sent' = sent
  BY DEF CrashInCommit
<1> QED BY <1>1, <1>2, <1>3, <1>9, <1>10 DEF Appends

(***************************************************************************)
(* A step appends a linked block to one node's chain, or changes no chain. *)
(***************************************************************************)
LEMMA StepAppends ==
  ASSUME ChainInv, Next
  PROVE  \/ \E n \in Node, b \in Block : Appends(n, b)
         \/ UNCHANGED <<tip, store, sent>>
<1>0. TypeOK /\ BlocksInv /\ BlocksOK
  BY ChainInvParts DEF ChainInv, BlocksInv
<1>v. Validator \in Node
  BY ChainAssumption DEF ChainAssumption
<1>1. ASSUME NEW n \in Node, NEW t \in Tx, Submit(n, t) \/ Post(n, t)
      PROVE  UNCHANGED <<tip, store, sent>>
  BY <1>1 DEF Submit, Post
<1>2. CASE Propose
  <2> DEFINE b == ProposedBlock(Validator)
  <2>1. b \in Block  BY <1>0, <1>v, ProposedIsBlock
  <2>2. Appends(Validator, b)
    BY <1>2 DEF Propose, Proposes, BlockValid, Commit, Appends
  <2> QED BY <1>v, <2>1, <2>2
<1>3. ASSUME NEW n \in Node, NEW b \in sent, ReceiveBlock(n, b)
      PROVE  b \in Block /\ Appends(n, b)
  BY <1>0, <1>3 DEF ReceiveBlock, BlockValid, Commit, Appends, BlocksOK
<1>4. ASSUME NEW n \in Node, Restart(n)
      PROVE  UNCHANGED <<tip, store, sent>>
  <2>1. tip' = [tip EXCEPT ![n] = LatestBlock(store[n])]
    BY <1>4 DEF Restart, Restarted
  <2>2. tip' = tip
    BY <1>0, <2>1, ResumesAtTip DEF BlocksOK
  <2> QED BY <1>4, <2>2 DEF Restart
<1>5. ASSUME NEW n \in Node, NEW b \in sent \cup {ProposedBlock(Validator)},
             CrashInCommit(n, b)
      PROVE  b \in Block /\ Appends(n, b)
  BY <1>5, CrashAppends
<1> QED BY <1>1, <1>2, <1>3, <1>4, <1>5 DEF Next

LEMMA StepKeepsRest ==
  ASSUME ChainInv, Next
  PROVE  RestOK'
<1>0. TypeOK /\ RestOK
  BY ChainInvParts DEF ChainInv
<1>v. Validator \in Node
  BY ChainAssumption DEF ChainAssumption
<1>r. ASSUME NEW n \in Node, Restarted(n)
      PROVE  /\ pool' \in [Node -> Pools]
             /\ utxo' \in [Node -> SUBSET Outpoints]
             /\ restarts' \in [Node -> Nat]
  <2>1. EmptyPool \in Pools  BY DEF EmptyPool, Pools
  <2> QED BY <1>0, <1>r, <2>1 DEF Restarted, RestOK
<1>1. ASSUME NEW n \in Node, NEW t \in Tx, Submit(n, t) \/ Post(n, t) PROVE RestOK'
  <2>1. AddTx(pool[n], t) \in Pools  BY <1>0, AddTxInPools DEF RestOK
  <2> QED BY <1>0, <1>1, <2>1 DEF Submit, Post, RestOK
<1>2. CASE Propose
  <2>1. ProposedBlock(Validator) \in Block  BY <1>0, <1>v, ProposedIsBlock
  <2>2. Commit(Validator, ProposedBlock(Validator)) /\ restarts' = restarts
    BY <1>2 DEF Propose
  <2> QED BY <1>0, <1>v, <2>1, <2>2, CommitTypes DEF RestOK
<1>3. ASSUME NEW n \in Node, NEW b \in sent, ReceiveBlock(n, b) PROVE RestOK'
  <2>1. b \in Block  BY <1>0 DEF TypeOK
  <2>2. Commit(n, b) /\ restarts' = restarts  BY <1>3 DEF ReceiveBlock
  <2> QED BY <1>0, <2>1, <2>2, CommitTypes DEF RestOK
<1>4. ASSUME NEW n \in Node, Restart(n) PROVE RestOK'
  BY <1>0, <1>4, <1>r DEF Restart, RestOK
<1>5. ASSUME NEW n \in Node, NEW b \in sent \cup {ProposedBlock(Validator)},
             CrashInCommit(n, b)
      PROVE  RestOK'
  <2>1. b \in Block
    BY <1>0, <1>v, ProposedIsBlock DEF TypeOK
  <2>2. b.txs \in Seq(Tx) /\ b.height \in Nat
    BY <2>1 DEF Block
  <2>3. index[n] \in Indexes
    BY <1>0 DEF RestOK
  <2>4. TornIndexes(index[n], b) \subseteq Indexes
    BY <2>2, <2>3, TornIndexesInIndexes
  <2>5. index' \in [Node -> Indexes]
    BY <1>0, <1>5, <2>4 DEF CrashInCommit, RestOK
  <2> QED BY <1>5, <1>r, <2>5 DEF CrashInCommit, RestOK
<1> QED BY <1>1, <1>2, <1>3, <1>4, <1>5 DEF Next

-----------------------------------------------------------------------------
(***************************************************************************)
(* What a step is to one node: nothing but a transaction more in its pool, *)
(* a block committed, a restart, or a death while a block is committed.    *)
(***************************************************************************)
Extends(n, b) ==
  /\ BlockValid(b, tip[n], utxo[n])
  /\ tip'[n] = b
  /\ b.height = Height(n) + 1
  /\ store'[n] = [h \in 0 .. b.height |-> IF h = b.height THEN b ELSE store[n][h]]
  /\ n = Validator => b = ProposedBlock(Validator)

Keeps(n) ==
  /\ UNCHANGED <<tip[n], store[n], utxo[n], index[n], restarts[n]>>
  /\ \/ UNCHANGED pool[n]
     \/ \E t \in Tx : t \notin pool[n].entries /\ pool'[n] = AddTx(pool[n], t)

Commits(n, b) ==
  /\ Extends(n, b)
  /\ utxo'[n] = ApplyBlock(utxo[n], b)
  /\ pool'[n] = RemoveConfirmed(pool[n], b.txs)
  /\ index'[n] = IndexBlock(index[n], b.txs, b.height)
  /\ UNCHANGED restarts[n]

Loses(n) ==
  /\ utxo'[n] = {}
  /\ pool'[n] = EmptyPool
  /\ restarts'[n] = restarts[n] + 1

Restarts(n) == Loses(n) /\ UNCHANGED <<tip[n], store[n], index[n]>>

Crashes(n, b) == Loses(n) /\ Extends(n, b) /\ index'[n] \in TornIndexes(index[n], b)

LEMMA CommitIs ==
  ASSUME ChainInv, NEW n \in Node, NEW b \in Block, Appends(n, b),
         BlockValid(b, tip[n], utxo[n]), n = Validator => b = ProposedBlock(Validator),
         Commit(n, b), UNCHANGED restarts, NEW m \in Node
  PROVE  Keeps(m) \/ Commits(m, b)
<1>0. TypeOK /\ BlocksOK /\ RestOK /\ b.txs \in Seq(Tx)
  BY ChainInvParts, TypeOKParts DEF ChainInv, Block
<1>1. CASE m # n
  BY <1>0, <1>1 DEF Commit, Keeps, TypeOK
<1>2. CASE m = n
  <2>1. Extends(n, b)
    BY <1>0, AppendsIs DEF Extends
  <2>2. /\ utxo'[n] = ApplyBlock(ApplyBlock(utxo[n], b), b)
        /\ pool'[n] = RemoveConfirmed(pool[n], b.txs)
        /\ index'[n] = IndexBlock(index[n], b.txs, b.height)
    BY <1>0 DEF Commit, ApplyValidated, RestOK
  <2>3. utxo'[n] = ApplyBlock(utxo[n], b)
    BY <1>0, <2>2, ApplyBlockTwice
  <2> QED BY <1>2, <2>1, <2>2, <2>3 DEF Commits
<1> QED BY <1>1, <1>2

LEMMA RestartedIs ==
  ASSUME ChainInv, NEW n \in Node, Restarted(n)
  PROVE  /\ Loses(n)
         /\ \A m \in Node \ {n} : UNCHANGED <<tip[m], utxo[m], pool[m], restarts[m]>>
<1>0. BlocksOK /\ RestOK
  BY ChainInvParts DEF BlocksInv
<1> QED BY <1>0 DEF Restarted, Loses, BlocksOK, RestOK

\* The validator commits blocks of its own only: what was sent is stored.
LEMMA ValidatorOwnBlocks ==
  ASSUME ChainInv, NEW b \in sent, LinkValid(b, tip[Validator])
  PROVE  FALSE
<1>0. BlocksOK /\ Validator \in Node
  BY ChainInvParts, ChainAssumption DEF BlocksInv, ChainAssumption
<1>1. b.height \in 0 .. Height(Validator) /\ Height(Validator) \in Nat
  BY <1>0, StoredBlocks DEF ChainInv, SentIsStored
<1>2. b.height = Height(Validator) + 1
  BY DEF LinkValid, Height
<1> QED BY <1>1, <1>2

LEMMA NodeStep ==
  ASSUME ChainInv, [Next]_vars, NEW m \in Node
  PROVE  \/ Keeps(m)
         \/ \E b \in Block : Commits(m, b) \/ Crashes(m, b)
         \/ Restarts(m)
<1>0. TypeOK /\ BlocksInv /\ BlocksOK /\ RestOK /\ Validator \in Node
  BY ChainInvParts, TypeOKParts, ChainAssumption DEF BlocksInv, ChainAssumption
<1>1. ASSUME NEW n \in Node, NEW t \in Tx, Submit(n, t) \/ Post(n, t) PROVE Keeps(m)
  BY <1>0, <1>1 DEF Submit, Post, Keeps, TypeOK
<1>2. CASE Propose
  <2> DEFINE b == ProposedBlock(Validator)
  <2>1. b \in Block  BY <1>0, ProposedIsBlock
  <2>2. /\ BlockValid(b, tip[Validator], utxo[Validator])
        /\ Commit(Validator, b) /\ UNCHANGED restarts
        /\ Appends(Validator, b)
    BY <1>2 DEF Propose, Proposes, BlockValid, Commit, Appends
  <2> HIDE DEF b
  <2>3. Keeps(m) \/ Commits(m, b)
    BY <1>0, <2>1, <2>2, CommitIs DEF b
  <2> QED BY <2>1, <2>3
<1>3. ASSUME NEW n \in Node, NEW b \in sent, ReceiveBlock(n, b)
      PROVE  Keeps(m) \/ (b \in Block /\ Commits(m, b))
  <2>1. b \in Block /\ Appends(n, b)
    BY <1>0, <1>3 DEF ReceiveBlock, BlockValid, Commit, Appends, BlocksOK
  <2>2. /\ BlockValid(b, tip[n], utxo[n]) /\ LinkValid(b, tip[n])
        /\ Commit(n, b) /\ UNCHANGED restarts
    BY <1>3 DEF ReceiveBlock, BlockValid
  <2>3. n # Validator
    BY <2>2, ValidatorOwnBlocks
  <2> QED BY <1>0, <2>1, <2>2, <2>3, CommitIs
<1>4. ASSUME NEW n \in Node, Restart(n) PROVE Keeps(m) \/ Restarts(m)
  <2>1. Loses(n) /\ \A k \in Node \ {n} : UNCHANGED <<tip[k], utxo[k], pool[k], restarts[k]>>
    BY <1>4, RestartedIs DEF Restart
  <2>2. UNCHANGED <<store, index, sent>>
    BY <1>4 DEF Restart
  <2>3. tip'[n] = tip[n]
    <3>1. tip' = [tip EXCEPT ![n] = LatestBlock(store[n])]
      BY <1>4 DEF Restart, Restarted
    <3> QED BY <1>0, <3>1, ResumesAtTip DEF BlocksOK
  <2> QED BY <2>1, <2>2, <2>3 DEF Keeps, Restarts
<1>5. ASSUME NEW n \in Node, NEW b \in sent \cup {ProposedBlock(Validator)},
             CrashInCommit(n, b)
      PROVE  Keeps(m) \/ (b \in Block /\ Crashes(m, b))
  <2>1. b \in Block /\ Appends(n, b)
    BY <1>0, <1>5, CrashAppends
  <2>2. Loses(n) /\ \A k \in Node \ {n} : UNCHANGED <<tip[k], utxo[k], pool[k], restarts[k]>>
    BY <1>5, RestartedIs DEF CrashInCommit
  <2>3. /\ \A k \in Node \ {n} : index'[k] = index[k]
        /\ index'[n] \in TornIndexes(index[n], b)
    BY <1>0, <1>5 DEF CrashInCommit, RestOK
  <2>4. BlockValid(b, tip[n], utxo[n]) /\ (n = Validator => b = ProposedBlock(Validator))
    BY <1>5 DEF CrashInCommit, Proposes
  <2>5. CASE m = n
    <3>1. Extends(n, b)
      BY <1>0, <2>1, <2>4, AppendsIs DEF Extends
    <3> QED BY <2>1, <2>2, <2>3, <2>5, <3>1 DEF Crashes
  <2>6. CASE m # n
    <3>1. store'[m] = store[m]
      BY <1>0, <2>1, <2>6, AppendsIs
    <3> QED BY <2>2, <2>3, <2>6, <3>1 DEF Keeps
  <2> QED BY <2>5, <2>6
<1>6. CASE UNCHANGED vars
  BY <1>6 DEF vars, Keeps
<1> QED BY <1>1, <1>2, <1>3, <1>4, <1>5, <1>6 DEF Next

-----------------------------------------------------------------------------
(* Every node's store is one linked chain that a prefix of the validator's, *)
(* up to its tip, and nothing broadcast is ever missing from it, whatever   *)
(* crashes, restarts and delays the nodes go through.                       *)
THEOREM ReplicationInvariant == Spec => []ChainInv
<1>1. Init => ChainInv
  <2> SUFFICES ASSUME Init PROVE BlocksInv /\ RestOK
    BY ChainInvParts
  <2>1. Genesis \in Block /\ Genesis.height = 0 /\ Hash(Genesis) = <<Genesis.txs>>
    BY DEF Genesis, Block, Hash
  <2>2. \A n \in Node : tip[n] = Genesis /\ Height(n) = 0 /\ store[n] = [h \in {0} |-> Genesis]
    BY <2>1 DEF Init, Height
  <2>3. 0 .. 0 = {0} /\ 1 .. 0 = {}
    OBVIOUS
  <2>4. RestOK
    <3>1. EmptyPool \in Pools  BY DEF EmptyPool, Pools
    <3>2. EmptyIndex \in Indexes  BY DEF EmptyIndex, Indexes
    <3>3. Funded \in SUBSET Outpoints  BY DEF Funded, Outpoints
    <3> QED BY <3>1, <3>2, <3>3 DEF Init, RestOK
  <2>5. BlocksOK
    BY <2>1, <2>2, <2>3 DEF Init, BlocksOK
  <2>6. StoreIsChain
    BY <2>2, <2>3 DEF StoreIsChain
  <2>7. HistoryIsStored
    <3>1. \A n \in Node : History(n) = <<Genesis.txs>>  BY <2>1, <2>2 DEF History
    <3>2. Len(<<Genesis.txs>>) = 1 /\ <<Genesis.txs>>[1] = Genesis.txs  OBVIOUS
    <3> SUFFICES ASSUME NEW n \in Node
                 PROVE  /\ Len(History(n)) = Height(n) + 1
                        /\ \A h \in 0 .. Height(n) : History(n)[h + 1] = store[n][h].txs
      BY DEF HistoryIsStored
    <3>3. store[n][0] = Genesis /\ Height(n) = 0 /\ 0 .. Height(n) = {0} /\ 0 + 1 = 1
      BY <2>2, <2>3
    <3> QED BY <3>1, <3>2, <3>3
  <2>8. SentIsStored /\ ValidatorLeads
    BY <2>2, ChainAssumption DEF Init, SentIsStored, ValidatorLeads, ChainAssumption
  <2> QED BY <2>4, <2>5, <2>6, <2>7, <2>8 DEF BlocksInv
<1>2. ChainInv /\ [Next]_vars => ChainInv'
  <2> SUFFICES ASSUME ChainInv, [Next]_vars PROVE BlocksInv' /\ RestOK'
    BY DEF ChainInv, TypeOK, BlocksInv, BlocksOK, RestOK
  <2>0. BlocksInv /\ RestOK  BY ChainInvParts
  <2>1. ASSUME UNCHANGED <<tip, store, sent>> PROVE BlocksInv'
    BY <2>0, <2>1 DEF BlocksInv, BlocksOK, StoreIsChain, HistoryIsStored, SentIsStored,
                      ValidatorLeads, Height, History
  <2>2. CASE Next
    <3>1. RestOK'  BY <2>2, StepKeepsRest
    <3>2. BlocksInv'  BY <2>0, <2>1, <2>2, StepAppends, AppendsKeepsBlocks
    <3> QED BY <3>1, <3>2
  <2>3. CASE UNCHANGED vars
    BY <2>0, <2>1, <2>3 DEF vars, RestOK
  <2> QED BY <2>2, <2>3
<1> QED BY <1>1, <1>2, PTL DEF Spec

(* No two nodes store different blocks at one height.                       *)
THEOREM NodesAgree == Spec => []Agreement
<1>1. ChainInv => Agreement
  BY DEF ChainInv, ValidatorLeads, Agreement
<1> QED BY <1>1, ReplicationInvariant, PTL

(* The nodes implement one replicated chain: the validator's history only   *)
(* grows, and every other node copies the next list of it.  A crash, even   *)
(* between the save of a block and its broadcast, is a step of that chain   *)
(* or none.                                                                 *)
THEOREM ChainIsReplicated == Spec => RefinesReplicatedChain
<1> DEFINE chains == [n \in Node |-> History(n)]
<1>1. Init => R!Init
  <2> SUFFICES ASSUME Init PROVE chains = [n \in Node |-> << <<>> >>]
    BY DEF R!Init
  <2>1. Genesis.prev = <<>> /\ Genesis.txs = <<>>
    BY DEF Genesis
  <2>2. \A n \in Node : History(n) = Append(<<>>, <<>>)
    BY <2>1 DEF Init, History, Hash
  <2> QED BY <2>2
<1>2. ChainInv /\ [Next]_vars => [R!Next]_chains
  <2> SUFFICES ASSUME ChainInv, [Next]_vars PROVE R!Next \/ chains' = chains
    OBVIOUS
  <2>0. BlocksInv /\ BlocksOK /\ HistoryIsStored /\ Validator \in Node
    BY ChainInvParts, ChainAssumption DEF BlocksInv, ChainAssumption
  <2>1. ASSUME UNCHANGED tip PROVE chains' = chains
    BY <2>1 DEF History
  <2>2. ASSUME NEW n \in Node, NEW b \in Block, Appends(n, b) PROVE R!Next
    <3>1. /\ b.height = Height(n) + 1 /\ b.prev = History(n)
          /\ tip' \in [Node -> Block]
          /\ tip'[n] = b /\ \A m \in Node \ {n} : tip'[m] = tip[m]
      BY <2>0, <2>2, AppendsIs
    <3>2. /\ Height(n) \in Nat /\ Height(Validator) \in Nat
          /\ DOMAIN store[Validator] = 0 .. Height(Validator)
      BY <2>0, StoredBlocks
    <3>3. \A m \in Node : Len(History(m)) = Height(m) + 1
      BY <2>0 DEF HistoryIsStored
    <3>4. History(n) \in Seq(Seq(Tx)) /\ b.txs \in Seq(Tx)
      BY <3>1 DEF Block
    <3>5. chains' = [chains EXCEPT ![n] = Append(@, b.txs)]
      <4>1. History(n)' = Append(History(n), b.txs)  BY <3>1 DEF History, Hash
      <4>2. \A m \in Node \ {n} : History(m)' = History(m)  BY <3>1 DEF History
      <4> QED BY <4>1, <4>2
    <3>6. CASE n = Validator
      <4> DEFINE grown == chains'[Validator]
      <4>1. grown = Append(History(Validator), b.txs)  BY <3>5, <3>6
      <4>2. Len(grown) = Len(History(Validator)) + 1 /\ grown[Len(grown)] = b.txs
        BY <3>4, <3>6, <4>1
      <4>3. chains[Validator] = History(Validator)  BY <2>0
      <4> HIDE DEF chains
      <4>4. /\ Len(chains'[Validator]) = Len(chains[Validator]) + 1
            /\ chains' = [chains EXCEPT ![Validator] = Append(@, chains'[Validator][Len(chains'[Validator])])]
        BY <3>5, <3>6, <4>2, <4>3
      <4> QED BY <4>4 DEF R!Next, R!Extend, chains
    <3>7. CASE n # Validator
      <4>1. b \in sent  BY <2>2, <3>7 DEF Appends
      <4>2. b.height \in DOMAIN store[Validator] /\ store[Validator][b.height] = b
        BY <2>0, <4>1 DEF BlocksInv, SentIsStored
      <4>3. b.height <= Height(Validator) /\ b.height \in 0 .. Height(Validator)
        BY <3>2, <4>2
      <4>4. Len(History(n)) < Len(History(Validator))
        BY <2>0, <3>1, <3>2, <3>3, <4>3
      <4>5. History(Validator)[b.height + 1] = b.txs
        BY <2>0, <4>2, <4>3 DEF HistoryIsStored
      <4>6. b.height + 1 = Len(History(n)) + 1
        BY <3>1, <3>2, <3>3
      <4>7. History(Validator)[Len(History(n)) + 1] = b.txs
        BY <4>5, <4>6
      <4>8. chains[n] = History(n) /\ chains[Validator] = History(Validator)
        BY <2>0
      <4> HIDE DEF chains
      <4>9. /\ Len(chains[n]) < Len(chains[Validator])
            /\ chains' = [chains EXCEPT ![n] = Append(@, chains[Validator][Len(@) + 1])]
        BY <3>5, <4>4, <4>7, <4>8
      <4>10. n \in Node \ {Validator}  BY <3>7
      <4> QED BY <4>9, <4>10 DEF R!Next, R!Copy, chains
    <3> QED BY <3>6, <3>7
  <2>3. CASE Next
    BY <2>1, <2>2, <2>3, StepAppends
  <2>4. CASE UNCHANGED vars
    BY <2>1, <2>4 DEF vars
  <2> QED BY <2>3, <2>4
<1> QED BY <1>1, <1>2, ReplicationInvariant, PTL DEF Spec, RefinesReplicatedChain, R!Spec

-----------------------------------------------------------------------------
\* An extension leaves the chain below it.
LEMMA ExtendsIs ==
  ASSUME ChainInv, NEW n \in Node, NEW b \in Block, Extends(n, b)
  PROVE  /\ Height(n) \in Nat /\ Height(n)' = Height(n) + 1
         /\ DOMAIN store[n] = 0 .. Height(n)
         /\ DOMAIN store'[n] = 0 .. Height(n) + 1
         /\ store'[n][Height(n) + 1] = b
         /\ \A h \in 0 .. Height(n) : store'[n][h] = store[n][h] /\ store[n][h] \in Block
<1> DEFINE k == Height(n)
<1>0. k \in Nat /\ DOMAIN store[n] = 0 .. k /\ \A h \in 0 .. k : store[n][h] \in Block
  BY StoredBlocks, ChainInvParts DEF BlocksInv
<1>1. Height(n)' = k + 1
  BY DEF Extends, Height
<1>2. store'[n] = [h \in 0 .. k + 1 |-> IF h = k + 1 THEN b ELSE store[n][h]]
  BY DEF Extends
<1> HIDE DEF k
<1>3. k + 1 \in 0 .. k + 1 /\ \A h \in 0 .. k : h \in 0 .. k + 1 /\ h # k + 1
  BY <1>0
<1> QED BY <1>0, <1>1, <1>2, <1>3 DEF k

(* A node that has not restarted has the UTXO set that a replay of its      *)
(* chain gives.                                                             *)
THEOREM UtxoStaysReplay == Spec => []UtxoIsReplay
<1> DEFINE Replayed(n) == restarts[n] = 0 => utxo[n] = Replay(Funded, Blocks(n))
<1>0. UtxoIsReplay <=> \A n \in Node : Replayed(n)
  BY DEF UtxoIsReplay, Replay, Blocks
<1>1. Init => UtxoIsReplay
  <2> SUFFICES ASSUME Init, NEW n \in Node PROVE Replayed(n)
    BY <1>0
  <2>1. utxo[n] = Funded /\ Height(n) = 0
    BY DEF Init, Height, Genesis
  <2>2. Blocks(n) \in Seq(Block) /\ Len(Blocks(n)) = 0
    BY <2>1 DEF Blocks
  <2>3. Replay(Funded, Blocks(n)) = Funded
    <3>1. PICK bs \in Seq(Block) : bs = Blocks(n)
      BY <2>2
    <3>2. PICK r : r[0] = Funded /\ Replay(Funded, bs) = r[Len(bs)]
      BY ReplayRun
    <3> QED BY <2>2, <3>1, <3>2
  <2> QED BY <2>1, <2>3
<1>2. ChainInv /\ UtxoIsReplay /\ [Next]_vars => UtxoIsReplay'
  <2> SUFFICES ASSUME ChainInv, UtxoIsReplay, [Next]_vars, NEW n \in Node PROVE Replayed(n)'
    BY DEF UtxoIsReplay, Replay, Blocks
  <2>0. Replayed(n) /\ restarts[n] \in Nat
    BY <1>0 DEF ChainInv, TypeOK
  <2>1. CASE Keeps(n)
    BY <2>0, <2>1 DEF Keeps, Blocks, Height
  <2>2. ASSUME NEW b \in Block, Commits(n, b) PROVE Replayed(n)'
    <3> DEFINE k == Height(n)
    <3>1. /\ k \in Nat /\ Height(n)' = k + 1
          /\ store'[n][k + 1] = b
          /\ \A h \in 0 .. k : store'[n][h] = store[n][h] /\ store[n][h] \in Block
      BY <2>2, ExtendsIs DEF Commits
    <3>2. /\ Blocks(n) \in [1 .. k -> Block]
          /\ Blocks(n)' \in [1 .. k + 1 -> Block]
          /\ Blocks(n)'[k + 1] = b
          /\ \A h \in 1 .. k : Blocks(n)'[h] = Blocks(n)[h]
      <4>1. /\ Blocks(n) = [h \in 1 .. k |-> store[n][h]]
            /\ Blocks(n)' = [h \in 1 .. k + 1 |-> store'[n][h]]
        BY <3>1 DEF Blocks
      <4>2. ASSUME NEW h \in 1 .. k + 1
            PROVE  h \in 0 .. k \/ h = k + 1
        BY <3>1
      <4>3. \A h \in 1 .. k : h \in 0 .. k /\ h \in 1 .. k + 1
        BY <3>1
      <4>4. k + 1 \in 1 .. k + 1
        BY <3>1
      <4> HIDE DEF k
      <4> QED BY <3>1, <4>1, <4>2, <4>3, <4>4
    <3> HIDE DEF k
    <3>3. Replay(Funded, Blocks(n)') = ApplyBlock(Replay(Funded, Blocks(n)), b)
      BY <3>1, <3>2, ReplayGrows
    <3> QED BY <2>0, <2>2, <3>3 DEF Commits
  <2>3. CASE Loses(n)
    BY <2>0, <2>3 DEF Loses
  <2> QED BY <2>1, <2>2, <2>3, NodeStep DEF Restarts, Crashes
<1> QED BY <1>1, <1>2, ReplicationInvariant, PTL DEF Spec

-----------------------------------------------------------------------------
(***************************************************************************)
(* What a block does to the UTXO set and to the index, as one step.        *)
(***************************************************************************)
Consumed(s) == UNION {ToSet(Inputs[s[i]]) : i \in 1 .. Len(s)}

Created(S) == UNION {OutpointsOf(t) : t \in S}

NonZero(S) == {o \in S : Amount(o) # 0}

\* The same up to round i.
ConsumedTo(s, i) == UNION {ToSet(Inputs[s[j]]) : j \in 1 .. i}

CreatedTo(s, i) == UNION {OutpointsOf(s[j]) : j \in 1 .. i}

LEMMA EffectRounds ==
  ASSUME NEW s \in Seq(Tx)
  PROVE  /\ ConsumedTo(s, 0) = {} /\ CreatedTo(s, 0) = {}
         /\ \A i \in 1 .. Len(s) :
              /\ ConsumedTo(s, i) = ConsumedTo(s, i - 1) \cup ToSet(Inputs[s[i]])
              /\ CreatedTo(s, i) = CreatedTo(s, i - 1) \cup OutpointsOf(s[i])
              /\ ConsumedTo(s, i) \subseteq Consumed(s)
              /\ CreatedTo(s, i) \subseteq Created(ToSet(s))
         /\ ConsumedTo(s, Len(s)) = Consumed(s)
         /\ CreatedTo(s, Len(s)) = Created(ToSet(s))
<1> DEFINE n == Len(s)
<1>1. n \in Nat /\ ToSet(s) = {s[i] : i \in 1 .. n}
  BY ToSetIs
<1>2. ConsumedTo(s, 0) = {} /\ CreatedTo(s, 0) = {}
  BY DEF ConsumedTo, CreatedTo
<1>3. CreatedTo(s, n) = Created(ToSet(s)) /\ ConsumedTo(s, n) = Consumed(s)
  BY <1>1 DEF CreatedTo, Created, ConsumedTo, Consumed
<1> HIDE DEF n
<1>4. ASSUME NEW i \in 1 .. n
      PROVE  /\ ConsumedTo(s, i) = ConsumedTo(s, i - 1) \cup ToSet(Inputs[s[i]])
             /\ CreatedTo(s, i) = CreatedTo(s, i - 1) \cup OutpointsOf(s[i])
             /\ ConsumedTo(s, i) \subseteq ConsumedTo(s, n)
             /\ CreatedTo(s, i) \subseteq CreatedTo(s, n)
  <2>1. \A j : j \in 1 .. i <=> j \in 1 .. i - 1 \/ j = i
    BY <1>1
  <2>2. \A j : j \in 1 .. i => j \in 1 .. n
    BY <1>1
  <2> QED BY <2>1, <2>2 DEF ConsumedTo, CreatedTo
<1> QED BY <1>2, <1>3, <1>4 DEF n

\* When no transaction of a block spends what the block creates.
LEMMA BlockEffect ==
  ASSUME NEW u, NEW b, b.txs \in Seq(Tx),
         Consumed(b.txs) \cap Created(ToSet(b.txs)) = {}
  PROVE  ApplyBlock(u, b) = (u \ Consumed(b.txs)) \cup NonZero(Created(ToSet(b.txs)))
<1> DEFINE s == b.txs
           n == Len(s)
<1>1. n \in Nat /\ s \in Seq(Tx)
  OBVIOUS
<1>2. PICK r : /\ r[0] = u /\ \A i \in 1 .. n : r[i] = ApplyTx(r[i - 1], s[i])
               /\ ApplyBlock(u, b) = r[n]
  BY ApplyRun
<1>3. Consumed(s) \cap Created(ToSet(s)) = {}
  OBVIOUS
<1> HIDE DEF s, n
<1> DEFINE Good == {i \in 0 .. n : r[i] = (u \ ConsumedTo(s, i)) \cup NonZero(CreatedTo(s, i))}
<1>4. 0 \in Good
  BY <1>1, <1>2, EffectRounds DEF NonZero
<1>5. ASSUME NEW i \in 1 .. n, i - 1 \in Good PROVE i \in Good
  <2>1. i \in 0 .. n  BY <1>1
  <2>2. r[i] = ApplyTx(r[i - 1], s[i])  BY <1>2
  <2>3. r[i - 1] = (u \ ConsumedTo(s, i - 1)) \cup NonZero(CreatedTo(s, i - 1))
    BY <1>5
  <2>4. /\ ConsumedTo(s, i) = ConsumedTo(s, i - 1) \cup ToSet(Inputs[s[i]])
        /\ CreatedTo(s, i) = CreatedTo(s, i - 1) \cup OutpointsOf(s[i])
        /\ ConsumedTo(s, i) \cap CreatedTo(s, i) = {}
    BY <1>1, <1>3, EffectRounds DEF n
  <2>5. r[i] = (u \ ConsumedTo(s, i)) \cup NonZero(CreatedTo(s, i))
    BY <2>2, <2>3, <2>4 DEF ApplyTx, NonZero
  <2> QED BY <2>1, <2>5
<1>6. n \in Good
  <2>1. 0 .. n \subseteq Good
    <3> HIDE DEF Good
    <3> QED BY <1>1, <1>4, <1>5, Induct
  <2> QED BY <1>1, <2>1
<1>7. ConsumedTo(s, n) = Consumed(s) /\ CreatedTo(s, n) = Created(ToSet(s))
  BY <1>1, EffectRounds DEF n
<1> QED BY <1>2, <1>6, <1>7 DEF s

\* All the rows of a transaction.
LEMMA IndexTxIs ==
  ASSUME NEW ix \in Indexes, NEW t \in Tx, NEW h \in Nat
  PROVE  /\ IndexTx(ix, t, h).height = [ix.height EXCEPT ![t] = h]
         /\ IndexTx(ix, t, h).unspent = (ix.unspent \cup OutpointsOf(t)) \ ToSet(Inputs[t])
<1> DEFINE o == Len(Outputs[t])
           k == Len(Inputs[t])
<1>1. o \in Nat /\ k \in Nat /\ DOMAIN Inputs[t] = 1 .. k /\ Rows(t) = 1 + o + k
  BY LedgerAssumption DEF LedgerAssumption, Rows
<1>2. ToSet(Inputs[t]) = {Inputs[t][i] : i \in 1 .. k}
  BY <1>1 DEF ToSet
<1>3. OutpointsOf(t) = {<<t, i>> : i \in 1 .. o}
  BY DEF OutpointsOf
<1> HIDE DEF o, k
<1>4. Rows(t) # 0 /\ \A i \in 1 .. k : o + i < Rows(t)
  BY <1>1
<1>5. \A i \in 1 .. o : i < Rows(t)
  BY <1>1
<1>6. {p \in OutpointsOf(t) : p[2] < Rows(t)} = OutpointsOf(t)
  BY <1>3, <1>5
<1>7. {i \in DOMAIN Inputs[t] : o + i < Rows(t)} = 1 .. k
  BY <1>1, <1>4
<1>8. {Inputs[t][i] : i \in {i \in DOMAIN Inputs[t] : o + i < Rows(t)}} = ToSet(Inputs[t])
  BY <1>2, <1>7
<1> QED BY <1>4, <1>6, <1>8 DEF IndexTx, IndexRows, o

LEMMA IndexEffect ==
  ASSUME NEW ix \in Indexes, NEW s \in Seq(Tx), NEW h \in Nat
  PROVE  /\ \A t \in Tx : IndexBlock(ix, s, h).height[t] =
                            IF t \in ToSet(s) THEN h ELSE ix.height[t]
         /\ Consumed(s) \cap Created(ToSet(s)) = {} =>
              IndexBlock(ix, s, h).unspent = (ix.unspent \cup Created(ToSet(s))) \ Consumed(s)
<1> DEFINE n == Len(s)
<1>1. n \in Nat /\ ToSet(s) = {s[i] : i \in 1 .. n} /\ \A i \in 1 .. n : s[i] \in Tx
  BY ToSetIs
<1>2. PICK r : /\ r[0] = ix /\ \A i \in 1 .. n : r[i] = IndexTx(r[i - 1], s[i], h)
               /\ IndexBlock(ix, s, h) = r[n]
  BY IndexRun
<1>0. ix.height \in [Tx -> Nat]
  BY DEF Indexes
<1>3. s \in Seq(Tx) /\ n = Len(s)
  OBVIOUS
<1> HIDE DEF n
<1> DEFINE Heights(i) == \A t \in Tx : r[i].height[t] =
                           IF \E j \in 1 .. i : s[j] = t THEN h ELSE ix.height[t]
           Unspent(i) == Consumed(s) \cap Created(ToSet(s)) = {} =>
                           r[i].unspent = (ix.unspent \cup CreatedTo(s, i)) \ ConsumedTo(s, i)
           Good == {i \in 0 .. n : r[i] \in Indexes /\ Heights(i) /\ Unspent(i)}
<1>4. 0 \in Good
  <2>1. ConsumedTo(s, 0) = {} /\ CreatedTo(s, 0) = {}  BY EffectRounds
  <2>2. Heights(0)  BY <1>2
  <2>3. Unspent(0)  BY <1>2, <2>1
  <2> HIDE DEF Heights, Unspent
  <2> QED BY <1>1, <1>2, <2>2, <2>3
<1>5. ASSUME NEW i \in 1 .. n, i - 1 \in Good PROVE i \in Good
  <2>1. i \in 0 .. n /\ s[i] \in Tx  BY <1>1
  <2>2. r[i] = IndexTx(r[i - 1], s[i], h)  BY <1>2
  <2>3. r[i - 1] \in Indexes /\ Heights(i - 1) /\ Unspent(i - 1)  BY <1>5
  <2>4. /\ r[i].height = [r[i - 1].height EXCEPT ![s[i]] = h]
        /\ r[i].unspent = (r[i - 1].unspent \cup OutpointsOf(s[i])) \ ToSet(Inputs[s[i]])
    BY <2>1, <2>2, <2>3, IndexTxIs
  <2>5. r[i] \in Indexes
    BY <2>1, <2>2, <2>3, IndexRowsInIndexes DEF IndexTx
  <2>6. Heights(i)
    <3>1. r[i - 1].height \in [Tx -> Nat]  BY <2>3 DEF Indexes
    <3>2. \A j : j \in 1 .. i <=> j \in 1 .. i - 1 \/ j = i  BY <1>1
    <3>3. \A t \in Tx : r[i].height[t] = IF t = s[i] THEN h ELSE r[i - 1].height[t]
      BY <2>1, <2>4, <3>1
    <3> QED BY <2>3, <3>2, <3>3
  <2>7. Unspent(i)
    <3> SUFFICES ASSUME Consumed(s) \cap Created(ToSet(s)) = {}
                 PROVE  r[i].unspent = (ix.unspent \cup CreatedTo(s, i)) \ ConsumedTo(s, i)
      OBVIOUS
    <3>1. r[i - 1].unspent = (ix.unspent \cup CreatedTo(s, i - 1)) \ ConsumedTo(s, i - 1)
      BY <2>3
    <3>2. /\ ConsumedTo(s, i) = ConsumedTo(s, i - 1) \cup ToSet(Inputs[s[i]])
          /\ CreatedTo(s, i) = CreatedTo(s, i - 1) \cup OutpointsOf(s[i])
          /\ ConsumedTo(s, i) \cap CreatedTo(s, i) = {}
      BY <1>3, EffectRounds
    <3> QED BY <2>4, <3>1, <3>2
  <2> HIDE DEF Heights, Unspent
  <2> QED BY <2>1, <2>5, <2>6, <2>7
<1>6. Heights(n) /\ Unspent(n)
  <2>1. 0 .. n \subseteq Good
    <3> HIDE DEF Good
    <3> QED BY <1>1, <1>4, <1>5, Induct
  <2>2. n \in Good
    <3> HIDE DEF Good
    <3> QED BY <1>1, <2>1
  <2> QED BY <2>2
<1>7. ConsumedTo(s, n) = Consumed(s) /\ CreatedTo(s, n) = Created(ToSet(s))
  BY <1>3, EffectRounds
<1>8. \A t \in Tx : t \in ToSet(s) <=> \E j \in 1 .. n : s[j] = t
  BY <1>1
<1> QED BY <1>2, <1>6, <1>7, <1>8

\* What is left of the index of a block lists nothing but the block, at its height.
LEMMA TornHeights ==
  ASSUME NEW ix \in Indexes, NEW b \in Block, NEW torn \in TornIndexes(ix, b), NEW t \in Tx
  PROVE  torn.height[t] = ix.height[t] \/ (t \in ToSet(b.txs) /\ torn.height[t] = b.height)
<1> DEFINE s == b.txs
           n == Len(s)
           h == b.height
<1>1. /\ s \in Seq(Tx) /\ n \in Nat /\ h \in Nat
      /\ ToSet(s) = {s[i] : i \in 1 .. n} /\ \A i \in 1 .. n : s[i] \in Tx
  BY ToSetIs DEF Block
<1> HIDE DEF s, h
<1>0. ASSUME NEW q \in Seq(Tx)
      PROVE  IndexBlock(ix, q, h).height[t] = IF t \in ToSet(q) THEN h ELSE ix.height[t]
  <2>1. \A u \in Tx : IndexBlock(ix, q, h).height[u] = IF u \in ToSet(q) THEN h ELSE ix.height[u]
    BY <1>1, IndexEffect
  <2> QED BY <2>1
<1>2. CASE torn = IndexBlock(ix, s, h)
  BY <1>0, <1>1, <1>2 DEF s, h
<1>3. ASSUME NEW k \in 1 .. n, NEW rows,
             torn = IndexRows(IndexBlock(ix, SubSeq(s, 1, k - 1), h), s[k], h, rows)
      PROVE  torn.height[t] = ix.height[t] \/ (t \in ToSet(s) /\ torn.height[t] = h)
  <2> DEFINE front == SubSeq(s, 1, k - 1)
             done == IndexBlock(ix, front, h)
  <2>1. front \in Seq(Tx) /\ Len(front) = k - 1 /\ \A i \in 1 .. k - 1 : front[i] = s[i]
    <3>1. k - 1 \in 0 .. n  BY <1>1
    <3> QED BY <1>1, <3>1, SubSeqProperties
  <2>2. k \in 1 .. n /\ s[k] \in ToSet(s) /\ s[k] \in Tx  BY <1>1
  <2> HIDE DEF front, n
  <2>3. ToSet(front) \subseteq ToSet(s)
    <3>1. ToSet(front) = {front[i] : i \in 1 .. k - 1}  BY <2>1, ToSetIs
    <3>2. \A i \in 1 .. k - 1 : i \in 1 .. n  BY <1>1
    <3> QED BY <1>1, <2>1, <3>1, <3>2
  <2>4. /\ done.height[t] = IF t \in ToSet(front) THEN h ELSE ix.height[t]
        /\ done \in Indexes
    BY <1>0, <1>1, <2>1, IndexBlockInIndexes
  <2> HIDE DEF done
  <2>5. done.height \in [Tx -> Nat]  BY <2>4 DEF Indexes
  <2>6. torn.height = IF rows = 0 THEN done.height ELSE [done.height EXCEPT ![s[k]] = h]
    BY <1>3 DEF IndexRows, done, front
  <2>7. torn.height[t] = done.height[t] \/ (t = s[k] /\ torn.height[t] = h)
    <3>1. [done.height EXCEPT ![s[k]] = h][t] = IF t = s[k] THEN h ELSE done.height[t]
      BY <2>5
    <3>2. CASE rows = 0
      BY <2>6, <3>2
    <3>3. CASE rows # 0
      <4>1. torn.height = [done.height EXCEPT ![s[k]] = h]  BY <2>6, <3>3
      <4> QED BY <3>1, <4>1
    <3> QED BY <3>2, <3>3
  <2> QED BY <2>2, <2>3, <2>4, <2>7
<1> QED BY <1>2, <1>3 DEF TornIndexes, s, h

-----------------------------------------------------------------------------
(***************************************************************************)
(* What a node's UTXO set and its stored blocks say of each other: all it  *)
(* holds was funded or created by a stored transaction, and what stored    *)
(* transactions spent is gone from it for good.                            *)
(***************************************************************************)
Known(n) == Funded \cup Created(Confirmed(n))

LedgerOK(n) ==
  /\ utxo[n] \subseteq Known(n)
  /\ \A t \in Confirmed(n) :
       /\ Inputs[t] # <<>>
       /\ ToSet(Inputs[t]) \subseteq Known(n)
       /\ ToSet(Inputs[t]) \cap utxo[n] = {}

LedgerInv == \A n \in Node : LedgerOK(n)

\* A transaction that has inputs has one.
LEMMA InputsIn ==
  ASSUME NEW t \in Tx, Inputs[t] # <<>>
  PROVE  ToSet(Inputs[t]) # {}
<1> DEFINE s == Inputs[t]
<1>1. s \in Seq(ToSet(s))
  BY LedgerAssumption DEF LedgerAssumption
<1> HIDE DEF s
<1>2. Len(s) \in Nat \ {0} /\ 1 \in 1 .. Len(s)
  BY <1>1, EmptySeq DEF s
<1>3. s[1] \in ToSet(s)
  BY <1>2 DEF ToSet
<1> QED BY <1>3 DEF s

LEMMA ConfirmedIs ==
  ASSUME ChainInv, NEW n \in Node
  PROVE  /\ Confirmed(n) \subseteq Tx
         /\ \A t : t \in Confirmed(n) <=> \E h \in 0 .. Height(n) : t \in ToSet(store[n][h].txs)
<1>1. DOMAIN store[n] = 0 .. Height(n) /\ \A h \in 0 .. Height(n) : store[n][h] \in Block
  BY StoredBlocks, ChainInvParts DEF BlocksInv
<1>2. \A h \in 0 .. Height(n) : ToSet(store[n][h].txs) \subseteq Tx
  <2>1. \A b \in Block : ToSet(b.txs) \subseteq Tx  BY ToSetIs DEF Block
  <2> QED BY <1>1, <2>1
<1> QED BY <1>1, <1>2 DEF Confirmed

LEMMA ConfirmedGrows ==
  ASSUME ChainInv, NEW n \in Node, NEW b \in Block, Extends(n, b)
  PROVE  Confirmed(n)' = Confirmed(n) \cup ToSet(b.txs)
<1> DEFINE k == Height(n)
<1>1. /\ k \in Nat /\ DOMAIN store[n] = 0 .. k /\ DOMAIN store'[n] = 0 .. k + 1
      /\ store'[n][k + 1] = b
      /\ \A h \in 0 .. k : store'[n][h] = store[n][h]
  BY ExtendsIs
<1> HIDE DEF k
<1>2. k + 1 \in 0 .. k + 1 /\ \A h : h \in 0 .. k + 1 <=> h \in 0 .. k \/ h = k + 1
  BY <1>1
<1>3. Confirmed(n) = UNION {ToSet(store[n][h].txs) : h \in 0 .. k}
  BY <1>1 DEF Confirmed
<1>4. Confirmed(n)' = UNION {ToSet(store'[n][h].txs) : h \in 0 .. k + 1}
  BY <1>1 DEF Confirmed
<1>5. \A t : t \in Confirmed(n)' <=> t \in Confirmed(n) \/ t \in ToSet(b.txs)
  BY <1>1, <1>2, <1>3, <1>4
<1> QED BY <1>5

\* Outpoints tell the transactions that create them.
LEMMA CreatedApart ==
  ASSUME NEW S \in SUBSET Tx, NEW T \in SUBSET Tx, S \cap T = {}
  PROVE  Created(S) \cap (Funded \cup Created(T)) = {}
<1>1. Alloc \notin Tx
  BY LedgerAssumption DEF LedgerAssumption
<1>2. \A t, o : o \in OutpointsOf(t) => o[1] = t
  BY DEF OutpointsOf
<1>3. \A o \in Created(S) : o[1] \in S
  BY <1>2 DEF Created
<1>4. \A o \in Created(T) : o[1] \in T
  BY <1>2 DEF Created
<1>5. \A o \in Funded : o[1] = Alloc
  BY <1>2 DEF Funded
<1> QED BY <1>1, <1>3, <1>4, <1>5

(* A valid block is new to the node in all it has: its transactions, and   *)
(* what they create.                                                       *)
LEMMA FreshBlock ==
  ASSUME ChainInv, NEW n \in Node, LedgerOK(n), NEW b \in Block,
         BlockValid(b, tip[n], utxo[n])
  PROVE  /\ ToSet(b.txs) \subseteq Tx
         /\ ToSet(b.txs) \cap Confirmed(n) = {}
         /\ \A t \in ToSet(b.txs) : Inputs[t] # <<>> /\ ToSet(Inputs[t]) \subseteq Consumed(b.txs)
         /\ Consumed(b.txs) \subseteq utxo[n]
         /\ Created(ToSet(b.txs)) \cap Known(n) = {}
         /\ Consumed(b.txs) \cap Created(ToSet(b.txs)) = {}
<1> DEFINE s == b.txs
           k == Len(s)
<1>1. /\ s \in Seq(Tx) /\ k \in Nat /\ ToSet(s) = {s[i] : i \in 1 .. k}
      /\ \A i \in 1 .. k : s[i] \in Tx
  BY ToSetIs DEF Block
<1>2. \A i \in 1 .. k : Inputs[s[i]] # <<>> /\ ToSet(Inputs[s[i]]) \subseteq utxo[n]
  BY DEF BlockValid, TxValid
<1> HIDE DEF s, k
<1>3. \A t \in ToSet(s) : t \in Tx /\ Inputs[t] # <<>> /\ ToSet(Inputs[t]) \subseteq utxo[n]
  BY <1>1, <1>2
<1>4. Consumed(s) = UNION {ToSet(Inputs[t]) : t \in ToSet(s)}
  BY <1>1 DEF Consumed, k
<1>5. ToSet(s) \cap Confirmed(n) = {}
  <2> SUFFICES ASSUME NEW t \in ToSet(s), t \in Confirmed(n) PROVE FALSE
    OBVIOUS
  <2>1. ToSet(Inputs[t]) # {}  BY <1>3, InputsIn
  <2> QED BY <1>3, <2>1 DEF LedgerOK
<1>6. Created(ToSet(s)) \cap Known(n) = {}
  BY <1>3, <1>5, ConfirmedIs, CreatedApart DEF Known
<1>7. Consumed(s) \subseteq utxo[n]
  BY <1>3, <1>4
<1>8. Consumed(s) \cap Created(ToSet(s)) = {}
  BY <1>6, <1>7 DEF LedgerOK
<1> QED BY <1>3, <1>4, <1>5, <1>6, <1>7, <1>8 DEF s

\* The UTXO set after a commit.
LEMMA CommitEffect ==
  ASSUME ChainInv, NEW n \in Node, LedgerOK(n), NEW b \in Block, Commits(n, b)
  PROVE  utxo'[n] = (utxo[n] \ Consumed(b.txs)) \cup NonZero(Created(ToSet(b.txs)))
<1>1. b.txs \in Seq(Tx)  BY DEF Block
<1>2. Consumed(b.txs) \cap Created(ToSet(b.txs)) = {}
  BY FreshBlock DEF Commits, Extends
<1> QED BY <1>1, <1>2, BlockEffect DEF Commits

LEMMA CreatedGrows ==
  ASSUME NEW S, NEW T
  PROVE  Created(S \cup T) = Created(S) \cup Created(T)
BY DEF Created

(* Nothing spent comes back, and nothing is held that no stored block made. *)
THEOREM LedgerInvariant == Spec => []LedgerInv
<1>1. Init => LedgerInv
  <2> SUFFICES ASSUME Init, NEW n \in Node PROVE LedgerOK(n)
    BY DEF LedgerInv
  <2>1. utxo[n] = Funded /\ store[n] = [h \in {0} |-> Genesis]
    BY DEF Init
  <2>2. Confirmed(n) = {}
    BY <2>1 DEF Confirmed, Genesis, ToSet
  <2> QED BY <2>1, <2>2 DEF LedgerOK, Known
<1>2. ChainInv /\ LedgerInv /\ [Next]_vars => LedgerInv'
  <2> SUFFICES ASSUME ChainInv, LedgerInv, [Next]_vars, NEW n \in Node PROVE LedgerOK(n)'
    BY DEF LedgerInv
  <2>0. LedgerOK(n)  BY DEF LedgerInv
  <2>1. CASE Keeps(n)
    BY <2>0, <2>1 DEF Keeps, LedgerOK, Known, Confirmed
  <2>2. ASSUME NEW b \in Block, Extends(n, b)
        PROVE  /\ Confirmed(n)' = Confirmed(n) \cup ToSet(b.txs)
               /\ Known(n)' = Known(n) \cup Created(ToSet(b.txs))
    BY <2>2, ConfirmedGrows, CreatedGrows DEF Known
  <2>3. ASSUME NEW b \in Block, Commits(n, b) PROVE LedgerOK(n)'
    <3>1. /\ Confirmed(n)' = Confirmed(n) \cup ToSet(b.txs)
          /\ Known(n)' = Known(n) \cup Created(ToSet(b.txs))
      BY <2>2, <2>3 DEF Commits
    <3>2. /\ \A t \in ToSet(b.txs) : Inputs[t] # <<>> /\ ToSet(Inputs[t]) \subseteq Consumed(b.txs)
          /\ Consumed(b.txs) \subseteq utxo[n]
          /\ Created(ToSet(b.txs)) \cap Known(n) = {}
      BY <2>0, <2>3, FreshBlock DEF Commits, Extends
    <3>3. utxo'[n] = (utxo[n] \ Consumed(b.txs)) \cup NonZero(Created(ToSet(b.txs)))
      BY <2>0, <2>3, CommitEffect
    <3>4. utxo'[n] \subseteq Known(n)'
      BY <2>0, <3>1, <3>3 DEF LedgerOK, NonZero
    <3>5. ASSUME NEW t \in Confirmed(n)'
          PROVE  /\ Inputs[t] # <<>>
                 /\ ToSet(Inputs[t]) \subseteq Known(n)
                 /\ ToSet(Inputs[t]) \cap (utxo[n] \ Consumed(b.txs)) = {}
      <4>1. CASE t \in Confirmed(n)
        BY <2>0, <4>1 DEF LedgerOK
      <4>2. CASE t \in ToSet(b.txs)
        BY <2>0, <3>2, <4>2 DEF LedgerOK
      <4> QED BY <3>1, <4>1, <4>2
    <3>6. ASSUME NEW t \in Confirmed(n)' PROVE ToSet(Inputs[t]) \cap utxo'[n] = {}
      BY <3>2, <3>3, <3>5 DEF NonZero
    <3> QED BY <3>1, <3>4, <3>5, <3>6 DEF LedgerOK
  <2>4. ASSUME NEW b \in Block, Crashes(n, b) PROVE LedgerOK(n)'
    <3>1. /\ Confirmed(n)' = Confirmed(n) \cup ToSet(b.txs)
          /\ Known(n)' = Known(n) \cup Created(ToSet(b.txs))
          /\ utxo'[n] = {}
      BY <2>2, <2>4 DEF Crashes, Loses
    <3>2. /\ \A t \in ToSet(b.txs) : Inputs[t] # <<>> /\ ToSet(Inputs[t]) \subseteq Consumed(b.txs)
          /\ Consumed(b.txs) \subseteq utxo[n]
      BY <2>0, <2>4, FreshBlock DEF Crashes, Extends
    <3> QED BY <2>0, <3>1, <3>2 DEF LedgerOK
  <2>5. CASE Restarts(n)
    BY <2>0, <2>5 DEF Restarts, Loses, LedgerOK, Known, Confirmed
  <2> QED BY <2>1, <2>3, <2>4, <2>5, NodeStep
<1> QED BY <1>1, <1>2, ReplicationInvariant, PTL DEF Spec

-----------------------------------------------------------------------------
(* The index lists what the chain has stored, where it is stored; and while *)
(* a node has not restarted, all of it, with the outputs that are unspent.  *)
THEOREM IndexStaysWithChain == Spec => []IndexFollowsChain
<1> DEFINE Listed1(n) == \A t \in Indexed(n) :
             /\ index[n].height[t] \in DOMAIN store[n]
             /\ t \in ToSet(store[n][index[n].height[t]].txs)
           Whole(n) == restarts[n] = 0 =>
             /\ Indexed(n) = Confirmed(n)
             /\ {o \in index[n].unspent : Amount(o) # 0} = utxo[n] \ Funded
<1>0. IndexFollowsChain <=> \A n \in Node : Listed1(n) /\ Whole(n)
  BY DEF IndexFollowsChain
<1>1. Init => IndexFollowsChain
  <2> SUFFICES ASSUME Init, NEW n \in Node PROVE Listed1(n) /\ Whole(n)
    BY <1>0
  <2>1. utxo[n] = Funded /\ store[n] = [h \in {0} |-> Genesis] /\ index[n] = EmptyIndex
    BY DEF Init
  <2>2. Confirmed(n) = {}
    BY <2>1 DEF Confirmed, Genesis, ToSet
  <2>3. Indexed(n) = {}
    BY <2>1 DEF Indexed, EmptyIndex
  <2> QED BY <2>1, <2>2, <2>3 DEF EmptyIndex
<1>2. ChainInv /\ LedgerInv /\ IndexFollowsChain /\ [Next]_vars => IndexFollowsChain'
  <2> SUFFICES ASSUME ChainInv, LedgerInv, IndexFollowsChain, [Next]_vars, NEW n \in Node
               PROVE  Listed1(n)' /\ Whole(n)'
    BY DEF IndexFollowsChain
  <2>0. /\ Listed1(n) /\ Whole(n) /\ LedgerOK(n)
        /\ index[n] \in Indexes /\ index[n].height \in [Tx -> Nat]
        /\ restarts[n] \in Nat
    BY <1>0 DEF LedgerInv, ChainInv, TypeOK, Indexes
  <2>1. CASE Keeps(n)
    BY <2>0, <2>1 DEF Keeps, Indexed, Confirmed
  <2>2. ASSUME NEW b \in Block, Extends(n, b),
               \A t \in Tx : \/ index'[n].height[t] = index[n].height[t]
                             \/ t \in ToSet(b.txs) /\ index'[n].height[t] = b.height
        PROVE  Listed1(n)'
    <3>1. /\ Height(n) \in Nat /\ b.height = Height(n) + 1
          /\ DOMAIN store[n] = 0 .. Height(n) /\ DOMAIN store'[n] = 0 .. Height(n) + 1
          /\ store'[n][Height(n) + 1] = b
          /\ \A h \in 0 .. Height(n) : store'[n][h] = store[n][h]
      BY <2>2, ExtendsIs DEF Extends
    <3> SUFFICES ASSUME NEW t \in Tx, index'[n].height[t] > 0
                 PROVE  /\ index'[n].height[t] \in DOMAIN store'[n]
                        /\ t \in ToSet(store'[n][index'[n].height[t]].txs)
      BY DEF Indexed
    <3>2. CASE index'[n].height[t] = index[n].height[t]
      <4>1. t \in Indexed(n)  BY <3>2 DEF Indexed
      <4>2. /\ index[n].height[t] \in DOMAIN store[n]
            /\ t \in ToSet(store[n][index[n].height[t]].txs)
        BY <2>0, <4>1
      <4>3. index[n].height[t] \in 0 .. Height(n) + 1
        BY <3>1, <4>2
      <4> QED BY <3>1, <3>2, <4>2, <4>3
    <3>3. CASE t \in ToSet(b.txs) /\ index'[n].height[t] = b.height
      <4>1. b.height \in 0 .. Height(n) + 1  BY <3>1
      <4> QED BY <3>1, <3>3, <4>1
    <3> QED BY <2>2, <3>2, <3>3
  <2>3. ASSUME NEW b \in Block, Commits(n, b) PROVE Listed1(n)' /\ Whole(n)'
    <3> DEFINE s == b.txs
    <3>1. /\ index'[n] = IndexBlock(index[n], s, b.height) /\ Extends(n, b)
          /\ restarts'[n] = restarts[n] /\ s \in Seq(Tx) /\ b.height \in Nat
      BY <2>3 DEF Commits, Block
    <3>2. b.height > 0
      BY <3>1, ExtendsIs DEF Extends
    <3>3. \A t \in Tx : index'[n].height[t] = IF t \in ToSet(s) THEN b.height ELSE index[n].height[t]
      BY <2>0, <3>1, IndexEffect
    <3>4. Listed1(n)'
      BY <2>2, <3>1, <3>3
    <3>5. /\ ToSet(s) \subseteq Tx
          /\ Consumed(s) \subseteq utxo[n]
          /\ Created(ToSet(s)) \cap Known(n) = {}
          /\ Consumed(s) \cap Created(ToSet(s)) = {}
      BY <2>0, <3>1, FreshBlock DEF Extends
    <3>6. index'[n].unspent = (index[n].unspent \cup Created(ToSet(s))) \ Consumed(s)
      BY <2>0, <3>1, <3>5, IndexEffect
    <3>7. utxo'[n] = (utxo[n] \ Consumed(s)) \cup NonZero(Created(ToSet(s)))
      BY <2>0, <2>3, CommitEffect
    <3>8. Confirmed(n)' = Confirmed(n) \cup ToSet(s)
      BY <3>1, ConfirmedGrows
    <3> HIDE DEF s
    <3>9. ASSUME restarts'[n] = 0
          PROVE  /\ Indexed(n)' = Confirmed(n)'
                 /\ {o \in index'[n].unspent : Amount(o) # 0} = utxo'[n] \ Funded
      <4>1. Indexed(n) = Confirmed(n) /\ {o \in index[n].unspent : Amount(o) # 0} = utxo[n] \ Funded
        BY <2>0, <3>1, <3>9
      <4>2. Indexed(n)' = Indexed(n) \cup ToSet(s)
        BY <3>2, <3>3, <3>5 DEF Indexed
      <4>3. Created(ToSet(s)) \cap Funded = {}
        BY <3>5 DEF Known
      <4>4. {o \in index'[n].unspent : Amount(o) # 0} = utxo'[n] \ Funded
        BY <3>5, <3>6, <3>7, <4>1, <4>3 DEF NonZero
      <4> QED BY <3>8, <4>1, <4>2, <4>4
    <3> QED BY <3>4, <3>9
  <2>4. ASSUME NEW b \in Block, Crashes(n, b) PROVE Listed1(n)'
    <3>1. Extends(n, b) /\ index'[n] \in TornIndexes(index[n], b)
      BY <2>4 DEF Crashes
    <3> QED BY <2>0, <2>2, <3>1, TornHeights
  <2>5. CASE Restarts(n)
    BY <2>0, <2>5 DEF Restarts, Loses, Indexed
  <2>6. ASSUME NEW b \in Block, Crashes(n, b) PROVE Whole(n)'
    BY <2>0, <2>6 DEF Crashes, Loses
  <2> QED BY <2>1, <2>3, <2>4, <2>5, <2>6, NodeStep
<1> QED BY <1>1, <1>2, ReplicationInvariant, LedgerInvariant, PTL DEF Spec

-----------------------------------------------------------------------------
(***************************************************************************)
(* What keeps a transaction from a second block, and from a second place   *)
(* in one.  A node's pool lists nothing twice, and only what it holds,     *)
(* except for what is confirmed; the blocks of the validator repeat        *)
(* nothing, because validation refuses what is confirmed.                  *)
(***************************************************************************)
StoredOnce ==
  /\ \A h \in 0 .. Height(Validator) : IsInjective(store[Validator][h].txs)
  /\ \A g, h \in 0 .. Height(Validator) :
       g # h => ToSet(store[Validator][g].txs) \cap ToSet(store[Validator][h].txs) = {}

OnceInv == (\A n \in Node : Listed(pool[n], Confirmed(n))) /\ StoredOnce

\* What is confirmed has lost its inputs.
LEMMA ConfirmedIsInvalid ==
  ASSUME ChainInv, NEW n \in Node, LedgerOK(n), NEW t \in Confirmed(n)
  PROVE  ~ TxValid(t, utxo[n])
<1> SUFFICES ASSUME TxValid(t, utxo[n]) PROVE FALSE
  OBVIOUS
<1>1. t \in Tx /\ Inputs[t] # <<>> /\ ToSet(Inputs[t]) \subseteq utxo[n]
  BY ConfirmedIs DEF TxValid
<1>2. ToSet(Inputs[t]) # {}
  BY <1>1, InputsIn
<1> QED BY <1>1, <1>2 DEF LedgerOK

LEMMA OnceIsConfirmedOnce ==
  ASSUME ChainInv, LedgerInv, OnceInv
  PROVE  ConfirmedOnce
<1>1. /\ DOMAIN store[Validator] = 0 .. Height(Validator) /\ Validator \in Node
      /\ \A h \in 0 .. Height(Validator) : store[Validator][h].txs \in Seq(Tx)
  BY StoredBlocks, ChainInvParts, ChainAssumption DEF BlocksInv, ChainAssumption, Block
<1>2. ASSUME NEW n \in Node, NEW g \in DOMAIN store[n], NEW h \in DOMAIN store[n],
             NEW i \in DOMAIN store[n][g].txs, NEW j \in DOMAIN store[n][h].txs,
             store[n][g].txs[i] = store[n][h].txs[j]
      PROVE  g = h /\ i = j
  <2>1. /\ g \in 0 .. Height(Validator) /\ h \in 0 .. Height(Validator)
        /\ store[n][g] = store[Validator][g] /\ store[n][h] = store[Validator][h]
    BY <1>1 DEF ChainInv, ValidatorLeads
  <2>2. PICK q, r : q = store[Validator][g].txs /\ r = store[Validator][h].txs
    OBVIOUS
  <2>3. /\ q \in Seq(Tx) /\ r \in Seq(Tx) /\ i \in DOMAIN q /\ j \in DOMAIN r /\ q[i] = r[j]
        /\ IsInjective(q) /\ (g # h => ToSet(q) \cap ToSet(r) = {}) /\ (g = h => q = r)
    BY <1>1, <1>2, <2>1, <2>2 DEF OnceInv, StoredOnce
  <2>4. q[i] \in ToSet(q) /\ r[j] \in ToSet(r)
    BY <2>3 DEF ToSet
  <2>5. g = h
    BY <2>3, <2>4
  <2> QED BY <2>3, <2>5 DEF IsInjective
<1>3. ASSUME NEW n \in Node, NEW t \in Confirmed(n) PROVE ~ TxValid(t, utxo[n])
  BY <1>3, ConfirmedIsInvalid DEF LedgerInv
<1> QED BY <1>2, <1>3 DEF ConfirmedOnce

\* A block's transactions are confirmed: what the list keeps of them is no matter.
LEMMA CommitKeepsListed ==
  ASSUME ChainInv, NEW n \in Node, Listed(pool[n], Confirmed(n)), NEW b \in Block, Commits(n, b)
  PROVE  Listed(pool[n], Confirmed(n))'
<1>1. b.txs \in Seq(Tx) /\ Confirmed(n)' = Confirmed(n) \cup ToSet(b.txs)
  BY ConfirmedGrows DEF Commits, Block
<1>2. Listed(RemoveConfirmed(pool[n], b.txs), Confirmed(n) \cup ToSet(b.txs))
  BY <1>1, RemoveConfirmedListed
<1>3. pool'[n] = RemoveConfirmed(pool[n], b.txs)
  BY DEF Commits
<1> QED BY <1>1, <1>2, <1>3

\* The validator's own block repeats nothing.
LEMMA BlockKeepsOnce ==
  ASSUME ChainInv, LedgerInv, StoredOnce, NEW b \in Block, Extends(Validator, b),
         Listed(pool[Validator], Confirmed(Validator))
  PROVE  StoredOnce'
<1> DEFINE k == Height(Validator)
           C == Confirmed(Validator)
<1>0. Validator \in Node
  BY ChainAssumption DEF ChainAssumption
<1>1. /\ k \in Nat /\ Height(Validator)' = k + 1
      /\ store'[Validator][k + 1] = b
      /\ \A h \in 0 .. k : store'[Validator][h] = store[Validator][h]
  BY <1>0, ExtendsIs
<1>2. \A h \in 0 .. k : ToSet(store[Validator][h].txs) \subseteq C
  BY <1>0, ConfirmedIs
<1>3. ToSet(b.txs) \cap C = {}
  BY <1>0, FreshBlock DEF LedgerInv, Extends
<1>4. IsInjective(b.txs)
  <2>1. b.txs = SelectTransactions(pool[Validator], MaxTxPerBlock, MaxBlockBytes) /\ b.txs \in Seq(Tx)
    BY DEF Extends, ProposedBlock, Block
  <2>2. pool[Validator] \in Pools /\ Once(pool[Validator].ordered, C)
    BY DEF Listed
  <2> HIDE DEF C
  <2>3. Once(b.txs, C)
    BY <2>1, <2>2, SelectedOnce, ChainAssumption DEF ChainAssumption
  <2> QED BY <1>3, <2>1, <2>3, OnceIsInjective
<1>5. /\ \A h \in 0 .. k : IsInjective(store[Validator][h].txs)
      /\ \A g, h \in 0 .. k :
           g # h => ToSet(store[Validator][g].txs) \cap ToSet(store[Validator][h].txs) = {}
  BY DEF StoredOnce
<1> HIDE DEF k, C
<1>6. \A h : h \in 0 .. k + 1 <=> h \in 0 .. k \/ h = k + 1
  BY <1>1
<1>7. ASSUME NEW h \in 0 .. k + 1 PROVE IsInjective(store'[Validator][h].txs)
  BY <1>1, <1>4, <1>5, <1>6
<1>8. ASSUME NEW g \in 0 .. k + 1, NEW h \in 0 .. k + 1, g # h
      PROVE  ToSet(store'[Validator][g].txs) \cap ToSet(store'[Validator][h].txs) = {}
  <2>1. CASE g \in 0 .. k /\ h \in 0 .. k
    BY <1>1, <1>5, <1>8, <2>1
  <2>2. CASE g \in 0 .. k /\ h = k + 1
    BY <1>1, <1>2, <1>3, <2>2
  <2>3. CASE g = k + 1 /\ h \in 0 .. k
    BY <1>1, <1>2, <1>3, <2>3
  <2> QED BY <1>6, <1>8, <2>1, <2>2, <2>3
<1> QED BY <1>1, <1>7, <1>8 DEF StoredOnce

(* Nothing is confirmed twice, and what is confirmed does not validate any  *)
(* more.                                                                    *)
THEOREM NothingConfirmedTwice == Spec => []ConfirmedOnce
<1>0. Validator \in Node
  BY ChainAssumption DEF ChainAssumption
<1>e. \A C : Listed(EmptyPool, C)
  BY DEF EmptyPool, Listed, Pools, Once, ToSet
<1>1. Init => OnceInv
  <2> SUFFICES ASSUME Init PROVE OnceInv
    OBVIOUS
  <2>1. \A n \in Node : pool[n] = EmptyPool /\ store[n] = [h \in {0} |-> Genesis] /\ tip[n] = Genesis
    BY DEF Init
  <2>2. \A n \in Node : Listed(pool[n], Confirmed(n))
    BY <1>e, <2>1
  <2>3. Height(Validator) = 0 /\ 0 .. 0 = {0} /\ store[Validator][0].txs = <<>>
    BY <1>0, <2>1 DEF Height, Genesis
  <2>4. StoredOnce
    BY <2>3 DEF StoredOnce, IsInjective
  <2> QED BY <2>2, <2>4 DEF OnceInv
<1>2. ChainInv /\ LedgerInv /\ OnceInv /\ [Next]_vars => OnceInv'
  <2> SUFFICES ASSUME ChainInv, LedgerInv, OnceInv, [Next]_vars PROVE OnceInv'
    OBVIOUS
  <2>1. ASSUME NEW n \in Node PROVE Listed(pool[n], Confirmed(n))'
    <3>0. Listed(pool[n], Confirmed(n))
      BY DEF OnceInv
    <3>1. CASE Keeps(n)
      <4>1. Confirmed(n)' = Confirmed(n)
        BY <3>1 DEF Keeps, Confirmed
      <4>2. ASSUME NEW t \in Tx, t \notin pool[n].entries, pool'[n] = AddTx(pool[n], t)
            PROVE  Listed(pool[n], Confirmed(n))'
        <5>1. Listed(AddTx(pool[n], t), Confirmed(n))
          BY <3>0, <4>2, AddTxListed
        <5> QED BY <4>1, <4>2, <5>1
      <4>3. CASE UNCHANGED pool[n]
        BY <3>0, <4>1, <4>3
      <4> QED BY <3>1, <4>2, <4>3 DEF Keeps
    <3>2. ASSUME NEW b \in Block, Commits(n, b) PROVE Listed(pool[n], Confirmed(n))'
      BY <3>0, <3>2, CommitKeepsListed
    <3>3. CASE Loses(n)
      BY <1>e, <3>3 DEF Loses
    <3> QED BY <3>1, <3>2, <3>3, NodeStep DEF Restarts, Crashes
  <2>2. StoredOnce'
    <3>0. StoredOnce /\ Listed(pool[Validator], Confirmed(Validator))
      BY <1>0 DEF OnceInv
    <3>1. ASSUME UNCHANGED <<store[Validator], tip[Validator]>> PROVE StoredOnce'
      BY <3>0, <3>1 DEF StoredOnce, Height
    <3>2. ASSUME NEW b \in Block, Extends(Validator, b) PROVE StoredOnce'
      BY <3>0, <3>2, BlockKeepsOnce
    <3> QED BY <1>0, <3>1, <3>2, NodeStep DEF Keeps, Commits, Crashes, Restarts
  <2> QED BY <2>1, <2>2 DEF OnceInv
<1>3. ChainInv /\ LedgerInv /\ OnceInv => ConfirmedOnce
  BY OnceIsConfirmedOnce
<1> QED BY <1>1, <1>2, <1>3, ReplicationInvariant, LedgerInvariant, PTL DEF Spec

-----------------------------------------------------------------------------
(***************************************************************************)
(* The value of a set of outpoints, which Value adds up in some order.     *)
(***************************************************************************)
Purses == FiniteSubsets(Outpoints)

Worth == [o \in Outpoints |-> Amount(o)]

LEMMA AmountIs ==
  ASSUME NEW o \in Outpoints
  PROVE  Amount(o) \in Nat
<1>1. PICK t \in Tx \cup {Alloc} : o \in OutpointsOf(t)
  BY DEF Outpoints
<1>2. PICK i \in 1 .. Len(Outputs[t]) : o = <<t, i>>
  BY <1>1 DEF OutpointsOf
<1>3. Outputs[t] \in Seq(Nat)
  BY LedgerAssumption DEF LedgerAssumption
<1> QED BY <1>2, <1>3 DEF Amount

LEMMA ValueIs ==
  ASSUME NEW S \in Purses
  PROVE  Value(S) = TotalOf(Worth, S)
<1> DEFINE Adds(g) == g = [s \in SUBSET S |->
                             IF s = {} THEN 0 ELSE Amount(AnyOf(s)) + g[s \ {AnyOf(s)}]]
           f == CHOOSE g : Adds(g)
<1>1. Value(S) = f[S]
  BY DEF Value, MapThenSumSet, MapThenFoldSet, AnyOf
<1>2. ASSUME NEW g PROVE Sums(Worth, S, g) <=> Adds(g)
  <2>1. \A s \in SUBSET S : s # {} => AnyOf(s) \in Outpoints
    BY DEF AnyOf, Purses, FiniteSubsets
  <2>2. \A s \in SUBSET S :
          SumStep(Worth, g, s) = IF s = {} THEN 0 ELSE Amount(AnyOf(s)) + g[s \ {AnyOf(s)}]
    BY <2>1 DEF SumStep, Worth
  <2>3. [s \in SUBSET S |-> SumStep(Worth, g, s)]
        = [s \in SUBSET S |-> IF s = {} THEN 0 ELSE Amount(AnyOf(s)) + g[s \ {AnyOf(s)}]]
    BY <2>2
  <2> QED BY <2>3 DEF Sums
<1>3. Worth \in [Outpoints -> Nat]
  BY AmountIs DEF Worth
<1>4. (\E g : Sums(Worth, S, g)) /\ \A g : Sums(Worth, S, g) => g[S] = TotalOf(Worth, S)
  BY <1>3, SumsAreTotal DEF Purses
<1>5. Adds(f)
  <2> HIDE DEF Adds
  <2> QED BY <1>2, <1>4
<1> HIDE DEF Adds, f
<1> QED BY <1>1, <1>2, <1>4, <1>5

\* A set is worth any of its outpoints and the rest.
LEMMA ValueSplit ==
  ASSUME NEW S \in Purses
  PROVE  /\ Value(S) \in Nat
         /\ Value({}) = 0
         /\ \A x \in S : S \ {x} \in Purses /\ Value(S) = Amount(x) + Value(S \ {x})
<1>1. Worth \in [Outpoints -> Nat] /\ S \in FiniteSubsets(Outpoints)
  BY AmountIs DEF Worth, Purses
<1>2. /\ TotalOf(Worth, S) \in Nat /\ TotalOf(Worth, {}) = 0
      /\ \A x \in S : /\ S \ {x} \in FiniteSubsets(Outpoints)
                      /\ TotalOf(Worth, S) = Worth[x] + TotalOf(Worth, S \ {x})
  BY <1>1, TotalSplit
<1>3. {} \in Purses /\ \A x \in S : S \ {x} \in Purses
  BY <1>2, FS_EmptySet DEF Purses, FiniteSubsets
<1>4. \A x \in S : Worth[x] = Amount(x)
  BY DEF Worth, Purses, FiniteSubsets
<1>5. /\ Value(S) = TotalOf(Worth, S) /\ Value({}) = TotalOf(Worth, {})
      /\ \A x \in S : Value(S \ {x}) = TotalOf(Worth, S \ {x})
  BY <1>3, ValueIs
<1> QED BY <1>2, <1>3, <1>4, <1>5

\* Two sets apart are worth the sum.
LEMMA ValueOfUnion ==
  ASSUME NEW A \in Purses, NEW B \in Purses, A \cap B = {}
  PROVE  A \cup B \in Purses /\ Value(A \cup B) = Value(A) + Value(B)
<1>1. Worth \in [Outpoints -> Nat]
  BY AmountIs DEF Worth
<1>2. A \cup B \in Purses /\ TotalOf(Worth, A \cup B) = TotalOf(Worth, A) + TotalOf(Worth, B)
  BY <1>1, TotalOfUnion DEF Purses
<1> QED BY <1>2, ValueIs

\* A part is worth no more, and two sets that overlap no more than the sum.
LEMMA ValueBounds ==
  ASSUME NEW A \in Purses, NEW B \in Purses
  PROVE  /\ A \cup B \in Purses
         /\ Value(A \cup B) <= Value(A) + Value(B)
         /\ \A C \in SUBSET A : /\ C \in Purses
                                /\ Value(A) = Value(A \ C) + Value(C)
                                /\ Value(C) <= Value(A)
<1>1. Worth \in [Outpoints -> Nat]
  BY AmountIs DEF Worth
<1>2. /\ A \cup B \in Purses
      /\ TotalOf(Worth, A \cup B) <= TotalOf(Worth, A) + TotalOf(Worth, B)
      /\ \A C \in SUBSET A : /\ C \in Purses
                             /\ TotalOf(Worth, A) = TotalOf(Worth, A \ C) + TotalOf(Worth, C)
                             /\ TotalOf(Worth, C) <= TotalOf(Worth, A)
  BY <1>1, TotalBounds DEF Purses
<1>3. \A C \in SUBSET A : A \ C \in Purses
  BY FS_Subset DEF Purses, FiniteSubsets
<1> QED BY <1>2, <1>3, ValueIs

-----------------------------------------------------------------------------
\* What a transaction creates, and what a block's together do, is finite.
LEMMA OutpointsFinite ==
  ASSUME NEW t \in Tx \cup {Alloc}
  PROVE  OutpointsOf(t) \in Purses
<1> DEFINE n == Len(Outputs[t])
           FirstOf(i) == {<<t, j>> : j \in 1 .. i}
           Good == {i \in 0 .. n : IsFiniteSet(FirstOf(i))}
<1>1. n \in Nat
  BY LedgerAssumption DEF LedgerAssumption
<1>2. OutpointsOf(t) = FirstOf(n) /\ OutpointsOf(t) \subseteq Outpoints
  BY DEF OutpointsOf, Outpoints
<1> HIDE DEF n
<1>3. 0 \in Good
  <2>1. FirstOf(0) = {}  OBVIOUS
  <2> QED BY <1>1, <2>1, FS_EmptySet
<1>4. ASSUME NEW i \in 1 .. n, i - 1 \in Good PROVE i \in Good
  <2>1. \A j : j \in 1 .. i <=> j \in 1 .. i - 1 \/ j = i
    BY <1>1
  <2>2. FirstOf(i) = FirstOf(i - 1) \cup {<<t, i>>} /\ i \in 0 .. n
    BY <1>1, <2>1
  <2>3. IsFiniteSet(FirstOf(i - 1))
    BY <1>4
  <2> HIDE DEF FirstOf
  <2> QED BY <2>2, <2>3, FS_AddElement
<1>5. n \in Good
  <2>1. 0 .. n \subseteq Good
    <3> HIDE DEF Good
    <3> QED BY <1>1, <1>3, <1>4, Induct
  <2>2. n \in 0 .. n  BY <1>1
  <2> HIDE DEF Good
  <2> QED BY <2>1, <2>2
<1> QED BY <1>2, <1>5 DEF Purses, FiniteSubsets

LEMMA CreatedFinite ==
  ASSUME NEW s \in Seq(Tx)
  PROVE  \A i \in 0 .. Len(s) : CreatedTo(s, i) \in Purses
<1> DEFINE n == Len(s)
           Good == {i \in 0 .. n : CreatedTo(s, i) \in Purses}
<1>1. n \in Nat /\ \A i \in 1 .. n : s[i] \in Tx
  OBVIOUS
<1>2. 0 \in Good
  <2>1. CreatedTo(s, 0) = {}  BY EffectRounds
  <2>2. CreatedTo(s, 0) \in Purses  BY <2>1, FS_EmptySet DEF Purses, FiniteSubsets
  <2>3. 0 \in 0 .. n  BY <1>1
  <2> HIDE DEF n
  <2> QED BY <2>2, <2>3
<1>3. ASSUME NEW i \in 1 .. n, i - 1 \in Good PROVE i \in Good
  <2>1. CreatedTo(s, i) = CreatedTo(s, i - 1) \cup OutpointsOf(s[i]) /\ i \in 0 .. n
    BY <1>1, EffectRounds
  <2>2. CreatedTo(s, i - 1) \in Purses
    BY <1>3
  <2>3. OutpointsOf(s[i]) \in Purses
    BY <1>1, OutpointsFinite
  <2>4. CreatedTo(s, i - 1) \cup OutpointsOf(s[i]) \in Purses
    BY <2>2, <2>3, ValueBounds
  <2> QED BY <2>1, <2>4
<1>4. 0 .. n \subseteq Good
  <2> HIDE DEF Good, n
  <2> QED BY <1>1, <1>2, <1>3, Induct
<1> QED BY <1>4

\* Valid transactions that spend apart create no more than they consume.
LEMMA CreatesNoMore ==
  ASSUME NEW u \in Purses, NEW s \in Seq(Tx),
         \A i \in 1 .. Len(s) : TxValid(s[i], u),
         \A i, j \in 1 .. Len(s) :
           i # j => ToSet(Inputs[s[i]]) \cap ToSet(Inputs[s[j]]) = {}
  PROVE  Value(Created(ToSet(s))) <= Value(Consumed(s))
<1> DEFINE n == Len(s)
           Good == {i \in 0 .. n : Value(CreatedTo(s, i)) <= Value(ConsumedTo(s, i))}
<1>1. n \in Nat /\ \A i \in 1 .. n : s[i] \in Tx
  OBVIOUS
<1>2. \A i \in 1 .. n : /\ ToSet(Inputs[s[i]]) \subseteq u
                        /\ Value(OutpointsOf(s[i])) <= Value(ToSet(Inputs[s[i]]))
  <2>1. \A i \in 1 .. n : TxValid(s[i], u)  OBVIOUS
  <2>2. ASSUME NEW i \in 1 .. n
        PROVE  /\ ToSet(Inputs[s[i]]) \subseteq u
               /\ Value(OutpointsOf(s[i])) <= Value(ToSet(Inputs[s[i]]))
    <3>1. /\ ToSet(Inputs[s[i]]) \subseteq u
          /\ Value(ToSet(Inputs[s[i]])) >= Value(OutpointsOf(s[i]))
      BY <2>1 DEF TxValid
    <3>2. OutpointsOf(s[i]) \in Purses /\ ToSet(Inputs[s[i]]) \in Purses
      BY <1>1, <3>1, OutpointsFinite, ValueBounds
    <3>3. Value(OutpointsOf(s[i])) \in Nat /\ Value(ToSet(Inputs[s[i]])) \in Nat
      BY <3>2, ValueSplit
    <3> QED BY <3>1, <3>3
  <2> QED BY <2>2
<1>3. 0 \in Good
  <2>1. CreatedTo(s, 0) = {} /\ ConsumedTo(s, 0) = {}  BY EffectRounds
  <2>2. Value({}) = 0  BY ValueSplit
  <2>3. Value(CreatedTo(s, 0)) <= Value(ConsumedTo(s, 0))
    <3>1. Value(CreatedTo(s, 0)) = Value({}) /\ Value(ConsumedTo(s, 0)) = Value({})
      BY <2>1
    <3> QED BY <2>2, <3>1
  <2>4. 0 \in 0 .. n  BY <1>1
  <2> HIDE DEF n
  <2> QED BY <2>3, <2>4
<1>4. ASSUME NEW i \in 1 .. n, i - 1 \in Good PROVE i \in Good
  <2>0. i \in 0 .. n /\ i - 1 \in 0 .. n /\ s[i] \in Tx
    BY <1>1
  <2>1. PICK I, O, C, D : /\ I = ToSet(Inputs[s[i]]) /\ O = OutpointsOf(s[i])
                          /\ C = ConsumedTo(s, i - 1) /\ D = CreatedTo(s, i - 1)
    OBVIOUS
  <2>2. ConsumedTo(s, i) = C \cup I /\ CreatedTo(s, i) = D \cup O
    BY <2>1, EffectRounds
  <2>3. C \cap I = {} /\ C \subseteq u /\ I \subseteq u
    <3>1. \A j \in 1 .. i - 1 : j \in 1 .. n /\ j # i
      BY <1>1
    <3>2. \A j \in 1 .. i - 1 :
            /\ ToSet(Inputs[s[j]]) \cap ToSet(Inputs[s[i]]) = {}
            /\ ToSet(Inputs[s[j]]) \subseteq u
      BY <1>2, <3>1
    <3> HIDE DEF n
    <3> QED BY <1>2, <2>1, <3>2 DEF ConsumedTo
  <2>4. C \in Purses /\ I \in Purses
    BY <2>3, ValueBounds
  <2>5. D \in Purses /\ O \in Purses
    BY <2>0, <2>1, CreatedFinite, OutpointsFinite
  <2>6. Value(C \cup I) = Value(C) + Value(I)
    BY <2>3, <2>4, ValueOfUnion
  <2>7. Value(D \cup O) <= Value(D) + Value(O) /\ D \cup O \in Purses
    BY <2>5, ValueBounds
  <2>8. Value(O) <= Value(I)
    BY <1>2, <2>1
  <2>9. Value(D) <= Value(C)
    BY <1>4, <2>1
  <2>10. /\ Value(C) \in Nat /\ Value(I) \in Nat /\ Value(D) \in Nat /\ Value(O) \in Nat
         /\ Value(D \cup O) \in Nat
    BY <2>4, <2>5, <2>7, ValueSplit
  <2>11. Value(D \cup O) <= Value(C \cup I)
    BY <2>6, <2>7, <2>8, <2>9, <2>10
  <2> QED BY <2>0, <2>2, <2>11
<1>5. n \in Good
  <2>1. 0 .. n \subseteq Good
    <3> HIDE DEF Good, n
    <3> QED BY <1>1, <1>3, <1>4, Induct
  <2>2. n \in 0 .. n  BY <1>1
  <2> HIDE DEF Good
  <2> QED BY <2>1, <2>2
<1>6. ConsumedTo(s, n) = Consumed(s) /\ CreatedTo(s, n) = Created(ToSet(s))
  BY EffectRounds
<1> QED BY <1>5, <1>6

(* Every UTXO set is finite, so it has a value.                             *)
FiniteInv == \A n \in Node : utxo[n] \in Purses

LEMMA CommitKeepsFinite ==
  ASSUME ChainInv, NEW n \in Node, LedgerOK(n), utxo[n] \in Purses,
         NEW b \in Block, Commits(n, b)
  PROVE  /\ NonZero(Created(ToSet(b.txs))) \in Purses
         /\ Created(ToSet(b.txs)) \in Purses
         /\ utxo[n] \ Consumed(b.txs) \in Purses
         /\ utxo'[n] \in Purses
<1> DEFINE s == b.txs
<1>1. s \in Seq(Tx) /\ Len(s) \in 0 .. Len(s)
  BY DEF Block
<1>2. utxo'[n] = (utxo[n] \ Consumed(s)) \cup NonZero(Created(ToSet(s)))
  BY CommitEffect
<1> HIDE DEF s
<1>3. Created(ToSet(s)) \in Purses
  <2>1. CreatedTo(s, Len(s)) = Created(ToSet(s))
    BY <1>1, EffectRounds
  <2>2. CreatedTo(s, Len(s)) \in Purses
    BY <1>1, CreatedFinite
  <2> QED BY <2>1, <2>2
<1>4. NonZero(Created(ToSet(s))) \in Purses
  <2>1. NonZero(Created(ToSet(s))) \in SUBSET Created(ToSet(s))
    BY DEF NonZero
  <2> QED BY <1>3, <2>1, ValueBounds
<1>5. utxo[n] \ Consumed(s) \in Purses
  <2>1. utxo[n] \ Consumed(s) \in SUBSET utxo[n]
    OBVIOUS
  <2> QED BY <2>1, ValueBounds
<1>6. utxo'[n] \in Purses
  <2>1. (utxo[n] \ Consumed(s)) \cup NonZero(Created(ToSet(s))) \in Purses
    BY <1>4, <1>5, ValueBounds
  <2> QED BY <1>2, <2>1
<1> QED BY <1>3, <1>4, <1>5, <1>6 DEF s

LEMMA CommitConserves ==
  ASSUME ChainInv, NEW n \in Node, LedgerOK(n), utxo[n] \in Purses,
         NEW b \in Block, Commits(n, b), DisjointInputs(b)
  PROVE  Value(utxo'[n]) <= Value(utxo[n])
<1>1. PICK u, s, C, D : u = utxo[n] /\ s = b.txs /\ C = Consumed(s) /\ D = Created(ToSet(s))
  OBVIOUS
<1>2. /\ NonZero(D) \in Purses /\ D \in Purses /\ u \ C \in Purses /\ u \in Purses
  BY <1>1, CommitKeepsFinite
<1>3. utxo'[n] = (u \ C) \cup NonZero(D)
  BY <1>1, CommitEffect
<1>4. C \in SUBSET u
  BY <1>1, FreshBlock DEF Commits, Extends
<1>5. Value(D) <= Value(C)
  <2>1. s \in Seq(Tx)
    BY <1>1 DEF Block
  <2>2. \A i \in 1 .. Len(s) : TxValid(s[i], u)
    BY <1>1 DEF Commits, Extends, BlockValid
  <2>3. \A i, j \in 1 .. Len(s) : i # j => ToSet(Inputs[s[i]]) \cap ToSet(Inputs[s[j]]) = {}
    BY <1>1 DEF DisjointInputs
  <2>4. Value(Created(ToSet(s))) <= Value(Consumed(s))
    BY <1>2, <2>1, <2>2, <2>3, CreatesNoMore
  <2> QED BY <1>1, <2>4
<1>6. Value(NonZero(D)) <= Value(D)
  <2>1. NonZero(D) \in SUBSET D  BY DEF NonZero
  <2> QED BY <1>2, <2>1, ValueBounds
<1>7. Value(u) = Value(u \ C) + Value(C) /\ C \in Purses
  BY <1>2, <1>4, ValueBounds
<1>8. /\ Value((u \ C) \cup NonZero(D)) <= Value(u \ C) + Value(NonZero(D))
      /\ (u \ C) \cup NonZero(D) \in Purses
  BY <1>2, ValueBounds
<1>9. /\ Value(u) \in Nat /\ Value(u \ C) \in Nat /\ Value(C) \in Nat /\ Value(D) \in Nat
      /\ Value(NonZero(D)) \in Nat /\ Value((u \ C) \cup NonZero(D)) \in Nat
  BY <1>2, <1>7, <1>8, ValueSplit
<1>10. Value((u \ C) \cup NonZero(D)) <= Value(u)
  BY <1>5, <1>6, <1>7, <1>8, <1>9
<1> QED BY <1>1, <1>3, <1>10

(* Only a block that spends an outpoint twice makes a node's UTXO set worth *)
(* more than it was; no other block, no crash and no restart does.          *)
THEOREM DisjointBlocksConserve == Spec => DisjointBlockConserves
<1>1. Init => FiniteInv
  <2>1. Funded \in SUBSET OutpointsOf(Alloc) /\ OutpointsOf(Alloc) \in Purses
    BY OutpointsFinite DEF Funded
  <2>2. Funded \in Purses
    BY <2>1, ValueBounds
  <2> QED BY <2>2 DEF Init, FiniteInv
<1>2. ChainInv /\ LedgerInv /\ FiniteInv /\ [Next]_vars => FiniteInv'
  <2> SUFFICES ASSUME ChainInv, LedgerInv, FiniteInv, [Next]_vars, NEW n \in Node
               PROVE  utxo'[n] \in Purses
    BY DEF FiniteInv, Purses
  <2>0. LedgerOK(n) /\ utxo[n] \in Purses
    BY DEF LedgerInv, FiniteInv
  <2>1. CASE Keeps(n)
    BY <2>0, <2>1 DEF Keeps
  <2>2. ASSUME NEW b \in Block, Commits(n, b) PROVE utxo'[n] \in Purses
    BY <2>0, <2>2, CommitKeepsFinite
  <2>3. CASE Loses(n)
    <3>1. {} \in Purses  BY FS_EmptySet DEF Purses, FiniteSubsets
    <3> QED BY <2>3, <3>1 DEF Loses
  <2> QED BY <2>1, <2>2, <2>3, NodeStep DEF Restarts, Crashes
<1>3. ChainInv /\ LedgerInv /\ FiniteInv /\ [Next]_vars =>
        [\A n \in Node : tip'[n] # tip[n] /\ DisjointInputs(tip'[n]) =>
           Value(utxo'[n]) <= Value(utxo[n])]_vars
  <2> SUFFICES ASSUME ChainInv, LedgerInv, FiniteInv, [Next]_vars, NEW n \in Node,
                      tip'[n] # tip[n], DisjointInputs(tip'[n])
               PROVE  Value(utxo'[n]) <= Value(utxo[n])
    OBVIOUS
  <2>0. LedgerOK(n) /\ utxo[n] \in Purses
    BY DEF LedgerInv, FiniteInv
  <2>1. ASSUME NEW b \in Block, Commits(n, b) PROVE Value(utxo'[n]) <= Value(utxo[n])
    <3>1. DisjointInputs(b)
      BY <2>1 DEF Commits, Extends
    <3> QED BY <2>0, <2>1, <3>1, CommitConserves
  <2>2. CASE Loses(n)
    <3>1. Value({}) = 0 /\ Value(utxo[n]) \in Nat
      BY <2>0, ValueSplit
    <3> QED BY <2>2, <3>1 DEF Loses
  <2> QED BY <2>1, <2>2, NodeStep DEF Keeps, Restarts, Crashes
<1> QED BY <1>1, <1>2, <1>3, ReplicationInvariant, LedgerInvariant, PTL
      DEF Spec, DisjointBlockConserves
=============================================================================
