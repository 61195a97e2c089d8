-------------------------- MODULE SubmissionProofs --------------------------
(***************************************************************************)
(* What a transaction meets before it is in a block: the pool of a node    *)
(* (Mempool), the check of what a seller may sell (Sales), and the wallet  *)
(* that hands in what it made while it was offline (Wallet).               *)
(*                                                                         *)
(* For every set of transactions, every limit and every priority, equal    *)
(* ones included: dict and list of a pool come apart for one cause only,   *)
(* and while they agree what an eviction takes and what a block builder    *)
(* selects is right.  The usage of a seller is the window's, and exceeds   *)
(* the capacity only for the two causes there are.  A payment reported as  *)
(* accepted is in the pool or on the chain, with what shares its inputs.   *)
(* The API serves a client what the limit on the rate allows, and refuses  *)
(* it for no other reason (Intake).                                        *)
(***************************************************************************)
EXTENDS Mempool, Sales, Wallet, Intake, OpsProofs

-----------------------------------------------------------------------------
(***************************************************************************)
(* The pool.                                                               *)
(***************************************************************************)
\* The rounds in which sizes are added up.
LEMMA BytesRun ==
  ASSUME NEW s \in Seq(Tx)
  PROVE  \E r : /\ r[0] = 0
                /\ \A i \in 1 .. Len(s) : r[i] = r[i - 1] + Size[s[i]]
                /\ \A i \in 0 .. Len(s) : r[i] \in Nat
                /\ Bytes(s) = r[Len(s)]
<1> DEFINE n == Len(s)
           Z == Nat
           zero == 0
           f == [x \in Z \X Tx |-> x[1] + Size[x[2]]]
           Rounds(r) == r = [i \in 0 .. n |-> IF i = 0 THEN zero ELSE r[i - 1] + Size[s[i]]]
           after == CHOOSE r : Rounds(r)
<1>1. n \in Nat /\ zero \in Z /\ \A i \in 1 .. n : s[i] \in Tx
  OBVIOUS
<1>2. ASSUME NEW a \in Z, NEW t \in Tx PROVE a + Size[t] \in Z
  BY PoolAssumption DEF PoolAssumption
<1>3. IsBody(f, Z, Tx)
  BY <1>2 DEF IsBody
<1>4. Bytes(s) = after[n]
  BY DEF Bytes, Along
<1> HIDE DEF Z, zero
<1>5. \E r : Rounds(r)
  <2>1. HasRun(f, Z, zero, s)
    <3> HIDE DEF f
    <3> QED BY <1>1, <1>3, RunExists
  <2>2. PICK r \in [0 .. n -> Z] : r[0] = zero /\ \A i \in 1 .. n : r[i] = f[<<r[i - 1], s[i]>>]
    <3> HIDE DEF f
    <3> QED BY <2>1 DEF HasRun
  <2>3. ASSUME NEW i \in 1 .. n PROVE r[i] = r[i - 1] + Size[s[i]]
    <3>0. i - 1 \in 0 .. n /\ s[i] \in Tx  BY <1>1
    <3>1. <<r[i - 1], s[i]>> \in Z \X Tx  BY <2>2, <3>0
    <3> QED BY <2>2, <3>1
  <2>4. Rounds(r)
    BY <1>1, <2>2, <2>3
  <2> QED BY <2>4
<1>6. Rounds(after)
  <2> HIDE DEF Rounds
  <2> QED BY <1>5
<1>7. after[0] = zero /\ \A i \in 1 .. n : after[i] = after[i - 1] + Size[s[i]]
  <2>1. 0 \in 0 .. n /\ \A i \in 1 .. n : i \in 0 .. n /\ i # 0  BY <1>1
  <2>2. after = [i \in 0 .. n |-> IF i = 0 THEN zero ELSE after[i - 1] + Size[s[i]]]
    BY <1>6
  <2> HIDE DEF after, n
  <2> QED BY <2>1, <2>2
<1> HIDE DEF after
<1>8. \A i \in 0 .. n : after[i] \in Z
  <2> DEFINE Good == {i \in 0 .. n : after[i] \in Z}
  <2>1. 0 \in Good  BY <1>1, <1>7
  <2>2. \A i \in 1 .. n : i - 1 \in Good => i \in Good
    BY <1>1, <1>2, <1>7
  <2>3. 0 .. n \subseteq Good
    <3> HIDE DEF Good, n
    <3> QED BY <1>1, <2>1, <2>2, Induct
  <2> QED BY <2>3
<1> QED BY <1>4, <1>7, <1>8 DEF Z, zero

\* One transaction more adds its size.
LEMMA BytesAppend ==
  ASSUME NEW s \in Seq(Tx), NEW t \in Tx
  PROVE  /\ Bytes(s) \in Nat
         /\ Bytes(Append(s, t)) = Bytes(s) + Size[t]
         /\ Bytes(<<>>) = 0
<1> DEFINE n == Len(s)
           c == Append(s, t)
<1>1. /\ n \in Nat /\ c \in Seq(Tx) /\ Len(c) = n + 1 /\ c[n + 1] = t
      /\ \A i \in 1 .. n : c[i] = s[i]
  OBVIOUS
<1>2. PICK r : /\ r[0] = 0 /\ \A i \in 1 .. n : r[i] = r[i - 1] + Size[s[i]]
               /\ \A i \in 0 .. n : r[i] \in Nat
               /\ Bytes(s) = r[n]
  BY BytesRun
<1> HIDE DEF n, c
<1>3. PICK q : /\ q[0] = 0 /\ \A i \in 1 .. n + 1 : q[i] = q[i - 1] + Size[c[i]]
               /\ Bytes(c) = q[n + 1]
  <2>1. \E q : /\ q[0] = 0
               /\ \A i \in 1 .. Len(c) : q[i] = q[i - 1] + Size[c[i]]
               /\ \A i \in 0 .. Len(c) : q[i] \in Nat
               /\ Bytes(c) = q[Len(c)]
    BY <1>1, BytesRun
  <2> QED BY <1>1, <2>1
<1> DEFINE Same == {i \in 0 .. n : q[i] = r[i]}
<1>4. 0 \in Same
  BY <1>1, <1>2, <1>3
<1>5. ASSUME NEW i \in 1 .. n, i - 1 \in Same PROVE i \in Same
  <2>1. i \in 0 .. n /\ i \in 1 .. n + 1  BY <1>1
  <2>2. q[i] = q[i - 1] + Size[c[i]] /\ r[i] = r[i - 1] + Size[s[i]]
    BY <1>2, <1>3, <2>1
  <2> QED BY <1>1, <1>5, <2>1, <2>2
<1>6. n \in Same
  <2>1. 0 .. n \subseteq Same
    <3> HIDE DEF Same
    <3> QED BY <1>1, <1>4, <1>5, Induct
  <2> QED BY <1>1, <2>1
<1>7. n + 1 \in 1 .. n + 1 /\ (n + 1) - 1 = n /\ n \in 0 .. n
  BY <1>1
<1>8. Bytes(c) = Bytes(s) + Size[t] /\ Bytes(s) \in Nat
  BY <1>1, <1>2, <1>3, <1>6, <1>7
<1>9. Bytes(<<>>) = 0
  <2>1. <<>> \in Seq(Tx) /\ Len(<<>>) = 0  OBVIOUS
  <2> QED BY <2>1, BytesRun
<1> QED BY <1>8, <1>9 DEF c

-----------------------------------------------------------------------------
(* Why a transaction t of a list s was passed over when l had been selected. *)
PassedOver(s, l, t) ==
  \E k \in 0 .. Len(l) :
    /\ \A i \in 1 .. Len(l) : i <= k <=> Precedes(s, l[i], t)
    /\ k = MaxCount \/ Bytes(SubSeq(l, 1, k)) + Size[t] > MaxBytes

\* One more at the end that is listed behind it does not change that.
LEMMA StillPassedOver ==
  ASSUME NEW s, NEW l \in Seq(Tx), NEW t \in Tx, PassedOver(s, l, t), NEW u \in Tx,
         ~ Precedes(s, u, t)
  PROVE  PassedOver(s, Append(l, u), t)
<1> DEFINE n == Len(l)
           c == Append(l, u)
<1>1. /\ n \in Nat /\ c \in Seq(Tx) /\ Len(c) = n + 1 /\ c[n + 1] = u
      /\ \A i \in 1 .. n : c[i] = l[i]
  OBVIOUS
<1>2. PICK k \in 0 .. n :
        /\ \A i \in 1 .. n : i <= k <=> Precedes(s, l[i], t)
        /\ k = MaxCount \/ Bytes(SubSeq(l, 1, k)) + Size[t] > MaxBytes
  BY DEF PassedOver
<1>3. SubSeq(c, 1, k) = SubSeq(l, 1, k)
  <2>1. /\ SubSeq(c, 1, k) \in Seq(Tx) /\ Len(SubSeq(c, 1, k)) = k
        /\ \A j \in 1 .. k : SubSeq(c, 1, k)[j] = c[j]
    BY <1>1, SubSeqProperties
  <2>2. /\ SubSeq(l, 1, k) \in Seq(Tx) /\ Len(SubSeq(l, 1, k)) = k
        /\ \A j \in 1 .. k : SubSeq(l, 1, k)[j] = l[j]
    BY <1>1, SubSeqProperties
  <2>3. PICK a, e : a = SubSeq(c, 1, k) /\ e = SubSeq(l, 1, k)
    OBVIOUS
  <2>4. \A j \in 1 .. k : c[j] = l[j]
    BY <1>1
  <2>5. a = e
    BY <2>1, <2>2, <2>3, <2>4
  <2> QED BY <2>3, <2>5
<1> HIDE DEF n, c
<1>4. \A i : i \in 1 .. n + 1 <=> i \in 1 .. n \/ i = n + 1
  BY <1>1
<1>5. \A i \in 1 .. n + 1 : i <= k <=> Precedes(s, c[i], t)
  <2>1. ~ (n + 1 <= k)
    BY <1>1
  <2> QED BY <1>1, <1>2, <1>4, <2>1
<1>6. k \in 0 .. n + 1
  BY <1>1
<1>7. PassedOver(s, c, t)
  BY <1>1, <1>2, <1>3, <1>5, <1>6 DEF PassedOver
<1> QED BY <1>7 DEF c

(* What the loop of select_transactions keeps, along a list without         *)
(* repetition: after i rounds the selection is in the order of the list and *)
(* within the limits, and all seen so far is selected or passed over for a  *)
(* reason.                                                                  *)
LEMMA SelectionIs ==
  ASSUME NEW p, Coherent(p)
  PROVE  LET chosen == SelectTransactions(p, MaxCount, MaxBytes) IN
         /\ chosen \in Seq(Tx)
         /\ ToSet(chosen) \subseteq p.entries
         /\ Len(chosen) <= MaxCount /\ Bytes(chosen) <= MaxBytes
         /\ \A i, j \in 1 .. Len(chosen) : i < j => Precedes(p.ordered, chosen[i], chosen[j])
         /\ \A t \in p.entries \ ToSet(chosen) : PassedOver(p.ordered, chosen, t)
<1> DEFINE s == p.ordered
           n == Len(s)
<1>1. /\ p \in Pools /\ s \in Seq(Tx) /\ n \in Nat
      /\ ToSet(s) = p.entries /\ ToSet(s) = {s[i] : i \in 1 .. n}
      /\ \A i \in 1 .. n : s[i] \in Tx
      /\ \A i, j \in 1 .. n : s[i] = s[j] => i = j
      /\ MaxCount \in Nat /\ MaxBytes \in Nat
      /\ \A t \in Tx : Size[t] \in Nat
  <2>1. /\ p \in Pools /\ s \in Seq(Tx) /\ ToSet(s) = p.entries
        /\ \A i, j \in 1 .. n : s[i] = s[j] => i = j
    BY DEF Coherent, IsInjective, Pools
  <2>2. n \in Nat /\ \A i \in 1 .. n : s[i] \in Tx
    BY <2>1
  <2>3. ToSet(s) = {s[i] : i \in 1 .. n}
    BY <2>1, ToSetIs
  <2>4. /\ MaxCount \in Nat /\ MaxBytes \in Nat
        /\ \A t \in Tx : Size[t] \in Nat
    BY MempoolAssumption, PoolAssumption DEF MempoolAssumption, PoolAssumption
  <2> QED BY <2>1, <2>2, <2>3, <2>4
<1>2. PICK r : /\ r[0] = [txs |-> <<>>, bytes |-> 0]
               /\ \A i \in 1 .. n : r[i] = Choose(r[i - 1], s[i], MaxCount, MaxBytes)
               /\ \A i \in 0 .. n : r[i] \in Chosen
               /\ SelectTransactions(p, MaxCount, MaxBytes) = r[n].txs
  BY <1>1, SelectRun
<1>p. \A u, v : Precedes(s, u, v) <=> \E i, j \in 1 .. n : i < j /\ s[i] = u /\ s[j] = v
  BY DEF Precedes
<1> HIDE DEF s, n
<1> DEFINE Sound(l, b, i) ==
             /\ l \in Seq(Tx) /\ b = Bytes(l)
             /\ Len(l) <= MaxCount /\ b <= MaxBytes
             /\ \A g, h \in 1 .. Len(l) : g < h => Precedes(s, l[g], l[h])
             /\ \A j \in 1 .. Len(l) : \E h \in 1 .. i : l[j] = s[h]
             /\ \A h \in 1 .. i : (\E j \in 1 .. Len(l) : l[j] = s[h]) \/ PassedOver(s, l, s[h])
           Good == {i \in 0 .. n : Sound(r[i].txs, r[i].bytes, i)}
<1>3. 0 \in Good
  <2>1. r[0].txs = <<>> /\ r[0].bytes = 0 /\ 0 \in 0 .. n  BY <1>1, <1>2
  <2>2. <<>> \in Seq(Tx) /\ Len(<<>>) = 0 /\ 1 .. 0 = {}  OBVIOUS
  <2>3. Bytes(<<>>) = 0
    BY <2>2, BytesRun
  <2>4. Sound(<<>>, 0, 0)
    BY <1>1, <2>2, <2>3
  <2> HIDE DEF Sound
  <2> QED BY <2>1, <2>4
<1>4. ASSUME NEW i \in 1 .. n, i - 1 \in Good PROVE i \in Good
  <2>1. i \in 0 .. n /\ i - 1 \in 0 .. n /\ s[i] \in Tx /\ i \in Nat
    BY <1>1
  <2>2. PICK t, l, b : t = s[i] /\ l = r[i - 1].txs /\ b = r[i - 1].bytes
    OBVIOUS
  <2>3. t \in Tx /\ Sound(l, b, i - 1) /\ b \in Nat /\ Bytes(l) \in Nat
    BY <1>2, <1>4, <2>1, <2>2, BytesAppend DEF Chosen
  <2>4. \A h : h \in 1 .. i <=> h \in 1 .. i - 1 \/ h = i
    BY <2>1
  <2>5. \A h \in 1 .. i - 1 : h \in 1 .. n /\ Precedes(s, s[h], t) /\ ~ Precedes(s, t, s[h])
    <3>1. \A h \in 1 .. i - 1 : h \in 1 .. n /\ h < i
      BY <1>1
    <3>2. ASSUME NEW h \in 1 .. i - 1 PROVE ~ Precedes(s, t, s[h])
      <4>1. SUFFICES ASSUME NEW a \in 1 .. n, NEW e \in 1 .. n, a < e, s[a] = t, s[e] = s[h]
                     PROVE  FALSE
        BY <1>p
      <4>2. a = i /\ e = h
        BY <1>1, <2>2, <3>1, <4>1
      <4> QED BY <1>1, <3>1, <4>1, <4>2
    <3> QED BY <1>p, <2>2, <3>1, <3>2
  <2>6. \A j \in 1 .. Len(l) : Precedes(s, l[j], t)
    BY <2>3, <2>5
  <2>7. CASE Len(l) >= MaxCount \/ b + Size[t] > MaxBytes
    <3>1. r[i].txs = l /\ r[i].bytes = b
      BY <1>2, <2>2, <2>7 DEF Choose
    <3>2. PassedOver(s, l, t)
      <4>1. Len(l) \in 0 .. Len(l) /\ \A j \in 1 .. Len(l) : j <= Len(l)
        BY <2>3
      <4>2. SubSeq(l, 1, Len(l)) = l
        BY <2>3
      <4>3. Len(l) = MaxCount \/ Bytes(l) + Size[t] > MaxBytes
        BY <1>1, <2>3, <2>7, <4>1
      <4> QED BY <2>6, <4>1, <4>2, <4>3 DEF PassedOver
    <3>3. Sound(l, b, i)
      BY <2>2, <2>3, <2>4, <3>2
    <3> QED BY <2>1, <3>1, <3>3
  <2>8. CASE ~ (Len(l) >= MaxCount \/ b + Size[t] > MaxBytes)
    <3> DEFINE c == Append(l, t)
               m == Len(l)
    <3>1. r[i].txs = c /\ r[i].bytes = b + Size[t]
      <4>1. r[i] = Choose(r[i - 1], s[i], MaxCount, MaxBytes)
        BY <1>2
      <4>2. r[i] = [txs |-> c, bytes |-> b + Size[t]]
        BY <2>2, <2>8, <4>1 DEF Choose
      <4> QED BY <4>2
    <3>2. /\ c \in Seq(Tx) /\ m \in Nat /\ Len(c) = m + 1 /\ c[m + 1] = t
          /\ \A j \in 1 .. m : c[j] = l[j]
      BY <2>3
    <3>3. b + Size[t] = Bytes(c)
      BY <2>3, BytesAppend
    <3>4. Len(c) <= MaxCount /\ b + Size[t] <= MaxBytes
      BY <1>1, <2>3, <2>8, <3>2
    <3> HIDE DEF c, m
    <3>5. \A j : j \in 1 .. m + 1 <=> j \in 1 .. m \/ j = m + 1
      BY <3>2
    <3>6. ASSUME NEW g \in 1 .. m + 1, NEW h \in 1 .. m + 1, g < h
          PROVE  Precedes(s, c[g], c[h])
      <4>1. g \in 1 .. m  BY <3>2, <3>6
      <4>2. CASE h \in 1 .. m
        BY <2>3, <3>2, <3>6, <4>1, <4>2 DEF m
      <4>3. CASE h = m + 1
        BY <2>6, <3>2, <4>1, <4>3 DEF m
      <4> QED BY <3>5, <4>2, <4>3
    <3>7. ASSUME NEW j \in 1 .. Len(c) PROVE \E h \in 1 .. i : c[j] = s[h]
      <4>1. CASE j = m + 1
        BY <2>2, <3>2, <4>1
      <4>2. CASE j \in 1 .. m
        <5>1. PICK h \in 1 .. i - 1 : l[j] = s[h]
          BY <2>3, <4>2 DEF m
        <5>2. h \in 1 .. i
          BY <2>4, <5>1
        <5> QED BY <3>2, <4>2, <5>1, <5>2
      <4> QED BY <3>2, <3>5, <4>1, <4>2
    <3>8. ASSUME NEW h \in 1 .. i
          PROVE  (\E j \in 1 .. Len(c) : c[j] = s[h]) \/ PassedOver(s, c, s[h])
      <4>1. CASE h = i
        BY <2>2, <3>2, <3>5, <4>1
      <4>2. CASE h \in 1 .. i - 1 /\ \E j \in 1 .. m : l[j] = s[h]
        BY <3>2, <3>5, <4>2
      <4>3. CASE h \in 1 .. i - 1 /\ PassedOver(s, l, s[h])
        <5>1. s[h] \in Tx /\ ~ Precedes(s, t, s[h])
          BY <1>1, <2>5, <4>3
        <5> QED BY <2>3, <4>3, <5>1, StillPassedOver DEF c
      <4> QED BY <2>3, <2>4, <4>1, <4>2, <4>3 DEF m
    <3>9. Sound(c, b + Size[t], i)
      BY <3>2, <3>3, <3>4, <3>6, <3>7, <3>8
    <3> QED BY <2>1, <3>1, <3>9
  <2> QED BY <2>7, <2>8
<1>5. n \in Good
  <2>1. 0 .. n \subseteq Good
    <3> HIDE DEF Good
    <3> QED BY <1>1, <1>3, <1>4, Induct
  <2>2. n \in 0 .. n  BY <1>1
  <2> HIDE DEF Good
  <2> QED BY <2>1, <2>2
<1>6. PICK l : l = SelectTransactions(p, MaxCount, MaxBytes) /\ Sound(l, Bytes(l), n)
  BY <1>2, <1>5
<1>7. ToSet(l) = {l[j] : j \in 1 .. Len(l)}
  BY <1>6, ToSetIs
<1>8. ToSet(l) \subseteq p.entries
  BY <1>1, <1>6, <1>7
<1>9. ASSUME NEW t \in p.entries \ ToSet(l) PROVE PassedOver(s, l, t)
  <2>1. PICK h \in 1 .. n : t = s[h]
    BY <1>1
  <2>2. ~ \E j \in 1 .. Len(l) : l[j] = s[h]
    BY <1>7, <1>9, <2>1
  <2>3. PassedOver(s, l, s[h])
    BY <1>6, <2>2
  <2> QED BY <2>1, <2>3
<1> QED BY <1>6, <1>8, <1>9 DEF s

(* The block builder takes the best that fits, and no other, from any pool  *)
(* whose dict and list agree.                                               *)
THEOREM SelectionIsJustified == Spec => []SelectionJustified
<1>1. SelectionJustified
  <2> SUFFICES ASSUME Coherent(pool) PROVE SelectionJustified
    BY DEF SelectionJustified
  <2> QED BY SelectionIs DEF SelectionJustified, PassedOver
<1> QED BY <1>1, PTL

(* An addition costs the pool at most one transaction, the cheapest.        *)
THEOREM EvictionTakesTheCheapest == Spec => EvictsCheapest
<1> DEFINE Step ==
      Coherent(pool) =>
        \A t \in Tx : Add(t) =>
          \A gone \in (pool.entries \cup {t}) \ pool'.entries :
            /\ pool'.entries = (pool.entries \cup {t}) \ {gone}
            /\ gone = t \/ Priority[gone] < Priority[t]
            /\ \A stay \in pool'.entries : Priority[gone] <= Priority[stay]
<1>1. [Next]_pool => [Step]_pool
  <2> SUFFICES ASSUME Coherent(pool), NEW t \in Tx, Add(t)
               PROVE  \A gone \in (pool.entries \cup {t}) \ pool'.entries :
                        /\ pool'.entries = (pool.entries \cup {t}) \ {gone}
                        /\ gone = t \/ Priority[gone] < Priority[t]
                        /\ \A stay \in pool'.entries : Priority[gone] <= Priority[stay]
    OBVIOUS
  <2> QED BY AddTxIs DEF Add
<1> QED BY <1>1, PTL DEF Spec, EvictsCheapest

-----------------------------------------------------------------------------
(* While remove_confirmed has not raised, what it is asked for leaves the   *)
(* dict for good, and what it is never asked for stays.                     *)
LEMMA RemovalEntries ==
  ASSUME NEW n \in Nat, NEW r, NEW txs,
         \A i \in 1 .. n : r[i] = Removal(r[i - 1], txs[i]),
         NEW k \in 1 .. n, ~ r[k - 1].raised,
         NEW u \in r[0].pool.entries, \A i \in 1 .. n : u # txs[i]
  PROVE  txs[k] \notin r[n].pool.entries /\ u \in r[n].pool.entries
<1> DEFINE Good == {i \in 0 .. n : /\ u \in r[i].pool.entries
                                   /\ i >= k => txs[k] \notin r[i].pool.entries}
<1>1. 0 \in Good
  OBVIOUS
<1>2. ASSUME NEW i \in 1 .. n, i - 1 \in Good PROVE i \in Good
  <2>1. PICK acc, t : acc = r[i - 1] /\ t = txs[i]
    OBVIOUS
  <2>2. r[i] = Removal(acc, t)
    BY <2>1
  <2>3. /\ r[i].pool.entries \in {acc.pool.entries, acc.pool.entries \ {t}}
        /\ ~ acc.raised => r[i].pool.entries = acc.pool.entries \ {t}
    BY <2>2 DEF Removal, RemoveTx
  <2>4. u \in acc.pool.entries /\ (i - 1 >= k => txs[k] \notin acc.pool.entries) /\ u # t
    BY <1>2, <2>1
  <2>5. CASE i = k
    <3>1. ~ acc.raised /\ t = txs[k]  BY <2>1, <2>5
    <3> QED BY <2>3, <2>4, <3>1
  <2>6. CASE i # k
    <3>1. i >= k => i - 1 >= k  BY <2>6
    <3> QED BY <2>3, <2>4, <3>1
  <2> QED BY <2>5, <2>6
<1>3. n \in Good
  <2>1. 0 .. n \subseteq Good
    <3> HIDE DEF Good
    <3> QED BY <1>1, <1>2, Induct
  <2>2. n \in 0 .. n  OBVIOUS
  <2> HIDE DEF Good
  <2> QED BY <2>1, <2>2
<1> QED BY <1>3

(* Removing what a block took leaves a coherent pool coherent, unless one   *)
(* that stays is listed before one that leaves and pays the same.           *)
LEMMA ConfirmedLeaveCoherent ==
  ASSUME NEW p, Coherent(p),
         \A t \in p.entries \ RemoveConfirmed(p, SelectTransactions(p, MaxCount, MaxBytes)).entries,
            u \in RemoveConfirmed(p, SelectTransactions(p, MaxCount, MaxBytes)).entries :
           Priority[u] = Priority[t] => ~ Precedes(p.ordered, u, t)
  PROVE  Coherent(RemoveConfirmed(p, SelectTransactions(p, MaxCount, MaxBytes)))
<1> DEFINE s == p.ordered
           txs == SelectTransactions(p, MaxCount, MaxBytes)
           n == Len(txs)
           final == RemoveConfirmed(p, txs)
<1>1. /\ txs \in Seq(Tx) /\ ToSet(txs) \subseteq p.entries
      /\ \A i, j \in 1 .. n : i < j => Precedes(s, txs[i], txs[j])
  BY SelectionIs
<1>2. \A u, v : ~ (Precedes(s, u, v) /\ Precedes(s, v, u))
  <2>1. /\ s \in Seq(Tx) /\ \A i, j \in 1 .. Len(s) : s[i] = s[j] => i = j
    BY DEF Coherent, IsInjective, Pools
  <2> SUFFICES ASSUME NEW u, NEW v, Precedes(s, u, v), Precedes(s, v, u) PROVE FALSE
    OBVIOUS
  <2>2. PICK a \in 1 .. Len(s), e \in 1 .. Len(s) : a < e /\ s[a] = u /\ s[e] = v
    BY DEF Precedes
  <2>3. PICK g \in 1 .. Len(s), h \in 1 .. Len(s) : g < h /\ s[g] = v /\ s[h] = u
    BY DEF Precedes
  <2>4. a = h /\ e = g
    BY <2>1, <2>2, <2>3
  <2> QED BY <2>2, <2>3, <2>4
<1>3. p \in Pools /\ p.entries \subseteq Tx
  BY DEF Coherent, Pools
<1> HIDE DEF txs
<1>4. PICK r : /\ r[0] = [pool |-> p, raised |-> FALSE]
               /\ \A i \in 1 .. n : r[i] = Removal(r[i - 1], txs[i])
               /\ final = r[n].pool
  <2>1. Kept(Pools)
    BY RemoveTxInPools DEF Kept
  <2> HIDE DEF n, final, Pools
  <2>2. \E r : /\ r[0] = [pool |-> p, raised |-> FALSE]
               /\ \A i \in 1 .. Len(txs) : r[i] = Removal(r[i - 1], txs[i])
               /\ \A i \in 0 .. Len(txs) : r[i] \in Removals(Pools)
               /\ RemoveConfirmed(p, txs) = r[Len(txs)].pool
    BY <1>1, <1>3, <2>1, RemoveRun
  <2> QED BY <2>2 DEF n, final
<1>5. /\ n \in Nat /\ ToSet(txs) = {txs[i] : i \in 1 .. n}
      /\ \A i \in 1 .. n : txs[i] \in p.entries
  BY <1>1, ToSetIs
<1>6. \A t \in p.entries \ final.entries, u \in final.entries :
        Priority[u] = Priority[t] => ~ Precedes(s, u, t)
  BY DEF txs
<1> HIDE DEF n, final, s
<1> DEFINE Sound(a, k) ==
             /\ ~ a.raised /\ Coherent(a.pool)
             /\ a.pool.entries = {u \in p.entries : \A j \in 1 .. k : u # txs[j]}
             /\ \A u, v : Precedes(a.pool.ordered, u, v) => Precedes(s, u, v)
           Good == {i \in 0 .. n : Sound(r[i], i)}
<1>7. 0 \in Good
  BY <1>4, <1>5 DEF s
<1>8. ASSUME NEW i \in 1 .. n, i - 1 \in Good PROVE i \in Good
  <2>1. PICK acc, t : acc = r[i - 1] /\ t = txs[i]
    OBVIOUS
  <2>2. Sound(acc, i - 1) /\ r[i] = Removal(acc, t) /\ i \in 0 .. n
    BY <1>4, <1>5, <1>8, <2>1
  <2>3. \A j : j \in 1 .. i <=> j \in 1 .. i - 1 \/ j = i
    OBVIOUS
  <2>4. t \in acc.pool.entries
    <3>1. \A j \in 1 .. i - 1 : j \in 1 .. n /\ j < i  BY <1>5
    <3>2. \A j \in 1 .. i - 1 : txs[j] # t
      BY <1>1, <1>2, <2>1, <3>1
    <3> QED BY <1>5, <2>1, <2>2, <3>2
  <2>5. ASSUME NEW u \in acc.pool.entries, Priority[u] = Priority[t],
               Precedes(acc.pool.ordered, u, t)
        PROVE  FALSE
    <3>1. Precedes(s, u, t) /\ u \in p.entries /\ \A j \in 1 .. i - 1 : u # txs[j]
      BY <2>2, <2>5
    <3>2. ASSUME NEW j \in 1 .. n PROVE u # txs[j]
      <4>1. CASE j < i
        BY <1>5, <3>1, <4>1
      <4>2. CASE j = i
        BY <1>2, <2>1, <3>1, <4>2
      <4>3. CASE i < j
        BY <1>1, <1>2, <2>1, <3>1, <4>3
      <4> QED BY <1>5, <4>1, <4>2, <4>3
    <3>3. ~ r[i - 1].raised /\ u \in r[0].pool.entries
      BY <1>4, <2>1, <2>2, <3>1
    <3>4. txs[i] \notin r[n].pool.entries /\ u \in r[n].pool.entries
      <4> HIDE DEF Good, Sound
      <4> QED BY <1>4, <1>5, <3>2, <3>3, RemovalEntries
    <3>5. t \in p.entries \ final.entries /\ u \in final.entries
      BY <1>4, <1>5, <2>1, <3>4
    <3> QED BY <1>6, <2>5, <3>1, <3>5
  <2>6. LET q == RemoveTx(acc.pool, t) IN
        /\ Coherent(q)
        /\ q.entries = acc.pool.entries \ {t}
        /\ \A u, v : Precedes(q.ordered, u, v) => Precedes(acc.pool.ordered, u, v)
        /\ ~ RemoveTxRaises(acc.pool, t)
    <3>1. PICK z : z = acc.pool  OBVIOUS
    <3>2. /\ Coherent(z) /\ t \in z.entries
          /\ \A u \in z.entries : Priority[u] = Priority[t] => ~ Precedes(z.ordered, u, t)
      BY <2>2, <2>4, <2>5, <3>1
    <3> QED BY <3>1, <3>2, RemoveTxIs
  <2>7. r[i] = [pool |-> RemoveTx(acc.pool, t), raised |-> FALSE]
    <3>1. ~ acc.raised  BY <2>2
    <3>2. RemoveTxRaises(acc.pool, t) = FALSE  BY <2>6 DEF RemoveTxRaises
    <3> QED BY <2>2, <3>1, <3>2 DEF Removal
  <2>8. Sound(r[i], i)
    BY <2>1, <2>2, <2>3, <2>6, <2>7
  <2> HIDE DEF Sound
  <2> QED BY <2>2, <2>8
<1>9. n \in Good
  <2>1. 0 .. n \subseteq Good
    <3> HIDE DEF Good
    <3> QED BY <1>5, <1>7, <1>8, Induct
  <2>2. n \in 0 .. n  BY <1>5
  <2> HIDE DEF Good
  <2> QED BY <2>1, <2>2
<1>10. Coherent(final)
  BY <1>4, <1>9
<1> QED BY <1>10 DEF final, txs

(* The dict and the list of a Mempool come apart for one cause only, after  *)
(* any sequence of its operations, whatever its transactions pay.           *)
THEOREM PoolsDriftForACause == Spec => DriftHasCause
<1> DEFINE Cause == \E t \in pool.entries \ pool'.entries, u \in pool'.entries :
                      Priority[u] = Priority[t] /\ Precedes(pool.ordered, u, t)
           Step == Coherent(pool) => Coherent(pool') \/ Cause
<1>1. [Next]_pool => [Step]_pool
  <2> SUFFICES ASSUME Coherent(pool), Next, ~ Cause PROVE Coherent(pool')
    OBVIOUS
  <2>1. ASSUME NEW t \in Tx, Add(t) PROVE Coherent(pool')
    BY <2>1, AddTxIs DEF Add
  <2>2. ASSUME NEW t \in Tx, Remove1(t) PROVE Coherent(pool')
    <3>1. pool' = RemoveTx(pool, t) /\ t \in pool.entries /\ pool'.entries = pool.entries \ {t}
      BY <2>2 DEF Remove1, RemoveTx
    <3>2. ASSUME NEW u \in pool.entries, Priority[u] = Priority[t] PROVE ~ Precedes(pool.ordered, u, t)
      <4>1. CASE u = t
        <5>1. \A i, j \in 1 .. Len(pool.ordered) : pool.ordered[i] = pool.ordered[j] => i = j
          BY DEF Coherent, IsInjective, Pools
        <5> QED BY <4>1, <5>1 DEF Precedes
      <4>2. CASE u # t
        BY <3>1, <3>2, <4>2
      <4> QED BY <4>1, <4>2
    <3> HIDE DEF Cause
    <3> QED BY <3>1, <3>2, RemoveTxIs
  <2>3. CASE ConfirmBlock
    <3>1. pool' = RemoveConfirmed(pool, SelectTransactions(pool, MaxCount, MaxBytes))
      BY <2>3 DEF ConfirmBlock
    <3> QED BY <3>1, ConfirmedLeaveCoherent
  <2>4. CASE Clear
    <3>1. IsFiniteSet({}) /\ Cardinality({}) = 0 /\ ToSet(<<>>) = {} /\ IsInjective(<<>>)
      BY FS_EmptySet DEF ToSet, IsInjective
    <3> QED BY <2>4, <3>1, PoolAssumption
            DEF Clear, EmptyPool, Coherent, Pools, IsOrdered, PoolAssumption
  <2> QED BY <2>1, <2>2, <2>3, <2>4 DEF Next
<1> QED BY <1>1, PTL DEF Spec, DriftHasCause

-----------------------------------------------------------------------------
(***************************************************************************)
(* The sale check.  Its arithmetic first.                                  *)
(***************************************************************************)
\* The quotient of two naturals, and how it and the product grow.
LEMMA DivIs ==
  ASSUME NEW a \in Nat, NEW k \in Nat \ {0}
  PROVE  /\ a \div k \in Nat
         /\ k * (a \div k) <= a /\ a < k * (a \div k) + k
OBVIOUS

LEMMA TimesMonotone ==
  ASSUME NEW a \in Nat, NEW b \in Nat, NEW k \in Nat, a <= b
  PROVE  a * k <= b * k /\ a * k \in Nat
OBVIOUS

LEMMA DivMeets ==
  ASSUME NEW a \in Nat, NEW b \in Nat \ {0}, NEW k \in Nat
  PROVE  k <= a \div b <=> b * k <= a
<1>1. PICK q \in Int : q = a \div b /\ b * q <= a /\ a < b * q + b
  BY DivIs
<1>2. ASSUME k <= q PROVE b * k <= a
  <2>1. b * q = b * k + b * (q - k) /\ b * (q - k) >= 0 /\ b * k \in Int /\ b * (q - k) \in Int
    BY <1>2
  <2> QED BY <1>1, <2>1
<1>3. ASSUME k >= q + 1 PROVE ~ (b * k <= a)
  <2>1. b * k = b * q + b + b * (k - q - 1) /\ b * (k - q - 1) >= 0 /\ b * q \in Int /\ b * (k - q - 1) \in Int
    BY <1>3
  <2> QED BY <1>1, <2>1
<1> QED BY <1>1, <1>2, <1>3

(* What an amount of N may sell, rounded down, and what a sale needs of N,  *)
(* rounded up, agree: a sale lies within the capacity of some N exactly     *)
(* when the rule asks for no more than that N (params.py:118-149).          *)
THEOREM RoundingsAgree ==
  ASSUME NEW rate, rate.num \in Nat \ {0}, rate.den \in Nat \ {0}, NEW d \in Nat, NEW n \in Nat
  PROVE  d <= MaxSaleCapacity(rate, n) <=> RequiredN(rate, d) <= n
<1>1. PICK x, y : x = rate.num * d /\ y = n * rate.den
  OBVIOUS
<1>2. x \in Nat /\ y \in Nat
  BY <1>1
<1>3. d <= MaxSaleCapacity(rate, n) <=> x <= y
  BY <1>1, <1>2, DivMeets DEF MaxSaleCapacity
<1>4. ~ (n + 1 <= RequiredN(rate, d)) <=> x <= y
  <2>1. x + rate.den - 1 \in Nat  BY <1>2
  <2>2. n + 1 <= RequiredN(rate, d) <=> rate.den * (n + 1) <= x + rate.den - 1
    BY <1>1, <2>1, DivMeets DEF RequiredN
  <2>3. rate.den * (n + 1) = y + rate.den
    <3>1. PICK e \in Nat : e = rate.den
      OBVIOUS
    <3>2. e * (n + 1) = e * n + e /\ e * n = n * e
      BY <3>1
    <3> QED BY <1>1, <3>1, <3>2
  <2> QED BY <1>2, <2>2, <2>3
<1>5. RequiredN(rate, d) \in Int
  <2>1. x + rate.den - 1 \in Nat  BY <1>2
  <2> QED BY <1>1, <2>1, DivIs DEF RequiredN
<1> QED BY <1>3, <1>4, <1>5

LEMMA DivMonotone ==
  ASSUME NEW a \in Nat, NEW b \in Nat, NEW k \in Nat \ {0}, a <= b
  PROVE  a \div k \in Nat /\ a \div k <= b \div k
<1>1. PICK p, q : p = a \div k /\ q = b \div k
  OBVIOUS
<1>2. /\ p \in Nat /\ q \in Nat /\ k * p <= a /\ b < k * q + k
  BY <1>1, DivIs
<1>3. ASSUME q < p PROVE FALSE
  <2>1. q + 1 <= p /\ q + 1 \in Nat  BY <1>2, <1>3
  <2>2. (q + 1) * k <= p * k
    BY <1>2, <2>1, TimesMonotone
  <2>3. (q + 1) * k = k * q + k /\ p * k = k * p
    BY <1>2
  <2> QED BY <1>2, <2>2, <2>3
<1> QED BY <1>1, <1>2, <1>3

LEMMA LargerIs ==
  ASSUME NEW a \in Int, NEW b \in Int
  PROVE  /\ Max({a, b}) = IF a >= b THEN a ELSE b
         /\ Min({a, b}) = IF a <= b THEN a ELSE b
BY DEF Max, Min

-----------------------------------------------------------------------------
\* The window moves on with the height, and the block of the height is in it.
LEMMA WindowStartIs ==
  ASSUME NEW h \in Nat, NEW k \in Nat, h <= k
  PROVE  /\ WindowStart(h) \in Nat /\ WindowStart(h) <= WindowStart(k)
         /\ h # 0 => WindowStart(h) < h
<1>1. Window \in Nat \ {0} /\ h - Window \in Int /\ k - Window \in Int /\ 0 \in Int
  BY SalesAssumption DEF SalesAssumption
<1>2. /\ WindowStart(h) = IF 0 >= h - Window THEN 0 ELSE h - Window
      /\ WindowStart(k) = IF 0 >= k - Window THEN 0 ELSE k - Window
  BY <1>1, LargerIs DEF WindowStart
<1> QED BY <1>1, <1>2

LEMMA BonusGrows ==
  ASSUME NEW s \in Raw, NEW h \in Nat, NEW k \in Nat, h <= k
  PROVE  AuthBonus(s, h) \in Nat /\ AuthBonus(s, h) <= AuthBonus(s, k)
<1> DEFINE Since(m) == Max({0, m - s.first_auth_height})
           Bonus(m) == Min({100 * (Since(m) \div Month), 1000})
<1>1. s.first_auth_height \in Nat /\ Month \in Nat \ {0}
  BY SalesAssumption DEF SalesAssumption, Raw
<1>2. \A m \in Nat : Since(m) = IF 0 >= m - s.first_auth_height THEN 0 ELSE m - s.first_auth_height
  BY <1>1, LargerIs
<1>3. Since(h) \in Nat /\ Since(k) \in Nat /\ Since(h) <= Since(k)
  BY <1>1, <1>2
<1> HIDE DEF Since
<1>4. PICK p, q : p = Since(h) \div Month /\ q = Since(k) \div Month
  OBVIOUS
<1>5. p \in Nat /\ q \in Nat /\ p <= q
  BY <1>1, <1>3, <1>4, DivMonotone
<1>6. /\ Bonus(h) = IF 100 * p <= 1000 THEN 100 * p ELSE 1000
      /\ Bonus(k) = IF 100 * q <= 1000 THEN 100 * q ELSE 1000
  <2>1. PICK u, v, m : u = 100 * p /\ v = 100 * q /\ m = 1000
    OBVIOUS
  <2>2. u \in Int /\ v \in Int /\ m \in Int
    BY <1>5, <2>1
  <2>3. Min({u, m}) = IF u <= m THEN u ELSE m
    BY <2>2, LargerIs
  <2>4. Min({v, m}) = IF v <= m THEN v ELSE m
    BY <2>2, LargerIs
  <2>5. Bonus(h) = Min({u, m}) /\ Bonus(k) = Min({v, m})
    BY <1>4, <2>1
  <2> QED BY <2>1, <2>3, <2>4, <2>5
<1>7. Bonus(h) \in Nat /\ Bonus(k) \in Nat /\ Bonus(h) <= Bonus(k)
  BY <1>5, <1>6
<1>8. \A m : AuthBonus(s, m) = IF s.status # "AUTHENTICATED" THEN 0
                                 ELSE IF s.first_auth_height = 0 THEN 1000
                                 ELSE 1000 + Bonus(m)
  BY DEF AuthBonus, Since
<1> HIDE DEF Bonus
<1> QED BY <1>7, <1>8

\* The capacity of an account does not fall with the height.
LEMMA CapacityGrows ==
  ASSUME NEW s \in Raw, NEW rate \in Rates, rate.num # 0,
         NEW h \in Nat, NEW k \in Nat, h <= k
  PROVE  Capacity(s, rate, h) \in Nat /\ Capacity(s, rate, h) <= Capacity(s, rate, k)
<1>1. rate.num \in Nat \ {0} /\ rate.den \in Nat /\ s.n_available \in Nat
  BY SalesAssumption DEF SalesAssumption, Raw
<1>2. CASE s.n_available <= 0
  BY <1>2 DEF Capacity
<1>3. CASE ~ (s.n_available <= 0)
  <2>1. PICK c, b, d : /\ c = MaxSaleCapacity(rate, s.n_available)
                       /\ b = AuthBonus(s, h) /\ d = AuthBonus(s, k)
    OBVIOUS
  <2>2. c \in Nat
    <3>1. s.n_available * rate.den \in Nat  BY <1>1, TimesMonotone
    <3> QED BY <1>1, <2>1, <3>1, DivMonotone DEF MaxSaleCapacity
  <2>3. b \in Nat /\ d \in Nat /\ b <= d
    BY <2>1, BonusGrows
  <2>4. c * b \in Nat /\ c * d \in Nat /\ c * b <= c * d
    <3>1. b * c <= d * c /\ b * c \in Nat /\ d * c \in Nat  BY <2>2, <2>3, TimesMonotone
    <3>2. b * c = c * b /\ d * c = c * d  BY <2>2, <2>3
    <3> QED BY <3>1, <3>2
  <2>5. (c * b) \div 1000 \in Nat /\ (c * b) \div 1000 <= (c * d) \div 1000
    BY <2>4, DivMonotone
  <2>6. /\ Capacity(s, rate, h) = (c * b) \div 1000
        /\ Capacity(s, rate, k) = (c * d) \div 1000
    BY <1>3, <2>1 DEF Capacity
  <2> QED BY <2>5, <2>6
<1> QED BY <1>2, <1>3

-----------------------------------------------------------------------------
Sold == [r \in Sale |-> r.amount]

\* What a set of sales sums up to.
LEMMA SumAfterIs ==
  ASSUME NEW L \in FiniteSubsets(Sale), NEW a, NEW start
  PROVE  /\ After(L, a, start) \in FiniteSubsets(Sale)
         /\ SumAfter(L, a, start) = TotalOf(Sold, After(L, a, start))
         /\ SumAfter(L, a, start) \in Nat
<1>1. PICK T : T = After(L, a, start)
  OBVIOUS
<1>2. T \in FiniteSubsets(Sale)
  <2>1. T \subseteq L  BY <1>1 DEF After
  <2> QED BY <2>1, FS_Subset DEF FiniteSubsets
<1>3. Sold \in [Sale -> Nat]
  <2>1. \A r \in Sale : r.amount \in Nat  BY SalesAssumption DEF Sale, SalesAssumption
  <2> QED BY <2>1 DEF Sold
<1> DEFINE Adds(g) == g = [s \in SUBSET T |->
                             IF s = {} THEN 0 ELSE AmountOf(AnyOf(s)) + g[s \ {AnyOf(s)}]]
           f == CHOOSE g : Adds(g)
<1>4. SumAfter(L, a, start) = f[T]
  BY <1>1 DEF SumAfter, MapThenSumSet, MapThenFoldSet, AnyOf
<1>5. ASSUME NEW g PROVE Sums(Sold, T, g) <=> Adds(g)
  <2>1. \A s \in SUBSET T : s # {} => AnyOf(s) \in Sale
    BY <1>2 DEF AnyOf, FiniteSubsets
  <2>2. \A s \in SUBSET T :
          SumStep(Sold, g, s) = IF s = {} THEN 0 ELSE AmountOf(AnyOf(s)) + g[s \ {AnyOf(s)}]
    BY <2>1 DEF SumStep, Sold, AmountOf
  <2>3. [s \in SUBSET T |-> SumStep(Sold, g, s)]
        = [s \in SUBSET T |-> IF s = {} THEN 0 ELSE AmountOf(AnyOf(s)) + g[s \ {AnyOf(s)}]]
    BY <2>2
  <2> QED BY <2>3 DEF Sums
<1>6. (\E g : Sums(Sold, T, g)) /\ \A g : Sums(Sold, T, g) => g[T] = TotalOf(Sold, T)
  BY <1>2, <1>3, SumsAreTotal
<1>7. Adds(f)
  <2> HIDE DEF Adds
  <2> QED BY <1>5, <1>6
<1>8. TotalOf(Sold, T) \in Nat
  BY <1>2, <1>3, TotalSplit
<1> HIDE DEF Adds, f
<1> QED BY <1>1, <1>2, <1>4, <1>5, <1>6, <1>7, <1>8

\* Fewer sales sum up to no more.
LEMMA SumAfterFalls ==
  ASSUME NEW L \in FiniteSubsets(Sale), NEW M \in FiniteSubsets(Sale),
         NEW a, NEW start, NEW later,
         After(M, a, later) \subseteq After(L, a, start)
  PROVE  SumAfter(M, a, later) <= SumAfter(L, a, start)
<1>1. Sold \in [Sale -> Nat]
  <2>1. \A r \in Sale : r.amount \in Nat  BY SalesAssumption DEF Sale, SalesAssumption
  <2> QED BY <2>1 DEF Sold
<1>2. PICK T, U : T = After(L, a, start) /\ U = After(M, a, later)
  OBVIOUS
<1>3. T \in FiniteSubsets(Sale) /\ U \in SUBSET T
  BY <1>2, SumAfterIs
<1>4. TotalOf(Sold, U) <= TotalOf(Sold, T)
  BY <1>1, <1>3, TotalBounds
<1> QED BY <1>2, <1>4, SumAfterIs

\* One sale more adds at most its amount.
LEMMA SumAfterAdds ==
  ASSUME NEW L \in FiniteSubsets(Sale), NEW M \in FiniteSubsets(Sale),
         NEW a, NEW start, NEW later, NEW r \in Sale,
         After(M, a, later) \subseteq After(L, a, start) \cup {r}
  PROVE  SumAfter(M, a, later) <= SumAfter(L, a, start) + r.amount
<1>1. Sold \in [Sale -> Nat]
  <2>1. \A q \in Sale : q.amount \in Nat  BY SalesAssumption DEF Sale, SalesAssumption
  <2> QED BY <2>1 DEF Sold
<1>2. PICK T, U, R : T = After(L, a, start) /\ U = After(M, a, later) /\ R = {r}
  OBVIOUS
<1>3. T \in FiniteSubsets(Sale) /\ U \in FiniteSubsets(Sale) /\ R \in FiniteSubsets(Sale)
  BY <1>2, SumAfterIs, FS_Singleton DEF FiniteSubsets
<1>4. TotalOf(Sold, R) = r.amount
  <2>1. r \in R /\ R \ {r} = {}  BY <1>2
  <2>2. TotalOf(Sold, R) = Sold[r] + TotalOf(Sold, R \ {r}) /\ TotalOf(Sold, {}) = 0
    BY <1>1, <1>3, <2>1, TotalSplit
  <2>3. Sold[r] = r.amount  BY DEF Sold
  <2>4. Sold[r] \in Nat  BY <1>1
  <2>5. TotalOf(Sold, R \ {r}) = TotalOf(Sold, {})  BY <2>1
  <2>6. TotalOf(Sold, R \ {r}) = 0  BY <2>2, <2>5
  <2>7. TotalOf(Sold, R) = Sold[r] + 0  BY <2>2, <2>6
  <2> QED BY <2>3, <2>4, <2>7
<1>5. /\ T \cup R \in FiniteSubsets(Sale)
      /\ TotalOf(Sold, T \cup R) <= TotalOf(Sold, T) + TotalOf(Sold, R)
  BY <1>1, <1>3, TotalBounds
<1>6. TotalOf(Sold, U) <= TotalOf(Sold, T \cup R)
  <2>1. U \in SUBSET (T \cup R)  BY <1>2
  <2> QED BY <1>1, <1>5, <2>1, TotalBounds
<1>7. TotalOf(Sold, U) \in Nat /\ TotalOf(Sold, T) \in Nat /\ TotalOf(Sold, T \cup R) \in Nat
      /\ r.amount \in Nat
  <2>1. r.amount \in Nat  BY SalesAssumption DEF Sale, SalesAssumption
  <2> QED BY <1>1, <1>3, <1>5, <2>1, TotalSplit
<1>8. SumAfter(L, a, start) = TotalOf(Sold, T) /\ SumAfter(M, a, later) = TotalOf(Sold, U)
  BY <1>2, SumAfterIs
<1> QED BY <1>4, <1>5, <1>6, <1>7, <1>8

-----------------------------------------------------------------------------
LEMMA NewAccountIs ==
  ASSUME NEW f \in Account
  PROVE  NewAccount(f) \in Raw
<1>1. f \in Raw /\ f.n_balance - f.n_locked \in Int /\ 0 \in Int
  BY SalesAssumption DEF SalesAssumption, Raw
<1>2. Max({0, f.n_balance - f.n_locked}) \in Nat
  BY <1>1, LargerIs
<1>3. PICK n : n = Max({0, f.n_balance - f.n_locked})
  OBVIOUS
<1>4. [f EXCEPT !.n_available = n] \in Raw
  BY <1>1, <1>2, <1>3 DEF Raw
<1> QED BY <1>1, <1>3, <1>4 DEF NewAccount

(* The usage log is a finite part of the confirmed sales. *)
SalesTypes == SalesTypeOK /\ IsFiniteSet(usage) /\ usage \subseteq log

(* Every state of the sale check has the declared types, its usage log is   *)
(* finite and no more than what was confirmed.                              *)
THEOREM SalesWellTyped ==
  SalesSpec => []SalesTypes
<1>1. SalesInit => SalesTypes
  <2> SUFFICES ASSUME SalesInit PROVE SalesTypes
    OBVIOUS
  <2>1. states \in [Address -> Raw]
    <3>1. \A a \in Address : First[a] \in Account  BY SalesAssumption DEF SalesAssumption
    <3>2. \A a \in Address : NewAccount(First[a]) \in Raw  BY <3>1, NewAccountIs
    <3> QED BY <3>2 DEF SalesInit
  <2>2. phi \in Rates /\ height = 0 /\ usage = {} /\ open = {} /\ log = {}
        /\ submitted = 0 /\ excused = {} /\ updates = 0
    BY DEF SalesInit
  <2>3. MaxHeight \in Nat /\ MaxSales \in Nat /\ MaxUpdates \in Nat
    BY SalesAssumption DEF SalesAssumption
  <2> QED BY <2>1, <2>2, <2>3, FS_EmptySet DEF SalesTypes, SalesTypeOK
<1>2. SalesTypes /\ [SalesNext]_salesVars => SalesTypes'
  <2> SUFFICES ASSUME SalesTypes, [SalesNext]_salesVars PROVE SalesTypes'
    OBVIOUS
  <2>0. /\ MaxHeight \in Nat /\ MaxSales \in Nat /\ MaxUpdates \in Nat
        /\ Amount \subseteq Nat \ {0}
    BY SalesAssumption DEF SalesAssumption
  <2>1. ASSUME NEW a \in Address, NEW d \in Amount, NEW n \in 0 .. Max(Amount), Submit(a, d, n)
        PROVE  SalesTypes'
    <3>1. PICK o : o = [id |-> submitted, address |-> a, amount |-> d]
      OBVIOUS
    <3>2. /\ open' = open \cup {o} /\ submitted < MaxSales /\ submitted' = submitted + 1
          /\ excused' \in {excused, excused \cup {a}}
          /\ UNCHANGED <<states, phi, height, usage, log, updates>>
      BY <2>1, <3>1 DEF Submit
    <3>3. submitted \in Nat /\ o \in Open
      BY <3>1 DEF SalesTypes, SalesTypeOK, Open
    <3> QED BY <2>0, <3>2, <3>3 DEF SalesTypes, SalesTypeOK
  <2>2. ASSUME NEW o \in open, NEW h \in 1 .. MaxHeight, Record(o, h)
        PROVE  SalesTypes'
    <3>1. PICK r : r = [id |-> o.id, address |-> o.address, amount |-> o.amount, height |-> h]
      OBVIOUS
    <3>2. /\ usage' = Pruned(usage \cup {r}, o.address, h) /\ log' = log \cup {r}
          /\ height' = Max({height, h}) /\ open' = open \ {o}
          /\ UNCHANGED <<states, phi, submitted, excused, updates>>
      BY <2>2, <3>1 DEF Record
    <3>3. r \in Sale
      <4>1. o \in Open /\ h \in 0 .. MaxHeight  BY <2>0 DEF SalesTypes, SalesTypeOK
      <4> QED BY <3>1, <4>1 DEF Open, Sale
    <3>4. usage' \subseteq usage \cup {r} /\ IsFiniteSet(usage \cup {r})
      BY <3>2, FS_AddElement DEF Pruned, SalesTypes
    <3>5. IsFiniteSet(usage')
      BY <3>4, FS_Subset
    <3>6. height' \in 0 .. MaxHeight
      <4>1. height \in 0 .. MaxHeight  BY DEF SalesTypes, SalesTypeOK
      <4>2. height' = IF height >= h THEN height ELSE h
        BY <2>0, <3>2, <4>1, LargerIs
      <4> QED BY <2>0, <4>1, <4>2
    <3> QED BY <3>2, <3>3, <3>4, <3>5, <3>6 DEF SalesTypes, SalesTypeOK
  <2>3. ASSUME NEW o \in open, Drop(o) PROVE SalesTypes'
    BY <2>3 DEF Drop, SalesTypes, SalesTypeOK
  <2>4. ASSUME NEW h \in 1 .. MaxHeight, SetCurrentHeight(h) PROVE SalesTypes'
    <3>1. h \in 0 .. MaxHeight  BY <2>0
    <3> QED BY <2>4, <3>1 DEF SetCurrentHeight, SalesTypes, SalesTypeOK
  <2>5. ASSUME NEW a \in Address, NEW f \in Account, UpdateAccount(a, f) PROVE SalesTypes'
    <3>1. PICK s \in Raw : s = NewAccount(f)
      BY NewAccountIs
    <3>2. /\ states' = [states EXCEPT ![a] = s] /\ updates < MaxUpdates
          /\ excused' \in {excused, excused \cup {a}}
          /\ updates' = updates + 1
          /\ UNCHANGED <<phi, height, usage, open, log, submitted>>
      BY <2>5, <3>1 DEF UpdateAccount
    <3> QED BY <2>0, <3>1, <3>2 DEF SalesTypes, SalesTypeOK
  <2>6. ASSUME NEW r \in Rates, UpdatePhi(r) PROVE SalesTypes'
    <3>1. /\ phi' = r /\ updates < MaxUpdates /\ updates' = updates + 1
          /\ excused' \subseteq excused \cup Address
          /\ UNCHANGED <<states, height, usage, open, log, submitted>>
      BY <2>6 DEF UpdatePhi
    <3> QED BY <2>0, <3>1 DEF SalesTypes, SalesTypeOK
  <2>7. CASE UNCHANGED salesVars
    BY <2>7 DEF salesVars, SalesTypes, SalesTypeOK
  <2> QED BY <2>1, <2>2, <2>3, <2>4, <2>5, <2>6, <2>7 DEF SalesNext
<1> QED BY <1>1, <1>2, PTL DEF SalesSpec

-----------------------------------------------------------------------------
(* What the log forgot lies before the window. *)
Forgotten == \A r \in log \ usage : r.height <= WindowStart(height)

\* What recording the sale o in block h does, r being its record: a block that
\* is recorded late prunes at its own height, and the engine's is no lower.
Recorded(o, h, r) ==
  /\ r.address = o.address /\ r.amount = o.amount /\ r.height = h
  /\ usage' = Pruned(usage \cup {r}, o.address, h)
  /\ log' = log \cup {r} /\ open' = open \ {o}
  /\ height \in Nat /\ height' \in Nat /\ h \in Nat /\ height <= height' /\ h <= height'
  /\ WindowStart(h) < h
  /\ \A k \in {h, height, height'} : WindowStart(k) \in Nat
  /\ WindowStart(height) <= WindowStart(height')
  /\ WindowStart(h) <= WindowStart(height')

LEMMA RecordIs ==
  ASSUME SalesTypes, NEW o \in open, NEW h \in 1 .. MaxHeight, Record(o, h)
  PROVE  \E r \in Sale : Recorded(o, h, r)
<1>1. PICK r : r = [id |-> o.id, address |-> o.address, amount |-> o.amount, height |-> h]
  OBVIOUS
<1>2. /\ usage' = Pruned(usage \cup {r}, o.address, h)
      /\ log' = log \cup {r} /\ open' = open \ {o} /\ height' = Max({height, h})
  BY <1>1 DEF Record
<1>3. height \in Nat /\ h \in Nat /\ h # 0 /\ h \in 0 .. MaxHeight
  BY SalesAssumption DEF SalesTypes, SalesTypeOK, SalesAssumption
<1>4. height' \in Nat /\ height <= height' /\ h <= height'
  BY <1>2, <1>3, LargerIs
<1>5. r \in Sale
  <2>1. o \in Open  BY DEF SalesTypes, SalesTypeOK
  <2> QED BY <1>1, <1>3, <2>1 DEF Open, Sale
<1>6. /\ WindowStart(h) < h
      /\ WindowStart(h) \in Nat /\ WindowStart(height) \in Nat /\ WindowStart(height') \in Nat
      /\ WindowStart(height) <= WindowStart(height')
      /\ WindowStart(h) <= WindowStart(height')
  BY <1>3, <1>4, WindowStartIs
<1> QED BY <1>1, <1>2, <1>3, <1>4, <1>5, <1>6 DEF Recorded

(* Pruning never changes what a check counts: the sales of the window are   *)
(* all in the usage log.                                                    *)
THEOREM PruningKeepsWindow ==
  SalesSpec => []UsageIsWindow
<1>1. SalesInit => Forgotten
  BY DEF SalesInit, Forgotten
<1>2. SalesTypes /\ SalesTypes' /\ Forgotten /\ [SalesNext]_salesVars => Forgotten'
  <2> SUFFICES ASSUME SalesTypes, SalesTypes', Forgotten, [SalesNext]_salesVars,
                      NEW q \in log' \ usage'
               PROVE  q.height <= WindowStart(height')
    BY DEF Forgotten
  <2>0. q.height \in Nat
    <3>1. q \in Sale /\ MaxHeight \in Nat
      BY SalesAssumption DEF SalesTypes, SalesTypeOK, SalesAssumption
    <3> QED BY <3>1 DEF Sale
  <2>1. ASSUME NEW o \in open, NEW h \in 1 .. MaxHeight, Record(o, h)
        PROVE  q.height <= WindowStart(height')
    <3>1. PICK r \in Sale : Recorded(o, h, r)
      BY <2>1, RecordIs
    <3>2. CASE q \in usage \cup {r}
      <4>1. ~ (q.height > WindowStart(h))
        BY <3>1, <3>2 DEF Recorded, Pruned
      <4> QED BY <2>0, <3>1, <4>1 DEF Recorded
    <3>3. CASE q \notin usage \cup {r}
      <4>1. q \in log \ usage  BY <3>1, <3>3 DEF Recorded
      <4>2. q.height <= WindowStart(height)  BY <4>1 DEF Forgotten
      <4> QED BY <2>0, <3>1, <4>2 DEF Recorded
    <3> QED BY <3>2, <3>3
  <2>2. ASSUME NEW h \in 1 .. MaxHeight, SetCurrentHeight(h)
        PROVE  q.height <= WindowStart(height')
    <3>1. q \in log \ usage /\ height' = h /\ height < h
      BY <2>2 DEF SetCurrentHeight
    <3>2. q.height <= WindowStart(height)
      BY <3>1 DEF Forgotten
    <3>3. height \in Nat /\ h \in Nat /\ height <= h
      BY SalesAssumption, <3>1 DEF SalesTypes, SalesTypeOK, SalesAssumption
    <3>4. /\ WindowStart(height) <= WindowStart(h)
          /\ WindowStart(height) \in Nat /\ WindowStart(h) \in Nat
      BY <3>3, WindowStartIs
    <3> QED BY <2>0, <3>1, <3>2, <3>4
  <2>3. CASE UNCHANGED <<height, usage, log>>
    BY <2>3 DEF Forgotten
  <2>4. ASSUME NEW a \in Address, NEW d \in Amount, NEW n \in 0 .. Max(Amount), Submit(a, d, n)
        PROVE  UNCHANGED <<height, usage, log>>
    BY <2>4 DEF Submit
  <2>5. ASSUME NEW o \in open, Drop(o) PROVE UNCHANGED <<height, usage, log>>
    BY <2>5 DEF Drop
  <2>6. ASSUME NEW a \in Address, NEW f \in Account, UpdateAccount(a, f)
        PROVE  UNCHANGED <<height, usage, log>>
    BY <2>6 DEF UpdateAccount
  <2>7. ASSUME NEW r \in Rates, UpdatePhi(r) PROVE UNCHANGED <<height, usage, log>>
    BY <2>7 DEF UpdatePhi
  <2>8. CASE UNCHANGED salesVars
    BY <2>3, <2>8 DEF salesVars
  <2> QED BY <2>1, <2>2, <2>3, <2>4, <2>5, <2>6, <2>7, <2>8 DEF SalesNext
<1>3. SalesTypes /\ Forgotten => UsageIsWindow
  <2> SUFFICES ASSUME SalesTypes, Forgotten, NEW a \in Address
               PROVE  PeriodUsage(a) = SumAfter(log, a, WindowStart(height))
    BY DEF UsageIsWindow
  <2>1. \A r \in log : r.height \in Nat
    BY SalesAssumption DEF SalesTypes, SalesTypeOK, Sale, SalesAssumption
  <2>2. WindowStart(height) \in Nat
    <3>1. height \in Nat  BY SalesAssumption DEF SalesTypes, SalesTypeOK, SalesAssumption
    <3> QED BY <3>1, WindowStartIs
  <2>3. After(usage, a, WindowStart(height)) = After(log, a, WindowStart(height))
    BY <2>1, <2>2 DEF After, Forgotten, SalesTypes
  <2> QED BY <2>3 DEF PeriodUsage, SumAfter
<1>4. SalesSpec => []SalesTypes
  BY SalesWellTyped
<1> QED BY <1>1, <1>2, <1>3, <1>4, PTL DEF SalesSpec

-----------------------------------------------------------------------------
(* A seller without an excuse has at most one sale open, and the capacity   *)
(* covers that sale on top of the usage.                                    *)
Covered(a) ==
  /\ phi.num # 0
  /\ \A o, q \in open : o.address = a /\ q.address = a => o = q
  /\ PeriodUsage(a) <= Capacity(states[a], phi, height)
  /\ \A o \in open : o.address = a =>
       PeriodUsage(a) + o.amount <= Capacity(states[a], phi, height)

CoverInv == \A a \in Address \ excused : Covered(a)

\* The usage is a number, and so is the capacity where there is one.
LEMMA UsageIs ==
  ASSUME SalesTypes, NEW a \in Address
  PROVE  /\ usage \in FiniteSubsets(Sale) /\ height \in Nat
         /\ PeriodUsage(a) \in Nat
         /\ phi.num # 0 => Capacity(states[a], phi, height) \in Nat
<1>1. usage \in FiniteSubsets(Sale) /\ height \in Nat /\ states[a] \in Raw /\ phi \in Rates
  BY SalesAssumption DEF SalesTypes, SalesTypeOK, FiniteSubsets, SalesAssumption
<1>2. PeriodUsage(a) \in Nat
  BY <1>1, SumAfterIs DEF PeriodUsage
<1>3. phi.num # 0 => Capacity(states[a], phi, height) \in Nat
  BY <1>1, CapacityGrows
<1> QED BY <1>1, <1>2, <1>3

\* A larger height leaves the window no more sales, and the capacity no less.
LEMMA CoverMovesOn ==
  ASSUME SalesTypes, SalesTypes', NEW a \in Address, Covered(a),
         UNCHANGED <<states, phi>>, height <= height', open' \subseteq open,
         After(usage', a, WindowStart(height')) \subseteq After(usage, a, WindowStart(height))
  PROVE  Covered(a)'
<1>1. /\ usage \in FiniteSubsets(Sale) /\ height \in Nat /\ PeriodUsage(a) \in Nat
      /\ Capacity(states[a], phi, height) \in Nat
  BY UsageIs DEF Covered
<1>2. usage' \in FiniteSubsets(Sale) /\ height' \in Nat /\ states[a] \in Raw /\ phi \in Rates
  BY SalesAssumption DEF SalesTypes, SalesTypeOK, FiniteSubsets, SalesAssumption
<1>3. /\ Capacity(states[a], phi, height) <= Capacity(states[a], phi, height')
      /\ Capacity(states[a], phi, height') \in Nat
  BY <1>1, <1>2, CapacityGrows DEF Covered
<1>4. PeriodUsage(a)' <= PeriodUsage(a) /\ PeriodUsage(a)' \in Nat
  BY <1>1, <1>2, SumAfterFalls, SumAfterIs DEF PeriodUsage
<1>5. Capacity(states[a], phi, height)' = Capacity(states[a], phi, height')
  BY DEF Capacity, AuthBonus
<1>6. \A o \in open : o.amount \in Nat
  BY SalesAssumption DEF SalesTypes, SalesTypeOK, Open, SalesAssumption
<1>7. PICK u, v, c, d : /\ u = PeriodUsage(a) /\ v = PeriodUsage(a)'
                        /\ c = Capacity(states[a], phi, height)
                        /\ d = Capacity(states[a], phi, height)'
  OBVIOUS
<1>8. u \in Nat /\ v \in Nat /\ c \in Nat /\ d \in Nat /\ v <= u /\ c <= d
  BY <1>1, <1>3, <1>4, <1>5, <1>7
<1>9. u <= c /\ \A o \in open : o.address = a => u + o.amount <= c
  BY <1>7 DEF Covered
<1>10. v <= d /\ \A o \in open' : o.address = a => v + o.amount <= d
  BY <1>6, <1>8, <1>9
<1> QED BY <1>7, <1>10 DEF Covered

\* The capacity of the account and the usage stay; only the cover may grow.
LEMMA CoverRises ==
  ASSUME SalesTypes, SalesTypes', NEW a \in Address, Covered(a),
         UNCHANGED <<height, usage, open>>,
         ~ (Falls(a, states'[a], phi'))
  PROVE  Covered(a)'
<1>1. PICK u, c, d : /\ u = PeriodUsage(a)
                     /\ c = Capacity(states[a], phi, height)
                     /\ d = Capacity(states'[a], phi', height)
  OBVIOUS
<1>2. phi'.num # 0 /\ ~ (d < c)
  BY <1>1 DEF Falls
<1>3. u \in Nat /\ c \in Nat
  BY <1>1, UsageIs DEF Covered
<1>4. d \in Nat
  <2>1. height \in Nat /\ states'[a] \in Raw /\ phi' \in Rates
    BY SalesAssumption DEF SalesTypes, SalesTypeOK, SalesAssumption
  <2> QED BY <1>1, <1>2, <2>1, CapacityGrows
<1>5. PeriodUsage(a)' = u /\ Capacity(states[a], phi, height)' = d
  BY <1>1 DEF PeriodUsage, SumAfter, After, Capacity, AuthBonus, MaxSaleCapacity
<1>6. u <= c /\ \A o \in open : o.address = a => u + o.amount <= c
  BY <1>1 DEF Covered
<1>7. \A o \in open : o.amount \in Nat
  BY SalesAssumption DEF SalesTypes, SalesTypeOK, Open, SalesAssumption
<1>8. u <= d /\ \A o \in open : o.address = a => u + o.amount <= d
  BY <1>2, <1>3, <1>4, <1>6, <1>7
<1> QED BY <1>2, <1>5, <1>8 DEF Covered

LEMMA SubmitCovers ==
  ASSUME NEW a \in Address, Covered(a), a \notin excused',
         NEW b \in Address, NEW d \in Amount, NEW n \in 0 .. Max(Amount), Submit(b, d, n)
  PROVE  Covered(a)'
<1>1. PICK new : new = [id |-> submitted, address |-> b, amount |-> d]
  OBVIOUS
<1>2. /\ open' = open \cup {new} /\ UNCHANGED <<states, phi, height, usage>>
      /\ Feasible(b, d)
      /\ excused' = IF \E o \in open : o.address = b THEN excused \cup {b} ELSE excused
  BY <1>1 DEF Submit
<1>3. PeriodUsage(a)' = PeriodUsage(a)
  BY <1>2 DEF PeriodUsage, SumAfter, After
<1>4. Capacity(states[a], phi, height)' = Capacity(states[a], phi, height)
  BY <1>2 DEF Capacity, AuthBonus, MaxSaleCapacity
<1>5. b = a => \A o \in open : o.address # a
  BY <1>2
<1>6. b = a => PeriodUsage(a) + new.amount <= Capacity(states[a], phi, height)
  BY <1>1, <1>2 DEF Feasible
<1>7. new.address = b
  BY <1>1
<1>8. \A o, q \in open' : o.address = a /\ q.address = a => o = q
  BY <1>2, <1>5, <1>7 DEF Covered
<1>9. \A o \in open' : o.address = a =>
        PeriodUsage(a) + o.amount <= Capacity(states[a], phi, height)
  BY <1>2, <1>6, <1>7 DEF Covered
<1> QED BY <1>2, <1>3, <1>4, <1>8, <1>9 DEF Covered

LEMMA RecordCovers ==
  ASSUME SalesTypes, SalesTypes', NEW a \in Address, Covered(a),
         NEW o \in open, NEW h \in 1 .. MaxHeight, Record(o, h)
  PROVE  Covered(a)'
<1>0. PICK r \in Sale : Recorded(o, h, r)
  BY RecordIs
<1>1. /\ r.address = o.address /\ r.amount = o.amount
      /\ usage' = Pruned(usage \cup {r}, o.address, h) /\ open' = open \ {o}
      /\ height \in Nat /\ height' \in Nat /\ height <= height'
      /\ WindowStart(height) \in Nat /\ WindowStart(height') \in Nat
      /\ WindowStart(height) <= WindowStart(height')
  BY <1>0 DEF Recorded
<1>2. UNCHANGED <<states, phi>>
  BY DEF Record
<1>3. usage' \subseteq usage \cup {r}
  BY <1>1 DEF Pruned
<1>4. \A q \in usage \cup {r} : q.height \in Nat
  BY SalesAssumption DEF SalesTypes, SalesTypeOK, Sale, SalesAssumption
<1>5. After(usage', a, WindowStart(height')) \subseteq After(usage, a, WindowStart(height)) \cup {r}
  <2>1. PICK v, w : v = WindowStart(height) /\ w = WindowStart(height')
    OBVIOUS
  <2>2. v \in Nat /\ w \in Nat /\ v <= w
    BY <1>1, <2>1
  <2>3. ASSUME NEW q \in After(usage', a, w) PROVE q \in After(usage, a, v) \cup {r}
    <3>1. q \in usage \cup {r} /\ q.address = a /\ q.height > w
      BY <1>3 DEF After
    <3>2. q.height > v
      BY <1>4, <2>2, <3>1
    <3> QED BY <3>1, <3>2 DEF After
  <2> QED BY <2>1, <2>3
<1>6. CASE o.address # a
  <2>1. After(usage', a, WindowStart(height')) \subseteq After(usage, a, WindowStart(height))
    BY <1>1, <1>5, <1>6 DEF After
  <2> QED BY <1>1, <1>2, <2>1, CoverMovesOn
<1>7. CASE o.address = a
  <2>1. /\ usage \in FiniteSubsets(Sale) /\ PeriodUsage(a) \in Nat
        /\ Capacity(states[a], phi, height) \in Nat
    BY UsageIs DEF Covered
  <2>2. usage' \in FiniteSubsets(Sale) /\ states[a] \in Raw /\ phi \in Rates
    BY DEF SalesTypes, SalesTypeOK, FiniteSubsets
  <2>3. /\ Capacity(states[a], phi, height) <= Capacity(states[a], phi, height')
        /\ Capacity(states[a], phi, height') \in Nat
    BY <1>1, <2>2, CapacityGrows DEF Covered
  <2>4. PeriodUsage(a)' <= PeriodUsage(a) + r.amount /\ PeriodUsage(a)' \in Nat
    BY <1>1, <1>5, <2>1, <2>2, SumAfterAdds, SumAfterIs DEF PeriodUsage
  <2>5. PeriodUsage(a) + o.amount <= Capacity(states[a], phi, height) /\ o.amount \in Nat
    <3>1. o.amount \in Nat
      BY SalesAssumption DEF SalesTypes, SalesTypeOK, Open, SalesAssumption
    <3> QED BY <1>7, <3>1 DEF Covered
  <2>6. Capacity(states[a], phi, height)' = Capacity(states[a], phi, height')
    BY <1>2 DEF Capacity, AuthBonus
  <2>7. PeriodUsage(a)' <= Capacity(states[a], phi, height)'
    <3>1. PICK u, v, c, d : /\ u = PeriodUsage(a) /\ v = PeriodUsage(a)'
                            /\ c = Capacity(states[a], phi, height)
                            /\ d = Capacity(states[a], phi, height)'
      OBVIOUS
    <3>2. /\ u \in Nat /\ v \in Nat /\ c \in Nat /\ d \in Nat /\ c <= d
          /\ v <= u + o.amount /\ u + o.amount <= c
      BY <1>1, <2>1, <2>3, <2>4, <2>5, <2>6, <3>1
    <3>3. v <= d
      BY <2>5, <3>2
    <3> QED BY <3>1, <3>3
  <2>8. \A q \in open' : q.address # a
    BY <1>1, <1>7 DEF Covered
  <2>9. phi'.num # 0
    BY <1>2 DEF Covered
  <2> QED BY <2>7, <2>8, <2>9 DEF Covered
<1> QED BY <1>6, <1>7

(* A seller exceeds the capacity only after two sales of his were checked   *)
(* before either was recorded, or after the capacity itself fell.           *)
THEOREM OverdraftHasCause ==
  SalesSpec => []OverdrawnHasCause
<1>1. SalesInit => CoverInv
  <2> SUFFICES ASSUME SalesInit, NEW a \in Address PROVE Covered(a)
    BY DEF CoverInv
  <2>1. phi \in Rates /\ phi.num # 0 /\ usage = {} /\ open = {} /\ height = 0
    BY DEF SalesInit
  <2>2. states[a] \in Raw
    <3>1. First[a] \in Account  BY SalesAssumption DEF SalesAssumption
    <3> QED BY <3>1, NewAccountIs DEF SalesInit
  <2>3. Capacity(states[a], phi, height) \in Nat
    BY <2>1, <2>2, CapacityGrows
  <2>4. PeriodUsage(a) = 0
    <3>1. {} \in FiniteSubsets(Sale)  BY FS_EmptySet DEF FiniteSubsets
    <3>2. After({}, a, WindowStart(height)) = {}  BY DEF After
    <3>3. SumAfter({}, a, WindowStart(height)) = TotalOf(Sold, {})
      BY <3>1, <3>2, SumAfterIs
    <3>4. Sold \in [Sale -> Nat]
      <4>1. \A r \in Sale : r.amount \in Nat  BY SalesAssumption DEF Sale, SalesAssumption
      <4> QED BY <4>1 DEF Sold
    <3>5. TotalOf(Sold, {}) = 0
      BY <3>1, <3>4, TotalSplit
    <3> QED BY <2>1, <3>3, <3>5 DEF PeriodUsage
  <2> QED BY <2>1, <2>3, <2>4 DEF Covered
<1>2. SalesTypes /\ SalesTypes' /\ CoverInv /\ [SalesNext]_salesVars => CoverInv'
  <2> SUFFICES ASSUME SalesTypes, SalesTypes', CoverInv, [SalesNext]_salesVars,
                      NEW a \in Address, a \notin excused'
               PROVE  Covered(a)'
    BY DEF CoverInv
  <2>1. ASSUME a \notin excused PROVE Covered(a)
    BY <2>1 DEF CoverInv
  <2>2. ASSUME NEW b \in Address, NEW d \in Amount, NEW n \in 0 .. Max(Amount), Submit(b, d, n)
        PROVE  Covered(a)'
    <3>1. a \notin excused  BY <2>2 DEF Submit
    <3> QED BY <2>1, <2>2, <3>1, SubmitCovers
  <2>3. ASSUME NEW o \in open, NEW h \in 1 .. MaxHeight, Record(o, h)
        PROVE  Covered(a)'
    <3>1. a \notin excused  BY <2>3 DEF Record
    <3> QED BY <2>1, <2>3, <3>1, RecordCovers
  <2>4. ASSUME NEW o \in open, Drop(o) PROVE Covered(a)'
    <3>1. /\ a \notin excused /\ UNCHANGED <<states, phi, height, usage>>
          /\ open' \subseteq open
      BY <2>4 DEF Drop
    <3>2. height <= height'
      BY SalesAssumption, <3>1 DEF SalesTypes, SalesTypeOK, SalesAssumption
    <3>3. After(usage', a, WindowStart(height')) = After(usage, a, WindowStart(height))
      BY <3>1
    <3> QED BY <2>1, <3>1, <3>2, <3>3, CoverMovesOn
  <2>5. ASSUME NEW h \in 1 .. MaxHeight, SetCurrentHeight(h) PROVE Covered(a)'
    <3>1. /\ a \notin excused /\ UNCHANGED <<states, phi, usage, open>>
          /\ height < h /\ height' = h
      BY <2>5 DEF SetCurrentHeight
    <3>2. height \in Nat /\ height' \in Nat /\ height <= height'
      BY SalesAssumption, <3>1 DEF SalesTypes, SalesTypeOK, SalesAssumption
    <3>3. /\ WindowStart(height) \in Nat /\ WindowStart(height') \in Nat
          /\ WindowStart(height) <= WindowStart(height')
      BY <3>2, WindowStartIs
    <3>4. \A q \in usage : q.height \in Nat
      BY SalesAssumption DEF SalesTypes, SalesTypeOK, Sale, SalesAssumption
    <3>5. After(usage', a, WindowStart(height')) \subseteq After(usage, a, WindowStart(height))
      BY <3>1, <3>3, <3>4 DEF After
    <3> QED BY <2>1, <3>1, <3>2, <3>5, CoverMovesOn
  <2>6. ASSUME NEW b \in Address, NEW f \in Account, UpdateAccount(b, f) PROVE Covered(a)'
    <3>1. PICK s : s = NewAccount(f)
      OBVIOUS
    <3>2. /\ states' = [states EXCEPT ![b] = s] /\ states \in [Address -> Raw]
          /\ excused' = IF Falls(b, s, phi) THEN excused \cup {b} ELSE excused
          /\ UNCHANGED <<phi, height, usage, open, log, submitted>>
      BY <2>6, <3>1 DEF UpdateAccount, SalesTypes, SalesTypeOK
    <3>3. Covered(a)
      BY <2>1, <3>2
    <3>4. CASE b = a
      <4>1. states'[a] = s /\ ~ Falls(a, states'[a], phi')
        BY <3>2, <3>4
      <4> QED BY <3>2, <3>3, <4>1, CoverRises
    <3>5. CASE b # a
      <4>1. states'[a] = states[a]
        BY <3>2, <3>5
      <4>2. PeriodUsage(a)' = PeriodUsage(a)
        BY <3>2 DEF PeriodUsage, SumAfter, After
      <4>3. Capacity(states[a], phi, height)' = Capacity(states[a], phi, height)
        <5>1. Capacity(states[a], phi, height)' = Capacity(states'[a], phi', height')
          BY DEF Capacity, AuthBonus, MaxSaleCapacity
        <5> QED BY <3>2, <4>1, <5>1
      <4> QED BY <3>2, <3>3, <4>2, <4>3 DEF Covered
    <3> QED BY <3>4, <3>5
  <2>7. ASSUME NEW r \in Rates, UpdatePhi(r) PROVE Covered(a)'
    <3>1. /\ phi' = r /\ states' = states
          /\ excused' = excused \cup {b \in Address : Falls(b, states[b], r)}
          /\ UNCHANGED <<height, usage, open>>
      BY <2>7 DEF UpdatePhi
    <3>2. a \notin excused /\ ~ Falls(a, states'[a], phi')
      BY <3>1
    <3> QED BY <2>1, <3>1, <3>2, CoverRises
  <2>8. CASE UNCHANGED salesVars
    <3>1. a \notin excused  BY <2>8 DEF salesVars
    <3>2. PeriodUsage(a)' = PeriodUsage(a)
      BY <2>8 DEF salesVars, PeriodUsage, SumAfter, After
    <3>3. Capacity(states[a], phi, height)' = Capacity(states[a], phi, height)
      BY <2>8 DEF salesVars, Capacity, AuthBonus, MaxSaleCapacity
    <3>4. phi' = phi /\ open' = open  BY <2>8 DEF salesVars
    <3> QED BY <2>1, <3>1, <3>2, <3>3, <3>4 DEF Covered
  <2> QED BY <2>2, <2>3, <2>4, <2>5, <2>6, <2>7, <2>8 DEF SalesNext
<1>3. CoverInv => OverdrawnHasCause
  BY DEF CoverInv, Covered, OverdrawnHasCause
<1>4. SalesSpec => []SalesTypes
  BY SalesWellTyped
<1> QED BY <1>1, <1>2, <1>3, <1>4, PTL DEF SalesSpec

-----------------------------------------------------------------------------
(***************************************************************************)
(* The wallet.                                                             *)
(***************************************************************************)
(* The queue is a sequence of records, one for a transaction. *)
RowOver(T) == [tx : T, status : Status, seq : 0 .. MaxSeq]

Records(q) == RowOver({q[i].tx : i \in DOMAIN q})

Queues(q) ==
  /\ q \in Seq(Records(q))
  /\ \A i, j \in DOMAIN q : i # j => q[i].tx # q[j].tx

QueueOK == Queues(rows) /\ counter \in 0 .. MaxSeq

(* What the queue reports as accepted is in the node's pool or on its       *)
(* chain; those on the chain took their inputs, and none in the pool needs  *)
(* one of them.                                                             *)
AcceptedHeld ==
  \A i \in DOMAIN rows : rows[i].status \in Accepted => rows[i].tx \in nodePool \cup mined

PoolApart == \A t \in nodePool, u \in mined : t.ins \cap u.ins = {}

MinedTook == \A t \in mined : t.ins \subseteq taken

AcceptedInv == ~lost => AcceptedHeld /\ PoolApart /\ MinedTook

\* A sequence whose entries are records of different transactions is a queue.
LEMMA QueueIs ==
  ASSUME NEW n \in Nat, NEW q, DOMAIN q = 1 .. n, NEW T,
         q \in [1 .. n -> RowOver(T)],
         \A i, j \in 1 .. n : i # j => q[i].tx # q[j].tx
  PROVE  Queues(q)
<1>1. q \in [1 .. n -> Records(q)]
  <2>1. \A i \in 1 .. n : q[i] \in RowOver(T)
    OBVIOUS
  <2>2. \A i \in 1 .. n : q[i] \in Records(q)
    BY <2>1 DEF Records, RowOver
  <2> QED BY <2>2
<1>2. q \in Seq(Records(q))
  BY <1>1, SeqDef
<1> QED BY <1>2 DEF Queues

LEMMA RowsAre ==
  ASSUME Queues(rows)
  PROVE  \E n, T :
           /\ n \in Nat /\ n = Len(rows) /\ DOMAIN rows = 1 .. n /\ T = {rows[i].tx : i \in 1 .. n}
           /\ rows \in [1 .. n -> RowOver(T)]
           /\ \A i, j \in 1 .. n : i # j => rows[i].tx # rows[j].tx
<1>1. PICK T : T = {rows[i].tx : i \in DOMAIN rows}
  OBVIOUS
<1>2. rows \in Seq(RowOver(T)) /\ \A i, j \in DOMAIN rows : i # j => rows[i].tx # rows[j].tx
  BY <1>1 DEF Queues, Records
<1>3. Len(rows) \in Nat /\ DOMAIN rows = 1 .. Len(rows) /\ rows \in [1 .. Len(rows) -> RowOver(T)]
  BY <1>2
<1>4. T = {rows[i].tx : i \in 1 .. Len(rows)}
  BY <1>1, <1>3
<1> QED BY <1>2, <1>3, <1>4

\* A record that is stored is a new one, or takes the place of the one with its hash.
LEMMA StoredIs ==
  ASSUME Queues(rows), NEW t, NEW status \in Status, NEW seq \in 0 .. MaxSeq
  PROVE  LET s == Stored(t, status, seq) IN
         /\ Queues(s)
         /\ \A i \in DOMAIN s : s[i].status = status \/ (i \in DOMAIN rows /\ s[i] = rows[i])
<1>1. PICK s, r : s = Stored(t, status, seq) /\ r = [tx |-> t, status |-> status, seq |-> seq]
  OBVIOUS
<1>2. PICK n, T :
           /\ n \in Nat /\ n = Len(rows) /\ DOMAIN rows = 1 .. n /\ T = {rows[i].tx : i \in 1 .. n}
           /\ rows \in [1 .. n -> RowOver(T)]
           /\ \A i, j \in 1 .. n : i # j => rows[i].tx # rows[j].tx
  BY RowsAre
<1>3. PICK R : R = RowOver(T \cup {t})
  OBVIOUS
<1>4. r \in R /\ r.tx = t /\ r.status = status /\ \A i \in 1 .. n : rows[i] \in R
  BY <1>1, <1>2, <1>3 DEF RowOver
<1>5. CASE Known(t)
  <2>1. PICK k \in 1 .. n : k = RowOf(t) /\ rows[k].tx = t
    BY <1>2, <1>5 DEF Known, RowOf
  <2>2. s = [rows EXCEPT ![k] = r]
    BY <1>1, <1>5, <2>1 DEF Stored
  <2>3. DOMAIN s = 1 .. n /\ s[k] = r /\ \A i \in 1 .. n : i # k => s[i] = rows[i]
    BY <1>2, <2>2
  <2>4. s \in [1 .. n -> R]
    BY <1>2, <1>4, <2>2, <2>3
  <2>5. \A i \in 1 .. n : s[i].tx = rows[i].tx
    BY <1>4, <2>1, <2>3
  <2>6. \A i, j \in 1 .. n : i # j => s[i].tx # s[j].tx
    BY <1>2, <2>5
  <2>7. Queues(s)
    BY <1>2, <1>3, <2>3, <2>4, <2>6, QueueIs
  <2>8. \A i \in DOMAIN s : s[i].status = status \/ (i \in DOMAIN rows /\ s[i] = rows[i])
    BY <1>2, <1>4, <2>3
  <2> QED BY <1>1, <2>7, <2>8
<1>6. CASE ~ Known(t)
  <2>1. s = Append(rows, r)
    BY <1>1, <1>6 DEF Stored
  <2>2. rows \in Seq(R)
    <3>1. rows \in [1 .. n -> R] /\ n \in Nat
      <4>1. rows = [i \in 1 .. n |-> rows[i]] /\ n \in Nat  BY <1>2
      <4> QED BY <1>4, <4>1
    <3> QED BY <3>1, SeqDef
  <2>3. /\ s \in Seq(R) /\ Len(s) = n + 1 /\ DOMAIN s = 1 .. n + 1
        /\ s[n + 1] = r /\ \A i \in 1 .. n : s[i] = rows[i]
    BY <1>2, <1>4, <2>1, <2>2
  <2>4. \A i : i \in 1 .. n + 1 <=> i \in 1 .. n \/ i = n + 1
    BY <1>2
  <2>5. s \in [1 .. n + 1 -> R] /\ n + 1 \in Nat
    BY <2>3
  <2>6. \A i, j \in 1 .. n + 1 : i # j => s[i].tx # s[j].tx
    <3>1. \A i \in 1 .. n : rows[i].tx # t
      BY <1>2, <1>6 DEF Known
    <3>2. \A i, j \in 1 .. n : i # j => rows[i].tx # rows[j].tx
      BY <1>2
    <3>3. s[n + 1].tx = t /\ \A i \in 1 .. n : s[i].tx = rows[i].tx
      BY <1>4, <2>3
    <3> QED BY <2>4, <3>1, <3>2, <3>3
  <2>7. Queues(s)
    BY <1>3, <2>3, <2>5, <2>6, QueueIs
  <2>8. \A i \in DOMAIN s : s[i].status = status \/ (i \in DOMAIN rows /\ s[i] = rows[i])
    BY <1>2, <1>4, <2>3, <2>4
  <2> QED BY <1>1, <2>7, <2>8
<1> QED BY <1>5, <1>6

\* A mark changes the status of one transaction.
LEMMA MarkedIs ==
  ASSUME Queues(rows), NEW t, NEW status \in Status
  PROVE  LET s == Marked(t, status) IN
         /\ Queues(s)
         /\ DOMAIN s = DOMAIN rows
         /\ \A i \in DOMAIN s : /\ s[i].tx = rows[i].tx
                                /\ s[i].status = IF s[i].tx = t THEN status ELSE rows[i].status
<1>1. PICK s : s = Marked(t, status)
  OBVIOUS
<1>2. PICK n, T :
           /\ n \in Nat /\ n = Len(rows) /\ DOMAIN rows = 1 .. n /\ T = {rows[i].tx : i \in 1 .. n}
           /\ rows \in [1 .. n -> RowOver(T)]
           /\ \A i, j \in 1 .. n : i # j => rows[i].tx # rows[j].tx
  BY RowsAre
<1>3. PICK R : R = RowOver(T)
  OBVIOUS
<1>4. s = [i \in 1 .. n |-> IF rows[i].tx = t THEN [rows[i] EXCEPT !.status = status] ELSE rows[i]]
  BY <1>1, <1>2 DEF Marked
<1>5. DOMAIN s = 1 .. n
  BY <1>4
<1>6. ASSUME NEW i \in 1 .. n
      PROVE  /\ s[i] \in R /\ s[i].tx = rows[i].tx
             /\ s[i].status = IF s[i].tx = t THEN status ELSE rows[i].status
  <2>1. PICK x : x = rows[i] /\ x \in R
    BY <1>2, <1>3
  <2>2. CASE x.tx = t
    <3>1. s[i] = [x EXCEPT !.status = status]  BY <1>4, <2>1, <2>2
    <3>2. [x EXCEPT !.status = status] \in R  BY <1>3, <2>1 DEF RowOver
    <3>3. [x EXCEPT !.status = status].tx = x.tx /\ [x EXCEPT !.status = status].status = status
      BY <1>3, <2>1 DEF RowOver
    <3> QED BY <2>1, <2>2, <3>1, <3>2, <3>3
  <2>3. CASE x.tx # t
    <3>1. s[i] = x  BY <1>4, <2>1, <2>3
    <3> QED BY <2>1, <2>3, <3>1
  <2> QED BY <2>2, <2>3
<1>7. s \in [1 .. n -> R]
  <2>1. s = [i \in 1 .. n |-> s[i]]  BY <1>4
  <2> QED BY <1>6, <2>1
<1>8. Queues(s)
  <2>1. \A i, j \in 1 .. n : i # j => s[i].tx # s[j].tx
    BY <1>2, <1>6
  <2>2. s \in [1 .. n -> RowOver(T)] /\ n \in Nat
    BY <1>2, <1>3, <1>7
  <2> QED BY <1>5, <2>1, <2>2, QueueIs
<1> QED BY <1>1, <1>2, <1>5, <1>6, <1>8

-----------------------------------------------------------------------------
\* Storing a record that is not reported as accepted asks nothing of the node.
LEMMA StoredKeepsHeld ==
  ASSUME Queues(rows), AcceptedHeld, UNCHANGED <<mined, nodePool>>,
         NEW t, NEW status \in Status \ Accepted, NEW seq \in 0 .. MaxSeq,
         rows' = Stored(t, status, seq)
  PROVE  AcceptedHeld'
<1>1. PICK q : q = rows'
  OBVIOUS
<1>2. \A i \in DOMAIN q : q[i].status = status \/ (i \in DOMAIN rows /\ q[i] = rows[i])
  BY <1>1, StoredIs
<1>3. \A i \in DOMAIN q : q[i].status \in Accepted => q[i].tx \in nodePool \cup mined
  BY <1>2 DEF AcceptedHeld
<1> QED BY <1>1, <1>3 DEF AcceptedHeld

\* A mark of acceptance is backed by the node, any other asks nothing of it.
LEMMA MarkedKeepsHeld ==
  ASSUME Queues(rows), AcceptedHeld, nodePool \cup mined \subseteq nodePool' \cup mined',
         NEW t, NEW status \in Status, rows' = Marked(t, status),
         status \in Accepted => t \in nodePool' \cup mined'
  PROVE  AcceptedHeld'
<1>1. PICK q : q = rows'
  OBVIOUS
<1>2. /\ DOMAIN q = DOMAIN rows
      /\ \A i \in DOMAIN q : /\ q[i].tx = rows[i].tx
                             /\ q[i].status = IF q[i].tx = t THEN status ELSE rows[i].status
  BY <1>1, MarkedIs
<1>3. ASSUME NEW i \in DOMAIN q, q[i].status \in Accepted PROVE q[i].tx \in nodePool' \cup mined'
  <2>1. CASE q[i].tx = t
    BY <1>2, <1>3, <2>1
  <2>2. CASE q[i].tx # t
    BY <1>2, <1>3, <2>2 DEF AcceptedHeld
  <2> QED BY <2>1, <2>2
<1> QED BY <1>1, <1>3 DEF AcceptedHeld

\* What the node accepts has no input in common with what is on its chain.
LEMMA AcceptedApart ==
  ASSUME PoolApart, MinedTook, UNCHANGED <<taken, mined>>, NEW t,
         nodePool' \in {nodePool, IF NodeAccepts(t) THEN nodePool \cup {t} ELSE nodePool}
  PROVE  PoolApart' /\ MinedTook'
<1>1. MinedTook'
  BY DEF MinedTook
<1>2. CASE nodePool' = nodePool
  BY <1>1, <1>2 DEF PoolApart
<1>3. CASE NodeAccepts(t) /\ nodePool' = nodePool \cup {t}
  <2>1. \A u \in mined : t.ins \cap u.ins = {}
    BY <1>3 DEF NodeAccepts, MinedTook
  <2>2. \A u \in nodePool' : u = t \/ u \in nodePool
    BY <1>3
  <2> QED BY <1>1, <2>1, <2>2 DEF PoolApart
<1> QED BY <1>2, <1>3

-----------------------------------------------------------------------------
(* While the node keeps its pool, two transactions with an input in common  *)
(* that are reported as accepted both wait in the pool or are both on the   *)
(* chain, whatever calls failed; and an accepted one is always in one of    *)
(* the two.                                                                 *)
THEOREM AcceptedStayTogether ==
  WalletSpec => []AcceptedTogether
<1>1. WalletInit => QueueOK
  <2> SUFFICES ASSUME WalletInit PROVE QueueOK
    OBVIOUS
  <2>1. rows = <<>> /\ counter = 0 /\ MaxSeq \in Nat
    BY WalletAssumption DEF WalletInit, WalletAssumption
  <2>2. DOMAIN rows = {} /\ rows \in Seq(Records(rows))
    BY <2>1, EmptySeq
  <2> QED BY <2>1, <2>2 DEF QueueOK, Queues
<1>2. WalletInit => AcceptedInv
  <2> SUFFICES ASSUME WalletInit PROVE AcceptedHeld /\ PoolApart /\ MinedTook
    BY DEF AcceptedInv
  <2>1. DOMAIN rows = {} /\ nodePool = {} /\ mined = {}
    <3>1. rows = <<>>  BY DEF WalletInit
    <3> QED BY <3>1, EmptySeq DEF WalletInit
  <2> QED BY <2>1 DEF AcceptedHeld, PoolApart, MinedTook
<1>3. QueueOK /\ [WalletNext]_walletVars => QueueOK'
  <2> SUFFICES ASSUME QueueOK, [WalletNext]_walletVars PROVE QueueOK'
    OBVIOUS
  <2>0. Queues(rows) /\ counter \in 0 .. MaxSeq /\ MaxSeq \in Nat
    BY WalletAssumption DEF QueueOK, WalletAssumption
  <2>1. /\ \A s : s \in {"draft", "cached", "pending", "confirmed", "conflicted", "rejected"}
                  => s \in Status
        /\ 0 \in 0 .. MaxSeq
    BY <2>0 DEF Status
  <2>2. CASE UNCHANGED <<rows, counter>>
    BY <2>2 DEF QueueOK, Queues, Records, RowOver
  <2>3. ASSUME NEW t, NEW status \in Status, rows' = Marked(t, status), UNCHANGED counter
        PROVE  QueueOK'
    BY <2>0, <2>3, MarkedIs DEF QueueOK
  <2>4. ASSUME NEW p \in Payment, CreateOffline(p) PROVE QueueOK'
    BY <2>0, <2>1, <2>4, StoredIs DEF QueueOK, CreateOffline
  <2>5. ASSUME NEW t, QueueForSync(t) PROVE QueueOK'
    <3>1. counter + 1 \in 0 .. MaxSeq /\ counter' = counter + 1
          /\ rows' = Stored(t, "cached", counter + 1)
      BY <2>0, <2>5 DEF QueueForSync
    <3> QED BY <2>0, <2>1, <3>1, StoredIs DEF QueueOK
  <2>6. ASSUME NEW t, MarkConfirmed(t) PROVE QueueOK'
    BY <2>1, <2>3, <2>6 DEF MarkConfirmed
  <2>7. CASE ClearQueue
    <3>1. rows' = <<>> /\ counter' = 0
      BY <2>7 DEF ClearQueue
    <3>2. DOMAIN rows' = {} /\ rows' \in Seq(Records(rows'))
      BY <3>1, EmptySeq
    <3> QED BY <2>1, <3>1, <3>2 DEF QueueOK, Queues
  <2>8. CASE Restart
    BY <2>0, <2>1, <2>8 DEF Restart, QueueOK
  <2>9. CASE SyncCheck
    BY <2>1, <2>2, <2>3, <2>9 DEF SyncCheck
  <2>10. CASE SyncSubmit
    BY <2>1, <2>3, <2>10 DEF SyncSubmit, Answer
  <2>11. CASE SyncFailure
    BY <2>1, <2>3, <2>11 DEF SyncFailure
  <2>12. CASE PrepareUtxos \/ SyncStart \/ NodeRestart
    BY <2>2, <2>12 DEF PrepareUtxos, SyncStart, NodeRestart, device
  <2>13. CASE Mine
    BY <2>2, <2>13 DEF Mine, device
  <2>14. ASSUME NEW c \in Coin, SpentElsewhere(c) PROVE QueueOK'
    BY <2>2, <2>14 DEF SpentElsewhere, device
  <2>15. CASE UNCHANGED walletVars
    BY <2>2, <2>15 DEF walletVars, device
  <2>16. CASE \E i \in DOMAIN rows : QueueForSync(rows[i].tx) \/ MarkConfirmed(rows[i].tx)
    BY <2>5, <2>6, <2>16
  <2> HIDE DEF QueueOK
  <2> QED BY <2>4, <2>7, <2>8, <2>9, <2>10, <2>11, <2>12, <2>13, <2>14, <2>15, <2>16
          DEF WalletNext, SyncStep
<1>4. ASSUME [WalletNext]_walletVars, lost PROVE lost'
  BY <1>4 DEF WalletNext, SyncStep, PrepareUtxos, CreateOffline, QueueForSync, MarkConfirmed,
              ClearQueue, Restart, SyncStart, SyncCheck, SyncSubmit, SyncFailure,
              Mine, SpentElsewhere, NodeRestart, node, walletVars
<1>5. QueueOK /\ AcceptedInv /\ [WalletNext]_walletVars => AcceptedInv'
  <2> SUFFICES ASSUME QueueOK, AcceptedInv, [WalletNext]_walletVars, ~ lost', ~ lost
               PROVE  AcceptedHeld' /\ PoolApart' /\ MinedTook'
    BY <1>4 DEF AcceptedInv
  <2>0. /\ Queues(rows) /\ counter \in 0 .. MaxSeq /\ MaxSeq \in Nat
        /\ AcceptedHeld /\ PoolApart /\ MinedTook
    BY WalletAssumption DEF QueueOK, AcceptedInv, WalletAssumption
  <2>1. /\ \A s : s \in {"draft", "cached", "conflicted", "rejected"} => s \in Status \ Accepted
        /\ \A s : s \in {"pending", "confirmed"} => s \in Status
        /\ 0 \in 0 .. MaxSeq
    BY <2>0 DEF Status, Accepted
  <2>2. CASE UNCHANGED <<rows, taken, mined, nodePool>>
    BY <2>0, <2>2 DEF AcceptedHeld, PoolApart, MinedTook
  <2>3. ASSUME UNCHANGED <<taken, mined, nodePool>> PROVE PoolApart' /\ MinedTook'
    BY <2>0, <2>3 DEF PoolApart, MinedTook
  <2>4. ASSUME NEW p \in Payment, CreateOffline(p)
        PROVE  AcceptedHeld' /\ PoolApart' /\ MinedTook'
    BY <2>0, <2>1, <2>3, <2>4, StoredKeepsHeld DEF CreateOffline, node
  <2>5. ASSUME NEW t, QueueForSync(t) PROVE AcceptedHeld' /\ PoolApart' /\ MinedTook'
    <3>1. /\ counter + 1 \in 0 .. MaxSeq /\ rows' = Stored(t, "cached", counter + 1)
          /\ UNCHANGED <<taken, mined, nodePool>>
      BY <2>0, <2>5 DEF QueueForSync, node
    <3> QED BY <2>0, <2>1, <2>3, <3>1, StoredKeepsHeld
  <2>6. ASSUME NEW t, MarkConfirmed(t) PROVE AcceptedHeld' /\ PoolApart' /\ MinedTook'
    <3>1. /\ rows' = Marked(t, "confirmed") /\ t \in mined
          /\ UNCHANGED <<taken, mined, nodePool>>
      BY <2>6 DEF MarkConfirmed, node
    <3> QED BY <2>0, <2>1, <2>3, <3>1, MarkedKeepsHeld
  <2>7. CASE ClearQueue
    <3>1. rows' = <<>> /\ UNCHANGED <<taken, mined, nodePool>>
      BY <2>7 DEF ClearQueue, node
    <3> QED BY <2>3, <3>1 DEF AcceptedHeld
  <2>8. CASE SyncCheck
    <3>1. UNCHANGED <<taken, mined, nodePool>>
      BY <2>8 DEF SyncCheck, node
    <3>2. PICK t : t = Head(sync.todo)
      OBVIOUS
    <3>3. CASE rows' = rows
      BY <2>2, <3>1, <3>3
    <3>4. CASE rows' = Marked(t, "conflicted")
      <4>1. "conflicted" \in Status /\ "conflicted" \notin Accepted  BY <2>1
      <4>2. AcceptedHeld'  BY <2>0, <3>1, <3>4, <4>1, MarkedKeepsHeld
      <4> QED BY <2>3, <3>1, <4>2
    <3> QED BY <2>8, <3>2, <3>3, <3>4 DEF SyncCheck
  <2>9. CASE SyncSubmit
    <3>1. PICK t : /\ rows' = Marked(t, Answer(NodeAccepts(t)))
                   /\ nodePool' = IF NodeAccepts(t) THEN nodePool \cup {t} ELSE nodePool
                   /\ UNCHANGED <<taken, mined>>
      BY <2>9 DEF SyncSubmit
    <3>2. PoolApart' /\ MinedTook'
      BY <2>0, <3>1, AcceptedApart
    <3>3. CASE NodeAccepts(t)
      <4>1. rows' = Marked(t, "pending") /\ nodePool' = nodePool \cup {t} /\ mined' = mined
        BY <3>1, <3>3 DEF Answer
      <4> QED BY <2>0, <2>1, <3>2, <4>1, MarkedKeepsHeld
    <3>4. CASE ~ NodeAccepts(t)
      <4>1. rows' = Marked(t, "rejected") /\ nodePool' = nodePool /\ mined' = mined
        BY <3>1, <3>4 DEF Answer
      <4>2. "rejected" \in Status /\ "rejected" \notin Accepted  BY <2>1
      <4> QED BY <2>0, <3>2, <4>1, <4>2, MarkedKeepsHeld
    <3> QED BY <3>3, <3>4
  <2>10. CASE SyncFailure
    <3>1. PICK t : /\ rows' = Marked(t, "rejected")
                   /\ nodePool' \in {nodePool, IF NodeAccepts(t) THEN nodePool \cup {t} ELSE nodePool}
                   /\ UNCHANGED <<taken, mined>>
      BY <2>10 DEF SyncFailure
    <3>2. PoolApart' /\ MinedTook'
      BY <2>0, <3>1, AcceptedApart
    <3>3. "rejected" \in Status /\ "rejected" \notin Accepted
      BY <2>1
    <3>4. nodePool \subseteq nodePool' /\ mined' = mined
      BY <3>1
    <3> QED BY <2>0, <3>1, <3>2, <3>3, <3>4, MarkedKeepsHeld
  <2>11. CASE Mine
    <3>1. /\ taken' = taken \cup UNION {t.ins : t \in nodePool}
          /\ mined' = mined \cup nodePool /\ nodePool' = {} /\ rows' = rows
      BY <2>11 DEF Mine, device
    <3>2. nodePool' \cup mined' = nodePool \cup mined
      BY <3>1
    <3>3. AcceptedHeld'
      BY <2>0, <3>1, <3>2 DEF AcceptedHeld
    <3>4. PoolApart'
      BY <3>1 DEF PoolApart
    <3>5. MinedTook'
      BY <2>0, <3>1 DEF MinedTook
    <3> QED BY <3>3, <3>4, <3>5
  <2>12. ASSUME NEW c \in Coin, SpentElsewhere(c)
         PROVE  AcceptedHeld' /\ PoolApart' /\ MinedTook'
    <3>1. taken \subseteq taken' /\ UNCHANGED <<rows, mined, nodePool>>
      BY <2>12 DEF SpentElsewhere, device
    <3>2. AcceptedHeld' /\ PoolApart'
      BY <2>0, <3>1 DEF AcceptedHeld, PoolApart
    <3>3. MinedTook'
      BY <2>0, <3>1 DEF MinedTook
    <3> QED BY <3>2, <3>3
  <2>13. CASE PrepareUtxos \/ Restart \/ SyncStart \/ UNCHANGED walletVars
    BY <2>2, <2>13 DEF PrepareUtxos, Restart, SyncStart, node, device, walletVars
  <2>14. CASE NodeRestart
    BY <2>14 DEF NodeRestart
  <2>15. CASE \E i \in DOMAIN rows : QueueForSync(rows[i].tx) \/ MarkConfirmed(rows[i].tx)
    BY <2>5, <2>6, <2>15
  <2> QED BY <2>4, <2>7, <2>8, <2>9, <2>10, <2>11, <2>12, <2>13, <2>14, <2>15
          DEF WalletNext, SyncStep
<1>6. AcceptedInv => AcceptedTogether
  <2> SUFFICES ASSUME AcceptedInv, ~ lost, NEW i \in DOMAIN rows, NEW j \in DOMAIN rows,
                      rows[i].status \in Accepted, rows[j].status \in Accepted,
                      rows[i].tx.ins \cap rows[j].tx.ins # {}
               PROVE  {rows[i].tx, rows[j].tx} \subseteq nodePool
                        \/ {rows[i].tx, rows[j].tx} \subseteq mined
    BY DEF AcceptedTogether
  <2>1. rows[i].tx \in nodePool \cup mined /\ rows[j].tx \in nodePool \cup mined
    BY DEF AcceptedInv, AcceptedHeld
  <2>2. ~ (rows[i].tx \in nodePool /\ rows[j].tx \in mined)
    BY DEF AcceptedInv, PoolApart
  <2>3. ~ (rows[j].tx \in nodePool /\ rows[i].tx \in mined)
    BY DEF AcceptedInv, PoolApart
  <2> QED BY <2>1, <2>2, <2>3
<1> QED BY <1>1, <1>2, <1>3, <1>5, <1>6, PTL DEF WalletSpec

-----------------------------------------------------------------------------
(***************************************************************************)
(* The limit on the rate of requests.  MeterInv relates what is kept of a  *)
(* client to the answers it has had: a bucket holds at most what is left   *)
(* of the burst and the rate after what was served (Paid), and exactly     *)
(* that since it was last full (Exact); a block is that of a request that  *)
(* was refused for cause (Justified), and one that was started lasts until *)
(* it has passed (Lasting).                                                *)
(***************************************************************************)
Count(s, i, j) == Cardinality(Served(s, i, j))

\* What was served since a request and is left of the bucket, against what is allowed.
Spent(s, m, i) == Cost * Count(s, i, Len(s)) + m.tokens
Earned(s, m, i) == Cost * Burst + Rate * (m.last - s[i].at)

InTime(s, m, t) ==
  /\ m.last <= t /\ m.tokens <= Cost * Burst
  /\ \A i \in DOMAIN s : s[i].at <= t

\* No request is followed by more than is allowed, with what is still in the
\* bucket; what came after the last change of the bucket was refused.
Paid(s, m) ==
  \A i \in Seen(s) :
    /\ s[i].at <= m.last => Spent(s, m, i) <= Earned(s, m, i)
    /\ s[i].at > m.last => Served(s, i, Len(s)) = {}

\* Since the last time the bucket was full, nothing was lost.
Exact(s, m) ==
  \/ Seen(s) = {} /\ m = NewMeter
  \/ \E i \in Seen(s) : s[i].at <= m.last /\ Spent(s, m, i) = Earned(s, m, i)

Within(s, k, j) == j < k /\ s[k].at < s[j].at + Block

\* A block is that of a request that was refused for cause.
Justified(s, m) ==
  m.until # 0 => \E j \in Refused(s) : Overran(s, j) /\ m.until = s[j].at + Block

\* A block that was started lasts, or was lifted when it had passed.
Lasting(s, m) ==
  \A j \in Refused(s) :
    (\A i \in Refused(s) : ~ Within(s, j, i)) => s[j].at + Block <= m.until \/ s[j].at + Block <= m.last

RateHolds(s) ==
  \A i, j \in Seen(s) : i <= j => Cost * Count(s, i, j) <= Allowed(s, i, j)

CauseHolds(s) ==
  \A k \in Refused(s) : \E j \in Refused(s) : (j = k \/ Within(s, k, j)) /\ Overran(s, j)

BlocksHold(s) ==
  \A j \in Refused(s) :
    (\A i \in Refused(s) : ~ Within(s, j, i)) => \A k \in Seen(s) : Within(s, k, j) => k \in Refused(s)

MeterInv(s, m, t) ==
  /\ InTime(s, m, t) /\ Paid(s, m) /\ Exact(s, m) /\ Justified(s, m) /\ Lasting(s, m)
  /\ RateHolds(s) /\ CauseHolds(s) /\ BlocksHold(s)

IntakeInv == IntakeTypeOK /\ \A c \in Client : MeterInv(asked[c], meters[c], now)

-----------------------------------------------------------------------------
\* A bucket that is refilled for some time.
LEMMA RefilledIs ==
  ASSUME NEW m, m.tokens \in Int, m.last \in Int, NEW t \in Int
  PROVE  LET r == m.tokens + Rate * (t - m.last) IN
         /\ r \in Int /\ Refilled(m, t) \in Int
         /\ Refilled(m, t) = IF Cost * Burst < r THEN Cost * Burst ELSE r
<1>1. Rate \in Int /\ t - m.last \in Int /\ Cost \in Int /\ Burst \in Int
  BY IntakeAssumption DEF IntakeAssumption
<1>2. Rate * (t - m.last) \in Int /\ Cost * Burst \in Int
  BY <1>1
<1> QED BY <1>2 DEF Refilled, Lower

LEMMA LimitIs ==
  ASSUME NEW m, m.tokens \in Int, m.last \in Int, NEW t \in Int
  PROVE  /\ Blocked(m, t) => Limit(m, t).meter = m /\ Limit(m, t).status = 429
         /\ ~ Blocked(m, t) /\ Refilled(m, t) >= Cost =>
              /\ Limit(m, t).meter = [tokens |-> Refilled(m, t) - Cost, last |-> t, until |-> 0]
              /\ Limit(m, t).status = 200
         /\ ~ Blocked(m, t) /\ Refilled(m, t) < Cost =>
              Limit(m, t).meter = Overrun(m, t) /\ Limit(m, t).status = 429
<1>1. PICK served, over :
        served = [tokens |-> Refilled(m, t) - Cost, last |-> t, until |-> 0] /\ over = Overrun(m, t)
  OBVIOUS
<1>2. Limit(m, t) =
        CASE Blocked(m, t) -> [meter |-> m, status |-> 429]
          [] ~ Blocked(m, t) /\ Refilled(m, t) >= Cost -> [meter |-> served, status |-> 200]
          [] ~ Blocked(m, t) /\ Refilled(m, t) < Cost -> [meter |-> over, status |-> 429]
  BY <1>1 DEF Limit
<1>3. Refilled(m, t) \in Int /\ Cost \in Int
  BY RefilledIs, IntakeAssumption DEF IntakeAssumption
<1>4. Refilled(m, t) < Cost <=> ~ (Refilled(m, t) >= Cost)
  BY <1>3
<1> QED BY <1>1, <1>2, <1>4

-----------------------------------------------------------------------------
\* Whether the limit saw a request, and let it pass.
Limits(e) == ~ e.exempt /\ e.status # 401
Passes(e) == Limits(e) /\ e.status = 200

\* The requests of a client, up to one that has just been answered with e.
Extended(s, e, q, n) ==
  /\ n \in Nat /\ s \in Seq(Reply) /\ q \in Seq(Reply) /\ e \in Reply
  /\ Len(s) = n /\ DOMAIN s = 1 .. n /\ Len(q) = n + 1 /\ DOMAIN q = 1 .. n + 1
  /\ q[n + 1] = e /\ \A i \in 1 .. n : q[i] = s[i]
  /\ Seen(s) \subseteq 1 .. n /\ Refused(s) \subseteq Seen(s)
  /\ Seen(q) = Seen(s) \cup {k \in {n + 1} : Limits(e)}
  /\ Refused(q) = Refused(s) \cup {k \in {n + 1} : Limits(e) /\ e.status = 429}
  /\ \A i, j \in 1 .. n : Served(q, i, j) = Served(s, i, j)
  /\ \A i \in 1 .. n : Served(q, i, n + 1) = Served(s, i, n) \cup {k \in {n + 1} : Passes(e)}
  /\ Served(q, n + 1, n + 1) = {k \in {n + 1} : Passes(e)}

LEMMA AppendExtends ==
  ASSUME NEW s \in Seq(Reply), NEW e \in Reply
  PROVE  Extended(s, e, Append(s, e), Len(s))
<1>1. PICK q, n : q = Append(s, e) /\ n = Len(s)
  OBVIOUS
<1>2. /\ n \in Nat /\ q \in Seq(Reply) /\ DOMAIN s = 1 .. n /\ Len(q) = n + 1
      /\ DOMAIN q = 1 .. n + 1 /\ q[n + 1] = e /\ \A i \in 1 .. n : q[i] = s[i]
  BY <1>1
<1>3. /\ \A i : i \in 1 .. n + 1 <=> i \in 1 .. n \/ i = n + 1
      /\ \A i \in 1 .. n : i # n + 1 /\ i <= n /\ i <= n + 1 /\ ~ (n + 1 <= i)
      /\ n + 1 <= n + 1
  BY <1>2
<1>4. Seen(s) \subseteq 1 .. n /\ Refused(s) \subseteq Seen(s)
  BY <1>2 DEF Seen, Refused
<1>5. Seen(q) = Seen(s) \cup {k \in {n + 1} : Limits(e)}
  BY <1>2, <1>3 DEF Seen, Limits
<1>6. Refused(q) = Refused(s) \cup {k \in {n + 1} : Limits(e) /\ e.status = 429}
  BY <1>2, <1>3, <1>4, <1>5 DEF Refused
<1>7. ASSUME NEW i \in 1 .. n, NEW j \in 1 .. n PROVE Served(q, i, j) = Served(s, i, j)
  BY <1>2, <1>3, <1>4, <1>5 DEF Served
<1>8. ASSUME NEW i \in 1 .. n
      PROVE  Served(q, i, n + 1) = Served(s, i, n) \cup {k \in {n + 1} : Passes(e)}
  BY <1>2, <1>3, <1>4, <1>5 DEF Served, Passes
<1>9. Served(q, n + 1, n + 1) = {k \in {n + 1} : Passes(e)}
  BY <1>2, <1>3, <1>4, <1>5 DEF Served, Passes
<1> QED BY <1>1, <1>2, <1>4, <1>5, <1>6, <1>7, <1>8, <1>9 DEF Extended

\* How many were served, with one request more.
LEMMA CountIs ==
  ASSUME NEW s, NEW e, NEW q, NEW n, Extended(s, e, q, n)
  PROVE  /\ \A i, j \in 1 .. n : Count(s, i, j) \in Nat /\ Count(q, i, j) = Count(s, i, j)
         /\ \A i \in 1 .. n : Count(q, i, n + 1) = Count(s, i, n) + (IF Passes(e) THEN 1 ELSE 0)
         /\ Count(q, n + 1, n + 1) = IF Passes(e) THEN 1 ELSE 0
<1>1. ASSUME NEW i \in 1 .. n, NEW j \in 1 .. n
      PROVE  /\ IsFiniteSet(Served(s, i, j)) /\ Count(s, i, j) \in Nat
             /\ n + 1 \notin Served(s, i, j)
             /\ Count(q, i, j) = Count(s, i, j)
  <2>1. n \in Nat /\ Served(s, i, j) \subseteq 1 .. n
    BY DEF Extended, Served
  <2>2. IsFiniteSet(1 .. n)
    BY <2>1, FS_Interval
  <2>3. IsFiniteSet(Served(s, i, j))
    BY <2>1, <2>2, FS_Subset
  <2>4. Served(q, i, j) = Served(s, i, j)
    BY DEF Extended
  <2> QED BY <2>1, <2>3, <2>4, FS_CardinalityType DEF Count
<1>2. ASSUME NEW i \in 1 .. n
      PROVE  Count(q, i, n + 1) = Count(s, i, n) + (IF Passes(e) THEN 1 ELSE 0)
  <2>1. n \in 1 .. n
    BY DEF Extended
  <2>2. Served(q, i, n + 1) = Served(s, i, n) \cup {k \in {n + 1} : Passes(e)}
    BY DEF Extended
  <2>3. CASE Passes(e)
    <3>1. Served(q, i, n + 1) = Served(s, i, n) \cup {n + 1}
      BY <2>2, <2>3
    <3>2. Cardinality(Served(s, i, n) \cup {n + 1}) = Cardinality(Served(s, i, n)) + 1
      BY <1>1, <2>1, FS_AddElement
    <3> QED BY <2>3, <3>1, <3>2 DEF Count
  <2>4. CASE ~ Passes(e)
    <3>1. Served(q, i, n + 1) = Served(s, i, n)
      BY <2>2, <2>4
    <3>2. Count(s, i, n) \in Nat
      BY <1>1, <2>1
    <3> QED BY <2>4, <3>1, <3>2 DEF Count
  <2> QED BY <2>3, <2>4
<1>3. Count(q, n + 1, n + 1) = IF Passes(e) THEN 1 ELSE 0
  <2>1. Served(q, n + 1, n + 1) = {k \in {n + 1} : Passes(e)}
    BY DEF Extended
  <2>2. CASE Passes(e)
    <3>1. Served(q, n + 1, n + 1) = {n + 1}
      BY <2>1, <2>2
    <3> QED BY <2>2, <3>1, FS_Singleton DEF Count
  <2>3. CASE ~ Passes(e)
    <3>1. Served(q, n + 1, n + 1) = {}
      BY <2>1, <2>3
    <3> QED BY <2>3, <3>1, FS_EmptySet DEF Count
  <2> QED BY <2>2, <2>3
<1> QED BY <1>1, <1>2, <1>3

-----------------------------------------------------------------------------
\* What a request does to the meter of its client: nothing, when the limit does
\* not see it or the client is blocked, or it brings the bucket up to date.
Still(m, t, e, m2) ==
  /\ m2 = m
  /\ Limits(e) => e.status = 429 /\ t < m.until

Moves(m, t, e, m2) ==
  /\ Limits(e) /\ ~ (t < m.until)
  /\ m2.last = t
  /\ \/ /\ e.status = 200 /\ Refilled(m, t) >= Cost
        /\ m2.tokens = Refilled(m, t) - Cost /\ m2.until = 0
     \/ /\ e.status = 429 /\ Refilled(m, t) < Cost
        /\ m2.tokens = Refilled(m, t) /\ m2.until = t + Block

Asks(s, m, t, e, q, n, m2) ==
  /\ m \in Meter /\ t \in Nat /\ MeterInv(s, m, t)
  /\ Extended(s, e, q, n) /\ e.at = t
  /\ Still(m, t, e, m2) \/ Moves(m, t, e, m2)

LEMMA RateAdds ==
  ASSUME NEW a \in Int, NEW b \in Int, NEW c \in Int
  PROVE  /\ Rate * (c - a) = Rate * (c - b) + Rate * (b - a)
         /\ Rate * (c - a) \in Int /\ Rate * (c - b) \in Int /\ Rate * (b - a) \in Int
         /\ a <= c => Rate * (c - a) >= 0
<1>1. Rate \in Nat  BY IntakeAssumption DEF IntakeAssumption
<1> QED BY <1>1

LEMMA BurstIs ==
  /\ Cost \in Nat /\ Cost > 0 /\ Cost * Burst \in Nat /\ Cost <= Cost * Burst
  /\ Block \in Nat /\ Rate \in Nat
<1>1. Cost \in Nat /\ Cost > 0 /\ Burst \in Nat /\ Burst >= 1 /\ Block \in Nat /\ Rate \in Nat
  BY IntakeAssumption DEF IntakeAssumption
<1>2. Cost * Burst = Cost + Cost * (Burst - 1) /\ Cost * (Burst - 1) \in Nat
  BY <1>1
<1> QED BY <1>1, <1>2

\* The bucket brought up to date: r is what is in it before the request is paid.
LEMMA MovesIs ==
  ASSUME NEW s, NEW m \in Meter, NEW t \in Nat, NEW e, NEW m2, InTime(s, m, t), Moves(m, t, e, m2)
  PROVE  \E r \in Nat :
           /\ r <= Cost * Burst /\ r <= m.tokens + Rate * (t - m.last)
           /\ r = Cost * Burst \/ r = m.tokens + Rate * (t - m.last)
           /\ m2.last = t /\ m2.tokens \in Nat /\ m.until <= t /\ m.last <= t
           /\ \/ /\ Passes(e) /\ e.status = 200
                 /\ r >= Cost /\ m2.tokens = r - Cost /\ m2.until = 0
              \/ /\ ~ Passes(e) /\ e.status = 429
                 /\ r < Cost /\ m2.tokens = r /\ m2.until = t + Block
<1>1. m.tokens \in Nat /\ m.last \in Nat /\ m.until \in Nat /\ m.last <= t
  BY DEF Meter, InTime
<1>2. PICK r : r = Refilled(m, t)
  OBVIOUS
<1>3. PICK x : x = Rate * (t - m.last)
  OBVIOUS
<1>4. x \in Nat
  <2>1. Rate \in Nat /\ t - m.last \in Nat  BY <1>1, BurstIs
  <2> QED BY <1>3, <2>1
<1>5. r \in Int /\ r = IF Cost * Burst < m.tokens + x THEN Cost * Burst ELSE m.tokens + x
  BY <1>1, <1>2, <1>3, RefilledIs
<1>6. PICK b : b = Cost * Burst
  OBVIOUS
<1>7. b \in Nat /\ Cost \in Nat
  BY <1>6, BurstIs
<1>8. r \in Nat /\ r <= b /\ r <= m.tokens + x /\ (r = b \/ r = m.tokens + x)
  BY <1>1, <1>4, <1>5, <1>6, <1>7
<1>9. m2.last = t /\ m.until <= t
  BY <1>1 DEF Moves
<1>10. CASE e.status = 200 /\ r >= Cost /\ m2.tokens = r - Cost /\ m2.until = 0
  <2>1. Passes(e) /\ m2.tokens \in Nat
    BY <1>7, <1>8, <1>10 DEF Passes, Moves
  <2> QED BY <1>1, <1>3, <1>6, <1>8, <1>9, <1>10, <2>1
<1>11. CASE e.status = 429 /\ r < Cost /\ m2.tokens = r /\ m2.until = t + Block
  <2>1. ~ Passes(e) /\ m2.tokens \in Nat
    BY <1>8, <1>11 DEF Passes
  <2> QED BY <1>1, <1>3, <1>6, <1>8, <1>9, <1>11, <2>1
<1> QED BY <1>2, <1>10, <1>11 DEF Moves

\* What was answered at all times, and since every request.
LEMMA AskedInTime ==
  ASSUME NEW s, NEW m, NEW t, NEW e, NEW q, NEW n, NEW m2, Asks(s, m, t, e, q, n, m2)
  PROVE  InTime(q, m2, t)
<1>1. /\ m \in Meter /\ t \in Nat /\ InTime(s, m, t) /\ Extended(s, e, q, n) /\ e.at = t
      /\ Still(m, t, e, m2) \/ Moves(m, t, e, m2)
  BY DEF Asks, MeterInv
<1>2. \A i \in DOMAIN q : q[i].at <= t
  <2>1. n \in Nat /\ DOMAIN q = 1 .. n + 1 /\ DOMAIN s = 1 .. n /\ q[n + 1].at = t
        /\ \A i \in 1 .. n : q[i] = s[i]
    BY <1>1 DEF Extended
  <2>2. ASSUME NEW i \in DOMAIN q PROVE q[i].at <= t
    <3>1. CASE i = n + 1  BY <1>1, <2>1, <3>1
    <3>2. CASE i \in 1 .. n  BY <1>1, <2>1, <3>2 DEF InTime
    <3> QED BY <2>1, <3>1, <3>2
  <2> QED BY <2>2
<1>3. m2.last <= t /\ m2.tokens <= Cost * Burst
  <2>1. CASE m2 = m
    BY <1>1, <2>1 DEF InTime
  <2>2. CASE Moves(m, t, e, m2)
    <3>1. PICK b : b = Cost * Burst /\ b \in Nat /\ Cost \in Nat
      BY BurstIs
    <3>2. PICK r \in Nat : /\ r <= b /\ m2.last = t
                           /\ m2.tokens = r - Cost \/ m2.tokens = r
      BY <1>1, <2>2, <3>1, MovesIs
    <3> QED BY <1>1, <3>1, <3>2
  <2> QED BY <1>1, <2>1, <2>2 DEF Still
<1> QED BY <1>2, <1>3 DEF InTime

LEMMA AskedPaid ==
  ASSUME NEW s, NEW m, NEW t, NEW e, NEW q, NEW n, NEW m2, Asks(s, m, t, e, q, n, m2)
  PROVE  Paid(q, m2)
<1>1. /\ m \in Meter /\ t \in Nat /\ InTime(s, m, t) /\ Paid(s, m) /\ Extended(s, e, q, n)
      /\ e.at = t
      /\ Still(m, t, e, m2) \/ Moves(m, t, e, m2)
  BY DEF Asks, MeterInv
<1>2. /\ m.tokens \in Nat /\ m.last \in Nat /\ m.last <= t
      /\ m.tokens <= Cost * Burst /\ Cost \in Nat /\ Cost * Burst \in Nat /\ Rate \in Nat
  BY <1>1, BurstIs DEF Meter, InTime
<1>3. /\ n \in Nat /\ Len(s) = n /\ Len(q) = n + 1 /\ DOMAIN s = 1 .. n /\ DOMAIN q = 1 .. n + 1
      /\ q[n + 1] = e /\ \A i \in 1 .. n : q[i] = s[i] /\ s[i].at \in Nat /\ s[i].at <= t
      /\ Seen(s) \subseteq 1 .. n /\ Seen(q) = Seen(s) \cup {k \in {n + 1} : Limits(e)}
  <2>1. s \in Seq(Reply) /\ \A i \in DOMAIN s : s[i].at <= t
    BY <1>1 DEF Extended, InTime
  <2>2. \A i \in DOMAIN s : s[i] \in Reply  BY <2>1
  <2>3. \A i \in DOMAIN s : s[i].at \in Nat  BY <2>2 DEF Reply
  <2> QED BY <1>1, <2>1, <2>3 DEF Extended
<1>4. PICK p : p = IF Passes(e) THEN 1 ELSE 0
  OBVIOUS
<1>5. /\ \A i \in 1 .. n : Count(s, i, n) \in Nat /\ Count(q, i, n + 1) = Count(s, i, n) + p
      /\ Count(q, n + 1, n + 1) = p
  <2>1. \A i \in 1 .. n : n \in 1 .. n  BY <1>3
  <2> QED BY <1>1, <1>4, <2>1, CountIs
<1>6. CASE Moves(m, t, e, m2)
  <2>1. PICK r \in Nat :
          /\ r <= Cost * Burst /\ r <= m.tokens + Rate * (t - m.last)
          /\ m2.last = t
          /\ (p = 1 /\ m2.tokens = r - Cost) \/ (p = 0 /\ m2.tokens = r)
    BY <1>1, <1>4, <1>6, MovesIs
  <2>2. ASSUME NEW i \in Seen(q)
        PROVE  ~ (q[i].at > m2.last) /\ Spent(q, m2, i) <= Earned(q, m2, i)
    <3>1. CASE i \in Seen(s)
      <4>1. PICK c, a : c = Count(s, i, n) /\ a = s[i].at
        OBVIOUS
      <4>2. c \in Nat /\ a \in Nat /\ a <= t /\ q[i].at = a
        BY <1>3, <1>5, <3>1, <4>1
      <4>3. Spent(q, m2, i) = Cost * (c + p) + m2.tokens /\ Earned(q, m2, i) = Cost * Burst + Rate * (t - a)
        BY <1>3, <1>5, <2>1, <3>1, <4>1, <4>2 DEF Spent, Earned
      <4>4. Cost * (c + p) + m2.tokens = Cost * c + r
        <5>1. CASE p = 1 /\ m2.tokens = r - Cost
          <6>1. Cost * (c + 1) = Cost * c + Cost /\ Cost * c \in Nat  BY <1>2, <4>2
          <6> QED BY <1>2, <5>1, <6>1
        <5>2. CASE p = 0 /\ m2.tokens = r  BY <4>2, <5>2
        <5> QED BY <2>1, <5>1, <5>2
      <4>5. Cost * c + r <= Cost * Burst + Rate * (t - a)
        <5>1. CASE a <= m.last
          <6>1. Cost * c + m.tokens <= Cost * Burst + Rate * (m.last - a)
            BY <1>1, <1>3, <3>1, <4>1, <5>1 DEF Paid, Spent, Earned
          <6>2. PICK cc, b, x, y, z : /\ cc = Cost * c /\ b = Cost * Burst /\ x = Rate * (t - a)
                                      /\ y = Rate * (t - m.last) /\ z = Rate * (m.last - a)
            OBVIOUS
          <6>3. x = y + z /\ x \in Int /\ y \in Int /\ z \in Int
            BY <1>1, <1>2, <4>2, <6>2, RateAdds
          <6>4. cc \in Nat /\ b \in Nat  BY <1>2, <4>2, <6>2
          <6>5. cc + m.tokens <= b + z /\ r <= m.tokens + y
            BY <2>1, <6>1, <6>2
          <6>6. cc + r <= b + x  BY <1>2, <6>3, <6>4, <6>5
          <6> QED BY <6>2, <6>6
        <5>2. CASE a > m.last
          <6>1. Served(s, i, n) = {}
            BY <1>1, <1>3, <3>1, <4>1, <5>2 DEF Paid
          <6>2. c = 0
            BY <4>1, <6>1, FS_EmptySet DEF Count
          <6>3. Rate * (t - a) \in Nat
            <7>1. t - a \in Nat  BY <1>1, <4>2
            <7> QED BY <1>2, <7>1
          <6> QED BY <1>2, <2>1, <6>2, <6>3
        <5> QED BY <1>2, <4>2, <5>1, <5>2
      <4> QED BY <1>1, <2>1, <4>2, <4>3, <4>4, <4>5
    <3>2. CASE i = n + 1
      <4>1. Spent(q, m2, i) = Cost * p + m2.tokens
        <5>1. Count(q, i, Len(q)) = p  BY <1>3, <1>5, <3>2
        <5> QED BY <5>1 DEF Spent
      <4>2. Earned(q, m2, i) = Cost * Burst + Rate * (t - t) /\ q[i].at = t
        <5>1. q[i].at = t /\ m2.last = t
          <6>1. q[i] = e  BY <1>3, <3>2
          <6> QED BY <1>1, <2>1, <6>1
        <5> QED BY <5>1 DEF Earned
      <4>3. Rate * (t - t) = 0  BY <1>1, <1>2
      <4>4. Cost * p + m2.tokens = r  BY <1>2, <2>1
      <4> QED BY <1>1, <1>2, <2>1, <4>1, <4>2, <4>3, <4>4
    <3> QED BY <1>3, <3>1, <3>2
  <2> QED BY <2>2 DEF Paid
<1>7. CASE Still(m, t, e, m2)
  <2>1. m2 = m /\ p = 0
    <3>1. Limits(e) => e.status = 429  BY <1>7 DEF Still
    <3>2. ~ Passes(e)  BY <3>1 DEF Passes
    <3> QED BY <1>4, <1>7, <3>2 DEF Still
  <2>2. ASSUME NEW i \in Seen(s)
        PROVE  /\ q[i].at <= m2.last => Spent(q, m2, i) <= Earned(q, m2, i)
               /\ q[i].at > m2.last => Served(q, i, Len(q)) = {}
    <3>1. i \in 1 .. n /\ q[i] = s[i] /\ Count(q, i, n + 1) = Count(s, i, n)
      BY <1>3, <1>5, <2>1
    <3>2. Spent(q, m2, i) = Spent(s, m, i) /\ Earned(q, m2, i) = Earned(s, m, i)
      BY <1>3, <2>1, <3>1 DEF Spent, Earned
    <3>3. Served(q, i, n + 1) = Served(s, i, n)
      <4>1. ~ Passes(e)  BY <1>4, <2>1
      <4>2. Served(q, i, n + 1) = Served(s, i, n) \cup {k \in {n + 1} : Passes(e)}
        BY <1>1, <3>1 DEF Extended
      <4> QED BY <4>1, <4>2
    <3> QED BY <1>1, <1>3, <2>1, <3>1, <3>2, <3>3 DEF Paid
  <2>3. CASE n + 1 \in Seen(q)
    <3>1. q[n + 1].at = t /\ Served(q, n + 1, n + 1) = {}
      <4>1. ~ Passes(e)  BY <1>4, <2>1
      <4>2. Served(q, n + 1, n + 1) = {k \in {n + 1} : Passes(e)} /\ q[n + 1] = e
        BY <1>1 DEF Extended
      <4>3. q[n + 1].at = t  BY <1>1, <4>2
      <4>4. {k \in {n + 1} : Passes(e)} = {}  BY <4>1
      <4> QED BY <4>2, <4>3, <4>4
    <3>2. q[n + 1].at <= m2.last => Spent(q, m2, n + 1) <= Earned(q, m2, n + 1)
      <4>1. SUFFICES ASSUME t <= m.last PROVE Spent(q, m2, n + 1) <= Earned(q, m2, n + 1)
        BY <2>1, <3>1
      <4>2. m.last = t  BY <1>1, <1>2, <4>1
      <4>3. /\ Spent(q, m2, n + 1) = Cost * p + m.tokens
            /\ Earned(q, m2, n + 1) = Cost * Burst + Rate * (t - t)
        BY <1>3, <1>5, <2>1, <3>1, <4>2 DEF Spent, Earned
      <4>4. Rate * (t - t) = 0 /\ Cost * p = 0  BY <1>1, <1>2, <2>1
      <4> QED BY <1>2, <4>3, <4>4
    <3> QED BY <1>3, <2>2, <3>1, <3>2 DEF Paid
  <2> QED BY <1>3, <2>2, <2>3 DEF Paid
<1> QED BY <1>1, <1>6, <1>7

\* What the lemmas that follow need of a request.
LEMMA AskedIs ==
  ASSUME NEW s, NEW m, NEW t, NEW e, NEW q, NEW n, NEW m2, Asks(s, m, t, e, q, n, m2)
  PROVE  /\ m \in Meter /\ t \in Nat /\ InTime(s, m, t) /\ Extended(s, e, q, n)
         /\ Still(m, t, e, m2) \/ Moves(m, t, e, m2)
         /\ n \in Nat /\ Len(s) = n /\ Len(q) = n + 1 /\ q[n + 1] = e /\ e.at = t
         /\ \A i \in 1 .. n : q[i] = s[i] /\ s[i].at \in Nat /\ s[i].at <= t
         /\ Seen(s) \subseteq 1 .. n /\ Seen(s) \subseteq Seen(q)
         /\ \A i \in Seen(q) : i \in Seen(s) \/ (i = n + 1 /\ Limits(e))
         /\ Refused(s) \subseteq Seen(s) /\ Refused(s) \subseteq Refused(q)
         /\ \A i \in Refused(q) : i \in Refused(s) \/ (i = n + 1 /\ Limits(e) /\ e.status = 429)
         /\ Limits(e) => n + 1 \in Seen(q)
         /\ Limits(e) /\ e.status = 429 => n + 1 \in Refused(q)
         /\ m2.tokens \in Nat /\ m2.last \in Nat /\ m2.last <= t
<1>1. /\ m \in Meter /\ t \in Nat /\ InTime(s, m, t) /\ Extended(s, e, q, n) /\ e.at = t
  BY DEF Asks, MeterInv
<1>2. Still(m, t, e, m2) \/ Moves(m, t, e, m2)
  BY DEF Asks
<1>3. \A i \in 1 .. n : s[i].at \in Nat /\ s[i].at <= t
  <2>1. s \in Seq(Reply)
    BY <1>1 DEF Extended
  <2>2. DOMAIN s = 1 .. n
    BY <1>1 DEF Extended
  <2>3. \A i \in DOMAIN s : s[i].at <= t
    BY <1>1 DEF InTime
  <2>4. \A i \in DOMAIN s : s[i] \in Reply  BY <2>1
  <2>5. \A i \in DOMAIN s : s[i].at \in Nat  BY <2>4 DEF Reply
  <2> QED BY <2>2, <2>3, <2>5
<1>4. m2.tokens \in Nat /\ m2.last \in Nat /\ m2.last <= t
  <2>1. CASE m2 = m
    BY <1>1, <2>1 DEF Meter, InTime
  <2>2. CASE Moves(m, t, e, m2)
    <3>1. m2.tokens \in Nat  BY <1>1, <2>2, MovesIs
    <3>2. m2.last = t  BY <2>2 DEF Moves
    <3> QED BY <1>1, <3>1, <3>2
  <2> QED BY <1>2, <2>1, <2>2 DEF Still
<1>5. /\ n \in Nat /\ Len(s) = n /\ Len(q) = n + 1 /\ q[n + 1] = e
      /\ \A i \in 1 .. n : q[i] = s[i]
      /\ Seen(s) \subseteq 1 .. n /\ Refused(s) \subseteq Seen(s)
  BY <1>1 DEF Extended
<1>6. /\ Seen(q) = Seen(s) \cup {k \in {n + 1} : Limits(e)}
      /\ Refused(q) = Refused(s) \cup {k \in {n + 1} : Limits(e) /\ e.status = 429}
  BY <1>1 DEF Extended
<1>7. /\ Seen(s) \subseteq Seen(q)
      /\ \A i \in Seen(q) : i \in Seen(s) \/ (i = n + 1 /\ Limits(e))
      /\ Limits(e) => n + 1 \in Seen(q)
  BY <1>6
<1>8. /\ Refused(s) \subseteq Refused(q)
      /\ \A i \in Refused(q) : i \in Refused(s) \/ (i = n + 1 /\ Limits(e) /\ e.status = 429)
      /\ Limits(e) /\ e.status = 429 => n + 1 \in Refused(q)
  BY <1>6
<1> HIDE DEF Still, Moves, Limits, InTime, Extended, Meter
<1> QED BY <1>1, <1>2, <1>3, <1>4, <1>5, <1>7, <1>8

LEMMA AskedRate ==
  ASSUME NEW s, NEW m, NEW t, NEW e, NEW q, NEW n, NEW m2, Asks(s, m, t, e, q, n, m2)
  PROVE  RateHolds(q)
<1>1. /\ n \in Nat /\ Len(q) = n + 1 /\ q[n + 1].at = t /\ t \in Nat
      /\ \A i \in 1 .. n : q[i] = s[i] /\ s[i].at \in Nat /\ s[i].at <= t
      /\ Seen(s) \subseteq 1 .. n /\ \A i \in Seen(q) : i \in Seen(s) \/ i = n + 1
      /\ m2.tokens \in Nat /\ m2.last \in Nat /\ m2.last <= t /\ Extended(s, e, q, n)
  BY AskedIs
<1>2. RateHolds(s) /\ Paid(q, m2)
  BY AskedPaid DEF Asks, MeterInv
<1>3. ASSUME NEW i \in Seen(q), NEW j \in Seen(q), i <= j
      PROVE  Cost * Count(q, i, j) <= Allowed(q, i, j)
  <2>1. CASE j \in Seen(s)
    <3>1. i \in Seen(s) /\ i \in 1 .. n /\ j \in 1 .. n
      BY <1>1, <1>3, <2>1
    <3>2. Count(q, i, j) = Count(s, i, j) /\ q[i] = s[i] /\ q[j] = s[j]
      BY <1>1, <3>1, CountIs
    <3>3. Allowed(q, i, j) = Allowed(s, i, j)
      BY <3>2 DEF Allowed
    <3> QED BY <1>2, <1>3, <2>1, <3>1, <3>2, <3>3 DEF RateHolds
  <2>2. CASE j = n + 1
    <3>1. PICK a, c : a = q[i].at /\ c = Count(q, i, j)
      OBVIOUS
    <3>2. a \in Nat /\ a <= t /\ c \in Nat
      <4>1. CASE i \in 1 .. n
        <5>1. n \in 1 .. n /\ Count(s, i, n) \in Nat /\ Count(q, i, n + 1) \in Nat
          <6>1. n \in 1 .. n  BY <1>1, <4>1
          <6>2. Count(s, i, n) \in Nat  BY <1>1, <4>1, <6>1, CountIs
          <6>3. Count(q, i, n + 1) = Count(s, i, n) + (IF Passes(e) THEN 1 ELSE 0)
            BY <1>1, <4>1, CountIs
          <6> QED BY <6>1, <6>2, <6>3
        <5> QED BY <1>1, <2>2, <3>1, <4>1, <5>1
      <4>2. CASE i = n + 1
        <5>1. Count(q, n + 1, n + 1) \in Nat
          <6>1. Count(q, n + 1, n + 1) = IF Passes(e) THEN 1 ELSE 0
            BY <1>1, CountIs
          <6> QED BY <6>1
        <5> QED BY <1>1, <2>2, <3>1, <4>2, <5>1
      <4> QED BY <1>1, <4>1, <4>2
    <3>3. Allowed(q, i, j) = Cost * Burst + Rate * (t - a)
      BY <1>1, <2>2, <3>1 DEF Allowed
    <3>4. PICK b, x, y, z, w :
            /\ b = Cost * Burst /\ x = Rate * (t - a) /\ y = Rate * (t - m2.last)
            /\ z = Rate * (m2.last - a) /\ w = Cost * c
      OBVIOUS
    <3>5. /\ x = y + z /\ x \in Int /\ y \in Int /\ z \in Int /\ y >= 0 /\ x >= 0
      <4>1. t \in Int /\ a \in Int /\ m2.last \in Int /\ m2.last <= t /\ a <= t
        BY <1>1, <3>2
      <4>2. /\ Rate * (t - a) = Rate * (t - m2.last) + Rate * (m2.last - a)
            /\ Rate * (t - a) \in Int /\ Rate * (t - m2.last) \in Int /\ Rate * (m2.last - a) \in Int
        BY <4>1, RateAdds
      <4>3. Rate * (t - m2.last) >= 0
        BY <4>1, RateAdds
      <4>4. Rate * (t - a) >= 0
        BY <4>1, RateAdds
      <4> QED BY <3>4, <4>2, <4>3, <4>4
    <3>6. b \in Nat /\ w \in Nat
      BY <3>2, <3>4, BurstIs
    <3>7. CASE a <= m2.last
      <4>1. Spent(q, m2, i) <= Earned(q, m2, i)
        BY <1>2, <3>1, <3>7 DEF Paid
      <4>2. w + m2.tokens <= b + z
        BY <1>1, <2>2, <3>1, <3>4, <4>1 DEF Spent, Earned
      <4>3. w <= b + x
        BY <1>1, <3>5, <3>6, <4>2
      <4> QED BY <3>1, <3>3, <3>4, <4>3
    <3>8. CASE a > m2.last
      <4>1. Served(q, i, n + 1) = {}
        BY <1>1, <1>2, <3>1, <3>8 DEF Paid
      <4>2. c = 0
        BY <2>2, <3>1, <4>1, FS_EmptySet DEF Count
      <4>3. w = 0
        BY <3>4, <4>2, BurstIs
      <4>4. w <= b + x
        BY <3>5, <3>6, <4>3
      <4> QED BY <3>1, <3>3, <3>4, <4>4
    <3> QED BY <1>1, <3>2, <3>7, <3>8
  <2> QED BY <1>1, <2>1, <2>2
<1> QED BY <1>3 DEF RateHolds

LEMMA AskedExact ==
  ASSUME NEW s, NEW m, NEW t, NEW e, NEW q, NEW n, NEW m2, Asks(s, m, t, e, q, n, m2)
  PROVE  Exact(q, m2)
<1>1. /\ n \in Nat /\ Len(q) = n + 1 /\ Len(s) = n /\ q[n + 1].at = t /\ t \in Nat
      /\ \A i \in 1 .. n : q[i] = s[i] /\ s[i].at \in Nat
      /\ Seen(s) \subseteq 1 .. n /\ Seen(s) \subseteq Seen(q)
      /\ \A i \in Seen(q) : i \in Seen(s) \/ (i = n + 1 /\ Limits(e))
      /\ Limits(e) => n + 1 \in Seen(q)
      /\ Extended(s, e, q, n) /\ m \in Meter /\ InTime(s, m, t)
      /\ Still(m, t, e, m2) \/ Moves(m, t, e, m2)
  BY AskedIs
<1>2. Exact(s, m)
  BY DEF Asks, MeterInv
<1>3. m.tokens \in Nat /\ m.last \in Nat /\ m.last <= t
  BY <1>1 DEF Meter, InTime
<1>4. PICK p : p = IF Passes(e) THEN 1 ELSE 0
  OBVIOUS
<1>5. /\ \A i \in 1 .. n : Count(s, i, n) \in Nat /\ Count(q, i, n + 1) = Count(s, i, n) + p
      /\ Count(q, n + 1, n + 1) = p
  <2>1. \A i \in 1 .. n : n \in 1 .. n  BY <1>1
  <2> QED BY <1>1, <1>4, <2>1, CountIs
<1>6. CASE Still(m, t, e, m2)
  <2>1. m2 = m /\ p = 0
    <3>1. Limits(e) => e.status = 429  BY <1>6 DEF Still
    <3>2. ~ Passes(e)  BY <3>1 DEF Passes
    <3> QED BY <1>4, <1>6, <3>2 DEF Still
  <2>2. CASE Seen(s) = {} /\ m = NewMeter
    <3>1. m.until = 0  BY <2>2 DEF NewMeter
    <3>2. ~ Limits(e)  BY <1>1, <1>6, <3>1 DEF Still
    <3>3. Seen(q) = {}  BY <1>1, <2>2, <3>2
    <3> QED BY <2>1, <2>2, <3>3 DEF Exact
  <2>3. CASE \E i \in Seen(s) : s[i].at <= m.last /\ Spent(s, m, i) = Earned(s, m, i)
    <3>1. PICK i \in Seen(s) : s[i].at <= m.last /\ Spent(s, m, i) = Earned(s, m, i)
      BY <2>3
    <3>2. i \in Seen(q) /\ i \in 1 .. n /\ q[i] = s[i] /\ Count(q, i, n + 1) = Count(s, i, n)
      BY <1>1, <1>5, <2>1
    <3>3. Spent(q, m, i) = Spent(s, m, i) /\ Earned(q, m, i) = Earned(s, m, i)
      BY <1>1, <3>2 DEF Spent, Earned
    <3> QED BY <2>1, <3>1, <3>2, <3>3 DEF Exact
  <2> QED BY <1>2, <2>2, <2>3 DEF Exact
<1>7. CASE Moves(m, t, e, m2)
  <2>1. PICK r \in Nat :
          /\ r <= Cost * Burst
          /\ r = Cost * Burst \/ r = m.tokens + Rate * (t - m.last)
          /\ m2.last = t /\ m2.tokens \in Nat
          /\ (p = 1 /\ m2.tokens = r - Cost) \/ (p = 0 /\ m2.tokens = r)
    BY <1>1, <1>4, <1>7, MovesIs
  <2>2. n + 1 \in Seen(q)
    BY <1>1, <1>7 DEF Moves
  <2>3. Cost \in Nat /\ Cost * Burst \in Nat /\ Rate \in Nat
    BY BurstIs
  <2>4. CASE r = Cost * Burst
    <3>1. Spent(q, m2, n + 1) = Cost * p + m2.tokens
      BY <1>1, <1>5 DEF Spent
    <3>2. Cost * p + m2.tokens = r
      BY <2>1, <2>3
    <3>3. Earned(q, m2, n + 1) = Cost * Burst + Rate * (t - t) /\ q[n + 1].at <= m2.last
      BY <1>1, <2>1 DEF Earned
    <3>4. Rate * (t - t) = 0
      BY <1>1, <2>3
    <3>5. Spent(q, m2, n + 1) = Earned(q, m2, n + 1)
      BY <2>3, <2>4, <3>1, <3>2, <3>3, <3>4
    <3> QED BY <2>2, <3>3, <3>5 DEF Exact
  <2>5. CASE r # Cost * Burst
    <3>1. r = m.tokens + Rate * (t - m.last)
      BY <2>1, <2>5
    <3>2. m # NewMeter
      <4>1. SUFFICES ASSUME m = NewMeter PROVE FALSE
        OBVIOUS
      <4>2. m.tokens = Cost * Burst  BY <4>1 DEF NewMeter
      <4>3. Rate * (t - m.last) \in Int /\ Rate * (t - m.last) >= 0
        <5>1. t \in Int /\ m.last \in Int /\ 0 \in Int /\ m.last <= t  BY <1>1, <1>3
        <5> QED BY <5>1, RateAdds
      <4>4. PICK b, x : b = Cost * Burst /\ x = Rate * (t - m.last)
        OBVIOUS
      <4>5. r = b + x /\ x \in Int /\ x >= 0 /\ b \in Nat /\ r <= b /\ r # b
        BY <2>1, <2>3, <2>5, <3>1, <4>2, <4>3, <4>4
      <4> QED BY <4>5
    <3>3. PICK i \in Seen(s) : s[i].at <= m.last /\ Spent(s, m, i) = Earned(s, m, i)
      BY <1>2, <3>2 DEF Exact
    <3>4. i \in 1 .. n /\ i \in Seen(q) /\ q[i] = s[i]
      BY <1>1
    <3>5. PICK c, a : c = Count(s, i, n) /\ a = s[i].at
      OBVIOUS
    <3>6. c \in Nat /\ a \in Nat /\ a <= m.last /\ a <= t /\ q[i].at = a
      BY <1>1, <1>3, <1>5, <3>3, <3>4, <3>5
    <3>7. Count(q, i, Len(q)) = c + p
      BY <1>1, <1>5, <3>4, <3>5
    <3>8. Spent(q, m2, i) = Cost * (c + p) + m2.tokens /\ Earned(q, m2, i) = Cost * Burst + Rate * (t - a)
      BY <2>1, <3>6, <3>7 DEF Spent, Earned
    <3>9. Cost * (c + p) + m2.tokens = Cost * c + r
      <4>1. CASE p = 1 /\ m2.tokens = r - Cost
        <5>1. Cost * (c + 1) = Cost * c + Cost /\ Cost * c \in Nat  BY <2>3, <3>6
        <5> QED BY <2>3, <4>1, <5>1
      <4>2. CASE p = 0 /\ m2.tokens = r  BY <3>6, <4>2
      <4> QED BY <2>1, <4>1, <4>2
    <3>10. Cost * c + m.tokens = Cost * Burst + Rate * (m.last - a)
      BY <1>1, <3>3, <3>5 DEF Spent, Earned
    <3>11. PICK b, x, y, z, w :
             /\ b = Cost * Burst /\ x = Rate * (t - a) /\ y = Rate * (t - m.last)
             /\ z = Rate * (m.last - a) /\ w = Cost * c
      OBVIOUS
    <3>12. x = y + z /\ x \in Int /\ y \in Int /\ z \in Int
      <4>1. t \in Int /\ a \in Int /\ m.last \in Int  BY <1>1, <1>3, <3>6
      <4>2. /\ Rate * (t - a) = Rate * (t - m.last) + Rate * (m.last - a)
            /\ Rate * (t - a) \in Int /\ Rate * (t - m.last) \in Int /\ Rate * (m.last - a) \in Int
        BY <4>1, RateAdds
      <4> QED BY <3>11, <4>2
    <3>13. b \in Nat /\ w \in Nat
      BY <2>3, <3>6, <3>11
    <3>14. w + m.tokens = b + z /\ r = m.tokens + y
      BY <3>1, <3>10, <3>11
    <3>15. w + r = b + x
      BY <1>3, <3>12, <3>13, <3>14
    <3>16. Spent(q, m2, i) = Earned(q, m2, i) /\ q[i].at <= m2.last
      BY <2>1, <3>6, <3>8, <3>9, <3>11, <3>15
    <3> QED BY <3>4, <3>16 DEF Exact
  <2> QED BY <2>4, <2>5
<1> QED BY <1>1, <1>6, <1>7

\* What overran before did so still, and so does a request that is refused for
\* what is in the bucket.
LEMMA OverranKept ==
  ASSUME NEW s, NEW e, NEW q, NEW n, Extended(s, e, q, n), NEW k \in 1 .. n, Overran(s, k)
  PROVE  Overran(q, k)
<1>1. PICK i \in Seen(s) : i < k /\ Cost * (Cardinality(Served(s, i, k)) + 1) > Allowed(s, i, k)
  BY DEF Overran
<1>2. i \in 1 .. n /\ i \in Seen(q)
  BY DEF Extended
<1>3. Served(q, i, k) = Served(s, i, k) /\ q[i] = s[i] /\ q[k] = s[k]
  BY <1>2 DEF Extended
<1>4. Allowed(q, i, k) = Allowed(s, i, k)
  BY <1>3 DEF Allowed
<1> QED BY <1>1, <1>2, <1>3, <1>4 DEF Overran

LEMMA AskedOverran ==
  ASSUME NEW s, NEW m, NEW t, NEW e, NEW q, NEW n, NEW m2, Asks(s, m, t, e, q, n, m2),
         Moves(m, t, e, m2), e.status = 429
  PROVE  Overran(q, n + 1)
<1>1. /\ n \in Nat /\ Len(q) = n + 1 /\ q[n + 1].at = t /\ t \in Nat
      /\ Seen(s) \subseteq 1 .. n
      /\ \A i \in Seen(q) : i \in Seen(s) \/ i = n + 1
      /\ \A i \in 1 .. n : q[i] = s[i] /\ s[i].at \in Nat
      /\ Limits(e) => n + 1 \in Seen(q)
      /\ Extended(s, e, q, n) /\ m \in Meter /\ InTime(s, m, t)
  BY AskedIs
<1>2. PICK r \in Nat : r < Cost /\ m2.tokens = r /\ m2.last = t
  BY <1>1, MovesIs
<1>3. ~ Passes(e) /\ n + 1 \in Seen(q)
  BY <1>1 DEF Passes, Moves
<1>4. PICK i \in Seen(q) : q[i].at <= m2.last /\ Spent(q, m2, i) = Earned(q, m2, i)
  BY <1>3, AskedExact DEF Exact
<1>5. PICK c, a : c = Count(q, i, n + 1) /\ a = q[i].at
  OBVIOUS
<1>6. Cost * c + r = Cost * Burst + Rate * (t - a)
  BY <1>1, <1>2, <1>4, <1>5 DEF Spent, Earned
<1>7. Cost \in Nat /\ Cost <= Cost * Burst /\ Cost * Burst \in Nat /\ Rate \in Nat
  BY BurstIs
<1>8. i \in 1 .. n
  <2>1. SUFFICES ASSUME i = n + 1 PROVE FALSE
    BY <1>1
  <2>2. c = 0 /\ a = t
    <3>1. Count(q, n + 1, n + 1) = IF Passes(e) THEN 1 ELSE 0  BY <1>1, CountIs
    <3> QED BY <1>1, <1>3, <1>5, <2>1, <3>1
  <2>3. Cost * c = 0 /\ Rate * (t - a) = 0
    BY <1>1, <1>7, <2>2
  <2> QED BY <1>2, <1>6, <1>7, <2>3
<1>9. c \in Nat /\ i < n + 1 /\ a \in Nat
  <2>1. n \in 1 .. n  BY <1>1, <1>8
  <2>2. Count(s, i, n) \in Nat /\ Count(q, i, n + 1) = Count(s, i, n) + (IF Passes(e) THEN 1 ELSE 0)
    BY <1>1, <1>8, <2>1, CountIs
  <2> QED BY <1>1, <1>3, <1>5, <1>8, <2>2
<1>10. Allowed(q, i, n + 1) = Cost * Burst + Rate * (t - a)
  BY <1>1, <1>5 DEF Allowed
<1>11. Cost * (c + 1) > Cost * Burst + Rate * (t - a)
  <2>1. PICK w, x : w = Cost * c /\ x = Cost * Burst + Rate * (t - a)
    OBVIOUS
  <2>2. Cost * (c + 1) = w + Cost /\ w \in Nat
    BY <1>7, <1>9, <2>1
  <2>3. w + r = x  BY <1>6, <2>1
  <2>4. w + Cost > x  BY <1>2, <1>7, <2>2, <2>3
  <2> QED BY <2>1, <2>2, <2>4
<1> QED BY <1>4, <1>5, <1>9, <1>10, <1>11 DEF Overran, Count

LEMMA AskedJustified ==
  ASSUME NEW s, NEW m, NEW t, NEW e, NEW q, NEW n, NEW m2, Asks(s, m, t, e, q, n, m2)
  PROVE  Justified(q, m2)
<1>1. /\ n \in Nat /\ q[n + 1].at = t /\ \A i \in 1 .. n : q[i] = s[i]
      /\ Seen(s) \subseteq 1 .. n /\ Refused(s) \subseteq Seen(s) /\ Refused(s) \subseteq Refused(q)
      /\ Limits(e) /\ e.status = 429 => n + 1 \in Refused(q)
      /\ Extended(s, e, q, n) /\ m \in Meter /\ InTime(s, m, t) /\ t \in Nat
      /\ Still(m, t, e, m2) \/ Moves(m, t, e, m2)
  BY AskedIs
<1>2. Justified(s, m)
  BY DEF Asks, MeterInv
<1>3. SUFFICES ASSUME m2.until # 0
               PROVE  \E j \in Refused(q) : Overran(q, j) /\ m2.until = q[j].at + Block
  BY DEF Justified
<1>4. CASE Still(m, t, e, m2)
  <2>1. m2 = m  BY <1>4 DEF Still
  <2>2. PICK j \in Refused(s) : Overran(s, j) /\ m.until = s[j].at + Block
    BY <1>2, <1>3, <2>1 DEF Justified
  <2>3. j \in 1 .. n /\ j \in Refused(q) /\ q[j] = s[j]
    BY <1>1
  <2>4. Overran(q, j)
    BY <1>1, <2>2, <2>3, OverranKept
  <2> QED BY <2>1, <2>2, <2>3, <2>4
<1>5. CASE Moves(m, t, e, m2)
  <2>1. e.status = 429 /\ m2.until = t + Block /\ Limits(e)
    BY <1>3, <1>5 DEF Moves
  <2>2. Overran(q, n + 1)
    BY <1>5, <2>1, AskedOverran
  <2> QED BY <1>1, <2>1, <2>2
<1> QED BY <1>1, <1>4, <1>5

\* A client that is refused while it is blocked has an earlier request to thank.
LEMMA BlockedIs ==
  ASSUME NEW s, NEW m, NEW t, NEW e, NEW q, NEW n, NEW m2, Asks(s, m, t, e, q, n, m2),
         Still(m, t, e, m2), Limits(e)
  PROVE  \E j \in Refused(s) : Overran(s, j) /\ Within(q, n + 1, j)
<1>1. /\ n \in Nat /\ q[n + 1].at = t /\ t \in Nat /\ \A i \in 1 .. n : q[i] = s[i]
      /\ Seen(s) \subseteq 1 .. n /\ Refused(s) \subseteq Seen(s) /\ m \in Meter
  BY AskedIs
<1>2. t < m.until /\ m.until # 0
  <2>1. t < m.until  BY DEF Still
  <2>2. m.until \in Nat  BY <1>1 DEF Meter
  <2> QED BY <1>1, <2>1, <2>2
<1>3. PICK j \in Refused(s) : Overran(s, j) /\ m.until = s[j].at + Block
  BY <1>2 DEF Asks, MeterInv, Justified
<1>4. j \in 1 .. n /\ j < n + 1 /\ q[j] = s[j]
  BY <1>1
<1> QED BY <1>1, <1>2, <1>3, <1>4 DEF Within

LEMMA AskedCause ==
  ASSUME NEW s, NEW m, NEW t, NEW e, NEW q, NEW n, NEW m2, Asks(s, m, t, e, q, n, m2)
  PROVE  CauseHolds(q)
<1>1. /\ n \in Nat /\ \A i \in 1 .. n : q[i] = s[i]
      /\ Seen(s) \subseteq 1 .. n /\ Refused(s) \subseteq Seen(s) /\ Refused(s) \subseteq Refused(q)
      /\ \A i \in Refused(q) : i \in Refused(s) \/ (i = n + 1 /\ Limits(e) /\ e.status = 429)
      /\ Extended(s, e, q, n)
      /\ Still(m, t, e, m2) \/ Moves(m, t, e, m2)
  BY AskedIs
<1>2. CauseHolds(s)
  BY DEF Asks, MeterInv
<1>3. ASSUME NEW k \in Refused(q)
      PROVE  \E j \in Refused(q) : (j = k \/ Within(q, k, j)) /\ Overran(q, j)
  <2>1. CASE k \in Refused(s)
    <3>1. PICK j \in Refused(s) : (j = k \/ Within(s, k, j)) /\ Overran(s, j)
      BY <1>2, <2>1 DEF CauseHolds
    <3>2. j \in 1 .. n /\ k \in 1 .. n /\ q[j] = s[j] /\ q[k] = s[k] /\ j \in Refused(q)
      BY <1>1, <2>1
    <3>3. Overran(q, j)
      BY <1>1, <3>1, <3>2, OverranKept
    <3>4. j = k \/ Within(q, k, j)
      BY <3>1, <3>2 DEF Within
    <3> QED BY <3>2, <3>3, <3>4
  <2>2. CASE k = n + 1 /\ Limits(e) /\ e.status = 429
    <3>1. CASE Moves(m, t, e, m2)
      <4>1. Overran(q, n + 1)  BY <2>2, <3>1, AskedOverran
      <4> QED BY <2>2, <4>1
    <3>2. CASE Still(m, t, e, m2)
      <4>1. PICK j \in Refused(s) : Overran(s, j) /\ Within(q, n + 1, j)
        BY <2>2, <3>2, BlockedIs
      <4>2. Overran(q, j) /\ j \in Refused(q)
        <5>1. j \in 1 .. n /\ j \in Refused(q)  BY <1>1
        <5>2. Overran(q, j)  BY <1>1, <4>1, <5>1, OverranKept
        <5> QED BY <5>1, <5>2
      <4> QED BY <2>2, <4>1, <4>2
    <3> QED BY <1>1, <3>1, <3>2
  <2> QED BY <1>1, <2>1, <2>2
<1> QED BY <1>3 DEF CauseHolds

\* The refusals that start a block, and what comes within it.
Starts(s, j) == j \in Refused(s) /\ \A i \in Refused(s) : ~ Within(s, j, i)

LEMMA StartsKept ==
  ASSUME NEW s, NEW m, NEW t, NEW e, NEW q, NEW n, NEW m2, Asks(s, m, t, e, q, n, m2),
         NEW j, Starts(q, j)
  PROVE  \/ Starts(s, j) /\ j \in 1 .. n /\ q[j] = s[j]
         \/ j = n + 1 /\ Moves(m, t, e, m2) /\ e.status = 429
<1>1. /\ n \in Nat /\ \A i \in 1 .. n : q[i] = s[i]
      /\ Seen(s) \subseteq 1 .. n /\ Refused(s) \subseteq Seen(s) /\ Refused(s) \subseteq Refused(q)
      /\ \A i \in Refused(q) : i \in Refused(s) \/ (i = n + 1 /\ Limits(e) /\ e.status = 429)
      /\ Still(m, t, e, m2) \/ Moves(m, t, e, m2)
  BY AskedIs
<1>2. j \in Refused(q) /\ \A i \in Refused(q) : ~ Within(q, j, i)
  BY DEF Starts
<1>3. CASE j \in Refused(s)
  <2>1. j \in 1 .. n /\ q[j] = s[j]
    BY <1>1, <1>3
  <2>2. ASSUME NEW i \in Refused(s) PROVE ~ Within(s, j, i)
    <3>1. i \in Refused(q) /\ q[i] = s[i]  BY <1>1
    <3>2. ~ Within(q, j, i)  BY <1>2, <3>1
    <3> QED BY <2>1, <3>1, <3>2 DEF Within
  <2> QED BY <1>3, <2>1, <2>2 DEF Starts
<1>4. CASE j = n + 1 /\ Limits(e) /\ e.status = 429
  <2>1. CASE Still(m, t, e, m2)
    <3>1. \E i \in Refused(s) : Within(q, n + 1, i)
      BY <1>4, <2>1, BlockedIs
    <3> QED BY <1>1, <1>2, <1>4, <3>1
  <2> QED BY <1>1, <1>4, <2>1
<1> QED BY <1>1, <1>2, <1>3, <1>4

LEMMA AskedLasting ==
  ASSUME NEW s, NEW m, NEW t, NEW e, NEW q, NEW n, NEW m2, Asks(s, m, t, e, q, n, m2)
  PROVE  Lasting(q, m2)
<1>1. /\ n \in Nat /\ t \in Nat /\ q[n + 1].at = t /\ \A i \in 1 .. n : s[i].at \in Nat
      /\ m \in Meter /\ InTime(s, m, t)
      /\ Still(m, t, e, m2) \/ Moves(m, t, e, m2)
  BY AskedIs
<1>2. m.until \in Nat /\ m.last \in Nat /\ m.last <= t /\ Block \in Nat
  BY <1>1, BurstIs DEF Meter, InTime
<1>3. ASSUME NEW j, Starts(q, j)
      PROVE  q[j].at + Block <= m2.until \/ q[j].at + Block <= m2.last
  <2>1. CASE Starts(s, j) /\ j \in 1 .. n /\ q[j] = s[j]
    <3>1. s[j].at + Block <= m.until \/ s[j].at + Block <= m.last
      BY <2>1 DEF Asks, MeterInv, Lasting, Starts
    <3>2. CASE Still(m, t, e, m2)
      BY <2>1, <3>1, <3>2 DEF Still
    <3>3. CASE Moves(m, t, e, m2)
      <4>1. m.until <= t /\ m2.last = t
        BY <1>1, <1>2, <3>3 DEF Moves
      <4>2. s[j].at \in Nat  BY <1>1, <2>1
      <4> QED BY <1>1, <1>2, <2>1, <3>1, <4>1, <4>2
    <3> QED BY <1>1, <3>2, <3>3
  <2>2. CASE j = n + 1 /\ Moves(m, t, e, m2) /\ e.status = 429
    <3>1. m2.until = t + Block  BY <2>2 DEF Moves
    <3> QED BY <1>1, <1>2, <2>2, <3>1
  <2> QED BY <1>3, <2>1, <2>2, StartsKept
<1> QED BY <1>3 DEF Lasting, Starts

LEMMA AskedBlocks ==
  ASSUME NEW s, NEW m, NEW t, NEW e, NEW q, NEW n, NEW m2, Asks(s, m, t, e, q, n, m2)
  PROVE  BlocksHold(q)
<1>1. /\ n \in Nat /\ t \in Nat /\ q[n + 1].at = t
      /\ \A i \in 1 .. n : q[i] = s[i] /\ s[i].at \in Nat
      /\ Seen(s) \subseteq 1 .. n /\ Refused(s) \subseteq Refused(q)
      /\ \A i \in Seen(q) : i \in Seen(s) \/ (i = n + 1 /\ Limits(e))
      /\ Limits(e) /\ e.status = 429 => n + 1 \in Refused(q)
      /\ m \in Meter /\ InTime(s, m, t)
      /\ Still(m, t, e, m2) \/ Moves(m, t, e, m2)
  BY AskedIs
<1>2. m.until \in Nat /\ m.last \in Nat /\ m.last <= t /\ Block \in Nat
  BY <1>1, BurstIs DEF Meter, InTime
<1>3. ASSUME NEW j, Starts(q, j), NEW k \in Seen(q), Within(q, k, j)
      PROVE  k \in Refused(q)
  <2>1. CASE Starts(s, j) /\ j \in 1 .. n /\ q[j] = s[j]
    <3>1. CASE k \in Seen(s)
      <4>1. Within(s, k, j)
        BY <1>1, <1>3, <2>1, <3>1 DEF Within
      <4>2. k \in Refused(s)
        BY <2>1, <3>1, <4>1 DEF Asks, MeterInv, BlocksHold, Starts
      <4> QED BY <1>1, <4>2
    <3>2. CASE k = n + 1 /\ Limits(e)
      <4>1. s[j].at + Block <= m.until \/ s[j].at + Block <= m.last
        BY <2>1 DEF Asks, MeterInv, Lasting, Starts
      <4>2. t < s[j].at + Block
        BY <1>1, <1>3, <2>1, <3>2 DEF Within
      <4>3. s[j].at \in Nat  BY <1>1, <2>1
      <4>4. t < m.until
        BY <1>1, <1>2, <4>1, <4>2, <4>3
      <4>5. Still(m, t, e, m2)
        BY <1>1, <4>4 DEF Moves
      <4> QED BY <1>1, <3>2, <4>5 DEF Still
    <3> QED BY <1>1, <3>1, <3>2
  <2>2. CASE j = n + 1
    <3>1. k \in 1 .. n \/ k = n + 1  BY <1>1
    <3> QED BY <1>1, <1>3, <2>2, <3>1 DEF Within
  <2> QED BY <1>3, <2>1, <2>2, StartsKept
<1> QED BY <1>3 DEF BlocksHold, Starts

LEMMA AskedKeeps ==
  ASSUME NEW s, NEW m, NEW t, NEW e, NEW q, NEW n, NEW m2, Asks(s, m, t, e, q, n, m2)
  PROVE  MeterInv(q, m2, t)
BY AskedInTime, AskedPaid, AskedExact, AskedJustified, AskedLasting, AskedRate, AskedCause,
   AskedBlocks DEF MeterInv

-----------------------------------------------------------------------------
(***************************************************************************)
(* The machine.  A request that is turned away, or for an exempt path,     *)
(* leaves the meter of its client as it is, and one that is counted asks   *)
(* the limit: in each case it is one of the requests above.                *)
(***************************************************************************)
LEMMA CountedAsks ==
  ASSUME NEW m \in Meter, NEW t \in Nat, NEW e, e.status = Limit(m, t).status, ~ e.exempt
  PROVE  /\ Still(m, t, e, Limit(m, t).meter) \/ Moves(m, t, e, Limit(m, t).meter)
         /\ Limit(m, t).status \in {200, 429}
         /\ Limit(m, t).meter.until \in Nat
<1>1. m.tokens \in Int /\ m.last \in Int /\ m.until \in Nat /\ t \in Int
  BY DEF Meter
<1>2. Refilled(m, t) \in Int /\ Cost \in Int /\ Block \in Nat
  BY <1>1, RefilledIs, BurstIs
<1>3. Blocked(m, t) <=> t < m.until
  BY DEF Blocked
<1>4. /\ Blocked(m, t) => Limit(m, t).meter = m /\ Limit(m, t).status = 429
      /\ ~ Blocked(m, t) /\ Refilled(m, t) >= Cost =>
           /\ Limit(m, t).meter = [tokens |-> Refilled(m, t) - Cost, last |-> t, until |-> 0]
           /\ Limit(m, t).status = 200
      /\ ~ Blocked(m, t) /\ Refilled(m, t) < Cost =>
           Limit(m, t).meter = Overrun(m, t) /\ Limit(m, t).status = 429
  BY <1>1, LimitIs
<1>5. CASE t < m.until
  <2>1. Limit(m, t).meter = m /\ Limit(m, t).status = 429
    BY <1>5, <1>3, <1>4
  <2> QED BY <1>1, <1>5, <2>1 DEF Still
<1>6. CASE ~ (t < m.until) /\ Refilled(m, t) >= Cost
  <2>1. /\ Limit(m, t).meter = [tokens |-> Refilled(m, t) - Cost, last |-> t, until |-> 0]
        /\ Limit(m, t).status = 200
    BY <1>6, <1>3, <1>4
  <2> QED BY <1>6, <2>1 DEF Moves, Limits
<1>7. CASE ~ (t < m.until) /\ Refilled(m, t) < Cost
  <2>1. Limit(m, t).meter = Overrun(m, t) /\ Limit(m, t).status = 429
    BY <1>7, <1>3, <1>4
  <2>2. Overrun(m, t) = [tokens |-> Refilled(m, t), last |-> t, until |-> t + Block]
    BY DEF Overrun
  <2>3. t + Block \in Nat
    BY <1>2
  <2> QED BY <1>7, <2>1, <2>2, <2>3 DEF Moves, Limits
<1> QED BY <1>2, <1>5, <1>6, <1>7

LEMMA LimitTyped ==
  ASSUME NEW m \in Meter, NEW t \in Nat, m.last <= t
  PROVE  Limit(m, t).meter \in Meter
<1>1. m.tokens \in Nat /\ m.last \in Nat /\ m.until \in Nat
  BY DEF Meter
<1>2. Refilled(m, t) \in Nat /\ Cost \in Nat /\ Block \in Nat
  <2>1. PICK x, b : x = Rate * (t - m.last) /\ b = Cost * Burst
    OBVIOUS
  <2>2. x \in Int /\ x >= 0
    <3>1. t \in Int /\ m.last \in Int /\ 0 \in Int  BY <1>1
    <3> QED BY <2>1, <3>1, RateAdds
  <2>3. b \in Nat /\ Cost \in Nat /\ Block \in Nat  BY <2>1, BurstIs
  <2>4. Refilled(m, t) = IF b < m.tokens + x THEN b ELSE m.tokens + x
    BY <1>1, <2>1, RefilledIs
  <2> QED BY <1>1, <2>2, <2>3, <2>4
<1>3. /\ Blocked(m, t) => Limit(m, t).meter = m
      /\ ~ Blocked(m, t) /\ Refilled(m, t) >= Cost =>
           Limit(m, t).meter = [tokens |-> Refilled(m, t) - Cost, last |-> t, until |-> 0]
      /\ ~ Blocked(m, t) /\ Refilled(m, t) < Cost => Limit(m, t).meter = Overrun(m, t)
  BY <1>1, LimitIs
<1>4. CASE ~ Blocked(m, t) /\ Refilled(m, t) >= Cost
  BY <1>2, <1>3, <1>4 DEF Meter
<1>5. CASE ~ Blocked(m, t) /\ Refilled(m, t) < Cost
  BY <1>2, <1>3, <1>5 DEF Meter, Overrun
<1> QED BY <1>2, <1>3, <1>4, <1>5

Entry(r, status) == [at |-> now, exempt |-> r.exempt, status |-> status]

\* What an answer does to what is remembered of the clients.
LEMMA AnsweredIs ==
  ASSUME IntakeTypeOK, NEW c \in Client, NEW r \in Request, NEW status \in {200, 401, 429},
         Answered(c, r, status)
  PROVE  /\ now' = now /\ config' = config
         /\ asked' \in [Client -> Seq(Reply)]
         /\ Entry(r, status) \in Reply
         /\ asked[c] \in Seq(Reply)
         /\ asked'[c] = Append(asked[c], Entry(r, status))
         /\ \A d \in Client : d # c => asked'[d] = asked[d]
<1>1. now \in Nat /\ asked \in [Client -> Seq(Reply)]
  BY IntakeAssumption DEF IntakeTypeOK, IntakeAssumption
<1>2. Entry(r, status) \in Reply
  BY <1>1, IntakeAssumption DEF IntakeAssumption, Entry, Reply
<1>3. /\ asked' = [asked EXCEPT ![c] = Append(asked[c], Entry(r, status))]
      /\ now' = now /\ config' = config
  BY DEF Answered, Entry
<1>4. Append(asked[c], Entry(r, status)) \in Seq(Reply)
  BY <1>1, <1>2
<1> QED BY <1>1, <1>2, <1>3, <1>4

\* One step: a client asks, or the clock goes on.
Asking(c, e) ==
  /\ c \in Client /\ e \in Reply /\ e.at = now /\ now' = now /\ config' = config
  /\ asked' \in [Client -> Seq(Reply)] /\ asked'[c] = Append(asked[c], e)
  /\ meters' \in [Client -> Meter] /\ meters'[c] = Metered(meters[c], e)
  /\ \A d \in Client : d # c => asked'[d] = asked[d] /\ meters'[d] = meters[d]
  /\ Limits(e) => e.status = Limit(meters[c], now).status
  /\ Still(meters[c], now, e, meters'[c]) \/ Moves(meters[c], now, e, meters'[c])

LEMMA Asked ==
  ASSUME IntakeTypeOK, NEW c \in Client, meters[c].last <= now, NEW r \in Request,
         Unauthorized(c, r) \/ Exempt(c, r) \/ Counted(c, r)
  PROVE  \E e : Asking(c, e)
<1>1. /\ meters \in [Client -> Meter] /\ meters[c] \in Meter /\ now \in Nat
      /\ r.exempt \in BOOLEAN
  BY IntakeAssumption DEF IntakeTypeOK, IntakeAssumption
<1>2. ASSUME NEW status \in {200, 401}, Answered(c, r, status), meters' = meters,
             r.exempt \/ status = 401
      PROVE  Asking(c, Entry(r, status))
  <2>1. /\ Entry(r, status).at = now /\ Entry(r, status).exempt = r.exempt
        /\ Entry(r, status).status = status
    BY DEF Entry
  <2>2. ~ Limits(Entry(r, status)) /\ Metered(meters[c], Entry(r, status)) = meters[c]
    BY <1>2, <2>1 DEF Limits, Metered
  <2>3. Still(meters[c], now, Entry(r, status), meters'[c])
    BY <1>2, <2>2 DEF Still
  <2>4. /\ now' = now /\ config' = config /\ asked' \in [Client -> Seq(Reply)]
        /\ Entry(r, status) \in Reply /\ asked'[c] = Append(asked[c], Entry(r, status))
        /\ \A d \in Client : d # c => asked'[d] = asked[d]
    BY <1>2, AnsweredIs
  <2> QED BY <1>1, <1>2, <2>1, <2>2, <2>3, <2>4 DEF Asking
<1>3. CASE Unauthorized(c, r)
  BY <1>2, <1>3 DEF Unauthorized
<1>4. CASE Exempt(c, r)
  BY <1>2, <1>4 DEF Exempt
<1>5. CASE Counted(c, r)
  <2>1. PICK lim, e : lim = Limit(meters[c], now) /\ e = Entry(r, lim.status)
    OBVIOUS
  <2>2. /\ e.at = now /\ e.status = lim.status /\ ~ e.exempt
    BY <1>5, <2>1 DEF Entry, Counted
  <2>3. /\ Still(meters[c], now, e, lim.meter) \/ Moves(meters[c], now, e, lim.meter)
        /\ lim.status \in {200, 429} /\ lim.meter.until \in Nat
    BY <1>1, <2>1, <2>2, CountedAsks
  <2>4. meters' = [meters EXCEPT ![c] = lim.meter] /\ Answered(c, r, lim.status)
    BY <1>5, <2>1 DEF Counted, Limited
  <2>5. meters'[c] = lim.meter /\ \A d \in Client : d # c => meters'[d] = meters[d]
    BY <1>1, <2>4
  <2>6. lim.meter \in Meter
    BY <1>1, <2>1, LimitTyped
  <2>7. meters' \in [Client -> Meter]
    BY <1>1, <2>4, <2>6
  <2>8. Metered(meters[c], e) = lim.meter
    <3>1. e.status # 401  BY <2>2, <2>3
    <3> QED BY <2>1, <2>2, <3>1 DEF Metered
  <2>9. /\ now' = now /\ config' = config /\ asked' \in [Client -> Seq(Reply)]
        /\ e \in Reply /\ asked'[c] = Append(asked[c], e)
        /\ \A d \in Client : d # c => asked'[d] = asked[d]
    <3>1. lim.status \in {200, 401, 429}  BY <2>3
    <3> QED BY <2>1, <2>4, <3>1, AnsweredIs
  <2> QED BY <2>1, <2>2, <2>3, <2>5, <2>7, <2>8, <2>9 DEF Asking
<1> QED BY <1>3, <1>4, <1>5

LEMMA IntakeStep ==
  ASSUME IntakeInv, [IntakeNext]_intakeVars
  PROVE  \/ \E c, e : Asking(c, e)
         \/ Tick
         \/ UNCHANGED intakeVars
<1>1. IntakeTypeOK /\ \A c \in Client : meters[c].last <= now
  BY DEF IntakeInv, MeterInv, InTime
<1>2. ASSUME NEW c \in Client, NEW r \in Request,
             Unauthorized(c, r) \/ Exempt(c, r) \/ Counted(c, r)
      PROVE  \E e : Asking(c, e)
  BY <1>1, <1>2, Asked
<1> QED BY <1>2 DEF IntakeNext

LEMMA IntakeStart ==
  ASSUME IntakeInit
  PROVE  IntakeInv
<1>1. now = 0 /\ config \in Config
  BY DEF IntakeInit
<1>2. ASSUME NEW c \in Client PROVE meters[c] = NewMeter /\ asked[c] = <<>>
  BY DEF IntakeInit
<1>3. NewMeter \in Meter /\ NewMeter.tokens = Cost * Burst /\ NewMeter.last = 0 /\ NewMeter.until = 0
  BY BurstIs DEF NewMeter, Meter
<1>4. IntakeTypeOK
  <2>1. <<>> \in Seq(Reply) /\ 0 \in 0 .. MaxTime
    BY IntakeAssumption DEF IntakeAssumption
  <2>2. meters = [c \in Client |-> NewMeter] /\ asked = [c \in Client |-> <<>>]
    BY DEF IntakeInit
  <2>3. meters \in [Client -> Meter]  BY <1>3, <2>2
  <2>4. asked \in [Client -> Seq(Reply)]  BY <2>1, <2>2
  <2> QED BY <1>1, <2>1, <2>3, <2>4 DEF IntakeTypeOK
<1>5. ASSUME NEW s, s = <<>> PROVE MeterInv(s, NewMeter, 0)
  <2>1. DOMAIN s = {}
    BY <1>5
  <2>2. Seen(s) = {} /\ Refused(s) = {}
    BY <2>1 DEF Seen, Refused
  <2>3. InTime(s, NewMeter, 0)
    <3>1. NewMeter.tokens <= Cost * Burst  BY <1>3, BurstIs
    <3> QED BY <1>3, <2>1, <3>1 DEF InTime
  <2>4. Paid(s, NewMeter) /\ Exact(s, NewMeter) /\ Justified(s, NewMeter) /\ Lasting(s, NewMeter)
    BY <1>3, <2>2 DEF Paid, Exact, Justified, Lasting
  <2>5. RateHolds(s) /\ CauseHolds(s) /\ BlocksHold(s)
    BY <2>2 DEF RateHolds, CauseHolds, BlocksHold
  <2> QED BY <2>3, <2>4, <2>5 DEF MeterInv
<1> QED BY <1>1, <1>2, <1>4, <1>5 DEF IntakeInv

LEMMA IntakeKept ==
  ASSUME IntakeInv, [IntakeNext]_intakeVars
  PROVE  IntakeInv'
<1>1. /\ IntakeTypeOK /\ \A c \in Client : MeterInv(asked[c], meters[c], now)
      /\ now \in Nat /\ now \in 0 .. MaxTime /\ config \in Config
      /\ meters \in [Client -> Meter] /\ asked \in [Client -> Seq(Reply)]
  BY IntakeAssumption DEF IntakeInv, IntakeTypeOK, IntakeAssumption
<1>2. ASSUME NEW c, NEW e, Asking(c, e) PROVE IntakeInv'
  <2>1. /\ c \in Client /\ e \in Reply /\ e.at = now /\ now' = now /\ config' = config
        /\ asked' \in [Client -> Seq(Reply)] /\ asked'[c] = Append(asked[c], e)
        /\ meters' \in [Client -> Meter]
        /\ \A d \in Client : d # c => asked'[d] = asked[d] /\ meters'[d] = meters[d]
        /\ Still(meters[c], now, e, meters'[c]) \/ Moves(meters[c], now, e, meters'[c])
    BY <1>2 DEF Asking
  <2>2. IntakeTypeOK'
    BY <1>1, <2>1 DEF IntakeTypeOK
  <2>3. MeterInv(asked'[c], meters'[c], now)
    <3>1. PICK s, q, n : s = asked[c] /\ q = asked'[c] /\ n = Len(s)
      OBVIOUS
    <3>2. s \in Seq(Reply)  BY <1>1, <2>1, <3>1
    <3>3. Extended(s, e, q, n)
      BY <2>1, <3>1, <3>2, AppendExtends
    <3>4. Asks(s, meters[c], now, e, q, n, meters'[c])
      BY <1>1, <2>1, <3>1, <3>3 DEF Asks
    <3> QED BY <3>1, <3>4, AskedKeeps
  <2>4. ASSUME NEW d \in Client PROVE MeterInv(asked'[d], meters'[d], now')
    <3>1. CASE d = c  BY <2>1, <2>3, <3>1
    <3>2. CASE d # c  BY <1>1, <2>1, <3>2
    <3> QED BY <3>1, <3>2
  <2> QED BY <2>2, <2>4 DEF IntakeInv
<1>3. CASE Tick
  <2>1. now' \in 0 .. MaxTime /\ now <= now' /\ now' \in Nat
        /\ config' = config /\ meters' = meters /\ asked' = asked
    BY <1>1, <1>3, IntakeAssumption DEF Tick, IntakeAssumption
  <2>2. ASSUME NEW c \in Client PROVE InTime(asked[c], meters[c], now')
    <3>1. InTime(asked[c], meters[c], now) /\ meters[c] \in Meter /\ asked[c] \in Seq(Reply)
      BY <1>1 DEF MeterInv
    <3>2. meters[c].last \in Nat  BY <3>1 DEF Meter
    <3>3. \A i \in DOMAIN asked[c] : asked[c][i].at \in Nat
      <4>1. \A i \in DOMAIN asked[c] : asked[c][i] \in Reply  BY <3>1
      <4> QED BY <4>1 DEF Reply
    <3> QED BY <1>1, <2>1, <3>1, <3>2, <3>3 DEF InTime
  <2>3. \A c \in Client : MeterInv(asked[c], meters[c], now')
    BY <1>1, <2>2 DEF MeterInv
  <2>4. IntakeTypeOK'
    BY <1>1, <2>1 DEF IntakeTypeOK
  <2> QED BY <2>1, <2>3, <2>4 DEF IntakeInv
<1>4. CASE UNCHANGED intakeVars
  BY <1>1, <1>4 DEF IntakeInv, IntakeTypeOK, intakeVars
<1> QED BY <1>2, <1>3, <1>4, IntakeStep

(* What is kept of a client agrees, after any requests at any times, with   *)
(* the answers it has had (middleware.py:145-215).                          *)
THEOREM IntakeInvariant == IntakeSpec => []IntakeInv
<1>1. IntakeInit => IntakeInv  BY IntakeStart
<1>2. IntakeInv /\ [IntakeNext]_intakeVars => IntakeInv'  BY IntakeKept
<1> QED BY <1>1, <1>2, PTL DEF IntakeSpec

LEMMA RateKept == IntakeInv => WithinRate
BY DEF IntakeInv, MeterInv, RateHolds, WithinRate, Count

LEMMA RefusalsHaveCause == IntakeInv => RefusedForCause
<1>1. SUFFICES ASSUME IntakeInv, NEW c \in Client, NEW k \in Refused(asked[c])
               PROVE  \E j \in Refused(asked[c]) :
                        /\ j <= k
                        /\ j = k \/ asked[c][k].at < asked[c][j].at + Block
                        /\ Overran(asked[c], j)
  BY DEF RefusedForCause
<1>2. PICK j \in Refused(asked[c]) : (j = k \/ Within(asked[c], k, j)) /\ Overran(asked[c], j)
  <2>1. CauseHolds(asked[c])  BY <1>1 DEF IntakeInv, MeterInv
  <2> QED BY <1>1, <2>1 DEF CauseHolds
<1>3. j \in Nat /\ k \in Nat
  <2>1. asked \in [Client -> Seq(Reply)]  BY <1>1 DEF IntakeInv, IntakeTypeOK
  <2>2. asked[c] \in Seq(Reply)  BY <1>1, <2>1
  <2>3. \A i \in DOMAIN asked[c] : i \in Nat  BY <2>2
  <2> QED BY <1>1, <1>2, <2>3 DEF Refused, Seen
<1> QED BY <1>2, <1>3 DEF Within

LEMMA BlocksAreKept == IntakeInv => BlockHolds
BY DEF IntakeInv, MeterInv, BlocksHold, BlockHolds, Within

-----------------------------------------------------------------------------
\* A bucket, whatever it was filled with.
Gauge == [tokens : Int, last : Nat, until : Nat]

\* The rounds in which a meter follows the answers.
LEMMA MeterRun ==
  ASSUME NEW s \in Seq(Reply)
  PROVE  \E r : /\ r[0] = NewMeter
                /\ \A i \in 1 .. Len(s) : r[i] = Metered(r[i - 1], s[i])
                /\ MeterAfter(s) = r[Len(s)]
<1> DEFINE n == Len(s)
           f == [x \in Gauge \X Reply |-> Metered(x[1], x[2])]
           Rounds(r) == r = [i \in 0 .. n |-> IF i = 0 THEN NewMeter ELSE Metered(r[i - 1], s[i])]
           after == CHOOSE r : Rounds(r)
<1>1. n \in Nat /\ NewMeter \in Gauge /\ \A i \in 1 .. n : s[i] \in Reply
  BY BurstIs DEF NewMeter, Gauge
<1>2. ASSUME NEW a \in Gauge, NEW b \in Reply PROVE Metered(a, b) \in Gauge
  <2>1. b.at \in Nat /\ a.tokens \in Int /\ a.last \in Nat /\ a.until \in Nat
    BY DEF Reply, Gauge
  <2>2. Refilled(a, b.at) \in Int /\ Cost \in Nat /\ Block \in Nat
    <3>1. a.tokens \in Int /\ a.last \in Int /\ b.at \in Int  BY <2>1
    <3>2. Refilled(a, b.at) \in Int  BY <3>1, RefilledIs
    <3> QED BY <3>2, BurstIs
  <2>3. /\ Blocked(a, b.at) => Limit(a, b.at).meter = a
        /\ ~ Blocked(a, b.at) /\ Refilled(a, b.at) >= Cost =>
             Limit(a, b.at).meter = [tokens |-> Refilled(a, b.at) - Cost, last |-> b.at, until |-> 0]
        /\ ~ Blocked(a, b.at) /\ Refilled(a, b.at) < Cost => Limit(a, b.at).meter = Overrun(a, b.at)
    BY <2>1, LimitIs
  <2>4. Overrun(a, b.at) = [tokens |-> Refilled(a, b.at), last |-> b.at, until |-> b.at + Block]
    BY DEF Overrun
  <2>5. CASE ~ Blocked(a, b.at) /\ Refilled(a, b.at) >= Cost
    BY <2>1, <2>2, <2>3, <2>5 DEF Gauge, Metered
  <2>6. CASE ~ Blocked(a, b.at) /\ Refilled(a, b.at) < Cost
    BY <2>1, <2>2, <2>3, <2>4, <2>6 DEF Gauge, Metered
  <2>7. CASE Blocked(a, b.at)
    BY <2>3, <2>7 DEF Metered
  <2> QED BY <2>2, <2>5, <2>6, <2>7
<1>3. IsBody(f, Gauge, Reply)
  BY <1>2 DEF IsBody
<1>4. MeterAfter(s) = after[n]
  BY DEF MeterAfter, Along
<1>5. \E r : Rounds(r)
  <2>1. HasRun(f, Gauge, NewMeter, s)
    <3> HIDE DEF f
    <3> QED BY <1>1, <1>3, RunExists
  <2>2. PICK r \in [0 .. n -> Gauge] : r[0] = NewMeter /\ \A i \in 1 .. n : r[i] = f[<<r[i - 1], s[i]>>]
    <3> HIDE DEF f
    <3> QED BY <2>1 DEF HasRun
  <2>3. ASSUME NEW i \in 1 .. n PROVE r[i] = Metered(r[i - 1], s[i])
    <3>1. i - 1 \in 0 .. n /\ s[i] \in Reply  BY <1>1
    <3>2. <<r[i - 1], s[i]>> \in Gauge \X Reply  BY <2>2, <3>1
    <3> QED BY <2>2, <3>2
  <2>4. Rounds(r)
    BY <1>1, <2>2, <2>3
  <2> QED BY <2>4
<1>6. Rounds(after)
  <2> HIDE DEF Rounds
  <2> QED BY <1>5
<1>7. after[0] = NewMeter /\ \A i \in 1 .. n : after[i] = Metered(after[i - 1], s[i])
  <2>1. 0 \in 0 .. n /\ \A i \in 1 .. n : i \in 0 .. n /\ i # 0  BY <1>1
  <2>2. after = [i \in 0 .. n |-> IF i = 0 THEN NewMeter ELSE Metered(after[i - 1], s[i])]
    BY <1>6
  <2> HIDE DEF after, n
  <2> QED BY <2>1, <2>2
<1> HIDE DEF after
<1> QED BY <1>4, <1>7

\* One answer more is followed from the meter there was before it.
LEMMA MeterGrows ==
  ASSUME NEW s \in Seq(Reply), NEW e \in Reply
  PROVE  MeterAfter(Append(s, e)) = Metered(MeterAfter(s), e)
<1>1. PICK q, k : q = Append(s, e) /\ k = Len(s)
  OBVIOUS
<1>2. k \in Nat /\ q \in Seq(Reply) /\ Len(q) = k + 1 /\ q[k + 1] = e /\ \A i \in 1 .. k : q[i] = s[i]
  BY <1>1
<1>3. PICK r : /\ r[0] = NewMeter /\ \A i \in 1 .. k : r[i] = Metered(r[i - 1], s[i])
               /\ MeterAfter(s) = r[k]
  BY <1>1, MeterRun
<1>4. PICK z : /\ z[0] = NewMeter /\ \A i \in 1 .. k + 1 : z[i] = Metered(z[i - 1], q[i])
               /\ MeterAfter(q) = z[k + 1]
  BY <1>2, MeterRun
<1> DEFINE Same == {i \in 0 .. k : z[i] = r[i]}
<1>5. 0 \in Same
  BY <1>2, <1>3, <1>4
<1>6. ASSUME NEW i \in 1 .. k, i - 1 \in Same PROVE i \in Same
  <2>1. i \in 0 .. k /\ i \in 1 .. k + 1  BY <1>2
  <2>2. z[i] = Metered(z[i - 1], q[i]) /\ r[i] = Metered(r[i - 1], s[i])
    BY <1>3, <1>4, <2>1
  <2>3. z[i - 1] = r[i - 1] /\ q[i] = s[i]  BY <1>2, <1>6
  <2> QED BY <2>1, <2>2, <2>3
<1>7. k \in Same
  <2>1. 0 .. k \subseteq Same
    <3> HIDE DEF Same
    <3> QED BY <1>2, <1>5, <1>6, Induct
  <2> QED BY <1>2, <2>1
<1>8. k + 1 \in 1 .. k + 1 /\ (k + 1) - 1 = k
  BY <1>2
<1> QED BY <1>1, <1>2, <1>3, <1>4, <1>7, <1>8

\* The requests of one client, with the meter they leave.
OwnDecide(s, m) ==
  /\ m = MeterAfter(s)
  /\ \A k \in Seen(s) : s[k].status = Limit(MeterAfter(SubSeq(s, 1, k - 1)), s[k].at).status

LEMMA OwnGrows ==
  ASSUME NEW s \in Seq(Reply), NEW e \in Reply, NEW m, OwnDecide(s, m),
         Limits(e) => e.status = Limit(m, e.at).status
  PROVE  OwnDecide(Append(s, e), Metered(m, e))
<1>1. PICK q, n : q = Append(s, e) /\ n = Len(s)
  OBVIOUS
<1>2. Extended(s, e, q, n)
  BY <1>1, AppendExtends
<1>3. m = MeterAfter(s) /\ MeterAfter(q) = Metered(m, e)
  BY <1>1, MeterGrows DEF OwnDecide
<1>4. ASSUME NEW k \in Seen(q)
      PROVE  q[k].status = Limit(MeterAfter(SubSeq(q, 1, k - 1)), q[k].at).status
  <2>1. k \in Seen(s) \/ (k = n + 1 /\ Limits(e))
    BY <1>2 DEF Extended
  <2>2. CASE k \in Seen(s)
    <3>1. k \in 1 .. n /\ q[k] = s[k] /\ n \in Nat
      BY <1>2, <2>2 DEF Extended
    <3>2. SubSeq(q, 1, k - 1) = SubSeq(s, 1, k - 1)
      BY <1>1, <3>1
    <3> QED BY <2>2, <3>1, <3>2 DEF OwnDecide
  <2>3. CASE k = n + 1 /\ Limits(e)
    <3>1. q[k] = e /\ n \in Nat /\ k - 1 = n
      BY <1>2, <2>3 DEF Extended
    <3>2. SubSeq(q, 1, n) = s
      BY <1>1, <3>1
    <3> QED BY <1>3, <2>3, <3>1, <3>2
  <2> QED BY <2>1, <2>2, <2>3
<1> QED BY <1>1, <1>3, <1>4 DEF OwnDecide

(* A client is served what its rate allows and refused the rest: no stretch *)
(* of its requests is served more, each refusal goes back to a request that *)
(* was one too many, its block is kept to the end, and no other client has  *)
(* a say (middleware.py:145-215).                                           *)
THEOREM RateIsKept == IntakeSpec => []ServedWithinRate
<1> DEFINE Own == \A c \in Client : OwnDecide(asked[c], meters[c])
<1>1. ASSUME IntakeInit PROVE Own
  <2>1. ASSUME NEW c \in Client PROVE OwnDecide(asked[c], meters[c])
    <3>1. PICK s : s = <<>>
      OBVIOUS
    <3>2. s \in Seq(Reply) /\ Len(s) = 0 /\ DOMAIN s = {}
      BY <3>1
    <3>3. meters[c] = NewMeter /\ asked[c] = s
      BY <1>1, <3>1 DEF IntakeInit
    <3>4. MeterAfter(s) = NewMeter
      BY <3>2, MeterRun
    <3>5. Seen(s) = {}
      BY <3>2 DEF Seen
    <3> QED BY <3>3, <3>4, <3>5 DEF OwnDecide
  <2> QED BY <2>1
<1>2. ASSUME IntakeInv, Own, [IntakeNext]_intakeVars PROVE Own'
  <2>1. ASSUME NEW c, NEW e, Asking(c, e) PROVE Own'
    <3>1. /\ c \in Client /\ e \in Reply /\ e.at = now
          /\ asked'[c] = Append(asked[c], e) /\ meters'[c] = Metered(meters[c], e)
          /\ \A d \in Client : d # c => asked'[d] = asked[d] /\ meters'[d] = meters[d]
          /\ Limits(e) => e.status = Limit(meters[c], now).status
      BY <2>1 DEF Asking
    <3>2. asked[c] \in Seq(Reply)
      <4>1. asked \in [Client -> Seq(Reply)]  BY <1>2 DEF IntakeInv, IntakeTypeOK
      <4> QED BY <3>1, <4>1
    <3>3. OwnDecide(asked[c], meters[c])
      BY <1>2, <3>1
    <3>4. OwnDecide(Append(asked[c], e), Metered(meters[c], e))
      BY <3>1, <3>2, <3>3, OwnGrows
    <3>5. ASSUME NEW d \in Client PROVE OwnDecide(asked'[d], meters'[d])
      <4>1. CASE d = c  BY <3>1, <3>4, <4>1
      <4>2. CASE d # c  BY <1>2, <3>1, <4>2
      <4> QED BY <4>1, <4>2
    <3> QED BY <3>5
  <2>2. CASE Tick
    BY <1>2, <2>2 DEF Tick
  <2>3. CASE UNCHANGED intakeVars
    BY <1>2, <2>3 DEF intakeVars
  <2> QED BY <1>2, <2>1, <2>2, <2>3, IntakeStep
<1>3. IntakeInv /\ Own => ServedWithinRate
  <2>1. Own => OwnRequestsDecide
    BY DEF OwnDecide, OwnRequestsDecide
  <2> QED BY <2>1, RateKept, RefusalsHaveCause, BlocksAreKept DEF ServedWithinRate
<1> HIDE DEF Own
<1> QED BY <1>1, <1>2, <1>3, IntakeInvariant, PTL DEF IntakeSpec
=============================================================================
