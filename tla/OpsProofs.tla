----------------------------- MODULE OpsProofs ------------------------------
(***************************************************************************)
(* Lemmas on the operators that several components are built from: first   *)
(* on the loops of Traversal, then on what the operations of MempoolOps do *)
(* to the two structures of a pool.  The first part needs none of the      *)
(* constants of MempoolOps.                                                *)
(***************************************************************************)
EXTENDS MempoolOps, SequenceTheorems, FiniteSetTheorems, WellFoundedInduction, TLAPS

(***************************************************************************)
(* Induction for loops: what tlapm needs to reason about Along.  The       *)
(* library states induction for an operator, which its provers cannot      *)
(* instantiate; here it is stated for a set, and derived from the          *)
(* well-foundedness of < on Nat.                                           *)
(***************************************************************************)
(* Every non-empty set of naturals has a least element. *)
LEMMA LeastNat ==
  ASSUME NEW S \in SUBSET Nat, S # {}
  PROVE  \E n \in S : \A m \in S : n <= m
<1> DEFINE R == {ss \in Nat \X Nat : ss[1] < ss[2]}
<1>1. IsWellFoundedOn(R, Nat)
  BY NatLessThanWellFounded DEF OpToRel
<1>2. PICK n \in S : \A m \in S : ~ (<<m, n>> \in R)
  <2> HIDE DEF R
  <2> QED BY <1>1, WFMin
<1>3. ASSUME NEW m \in S PROVE n <= m
  <2>1. n \in Nat /\ m \in Nat  OBVIOUS
  <2>2. ~ (m < n)  BY <1>2, <2>1
  <2> QED BY <2>1, <2>2
<1> QED BY <1>3

(* Induction over the rounds of a loop: a set that has 0, and with every    *)
(* round the next, has all of them.                                         *)
LEMMA Induct ==
  ASSUME NEW n \in Nat, NEW S, 0 \in S, \A i \in 1 .. n : i - 1 \in S => i \in S
  PROVE  0 .. n \subseteq S
<1> DEFINE Bad == {i \in 0 .. n : i \notin S}
<1>1. SUFFICES ASSUME Bad # {} PROVE FALSE
  OBVIOUS
<1>2. PICK m \in Bad : \A k \in Bad : m <= k
  <2>1. Bad \in SUBSET Nat  OBVIOUS
  <2> HIDE DEF Bad
  <2> QED BY <1>1, <2>1, LeastNat
<1>3. m \in 1 .. n /\ m - 1 \in 0 .. n
  BY <1>2
<1>4. m - 1 \notin Bad
  <2>1. m \in Nat /\ ~ (m <= m - 1)  BY <1>3
  <2> HIDE DEF Bad
  <2> QED BY <1>2, <2>1
<1> QED BY <1>2, <1>3, <1>4

\* What holds before a loop and is kept by every round holds after it.
LEMMA LoopIn ==
  ASSUME NEW n \in Nat, NEW G, NEW after, after[0] \in G,
         \A i \in 1 .. n : after[i - 1] \in G => after[i] \in G
  PROVE  after[n] \in G
<1> DEFINE Good == {i \in 0 .. n : after[i] \in G}
<1>1. 0 \in Good
  OBVIOUS
<1>2. ASSUME NEW i \in 1 .. n, i - 1 \in Good PROVE i \in Good
  <2>1. i \in 0 .. n  OBVIOUS
  <2> QED BY <1>2, <2>1
<1>3. 0 .. n \subseteq Good
  <2> HIDE DEF Good
  <2> QED BY <1>1, <1>2, Induct
<1>4. n \in 0 .. n
  OBVIOUS
<1> QED BY <1>3, <1>4

\* f is the body of a loop with an accumulator in A over elements of E.
IsBody(f, A, E) == f \in [A \X E -> A]

\* The accumulator of such a loop after each of its rounds.
HasRun(f, A, base, s) ==
  \E r \in [0 .. Len(s) -> A] :
    r[0] = base /\ \A i \in 1 .. Len(s) : r[i] = f[<<r[i - 1], s[i]>>]

(* Every loop has a run. *)
LEMMA RunExists ==
  ASSUME NEW A, NEW E, NEW f, IsBody(f, A, E), NEW base \in A, NEW s \in Seq(E)
  PROVE  HasRun(f, A, base, s)
<1> DEFINE Runs(n) == \E r \in [0 .. n -> A] :
             r[0] = base /\ \A i \in 1 .. n : r[i] = f[<<r[i - 1], s[i]>>]
           Good == {n \in 0 .. Len(s) : Runs(n)}
<1>1. Len(s) \in Nat
  OBVIOUS
<1>2. 0 \in Good
  <2> DEFINE r == [i \in 0 .. 0 |-> base]
  <2>1. r \in [0 .. 0 -> A] /\ r[0] = base /\ \A i \in 1 .. 0 : r[i] = f[<<r[i - 1], s[i]>>]
    OBVIOUS
  <2> HIDE DEF r
  <2>2. Runs(0)  BY <2>1
  <2> QED BY <2>2, <1>1
<1>3. ASSUME NEW n \in 1 .. Len(s), n - 1 \in Good
      PROVE  n \in Good
  <2>1. PICK q \in [0 .. n - 1 -> A] :
          q[0] = base /\ \A i \in 1 .. n - 1 : q[i] = f[<<q[i - 1], s[i]>>]
    BY <1>3
  <2> DEFINE r == [i \in 0 .. n |-> IF i < n THEN q[i] ELSE f[<<q[n - 1], s[n]>>]]
  <2>2. s[n] \in E  OBVIOUS
  <2>3. f[<<q[n - 1], s[n]>>] \in A  BY <2>1, <2>2, <1>1 DEF IsBody
  <2>4. r \in [0 .. n -> A]  BY <2>1, <2>3, <1>1
  <2>5. r[0] = base  BY <2>1, <1>1
  <2>6. ASSUME NEW i \in 1 .. n PROVE r[i] = f[<<r[i - 1], s[i]>>]
    <3>1. CASE i = n
      <4>1. r[n] = f[<<q[n - 1], s[n]>>] /\ r[n - 1] = q[n - 1]  BY <1>1
      <4> QED BY <3>1, <4>1
    <3>2. CASE i # n
      <4>1. i \in 1 .. n - 1 /\ i < n /\ i - 1 < n /\ i \in 0 .. n /\ i - 1 \in 0 .. n
        BY <1>1, <3>2
      <4>2. r[i] = q[i] /\ r[i - 1] = q[i - 1]  BY <4>1
      <4> QED BY <2>1, <4>1, <4>2
    <3> QED BY <3>1, <3>2
  <2> HIDE DEF r
  <2>7. Runs(n)  BY <2>4, <2>5, <2>6
  <2> QED BY <2>7, <1>1
<1>4. 0 .. Len(s) \subseteq Good
  <2> HIDE DEF Good
  <2> QED BY <1>1, <1>2, <1>3, Induct
<1>5. Runs(Len(s))
  BY <1>1, <1>4
<1> QED BY <1>5 DEF HasRun

-----------------------------------------------------------------------------
(***************************************************************************)
(* What the operations of the mempool do to its list and its dict.         *)
(***************************************************************************)
USE DEF Pools

\* A sequence with an element inserted, position by position.
LEMMA InsertAtIs ==
  ASSUME NEW S, NEW s \in Seq(S), NEW e \in S, NEW k \in 1 .. Len(s) + 1
  PROVE  LET r == InsertAt(s, k, e) IN
         /\ r \in Seq(S)
         /\ Len(r) = Len(s) + 1
         /\ \A i \in 1 .. Len(s) + 1 :
              r[i] = IF i < k THEN s[i] ELSE IF i = k THEN e ELSE s[i - 1]
<1> DEFINE a == SubSeq(s, 1, k - 1)
           b == SubSeq(s, k, Len(s))
           ae == a \o <<e>>
<1>1. Len(s) \in Nat /\ k \in Int /\ \A i \in 1 .. Len(s) : s[i] \in S
  OBVIOUS
<1>2. a \in Seq(S) /\ Len(a) = k - 1 /\ \A i \in 1 .. k - 1 : a[i] = s[i]
  BY <1>1, SubSeqProperties
<1>3. b \in Seq(S) /\ Len(b) = Len(s) - k + 1 /\ \A i \in 1 .. Len(s) - k + 1 : b[i] = s[k + i - 1]
  BY <1>1, SubSeqProperties
<1> HIDE DEF a, b
<1>4. /\ ae \in Seq(S) /\ Len(ae) = k
      /\ \A i \in 1 .. k : ae[i] = IF i < k THEN s[i] ELSE e
  BY <1>1, <1>2
<1> HIDE DEF ae
<1>5. /\ ae \o b \in Seq(S) /\ Len(ae \o b) = Len(s) + 1
      /\ \A i \in 1 .. Len(s) + 1 : (ae \o b)[i] = IF i <= k THEN ae[i] ELSE b[i - k]
  <2>1. /\ ae \o b \in Seq(S) /\ Len(ae \o b) = Len(ae) + Len(b)
        /\ \A i \in 1 .. Len(ae) + Len(b) :
             (ae \o b)[i] = IF i <= Len(ae) THEN ae[i] ELSE b[i - Len(ae)]
    BY <1>3, <1>4, ConcatProperties
  <2>2. Len(ae) + Len(b) = Len(s) + 1
    BY <1>1, <1>3, <1>4
  <2> QED BY <1>4, <2>1, <2>2
<1>6. \A i \in 1 .. Len(s) + 1 :
        (ae \o b)[i] = IF i < k THEN s[i] ELSE IF i = k THEN e ELSE s[i - 1]
  <2> SUFFICES ASSUME NEW i \in 1 .. Len(s) + 1
               PROVE  (ae \o b)[i] = IF i < k THEN s[i] ELSE IF i = k THEN e ELSE s[i - 1]
    OBVIOUS
  <2>1. CASE i <= k
    <3>1. i \in 1 .. k  BY <1>1, <2>1
    <3> QED BY <1>1, <1>4, <1>5, <2>1, <3>1
  <2>2. CASE ~ (i <= k)
    <3>1. i - k \in 1 .. Len(s) - k + 1 /\ k + (i - k) - 1 = i - 1 /\ ~ (i <= k)
      BY <1>1, <2>2
    <3>2. b[i - k] = s[i - 1]  BY <1>3, <3>1
    <3>3. (ae \o b)[i] = b[i - k]  BY <1>5, <3>1
    <3> QED BY <1>1, <2>2, <3>2, <3>3
  <2> QED BY <2>1, <2>2
<1>7. InsertAt(s, k, e) = ae \o b
  BY DEF InsertAt, ae, a, b
<1> QED BY <1>5, <1>6, <1>7

\* A sequence with an element removed, position by position.
LEMMA RemoveAtIs ==
  ASSUME NEW S, NEW s \in Seq(S), NEW k \in 1 .. Len(s)
  PROVE  LET r == RemoveAt(s, k) IN
         /\ r \in Seq(S)
         /\ Len(r) = Len(s) - 1
         /\ \A i \in 1 .. Len(s) - 1 : r[i] = IF i < k THEN s[i] ELSE s[i + 1]
<1> DEFINE a == SubSeq(s, 1, k - 1)
           b == SubSeq(s, k + 1, Len(s))
<1>1. Len(s) \in Nat /\ k \in Int /\ \A i \in 1 .. Len(s) : s[i] \in S
  OBVIOUS
<1>2. a \in Seq(S) /\ Len(a) = k - 1 /\ \A i \in 1 .. k - 1 : a[i] = s[i]
  BY <1>1, SubSeqProperties
<1>3. b \in Seq(S) /\ Len(b) = Len(s) - k /\ \A i \in 1 .. Len(s) - k : b[i] = s[k + i]
  BY <1>1, SubSeqProperties
<1> HIDE DEF a, b
<1>4. /\ a \o b \in Seq(S) /\ Len(a \o b) = Len(s) - 1
      /\ \A i \in 1 .. Len(s) - 1 : (a \o b)[i] = IF i <= k - 1 THEN a[i] ELSE b[i - (k - 1)]
  BY <1>1, <1>2, <1>3, ConcatProperties
<1>5. \A i \in 1 .. Len(s) - 1 : (a \o b)[i] = IF i < k THEN s[i] ELSE s[i + 1]
  <2> SUFFICES ASSUME NEW i \in 1 .. Len(s) - 1
               PROVE  (a \o b)[i] = IF i < k THEN s[i] ELSE s[i + 1]
    OBVIOUS
  <2>1. CASE i < k
    <3>1. i \in 1 .. k - 1 /\ i <= k - 1  BY <1>1, <2>1
    <3> QED BY <1>2, <1>4, <2>1, <3>1
  <2>2. CASE ~ (i < k)
    <3>1. i - (k - 1) \in 1 .. Len(s) - k /\ k + (i - (k - 1)) = i + 1 /\ ~ (i <= k - 1) /\ ~ (i < k)
      BY <1>1, <2>2
    <3>2. b[i - (k - 1)] = s[i + 1]  BY <1>3, <3>1
    <3> QED BY <1>4, <3>1, <3>2
  <2> QED BY <2>1, <2>2
<1>6. RemoveAt(s, k) = a \o b
  BY DEF RemoveAt, a, b
<1> QED BY <1>4, <1>5, <1>6

LEMMA MinIs ==
  ASSUME NEW S \in SUBSET Nat, S # {}
  PROVE  Min(S) \in S /\ \A m \in S : Min(S) <= m
BY LeastNat DEF Min

\* ToSet by positions, and the set of a sequence of different elements.
LEMMA ToSetIs ==
  ASSUME NEW S, NEW s \in Seq(S)
  PROVE  ToSet(s) = {s[i] : i \in 1 .. Len(s)} /\ ToSet(s) \subseteq S
BY DEF ToSet

(***************************************************************************)
(* The list of a pool.  Entries that pay the same compare equal, so that   *)
(* dict and list may come apart: Once says of a list, and Listed of a      *)
(* pool, what holds of all transactions but those of a set C.              *)
(***************************************************************************)
Once(s, C) == \A i, j \in 1 .. Len(s) : s[i] = s[j] => i = j \/ s[i] \in C

Listed(p, C) ==
  /\ p \in Pools
  /\ Once(p.ordered, C)
  /\ ToSet(p.ordered) \subseteq p.entries \cup C

LEMMA OnceIsInjective ==
  ASSUME NEW S, NEW s \in Seq(S), NEW C, ToSet(s) \cap C = {}
  PROVE  Once(s, C) <=> IsInjective(s)
<1>1. ToSet(s) = {s[i] : i \in 1 .. Len(s)} /\ DOMAIN s = 1 .. Len(s)
  BY ToSetIs
<1>2. \A i \in 1 .. Len(s) : s[i] \notin C
  BY <1>1
<1> QED BY <1>1, <1>2 DEF Once, IsInjective

LEMMA ListedGrows ==
  ASSUME NEW C, NEW D, C \subseteq D, NEW p, Listed(p, C)
  PROVE  Listed(p, D)
BY DEF Listed, Once

\* Where _insert_ordered puts an entry: behind all that pay as much, before the worse.
LEMMA InsertPositionIs ==
  ASSUME NEW s \in Seq(Tx), NEW t \in Tx
  PROVE  LET k == InsertPosition(s, t) IN
         /\ k \in 1 .. Len(s) + 1
         /\ \A i \in 1 .. Len(s) : i < k => Priority[s[i]] >= Priority[t]
         /\ k <= Len(s) => Priority[t] > Priority[s[k]]
<1> DEFINE k == InsertPosition(s, t)
<1>1. /\ Len(s) \in Nat /\ Priority[t] \in Nat
      /\ \A i \in 1 .. Len(s) : s[i] \in Tx /\ Priority[s[i]] \in Nat
  BY PoolAssumption DEF PoolAssumption
<1>2. \A i \in 1 .. Len(s) : i \notin Worse(s, t) => Priority[s[i]] >= Priority[t]
  BY <1>1 DEF Worse
<1>3. CASE Worse(s, t) = {}
  <2>1. k = Len(s) + 1  BY <1>3 DEF InsertPosition
  <2> HIDE DEF k
  <2> QED BY <1>1, <1>2, <1>3, <2>1 DEF k
<1>4. CASE Worse(s, t) # {}
  <2>1. Worse(s, t) \in SUBSET Nat  BY <1>1 DEF Worse
  <2>2. k = Min(Worse(s, t))  BY <1>4 DEF InsertPosition
  <2>3. k \in Worse(s, t) /\ \A m \in Worse(s, t) : k <= m
    BY <1>4, <2>1, <2>2, MinIs
  <2>4. k \in 1 .. Len(s) /\ Priority[t] > Priority[s[k]]
    BY <2>3 DEF Worse
  <2> HIDE DEF k
  <2>5. \A i \in 1 .. Len(s) : i < k => i \notin Worse(s, t)
    BY <1>1, <2>3, <2>4
  <2> QED BY <1>1, <1>2, <2>4, <2>5 DEF k
<1> QED BY <1>3, <1>4

\* A list with one more.
LEMMA InsertedIs ==
  ASSUME NEW S, NEW C, NEW s \in Seq(S), Once(s, C), NEW e \in S, e \notin ToSet(s) \/ e \in C,
         NEW k \in 1 .. Len(s) + 1
  PROVE  LET r == InsertAt(s, k, e) IN
         r \in Seq(S) /\ r # <<>> /\ Once(r, C) /\ ToSet(r) = ToSet(s) \cup {e}
<1> DEFINE r == InsertAt(s, k, e)
           n == Len(s)
<1>1. LET q == InsertAt(s, k, e) IN
      /\ q \in Seq(S)
      /\ Len(q) = Len(s) + 1
      /\ \A i \in 1 .. Len(s) + 1 : q[i] = IF i < k THEN s[i] ELSE IF i = k THEN e ELSE s[i - 1]
  BY InsertAtIs
<1>2. /\ r \in Seq(S) /\ Len(r) = n + 1 /\ n \in Nat /\ k \in 1 .. n + 1
      /\ \A i \in 1 .. n + 1 : r[i] = IF i < k THEN s[i] ELSE IF i = k THEN e ELSE s[i - 1]
  BY <1>1
<1>3. /\ ToSet(s) = {s[i] : i \in 1 .. n}
      /\ \A i, j \in 1 .. n : s[i] = s[j] => i = j \/ s[i] \in C
      /\ \A i \in 1 .. n : s[i] # e \/ e \in C
  BY ToSetIs DEF Once
<1> HIDE DEF r, n
<1>4. ToSet(r) = {r[i] : i \in 1 .. n + 1} /\ r # <<>>
  <2>1. ToSet(r) = {r[i] : i \in 1 .. Len(r)}  BY <1>2, ToSetIs
  <2>2. Len(r) # 0  BY <1>2
  <2> QED BY <1>2, <2>1, <2>2
<1> DEFINE at(i) == IF i < k THEN i ELSE i - 1
<1>5. ASSUME NEW i \in 1 .. n + 1, NEW j \in 1 .. n + 1, r[i] = r[j] PROVE i = j \/ r[i] \in C
  <2>1. \A h \in 1 .. n + 1 : h # k => at(h) \in 1 .. n /\ r[h] = s[at(h)]
    BY <1>2
  <2>2. \A g, h \in 1 .. n + 1 : g # k /\ h # k /\ at(g) = at(h) => g = h
    BY <1>2
  <2>3. r[k] = e /\ k \in 1 .. n + 1
    BY <1>2
  <2> HIDE DEF at
  <2>4. CASE i # k /\ j # k
    <3>1. at(i) = at(j) \/ r[i] \in C  BY <1>3, <1>5, <2>1, <2>4
    <3> QED BY <2>2, <2>4, <3>1
  <2>5. CASE i = k /\ j # k
    BY <1>3, <1>5, <2>1, <2>3, <2>5
  <2>6. CASE i # k /\ j = k
    BY <1>3, <1>5, <2>1, <2>3, <2>6
  <2> QED BY <2>4, <2>5, <2>6
<1>6. ToSet(r) \subseteq ToSet(s) \cup {e}
  <2> SUFFICES ASSUME NEW i \in 1 .. n + 1 PROVE r[i] \in ToSet(s) \cup {e}
    BY <1>4
  <2>1. r[i] = IF i < k THEN s[i] ELSE IF i = k THEN e ELSE s[i - 1]  BY <1>2
  <2>2. (i < k => i \in 1 .. n) /\ (~ (i < k) /\ i # k => i - 1 \in 1 .. n)  BY <1>2
  <2> QED BY <1>3, <2>1, <2>2
<1>7. ToSet(s) \cup {e} \subseteq ToSet(r)
  <2>1. r[k] = e /\ k \in 1 .. n + 1  BY <1>2
  <2>2. ASSUME NEW i \in 1 .. n PROVE s[i] \in ToSet(r)
    <3>1. CASE i < k
      <4>1. i \in 1 .. n + 1 /\ r[i] = s[i]  BY <1>2, <3>1
      <4> QED BY <1>4, <4>1
    <3>2. CASE ~ (i < k)
      <4>1. i + 1 \in 1 .. n + 1 /\ ~ (i + 1 < k) /\ i + 1 # k /\ (i + 1) - 1 = i  BY <1>2, <3>2
      <4>2. r[i + 1] = s[i]  BY <1>2, <4>1
      <4> QED BY <1>4, <4>1, <4>2
    <3> QED BY <3>1, <3>2
  <2> QED BY <1>3, <1>4, <2>1, <2>2
<1> QED BY <1>2, <1>4, <1>5, <1>6, <1>7 DEF r, Once

\* An insertion at its place leaves the list best first, and ends it or is not its end.
LEMMA InsertedOrdered ==
  ASSUME NEW s \in Seq(Tx), IsOrdered(s), NEW t \in Tx
  PROVE  LET r == InsertOrdered(s, t) IN
         /\ IsOrdered(r)
         /\ r[Len(r)] = t \/ Priority[r[Len(r)]] < Priority[t]
<1> DEFINE k == InsertPosition(s, t)
           r == InsertOrdered(s, t)
           n == Len(s)
<1>1. /\ n \in Nat /\ Priority[t] \in Nat
      /\ \A i \in 1 .. n : s[i] \in Tx /\ Priority[s[i]] \in Nat
  BY PoolAssumption DEF PoolAssumption
<1>2. /\ k \in 1 .. n + 1
      /\ \A i \in 1 .. n : i < k => Priority[s[i]] >= Priority[t]
      /\ k <= n => Priority[t] > Priority[s[k]]
  BY InsertPositionIs
<1>3. r = InsertAt(s, k, t)
  BY DEF InsertOrdered
<1>s. \A i, j \in 1 .. n : i < j => Priority[s[i]] >= Priority[s[j]]
  BY DEF IsOrdered
<1> HIDE DEF k, r
<1>4. /\ r \in Seq(Tx) /\ Len(r) = n + 1
      /\ \A i \in 1 .. n + 1 : r[i] = IF i < k THEN s[i] ELSE IF i = k THEN t ELSE s[i - 1]
  <2>1. LET q == InsertAt(s, k, t) IN
        /\ q \in Seq(Tx)
        /\ Len(q) = Len(s) + 1
        /\ \A i \in 1 .. Len(s) + 1 : q[i] = IF i < k THEN s[i] ELSE IF i = k THEN t ELSE s[i - 1]
    BY <1>2, InsertAtIs
  <2> QED BY <1>3, <2>1
<1> HIDE DEF n
<1>5. ASSUME NEW i \in 1 .. n, i >= k PROVE Priority[t] > Priority[s[i]]
  <2>1. k \in 1 .. n /\ (i = k \/ k < i)  BY <1>1, <1>2, <1>5
  <2>2. Priority[s[k]] >= Priority[s[i]]
    BY <1>1, <1>s, <2>1
  <2> QED BY <1>1, <1>2, <2>1, <2>2
<1>6. ASSUME NEW i \in 1 .. n + 1, NEW j \in 1 .. n + 1, i < j
      PROVE  Priority[r[i]] >= Priority[r[j]]
  <2>1. CASE j < k
    <3>1. i \in 1 .. n /\ j \in 1 .. n /\ i < k  BY <1>1, <1>2, <1>6, <2>1
    <3>2. r[i] = s[i] /\ r[j] = s[j]  BY <1>4, <1>6, <2>1, <3>1
    <3> QED BY <1>6, <1>s, <3>1, <3>2
  <2>2. CASE j = k
    <3>1. i \in 1 .. n /\ i < k  BY <1>1, <1>2, <1>6, <2>2
    <3>2. r[i] = s[i] /\ r[j] = t  BY <1>4, <2>2, <3>1
    <3> QED BY <1>2, <3>1, <3>2
  <2>3. CASE j > k
    <3>1. j - 1 \in 1 .. n /\ j - 1 >= k /\ ~ (j < k) /\ j # k  BY <1>1, <1>2, <2>3
    <3>2. r[j] = s[j - 1]  BY <1>4, <3>1
    <3>3. CASE i = k
      <4>1. r[i] = t  BY <1>4, <1>2, <3>3
      <4>2. Priority[t] > Priority[s[j - 1]] /\ Priority[s[j - 1]] \in Nat  BY <1>1, <1>5, <3>1
      <4> QED BY <1>1, <3>2, <4>1, <4>2
    <3>4. CASE i < k
      <4>1. i \in 1 .. n /\ i < j - 1  BY <1>1, <1>2, <3>1, <3>4
      <4>2. r[i] = s[i]  BY <1>4, <3>4
      <4> QED BY <1>s, <3>1, <3>2, <4>1, <4>2
    <3>5. CASE i > k
      <4>1. i - 1 \in 1 .. n /\ i - 1 < j - 1 /\ ~ (i < k) /\ i # k
        BY <1>1, <1>2, <1>6, <3>5
      <4>2. r[i] = s[i - 1]  BY <1>4, <4>1
      <4> QED BY <1>s, <3>1, <3>2, <4>1, <4>2
    <3> QED BY <1>1, <1>2, <3>3, <3>4, <3>5
  <2> QED BY <1>1, <1>2, <2>1, <2>2, <2>3
<1>7. IsOrdered(r)
  BY <1>4, <1>6 DEF IsOrdered
<1>8. r[n + 1] = t \/ Priority[r[n + 1]] < Priority[t]
  <2>1. CASE k = n + 1
    BY <1>1, <1>4, <2>1
  <2>2. CASE k <= n
    <3>1. n \in 1 .. n /\ n + 1 \in 1 .. n + 1 /\ ~ (n + 1 < k) /\ n + 1 # k /\ (n + 1) - 1 = n
      BY <1>1, <1>2, <2>2
    <3>2. r[n + 1] = s[n]  BY <1>4, <3>1
    <3>3. Priority[t] > Priority[s[n]]  BY <1>5, <2>2, <3>1
    <3> QED BY <1>1, <3>1, <3>2, <3>3
  <2> QED BY <1>1, <1>2, <2>1, <2>2
<1> QED BY <1>4, <1>7, <1>8 DEF r

\* A list without one of its places.
LEMMA RemovedIs ==
  ASSUME NEW S, NEW C, NEW s \in Seq(S), Once(s, C), NEW k \in 1 .. Len(s)
  PROVE  LET r == RemoveAt(s, k) IN
         /\ r \in Seq(S) /\ Once(r, C)
         /\ ToSet(s) \ {s[k]} \subseteq ToSet(r) /\ ToSet(r) \subseteq ToSet(s)
         /\ s[k] \notin C => s[k] \notin ToSet(r)
         /\ \A u, v : Precedes(r, u, v) => Precedes(s, u, v)
         /\ IsOrdered(s) => IsOrdered(r)
<1> DEFINE r == RemoveAt(s, k)
           n == Len(s)
<1>1. LET q == RemoveAt(s, k) IN
      /\ q \in Seq(S)
      /\ Len(q) = Len(s) - 1
      /\ \A i \in 1 .. Len(s) - 1 : q[i] = IF i < k THEN s[i] ELSE s[i + 1]
  BY RemoveAtIs
<1>2. /\ r \in Seq(S) /\ Len(r) = n - 1 /\ n \in Nat /\ k \in 1 .. n
      /\ \A i \in 1 .. n - 1 : r[i] = IF i < k THEN s[i] ELSE s[i + 1]
  BY <1>1
<1>3. /\ ToSet(s) = {s[i] : i \in 1 .. n}
      /\ \A i, j \in 1 .. n : s[i] = s[j] => i = j \/ s[i] \in C
      /\ \A u, v : Precedes(s, u, v) <=> \E i, j \in 1 .. n : i < j /\ s[i] = u /\ s[j] = v
      /\ IsOrdered(s) => \A i, j \in 1 .. n : i < j => Priority[s[i]] >= Priority[s[j]]
  BY ToSetIs DEF Once, Precedes, IsOrdered
<1> HIDE DEF r, n
<1>4. ToSet(r) = {r[i] : i \in 1 .. n - 1}
  BY <1>2, ToSetIs
<1> DEFINE at(i) == IF i < k THEN i ELSE i + 1
<1>5. \A i \in 1 .. n - 1 : at(i) \in 1 .. n /\ at(i) # k /\ r[i] = s[at(i)]
  BY <1>2
<1>6. \A i, j \in 1 .. n - 1 : (at(i) = at(j) => i = j) /\ (i < j => at(i) < at(j))
  BY <1>2
<1>7. \A i \in 1 .. n : i # k => \E j \in 1 .. n - 1 : at(j) = i
  <2> SUFFICES ASSUME NEW i \in 1 .. n, i # k PROVE \E j \in 1 .. n - 1 : at(j) = i
    OBVIOUS
  <2>1. CASE i < k
    <3>1. i \in 1 .. n - 1 /\ at(i) = i  BY <1>2, <2>1
    <3> QED BY <3>1
  <2>2. CASE ~ (i < k)
    <3>1. i - 1 \in 1 .. n - 1 /\ at(i - 1) = i  BY <1>2, <2>2
    <3> QED BY <3>1
  <2> QED BY <2>1, <2>2
<1> HIDE DEF at
<1>8. Once(r, C)
  <2>1. \A i, j \in 1 .. n - 1 : r[i] = r[j] => i = j \/ r[i] \in C
    BY <1>3, <1>5, <1>6
  <2> QED BY <1>2, <2>1 DEF Once
<1>9. ToSet(r) \subseteq ToSet(s)
  BY <1>3, <1>4, <1>5
<1>10. ASSUME s[k] \notin C PROVE s[k] \notin ToSet(r)
  <2> SUFFICES ASSUME NEW i \in 1 .. n - 1, r[i] = s[k] PROVE FALSE
    BY <1>4
  <2>1. at(i) \in 1 .. n /\ at(i) # k /\ s[at(i)] = s[k]  BY <1>5
  <2> QED BY <1>2, <1>3, <1>10, <2>1
<1>11. ASSUME NEW x \in ToSet(s) \ {s[k]} PROVE x \in ToSet(r)
  <2>1. PICK i \in 1 .. n : x = s[i]  BY <1>3
  <2>2. PICK j \in 1 .. n - 1 : at(j) = i  BY <1>7, <1>11, <2>1
  <2> QED BY <1>4, <1>5, <2>1, <2>2
<1>12. ASSUME NEW u, NEW v, Precedes(r, u, v) PROVE Precedes(s, u, v)
  <2>1. PICK i \in 1 .. n - 1, j \in 1 .. n - 1 : i < j /\ r[i] = u /\ r[j] = v
    BY <1>2, <1>12 DEF Precedes
  <2>2. at(i) \in 1 .. n /\ at(j) \in 1 .. n /\ at(i) < at(j) /\ s[at(i)] = u /\ s[at(j)] = v
    BY <1>5, <1>6, <2>1
  <2> QED BY <1>3, <2>2
<1>13. ASSUME IsOrdered(s) PROVE IsOrdered(r)
  <2>1. \A i, j \in 1 .. n - 1 : i < j => Priority[r[i]] >= Priority[r[j]]
    BY <1>3, <1>5, <1>6, <1>13
  <2> QED BY <1>2, <2>1 DEF IsOrdered
<1> QED BY <1>2, <1>8, <1>9, <1>10, <1>11, <1>12, <1>13 DEF r

\* A list without its last element.
LEMMA FrontIs ==
  ASSUME NEW S, NEW s \in Seq(S), s # <<>>
  PROVE  Front(s) = RemoveAt(s, Len(s)) /\ Last(s) = s[Len(s)] /\ Len(s) \in 1 .. Len(s)
<1>1. Len(s) \in Nat \ {0} /\ Len(s) \in 1 .. Len(s)
  BY EmptySeq
<1>2. SubSeq(s, Len(s) + 1, Len(s)) = <<>>
  BY <1>1, SubSeqEmpty
<1>3. SubSeq(s, 1, Len(s) - 1) \in Seq(S)
  BY <1>1, SubSeqProperties
<1>4. SubSeq(s, 1, Len(s) - 1) \o <<>> = SubSeq(s, 1, Len(s) - 1)
  BY <1>3, ConcatEmptySeq
<1> QED BY <1>1, <1>2, <1>4 DEF Front, RemoveAt, Last

-----------------------------------------------------------------------------
\* _evict_lowest takes the last of the list, and that from the dict.
LEMMA EvictLowestIs ==
  ASSUME NEW C, NEW p, Listed(p, C), p.ordered # <<>>
  PROVE  LET q == EvictLowest(p)
             gone == p.ordered[Len(p.ordered)]
         IN  /\ Listed(q, C)
             /\ q.entries = p.entries \ {gone}
             /\ gone \in ToSet(p.ordered)
             /\ ToSet(p.ordered) \ {gone} \subseteq ToSet(q.ordered)
             /\ IsOrdered(p.ordered) => IsOrdered(q.ordered)
<1> DEFINE s == p.ordered
           n == Len(s)
           q == EvictLowest(p)
<1>1. s \in Seq(Tx) /\ Once(s, C) /\ p.entries \subseteq Tx /\ ToSet(s) \subseteq p.entries \cup C
  BY DEF Listed
<1>2. Front(s) = RemoveAt(s, n) /\ Last(s) = s[n] /\ n \in 1 .. n
  BY <1>1, FrontIs
<1>3. q = [entries |-> p.entries \ {s[n]}, ordered |-> RemoveAt(s, n)]
  BY <1>2 DEF EvictLowest
<1>4. s[n] \in ToSet(s)
  BY <1>1, <1>2, ToSetIs
<1> HIDE DEF s, n, q
<1>5. LET r == RemoveAt(s, n) IN
      /\ r \in Seq(Tx) /\ Once(r, C)
      /\ ToSet(s) \ {s[n]} \subseteq ToSet(r) /\ ToSet(r) \subseteq ToSet(s)
      /\ s[n] \notin C => s[n] \notin ToSet(r)
      /\ IsOrdered(s) => IsOrdered(r)
  BY <1>1, <1>2, RemovedIs DEF n
<1>6. /\ q.entries = p.entries \ {s[n]} /\ q.ordered = RemoveAt(s, n)
      /\ q \in Pools
  BY <1>1, <1>3, <1>5
<1>7. Listed(q, C)
  BY <1>1, <1>5, <1>6 DEF Listed
<1> QED BY <1>4, <1>5, <1>6, <1>7 DEF q, s, n

\* The pool add_tx makes before an eviction.
Added(p, t) == [entries |-> p.entries \cup {t}, ordered |-> InsertOrdered(p.ordered, t)]

LEMMA AddedIs ==
  ASSUME NEW C, NEW p, Listed(p, C), NEW t \in Tx, t \notin p.entries
  PROVE  LET q == Added(p, t)
         IN  /\ Listed(q, C) /\ q.ordered # <<>>
             /\ q.entries = p.entries \cup {t}
             /\ ToSet(q.ordered) = ToSet(p.ordered) \cup {t}
<1> DEFINE s == p.ordered
           k == InsertPosition(s, t)
           q == Added(p, t)
<1>1. /\ s \in Seq(Tx) /\ Once(s, C) /\ p.entries \subseteq Tx
      /\ ToSet(s) \subseteq p.entries \cup C
  BY DEF Listed
<1>2. k \in 1 .. Len(s) + 1
  BY <1>1, InsertPositionIs
<1>3. t \notin ToSet(s) \/ t \in C
  BY <1>1
<1>4. q.ordered = InsertAt(s, k, t) /\ q.entries = p.entries \cup {t} /\ q = [entries |-> q.entries, ordered |-> q.ordered]
  BY DEF Added, InsertOrdered
<1> HIDE DEF s, k, q
<1>5. LET r == InsertAt(s, k, t) IN
      r \in Seq(Tx) /\ r # <<>> /\ Once(r, C) /\ ToSet(r) = ToSet(s) \cup {t}
  BY <1>1, <1>2, <1>3, InsertedIs
<1>6. q \in Pools
  BY <1>1, <1>4, <1>5 DEF Pools
<1> QED BY <1>1, <1>4, <1>5, <1>6 DEF Listed, s, q

\* add_tx, of what the list may still have from before, for those in C.
LEMMA AddTxListed ==
  ASSUME NEW C, NEW p, Listed(p, C), NEW t \in Tx, t \notin p.entries
  PROVE  Listed(AddTx(p, t), C)
<1> DEFINE q == Added(p, t)
<1>1. Listed(q, C) /\ q.ordered # <<>>
  BY AddedIs
<1>2. AddTx(p, t) \in {q, EvictLowest(q)}
  BY DEF AddTx, Added
<1> HIDE DEF q
<1>3. Listed(EvictLowest(q), C)
  BY <1>1, EvictLowestIs
<1> QED BY <1>1, <1>2, <1>3

LEMMA AddTxInPools ==
  ASSUME NEW p \in Pools, NEW t \in Tx
  PROVE  AddTx(p, t) \in Pools
<1>1. Listed(p, Tx)
  <2>1. p.ordered \in Seq(Tx)  OBVIOUS
  <2>2. ToSet(p.ordered) \subseteq Tx /\ \A i \in 1 .. Len(p.ordered) : p.ordered[i] \in Tx
    BY <2>1, ToSetIs
  <2> QED BY <2>2 DEF Listed, Once
<1>2. CASE t \in p.entries
  BY <1>2 DEF AddTx
<1>3. CASE t \notin p.entries
  BY <1>1, <1>3, AddTxListed DEF Listed
<1> QED BY <1>2, <1>3

(* add_tx keeps a coherent pool coherent; an overflow evicts one that pays  *)
(* no more than any that stays, and less than the new one or the new one.   *)
LEMMA AddTxIs ==
  ASSUME NEW p, Coherent(p), NEW t \in Tx, t \notin p.entries
  PROVE  /\ Coherent(AddTx(p, t))
         /\ \A gone \in (p.entries \cup {t}) \ AddTx(p, t).entries :
              /\ AddTx(p, t).entries = (p.entries \cup {t}) \ {gone}
              /\ gone = t \/ Priority[gone] < Priority[t]
              /\ \A stay \in AddTx(p, t).entries : Priority[gone] <= Priority[stay]
<1> DEFINE q == Added(p, t)
           a == AddTx(p, t)
<1>1. /\ p \in Pools /\ p.ordered \in Seq(Tx) /\ IsOrdered(p.ordered) /\ IsInjective(p.ordered)
      /\ ToSet(p.ordered) = p.entries
      /\ IsFiniteSet(p.entries) /\ Cardinality(p.entries) <= MaxSize
      /\ MaxSize \in Nat /\ \A u \in Tx : Priority[u] \in Nat
  BY PoolAssumption DEF Coherent, PoolAssumption
<1>2. Listed(p, {})
  <2>1. ToSet(p.ordered) \cap {} = {}  OBVIOUS
  <2>2. Once(p.ordered, {})  BY <1>1, <2>1, OnceIsInjective
  <2> QED BY <1>1, <2>2 DEF Listed
<1>3. /\ Listed(q, {}) /\ q.ordered # <<>> /\ q.ordered \in Seq(Tx)
      /\ q.entries = p.entries \cup {t} /\ q.entries \subseteq Tx
      /\ ToSet(q.ordered) = q.entries
  <2>1. /\ Listed(q, {}) /\ q.ordered # <<>>
        /\ q.entries = p.entries \cup {t}
        /\ ToSet(q.ordered) = ToSet(p.ordered) \cup {t}
    BY <1>2, AddedIs
  <2> HIDE DEF q
  <2>2. q \in Pools
    BY <2>1 DEF Listed
  <2> QED BY <1>1, <2>1, <2>2
<1>4. /\ IsOrdered(q.ordered)
      /\ LET last == q.ordered[Len(q.ordered)] IN last = t \/ Priority[last] < Priority[t]
  BY <1>1, InsertedOrdered DEF Added
<1>5. IsFiniteSet(q.entries) /\ Cardinality(q.entries) = Cardinality(p.entries) + 1
      /\ Cardinality(p.entries) \in Nat
  BY <1>1, <1>3, FS_AddElement, FS_CardinalityType
<1>6. a = IF Cardinality(q.entries) > MaxSize THEN EvictLowest(q) ELSE q
  BY DEF AddTx, Added
<1> HIDE DEF q, a
<1>7. ASSUME NEW z, Listed(z, {}), IsOrdered(z.ordered), ToSet(z.ordered) = z.entries,
             IsFiniteSet(z.entries), Cardinality(z.entries) <= MaxSize
      PROVE  Coherent(z)
  <2>1. z \in Pools /\ z.ordered \in Seq(Tx) /\ Once(z.ordered, {})  BY <1>7 DEF Listed
  <2>2. IsInjective(z.ordered)  BY <2>1, OnceIsInjective
  <2> QED BY <1>7, <2>1, <2>2 DEF Coherent
<1>8. CASE Cardinality(q.entries) > MaxSize
  <2> DEFINE lowest == q.ordered[Len(q.ordered)]
  <2>1. /\ Listed(a, {}) /\ a.entries = q.entries \ {lowest} /\ lowest \in ToSet(q.ordered)
        /\ ToSet(q.ordered) \ {lowest} \subseteq ToSet(a.ordered)
        /\ IsOrdered(a.ordered)
    BY <1>3, <1>4, <1>6, <1>8, EvictLowestIs
  <2>2. ASSUME NEW stay \in ToSet(q.ordered) PROVE Priority[lowest] <= Priority[stay]
    <3>1. PICK i \in 1 .. Len(q.ordered) : stay = q.ordered[i]
      BY <1>3, ToSetIs
    <3>2. Len(q.ordered) \in Nat /\ Len(q.ordered) \in 1 .. Len(q.ordered) /\ (i < Len(q.ordered) \/ i = Len(q.ordered))
      BY <1>3
    <3>3. Priority[stay] \in Nat  BY <1>1, <1>3, <2>2
    <3>4. i < Len(q.ordered) => Priority[q.ordered[i]] >= Priority[lowest]
      BY <1>4, <3>1, <3>2 DEF IsOrdered
    <3>5. Priority[lowest] \in Nat  BY <1>1, <1>3, <2>1
    <3> QED BY <3>1, <3>2, <3>3, <3>4, <3>5
  <2>3. lowest = t \/ Priority[lowest] < Priority[t]
    BY <1>4
  <2> HIDE DEF lowest
  <2>4. ToSet(a.ordered) = a.entries
    BY <1>3, <2>1 DEF Listed
  <2>5. IsFiniteSet(a.entries) /\ Cardinality(a.entries) <= MaxSize
    <3>1. lowest \in q.entries  BY <1>3, <2>1
    <3>2. IsFiniteSet(q.entries \ {lowest})
          /\ Cardinality(q.entries \ {lowest}) = Cardinality(q.entries) - 1
      BY <1>5, <3>1, FS_RemoveElement
    <3> QED BY <1>1, <1>5, <2>1, <3>2
  <2>6. Coherent(a)
    BY <1>7, <2>1, <2>4, <2>5
  <2>7. ASSUME NEW gone \in q.entries \ a.entries
        PROVE  /\ a.entries = q.entries \ {gone}
               /\ gone = t \/ Priority[gone] < Priority[t]
               /\ \A stay \in a.entries : Priority[gone] <= Priority[stay]
    <3>1. gone = lowest  BY <2>1
    <3>2. a.entries \subseteq ToSet(q.ordered)  BY <1>3, <2>1
    <3> QED BY <2>1, <2>2, <2>3, <3>1, <3>2
  <2> QED BY <1>3, <2>6, <2>7 DEF a
<1>9. CASE ~ (Cardinality(q.entries) > MaxSize)
  <2>1. a = q /\ Cardinality(q.entries) <= MaxSize
    BY <1>1, <1>5, <1>6, <1>9
  <2>2. Coherent(a)
    BY <1>3, <1>4, <1>5, <1>7, <2>1
  <2> QED BY <1>3, <2>1, <2>2 DEF a
<1> QED BY <1>8, <1>9

-----------------------------------------------------------------------------
\* Where list.remove(entry) finds what it compares equal.
Equals(s, t) == {i \in 1 .. Len(s) : Priority[s[i]] = Priority[t]}

\* list.remove finds an entry that pays the same, the first of them.
LEMMA RemoveEqualFinds ==
  ASSUME NEW s \in Seq(Tx), NEW t
  PROVE  /\ Equals(s, t) \subseteq 1 .. Len(s)
         /\ Equals(s, t) = {} => RemoveEqual(s, t) = s
         /\ Equals(s, t) # {} =>
              /\ RemoveEqual(s, t) = RemoveAt(s, Min(Equals(s, t)))
              /\ Min(Equals(s, t)) \in Equals(s, t)
              /\ \A i \in Equals(s, t) : Min(Equals(s, t)) <= i
<1>1. Equals(s, t) = {} => RemoveEqual(s, t) = s
  BY DEF Equals, RemoveEqual, RemoveFirstMatch, SelectInSeq
<1>2. Equals(s, t) # {} => RemoveEqual(s, t) = RemoveAt(s, Min(Equals(s, t)))
  BY DEF Equals, RemoveEqual, RemoveFirstMatch, SelectInSeq
<1>3. Equals(s, t) \in SUBSET Nat /\ Equals(s, t) \subseteq 1 .. Len(s)
  BY DEF Equals
<1> QED BY <1>1, <1>2, <1>3, MinIs

LEMMA RemoveTxListed ==
  ASSUME NEW C, NEW p, Listed(p, C), NEW t \in Tx
  PROVE  Listed(RemoveTx(p, t), C \cup {t}) /\ RemoveTx(p, t).entries = p.entries \ {t}
<1> DEFINE s == p.ordered
           r == RemoveEqual(s, t)
<1>1. /\ s \in Seq(Tx) /\ Once(s, C) /\ p.entries \subseteq Tx
      /\ ToSet(s) \subseteq p.entries \cup C
  BY DEF Listed
<1>2. r \in Seq(Tx) /\ Once(r, C) /\ ToSet(r) \subseteq ToSet(s)
  <2>1. CASE Equals(s, t) = {}
    BY <1>1, <2>1, RemoveEqualFinds
  <2>2. CASE Equals(s, t) # {}
    <3> DEFINE k == Min(Equals(s, t))
    <3>1. r = RemoveAt(s, k) /\ k \in 1 .. Len(s)
      BY <1>1, <2>2, RemoveEqualFinds
    <3> HIDE DEF k
    <3>2. LET q == RemoveAt(s, k) IN
          q \in Seq(Tx) /\ Once(q, C) /\ ToSet(q) \subseteq ToSet(s)
      BY <1>1, <3>1, RemovedIs
    <3> QED BY <3>1, <3>2
  <2> QED BY <2>1, <2>2
<1>3. CASE t \in p.entries
  <2>1. RemoveTx(p, t) = [entries |-> p.entries \ {t}, ordered |-> r]
    BY <1>3 DEF RemoveTx
  <2> HIDE DEF r
  <2> QED BY <1>1, <1>2, <2>1 DEF Listed, Once
<1>4. CASE t \notin p.entries
  <2>1. RemoveTx(p, t) = p /\ p.entries \ {t} = p.entries  BY <1>4 DEF RemoveTx
  <2> QED BY <1>1, <2>1 DEF Listed, Once
<1> QED BY <1>3, <1>4

(* remove_tx keeps a coherent pool coherent and in its order, if what it    *)
(* takes off the list is what it was asked for: no other that pays the same *)
(* is listed before it.                                                     *)
LEMMA RemoveTxIs ==
  ASSUME NEW p, Coherent(p), NEW t \in p.entries,
         \A u \in p.entries : Priority[u] = Priority[t] => ~ Precedes(p.ordered, u, t)
  PROVE  LET q == RemoveTx(p, t) IN
         /\ Coherent(q)
         /\ q.entries = p.entries \ {t}
         /\ \A u, v : Precedes(q.ordered, u, v) => Precedes(p.ordered, u, v)
         /\ ~ RemoveTxRaises(p, t)
<1> DEFINE s == p.ordered
           k == Min(Equals(s, t))
           q == RemoveTx(p, t)
<1>1. /\ p \in Pools /\ s \in Seq(Tx) /\ IsOrdered(s) /\ IsInjective(s) /\ ToSet(s) = p.entries
      /\ IsFiniteSet(p.entries) /\ Cardinality(p.entries) <= MaxSize /\ p.entries \subseteq Tx
      /\ MaxSize \in Nat
  BY PoolAssumption DEF Coherent, PoolAssumption
<1>2. ToSet(s) = {s[i] : i \in 1 .. Len(s)} /\ ToSet(s) \cap {} = {}
  BY <1>1, ToSetIs
<1>3. PICK i \in 1 .. Len(s) : s[i] = t
  BY <1>1, <1>2
<1>4. i \in Equals(s, t)
  BY <1>3 DEF Equals
<1>5. /\ RemoveEqual(s, t) = RemoveAt(s, k) /\ k \in 1 .. Len(s) /\ k <= i
      /\ Priority[s[k]] = Priority[t]
  <2>1. RemoveEqual(s, t) = RemoveAt(s, k) /\ k \in Equals(s, t) /\ k <= i
    BY <1>1, <1>4, RemoveEqualFinds
  <2> QED BY <2>1 DEF Equals
<1> HIDE DEF s, k
<1>6. s[k] = t
  <2>1. ~ Precedes(s, s[k], t)
    BY <1>1, <1>2, <1>5 DEF s
  <2>2. ~ (k < i)
    BY <1>3, <1>5, <2>1 DEF Precedes
  <2> QED BY <1>1, <1>3, <1>5, <2>2
<1>7. /\ q.entries = p.entries \ {t} /\ q.ordered = RemoveAt(s, k)
      /\ q = [entries |-> q.entries, ordered |-> q.ordered]
  BY <1>5 DEF RemoveTx, s
<1> HIDE DEF q
<1>8. Once(s, {})
  BY <1>1, <1>2, OnceIsInjective
<1>9. LET r == RemoveAt(s, k) IN
      /\ r \in Seq(Tx) /\ Once(r, {})
      /\ ToSet(s) \ {s[k]} \subseteq ToSet(r) /\ ToSet(r) \subseteq ToSet(s)
      /\ s[k] \notin {} => s[k] \notin ToSet(r)
      /\ \A u, v : Precedes(r, u, v) => Precedes(s, u, v)
      /\ IsOrdered(s) => IsOrdered(r)
  BY <1>1, <1>5, <1>8, RemovedIs
<1>10. ToSet(q.ordered) = q.entries /\ q.ordered \in Seq(Tx) /\ IsOrdered(q.ordered)
  BY <1>1, <1>6, <1>7, <1>9
<1>11. IsInjective(q.ordered)
  <2>1. ToSet(q.ordered) \cap {} = {}  OBVIOUS
  <2> QED BY <1>7, <1>9, <1>10, <2>1, OnceIsInjective
<1>12. IsFiniteSet(q.entries) /\ Cardinality(q.entries) <= MaxSize
  <2>1. IsFiniteSet(p.entries \ {t}) /\ Cardinality(p.entries \ {t}) = Cardinality(p.entries) - 1
        /\ Cardinality(p.entries) \in Nat
    BY <1>1, FS_RemoveElement, FS_CardinalityType
  <2> QED BY <1>1, <1>7, <2>1
<1>13. q \in Pools
  BY <1>1, <1>7, <1>10 DEF Pools
<1>14. ~ RemoveTxRaises(p, t)
  BY <1>2, <1>3 DEF RemoveTxRaises, s
<1> QED BY <1>7, <1>9, <1>10, <1>11, <1>12, <1>13, <1>14 DEF Coherent, q, s

-----------------------------------------------------------------------------
\* A round of remove_confirmed.
Removal(acc, t) ==
  IF acc.raised THEN acc
  ELSE [pool |-> RemoveTx(acc.pool, t), raised |-> RemoveTxRaises(acc.pool, t)]

Removals(G) == [pool : G, raised : BOOLEAN]

\* What remove_tx keeps.
Kept(G) == \A q \in G, t \in Tx : RemoveTx(q, t) \in G

\* The rounds, within what remove_tx keeps.
LEMMA RemoveRun ==
  ASSUME NEW G, Kept(G),
         NEW p \in G, NEW txs \in Seq(Tx)
  PROVE  \E r : /\ r[0] = [pool |-> p, raised |-> FALSE]
                /\ \A i \in 1 .. Len(txs) : r[i] = Removal(r[i - 1], txs[i])
                /\ \A i \in 0 .. Len(txs) : r[i] \in Removals(G)
                /\ RemoveConfirmed(p, txs) = r[Len(txs)].pool
<1> DEFINE n == Len(txs)
           H == Removals(G)
           first == [pool |-> p, raised |-> FALSE]
           f == [x \in H \X Tx |-> Removal(x[1], x[2])]
           Rounds(r) == r = [i \in 0 .. n |-> IF i = 0 THEN first ELSE Removal(r[i - 1], txs[i])]
           after == CHOOSE r : Rounds(r)
<1>1. n \in Nat /\ first \in H /\ \A i \in 1 .. n : txs[i] \in Tx
  BY DEF Removals
<1>2. ASSUME NEW a \in H, NEW t \in Tx PROVE Removal(a, t) \in H
  BY DEF Removal, Removals, RemoveTxRaises, Kept
<1> HIDE DEF H
<1>3. IsBody(f, H, Tx)
  BY <1>2 DEF IsBody
<1>4. RemoveConfirmed(p, txs) = after[n].pool
  BY DEF RemoveConfirmed, Along, Removal
<1> HIDE DEF first
<1>5. \E r : Rounds(r)
  <2>1. HasRun(f, H, first, txs)
    <3> HIDE DEF f
    <3> QED BY <1>1, <1>3, RunExists
  <2>2. PICK r \in [0 .. n -> H] : r[0] = first /\ \A i \in 1 .. n : r[i] = f[<<r[i - 1], txs[i]>>]
    <3> HIDE DEF f
    <3> QED BY <2>1 DEF HasRun
  <2>3. ASSUME NEW i \in 1 .. n PROVE r[i] = Removal(r[i - 1], txs[i])
    <3>0. i - 1 \in 0 .. n /\ txs[i] \in Tx  BY <1>1
    <3>1. <<r[i - 1], txs[i]>> \in H \X Tx  BY <2>2, <3>0
    <3> QED BY <2>2, <3>1
  <2>4. Rounds(r)
    BY <1>1, <2>2, <2>3
  <2> QED BY <2>4
<1>6. Rounds(after)
  <2> HIDE DEF Rounds
  <2> QED BY <1>5
<1>7. after[0] = first /\ \A i \in 1 .. n : after[i] = Removal(after[i - 1], txs[i])
  <2>1. 0 \in 0 .. n /\ \A i \in 1 .. n : i \in 0 .. n /\ i # 0  BY <1>1
  <2>2. after = [i \in 0 .. n |-> IF i = 0 THEN first ELSE Removal(after[i - 1], txs[i])]
    BY <1>6
  <2> HIDE DEF after, n
  <2> QED BY <2>1, <2>2
<1> HIDE DEF after
<1>8. \A i \in 0 .. n : after[i] \in H
  <2> DEFINE Good == {i \in 0 .. n : after[i] \in H}
  <2>1. 0 \in Good  BY <1>1, <1>7
  <2>2. ASSUME NEW i \in 1 .. n, i - 1 \in Good PROVE i \in Good
    <3>1. after[i - 1] \in H /\ txs[i] \in Tx /\ i \in 0 .. n
      BY <1>1, <2>2
    <3>2. after[i] = Removal(after[i - 1], txs[i])
      BY <1>7, <2>2
    <3>3. Removal(after[i - 1], txs[i]) \in H
      <4> HIDE DEF n, Good
      <4> QED BY <1>2, <3>1
    <3> QED BY <3>1, <3>2, <3>3
  <2>3. 0 .. n \subseteq Good
    <3> HIDE DEF Good, n
    <3> QED BY <1>1, <2>1, <2>2, Induct
  <2> QED BY <2>3
<1> QED BY <1>4, <1>7, <1>8 DEF H, first

\* remove_confirmed keeps what remove_tx keeps, whatever the block holds.
LEMMA RemoveConfirmedIn ==
  ASSUME NEW G, Kept(G),
         NEW p \in G, NEW txs \in Seq(Tx)
  PROVE  RemoveConfirmed(p, txs) \in G
<1>0. \E r : /\ r[0] = [pool |-> p, raised |-> FALSE]
             /\ \A i \in 1 .. Len(txs) : r[i] = Removal(r[i - 1], txs[i])
             /\ \A i \in 0 .. Len(txs) : r[i] \in Removals(G)
             /\ RemoveConfirmed(p, txs) = r[Len(txs)].pool
  BY RemoveRun
<1> HIDE DEF Pools
<1>1. PICK r : /\ r[0] = [pool |-> p, raised |-> FALSE]
               /\ \A i \in 1 .. Len(txs) : r[i] = Removal(r[i - 1], txs[i])
               /\ \A i \in 0 .. Len(txs) : r[i] \in Removals(G)
               /\ RemoveConfirmed(p, txs) = r[Len(txs)].pool
  BY <1>0
<1>2. Len(txs) \in 0 .. Len(txs)
  OBVIOUS
<1>3. PICK z : z = RemoveConfirmed(p, txs) /\ z = r[Len(txs)].pool /\ r[Len(txs)] \in Removals(G)
  BY <1>1, <1>2
<1> QED BY <1>3 DEF Removals

LEMMA RemoveTxInPools ==
  ASSUME NEW p \in Pools, NEW t \in Tx
  PROVE  RemoveTx(p, t) \in Pools
<1>1. Listed(p, Tx)
  <2>1. p.ordered \in Seq(Tx)  OBVIOUS
  <2>2. ToSet(p.ordered) \subseteq Tx /\ \A i \in 1 .. Len(p.ordered) : p.ordered[i] \in Tx
    BY <2>1, ToSetIs
  <2> QED BY <2>2 DEF Listed, Once
<1> QED BY <1>1, RemoveTxListed DEF Listed

LEMMA RemoveConfirmedInPools ==
  ASSUME NEW p \in Pools, NEW txs \in Seq(Tx)
  PROVE  RemoveConfirmed(p, txs) \in Pools
<1>1. Kept(Pools)
  BY RemoveTxInPools DEF Kept
<1> HIDE DEF Pools
<1> QED BY <1>1, RemoveConfirmedIn

\* What a block has is of no matter to the list any more.
LEMMA RemoveConfirmedListed ==
  ASSUME NEW C, NEW p, Listed(p, C), NEW txs \in Seq(Tx)
  PROVE  Listed(RemoveConfirmed(p, txs), C \cup ToSet(txs))
<1> DEFINE n == Len(txs)
           D == C \cup ToSet(txs)
<1>1. /\ n \in Nat /\ p \in Pools /\ ToSet(txs) = {txs[i] : i \in 1 .. n}
      /\ \A i \in 1 .. n : txs[i] \in Tx
  BY ToSetIs DEF Listed
<1>2. PICK r : /\ r[0] = [pool |-> p, raised |-> FALSE]
               /\ \A i \in 1 .. n : r[i] = Removal(r[i - 1], txs[i])
               /\ RemoveConfirmed(p, txs) = r[n].pool
  <2>1. Kept(Pools)
    BY RemoveTxInPools DEF Kept
  <2> HIDE DEF n, Pools
  <2>2. \E r : /\ r[0] = [pool |-> p, raised |-> FALSE]
               /\ \A i \in 1 .. Len(txs) : r[i] = Removal(r[i - 1], txs[i])
               /\ \A i \in 0 .. Len(txs) : r[i] \in Removals(Pools)
               /\ RemoveConfirmed(p, txs) = r[Len(txs)].pool
    BY <1>1, <2>1, RemoveRun
  <2> QED BY <2>2 DEF n
<1> DEFINE Good == {i \in 0 .. n : Listed(r[i].pool, D)}
<1>3. 0 \in Good
  <2>1. Listed(p, D)  BY ListedGrows
  <2> HIDE DEF n, D
  <2> QED BY <1>1, <1>2, <2>1
<1>4. ASSUME NEW i \in 1 .. n, i - 1 \in Good PROVE i \in Good
  <2>1. i \in 0 .. n /\ txs[i] \in Tx /\ D \cup {txs[i]} = D  BY <1>1
  <2>2. r[i] = Removal(r[i - 1], txs[i]) /\ Listed(r[i - 1].pool, D)  BY <1>2, <1>4
  <2>3. Listed(RemoveTx(r[i - 1].pool, txs[i]), D)
    <3> HIDE DEF D, n
    <3>1. PICK q, t : q = r[i - 1].pool /\ t = txs[i]  OBVIOUS
    <3>2. Listed(RemoveTx(q, t), D \cup {t})
      BY <2>1, <2>2, <3>1, RemoveTxListed
    <3> QED BY <2>1, <3>1, <3>2
  <2>4. r[i].pool \in {r[i - 1].pool, RemoveTx(r[i - 1].pool, txs[i])}
    BY <2>2 DEF Removal
  <2> HIDE DEF D, n
  <2> QED BY <2>1, <2>2, <2>3, <2>4
<1>5. n \in Good
  <2>1. 0 .. n \subseteq Good
    <3> HIDE DEF Good
    <3> QED BY <1>1, <1>3, <1>4, Induct
  <2> HIDE DEF Good, n
  <2> QED BY <1>1, <2>1
<1> QED BY <1>2, <1>5

-----------------------------------------------------------------------------
\* A round of select_transactions.
Choose(acc, t, c, b) ==
  IF Len(acc.txs) >= c \/ acc.bytes + Size[t] > b THEN acc
  ELSE [txs |-> Append(acc.txs, t), bytes |-> acc.bytes + Size[t]]

Chosen == [txs : Seq(Tx), bytes : Nat]

\* Its rounds.
LEMMA SelectRun ==
  ASSUME NEW p \in Pools, NEW c \in Nat, NEW b \in Nat
  PROVE  \E r : /\ r[0] = [txs |-> <<>>, bytes |-> 0]
                /\ \A i \in 1 .. Len(p.ordered) : r[i] = Choose(r[i - 1], p.ordered[i], c, b)
                /\ \A i \in 0 .. Len(p.ordered) : r[i] \in Chosen
                /\ SelectTransactions(p, c, b) = r[Len(p.ordered)].txs
<1> DEFINE s == p.ordered
           n == Len(s)
           G == Chosen
           none == [txs |-> <<>>, bytes |-> 0]
           f == [x \in G \X Tx |-> Choose(x[1], x[2], c, b)]
           Rounds(r) == r = [i \in 0 .. n |-> IF i = 0 THEN none ELSE Choose(r[i - 1], s[i], c, b)]
           after == CHOOSE r : Rounds(r)
<1>1. s \in Seq(Tx) /\ n \in Nat /\ none \in G /\ \A i \in 1 .. n : s[i] \in Tx
  BY DEF Chosen
<1>2. ASSUME NEW a \in G, NEW t \in Tx PROVE Choose(a, t, c, b) \in G
  BY PoolAssumption DEF PoolAssumption, Choose, Chosen
<1> HIDE DEF G
<1>3. IsBody(f, G, Tx)
  BY <1>2 DEF IsBody
<1>4. SelectTransactions(p, c, b) = after[n].txs
  BY DEF SelectTransactions, Along, Choose
<1> HIDE DEF none, s
<1>5. \E r : Rounds(r)
  <2>1. HasRun(f, G, none, s)
    <3> HIDE DEF f
    <3> QED BY <1>1, <1>3, RunExists
  <2>2. PICK r \in [0 .. n -> G] : r[0] = none /\ \A i \in 1 .. n : r[i] = f[<<r[i - 1], s[i]>>]
    <3> HIDE DEF f
    <3> QED BY <2>1 DEF HasRun
  <2>3. ASSUME NEW i \in 1 .. n PROVE r[i] = Choose(r[i - 1], s[i], c, b)
    <3>0. i - 1 \in 0 .. n /\ s[i] \in Tx  BY <1>1
    <3>1. <<r[i - 1], s[i]>> \in G \X Tx  BY <2>2, <3>0
    <3> QED BY <2>2, <3>1
  <2>4. Rounds(r)
    BY <1>1, <2>2, <2>3
  <2> QED BY <2>4
<1>6. Rounds(after)
  <2> HIDE DEF Rounds
  <2> QED BY <1>5
<1>7. after[0] = none /\ \A i \in 1 .. n : after[i] = Choose(after[i - 1], s[i], c, b)
  <2>1. 0 \in 0 .. n /\ \A i \in 1 .. n : i \in 0 .. n /\ i # 0  BY <1>1
  <2>2. after = [i \in 0 .. n |-> IF i = 0 THEN none ELSE Choose(after[i - 1], s[i], c, b)]
    BY <1>6
  <2> HIDE DEF after, n
  <2> QED BY <2>1, <2>2
<1> HIDE DEF after
<1>8. \A i \in 0 .. n : after[i] \in G
  <2> DEFINE Good == {i \in 0 .. n : after[i] \in G}
  <2>1. 0 \in Good  BY <1>1, <1>7
  <2>2. ASSUME NEW i \in 1 .. n, i - 1 \in Good PROVE i \in Good
    <3>1. after[i - 1] \in G /\ s[i] \in Tx /\ i \in 0 .. n
      BY <1>1, <2>2
    <3>2. after[i] = Choose(after[i - 1], s[i], c, b)
      BY <1>7, <2>2
    <3>3. Choose(after[i - 1], s[i], c, b) \in G
      <4> HIDE DEF G, n, Good
      <4> QED BY <1>2, <3>1
    <3> QED BY <3>1, <3>2, <3>3
  <2>3. 0 .. n \subseteq Good
    <3> HIDE DEF Good, n
    <3> QED BY <1>1, <2>1, <2>2, Induct
  <2> QED BY <2>3
<1> QED BY <1>4, <1>7, <1>8 DEF G, none, s

\* select_transactions returns transactions of the pool.
LEMMA SelectTransactionsIs ==
  ASSUME NEW p \in Pools, NEW c \in Nat, NEW b \in Nat
  PROVE  SelectTransactions(p, c, b) \in Seq(Tx)
<1> DEFINE n == Len(p.ordered)
<1>1. n \in 0 .. n
  OBVIOUS
<1>2. PICK r : /\ \A i \in 0 .. n : r[i] \in Chosen
               /\ SelectTransactions(p, c, b) = r[n].txs
  <2>1. \E r : /\ r[0] = [txs |-> <<>>, bytes |-> 0]
               /\ \A i \in 1 .. n : r[i] = Choose(r[i - 1], p.ordered[i], c, b)
               /\ \A i \in 0 .. n : r[i] \in Chosen
               /\ SelectTransactions(p, c, b) = r[n].txs
    BY SelectRun
  <2> HIDE DEF n
  <2> QED BY <2>1
<1> HIDE DEF n
<1> QED BY <1>1, <1>2 DEF Chosen

\* A list with one more that it does not hold.
LEMMA AppendedOnce ==
  ASSUME NEW S, NEW C, NEW s \in Seq(S), Once(s, C), NEW e \in S, e \notin ToSet(s) \/ e \in C
  PROVE  Once(Append(s, e), C) /\ ToSet(Append(s, e)) = ToSet(s) \cup {e}
<1> DEFINE n == Len(s)
           r == Append(s, e)
<1>1. /\ r \in Seq(S) /\ Len(r) = n + 1 /\ n \in Nat /\ r[n + 1] = e
      /\ \A i \in 1 .. n : r[i] = s[i]
  OBVIOUS
<1>2. /\ ToSet(s) = {s[i] : i \in 1 .. n}
      /\ \A i, j \in 1 .. n : s[i] = s[j] => i = j \/ s[i] \in C
  BY ToSetIs DEF Once
<1> HIDE DEF n, r
<1>3. ToSet(r) = {r[i] : i \in 1 .. n + 1}
  BY <1>1, ToSetIs
<1>4. \A i : i \in 1 .. n + 1 <=> i \in 1 .. n \/ i = n + 1
  BY <1>1
<1>5. ToSet(r) = ToSet(s) \cup {e}
  BY <1>1, <1>2, <1>3, <1>4
<1>6. \A i \in 1 .. n : s[i] # e \/ e \in C
  BY <1>2
<1>7. \A i, j \in 1 .. n + 1 : r[i] = r[j] => i = j \/ r[i] \in C
  BY <1>1, <1>2, <1>4, <1>6
<1>8. Once(r, C)
  BY <1>1, <1>7 DEF Once
<1> QED BY <1>5, <1>8 DEF r

\* What the list has once is selected at most once.
LEMMA SelectedOnce ==
  ASSUME NEW C, NEW p \in Pools, Once(p.ordered, C), NEW c \in Nat, NEW b \in Nat
  PROVE  /\ Once(SelectTransactions(p, c, b), C)
         /\ ToSet(SelectTransactions(p, c, b)) \subseteq ToSet(p.ordered)
<1> DEFINE s == p.ordered
           n == Len(s)
<1>1. PICK r : /\ r[0] = [txs |-> <<>>, bytes |-> 0]
               /\ \A i \in 1 .. n : r[i] = Choose(r[i - 1], s[i], c, b)
               /\ \A i \in 0 .. n : r[i] \in Chosen
               /\ SelectTransactions(p, c, b) = r[n].txs
  BY SelectRun
<1>2. /\ s \in Seq(Tx) /\ n \in Nat /\ ToSet(s) = {s[i] : i \in 1 .. n}
      /\ \A i \in 1 .. n : s[i] \in Tx
      /\ \A i, j \in 1 .. n : s[i] = s[j] => i = j \/ s[i] \in C
  BY ToSetIs DEF Once
<1> HIDE DEF s, n
<1> DEFINE To(i) == {s[j] : j \in 1 .. i}
           Good == {i \in 0 .. n : Once(r[i].txs, C) /\ ToSet(r[i].txs) \subseteq To(i)}
<1>3. 0 \in Good
  BY <1>1, <1>2 DEF Once, ToSet
<1>4. ASSUME NEW i \in 1 .. n, i - 1 \in Good PROVE i \in Good
  <2>1. i \in 0 .. n /\ i - 1 \in 0 .. n /\ s[i] \in Tx  BY <1>2
  <2>2. PICK acc, t : acc = r[i - 1] /\ t = s[i]  OBVIOUS
  <2>3. /\ r[i] = Choose(acc, t, c, b) /\ t \in Tx
        /\ acc.txs \in Seq(Tx) /\ Once(acc.txs, C) /\ ToSet(acc.txs) \subseteq To(i - 1)
    BY <1>1, <1>4, <2>1, <2>2 DEF Chosen
  <2>4. To(i) = To(i - 1) \cup {t} /\ (t \notin To(i - 1) \/ t \in C)
    <3>1. \A j : j \in 1 .. i <=> j \in 1 .. i - 1 \/ j = i  BY <1>2
    <3>2. \A j \in 1 .. i - 1 : j \in 1 .. n /\ j # i  BY <1>2
    <3> QED BY <1>2, <2>2, <3>1, <3>2
  <2> HIDE DEF To
  <2>5. CASE r[i] = acc
    BY <2>1, <2>3, <2>4, <2>5
  <2>6. CASE r[i].txs = Append(acc.txs, t)
    <3>1. t \notin ToSet(acc.txs) \/ t \in C  BY <2>3, <2>4
    <3>2. PICK q, l : q = acc.txs /\ l = r[i].txs  OBVIOUS
    <3>3. q \in Seq(Tx) /\ Once(q, C) /\ t \in Tx /\ (t \notin ToSet(q) \/ t \in C) /\ l = Append(q, t)
      BY <2>3, <2>6, <3>1, <3>2
    <3>4. Once(Append(q, t), C) /\ ToSet(Append(q, t)) = ToSet(q) \cup {t}
      BY <3>3, AppendedOnce
    <3>5. Once(l, C) /\ ToSet(l) = ToSet(q) \cup {t}
      BY <3>3, <3>4
    <3> QED BY <2>1, <2>3, <2>4, <3>2, <3>5
  <2>7. r[i] = acc \/ r[i].txs = Append(acc.txs, t)
    BY <2>3 DEF Choose
  <2> QED BY <2>5, <2>6, <2>7
<1>5. n \in Good
  <2>1. 0 .. n \subseteq Good
    <3> HIDE DEF Good
    <3> QED BY <1>2, <1>3, <1>4, Induct
  <2> HIDE DEF Good
  <2> QED BY <1>2, <2>1
<1>6. To(n) = ToSet(s)
  BY <1>2
<1> QED BY <1>1, <1>5, <1>6 DEF s

-----------------------------------------------------------------------------
(***************************************************************************)
(* Sums over finite sets.  The total of S under the weights w is the same  *)
(* in whatever order the elements are taken.                               *)
(***************************************************************************)
FiniteSubsets(U) == {S \in SUBSET U : IsFiniteSet(S)}

TotalOf(w, S) == MapThenSumSet(LAMBDA x : w[x], S)

\* Induction over finite sets, for a set G of them.
LEMMA FiniteInduct ==
  ASSUME NEW E, NEW G, {} \in G,
         \A T \in FiniteSubsets(E) : \A x \in E \ T : T \in G => T \cup {x} \in G
  PROVE  \A S \in FiniteSubsets(E) : S \in G
<1> DEFINE Reached(k) == \A S \in FiniteSubsets(E) : Cardinality(S) <= k => S \in G
<1>0. ASSUME NEW S \in FiniteSubsets(E)
      PROVE  /\ Cardinality(S) \in Nat /\ (Cardinality(S) = 0 => S = {})
             /\ \A x \in S : S \ {x} \in FiniteSubsets(E) /\ Cardinality(S \ {x}) = Cardinality(S) - 1
  BY FS_CardinalityType, FS_EmptySet, FS_RemoveElement DEF FiniteSubsets
<1>1. Reached(0)
  <2> SUFFICES ASSUME NEW S \in FiniteSubsets(E), Cardinality(S) <= 0 PROVE S \in G
    OBVIOUS
  <2>1. Cardinality(S) \in Nat /\ (Cardinality(S) = 0 => S = {})
    BY <1>0
  <2>2. Cardinality(S) = 0
    BY <2>1
  <2>3. S = {}
    BY <2>1, <2>2
  <2> QED BY <2>3
<1>2. ASSUME NEW k \in Nat, k # 0, Reached(k - 1) PROVE Reached(k)
  <2> SUFFICES ASSUME NEW S \in FiniteSubsets(E), Cardinality(S) <= k, S # {} PROVE S \in G
    OBVIOUS
  <2>1. PICK x : x \in S
    OBVIOUS
  <2>2. S \ {x} \in FiniteSubsets(E) /\ Cardinality(S \ {x}) <= k - 1 /\ x \in E
    <3>1. Cardinality(S \ {x}) = Cardinality(S) - 1 /\ Cardinality(S) \in Nat /\ S \ {x} \in FiniteSubsets(E)
      BY <1>0, <2>1
    <3>2. x \in E  BY <2>1 DEF FiniteSubsets
    <3> QED BY <3>1, <3>2
  <2>3. S \ {x} \in G
    BY <1>2, <2>2
  <2>4. (S \ {x}) \cup {x} = S
    BY <2>1
  <2>5. (S \ {x}) \cup {x} \in G
    BY <2>2, <2>3
  <2> QED BY <2>4, <2>5
<1> HIDE DEF Reached
<1>3. ASSUME NEW k \in Nat PROVE Reached(k)
  <2> DEFINE Good == {m \in 0 .. k : Reached(m)}
  <2>1. 0 \in Good  BY <1>1
  <2>2. ASSUME NEW m \in 1 .. k, m - 1 \in Good PROVE m \in Good
    BY <1>2, <2>2
  <2>3. 0 .. k \subseteq Good
    <3> HIDE DEF Good
    <3> QED BY <2>1, <2>2, Induct
  <2> QED BY <2>3
<1> QED BY <1>0, <1>3 DEF Reached

Additive(w, S, r) ==
  /\ r[{}] = 0
  /\ \A s \in SUBSET S :
       /\ r[s] \in Nat
       /\ \A y \in s : r[s] = w[y] + r[s \ {y}]

\* The weights can be added up in any order.
LEMMA AdditiveExists ==
  ASSUME NEW E, NEW w \in [E -> Nat], NEW S \in FiniteSubsets(E)
  PROVE  \E r : Additive(w, S, r)
<1> DEFINE G == {T \in FiniteSubsets(E) : \E r : Additive(w, T, r)}
<1>1. {} \in G
  <2> DEFINE r == [s \in {{}} |-> 0]
  <2>1. r[{}] = 0 /\ \A s \in SUBSET {} : s = {}
    OBVIOUS
  <2> HIDE DEF r
  <2>2. Additive(w, {}, r)
    BY <2>1 DEF Additive
  <2>3. {} \in FiniteSubsets(E)
    BY FS_EmptySet DEF FiniteSubsets
  <2> QED BY <2>2, <2>3
<1>2. ASSUME NEW T \in FiniteSubsets(E), NEW x \in E \ T, T \in G PROVE T \cup {x} \in G
  <2>1. PICK q : Additive(w, T, q)
    BY <1>2
  <2> DEFINE U == T \cup {x}
             r == [s \in SUBSET U |-> IF x \in s THEN w[x] + q[s \ {x}] ELSE q[s]]
  <2>2. U \in FiniteSubsets(E) /\ T \subseteq U
    BY FS_AddElement DEF FiniteSubsets
  <2>3. w[x] \in Nat /\ \A y \in U : w[y] \in Nat
    BY <2>2 DEF FiniteSubsets
  <2>4. /\ \A s \in SUBSET U : x \in s => r[s] = w[x] + q[s \ {x}]
        /\ \A s \in SUBSET U : x \notin s => r[s] = q[s]
        /\ \A s \in SUBSET U : s \ {x} \in SUBSET T
    OBVIOUS
  <2> HIDE DEF r
  <2>5. r[{}] = 0
    BY <2>1, <2>4 DEF Additive
  <2>6. ASSUME NEW s \in SUBSET U
        PROVE  /\ r[s] \in Nat
               /\ \A y \in s : r[s] = w[y] + r[s \ {y}]
    <3>1. s \ {x} \in SUBSET T /\ q[s \ {x}] \in Nat
      BY <2>1, <2>4 DEF Additive
    <3>2. CASE x \notin s
      <4>1. s \in SUBSET T /\ r[s] = q[s] /\ s \ {x} = s
        BY <2>4, <3>2
      <4>2. \A y \in s : s \ {y} \in SUBSET U /\ x \notin s \ {y}
        BY <3>2
      <4>3. \A y \in s : r[s \ {y}] = q[s \ {y}]
        BY <2>4, <4>2
      <4> QED BY <2>1, <4>1, <4>3 DEF Additive
    <3>3. CASE x \in s
      <4>1. r[s] = w[x] + q[s \ {x}]
        BY <2>4, <3>3
      <4>2. r[s] \in Nat
        BY <2>3, <3>1, <4>1
      <4>3. ASSUME NEW y \in s PROVE r[s] = w[y] + r[s \ {y}]
        <5>1. s \ {y} \in SUBSET U
          OBVIOUS
        <5>2. CASE y = x
          <6>1. r[s \ {x}] = q[s \ {x}]  BY <2>4, <5>1, <5>2
          <6> QED BY <4>1, <5>2, <6>1
        <5>3. CASE y # x
          <6>1. r[s \ {y}] = w[x] + q[(s \ {y}) \ {x}]
            BY <2>4, <3>3, <5>1, <5>3
          <6>2. y \in s \ {x} /\ (s \ {x}) \ {y} = (s \ {y}) \ {x} /\ (s \ {y}) \ {x} \in SUBSET T
            BY <3>1, <5>3
          <6>3. q[s \ {x}] = w[y] + q[(s \ {y}) \ {x}] /\ q[(s \ {y}) \ {x}] \in Nat
            BY <2>1, <3>1, <6>2 DEF Additive
          <6>4. w[y] \in Nat  BY <2>3
          <6> QED BY <2>3, <4>1, <6>1, <6>3, <6>4
        <5> QED BY <5>2, <5>3
      <4> QED BY <4>2, <4>3
    <3> QED BY <3>2, <3>3
  <2>7. Additive(w, U, r)
    BY <2>5, <2>6 DEF Additive
  <2> QED BY <2>2, <2>7
<1>3. S \in G
  <2>1. \A T \in FiniteSubsets(E) : \A x \in E \ T : T \in G => T \cup {x} \in G
    BY <1>2
  <2> HIDE DEF G
  <2> QED BY <1>1, <2>1, FiniteInduct
<1> QED BY <1>3

\* The order in which MapThenSumSet takes them.
AnyOf(s) == CHOOSE x \in s : TRUE

SumStep(w, r, s) == IF s = {} THEN 0 ELSE w[AnyOf(s)] + r[s \ {AnyOf(s)}]

Sums(w, S, r) == r = [s \in SUBSET S |-> SumStep(w, r, s)]

LEMMA TotalIs ==
  ASSUME NEW E, NEW w \in [E -> Nat], NEW S
  PROVE  TotalOf(w, S) = (CHOOSE r : Sums(w, S, r))[S]
BY DEF TotalOf, MapThenSumSet, MapThenFoldSet, Sums, SumStep, AnyOf

\* There are partial sums, and the last of them is the total.
LEMMA SumsExist ==
  ASSUME NEW E, NEW w \in [E -> Nat], NEW S \in FiniteSubsets(E), NEW r, Additive(w, S, r)
  PROVE  \E f : Sums(w, S, f)
<1> DEFINE h == [s \in SUBSET S |-> r[s]]
<1>1. ASSUME NEW s \in SUBSET S, s # {}
      PROVE  AnyOf(s) \in s /\ s \ {AnyOf(s)} \in SUBSET S
  BY <1>1 DEF AnyOf
<1>2. Sums(w, S, h)
  <2>1. \A s \in SUBSET S : h[s] = r[s]
    OBVIOUS
  <2>2. h = [s \in SUBSET S |-> h[s]]
    OBVIOUS
  <2> HIDE DEF h
  <2>3. ASSUME NEW s \in SUBSET S PROVE h[s] = SumStep(w, h, s)
    <3>1. CASE s = {}
      BY <2>1, <3>1 DEF SumStep, Additive
    <3>2. CASE s # {}
      <4>1. AnyOf(s) \in s /\ s \ {AnyOf(s)} \in SUBSET S  BY <1>1, <3>2
      <4>2. r[s] = w[AnyOf(s)] + r[s \ {AnyOf(s)}]  BY <4>1 DEF Additive
      <4> QED BY <2>1, <3>2, <4>1, <4>2 DEF SumStep
    <3> QED BY <3>1, <3>2
  <2>4. h = [s \in SUBSET S |-> SumStep(w, h, s)]
    BY <2>2, <2>3
  <2> QED BY <2>4 DEF Sums
<1> HIDE DEF h
<1> QED BY <1>2

LEMMA SumsAdd ==
  ASSUME NEW E, NEW w \in [E -> Nat], NEW S \in FiniteSubsets(E), NEW r, Additive(w, S, r),
         NEW f, Sums(w, S, f)
  PROVE  f[S] = r[S]
<1>1. ASSUME NEW s \in SUBSET S, s # {}
      PROVE  AnyOf(s) \in s /\ s \ {AnyOf(s)} \in SUBSET S
  BY <1>1 DEF AnyOf
<1>5. \A s \in SUBSET S : f[s] = SumStep(w, f, s)
  BY DEF Sums
<1>6. /\ Cardinality(S) \in Nat
      /\ \A s \in SUBSET S : IsFiniteSet(s) /\ Cardinality(s) \in Nat
  BY FS_CardinalityType, FS_Subset DEF FiniteSubsets
<1> DEFINE Same(k) == \A s \in SUBSET S : Cardinality(s) <= k => f[s] = r[s]
<1>7. Same(0)
  <2> SUFFICES ASSUME NEW s \in SUBSET S, Cardinality(s) <= 0 PROVE f[s] = r[s]
    OBVIOUS
  <2>1. s = {}  BY <1>6, FS_EmptySet
  <2> QED BY <1>5, <2>1 DEF SumStep, Additive
<1>8. ASSUME NEW k \in Nat, k # 0, Same(k - 1) PROVE Same(k)
  <2> SUFFICES ASSUME NEW s \in SUBSET S, Cardinality(s) <= k PROVE f[s] = r[s]
    OBVIOUS
  <2>1. CASE s = {}
    BY <1>5, <2>1 DEF SumStep, Additive
  <2>2. CASE s # {}
    <3>1. PICK x : x = AnyOf(s)
      OBVIOUS
    <3>2. x \in s /\ s \ {x} \in SUBSET S
      BY <1>1, <2>2, <3>1
    <3>3. Cardinality(s \ {x}) = Cardinality(s) - 1
      BY <1>6, <3>2, FS_RemoveElement
    <3>4. f[s \ {x}] = r[s \ {x}]
      BY <1>6, <1>8, <3>2, <3>3
    <3>5. f[s] = w[x] + f[s \ {x}]
      BY <1>5, <2>2, <3>1 DEF SumStep
    <3>6. r[s] = w[x] + r[s \ {x}]
      BY <3>2 DEF Additive
    <3> QED BY <3>4, <3>5, <3>6
  <2> QED BY <2>1, <2>2
<1> HIDE DEF Same
<1>9. Same(Cardinality(S))
  <2> DEFINE n == Cardinality(S)
             Good == {m \in 0 .. n : Same(m)}
  <2>0. n \in Nat  BY <1>6
  <2> HIDE DEF n
  <2>1. 0 \in Good  BY <1>7, <2>0
  <2>2. ASSUME NEW m \in 1 .. n, m - 1 \in Good PROVE m \in Good
    BY <1>8, <2>0, <2>2
  <2>3. 0 .. n \subseteq Good
    <3> HIDE DEF Good
    <3> QED BY <2>0, <2>1, <2>2, Induct
  <2> QED BY <2>0, <2>3 DEF n
<1> QED BY <1>6, <1>9 DEF Same

LEMMA TotalAdds ==
  ASSUME NEW E, NEW w \in [E -> Nat], NEW S \in FiniteSubsets(E), NEW r, Additive(w, S, r)
  PROVE  TotalOf(w, S) = r[S]
<1> DEFINE f == CHOOSE g : Sums(w, S, g)
<1>1. Sums(w, S, f)
  BY SumsExist
<1>2. TotalOf(w, S) = f[S]
  BY TotalIs
<1> HIDE DEF f
<1> QED BY <1>1, <1>2, SumsAdd

\* What satisfies the recursion gives the total.
LEMMA SumsAreTotal ==
  ASSUME NEW E, NEW w \in [E -> Nat], NEW S \in FiniteSubsets(E)
  PROVE  /\ \E f : Sums(w, S, f)
         /\ \A f : Sums(w, S, f) => f[S] = TotalOf(w, S)
<1>1. PICK r : Additive(w, S, r)
  BY AdditiveExists
<1> QED BY <1>1, SumsExist, SumsAdd, TotalAdds

\* A total is the weight of any of its elements and the total of the rest.
LEMMA TotalSplit ==
  ASSUME NEW E, NEW w \in [E -> Nat], NEW S \in FiniteSubsets(E)
  PROVE  /\ TotalOf(w, S) \in Nat
         /\ TotalOf(w, {}) = 0
         /\ \A x \in S : S \ {x} \in FiniteSubsets(E) /\ TotalOf(w, S) = w[x] + TotalOf(w, S \ {x})
<1>1. PICK r : Additive(w, S, r)
  BY AdditiveExists
<1>2. ASSUME NEW T \in SUBSET S PROVE T \in FiniteSubsets(E) /\ TotalOf(w, T) = r[T]
  <2>1. T \in FiniteSubsets(E)  BY FS_Subset DEF FiniteSubsets
  <2>2. Additive(w, T, r)  BY <1>1 DEF Additive
  <2> QED BY <2>1, <2>2, TotalAdds
<1>3. TotalOf(w, S) = r[S] /\ TotalOf(w, {}) = r[{}]
  BY <1>2
<1>4. \A x \in S : S \ {x} \in FiniteSubsets(E) /\ TotalOf(w, S \ {x}) = r[S \ {x}]
  BY <1>2
<1> QED BY <1>1, <1>3, <1>4 DEF Additive

\* The total of two sets apart is the sum of theirs.
LEMMA TotalOfUnion ==
  ASSUME NEW E, NEW w \in [E -> Nat], NEW A \in FiniteSubsets(E), NEW B \in FiniteSubsets(E), A \cap B = {}
  PROVE  A \cup B \in FiniteSubsets(E) /\ TotalOf(w, A \cup B) = TotalOf(w, A) + TotalOf(w, B)
<1> DEFINE G == {T \in FiniteSubsets(E) : A \cap T = {} =>
                   A \cup T \in FiniteSubsets(E) /\ TotalOf(w, A \cup T) = TotalOf(w, A) + TotalOf(w, T)}
<1>1. {} \in G
  <2>1. {} \in FiniteSubsets(E)  BY FS_EmptySet DEF FiniteSubsets
  <2>2. TotalOf(w, {}) = 0 /\ TotalOf(w, A) \in Nat /\ A \cup {} = A  BY TotalSplit
  <2> QED BY <2>1, <2>2
<1>2. ASSUME NEW T \in FiniteSubsets(E), NEW x \in E \ T, T \in G PROVE T \cup {x} \in G
  <2>1. T \cup {x} \in FiniteSubsets(E)
    BY FS_AddElement DEF FiniteSubsets
  <2> SUFFICES ASSUME A \cap (T \cup {x}) = {}
               PROVE  /\ A \cup (T \cup {x}) \in FiniteSubsets(E)
                      /\ TotalOf(w, A \cup (T \cup {x})) = TotalOf(w, A) + TotalOf(w, T \cup {x})
    BY <2>1
  <2>2. A \cup T \in FiniteSubsets(E) /\ TotalOf(w, A \cup T) = TotalOf(w, A) + TotalOf(w, T)
    BY <1>2
  <2>3. A \cup (T \cup {x}) \in FiniteSubsets(E)
    <3>1. A \cup (T \cup {x}) = (A \cup T) \cup {x}  OBVIOUS
    <3>2. (A \cup T) \cup {x} \in FiniteSubsets(E)
      BY <2>2, FS_AddElement DEF FiniteSubsets
    <3> QED BY <3>1, <3>2
  <2>4. (A \cup (T \cup {x})) \ {x} = A \cup T /\ (T \cup {x}) \ {x} = T
    BY <1>2
  <2>5. TotalOf(w, A \cup (T \cup {x})) = w[x] + TotalOf(w, A \cup T)
    BY <2>3, <2>4, TotalSplit
  <2>6. TotalOf(w, T \cup {x}) = w[x] + TotalOf(w, T)
    BY <2>1, <2>4, TotalSplit
  <2>7. TotalOf(w, A) \in Nat /\ TotalOf(w, T) \in Nat /\ w[x] \in Nat
    BY TotalSplit
  <2> QED BY <2>2, <2>3, <2>5, <2>6, <2>7
<1>3. B \in G
  <2>1. \A T \in FiniteSubsets(E) : \A x \in E \ T : T \in G => T \cup {x} \in G
    BY <1>2
  <2> HIDE DEF G
  <2> QED BY <1>1, <2>1, FiniteInduct
<1> QED BY <1>3

\* A part has no greater total, and two sets that overlap none greater than the sum.
LEMMA TotalBounds ==
  ASSUME NEW E, NEW w \in [E -> Nat], NEW A \in FiniteSubsets(E), NEW B \in FiniteSubsets(E)
  PROVE  /\ A \cup B \in FiniteSubsets(E)
         /\ TotalOf(w, A \cup B) <= TotalOf(w, A) + TotalOf(w, B)
         /\ \A C \in SUBSET A : /\ C \in FiniteSubsets(E)
                                /\ TotalOf(w, A) = TotalOf(w, A \ C) + TotalOf(w, C)
                                /\ TotalOf(w, C) <= TotalOf(w, A)
<1>1. ASSUME NEW S \in FiniteSubsets(E), NEW C \in SUBSET S
      PROVE  /\ C \in FiniteSubsets(E) /\ S \ C \in FiniteSubsets(E)
             /\ TotalOf(w, S) = TotalOf(w, S \ C) + TotalOf(w, C)
             /\ TotalOf(w, C) <= TotalOf(w, S)
  <2>1. C \in FiniteSubsets(E) /\ S \ C \in FiniteSubsets(E)
    BY FS_Subset DEF FiniteSubsets
  <2>2. (S \ C) \cap C = {} /\ (S \ C) \cup C = S
    OBVIOUS
  <2>3. TotalOf(w, (S \ C) \cup C) = TotalOf(w, S \ C) + TotalOf(w, C)
    BY <2>1, <2>2, TotalOfUnion
  <2>4. TotalOf(w, S \ C) \in Nat /\ TotalOf(w, C) \in Nat
    BY <2>1, TotalSplit
  <2>5. TotalOf(w, S) = TotalOf(w, S \ C) + TotalOf(w, C)
    BY <2>2, <2>3
  <2> QED BY <2>1, <2>4, <2>5
<1>2. B \ A \in FiniteSubsets(E) /\ TotalOf(w, B \ A) <= TotalOf(w, B)
  <2>1. B \ A \in SUBSET B  OBVIOUS
  <2> QED BY <1>1, <2>1
<1>3. A \cap (B \ A) = {} /\ A \cup (B \ A) = A \cup B
  OBVIOUS
<1>4. A \cup (B \ A) \in FiniteSubsets(E) /\ TotalOf(w, A \cup (B \ A)) = TotalOf(w, A) + TotalOf(w, B \ A)
  BY <1>2, <1>3, TotalOfUnion
<1>5. TotalOf(w, A) \in Nat /\ TotalOf(w, B) \in Nat /\ TotalOf(w, B \ A) \in Nat
  BY <1>2, TotalSplit
<1>6. A \cup B \in FiniteSubsets(E) /\ TotalOf(w, A \cup B) <= TotalOf(w, A) + TotalOf(w, B)
  <2>1. A \cup B \in FiniteSubsets(E) /\ TotalOf(w, A \cup B) = TotalOf(w, A) + TotalOf(w, B \ A)
    BY <1>3, <1>4
  <2> QED BY <1>2, <1>5, <2>1
<1> QED BY <1>1, <1>6

=============================================================================
