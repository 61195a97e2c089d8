-------------------------- MODULE NLifecycleProofs --------------------------
(***************************************************************************)
(* The corridor, the audit log and the parameters of NLifecycle, for every *)
(* list of addresses, every corridor and every history of parameters.  The *)
(* constants of MempoolOps come with OpsProofs and are not used.           *)
(***************************************************************************)
EXTENDS NLifecycle, OpsProofs

-----------------------------------------------------------------------------
(* The supply is the last value of a running sum over the addresses.        *)
LEMMA SupplyRun ==
  ASSUME NEW b \in [Address -> Int]
  PROVE  \E r : /\ r \in [0 .. Len(Addresses) -> Int]
                /\ r[0] = 0
                /\ \A i \in 1 .. Len(Addresses) : r[i] = r[i - 1] + b[Addresses[i]]
                /\ Supply(b) = r[Len(Addresses)]
<1> DEFINE s == Addresses
           n == Len(s)
           f == [x \in Int \X Address |-> x[1] + b[x[2]]]
           Rounds(r) == r = [i \in 0 .. n |-> IF i = 0 THEN 0 ELSE r[i - 1] + b[s[i]]]
           after == CHOOSE r : Rounds(r)
<1>1. s \in Seq(Address) /\ n \in Nat /\ \A i \in 1 .. n : s[i] \in Address
  BY LifecycleAssumption DEF LifecycleAssumption, IsInjective, Address, ToSet
<1>2. IsBody(f, Int, Address)
  BY DEF IsBody
<1>3. Supply(b) = after[n]
  BY DEF Supply, Along
<1> HIDE DEF s
<1>4. \E r : Rounds(r)
  <2>1. HasRun(f, Int, 0, s)
    <3> DEFINE Z == Int
               zero == 0
    <3>1. zero \in Z /\ IsBody(f, Z, Address)  BY <1>2
    <3> HIDE DEF f, Z, zero
    <3>2. HasRun(f, Z, zero, s)  BY <1>1, <3>1, RunExists
    <3> QED BY <3>2 DEF Z, zero
  <2>2. PICK r \in [0 .. n -> Int] : r[0] = 0 /\ \A i \in 1 .. n : r[i] = f[<<r[i - 1], s[i]>>]
    <3> HIDE DEF f
    <3> QED BY <2>1 DEF HasRun
  <2>3. ASSUME NEW i \in 1 .. n PROVE r[i] = r[i - 1] + b[s[i]]
    <3>0. i - 1 \in 0 .. n /\ s[i] \in Address  BY <1>1
    <3>1. <<r[i - 1], s[i]>> \in Int \X Address  BY <2>2, <3>0
    <3> QED BY <2>2, <3>1
  <2>4. Rounds(r)
    BY <1>1, <2>2, <2>3
  <2> QED BY <2>4
<1>5. Rounds(after)
  <2> HIDE DEF Rounds
  <2> QED BY <1>4
<1>6. after[0] = 0 /\ \A i \in 1 .. n : after[i] = after[i - 1] + b[s[i]]
  <2>1. 0 \in 0 .. n /\ \A i \in 1 .. n : i \in 0 .. n /\ i # 0  BY <1>1
  <2>2. after = [i \in 0 .. n |-> IF i = 0 THEN 0 ELSE after[i - 1] + b[s[i]]]
    BY <1>5
  <2> HIDE DEF after, n
  <2> QED BY <2>1, <2>2
<1>7. DOMAIN after = 0 .. n /\ after = [i \in 0 .. n |-> after[i]]
  BY <1>5
<1> HIDE DEF after
<1>8. ASSUME NEW k \in 0 .. n PROVE after[k] \in Int
  <2>1. k \in Nat /\ 1 .. k \subseteq 1 .. n  BY <1>1
  <2>2. ASSUME NEW i \in 1 .. k, after[i - 1] \in Int PROVE after[i] \in Int
    <3>1. i \in 1 .. n /\ s[i] \in Address  BY <1>1, <2>1
    <3>2. after[i] = after[i - 1] + b[s[i]] /\ b[s[i]] \in Int  BY <1>6, <3>1
    <3> QED BY <2>2, <3>2
  <2>3. after[0] \in Int  BY <1>6
  <2> QED BY <2>1, <2>2, <2>3, LoopIn
<1>9. after \in [0 .. n -> Int]
  BY <1>7, <1>8
<1> QED BY <1>3, <1>6, <1>9 DEF s

LEMMA SupplyIsNat ==
  ASSUME NEW b \in [Address -> Nat]
  PROVE  Supply(b) \in Nat
<1>1. b \in [Address -> Int]
  OBVIOUS
<1>2. PICK r : /\ r \in [0 .. Len(Addresses) -> Int]
               /\ r[0] = 0
               /\ \A i \in 1 .. Len(Addresses) : r[i] = r[i - 1] + b[Addresses[i]]
               /\ Supply(b) = r[Len(Addresses)]
  BY <1>1, SupplyRun
<1>3. Len(Addresses) \in Nat /\ \A i \in 1 .. Len(Addresses) : Addresses[i] \in Address
  BY LifecycleAssumption DEF LifecycleAssumption, IsInjective, Address, ToSet
<1>4. ASSUME NEW i \in 1 .. Len(Addresses), r[i - 1] \in Nat PROVE r[i] \in Nat
  <2>1. Addresses[i] \in Address  BY <1>3
  <2>2. r[i] = r[i - 1] + b[Addresses[i]] /\ b[Addresses[i]] \in Nat  BY <1>2, <2>1
  <2> QED BY <1>4, <2>2
<1>5. r[Len(Addresses)] \in Nat
  <2> DEFINE N == Nat
  <2>1. Len(Addresses) \in Nat /\ r[0] \in N  BY <1>2, <1>3
  <2>2. \A i \in 1 .. Len(Addresses) : r[i - 1] \in N => r[i] \in N  BY <1>4
  <2> HIDE DEF N
  <2>3. r[Len(Addresses)] \in N  BY <2>1, <2>2, LoopIn
  <2> QED BY <2>3 DEF N
<1> QED BY <1>2, <1>5

(* One balance that changes changes the supply by as much.                  *)
LEMMA SupplyChange ==
  ASSUME NEW b \in [Address -> Int], NEW c \in [Address -> Int], NEW a \in Address,
         NEW d \in Int, c[a] = b[a] + d, \A o \in Address \ {a} : c[o] = b[o]
  PROVE  Supply(c) = Supply(b) + d
<1> DEFINE s == Addresses
           n == Len(s)
<1>1. /\ n \in Nat /\ \A i \in 1 .. n : s[i] \in Address
      /\ \A i, j \in 1 .. n : s[i] = s[j] => i = j
      /\ \E k \in 1 .. n : s[k] = a
  BY LifecycleAssumption DEF LifecycleAssumption, IsInjective, Address, ToSet
<1>2. PICK k \in 1 .. n : s[k] = a
  BY <1>1
<1>3. PICK r : /\ r \in [0 .. n -> Int] /\ r[0] = 0
               /\ \A i \in 1 .. n : r[i] = r[i - 1] + b[s[i]]
               /\ Supply(b) = r[n]
  BY SupplyRun
<1>4. PICK q : /\ q \in [0 .. n -> Int] /\ q[0] = 0
               /\ \A i \in 1 .. n : q[i] = q[i - 1] + c[s[i]]
               /\ Supply(c) = q[n]
  BY SupplyRun
<1> DEFINE Good == {i \in 0 .. n : q[i] = r[i] + (IF k <= i THEN d ELSE 0)}
<1>5. 0 \in Good
  BY <1>1, <1>2, <1>3, <1>4
<1>6. ASSUME NEW i \in 1 .. n, i - 1 \in Good PROVE i \in Good
  <2>0. i \in 0 .. n /\ i - 1 \in 0 .. n /\ s[i] \in Address
    BY <1>1
  <2>1. q[i - 1] = r[i - 1] + (IF k <= i - 1 THEN d ELSE 0)
    BY <1>6
  <2>2. r[i - 1] \in Int /\ r[i] = r[i - 1] + b[s[i]] /\ b[s[i]] \in Int
    BY <1>3, <2>0
  <2>3. q[i] = q[i - 1] + c[s[i]]
    BY <1>4
  <2>4. CASE i = k
    <3>1. c[s[i]] = b[s[i]] + d  BY <1>2, <2>4
    <3>2. q[i - 1] = r[i - 1]  BY <2>1, <2>2, <2>4
    <3> QED BY <2>0, <2>2, <2>3, <2>4, <3>1, <3>2
  <2>5. CASE i # k
    <3>1. s[i] # a  BY <1>1, <1>2, <2>5
    <3>2. c[s[i]] = b[s[i]]  BY <2>0, <3>1
    <3>3. k <= i <=> k <= i - 1  BY <1>1, <2>5
    <3> QED BY <2>0, <2>1, <2>2, <2>3, <3>2, <3>3
  <2> QED BY <2>4, <2>5
<1>7. 0 .. n \subseteq Good
  <2> HIDE DEF Good, n
  <2> QED BY <1>1, <1>5, <1>6, Induct
<1>8. n \in Good /\ k <= n
  BY <1>1, <1>7
<1> QED BY <1>3, <1>4, <1>8

-----------------------------------------------------------------------------
(* What a log explains is the last value of a running sum over its rows.    *)
LEMMA ExplainedRun ==
  ASSUME NEW rows \in Seq(Entry)
  PROVE  \E r : /\ r \in [0 .. Len(rows) -> Int]
                /\ r[0] = 0
                /\ \A i \in 1 .. Len(rows) : r[i] = Account(r[i - 1], rows[i])
                /\ Explained(rows) = r[Len(rows)]
<1> DEFINE n == Len(rows)
           f == [x \in Int \X Entry |-> Account(x[1], x[2])]
           Rounds(r) == r = [i \in 0 .. n |-> IF i = 0 THEN 0 ELSE Account(r[i - 1], rows[i])]
           after == CHOOSE r : Rounds(r)
<1>1. n \in Nat /\ \A i \in 1 .. n : rows[i] \in Entry
  OBVIOUS
<1>0. ASSUME NEW z \in Int, NEW e \in Entry PROVE Account(z, e) \in Int
  BY DEF Account, Entry
<1>2. IsBody(f, Int, Entry)
  BY <1>0 DEF IsBody
<1>3. Explained(rows) = after[n]
  BY DEF Explained, Along
<1>4. \E r : Rounds(r)
  <2>1. HasRun(f, Int, 0, rows)
    <3> DEFINE Z == Int
               zero == 0
    <3>1. zero \in Z /\ IsBody(f, Z, Entry)  BY <1>2
    <3> HIDE DEF f, Z, zero
    <3>2. HasRun(f, Z, zero, rows)  BY <1>1, <3>1, RunExists
    <3> QED BY <3>2 DEF Z, zero
  <2>2. PICK r \in [0 .. n -> Int] : r[0] = 0 /\ \A i \in 1 .. n : r[i] = f[<<r[i - 1], rows[i]>>]
    <3> HIDE DEF f
    <3> QED BY <2>1 DEF HasRun
  <2>3. ASSUME NEW i \in 1 .. n PROVE r[i] = Account(r[i - 1], rows[i])
    <3>0. i - 1 \in 0 .. n /\ rows[i] \in Entry  BY <1>1
    <3>1. <<r[i - 1], rows[i]>> \in Int \X Entry  BY <2>2, <3>0
    <3> QED BY <2>2, <3>1
  <2>4. Rounds(r)
    BY <1>1, <2>2, <2>3
  <2> QED BY <2>4
<1>5. Rounds(after)
  <2> HIDE DEF Rounds
  <2> QED BY <1>4
<1>6. after[0] = 0 /\ \A i \in 1 .. n : after[i] = Account(after[i - 1], rows[i])
  <2>1. 0 \in 0 .. n /\ \A i \in 1 .. n : i \in 0 .. n /\ i # 0  BY <1>1
  <2>2. after = [i \in 0 .. n |-> IF i = 0 THEN 0 ELSE Account(after[i - 1], rows[i])]
    BY <1>5
  <2> HIDE DEF after, n
  <2> QED BY <2>1, <2>2
<1>7. DOMAIN after = 0 .. n /\ after = [i \in 0 .. n |-> after[i]]
  BY <1>5
<1> HIDE DEF after
<1>8. ASSUME NEW k \in 0 .. n PROVE after[k] \in Int
  <2>1. k \in Nat /\ 1 .. k \subseteq 1 .. n  BY <1>1
  <2>2. \A i \in 1 .. k : after[i - 1] \in Int => after[i] \in Int
    BY <1>0, <1>1, <1>6, <2>1
  <2>3. after[0] \in Int  BY <1>6
  <2> QED BY <2>1, <2>2, <2>3, LoopIn
<1>9. after \in [0 .. n -> Int]
  BY <1>7, <1>8
<1> QED BY <1>3, <1>6, <1>9

(* A new row is accounted for on top of the others.                         *)
LEMMA ExplainedAppend ==
  ASSUME NEW rows \in Seq(Entry), NEW e \in Entry
  PROVE  Explained(Append(rows, e)) = Account(Explained(rows), e)
<1> DEFINE n == Len(rows)
           all == Append(rows, e)
<1>1. /\ n \in Nat /\ all \in Seq(Entry) /\ Len(all) = n + 1 /\ all[n + 1] = e
      /\ \A i \in 1 .. n : all[i] = rows[i]
  OBVIOUS
<1>2. PICK r : /\ r \in [0 .. n -> Int] /\ r[0] = 0
               /\ \A i \in 1 .. n : r[i] = Account(r[i - 1], rows[i])
               /\ Explained(rows) = r[n]
  BY ExplainedRun
<1> HIDE DEF all
<1>3. PICK q : /\ q \in [0 .. Len(all) -> Int] /\ q[0] = 0
               /\ \A i \in 1 .. Len(all) : q[i] = Account(q[i - 1], all[i])
               /\ Explained(all) = q[Len(all)]
  BY <1>1, ExplainedRun
<1> DEFINE Good == {i \in 0 .. n : q[i] = r[i]}
<1>4. 0 \in Good
  BY <1>1, <1>2, <1>3
<1>5. ASSUME NEW i \in 1 .. n, i - 1 \in Good PROVE i \in Good
  <2>1. i \in 1 .. Len(all) /\ i \in 0 .. n  BY <1>1
  <2>2. q[i - 1] = r[i - 1]  BY <1>5
  <2>3. q[i] = Account(q[i - 1], all[i]) /\ all[i] = rows[i] /\ r[i] = Account(r[i - 1], rows[i])
    BY <1>1, <1>2, <1>3, <2>1
  <2> QED BY <2>1, <2>2, <2>3
<1>6. 0 .. n \subseteq Good
  <2> HIDE DEF Good, n
  <2> QED BY <1>1, <1>4, <1>5, Induct
<1>7. q[n] = r[n]
  BY <1>1, <1>6
<1>8. q[n + 1] = Account(q[n], e)
  <2>1. n + 1 \in 1 .. Len(all) /\ (n + 1) - 1 = n  BY <1>1
  <2>2. q[n + 1] = Account(q[(n + 1) - 1], all[n + 1])  BY <1>3, <2>1
  <2> QED BY <1>1, <2>1, <2>2
<1> QED BY <1>1, <1>2, <1>3, <1>7, <1>8 DEF all

LEMMA ExplainedEmpty == Explained(<<>>) = 0
<1>1. <<>> \in Seq(Entry) /\ Len(<<>>) = 0
  OBVIOUS
<1> QED BY <1>1, ExplainedRun

-----------------------------------------------------------------------------
(***************************************************************************)
(* The inductive invariant: types, the ceiling and the audit.  The ceiling *)
(* is inductive only with the types (a sum over naturals), the rows of the *)
(* log only with the supply explained by the whole of it.                  *)
(***************************************************************************)
LifecycleInv == TypeOK /\ SupplyBounded /\ AuditExplainsSupply

\* What a recorded operation does to the log.
LEMMA AuditIs ==
  ASSUME TypeOK, AuditExplainsSupply, NEW op \in {"MINT", "REPLENISH", "BURN", "TRANSFER"},
         NEW a \in Address, NEW amount \in Nat, Audit(op, a, amount),
         balance' \in [Address -> Nat],
         Supply(balance') =
           CASE op \in {"MINT", "REPLENISH"} -> Supply(balance) + amount
             [] op = "BURN" -> Supply(balance) - amount
             [] op = "TRANSFER" -> Supply(balance)
  PROVE  log' \in Seq(Entry) /\ AuditExplainsSupply'
<1> DEFINE e == [op |-> op, address |-> a, amount |-> amount, circulating |-> Supply(balance')]
           n == Len(log)
<1>1. Supply(balance') \in Nat
  BY SupplyIsNat
<1>2. e \in Entry
  BY <1>1 DEF Entry
<1>3. log' = Append(log, e)
  BY DEF Audit
<1>4. log \in Seq(Entry) /\ n \in Nat
  BY DEF TypeOK
<1>5. log' \in Seq(Entry) /\ Len(log') = n + 1 /\ log'[n + 1] = e /\ \A i \in 1 .. n : log'[i] = log[i]
  <2> HIDE DEF e
  <2> QED BY <1>2, <1>3, <1>4
<1>6. Supply(balance') = Explained(log')
  <2>1. Explained(log') = Account(Explained(log), e)
    <3> HIDE DEF e
    <3> QED BY <1>2, <1>3, <1>4, ExplainedAppend
  <2>2. Explained(log) = Supply(balance)
    BY DEF AuditExplainsSupply
  <2>3. Account(Supply(balance), e) = Supply(balance')
    BY DEF Account
  <2> QED BY <2>1, <2>2, <2>3
<1>7. ASSUME NEW i \in 1 .. n + 1
      PROVE  log'[i].circulating = Explained(SubSeq(log', 1, i))
  <2>1. CASE i = n + 1
    <3>1. SubSeq(log', 1, i) = log'
      BY <1>4, <1>5, <2>1, SubSeqFull
    <3>2. log'[i].circulating = Supply(balance')  BY <1>5, <2>1
    <3> QED BY <1>6, <3>1, <3>2
  <2>2. CASE i # n + 1
    <3>1. i \in 1 .. n  BY <1>4, <2>2
    <3>2. SubSeq(log', 1, i) = SubSeq(log, 1, i)
      <4> HIDE DEF e, n
      <4>1. \A k \in 1 .. i : k \in 1 .. n  BY <1>4, <3>1
      <4>2. /\ SubSeq(log, 1, i) \in Seq(Entry) /\ Len(SubSeq(log, 1, i)) = i
            /\ \A k \in 1 .. i : SubSeq(log, 1, i)[k] = log[k]
        BY <1>4, <3>1, SubSeqProperties DEF n
      <4>3. /\ SubSeq(log', 1, i) \in Seq(Entry) /\ Len(SubSeq(log', 1, i)) = i
            /\ \A k \in 1 .. i : SubSeq(log', 1, i)[k] = log'[k]
        BY <1>4, <1>5, <3>1, SubSeqProperties
      <4>4. \A k \in 1 .. i : SubSeq(log', 1, i)[k] = SubSeq(log, 1, i)[k]
        BY <1>5, <4>1, <4>2, <4>3
      <4> QED BY <4>2, <4>3, <4>4, SeqEqual
    <3>3. log'[i] = log[i]  BY <1>5, <3>1
    <3>4. log[i].circulating = Explained(SubSeq(log, 1, i))
      BY <3>1 DEF AuditExplainsSupply
    <3> QED BY <3>2, <3>3, <3>4
  <2> QED BY <2>1, <2>2
<1>8. AuditExplainsSupply'
  BY <1>5, <1>6, <1>7 DEF AuditExplainsSupply
<1> QED BY <1>5, <1>8

\* An issuance, once for mint and replenish.
LEMMA IssueIs ==
  ASSUME LifecycleInv, NEW a \in Address, NEW amount \in Amount, NEW sigs,
         Mint(a, amount, sigs) \/ Replenish(a, amount, sigs)
  PROVE  /\ balance' \in [Address -> Nat] /\ log' \in Seq(Entry)
         /\ Supply(balance') = Supply(balance) + amount
         /\ SupplyBounded' /\ AuditExplainsSupply'
<1>1. balance \in [Address -> Nat] /\ amount \in Nat /\ TypeOK /\ AuditExplainsSupply
  BY LifecycleAssumption DEF LifecycleInv, TypeOK, LifecycleAssumption
<1>2. /\ balance' = [balance EXCEPT ![a] = @ + amount] /\ BelowCeiling(amount)
      /\ Audit("MINT", a, amount) \/ Audit("REPLENISH", a, amount)
  BY DEF Mint, Replenish
<1>3. balance' \in [Address -> Nat]
  BY <1>1, <1>2
<1>4. Supply(balance') = Supply(balance) + amount
  <2>1. /\ balance \in [Address -> Int] /\ balance' \in [Address -> Int] /\ amount \in Int
        /\ balance'[a] = balance[a] + amount
        /\ \A o \in Address \ {a} : balance'[o] = balance[o]
    BY <1>1, <1>2, <1>3
  <2> QED BY <2>1, SupplyChange
<1>5. SupplyBounded'
  BY <1>2, <1>4 DEF BelowCeiling, SupplyBounded
<1>6. log' \in Seq(Entry) /\ AuditExplainsSupply'
  BY <1>1, <1>2, <1>3, <1>4, AuditIs
<1> QED BY <1>3, <1>4, <1>5, <1>6

LEMMA BurnIs ==
  ASSUME LifecycleInv, NEW a \in Address, NEW amount \in Amount, NEW sigs, Burn(a, amount, sigs)
  PROVE  /\ balance' \in [Address -> Nat] /\ log' \in Seq(Entry)
         /\ Supply(balance') = Supply(balance) - amount
         /\ SupplyBounded' /\ AuditExplainsSupply'
<1>1. balance \in [Address -> Nat] /\ amount \in Nat /\ TypeOK /\ AuditExplainsSupply
  BY LifecycleAssumption DEF LifecycleInv, TypeOK, LifecycleAssumption
<1>2. balance' = [balance EXCEPT ![a] = @ - amount] /\ balance[a] >= amount /\ Audit("BURN", a, amount)
  BY DEF Burn, Covers
<1>3. balance' \in [Address -> Nat]
  BY <1>1, <1>2
<1>4. Supply(balance') = Supply(balance) - amount
  <2>1. /\ balance \in [Address -> Int] /\ balance' \in [Address -> Int] /\ -amount \in Int
        /\ balance'[a] = balance[a] + (-amount)
        /\ \A o \in Address \ {a} : balance'[o] = balance[o]
    BY <1>1, <1>2, <1>3
  <2>2. Supply(balance') = Supply(balance) + (-amount)
    BY <2>1, SupplyChange
  <2>3. Supply(balance) \in Nat  BY <1>1, SupplyIsNat
  <2> QED BY <1>1, <2>2, <2>3
<1>5. SupplyBounded'
  <2>1. Supply(balance) \in Nat  BY <1>1, SupplyIsNat
  <2> QED BY <1>1, <1>4, <2>1, LifecycleAssumption DEF LifecycleInv, SupplyBounded, LifecycleAssumption
<1>6. log' \in Seq(Entry) /\ AuditExplainsSupply'
  BY <1>1, <1>2, <1>3, <1>4, AuditIs
<1> QED BY <1>3, <1>4, <1>5, <1>6

LEMMA TransferIs ==
  ASSUME LifecycleInv, NEW from \in Address, NEW to \in Address, NEW amount \in Amount,
         Transfer(from, to, amount)
  PROVE  /\ balance' \in [Address -> Nat] /\ log' \in Seq(Entry)
         /\ Supply(balance') = Supply(balance)
         /\ SupplyBounded' /\ AuditExplainsSupply'
<1> DEFINE mid == [balance EXCEPT ![from] = @ - amount]
<1>1. balance \in [Address -> Nat] /\ amount \in Nat /\ TypeOK /\ AuditExplainsSupply
  BY LifecycleAssumption DEF LifecycleInv, TypeOK, LifecycleAssumption
<1>2. /\ balance' = [mid EXCEPT ![to] = @ + amount] /\ balance[from] >= amount
      /\ Audit("TRANSFER", from, amount)
  BY DEF Transfer, Covers, Moved
<1>3. /\ mid \in [Address -> Nat] /\ mid[from] = balance[from] + (-amount)
      /\ \A o \in Address \ {from} : mid[o] = balance[o]
  BY <1>1, <1>2
<1> HIDE DEF mid
<1>4. /\ balance' \in [Address -> Nat] /\ balance'[to] = mid[to] + amount
      /\ \A o \in Address \ {to} : balance'[o] = mid[o]
  BY <1>1, <1>2, <1>3
<1>5. Supply(balance') = Supply(balance)
  <2>1. /\ balance \in [Address -> Int] /\ mid \in [Address -> Int]
        /\ balance' \in [Address -> Int] /\ amount \in Int /\ -amount \in Int
    BY <1>1, <1>3, <1>4
  <2>2. Supply(mid) = Supply(balance) + (-amount)
    BY <1>3, <2>1, SupplyChange
  <2>3. Supply(balance') = Supply(mid) + amount
    BY <1>4, <2>1, SupplyChange
  <2>4. Supply(balance) \in Nat  BY <1>1, SupplyIsNat
  <2> QED BY <1>1, <2>2, <2>3, <2>4
<1>6. SupplyBounded'
  BY <1>5 DEF LifecycleInv, SupplyBounded
<1>7. log' \in Seq(Entry) /\ AuditExplainsSupply'
  BY <1>1, <1>2, <1>4, <1>5, AuditIs
<1> QED BY <1>4, <1>5, <1>6, <1>7

LEMMA SupplyOfNothing ==
  ASSUME balance = [a \in Address |-> 0]
  PROVE  Supply(balance) = 0
<1> DEFINE n == Len(Addresses)
<1>1. balance \in [Address -> Int]
  OBVIOUS
<1>2. n \in Nat /\ \A i \in 1 .. n : Addresses[i] \in Address
  BY LifecycleAssumption DEF LifecycleAssumption, IsInjective, Address, ToSet
<1>3. PICK r : /\ r \in [0 .. n -> Int] /\ r[0] = 0
               /\ \A i \in 1 .. n : r[i] = r[i - 1] + balance[Addresses[i]]
               /\ Supply(balance) = r[n]
  BY <1>1, SupplyRun
<1>4. ASSUME NEW i \in 1 .. n, r[i - 1] \in {0} PROVE r[i] \in {0}
  <2>1. balance[Addresses[i]] = 0  BY <1>2
  <2> QED BY <1>3, <1>4, <2>1
<1>5. r[n] \in {0}
  <2> DEFINE Z == {0}
  <2>1. r[0] \in Z /\ \A i \in 1 .. n : r[i - 1] \in Z => r[i] \in Z  BY <1>3, <1>4
  <2> HIDE DEF Z, n
  <2>2. r[n] \in Z  BY <1>2, <2>1, LoopIn
  <2> QED BY <2>2 DEF Z
<1> QED BY <1>3, <1>5

-----------------------------------------------------------------------------
(* The supply stays below the ceiling of the corridor and the audit log     *)
(* accounts for it row by row, with every list of addresses and any         *)
(* parameters.                                                              *)
THEOREM LifecycleInvariant == Spec => []LifecycleInv
<1>1. Init => LifecycleInv
  <2> SUFFICES ASSUME Init PROVE LifecycleInv
    OBVIOUS
  <2>1. Supply(balance) = 0  BY SupplyOfNothing DEF Init
  <2>2. TypeOK
    BY LifecycleAssumption DEF Init, TypeOK, ParameterRecord, LifecycleAssumption
  <2>3. SupplyBounded
    BY <2>1, LifecycleAssumption DEF SupplyBounded, LifecycleAssumption
  <2>4. AuditExplainsSupply
    BY <2>1, ExplainedEmpty DEF Init, AuditExplainsSupply
  <2> QED BY <2>2, <2>3, <2>4 DEF LifecycleInv
<1>2. LifecycleInv /\ [Next]_vars => LifecycleInv'
  <2> SUFFICES ASSUME LifecycleInv, [Next]_vars PROVE LifecycleInv'
    OBVIOUS
  <2>0. TypeOK /\ SupplyBounded /\ AuditExplainsSupply /\ Amount \subseteq Nat
    BY LifecycleAssumption DEF LifecycleInv, LifecycleAssumption
  <2>1. ASSUME balance' \in [Address -> Nat] /\ log' \in Seq(Entry),
               SupplyBounded', AuditExplainsSupply', UNCHANGED <<history, height>>
        PROVE  LifecycleInv'
    BY <2>0, <2>1 DEF LifecycleInv, TypeOK
  <2>2. ASSUME NEW a \in Address, NEW amount \in Amount, NEW sigs \in 0 .. MaxSigs,
               Mint(a, amount, sigs)
        PROVE  LifecycleInv'
    BY <2>1, <2>2, IssueIs DEF Mint
  <2>3. ASSUME NEW a \in Address, NEW amount \in Amount, NEW sigs \in 0 .. MaxSigs,
               Replenish(a, amount, sigs)
        PROVE  LifecycleInv'
    BY <2>1, <2>3, IssueIs DEF Replenish
  <2>4. ASSUME NEW a \in Address, NEW amount \in Amount, NEW sigs \in 0 .. MaxSigs,
               Burn(a, amount, sigs)
        PROVE  LifecycleInv'
    <3>1. UNCHANGED <<history, height>>  BY <2>4 DEF Burn
    <3> QED BY <2>1, <2>4, <3>1, BurnIs
  <2>5. ASSUME NEW from \in Address, NEW to \in Address, NEW amount \in Amount,
               Transfer(from, to, amount)
        PROVE  LifecycleInv'
    <3>1. UNCHANGED <<history, height>>  BY <2>5 DEF Transfer
    <3> QED BY <2>1, <2>5, <3>1, TransferIs
  <2>6. ASSUME UNCHANGED <<balance, log>>,
               history' \in Seq(ParameterRecord), history' # <<>>, height' \in Nat
        PROVE  LifecycleInv'
    BY <2>0, <2>6 DEF LifecycleInv, TypeOK, SupplyBounded, AuditExplainsSupply
  <2>7. ASSUME NEW p \in Params, NEW at \in 0 .. MaxHeight, Update(p, at)
        PROVE  LifecycleInv'
    <3>1. [height |-> at, params |-> p] \in ParameterRecord
      BY LifecycleAssumption DEF ParameterRecord, LifecycleAssumption
    <3> DEFINE rec == [height |-> at, params |-> p]
    <3>2. history' = Append(history, rec) /\ history \in Seq(ParameterRecord)
      BY <2>0, <2>7 DEF Update, TypeOK
    <3> HIDE DEF rec
    <3>3. history' \in Seq(ParameterRecord) /\ history' # <<>>
      BY <3>1, <3>2 DEF rec
    <3>4. UNCHANGED <<balance, log>> /\ height' \in Nat
      BY <2>0, <2>7 DEF Update, TypeOK
    <3> QED BY <2>6, <3>3, <3>4
  <2>8. CASE NextBlock
    <3>1. UNCHANGED <<balance, log, history>> /\ height' \in Nat
      BY <2>0, <2>8 DEF NextBlock, TypeOK
    <3> QED BY <2>0, <2>6, <3>1 DEF TypeOK
  <2>9. CASE UNCHANGED vars
    BY <2>0, <2>6, <2>9 DEF vars, TypeOK
  <2> QED BY <2>2, <2>3, <2>4, <2>5, <2>7, <2>8, <2>9 DEF Next
<1> QED BY <1>1, <1>2, PTL DEF Spec

(* The ceiling of the corridor, as the run checks it.                       *)
THEOREM SupplyStaysBounded == Spec => []SupplyBounded
<1>1. LifecycleInv => SupplyBounded
  BY DEF LifecycleInv
<1> QED BY <1>1, LifecycleInvariant, PTL

(* The audit log, as the run checks it.                                     *)
THEOREM AuditStaysTrue == Spec => []AuditExplainsSupply
<1>1. LifecycleInv => AuditExplainsSupply
  BY DEF LifecycleInv
<1> QED BY <1>1, LifecycleInvariant, PTL

(* Only a burn lowers the supply, and a burn stops at the floor.            *)
THEOREM FloorStays == Spec => FloorHolds
<1> DEFINE Step == Supply(balance) >= NLower => Supply(balance)' >= NLower
<1>1. LifecycleInv /\ [Next]_vars => [Step]_vars
  <2> SUFFICES ASSUME LifecycleInv, Next, Supply(balance) >= NLower
               PROVE  Supply(balance') >= NLower
    OBVIOUS
  <2>0. /\ Supply(balance) \in Nat /\ Amount \subseteq Nat /\ NLower \in Nat
    BY SupplyIsNat, LifecycleAssumption DEF LifecycleInv, TypeOK, LifecycleAssumption
  <2>1. ASSUME NEW a \in Address, NEW amount \in Amount, NEW sigs \in 0 .. MaxSigs,
               Mint(a, amount, sigs) \/ Replenish(a, amount, sigs)
        PROVE  Supply(balance') >= NLower
    <3>1. Supply(balance') = Supply(balance) + amount
      BY <2>1, IssueIs
    <3> QED BY <2>0, <3>1
  <2>2. ASSUME NEW a \in Address, NEW amount \in Amount, NEW sigs \in 0 .. MaxSigs,
               Burn(a, amount, sigs)
        PROVE  Supply(balance') >= NLower
    <3>1. Supply(balance') = Supply(balance) - amount  BY <2>2, BurnIs
    <3> QED BY <2>2, <3>1 DEF Burn, AboveFloor
  <2>3. ASSUME NEW from \in Address, NEW to \in Address, NEW amount \in Amount,
               Transfer(from, to, amount)
        PROVE  Supply(balance') >= NLower
    BY <2>3, TransferIs
  <2>4. ASSUME UNCHANGED balance PROVE Supply(balance') >= NLower
    BY <2>4
  <2> QED BY <2>1, <2>2, <2>3, <2>4 DEF Next, Update, NextBlock
<1> QED BY <1>1, LifecycleInvariant, PTL DEF Spec, FloorHolds

-----------------------------------------------------------------------------
(***************************************************************************)
(* The binary search of get_params_at_height over a history H.             *)
(***************************************************************************)
Searches(n) == (1 .. n + 1) \X (0 .. n) \X (1 .. n)

\* One call of the search.
Look(H, h, f, x) ==
  LET mid == (x[1] + x[2]) \div 2
  IN  IF x[1] > x[2] THEN x[3]
      ELSE IF H[mid].height <= h THEN f[<<mid + 1, x[2], mid>>]
      ELSE f[<<x[1], mid - 1, x[3]>>]

IsSearch(H, h, f) == f = [x \in Searches(Len(H)) |-> Look(H, h, f, x)]

Histories == {H \in Seq(ParameterRecord) : H # <<>>}

Ascending(H) == \A i, j \in 1 .. Len(H) : i < j => H[i].height < H[j].height

(* What it is to find: the last record at or below h within the bounds, or *)
(* the best so far when there is none.                                     *)
IsActive(H, h, x, k) ==
  \/ /\ k \in x[1] .. x[2] /\ H[k].height <= h
     /\ \A j \in x[1] .. x[2] : H[j].height <= h => j <= k
  \/ /\ k = x[3]
     /\ \A j \in x[1] .. x[2] : ~ (H[j].height <= h)

LEMMA SearchIs ==
  ASSUME NEW n \in Nat, NEW x \in Searches(n)
  PROVE  /\ x[1] \in 1 .. n + 1 /\ x[2] \in 0 .. n /\ x[3] \in 1 .. n
         /\ x = <<x[1], x[2], x[3]>>
BY DEF Searches

\* The middle lies within the bounds, and the search goes on below or above it.
LEMMA MiddleIs ==
  ASSUME NEW n \in Nat, NEW lo \in 1 .. n + 1, NEW hi \in 0 .. n, NEW b \in 1 .. n, lo <= hi,
         NEW mid, mid = (lo + hi) \div 2
  PROVE  /\ mid \in 1 .. n /\ lo <= mid /\ mid <= hi
         /\ <<mid + 1, hi, mid>> \in Searches(n)
         /\ <<lo, mid - 1, b>> \in Searches(n)
<1>1. mid \in Nat /\ lo <= mid /\ mid <= hi
  OBVIOUS
<1>2. mid \in 1 .. n /\ mid + 1 \in 1 .. n + 1 /\ mid - 1 \in 0 .. n
  BY <1>1
<1> QED BY <1>1, <1>2 DEF Searches

\* There is exactly one such record.
LEMMA OneIsActive ==
  ASSUME NEW H \in Histories, NEW h, NEW x \in Searches(Len(H))
  PROVE  /\ \E k \in 1 .. Len(H) : IsActive(H, h, x, k)
         /\ \A k, m \in 1 .. Len(H) : IsActive(H, h, x, k) /\ IsActive(H, h, x, m) => k = m
<1> DEFINE n == Len(H)
           In == {i \in x[1] .. x[2] : H[i].height <= h}
<1>1. n \in Nat /\ x[1] \in 1 .. n + 1 /\ x[2] \in 0 .. n /\ x[3] \in 1 .. n
  BY SearchIs DEF Histories
<1> HIDE DEF n
<1>2. \E k \in 1 .. n : IsActive(H, h, x, k)
  <2>1. CASE In = {}
    BY <1>1, <2>1 DEF IsActive
  <2>2. CASE In # {}
    <3> DEFINE Left == {n - i : i \in In}
    <3>1. Left \in SUBSET Nat /\ Left # {}
      BY <1>1, <2>2
    <3>2. PICK l \in Left : \A m \in Left : l <= m
      <4> HIDE DEF Left
      <4> QED BY <3>1, LeastNat
    <3>3. PICK k \in In : l = n - k
      BY <3>2
    <3>4. \A j \in In : j <= k
      <4> SUFFICES ASSUME NEW j \in In PROVE j <= k
        OBVIOUS
      <4>1. n - j \in Left  OBVIOUS
      <4>2. l <= n - j  BY <3>2, <4>1
      <4> QED BY <1>1, <3>3, <4>2
    <3> QED BY <1>1, <3>4 DEF IsActive
  <2> QED BY <2>1, <2>2
<1>3. ASSUME NEW k \in 1 .. n, NEW m \in 1 .. n, IsActive(H, h, x, k), IsActive(H, h, x, m)
      PROVE  k = m
  BY <1>1, <1>3 DEF IsActive
<1> QED BY <1>2, <1>3 DEF n

\* A round narrows the bounds around the same record.
LEMMA LookKeepsActive ==
  ASSUME NEW H \in Histories, Ascending(H), NEW h \in Nat, NEW x \in Searches(Len(H)), NEW f,
         \A y \in Searches(Len(H)) :
           y[2] - y[1] < x[2] - x[1] => f[y] \in 1 .. Len(H) /\ IsActive(H, h, y, f[y])
  PROVE  Look(H, h, f, x) \in 1 .. Len(H) /\ IsActive(H, h, x, Look(H, h, f, x))
<1>1. PICK n, lo, hi, b : n = Len(H) /\ lo = x[1] /\ hi = x[2] /\ b = x[3]
  OBVIOUS
<1>2. PICK mid : mid = (lo + hi) \div 2
  OBVIOUS
<1>3. /\ n \in Nat /\ lo \in 1 .. n + 1 /\ hi \in 0 .. n /\ b \in 1 .. n
      /\ \A i \in 1 .. n : H[i].height \in Nat
  <2>1. n \in Nat /\ H \in Seq(ParameterRecord)
    BY <1>1 DEF Histories
  <2>2. lo \in 1 .. n + 1 /\ hi \in 0 .. n /\ b \in 1 .. n
    BY <1>1, <2>1, SearchIs
  <2>3. \A i \in 1 .. n : H[i] \in ParameterRecord
    BY <1>1, <2>1
  <2> QED BY <2>1, <2>2, <2>3 DEF ParameterRecord
<1>4. CASE lo > hi
  <2>1. Look(H, h, f, x) = b
    BY <1>1, <1>4 DEF Look
  <2> QED BY <1>1, <1>3, <1>4, <2>1 DEF IsActive
<1>5. CASE ~ (lo > hi)
  <2>1. /\ mid \in 1 .. n /\ lo <= mid /\ mid <= hi
        /\ <<mid + 1, hi, mid>> \in Searches(n)
        /\ <<lo, mid - 1, b>> \in Searches(n)
    <3>1. lo <= hi  BY <1>3, <1>5
    <3> QED BY <1>2, <1>3, <3>1, MiddleIs
  <2>2. CASE H[mid].height <= h
    <3>1. PICK k : k = f[<<mid + 1, hi, mid>>]
      OBVIOUS
    <3>2. Look(H, h, f, x) = k
      BY <1>1, <1>2, <1>5, <2>2, <3>1 DEF Look
    <3>3. hi - (mid + 1) < hi - lo
      BY <1>3, <2>1
    <3>4. k \in 1 .. n /\ IsActive(H, h, <<mid + 1, hi, mid>>, k)
      BY <1>1, <2>1, <3>1, <3>3
    <3>5. \/ /\ k \in mid + 1 .. hi /\ H[k].height <= h
             /\ \A j \in mid + 1 .. hi : H[j].height <= h => j <= k
          \/ /\ k = mid
             /\ \A j \in mid + 1 .. hi : ~ (H[j].height <= h)
      BY <3>4 DEF IsActive
    <3>6. \A j \in lo .. hi : j <= mid \/ j \in mid + 1 .. hi
      BY <1>3, <2>1
    <3>7. k \in lo .. hi /\ H[k].height <= h
      BY <1>3, <2>1, <2>2, <3>5
    <3>8. \A j \in lo .. hi : H[j].height <= h => j <= k
      BY <1>3, <2>1, <3>5, <3>6
    <3> QED BY <1>1, <3>2, <3>4, <3>7, <3>8 DEF IsActive
  <2>3. CASE ~ (H[mid].height <= h)
    <3>1. PICK k : k = f[<<lo, mid - 1, b>>]
      OBVIOUS
    <3>2. Look(H, h, f, x) = k
      BY <1>1, <1>2, <1>5, <2>3, <3>1 DEF Look
    <3>3. mid - 1 - lo < hi - lo
      BY <1>3, <2>1
    <3>4. k \in 1 .. n /\ IsActive(H, h, <<lo, mid - 1, b>>, k)
      BY <1>1, <2>1, <3>1, <3>3
    <3>5. \/ /\ k \in lo .. mid - 1 /\ H[k].height <= h
             /\ \A j \in lo .. mid - 1 : H[j].height <= h => j <= k
          \/ /\ k = b
             /\ \A j \in lo .. mid - 1 : ~ (H[j].height <= h)
      BY <3>4 DEF IsActive
    <3>6. ASSUME NEW j \in mid .. hi PROVE ~ (H[j].height <= h)
      <4>1. j \in 1 .. n /\ H[j].height \in Nat /\ H[mid].height \in Nat /\ h \in Nat
        BY <1>1, <1>3, <2>1
      <4>2. CASE j = mid
        BY <2>3, <4>2
      <4>3. CASE j # mid
        <5>1. mid < j
          BY <1>3, <2>1, <4>1, <4>3
        <5>2. H[mid].height < H[j].height
          BY <1>1, <2>1, <4>1, <5>1 DEF Ascending
        <5> QED BY <2>3, <4>1, <5>2
      <4> QED BY <4>2, <4>3
    <3>7. \A j \in lo .. hi : j \in lo .. mid - 1 \/ j \in mid .. hi
      BY <1>3, <2>1
    <3>8. \A j \in lo .. mid - 1 : j \in lo .. hi
      BY <1>3, <2>1
    <3> QED BY <1>1, <3>2, <3>4, <3>5, <3>6, <3>7, <3>8 DEF IsActive
  <2> QED BY <2>2, <2>3
<1> QED BY <1>4, <1>5

\* The search ends, and is a function.
LEMMA SearchExists ==
  ASSUME NEW H \in Histories, Ascending(H), NEW h \in Nat
  PROVE  \E f : IsSearch(H, h, f)
<1> DEFINE n == Len(H)
           f == [x \in Searches(n) |-> CHOOSE k \in 1 .. n : IsActive(H, h, x, k)]
<1>1. ASSUME NEW x \in Searches(n) PROVE f[x] \in 1 .. n /\ IsActive(H, h, x, f[x])
  <2>1. \E k \in 1 .. n : IsActive(H, h, x, k)  BY OneIsActive
  <2> QED BY <2>1
<1>2. f = [x \in Searches(n) |-> f[x]]
  OBVIOUS
<1> HIDE DEF f
<1>3. ASSUME NEW x \in Searches(n) PROVE f[x] = Look(H, h, f, x)
  <2>1. Look(H, h, f, x) \in 1 .. n /\ IsActive(H, h, x, Look(H, h, f, x))
    BY <1>1, LookKeepsActive
  <2> QED BY <1>1, <2>1, OneIsActive
<1>4. f = [x \in Searches(n) |-> Look(H, h, f, x)]
  BY <1>2, <1>3
<1> QED BY <1>4 DEF IsSearch

\* Whatever function makes the calls, it finds the record.
LEMMA SearchFinds ==
  ASSUME NEW H \in Histories, Ascending(H), NEW h \in Nat, NEW f, IsSearch(H, h, f),
         NEW x \in Searches(Len(H))
  PROVE  f[x] \in 1 .. Len(H) /\ IsActive(H, h, x, f[x])
<1> DEFINE n == Len(H)
           Found(y) == f[y] \in 1 .. n /\ IsActive(H, h, y, f[y])
           Good == {m \in 0 .. n : \A y \in Searches(n) : y[2] - y[1] < m => Found(y)}
<1>1. n \in Nat /\ \A y \in Searches(n) : y[1] \in 1 .. n + 1 /\ y[2] \in 0 .. n
  BY SearchIs DEF Histories
<1>2. \A y \in Searches(n) : f[y] = Look(H, h, f, y)
  BY DEF IsSearch
<1>3. ASSUME NEW m \in 0 .. n, NEW y \in Searches(n), y[2] - y[1] < m,
             \A z \in Searches(n) : z[2] - z[1] < m - 1 => Found(z)
      PROVE  Found(y)
  <2>1. \A z \in Searches(n) : z[2] - z[1] < y[2] - y[1] => Found(z)
    BY <1>1, <1>3
  <2>2. Look(H, h, f, y) \in 1 .. n /\ IsActive(H, h, y, Look(H, h, f, y))
    <3>1. \A z \in Searches(n) :
            z[2] - z[1] < y[2] - y[1] => f[z] \in 1 .. n /\ IsActive(H, h, z, f[z])
      BY <2>1
    <3> QED BY <3>1, LookKeepsActive
  <2> QED BY <1>2, <2>2
<1> HIDE DEF Found
<1>4. 0 \in Good
  <2> SUFFICES ASSUME NEW y \in Searches(n), y[2] - y[1] < 0 PROVE Found(y)
    BY <1>1
  <2>1. CASE y[1] > y[2]
    <3>1. f[y] = y[3] /\ y[3] \in 1 .. n
      BY <1>1, <1>2, <2>1, SearchIs DEF Look
    <3>2. \A j : j \notin y[1] .. y[2]
      BY <1>1, <2>1
    <3> QED BY <3>1, <3>2 DEF Found, IsActive
  <2>2. y[1] > y[2]
    BY <1>1
  <2> QED BY <2>1, <2>2
<1>5. ASSUME NEW m \in 1 .. n, m - 1 \in Good PROVE m \in Good
  <2>1. m \in 0 .. n  OBVIOUS
  <2> QED BY <1>3, <1>5, <2>1
<1>6. 0 .. n \subseteq Good
  <2> HIDE DEF Good
  <2> QED BY <1>1, <1>4, <1>5, Induct
<1>7. n \in Good
  BY <1>1, <1>6
<1>8. x[2] - x[1] < n
  BY <1>1
<1> QED BY <1>7, <1>8 DEF Found

\* What the lookup answers.
LEMMA ParamsFound ==
  ASSUME NEW H \in Histories, Ascending(H), H[1].height = 0, NEW h \in Nat
  PROVE  \E k \in 1 .. Len(H) :
           /\ ParamsAt(H, h) = H[k].params /\ H[k].height <= h
           /\ \A j \in 1 .. Len(H) : H[j].height <= h => j <= k
<1> DEFINE n == Len(H)
           best == CHOOSE f : IsSearch(H, h, f)
           x == <<1, n, 1>>
<1>1. ParamsAt(H, h) = H[best[x]].params
  BY DEF ParamsAt, IsSearch, Look, Searches
<1>2. n \in Nat /\ 1 \in 1 .. n
  BY EmptySeq DEF Histories
<1>3. x \in Searches(n)
  BY <1>2 DEF Searches
<1>4. IsSearch(H, h, best)
  BY SearchExists
<1> HIDE DEF best, x
<1>5. best[x] \in 1 .. n /\ IsActive(H, h, x, best[x])
  BY <1>3, <1>4, SearchFinds
<1>6. /\ H[best[x]].height <= h
      /\ \A j \in 1 .. n : H[j].height <= h => j <= best[x]
  BY <1>2, <1>5 DEF IsActive, x
<1> QED BY <1>1, <1>5, <1>6

(* The records of governance are in the order of their heights, from 0 on:  *)
(* what the search needs, and what update keeps.                            *)
HistoryInv == history \in Histories /\ history[1].height = 0 /\ Ascending(history)

\* An update appends a record above all others.
LEMMA UpdateIs ==
  ASSUME HistoryInv, NEW p \in Params, NEW at \in 0 .. MaxHeight, Update(p, at)
  PROVE  /\ history' \in Histories
         /\ Len(history') = Len(history) + 1
         /\ \A i \in 1 .. Len(history) : history'[i] = history[i]
         /\ history'[Len(history) + 1].height = at
         /\ \A i \in 1 .. Len(history) : history[i].height < at
         /\ Last(history).height < at
<1> DEFINE n == Len(history)
           e == [height |-> at, params |-> p]
<1>1. history \in Seq(ParameterRecord) /\ n \in Nat /\ n \in 1 .. n
  BY EmptySeq DEF HistoryInv, Histories
<1>2. history' = Append(history, e) /\ e \in ParameterRecord
  BY LifecycleAssumption DEF Update, LifecycleAssumption, ParameterRecord
<1>3. /\ history' \in Seq(ParameterRecord) /\ Len(history') = n + 1
      /\ history'[n + 1] = e /\ \A i \in 1 .. n : history'[i] = history[i]
  BY <1>1, <1>2
<1>4. history' # <<>>
  BY <1>1, <1>3
<1>5. Last(history).height < at /\ Last(history) = history[n] /\ at \in Int
  BY DEF Update, CanUpdate, Last
<1>6. ASSUME NEW i \in 1 .. n PROVE history[i].height < at
  <2>0. history[i] \in ParameterRecord /\ history[n] \in ParameterRecord
    BY <1>1
  <2>1. history[i].height \in Nat /\ history[n].height \in Nat
    BY <2>0 DEF ParameterRecord
  <2>2. i = n \/ history[i].height < history[n].height
    BY <1>1 DEF HistoryInv, Ascending
  <2> QED BY <1>5, <2>1, <2>2
<1> QED BY <1>3, <1>4, <1>5, <1>6 DEF Histories

\* Nothing else changes the history.
LEMMA OnlyUpdate ==
  ASSUME [Next]_vars, ~ \E p \in Params, at \in 0 .. MaxHeight : Update(p, at)
  PROVE  history' = history
BY DEF Next, vars, Mint, Replenish, Burn, Transfer, NextBlock

(* Every record of the history is above the one before it, and the first is *)
(* the genesis record, whatever heights updates ask for (params.py update). *)
THEOREM HistoryInvariant == Spec => []HistoryInv
<1>1. Init => HistoryInv
  <2> SUFFICES ASSUME Init PROVE HistoryInv
    OBVIOUS
  <2>1. [height |-> 0, params |-> FirstParams] \in ParameterRecord
    BY LifecycleAssumption DEF LifecycleAssumption, ParameterRecord
  <2> QED BY <2>1 DEF Init, HistoryInv, Histories, Ascending
<1>2. HistoryInv /\ [Next]_vars => HistoryInv'
  <2> SUFFICES ASSUME HistoryInv, [Next]_vars PROVE HistoryInv'
    OBVIOUS
  <2>1. ASSUME NEW p \in Params, NEW at \in 0 .. MaxHeight, Update(p, at) PROVE HistoryInv'
    <3>1. /\ history' \in Histories
          /\ Len(history') = Len(history) + 1
          /\ \A i \in 1 .. Len(history) : history'[i] = history[i]
          /\ history'[Len(history) + 1].height = at
          /\ \A i \in 1 .. Len(history) : history[i].height < at
      BY <2>1, UpdateIs
    <3>2. Len(history) \in Nat /\ 1 \in 1 .. Len(history)
      BY EmptySeq DEF HistoryInv, Histories
    <3>3. \A i : i \in 1 .. Len(history) + 1 <=> i \in 1 .. Len(history) \/ i = Len(history) + 1
      BY <3>2
    <3>4. ASSUME NEW i \in 1 .. Len(history'), NEW j \in 1 .. Len(history'), i < j
          PROVE  history'[i].height < history'[j].height
      <4>1. i \in 1 .. Len(history)
        BY <3>1, <3>2, <3>4
      <4>2. CASE j \in 1 .. Len(history)
        BY <3>1, <3>4, <4>1, <4>2 DEF HistoryInv, Ascending
      <4>3. CASE j = Len(history) + 1
        BY <3>1, <4>1, <4>3
      <4> QED BY <3>1, <3>3, <4>2, <4>3
    <3> QED BY <3>1, <3>2, <3>4 DEF HistoryInv, Ascending
  <2>2. CASE history' = history
    BY <2>2 DEF HistoryInv
  <2> QED BY <2>1, <2>2, OnlyUpdate
<1> QED BY <1>1, <1>2, PTL DEF Spec

(* The binary search finds the parameters in force at every height.         *)
THEOREM LookupIsRight == Spec => []LookupFindsActive
<1>1. HistoryInv => LookupFindsActive
  <2> SUFFICES ASSUME HistoryInv, NEW h \in 0 .. MaxHeight
               PROVE  \E i \in {i \in 1 .. Len(history) : history[i].height <= h} :
                        /\ ParamsAt(history, h) = history[i].params
                        /\ \A j \in {j \in 1 .. Len(history) : history[j].height <= h} : j <= i
    BY DEF LookupFindsActive
  <2>1. h \in Nat
    BY LifecycleAssumption DEF LifecycleAssumption
  <2>2. \E k \in 1 .. Len(history) :
          /\ ParamsAt(history, h) = history[k].params /\ history[k].height <= h
          /\ \A j \in 1 .. Len(history) : history[j].height <= h => j <= k
    BY <2>1, ParamsFound DEF HistoryInv
  <2> QED BY <2>2
<1> QED BY <1>1, HistoryInvariant, PTL

(* What was in force at a height that has a record at or above it stays so. *)
THEOREM PastStays == Spec => PastParamsStable
<1> DEFINE Stable == \A h \in 0 .. Last(history).height : ParamsAt(history, h) = ParamsAt(history', h)
<1>1. HistoryInv /\ HistoryInv' /\ [Next]_vars => [Stable]_vars
  <2> SUFFICES ASSUME HistoryInv, HistoryInv', [Next]_vars,
                      NEW h \in 0 .. Last(history).height
               PROVE  ParamsAt(history, h) = ParamsAt(history', h)
    OBVIOUS
  <2>1. ASSUME NEW p \in Params, NEW at \in 0 .. MaxHeight, Update(p, at)
        PROVE  ParamsAt(history, h) = ParamsAt(history', h)
    <3>1. /\ Len(history') = Len(history) + 1
          /\ \A i \in 1 .. Len(history) : history'[i] = history[i]
          /\ history'[Len(history) + 1].height = at
          /\ Last(history).height < at
      BY <2>1, UpdateIs
    <3>2. Len(history) \in Nat /\ Last(history).height \in Nat
      <4>1. history \in Seq(ParameterRecord) /\ Len(history) \in 1 .. Len(history)
        BY EmptySeq DEF HistoryInv, Histories
      <4>2. Last(history) \in ParameterRecord  BY <4>1 DEF Last
      <4> QED BY <4>1, <4>2 DEF ParameterRecord
    <3>0. h \in Nat
      BY <3>2
    <3>3. PICK k \in 1 .. Len(history) :
            /\ ParamsAt(history, h) = history[k].params /\ history[k].height <= h
            /\ \A j \in 1 .. Len(history) : history[j].height <= h => j <= k
      BY <3>0, ParamsFound DEF HistoryInv
    <3>4. PICK m \in 1 .. Len(history') :
            /\ ParamsAt(history', h) = history'[m].params /\ history'[m].height <= h
            /\ \A j \in 1 .. Len(history') : history'[j].height <= h => j <= m
      BY <3>0, ParamsFound DEF HistoryInv
    <3>5. h < at
      BY <3>0, <3>1, <3>2
    <3>6. m \in 1 .. Len(history)
      BY <3>0, <3>1, <3>2, <3>4, <3>5
    <3>7. m = k
      <4>1. m <= k  BY <3>1, <3>3, <3>4, <3>6
      <4>2. k <= m  BY <3>1, <3>2, <3>3, <3>4
      <4> QED BY <4>1, <4>2
    <3> QED BY <3>1, <3>3, <3>4, <3>7
  <2>2. CASE history' = history
    BY <2>2
  <2> QED BY <2>1, <2>2, OnlyUpdate
<1> QED BY <1>1, HistoryInvariant, PTL DEF Spec, PastParamsStable
=============================================================================
