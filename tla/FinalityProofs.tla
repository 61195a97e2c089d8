--------------------------- MODULE FinalityProofs ---------------------------
(***************************************************************************)
(* No two nodes finalize different blocks at one height, for every list of *)
(* validators and every set of block bodies: of two quorums the threshold  *)
(* leaves more validators in common than are faulty or proposing.          *)
(***************************************************************************)
EXTENDS Finality, FiniteSetTheorems, TLAPS

USE FinalityAssumption

LEMMA ValidatorCount ==
  /\ IsFiniteSet(Validator) /\ Cardinality(Validator) = N
  /\ N \in Nat \ {0}
  /\ IsFiniteSet(Faulty) /\ Cardinality(Faulty) \in Nat
<1>1. N \in Nat /\ Validators \in [1 .. N -> Validator]
  BY DEF N
<1>2. Validators \in Surjection(1 .. N, Validator)
  BY <1>1 DEF Surjection, Validator, Range
<1>3. Validators \in Injection(1 .. N, Validator)
  BY <1>1 DEF Injection, IsInjective
<1>4. IsFiniteSet(1 .. N) /\ Cardinality(1 .. N) = N
  <2>1. CASE N = 0
    <3>1. 1 .. N = {}
      BY <2>1
    <3> QED BY <3>1, <2>1, FS_EmptySet
  <2>2. CASE N # 0
    BY <2>2, <1>1, FS_Interval
  <2> QED BY <2>1, <2>2
<1>5. IsFiniteSet(Validator) /\ Cardinality(Validator) = N
  BY <1>2, <1>3, <1>4, FS_Surjection
<1>6. IsFiniteSet(Faulty) /\ Cardinality(Faulty) \in Nat
  BY <1>5, FS_Subset, FS_CardinalityType
<1> QED BY <1>1, <1>5, <1>6

\* Two quorums share a validator that is neither faulty nor a given one.
LEMMA QuorumsShare ==
  ASSUME NEW S \in SUBSET Validator, NEW T \in SUBSET Validator, NEW p,
         Cardinality(S) >= Threshold, Cardinality(T) >= Threshold
  PROVE  \E v \in S \cap T : v \notin Faulty /\ v # p
<1> DEFINE X == Faulty \cup {p}
<1>1. /\ IsFiniteSet(S) /\ Cardinality(S) \in Nat
      /\ IsFiniteSet(T) /\ Cardinality(T) \in Nat
  BY ValidatorCount, FS_Subset, FS_CardinalityType
<1>2. IsFiniteSet(X) /\ Cardinality(X) \in Nat /\ Cardinality(X) <= Cardinality(Faulty) + 1
  <2>1. IsFiniteSet(X)
    BY ValidatorCount, FS_AddElement
  <2>2. Cardinality(X) = IF p \in Faulty THEN Cardinality(Faulty) ELSE Cardinality(Faulty) + 1
    BY ValidatorCount, FS_AddElement
  <2> HIDE DEF X
  <2>3. Cardinality(X) \in Nat
    BY <2>1, FS_CardinalityType
  <2> QED BY <2>1, <2>2, <2>3, ValidatorCount
<1>3. /\ IsFiniteSet(S \cup T) /\ IsFiniteSet(S \cap T) /\ Cardinality(S \cap T) \in Nat
      /\ Cardinality(S \cup T) = Cardinality(S) + Cardinality(T) - Cardinality(S \cap T)
  BY <1>1, FS_Union, FS_Intersection, FS_CardinalityType
<1>4. Cardinality(S \cup T) \in Nat /\ Cardinality(S \cup T) <= N
  BY <1>3, ValidatorCount, FS_Subset, FS_CardinalityType
<1>5. 3 * Threshold > 2 * N
  BY ValidatorCount DEF Threshold
<1>6. Threshold \in Nat
  BY ValidatorCount DEF Threshold
<1>7. Cardinality(S \cap T) > Cardinality(X)
  BY <1>1, <1>2, <1>3, <1>4, <1>5, <1>6, ValidatorCount
<1> HIDE DEF X
<1>8. ~(S \cap T \subseteq X)
  BY <1>2, <1>3, <1>7, FS_Subset
<1> QED BY <1>8 DEF X
-----------------------------------------------------------------------------
(* Who signs what: a proposer signed what it made, and no other correct     *)
(* validator signed two blocks of a height.                                 *)
Votes ==
  /\ \A b \in made : b.height # 0 /\ <<Proposer(b.height), b>> \in signed
  /\ \A v \in Validator \ Faulty : \A b, c \in made :
       <<v, b>> \in signed /\ <<v, c>> \in signed /\ b.height = c.height
         => b = c \/ v = Proposer(b.height)

(* What is pending was handed in since the last commit of its block, or is  *)
(* the proposer's.                                                          *)
Pending(n) == \A b \in DOMAIN pending[n] : \A v \in pending[n][b] :
                v = Proposer(b.height) \/ <<v, b>> \in fresh[n]

Arrived == \A n \in Node : fresh[n] \subseteq received[n] /\ Pending(n)

(* The first block, or one that a quorum of what was handed in signs.       *)
Certain(made_, got, b) == b = Genesis \/ (b \in made_ /\ Quorum(got, b))

(* Stored blocks are certain, and the tip is, whose height is stored; what  *)
(* was validated came after a certain block whose height is stored.         *)
Certified ==
  \A n \in Node :
    /\ \A h \in DOMAIN store[n] :
         store[n][h].height = h /\ Certain(made, received[n], store[n][h])
    /\ tip[n].height \in DOMAIN store[n] /\ Certain(made, received[n], tip[n])
    /\ \A b \in validated[n] : \E p \in made \cup {Genesis} :
         /\ LinkValid(b, p)
         /\ p.height \in DOMAIN store[n] /\ Certain(made, received[n], p)

FinalityInv == TypeOK /\ Votes /\ Arrived /\ Certified

LEMMA InitInv == Init => FinalityInv
<1> SUFFICES ASSUME Init PROVE FinalityInv
  OBVIOUS
<1>1. Genesis.height = 0
  BY DEF Genesis
<1>2. TypeOK
  BY DEF Init, TypeOK
<1>3. Votes /\ Arrived
  BY DEF Init, Votes, Arrived, Pending
<1>4. Certified
  BY <1>1 DEF Init, Certified, Certain
<1> QED BY <1>2, <1>3, <1>4 DEF FinalityInv

\* More signatures make no quorum smaller.
LEMMA QuorumGrows ==
  ASSUME NEW got, NEW more, got \subseteq more, NEW b, Quorum(got, b)
  PROVE  Quorum(more, b)
<1> DEFINE S == {v \in Validator : <<v, b>> \in got} \cup {Proposer(b.height)}
           T == {v \in Validator : <<v, b>> \in more} \cup {Proposer(b.height)}
<1>1. S \subseteq T
  OBVIOUS
<1>2. IsFiniteSet(T)
  <2>1. IsFiniteSet({v \in Validator : <<v, b>> \in more})
    BY ValidatorCount, FS_Subset
  <2> QED BY <2>1, FS_AddElement
<1>3. Cardinality(S) >= Threshold
  BY DEF Quorum
<1> HIDE DEF S, T
<1>4. IsFiniteSet(S) /\ Cardinality(S) <= Cardinality(T)
  BY <1>1, <1>2, FS_Subset
<1>5. Cardinality(S) \in Nat /\ Cardinality(T) \in Nat /\ Threshold \in Nat
  BY <1>2, <1>4, FS_CardinalityType, ValidatorCount DEF Threshold
<1>6. Cardinality(T) >= Threshold
  BY <1>3, <1>4, <1>5
<1> QED BY <1>6 DEF T, Quorum

LEMMA CertainGrows ==
  ASSUME NEW some, NEW all, some \subseteq all, NEW got, NEW more, got \subseteq more,
         NEW b, Certain(some, got, b)
  PROVE  Certain(all, more, b)
BY QuorumGrows DEF Certain

\* Certificates stay while the chains do.
LEMMA CertifiedGrows ==
  ASSUME Certified, made \subseteq made', UNCHANGED <<tip, store, validated>>,
         \A n \in Node : received[n] \subseteq received'[n]
  PROVE  Certified'
<1> SUFFICES ASSUME NEW n \in Node
             PROVE  /\ \A h \in DOMAIN store[n] :
                         store[n][h].height = h /\ Certain(made', received'[n], store[n][h])
                    /\ tip[n].height \in DOMAIN store[n] /\ Certain(made', received'[n], tip[n])
                    /\ \A b \in validated[n] : \E p \in made' \cup {Genesis} :
                         /\ LinkValid(b, p)
                         /\ p.height \in DOMAIN store[n] /\ Certain(made', received'[n], p)
  BY DEF Certified, LinkValid, Hash
<1>1. \A b : Certain(made, received[n], b) => Certain(made', received'[n], b)
  BY CertainGrows
<1> QED BY <1>1 DEF Certified

\* Blocks and signatures are made and nothing is handed in: Propose and Vote.
LEMMA GrowthKeepsInv ==
  ASSUME FinalityInv, made' \subseteq Block, made \subseteq made',
         signed' \subseteq Validator \X made',
         UNCHANGED <<tip, store, utxo, validated, received, fresh, pending>>
  PROVE  TypeOK' /\ Arrived' /\ Certified'
<1>1. TypeOK'
  <2>1. /\ tip' \in [Node -> made' \cup {Genesis}]
        /\ utxo' \in [Node -> SUBSET Outpoint]
        /\ validated' \in [Node -> SUBSET made']
    BY DEF FinalityInv, TypeOK
  <2>2. /\ received' \in [Node -> SUBSET (Validator \X made')]
        /\ fresh' \in [Node -> SUBSET (Validator \X made')]
    BY DEF FinalityInv, TypeOK
  <2>3. /\ DOMAIN store' = Node /\ DOMAIN pending' = Node
        /\ \A n \in Node : DOMAIN pending'[n] \subseteq made'
        /\ \A n \in Node : \A h \in DOMAIN store'[n] : store'[n][h] \in made' \cup {Genesis}
    BY DEF FinalityInv, TypeOK
  <2> QED BY <2>1, <2>2, <2>3 DEF TypeOK
<1>2. Arrived'
  BY DEF FinalityInv, Arrived, Pending
<1>3. Certified'
  BY CertifiedGrows DEF FinalityInv
<1> QED BY <1>1, <1>2, <1>3

LEMMA ProposeKeepsInv ==
  ASSUME FinalityInv, NEW v \in Node, NEW body \in Body, Propose(v, body)
  PROVE  FinalityInv'
<1> DEFINE b == [height |-> tip[v].height + 1, prev |-> Hash(tip[v]), body |-> body]
<1>1. b \in Block /\ b.height # 0
  <2>1. tip[v] \in Block \cup {Genesis}
    BY DEF FinalityInv, TypeOK
  <2>2. tip[v].height \in Nat /\ Hash(tip[v]) \in Seq(Body)
    <3>1. CASE tip[v] \in Block
      BY <3>1 DEF Block, Hash
    <3>2. CASE tip[v] = Genesis
      BY <3>2 DEF Genesis, Hash
    <3> QED BY <2>1, <3>1, <3>2
  <2> QED BY <2>2 DEF Block
<1>2. /\ Proposer(b.height) = v /\ b \notin made
      /\ made' = made \cup {b} /\ signed' = signed \cup {<<v, b>>}
      /\ UNCHANGED <<tip, store, utxo, validated, received, fresh, pending>>
  BY DEF Propose
<1>3. v \in Validator /\ made \subseteq Block /\ signed \subseteq Validator \X made
  BY DEF FinalityInv, TypeOK
<1> HIDE DEF b
<1>4. TypeOK' /\ Arrived' /\ Certified'
  BY <1>1, <1>2, <1>3, GrowthKeepsInv
<1>5. Votes'
  <2>1. \A c \in made' : c.height # 0 /\ <<Proposer(c.height), c>> \in signed'
    BY <1>1, <1>2 DEF FinalityInv, Votes
  <2>2. \A w \in Validator \ Faulty : \A c, d \in made' :
          <<w, c>> \in signed' /\ <<w, d>> \in signed' /\ c.height = d.height
            => c = d \/ w = Proposer(c.height)
    <3> SUFFICES ASSUME NEW w \in Validator \ Faulty, NEW c \in made', NEW d \in made',
                        <<w, c>> \in signed', <<w, d>> \in signed', c.height = d.height,
                        c # d
                 PROVE  w = Proposer(c.height)
      OBVIOUS
    <3>1. CASE c = b \/ d = b
      <4>1. <<w, b>> \in signed' /\ <<w, b>> \notin signed
        BY <3>1, <1>2, <1>3
      <4> QED BY <3>1, <4>1, <1>2
    <3>2. CASE c # b /\ d # b
      <4>1. c \in made /\ d \in made /\ <<w, c>> \in signed /\ <<w, d>> \in signed
        BY <3>2, <1>2
      <4> QED BY <4>1 DEF FinalityInv, Votes
    <3> QED BY <3>1, <3>2
  <2> QED BY <2>1, <2>2 DEF Votes
<1> QED BY <1>4, <1>5 DEF FinalityInv

LEMMA VoteKeepsInv ==
  ASSUME FinalityInv, NEW v \in Validator, NEW b \in made, Vote(v, b)
  PROVE  FinalityInv'
<1>1. /\ signed' = signed \cup {<<v, b>>} /\ made' = made
      /\ UNCHANGED <<tip, store, utxo, validated, received, fresh, pending>>
      /\ v \notin Faulty => \A c \in made : <<v, c>> \in signed => c.height # b.height
  BY DEF Vote
<1>2. made \subseteq Block /\ signed \subseteq Validator \X made
  BY DEF FinalityInv, TypeOK
<1>3. TypeOK' /\ Arrived' /\ Certified'
  BY <1>1, <1>2, GrowthKeepsInv
<1>4. Votes'
  <2>1. \A c \in made' : c.height # 0 /\ <<Proposer(c.height), c>> \in signed'
    BY <1>1 DEF FinalityInv, Votes
  <2>2. \A w \in Validator \ Faulty : \A c, d \in made' :
          <<w, c>> \in signed' /\ <<w, d>> \in signed' /\ c.height = d.height
            => c = d \/ w = Proposer(c.height)
    <3> SUFFICES ASSUME NEW w \in Validator \ Faulty, NEW c \in made, NEW d \in made,
                        <<w, c>> \in signed', <<w, d>> \in signed', c.height = d.height,
                        c # d
                 PROVE  w = Proposer(c.height)
      BY <1>1
    <3>1. CASE <<w, c>> \in signed /\ <<w, d>> \in signed
      BY <3>1 DEF FinalityInv, Votes
    <3>2. CASE <<w, c>> \notin signed
      <4>1. w = v /\ c = b /\ <<w, d>> \in signed
        BY <3>2, <1>1
      <4> QED BY <4>1, <1>1
    <3>3. CASE <<w, d>> \notin signed
      <4>1. w = v /\ d = b /\ <<w, c>> \in signed
        BY <3>3, <1>1
      <4> QED BY <4>1, <1>1
    <3> QED BY <3>1, <3>2, <3>3
  <2> QED BY <2>1, <2>2 DEF Votes
<1> QED BY <1>3, <1>4 DEF FinalityInv

\* What commit_block, final or not, does to what a node keeps.

\* What a commit, final or not, leaves in the tables of a node.
LEMMA CommitTyped ==
  ASSUME FinalityInv, NEW n \in Node, NEW b \in made, ProcessBlock(n, b) \/ Commit(n, b)
  PROVE  TypeOK' /\ Votes'
<1>1. PICK u \in SUBSET Outpoint : CommitBlock(n, b, u)
  BY DEF ProcessBlock, Commit, ApplyBlock, FinalityInv, TypeOK
<1>2. UNCHANGED <<made, signed, received>>
  BY DEF ProcessBlock, Commit
<1>3. validated' \in [Node -> SUBSET made]
  BY DEF ProcessBlock, Commit, FinalityInv, TypeOK
<1>4. Votes'
  BY <1>2 DEF FinalityInv, Votes
<1>5. TypeOK
  BY DEF FinalityInv
<1> DEFINE signers == Signatures(pending[n], b) \cup {Proposer(b.height)}
<1>6. CASE Cardinality(signers) < Threshold
  <2>1. /\ pending' = [pending EXCEPT ![n] = WithSignatures(pending[n], b, signers)]
        /\ utxo' = [utxo EXCEPT ![n] = u] /\ UNCHANGED <<tip, store, fresh>>
    BY <1>1, <1>6 DEF CommitBlock
  <2> HIDE DEF signers
  <2>2. DOMAIN WithSignatures(pending[n], b, signers) = DOMAIN pending[n] \cup {b}
    BY DEF WithSignatures
  <2>3. DOMAIN pending' = Node /\ \A m \in Node : DOMAIN pending'[m] \subseteq made
    BY <1>5, <2>1, <2>2 DEF TypeOK
  <2> QED BY <1>2, <1>3, <1>4, <1>5, <2>1, <2>3 DEF TypeOK
<1>7. CASE ~(Cardinality(signers) < Threshold)
  <2>1. Finalize(n, b) /\ utxo' = [utxo EXCEPT ![n] = ApplyBlock(u, b)]
    BY <1>1, <1>7 DEF CommitBlock
  <2>2. /\ tip' = [tip EXCEPT ![n] = b]
        /\ store' = [store EXCEPT ![n] = [h \in DOMAIN store[n] \cup {b.height} |->
                                            IF h = b.height THEN b ELSE store[n][h]]]
        /\ fresh' = [fresh EXCEPT ![n] = {s \in fresh[n] : s[2] # b}]
        /\ pending' = [pending EXCEPT ![n] = Restrict(pending[n], DOMAIN pending[n] \ {b})]
    BY <2>1 DEF Finalize
  <2>3. tip' \in [Node -> made \cup {Genesis}] /\ utxo' \in [Node -> SUBSET Outpoint]
    BY <1>5, <2>1, <2>2 DEF TypeOK, ApplyBlock
  <2>4. fresh' \in [Node -> SUBSET (Validator \X made)]
    BY <1>5, <2>2 DEF TypeOK
  <2>5. DOMAIN pending' = Node /\ \A m \in Node : DOMAIN pending'[m] \subseteq made
    BY <1>5, <2>2 DEF TypeOK, Restrict
  <2>6. DOMAIN store' = Node /\ \A m \in Node : \A h \in DOMAIN store'[m] : store'[m][h] \in made \cup {Genesis}
    BY <1>5, <2>2 DEF TypeOK
  <2>7. made \subseteq Block /\ signed \subseteq Validator \X made
        /\ received \in [Node -> SUBSET (Validator \X made)]
    BY <1>5 DEF TypeOK
  <2>8. TypeOK'
    BY <1>2, <1>3, <2>3, <2>4, <2>5, <2>6, <2>7 DEF TypeOK
  <2> QED BY <1>4, <2>8
<1> QED BY <1>6, <1>7

\* What is left pending was handed in.
LEMMA CommitArrived ==
  ASSUME FinalityInv, NEW n \in Node, NEW b \in made, ProcessBlock(n, b) \/ Commit(n, b)
  PROVE  Arrived'
<1>1. PICK u : CommitBlock(n, b, u)
  BY DEF ProcessBlock, Commit
<1>2. received' = received
  BY DEF ProcessBlock, Commit
<1>3. /\ DOMAIN pending = Node /\ DOMAIN fresh = Node
      /\ \A m \in Node : fresh[m] \subseteq received[m] /\ Pending(m)
  BY DEF FinalityInv, TypeOK, Arrived
<1> DEFINE signers == Signatures(pending[n], b) \cup {Proposer(b.height)}
<1>4. CASE Cardinality(signers) < Threshold
  <2>1. pending' = [pending EXCEPT ![n] = WithSignatures(pending[n], b, signers)] /\ fresh' = fresh
    BY <1>1, <1>4 DEF CommitBlock
  <2>2. \A v \in signers : v = Proposer(b.height) \/ <<v, b>> \in fresh[n]
    BY <1>3 DEF Signatures, Pending
  <2> HIDE DEF signers
  <2>3. PICK p : p = WithSignatures(pending[n], b, signers)
    OBVIOUS
  <2>4. /\ DOMAIN p = DOMAIN pending[n] \cup {b}
        /\ \A c \in DOMAIN p : p[c] = IF c = b THEN signers ELSE pending[n][c]
    BY <2>3 DEF WithSignatures
  <2>5. \A c \in DOMAIN p : \A v \in p[c] : v = Proposer(c.height) \/ <<v, c>> \in fresh[n]
    BY <1>3, <2>2, <2>4 DEF Pending
  <2>6. pending'[n] = p /\ \A m \in Node \ {n} : pending'[m] = pending[m]
    BY <1>3, <2>1, <2>3
  <2> QED BY <1>2, <1>3, <2>1, <2>5, <2>6 DEF Arrived, Pending
<1>5. CASE ~(Cardinality(signers) < Threshold)
  <2>1. /\ fresh' = [fresh EXCEPT ![n] = {s \in fresh[n] : s[2] # b}]
        /\ pending' = [pending EXCEPT ![n] = Restrict(pending[n], DOMAIN pending[n] \ {b})]
    BY <1>1, <1>5 DEF CommitBlock, Finalize
  <2>2. PICK p : p = Restrict(pending[n], DOMAIN pending[n] \ {b})
    OBVIOUS
  <2>3. DOMAIN p = DOMAIN pending[n] \ {b} /\ \A c \in DOMAIN p : p[c] = pending[n][c]
    BY <2>2 DEF Restrict
  <2>4. /\ pending'[n] = p /\ \A m \in Node \ {n} : pending'[m] = pending[m]
        /\ fresh'[n] = {s \in fresh[n] : s[2] # b} /\ \A m \in Node \ {n} : fresh'[m] = fresh[m]
    BY <1>3, <2>1, <2>2
  <2>5. ASSUME NEW c \in DOMAIN p, NEW v \in p[c], v # Proposer(c.height)
        PROVE  <<v, c>> \in fresh'[n]
    <3>1. <<v, c>> \in fresh[n] /\ c # b
      BY <1>3, <2>3, <2>5 DEF Pending
    <3> QED BY <2>4, <3>1
  <2> QED BY <1>2, <1>3, <2>4, <2>5 DEF Arrived, Pending
<1> QED BY <1>4, <1>5

\* A block past the threshold has a quorum among what came since its last commit.
LEMMA CommittedHasQuorum ==
  ASSUME FinalityInv, NEW n \in Node, NEW b \in made,
         ~(Cardinality(Signatures(pending[n], b) \cup {Proposer(b.height)}) < Threshold)
  PROVE  Quorum(fresh[n], b) /\ Quorum(received[n], b)
<1> DEFINE S == Signatures(pending[n], b) \cup {Proposer(b.height)}
           T == {v \in Validator : <<v, b>> \in fresh[n]} \cup {Proposer(b.height)}
<1>1. fresh[n] \subseteq Validator \X made /\ fresh[n] \subseteq received[n] /\ Pending(n)
  BY DEF FinalityInv, TypeOK, Arrived
<1>2. S \subseteq T
  BY <1>1 DEF Signatures, Pending
<1>3. IsFiniteSet(T)
  <2>1. IsFiniteSet({v \in Validator : <<v, b>> \in fresh[n]})
    BY ValidatorCount, FS_Subset
  <2> QED BY <2>1, FS_AddElement
<1>4. ~(Cardinality(S) < Threshold)
  OBVIOUS
<1> HIDE DEF S, T
<1>5. IsFiniteSet(S) /\ Cardinality(S) <= Cardinality(T)
  BY <1>2, <1>3, FS_Subset
<1>6. Cardinality(S) \in Nat /\ Cardinality(T) \in Nat /\ Threshold \in Nat
  BY <1>3, <1>5, FS_CardinalityType, ValidatorCount DEF Threshold
<1>7. Cardinality(T) >= Threshold
  BY <1>4, <1>5, <1>6
<1>8. Quorum(fresh[n], b)
  BY <1>7 DEF T, Quorum
<1> QED BY <1>1, <1>8, QuorumGrows

LEMMA CommitCertified ==
  ASSUME FinalityInv, NEW n \in Node, NEW b \in made, ProcessBlock(n, b) \/ Commit(n, b)
  PROVE  Certified'
<1>1. PICK u : CommitBlock(n, b, u)
  BY DEF ProcessBlock, Commit
<1>2. received' = received /\ made' = made
  BY DEF ProcessBlock, Commit
<1>3. /\ DOMAIN store = Node /\ tip \in [Node -> made \cup {Genesis}]
      /\ validated \in [Node -> SUBSET made] /\ Certified
  BY DEF FinalityInv, TypeOK
<1>4. \/ LinkValid(b, tip[n]) /\ validated' = [validated EXCEPT ![n] = validated[n] \cup {b}]
      \/ validated' = validated
  BY DEF ProcessBlock, Commit, BlockValid
<1>5. /\ \A m \in Node \ {n} : tip'[m] = tip[m] /\ store'[m] = store[m]
      /\ \/ tip'[n] = tip[n] /\ store'[n] = store[n]
         \/ /\ tip'[n] = b /\ DOMAIN store'[n] = DOMAIN store[n] \cup {b.height}
            /\ \A h \in DOMAIN store'[n] : store'[n][h] = IF h = b.height THEN b ELSE store[n][h]
            /\ Certain(made, received[n], b)
  <2>1. CASE Cardinality(Signatures(pending[n], b) \cup {Proposer(b.height)}) < Threshold
    BY <1>1, <2>1 DEF CommitBlock
  <2>2. CASE ~(Cardinality(Signatures(pending[n], b) \cup {Proposer(b.height)}) < Threshold)
    <3>1. Certain(made, received[n], b)
      BY <2>2, CommittedHasQuorum DEF Certain
    <3>2. Finalize(n, b)
      BY <1>1, <2>2 DEF CommitBlock
    <3> QED BY <1>3, <3>1, <3>2 DEF Finalize
  <2> QED BY <2>1, <2>2
<1>6. \A m \in Node : DOMAIN store[m] \subseteq DOMAIN store'[m]
  BY <1>5
<1>7. ASSUME NEW m \in Node, NEW c \in validated'[m]
      PROVE  \E p \in made \cup {Genesis} :
               LinkValid(c, p) /\ p.height \in DOMAIN store[m] /\ Certain(made, received[m], p)
  <2>1. CASE c \in validated[m]
    BY <1>3, <2>1 DEF Certified
  <2>2. CASE c \notin validated[m]
    <3>1. m = n /\ c = b /\ LinkValid(b, tip[n])
      BY <1>3, <1>4, <2>2
    <3>2. tip[n] \in made \cup {Genesis} /\ tip[n].height \in DOMAIN store[n] /\ Certain(made, received[n], tip[n])
      BY <1>3 DEF Certified
    <3> QED BY <3>1, <3>2
  <2> QED BY <2>1, <2>2
<1> SUFFICES ASSUME NEW m \in Node
             PROVE  /\ \A h \in DOMAIN store'[m] :
                         store'[m][h].height = h /\ Certain(made, received[m], store'[m][h])
                    /\ tip'[m].height \in DOMAIN store'[m] /\ Certain(made, received[m], tip'[m])
                    /\ \A c \in validated'[m] : \E p \in made \cup {Genesis} :
                         /\ LinkValid(c, p)
                         /\ p.height \in DOMAIN store'[m] /\ Certain(made, received[m], p)
  BY <1>2 DEF Certified, LinkValid, Hash
<1>8. /\ \A h \in DOMAIN store[m] :
           store[m][h].height = h /\ Certain(made, received[m], store[m][h])
      /\ tip[m].height \in DOMAIN store[m] /\ Certain(made, received[m], tip[m])
  BY <1>3 DEF Certified
<1>9. CASE tip'[m] = tip[m] /\ store'[m] = store[m]
  BY <1>6, <1>7, <1>8, <1>9
<1>10. CASE /\ m = n /\ tip'[n] = b /\ DOMAIN store'[n] = DOMAIN store[n] \cup {b.height}
            /\ \A h \in DOMAIN store'[n] : store'[n][h] = IF h = b.height THEN b ELSE store[n][h]
            /\ Certain(made, received[n], b)
  BY <1>6, <1>7, <1>8, <1>10
<1> QED BY <1>5, <1>9, <1>10

\* Whatever signature is handed in.
LEMMA AddSignatureKeepsInv ==
  ASSUME FinalityInv, NEW n \in Node, NEW v \in Validator, NEW b \in made, AddSignature(n, v, b)
  PROVE  FinalityInv'
<1>1. /\ received' = [received EXCEPT ![n] = received[n] \cup {<<v, b>>}]
      /\ fresh' = [fresh EXCEPT ![n] = fresh[n] \cup {<<v, b>>}]
      /\ pending' = [pending EXCEPT ![n] =
                       WithSignatures(pending[n], b, Signatures(pending[n], b) \cup {v})]
      /\ UNCHANGED <<made, signed, tip, store, utxo, validated>>
  BY DEF AddSignature
<1>2. TypeOK /\ Votes /\ Arrived /\ Certified
  BY DEF FinalityInv
<1>3. PICK p : p = WithSignatures(pending[n], b, Signatures(pending[n], b) \cup {v})
  OBVIOUS
<1>4. /\ DOMAIN p = DOMAIN pending[n] \cup {b}
      /\ \A c \in DOMAIN p : p[c] = IF c = b THEN Signatures(pending[n], b) \cup {v} ELSE pending[n][c]
  BY <1>3 DEF WithSignatures
<1>5. /\ pending'[n] = p /\ \A m \in Node \ {n} : pending'[m] = pending[m]
      /\ DOMAIN pending' = Node
      /\ received'[n] = received[n] \cup {<<v, b>>} /\ \A m \in Node \ {n} : received'[m] = received[m]
      /\ fresh'[n] = fresh[n] \cup {<<v, b>>} /\ \A m \in Node \ {n} : fresh'[m] = fresh[m]
  BY <1>1, <1>2, <1>3 DEF TypeOK
<1>6. TypeOK'
  <2>1. /\ received' \in [Node -> SUBSET (Validator \X made)]
        /\ fresh' \in [Node -> SUBSET (Validator \X made)]
    BY <1>1, <1>2 DEF TypeOK
  <2>2. \A m \in Node : DOMAIN pending'[m] \subseteq made
    BY <1>2, <1>4, <1>5 DEF TypeOK
  <2> QED BY <1>1, <1>2, <1>5, <2>1, <2>2 DEF TypeOK
<1>7. Votes'
  BY <1>1, <1>2 DEF Votes
<1>8. Arrived'
  <2>1. ASSUME NEW c \in DOMAIN p, NEW w \in p[c], w # Proposer(c.height)
        PROVE  <<w, c>> \in fresh'[n]
    <3>1. (c = b /\ w = v) \/ (c \in DOMAIN pending[n] /\ w \in pending[n][c])
      <4>1. CASE c = b
        <5>1. w \in Signatures(pending[n], b) \cup {v}
          BY <1>4, <2>1, <4>1
        <5> QED BY <4>1, <5>1 DEF Signatures
      <4>2. CASE c # b
        BY <1>4, <2>1, <4>2
      <4> QED BY <4>1, <4>2
    <3> QED BY <1>2, <1>5, <2>1, <3>1 DEF Arrived, Pending
  <2>2. \A m \in Node : fresh'[m] \subseteq received'[m]
    BY <1>2, <1>5 DEF Arrived
  <2> QED BY <1>2, <1>5, <2>1, <2>2 DEF Arrived, Pending
<1>9. Certified'
  BY <1>1, <1>2, <1>5, CertifiedGrows
<1> QED BY <1>6, <1>7, <1>8, <1>9 DEF FinalityInv

LEMMA InvInductive == FinalityInv /\ [Next]_vars => FinalityInv'
<1> SUFFICES ASSUME FinalityInv, [Next]_vars PROVE FinalityInv'
  OBVIOUS
<1>1. ASSUME NEW v \in Node, NEW body \in Body, Propose(v, body) PROVE FinalityInv'
  BY <1>1, ProposeKeepsInv
<1>2. ASSUME NEW v \in Validator, NEW b \in made, Vote(v, b) PROVE FinalityInv'
  BY <1>2, VoteKeepsInv
<1>3. ASSUME NEW n \in Node, NEW b \in made, ProcessBlock(n, b) \/ Commit(n, b) PROVE FinalityInv'
  BY <1>3, CommitTyped, CommitArrived, CommitCertified DEF FinalityInv
<1>4. ASSUME NEW n \in Node, NEW v \in Validator, NEW b \in made, AddSignature(n, v, b)
      PROVE  FinalityInv'
  BY <1>4, AddSignatureKeepsInv
<1>5. CASE UNCHANGED vars
  <2>1. TypeOK' /\ Votes' /\ Arrived'
    BY <1>5 DEF vars, FinalityInv, TypeOK, Votes, Arrived, Pending
  <2>2. Certified'
    BY <1>5, CertifiedGrows DEF vars, FinalityInv
  <2> QED BY <2>1, <2>2 DEF FinalityInv
<1> QED BY <1>1, <1>2, <1>3, <1>4, <1>5 DEF Next

(* Types, votes and certificates: the invariant that finality rests on.     *)
THEOREM FinalityInvariant == Spec => []FinalityInv
<1> QED BY InitInv, InvInductive, PTL DEF Spec

-----------------------------------------------------------------------------
Signers(b) == {v \in Validator : <<v, b>> \in signed}

\* Of signatures that were made, two quorums of one height are of one block.
LEMMA QuorumsAgree ==
  ASSUME FinalityInv, NEW got, NEW more, got \subseteq signed, more \subseteq signed,
         NEW b \in made, NEW c \in made, b.height = c.height, Quorum(got, b), Quorum(more, c)
  PROVE  b = c
<1>1. ASSUME NEW d \in made, Quorum(signed, d) PROVE Cardinality(Signers(d)) >= Threshold
  <2>1. <<Proposer(d.height), d>> \in signed /\ signed \subseteq Validator \X made
    BY DEF FinalityInv, TypeOK, Votes
  <2>2. {v \in Validator : <<v, d>> \in signed} \cup {Proposer(d.height)} = Signers(d)
    BY <2>1 DEF Signers
  <2> QED BY <1>1, <2>2 DEF Quorum
<1>2. Quorum(signed, b) /\ Quorum(signed, c)
  BY QuorumGrows
<1>3. Cardinality(Signers(b)) >= Threshold /\ Cardinality(Signers(c)) >= Threshold
  BY <1>1, <1>2
<1>4. Signers(b) \in SUBSET Validator /\ Signers(c) \in SUBSET Validator
  BY DEF Signers
<1>5. PICK v \in Signers(b) \cap Signers(c) : v \notin Faulty /\ v # Proposer(b.height)
  BY <1>3, <1>4, QuorumsShare
<1>6. v \in Validator \ Faulty /\ <<v, b>> \in signed /\ <<v, c>> \in signed
  BY <1>5 DEF Signers
<1> QED BY <1>5, <1>6 DEF FinalityInv, Votes

\* So are two certain blocks of one height.
LEMMA CertainAgree ==
  ASSUME FinalityInv, NEW got, NEW more, got \subseteq signed, more \subseteq signed,
         NEW b, NEW c, b.height = c.height, Certain(made, got, b), Certain(made, more, c)
  PROVE  b = c
<1>1. \A a \in made : a.height # Genesis.height
  BY DEF FinalityInv, Votes, Genesis
<1>2. CASE b = Genesis
  BY <1>1, <1>2 DEF Certain
<1>3. CASE b \in made /\ Quorum(got, b)
  BY <1>1, <1>3, QuorumsAgree DEF Certain
<1> QED BY <1>2, <1>3 DEF Certain

LEMMA InvAgrees == FinalityInv => GenuineAgreement
<1> SUFFICES ASSUME FinalityInv, NEW m \in Node, NEW n \in Node, Genuine(m), Genuine(n),
                    NEW h \in DOMAIN store[m] \cap DOMAIN store[n]
             PROVE  store[m][h] = store[n][h]
  BY DEF GenuineAgreement
<1> DEFINE b == store[m][h]
           c == store[n][h]
<1>1. /\ b.height = h /\ Certain(made, received[m], b)
      /\ c.height = h /\ Certain(made, received[n], c)
  BY DEF FinalityInv, Certified
<1>2. received[m] \subseteq signed /\ received[n] \subseteq signed
  BY DEF Genuine
<1> HIDE DEF b, c
<1>3. b = c
  BY <1>1, <1>2, CertainAgree
<1> QED BY <1>3 DEF b, c

(* No two nodes have different blocks at one height, with fewer than a      *)
(* third of the validators faulty and every proposer signing at will, as    *)
(* long as both are handed signatures that were made only, in any order and *)
(* however often.                                                           *)
THEOREM GenuineAgreementHolds == Spec => []GenuineAgreement
<1> QED BY FinalityInvariant, InvAgrees, PTL

\* What is committed of signatures that were made: new, or come again.
LEMMA CommitExtends ==
  ASSUME FinalityInv, NEW n \in Node, NEW b \in made, ProcessBlock(n, b) \/ Commit(n, b)
  PROVE  \A m \in Node : ExtendsOrRepeats(m)
<1>1. PICK u : CommitBlock(n, b, u)
  BY DEF ProcessBlock, Commit
<1>2. tip \in [Node -> made \cup {Genesis}]
  BY DEF FinalityInv, TypeOK
<1>3. CASE Cardinality(Signatures(pending[n], b) \cup {Proposer(b.height)}) < Threshold
  BY <1>1, <1>3 DEF CommitBlock, ExtendsOrRepeats
<1>4. CASE ~(Cardinality(Signatures(pending[n], b) \cup {Proposer(b.height)}) < Threshold)
  <2>1. Quorum(fresh[n], b) /\ Quorum(received[n], b)
    BY <1>4, CommittedHasQuorum
  <2>2. tip' = [tip EXCEPT ![n] = b]
    BY <1>1, <1>4 DEF CommitBlock, Finalize
  <2>3. ASSUME Genuine(n) PROVE Extends(n, b) \/ CameAgain(n, b)
    <3>1. received[n] \subseteq signed
      BY <2>3 DEF Genuine
    <3>2. Certain(made, received[n], b)
      BY <2>1 DEF Certain
    <3>3. ASSUME NEW p, p.height \in DOMAIN store[n], Certain(made, received[n], p)
          PROVE  store[n][p.height] = p
      <4>1. PICK c : c = store[n][p.height]
        OBVIOUS
      <4>2. c.height = p.height /\ Certain(made, received[n], c)
        BY <3>3, <4>1 DEF FinalityInv, Certified
      <4>3. c = p
        BY <3>1, <3>3, <4>2, CertainAgree
      <4> QED BY <4>1, <4>3
    <3>4. CASE b.height \in DOMAIN store[n]
      <4>1. store[n][b.height] = b
        BY <3>2, <3>3, <3>4
      <4> QED BY <2>1, <3>4, <4>1 DEF CameAgain, Range
    <3>5. CASE b.height \notin DOMAIN store[n]
      <4>1. PICK p : /\ LinkValid(b, p) /\ p.height \in DOMAIN store[n]
                     /\ Certain(made, received[n], p)
        <5>1. CASE ProcessBlock(n, b)
          <6>1. LinkValid(b, tip[n])
            BY <5>1 DEF ProcessBlock, BlockValid
          <6>2. tip[n].height \in DOMAIN store[n] /\ Certain(made, received[n], tip[n])
            BY DEF FinalityInv, Certified
          <6> QED BY <6>1, <6>2
        <5>2. CASE Commit(n, b)
          BY <5>2 DEF Commit, FinalityInv, Certified
        <5> QED BY <5>1, <5>2
      <4>2. store[n][p.height] = p
        BY <3>3, <4>1
      <4> QED BY <3>5, <4>1, <4>2 DEF Extends
    <3> QED BY <3>4, <3>5
  <2> QED BY <1>2, <2>2, <2>3 DEF ExtendsOrRepeats
<1> QED BY <1>3, <1>4

LEMMA NextExtends == FinalityInv /\ [Next]_vars => [\A n \in Node : ExtendsOrRepeats(n)]_vars
<1> SUFFICES ASSUME FinalityInv, Next PROVE \A n \in Node : ExtendsOrRepeats(n)
  OBVIOUS
<1>1. CASE \E n \in Node : \E b \in made : ProcessBlock(n, b) \/ Commit(n, b)
  BY <1>1, CommitExtends
<1>2. CASE tip' = tip
  BY <1>2 DEF ExtendsOrRepeats
<1> QED BY <1>1, <1>2 DEF Next, Propose, Vote, AddSignature

(* With signatures that were made, a commit stores a block that is new and  *)
(* follows a stored one, or repeats a block a quorum of which came again.   *)
THEOREM CommitsExtendOrRepeat == Spec => CommitExtendsOrRepeats
<1> QED BY NextExtends, FinalityInvariant, PTL DEF Spec, CommitExtendsOrRepeats

-----------------------------------------------------------------------------
\* What a commit leaves in a node's UTXO set, given what validation left.
LEMMA CommitExplained ==
  ASSUME FinalityInv, LedgerExplained, NEW n \in Node, NEW b \in made,
         ProcessBlock(n, b) \/ Commit(n, b)
  PROVE  LedgerExplained'
<1>1. /\ DOMAIN store = Node /\ utxo \in [Node -> SUBSET Outpoint]
      /\ validated \in [Node -> SUBSET made]
  BY DEF FinalityInv, TypeOK
<1>2. PICK u \in SUBSET Outpoint :
        /\ CommitBlock(n, b, u)
        /\ u \subseteq utxo[n]
        /\ u = utxo[n] \/ u = ApplyBlock(utxo[n], b)
  BY <1>1 DEF ProcessBlock, Commit, ApplyBlock
<1>3. /\ b \in validated'[n]
      /\ \A m \in Node : validated[m] \subseteq validated'[m]
  BY <1>1 DEF ProcessBlock, Commit
<1>4. /\ utxo'[n] \in {u, ApplyBlock(u, b)}
      /\ \A m \in Node \ {n} : utxo'[m] = utxo[m] /\ store'[m] = store[m]
      /\ \/ store'[n] = store[n]
         \/ /\ utxo'[n] = ApplyBlock(u, b)
            /\ DOMAIN store'[n] = DOMAIN store[n] \cup {b.height}
            /\ \A h \in DOMAIN store'[n] : store'[n][h] = IF h = b.height THEN b ELSE store[n][h]
  BY <1>1, <1>2 DEF CommitBlock, Finalize
<1>5. utxo'[n] \subseteq utxo[n] /\ utxo[n] \ utxo'[n] \subseteq Spends[b.body]
  BY <1>2, <1>4 DEF ApplyBlock
<1> SUFFICES ASSUME NEW m \in Node
             PROVE  /\ \A h \in DOMAIN store'[m] \ {0} : utxo'[m] \cap Spends[store'[m][h].body] = {}
                    /\ Outpoint \ utxo'[m] \subseteq UNION {Spends[c.body] : c \in validated'[m]}
  BY DEF LedgerExplained
<1>6. /\ \A h \in DOMAIN store[m] \ {0} : utxo[m] \cap Spends[store[m][h].body] = {}
      /\ Outpoint \ utxo[m] \subseteq UNION {Spends[c.body] : c \in validated[m]}
  BY DEF LedgerExplained
<1>7. ASSUME NEW h \in DOMAIN store'[m] \ {0}
      PROVE  utxo'[m] \cap Spends[store'[m][h].body] = {}
  <2>1. CASE h \in DOMAIN store[m] /\ store'[m][h] = store[m][h]
    <3>1. utxo'[m] \subseteq utxo[m]
      BY <1>4, <1>5
    <3> QED BY <1>6, <2>1, <3>1
  <2>2. CASE m = n /\ store'[m][h] = b /\ utxo'[n] = ApplyBlock(u, b)
    BY <2>2 DEF ApplyBlock
  <2> QED BY <1>4, <2>1, <2>2
<1>8. Outpoint \ utxo'[m] \subseteq UNION {Spends[c.body] : c \in validated'[m]}
  <2>1. UNION {Spends[c.body] : c \in validated[m]} \subseteq UNION {Spends[c.body] : c \in validated'[m]}
    BY <1>3
  <2>2. CASE m = n
    <3>1. Spends[b.body] \subseteq UNION {Spends[c.body] : c \in validated'[m]}
      BY <1>3, <2>2
    <3> QED BY <1>5, <1>6, <2>1, <2>2, <3>1
  <2>3. CASE m # n
    BY <1>4, <1>6, <2>1, <2>3
  <2> QED BY <2>2, <2>3
<1> QED BY <1>7, <1>8

LEMMA NextExplained == FinalityInv /\ LedgerExplained /\ [Next]_vars => LedgerExplained'
<1> SUFFICES ASSUME FinalityInv, LedgerExplained, [Next]_vars PROVE LedgerExplained'
  OBVIOUS
<1>1. CASE UNCHANGED <<store, utxo, validated>>
  BY <1>1 DEF LedgerExplained
<1>2. CASE \E n \in Node : \E b \in made : ProcessBlock(n, b) \/ Commit(n, b)
  BY <1>2, CommitExplained
<1>3. ASSUME NEW v \in Node, NEW body \in Body, Propose(v, body)
      PROVE  UNCHANGED <<store, utxo, validated>>
  BY <1>3 DEF Propose
<1>4. ASSUME NEW v \in Validator, NEW b \in made, Vote(v, b)
      PROVE  UNCHANGED <<store, utxo, validated>>
  BY <1>4 DEF Vote
<1>5. ASSUME NEW n \in Node, NEW v \in Validator, NEW b \in made, AddSignature(n, v, b)
      PROVE  UNCHANGED <<store, utxo, validated>>
  BY <1>5 DEF AddSignature
<1> QED BY <1>1, <1>2, <1>3, <1>4, <1>5 DEF Next, vars

(* Validation spends what it finds valid, final or not, and nothing else    *)
(* goes; what the chain spent is gone.                                      *)
THEOREM LedgerExplainedHolds == Spec => []LedgerExplained
<1>1. Init => LedgerExplained
  BY DEF Init, LedgerExplained
<1> QED BY <1>1, NextExplained, FinalityInvariant, PTL DEF Spec
=============================================================================
