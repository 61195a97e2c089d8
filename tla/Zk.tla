--------------------------------- MODULE Zk ---------------------------------
(***************************************************************************)
(* Commitments, circuits, proofs and their verification (zk/).             *)
(*                                                                         *)
(* The group has Q elements, a point is its logarithm to the base g (0 is  *)
(* the point at infinity) and h = g^H.  The challenge of Fiat and Shamir   *)
(* is a function of what is hashed, the same for prover and verifier, so   *)
(* it is a value e of the task; k is the prover's random scalar.  Hashes   *)
(* are what they commit to: a nullifier is <<utxo, sk>>, and a signature   *)
(* over a document is <<document, key it recovers to>>.                    *)
(***************************************************************************)
EXTENDS SequencesExt, Naturals

CONSTANTS Q, H, MaxBits  \* Q > 2, H in 1 .. Q - 1; MaxBits is 64 in the code

Sum(s) == FoldLeft(LAMBDA x, y : x + y, 0, s)

Commit(v, r) == (v + H * r) % Q
Minus(p, c) == (p + (Q - 1) * c) % Q

-----------------------------------------------------------------------------
(***************************************************************************)
(* Knowledge of x with y = gen^x: _prove_dlog and _verify_dlog.  The other *)
(* test of _verify_dlog, that a is not None, always passes: a decoded      *)
(* point at infinity is (0, 0).                                            *)
(***************************************************************************)
ProveDlog(x, gen, k, e) == [a |-> (gen * k) % Q, r |-> (k + e * x) % Q]

VerifyDlog(p, y, gen, e) ==
  /\ p.r # 0
  /\ (gen * p.r) % Q = (p.a + e * y) % Q

-----------------------------------------------------------------------------
(***************************************************************************)
(* RangeProofProver: one commitment per bit, opened in the proof; verify   *)
(* checks the openings and computes the weighted sum, and does not compare *)
(* it with the commitment it is given.                                     *)
(***************************************************************************)
BitAt(v, i) == (v \div 2 ^ (i - 1)) % 2

ProveRange(v, rs) ==
  IF v < 0 \/ v >= 2 ^ MaxBits THEN {}
  ELSE {[i \in 1 .. MaxBits |-> [c   |-> Commit(BitAt(v, i), rs[i]),
                                 bit |-> BitAt(v, i), r |-> rs[i]]]}

Reconstructed(p) == Sum([i \in DOMAIN p |-> p[i].c * 2 ^ (i - 1)]) % Q

VerifyRange(p) ==
  /\ Len(p) = MaxBits
  /\ \A i \in DOMAIN p : p[i].c = Commit(p[i].bit, p[i].r)

-----------------------------------------------------------------------------
(***************************************************************************)
(* NTransferCircuit: a statement is what is spent (utxo, amount, owner's   *)
(* public key), the amounts paid, the fee, the key and the blindings.      *)
(***************************************************************************)
Amounts(s) == [i \in DOMAIN s |-> s[i].amount]
CommitAll(vs, rs) == [i \in DOMAIN vs |-> Commit(vs[i], rs[i])]

TransferSatisfied(st) ==
  /\ Sum(Amounts(st.ins)) = Sum(st.outs) + st.fee
  /\ \A c \in ToSet(CommitAll(Amounts(st.ins), st.rin)) : c # 0
  /\ \A c \in ToSet(CommitAll(st.outs, st.rout)) : c # 0
  /\ \A i \in DOMAIN st.ins : st.ins[i].owner = st.sk % Q

InRange(vs) == \A i \in DOMAIN vs : vs[i] < 2 ^ MaxBits

(* What remains of the commitments once the outputs are taken off. *)
BalancePoint(st) == Minus(Sum(CommitAll(Amounts(st.ins), st.rin)),
                          Sum(CommitAll(st.outs, st.rout)))

BlindingLeft(st) == (Sum(st.rin) + (Q - 1) * Sum(st.rout)) % Q

(* prove_n_transfer: raises (empty) on a false statement. *)
ProveTransfer(st, k, e) ==
  IF ~ TransferSatisfied(st) \/ ~ InRange(Amounts(st.ins)) \/ ~ InRange(st.outs) THEN {}
  ELSE {[circuit    |-> 1,
         nullifiers |-> {<<st.ins[i].utxo, st.sk>> : i \in DOMAIN st.ins},
         counts     |-> <<Len(st.ins), Len(st.outs)>>,
         pubkey     |-> st.sk % Q,
         ownership  |-> ProveDlog(st.sk, 1, k, e),
         balance    |-> ProveDlog(BlindingLeft(st), H, k, e),
         ranges     |-> Len(st.ins) + Len(st.outs)]}

(***************************************************************************)
(* verify_n_transfer: the nullifiers are unspent, the key's proof holds    *)
(* and the parts are there; the balance and range proofs are not checked   *)
(* against the commitments.  Nothing marks the nullifiers as spent.        *)
(***************************************************************************)
VerifyTransfer(p, spent, e) ==
  /\ p.circuit = 1
  /\ p.nullifiers \cap spent = {}
  /\ p.pubkey # 0
  /\ VerifyDlog(p.ownership, p.pubkey, 1, e)
  /\ p.ranges = p.counts[1] + p.counts[2]

-----------------------------------------------------------------------------
\* Slip: the ratio upside down.
RatioSatisfied_Inverted(d, n, num, den) == num > 0 /\ den > 0 /\ n * num >= d * den

(* RatioVerifyCircuit: the N paid covers d times num / den. *)
RatioSatisfied(d, n, num, den) == num > 0 /\ den > 0 /\ n * den >= d * num

ProveRatio(d, n, num, den, k, e) ==
  IF ~ RatioSatisfied(d, n, num, den) THEN {}
  ELSE {[circuit |-> 2, num |-> num, den |-> den,
         sigma |-> ProveDlog((d * den + n * num) % Q, 1, k, e)]}

VerifyRatio(p, d, n) ==
  /\ p.circuit = 2
  /\ p.num > 0 /\ p.den > 0
  /\ n * p.den >= d * p.num

(* IdentityBindCircuit: the key is the holder's and signed the document. *)
ProveIdentity(doc, sig, pk, sk, k, e) ==
  IF pk # sk % Q \/ sig # <<doc, pk>> THEN {}
  ELSE {[circuit |-> 3, did |-> doc, pubkey |-> pk, sig |-> sig,
         ownership |-> ProveDlog(sk, 1, k, e)]}

VerifyIdentity(p, did, e) ==
  /\ p.circuit = 3
  /\ p.did = did
  /\ p.pubkey # 0
  /\ VerifyDlog(p.ownership, p.pubkey, 1, e)
  /\ p.sig = <<did, p.pubkey>>

(***************************************************************************)
(* batch_verify takes the document of an identity proof from its public    *)
(* inputs, where its caller may have put one ("" where it has not: the     *)
(* prover puts only the hash).                                             *)
(***************************************************************************)
BatchVerify(p, spent, d, n, document, e) ==
  CASE p.circuit = 1 -> VerifyTransfer(p, spent, e)
    [] p.circuit = 2 -> VerifyRatio(p, d, n)
    [] p.circuit = 3 -> VerifyIdentity(p, document, e)
    [] OTHER         -> FALSE
=============================================================================
