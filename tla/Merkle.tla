------------------------------- MODULE Merkle -------------------------------
(***************************************************************************)
(* The two Merkle trees of the repository: the one in block headers        *)
(* (core/block.py) and the light client's (offline/light_client.py).  A    *)
(* hash is modelled by what it commits to: a block's node is the pair of   *)
(* its children and its leaf the transaction's hash <<t>>; the light       *)
(* client marks leaves and nodes with a prefix.                            *)
(***************************************************************************)
EXTENDS SequencesExt, Naturals

Node(l, r) == <<l, r>>
LeafOf(t) == <<"leaf", t>>
PrefixedNode(l, r) == <<"node", l, r>>

\* Slip: the odd node out is paired with its left neighbour.
Sibling_LastPair(s, i) ==
  CASE i % 2 = 0  -> s[i - 1]
    [] i < Len(s) -> s[i + 1]
    [] OTHER      -> s[IF i > 1 THEN i - 1 ELSE i]

(***************************************************************************)
(* One level up: an odd node out is paired with itself.                    *)
(***************************************************************************)
Sibling(s, i) ==
  CASE i % 2 = 0  -> s[i - 1]
    [] i < Len(s) -> s[i + 1]
    [] OTHER      -> s[i]

Up(s, node(_, _)) ==
  IF Len(s) = 1 THEN s
  ELSE [i \in 1 .. (Len(s) + 1) \div 2 |->
          node(s[2 * i - 1], IF 2 * i <= Len(s) THEN s[2 * i] ELSE s[2 * i - 1])]

Layers(s, node(_, _)) ==
  LET layer[k \in 0 .. Len(s)] == IF k = 0 THEN s ELSE Up(layer[k - 1], node)
  IN  layer

Height(s) == CHOOSE h \in 0 .. Len(s) :
               2 ^ h >= Len(s) /\ \A g \in 0 .. h - 1 : 2 ^ g < Len(s)

Root(s, node(_, _)) == Layers(s, node)[Height(s)][1]

(* The siblings on the way up from leaf i (from 1), each with its side. *)
Proof(s, i, node(_, _)) ==
  LET at(k) == ((i - 1) \div 2 ^ (k - 1)) + 1
  IN  [k \in 1 .. Height(s) |->
         <<Sibling(Layers(s, node)[k - 1], at(k)), at(k) % 2 = 1>>]

Climb(leaf, proof, node(_, _)) ==
  FoldLeft(LAMBDA c, p : IF p[2] THEN node(c, p[1]) ELSE node(p[1], c), leaf, proof)

(***************************************************************************)
(* core/block.py.  The proof of an index outside the list is empty, and an *)
(* empty proof is accepted for the only transaction of a block.            *)
(***************************************************************************)
Hashed(txs) == [i \in DOMAIN txs |-> <<txs[i]>>]
compute_merkle_root(txs) == IF txs = <<>> THEN <<>> ELSE Root(Hashed(txs), Node)
compute_merkle_proof(txs, i) ==
  IF i \in DOMAIN txs THEN Proof(Hashed(txs), i, Node) ELSE <<>>
verify_merkle_proof(root, t, proof) == Climb(<<t>>, proof, Node) = root

(***************************************************************************)
(* offline/light_client.py: the leaves are padded with the last one up to  *)
(* a power of two; a proof without siblings raises MerkleProofInvalidError.*)
(***************************************************************************)
Padded(s) == [i \in 1 .. 2 ^ Height(s) |-> s[IF i <= Len(s) THEN i ELSE Len(s)]]
ClientLeaves(txs) == Padded([i \in DOMAIN txs |-> LeafOf(txs[i])])
ClientRoot(txs) == Root(ClientLeaves(txs), PrefixedNode)
ClientProof(txs, i) == Proof(ClientLeaves(txs), i, PrefixedNode)
ClientVerifies(root, t, proof) ==
  proof # <<>> /\ Climb(LeafOf(t), proof, PrefixedNode) = root
=============================================================================
