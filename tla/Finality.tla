------------------------------ MODULE Finality ------------------------------
(***************************************************************************)
(* Proposal, signatures and finality with several validators: the          *)
(* PoABFTConsensus object of core/consensus.py on some of them.            *)
(*                                                                         *)
(* Who asks the object is outside the code: node.py configures a single    *)
(* validator, and no module sends a vote.  The environment assumed is any: *)
(* a node validates blocks, is handed signatures, made by their validators *)
(* or not, new or not, and tries commit_block on blocks it has validated,  *)
(* at any moment and any number of times.                                  *)
(*                                                                         *)
(* A block body is what the mempool selected and a timestamp; of its       *)
(* transactions only the outpoints they spend count here.  A hash is what  *)
(* it commits to: the list of bodies from the first block on.              *)
(***************************************************************************)
EXTENDS Integers, Sequences, FiniteSets, Functions, SequencesExt

CONSTANTS
  Validators, \* the validator list, in its order, each of weight 1
  Node,       \* the validators whose consensus object is followed
  Faulty,     \* validators that sign anything
  Body,       \* block bodies
  Spends,     \* [Body -> set of outpoints that its transactions spend]
  Outpoint,   \* the unspent outpoints at the genesis block
  MaxHeight,  \* bound: heights for which blocks are proposed
  MaxBlocks,  \* bound: blocks proposed
  MaxForged   \* bound: signatures handed to one node that nobody made

Validator == Range(Validators)

N == Len(Validators)

(***************************************************************************)
(* A proposer whose block is not final proposes another at the next        *)
(* interval and signs it too, so at its heights it is as good as faulty:   *)
(* one validator more is needed than 3 f + 1.                              *)
(***************************************************************************)
ASSUME FinalityAssumption ==
  /\ Validators \in Seq(Validator) /\ IsInjective(Validators)
  /\ Node \subseteq Validator /\ Faulty \subseteq Validator
  /\ 3 * Cardinality(Faulty) + 2 <= N
  /\ Spends \in [Body -> SUBSET Outpoint]
  /\ MaxHeight \in Nat /\ MaxBlocks \in Nat /\ MaxForged \in Nat

VARIABLES
  made,      \* blocks that were proposed
  signed,    \* <<validator, block>>: signatures that exist
  tip,       \* chain_tip of each node
  store,     \* its block store: height -> block
  utxo,      \* its UTXO set, of the outpoints that were there at first
  validated, \* blocks its validate_block accepted
  received,  \* signatures that were handed to it
  fresh,     \* those handed since it committed their block the last time
  pending    \* pending_signatures: block -> validators

vars == <<made, signed, tip, store, utxo, validated, received, fresh, pending>>

Block == [height : Nat, prev : Seq(Body), body : Body]

Genesis == [height |-> 0, prev |-> <<>>, body |-> <<>>]

Hash(b) == IF b.height = 0 THEN <<>> ELSE Append(b.prev, b.body)

\* Slip: floor(2 n / 3), without the one.
Threshold_TwoThirds == (2 * N) \div 3

Threshold == (2 * N) \div 3 + 1

\* proposer_for_height
Proposer(h) == Validators[(h % N) + 1]

Init ==
  /\ made = {} /\ signed = {}
  /\ tip = [n \in Node |-> Genesis]
  /\ store = [n \in Node |-> [h \in {0} |-> Genesis]]
  /\ utxo = [n \in Node |-> Outpoint]
  /\ validated = [n \in Node |-> {}]
  /\ received = [n \in Node |-> {}] /\ fresh = [n \in Node |-> {}]
  /\ pending = [n \in Node |-> [b \in {} |-> {}]]

-----------------------------------------------------------------------------
\* pending_signatures.get(hash, {}), and the dict with the entry of b replaced.
Signatures(p, b) == IF b \in DOMAIN p THEN p[b] ELSE {}
WithSignatures(p, b, S) == [c \in DOMAIN p \cup {b} |-> IF c = b THEN S ELSE p[c]]

\* BlockValidator: the link to the tip, and every input unspent.
LinkValid(b, prev) == b.prev = Hash(prev) /\ b.height = prev.height + 1
BlockValid(b, prev, u) == LinkValid(b, prev) /\ Spends[b.body] \subseteq u

\* Slip: the transactions are applied to a copy.
ApplyBlock_Copy(u, b) == u

\* apply_block: inputs are removed, there or not.
ApplyBlock(u, b) == u \ Spends[b.body]

\* propose_block: the validator of the next height, on the tip of its chain.
\* It signs each block it makes, whatever it signed at this height before.
Propose(v, body) ==
  LET b == [height |-> tip[v].height + 1, prev |-> Hash(tip[v]), body |-> body] IN
  /\ Proposer(b.height) = v
  /\ b \notin made /\ b.height <= MaxHeight /\ Cardinality(made) < MaxBlocks
  /\ made' = made \cup {b}
  /\ signed' = signed \cup {<<v, b>>}
  /\ UNCHANGED <<tip, store, utxo, validated, received, fresh, pending>>

(***************************************************************************)
(* A validator's vote, external to the code: a correct one signs a block   *)
(* it found valid, and one block of a height; of a validator whose node is *)
(* not followed the first condition is not known.                          *)
(***************************************************************************)
Vote(v, b) ==
  /\ b \in made /\ <<v, b>> \notin signed
  /\ v \notin Faulty =>
       /\ \A c \in made : <<v, c>> \in signed => c.height # b.height
       /\ v \in Node => b \in validated[v]
  /\ signed' = signed \cup {<<v, b>>}
  /\ UNCHANGED <<made, tip, store, utxo, validated, received, fresh, pending>>

\* Slip: the signatures of a committed block are kept.
Finalize_KeepPending(n, b) ==
  /\ tip' = [tip EXCEPT ![n] = b]
  /\ store' = [store EXCEPT ![n] = [h \in DOMAIN @ \cup {b.height} |->
                                      IF h = b.height THEN b ELSE @[h]]]
  /\ fresh' = [fresh EXCEPT ![n] = {s \in @ : s[2] # b}]
  /\ UNCHANGED pending

(***************************************************************************)
(* commit_block past the threshold.  It does not look at the chain tip:    *)
(* the block becomes the tip and save_block overwrites its height.         *)
(***************************************************************************)
Finalize(n, b) ==
  /\ tip' = [tip EXCEPT ![n] = b]
  /\ store' = [store EXCEPT ![n] = [h \in DOMAIN @ \cup {b.height} |->
                                      IF h = b.height THEN b ELSE @[h]]]
  /\ fresh' = [fresh EXCEPT ![n] = {s \in @ : s[2] # b}]
  /\ pending' = [pending EXCEPT ![n] = Restrict(@, DOMAIN @ \ {b})]

\* commit_block: with the proposer's signature, which the header carries.
CommitBlock(n, b, u) ==
  LET signers == Signatures(pending[n], b) \cup {Proposer(b.height)} IN
  IF Cardinality(signers) < Threshold
    THEN /\ pending' = [pending EXCEPT ![n] = WithSignatures(@, b, signers)]
         /\ utxo' = [utxo EXCEPT ![n] = u]
         /\ UNCHANGED <<tip, store, fresh>>
    ELSE /\ Finalize(n, b)
         /\ utxo' = [utxo EXCEPT ![n] = ApplyBlock(u, b)]

\* process_block: validate_block, which applies a valid block to the UTXO set
\* whether it becomes final or not, and a first commit_block.
ProcessBlock(n, b) ==
  /\ b \in made
  /\ BlockValid(b, tip[n], utxo[n])
  /\ validated' = [validated EXCEPT ![n] = @ \cup {b}]
  /\ CommitBlock(n, b, ApplyBlock(utxo[n], b))
  /\ UNCHANGED <<made, signed, received>>

\* A later commit_block, after more signatures.
Commit(n, b) ==
  /\ b \in validated[n]
  /\ CommitBlock(n, b, utxo[n])
  /\ UNCHANGED <<made, signed, validated, received>>

(***************************************************************************)
(* add_signature: the key must be a validator's, the signature is never    *)
(* verified.  The block may be unknown, or committed already; its entry is *)
(* then made again.                                                        *)
(***************************************************************************)
AddSignature(n, v, b) ==
  /\ received' = [received EXCEPT ![n] = @ \cup {<<v, b>>}]
  /\ Cardinality(received'[n] \ signed) <= MaxForged
  /\ fresh' = [fresh EXCEPT ![n] = @ \cup {<<v, b>>}]
  /\ pending' = [pending EXCEPT ![n] = WithSignatures(@, b, Signatures(@, b) \cup {v})]
  /\ UNCHANGED <<made, signed, tip, store, utxo, validated>>

Next ==
  \/ \E v \in Node, body \in Body : Propose(v, body)
  \/ \E v \in Validator : \E b \in made : Vote(v, b)
  \/ \E n \in Node : \E b \in made : ProcessBlock(n, b)
  \/ \E n \in Node : \E b \in made : Commit(n, b)
  \/ \E n \in Node, v \in Validator : \E b \in made : AddSignature(n, v, b)

Spec == Init /\ [][Next]_vars

-----------------------------------------------------------------------------
TypeOK ==
  /\ made \subseteq Block
  /\ signed \subseteq Validator \X made
  /\ tip \in [Node -> made \cup {Genesis}]
  /\ DOMAIN store = Node
  /\ \A n \in Node : \A h \in DOMAIN store[n] : store[n][h] \in made \cup {Genesis}
  /\ utxo \in [Node -> SUBSET Outpoint]
  /\ validated \in [Node -> SUBSET made]
  /\ received \in [Node -> SUBSET (Validator \X made)]
  /\ fresh \in [Node -> SUBSET (Validator \X made)]
  /\ DOMAIN pending = Node
  /\ \A n \in Node : DOMAIN pending[n] \subseteq made

(* All signatures that a node was handed were made by their validators.     *)
Genuine(n) == received[n] \subseteq signed

(* Two nodes have different blocks at a height only if one of them was      *)
(* handed a signature that nobody made: signatures that were made, handed   *)
(* over in any order and as often as one likes, are not enough, although a  *)
(* proposer signs every block it proposes there, faulty validators sign all *)
(* of them, and commit_block asks for signatures alone.                     *)
GenuineAgreement ==
  \A m, n \in Node :
    Genuine(m) /\ Genuine(n) =>
      \A h \in DOMAIN store[m] \cap DOMAIN store[n] : store[m][h] = store[n][h]

\* The proposer, who signed in the header, and the signers among sigs make a quorum.
Quorum(sigs, b) ==
  Cardinality({v \in Validator : <<v, b>> \in sigs} \cup {Proposer(b.height)}) >= Threshold

\* b was committed, and a quorum of its signatures has come again since.
CameAgain(n, b) ==
  /\ b \in Range(store[n])
  /\ Quorum(fresh[n], b)

\* b comes after a stored block, at a height that has none.
Extends(n, b) ==
  /\ b.height \notin DOMAIN store[n]
  /\ \E h \in DOMAIN store[n] : LinkValid(b, store[n][h])

(* A commit extends what a node has stored, unless it was handed a signature *)
(* that nobody made, or a quorum of an old block's anew: with signatures    *)
(* that were made, no stored block is replaced, and calling commit_block    *)
(* again, or signatures that come late, never bring a node back.            *)
ExtendsOrRepeats(n) ==
  tip'[n] = tip[n] \/ ~Genuine(n) \/ Extends(n, tip'[n]) \/ CameAgain(n, tip'[n])

CommitExtendsOrRepeats == [][\A n \in Node : ExtendsOrRepeats(n)]_vars

(* A node's UTXO set is the first one without what the blocks that it       *)
(* validated spend, final or not: nothing that its chain spent is left, and *)
(* what is missing was spent by a block that it found valid.                *)
LedgerExplained ==
  \A n \in Node :
    /\ \A h \in DOMAIN store[n] \ {0} : utxo[n] \cap Spends[store[n][h].body] = {}
    /\ Outpoint \ utxo[n] \subseteq UNION {Spends[b.body] : b \in validated[n]}
-----------------------------------------------------------------------------
(* What finality promises, and the code does not keep: no two nodes finalize *)
(* different blocks of a height, and no commit takes the tip back.           *)
FinalAgreement ==
  \A m, n \in Node : \A h \in DOMAIN store[m] \cap DOMAIN store[n] :
    store[m][h] = store[n][h]

CommitsExtend == [][\A n \in Node : tip'[n] = tip[n] \/ LinkValid(tip'[n], tip[n])]_vars
=============================================================================
