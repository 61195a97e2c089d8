-------------------------- MODULE ReplicatedChain ---------------------------
(***************************************************************************)
(* What the nodes promise together: one leader extends a chain of          *)
(* transaction lists and every other node has a prefix of it, one list     *)
(* after the other, never losing and never changing a list it has.         *)
(***************************************************************************)
EXTENDS Naturals, Sequences

CONSTANTS
  Replica, \* the nodes
  Leader,  \* the node that extends the chain
  First    \* the genesis block's list

VARIABLE chain \* the list of transaction lists of each node

Init == chain = [n \in Replica |-> <<First>>]

\* Some list is appended, whatever the leader put in it.
Extend ==
  /\ Len(chain'[Leader]) = Len(chain[Leader]) + 1
  /\ LET next == chain'[Leader][Len(chain'[Leader])]
     IN  chain' = [chain EXCEPT ![Leader] = Append(@, next)]

Copy(n) ==
  /\ Len(chain[n]) < Len(chain[Leader])
  /\ chain' = [chain EXCEPT ![n] = Append(@, chain[Leader][Len(@) + 1])]

Next == Extend \/ \E n \in Replica \ {Leader} : Copy(n)

Spec == Init /\ [][Next]_chain
=============================================================================
