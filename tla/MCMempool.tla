----------------------------- MODULE MCMempool ------------------------------
(***************************************************************************)
(* Instances of Mempool: a pool of four for eight transactions, four of    *)
(* them added with fee=0 as node.py and the API servers add them, three    *)
(* that pay alike, and one that pays more than any.                        *)
(***************************************************************************)
EXTENDS Mempool

SomeTx == 1 .. 8
SomePriority == [t \in SomeTx |-> CASE t <= 4 -> 0 [] t <= 7 -> 1 [] OTHER -> 2]
SomeSize == [t \in SomeTx |-> CASE t \in {1, 5, 8} -> 3 [] t \in {2, 6} -> 2 [] OTHER -> 1]
=============================================================================
