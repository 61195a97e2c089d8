------------------------------- MODULE MCSales ------------------------------
(***************************************************************************)
(* Two sellers whose N, standing and bonus change, and three values of phi.*)
(***************************************************************************)
EXTENDS Sales

CONSTANTS seller, other

Acc(b, l, av, st, f) ==
  [n_balance |-> b, n_locked |-> l, n_available |-> av, status |-> st,
   first_auth_height |-> f]

Accounts == {Acc(3, 1, 0, "AUTHENTICATED", 1), Acc(3, 0, 1, "AUTHENTICATED", 0),
             Acc(3, 0, 3, "SUSPENDED", 1)}
FirstAccount == [a \in {seller, other} |-> Acc(3, 1, 0, "AUTHENTICATED", 1)]
PhiValues == {[num |-> 2, den |-> 3], [num |-> 1, den |-> 2], [num |-> 0, den |-> 1]}
=============================================================================
