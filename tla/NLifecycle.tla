----------------------------- MODULE NLifecycle -----------------------------
(***************************************************************************)
(* Issuance, destruction and transfer of N as NLifecycleManager of         *)
(* currency/n_lifecycle.py keeps them, under the parameters that           *)
(* governance records (currency/params.py).                                *)
(*                                                                         *)
(* An address without a row in `_balances` is one whose balance is 0: no   *)
(* operation tells the two apart.  Signature lists are only counted, as    *)
(* the code does.  A refused operation changes nothing and is no step.     *)
(***************************************************************************)
EXTENDS GovernanceOps, Traversal, FiniteSets

CONSTANTS
  Addresses,   \* the addresses, in the order in which balances are added up
  Amount,      \* the amounts asked for
  NLower,      \* n_lower, the floor of the corridor
  NUpper,      \* n_upper, its ceiling
  FirstParams, \* genesis_params
  MaxSigs,     \* bound: signatures presented
  MaxHeight,   \* bound: chain height, activation heights
  MaxLog       \* bound: operations recorded

ASSUME LifecycleAssumption ==
  /\ Addresses \in Seq(ToSet(Addresses)) /\ IsInjective(Addresses)
  /\ Amount \subseteq Nat
  /\ NLower \in Nat
  /\ NUpper \in Nat
  /\ FirstParams \in Params
  /\ MaxSigs \in Nat /\ MaxHeight \in Nat /\ MaxLog \in Nat

Address == ToSet(Addresses)

VARIABLES
  balance, \* _balances
  log,     \* _audit_log
  history, \* GovernanceParams._history
  height   \* the height of the chain, which neither class keeps

vars == <<balance, log, history, height>>

Init ==
  /\ balance = [a \in Address |-> 0]
  /\ log = <<>>
  /\ history = <<[height |-> 0, params |-> FirstParams]>>
  /\ height = 0

\* get_circulating_supply
Supply(b) == Along(LAMBDA sum, a : sum + b[a], 0, Addresses)

\* _check_governance_signatures
Authorised(sigs) == sigs >= Latest(history).required

\* _record, after the balances have changed.
Audit(op, a, amount) ==
  /\ Len(log) < MaxLog
  /\ log' = Append(log, [op |-> op, address |-> a, amount |-> amount,
                         circulating |-> Supply(balance')])

\* Slip: the ceiling is compared with the supply before the issuance.
BelowCeiling_Before(amount) == Supply(balance) <= NUpper

\* The ceiling check of mint and replenish.
BelowCeiling(amount) == Supply(balance) + amount <= NUpper

\* The floor check of burn.
AboveFloor(amount) == Supply(balance) - amount >= NLower

\* The balance check of burn and transfer.
Covers(a, amount) == balance[a] >= amount

\* Slip: the recipient's balance is read before the sender's is written.
Moved_ReadBoth(from, to, amount) ==
  LET old == balance[to]
  IN  [[balance EXCEPT ![from] = @ - amount] EXCEPT ![to] = old + amount]

\* transfer's two writes, the second on top of the first.
Moved(from, to, amount) ==
  [[balance EXCEPT ![from] = @ - amount] EXCEPT ![to] = @ + amount]

-----------------------------------------------------------------------------
Mint(a, amount, sigs) ==
  /\ Authorised(sigs)
  /\ amount >= Latest(history).minMint
  /\ amount > 0
  /\ BelowCeiling(amount)
  /\ balance' = [balance EXCEPT ![a] = @ + amount]
  /\ Audit("MINT", a, amount)
  /\ UNCHANGED <<history, height>>

\* Replenish: only an address that has some N.
Replenish(a, amount, sigs) ==
  /\ Authorised(sigs)
  /\ amount > 0
  /\ balance[a] # 0
  /\ BelowCeiling(amount)
  /\ balance' = [balance EXCEPT ![a] = @ + amount]
  /\ Audit("REPLENISH", a, amount)
  /\ UNCHANGED <<history, height>>

Burn(a, amount, sigs) ==
  /\ Authorised(sigs)
  /\ amount > 0
  /\ Covers(a, amount)
  /\ AboveFloor(amount)
  /\ balance' = [balance EXCEPT ![a] = @ - amount]
  /\ Audit("BURN", a, amount)
  /\ UNCHANGED <<history, height>>

\* Transfer: signed by the sender, who may be the recipient.
Transfer(from, to, amount) ==
  /\ amount > 0
  /\ Covers(from, amount)
  /\ balance' = Moved(from, to, amount)
  /\ Audit("TRANSFER", from, amount)
  /\ UNCHANGED <<history, height>>

\* GovernanceParams.update: active from `at` on, a height yet to come or not.
Update(p, at) ==
  /\ CanUpdate(history, at)
  /\ history' = Append(history, [height |-> at, params |-> p])
  /\ UNCHANGED <<balance, log, height>>

\* The chain grows.
NextBlock ==
  /\ height < MaxHeight
  /\ height' = height + 1
  /\ UNCHANGED <<balance, log, history>>

Next ==
  \/ \E a \in Address, amount \in Amount, sigs \in 0 .. MaxSigs : Mint(a, amount, sigs)
  \/ \E a \in Address, amount \in Amount, sigs \in 0 .. MaxSigs : Replenish(a, amount, sigs)
  \/ \E a \in Address, amount \in Amount, sigs \in 0 .. MaxSigs : Burn(a, amount, sigs)
  \/ \E from, to \in Address, amount \in Amount : Transfer(from, to, amount)
  \/ \E p \in Params, at \in 0 .. MaxHeight : Update(p, at)
  \/ NextBlock

Spec == Init /\ [][Next]_vars

-----------------------------------------------------------------------------
Entry ==
  [op : {"MINT", "REPLENISH", "BURN", "TRANSFER"}, address : Address,
   amount : Nat, circulating : Nat]

TypeOK ==
  /\ balance \in [Address -> Nat]
  /\ log \in Seq(Entry)
  /\ history \in Seq(ParameterRecord) /\ history # <<>>
  /\ height \in Nat

\* The supply that the rows of an audit log account for: issued less burned.
Account(sum, e) ==
  CASE e.op \in {"MINT", "REPLENISH"} -> sum + e.amount
    [] e.op = "BURN" -> sum - e.amount
    [] e.op = "TRANSFER" -> sum

Explained(rows) == Along(Account, 0, rows)

(* The circulating supply never passes the ceiling of the corridor, however *)
(* issuances, burns, transfers and changes of parameters follow each other. *)
SupplyBounded == Supply(balance) <= NUpper

(* The audit log accounts for the money: the supply is what was issued less *)
(* what was burned, and every row recorded the supply that the rows up to   *)
(* it explain.  A transfer, to oneself too, neither makes nor loses any.    *)
AuditExplainsSupply ==
  /\ Supply(balance) = Explained(log)
  /\ \A i \in 1 .. Len(log) : log[i].circulating = Explained(SubSeq(log, 1, i))

(* Once above the floor of the corridor the supply stays above it.          *)
FloorHolds == [][Supply(balance) >= NLower => Supply(balance)' >= NLower]_vars

(* The binary search finds the record in force at every height: the last   *)
(* one at or below it.                                                      *)
LookupFindsActive ==
  \A h \in 0 .. MaxHeight :
    LET upto == {i \in 1 .. Len(history) : history[i].height <= h}
    IN  \E i \in upto :
          /\ ParamsAt(history, h) = history[i].params
          /\ \A j \in upto : j <= i

(* What was in force at a height up to the latest record's never changes:   *)
(* a replay of the chain up to there validates as it did.                   *)
PastParamsStable ==
  [][\A h \in 0 .. Last(history).height : ParamsAt(history, h) = ParamsAt(history', h)]_vars

(* An issuance carries the signatures that the parameters in force at the   *)
(* chain's height require ("Record a parameter change that takes effect at  *)
(* a given block height").                                                  *)
IssuanceUnderActiveParams ==
  [][\A a \in Address, amount \in Amount, sigs \in 0 .. MaxSigs :
       Mint(a, amount, sigs) => sigs >= ParamsAt(history, height).required]_vars
=============================================================================
