-------------------------------- MODULE Sales -------------------------------
(***************************************************************************)
(* What a seller may sell: the rebate rule (currency/rules_engine.py), the *)
(* capacity that the seller's N gives and its use over a window of blocks  *)
(* (currency/feasibility.py), and the account states they read             *)
(* (core/state.py).                                                        *)
(*                                                                         *)
(* Steps follow the use described at feasibility.py:108-113: a sale is     *)
(* checked when it is submitted and its usage is recorded when a block     *)
(* confirms it; in between, everything else happens.  A confirmation may   *)
(* be reported late, the height of the engine never goes back.  The usage  *)
(* log is read as a sum and filtered, never by position: it is the set of  *)
(* its records, told apart by the sale that each is of.                    *)
(***************************************************************************)
EXTENDS Integers, FiniteSets, FiniteSetsExt

CONSTANTS
  Address,
  Rates,       \* the values of phi: [num : Nat, den : Nat \ {0}]
  Amount,      \* external amounts of sales
  Account,     \* the fields that updates give an account, before normalisation
  First,       \* Address -> Account
  Window,      \* SALE_WINDOW_BLOCKS
  Month,       \* BLOCKS_PER_MONTH
  MaxHeight,   \* bound: block heights
  MaxSales,    \* bound: sales submitted
  MaxUpdates   \* bound: changes of an account or of phi

Raw == [n_balance : Nat, n_locked : Nat, n_available : Nat,
        status : {"PENDING", "AUTHENTICATED", "SUSPENDED"}, first_auth_height : Nat]

ASSUME SalesAssumption ==
  /\ Rates \subseteq [num : Nat, den : Nat \ {0}]
  /\ Amount \subseteq Nat \ {0}
  /\ Account \subseteq Raw /\ First \in [Address -> Account]
  /\ Window \in Nat \ {0} /\ Month \in Nat \ {0}
  /\ MaxHeight \in Nat /\ MaxSales \in Nat /\ MaxUpdates \in Nat

VARIABLES
  states,     \* the accounts of the StateManager
  phi,        \* phi of the latest parameters
  height,     \* _current_height of the engine
  usage,      \* _usage_log
  open,       \* sales that passed the checks and are not confirmed
  log,        \* every confirmed sale
  submitted,  \* sales that passed the checks so far
  excused,    \* sellers with overlapping sales, or a capacity that fell
  updates     \* changes of an account or of phi

salesVars == <<states, phi, height, usage, open, log, submitted, excused, updates>>

Sale == [id : Nat, address : Address, amount : Amount, height : 0 .. MaxHeight]
Open == [id : Nat, address : Address, amount : Amount]

-----------------------------------------------------------------------------
\* AccountState.__post_init__: an n_available of 0 is derived again.
NewAccount(f) ==
  IF f.n_available = 0 THEN [f EXCEPT !.n_available = Max({0, f.n_balance - f.n_locked})]
  ELSE f

\* required_n_for_sale: rounded up.
RequiredN(rate, d) == (rate.num * d + rate.den - 1) \div rate.den

\* max_sale_capacity: rounded down; divides by the numerator.
MaxSaleCapacity(rate, n) == (n * rate.den) \div rate.num

\* calculate_auth_bonus_scaled
AuthBonus(s, h) ==
  IF s.status # "AUTHENTICATED" THEN 0
  ELSE IF s.first_auth_height = 0 THEN 1000
  ELSE 1000 + Min({100 * (Max({0, h - s.first_auth_height}) \div Month), 1000})

\* calculate_max_sale_capacity, where phi is not 0.
Capacity(s, rate, h) ==
  IF s.n_available <= 0 THEN 0
  ELSE (MaxSaleCapacity(rate, s.n_available) * AuthBonus(s, h)) \div 1000

WindowStart(h) == Max({0, h - Window})

\* The sum of the sales of a among S that lie after a height.
AmountOf(r) == r.amount
After(S, a, start) == {r \in S : r.address = a /\ r.height > start}
SumAfter(S, a, start) == MapThenSumSet(AmountOf, After(S, a, start))

\* _get_period_usage
PeriodUsage(a) == SumAfter(usage, a, WindowStart(height))

\* Slip: a sale is compared with the capacity alone.
Feasible_UsageForgotten(a, d) ==
  /\ phi.num # 0 \/ states[a].n_available <= 0
  /\ d <= Capacity(states[a], phi, height)

\* check_sale_feasibility; with phi = 0 and some N it raises.
Feasible(a, d) ==
  /\ phi.num # 0 \/ states[a].n_available <= 0
  /\ PeriodUsage(a) + d <= Capacity(states[a], phi, height)

\* validate_sale_transaction: the buyer receives n of N.
RuleSatisfied(a, d, n) ==
  /\ n >= RequiredN(phi, d)
  /\ states[a].n_balance >= RequiredN(phi, d)

SalesInit ==
  /\ states = [a \in Address |-> NewAccount(First[a])]
  /\ phi \in {r \in Rates : r.num # 0}
  /\ height = 0
  /\ usage = {}
  /\ open = {}
  /\ log = {}
  /\ submitted = 0
  /\ excused = {}
  /\ updates = 0

-----------------------------------------------------------------------------
\* The currency checks of submit_transaction; open sales are told apart by
\* the order they were submitted in.
Submit(a, d, n) ==
  /\ submitted < MaxSales
  /\ RuleSatisfied(a, d, n)
  /\ Feasible(a, d)
  /\ open' = open \cup {[id |-> submitted, address |-> a, amount |-> d]}
  /\ excused' = IF \E o \in open : o.address = a THEN excused \cup {a} ELSE excused
  /\ submitted' = submitted + 1
  /\ UNCHANGED <<states, phi, height, usage, log, updates>>

\* Slip: _prune_expired drops sales the window still holds.
Pruned_WindowShort(S, a, h) == {r \in S : r.address # a \/ r.height > WindowStart(h) + 1}

\* _prune_expired, at the height of the sale that is being recorded.
Pruned(S, a, h) == {r \in S : r.address # a \/ r.height > WindowStart(h)}

\* record_sale_usage, for a sale that block h confirmed.
Record(o, h) ==
  LET r == [id |-> o.id, address |-> o.address, amount |-> o.amount, height |-> h]
  IN  /\ usage' = Pruned(usage \cup {r}, o.address, h)
      /\ height' = Max({height, h})
      /\ open' = open \ {o}
      /\ log' = log \cup {r}
      /\ UNCHANGED <<states, phi, submitted, excused, updates>>

\* The transaction is dropped from the pool, or replaced.
Drop(o) ==
  /\ open' = open \ {o}
  /\ UNCHANGED <<states, phi, height, usage, log, submitted, excused, updates>>

\* set_current_height
SetCurrentHeight(h) ==
  /\ height < h
  /\ height' = h
  /\ UNCHANGED <<states, phi, usage, open, log, submitted, excused, updates>>

Falls(a, s, rate) ==
  rate.num = 0 \/ phi.num = 0
  \/ Capacity(s, rate, height) < Capacity(states[a], phi, height)

\* StateManager.update
UpdateAccount(a, f) ==
  /\ updates < MaxUpdates
  /\ states' = [states EXCEPT ![a] = NewAccount(f)]
  /\ excused' = IF Falls(a, NewAccount(f), phi) THEN excused \cup {a} ELSE excused
  /\ updates' = updates + 1
  /\ UNCHANGED <<phi, height, usage, open, log, submitted>>

\* A governance update of phi.
UpdatePhi(rate) ==
  /\ updates < MaxUpdates
  /\ phi' = rate
  /\ excused' = excused \cup {a \in Address : Falls(a, states[a], rate)}
  /\ updates' = updates + 1
  /\ UNCHANGED <<states, height, usage, open, log, submitted>>

SalesNext ==
  \/ \E a \in Address, d \in Amount, n \in 0 .. Max(Amount) : Submit(a, d, n)
  \/ \E o \in open, h \in 1 .. MaxHeight : Record(o, h)
  \/ \E o \in open : Drop(o)
  \/ \E h \in 1 .. MaxHeight : SetCurrentHeight(h)
  \/ \E a \in Address, f \in Account : UpdateAccount(a, f)
  \/ \E r \in Rates : UpdatePhi(r)

SalesSpec == SalesInit /\ [][SalesNext]_salesVars

SalesTypeOK ==
  /\ states \in [Address -> Raw]
  /\ phi \in Rates
  /\ height \in 0 .. MaxHeight
  /\ usage \subseteq Sale /\ log \subseteq Sale
  /\ open \subseteq Open
  /\ submitted \in 0 .. MaxSales
  /\ excused \subseteq Address
  /\ updates \in 0 .. MaxUpdates

-----------------------------------------------------------------------------
\* Pruning, done at the height of each recorded sale, late ones included,
\* never changes what a check counts: every confirmed sale of the window is
\* still in the log (feasibility.py _prune_expired, _get_period_usage).
UsageIsWindow ==
  \A a \in Address : PeriodUsage(a) = SumAfter(log, a, WindowStart(height))

\* A seller is beyond the capacity only if one sale was checked while another
\* was unconfirmed, or the capacity itself fell: the window moving on, late
\* confirmations and dropped sales do not bring it about
\* (feasibility.py check_sale_feasibility, record_sale_usage).
OverdrawnHasCause ==
  \A a \in Address \ excused :
    phi.num # 0 => PeriodUsage(a) <= Capacity(states[a], phi, height)
=============================================================================
