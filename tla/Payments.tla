------------------------------ MODULE Payments ------------------------------
(***************************************************************************)
(* How a wallet writes a payment (wallet/tx_creator.py, the addresses of   *)
(* wallet/wallet.py), and what the currency rules ask of one               *)
(* (currency/rules_engine.py).                                             *)
(*                                                                         *)
(* A public key hash is a sequence of HashLen bytes, the bytes being the   *)
(* digits 0 .. Byte - 1; an address writes the same number in base Radix,  *)
(* with a digit 0 in front for each byte 0 in front.  A name is what a     *)
(* transaction says of a party: <<"hex", h>> for the hash in hexadecimal,  *)
(* <<"0x", h>> for that with the prefix 0x, <<"b58", a>> for the address.  *)
(* A lock is <<"p2pkh", h>>, another script <<"script", s>>, or none <<>>. *)
(***************************************************************************)
EXTENDS Resolver

CONSTANTS
  HashLen,  \* 20
  Byte,     \* 256
  Radix     \* 58, the length of ALPHABET

-----------------------------------------------------------------------------
(***************************************************************************)
(* Addresses.                                                              *)
(***************************************************************************)
Number(digits, base) == FoldLeft(LAMBDA n, d : n * base + d, 0, digits)

Digits(n, base) ==
  LET len == CHOOSE k \in 0 .. n : base ^ k > n /\ \A j \in 0 .. k - 1 : base ^ j <= n
  IN  [i \in 1 .. len |-> (n \div base ^ (len - i)) % base]

LeadingZeros(s) ==
  CHOOSE k \in 0 .. Len(s) : /\ \A i \in 1 .. k : s[i] = 0
                             /\ k = Len(s) \/ s[k + 1] # 0

base58_encode(h) == [i \in 1 .. LeadingZeros(h) |-> 0] \o Digits(Number(h, Byte), Radix)

(* The zeros in front are not put back; the number 0 is one byte. *)
base58_decode(a) ==
  LET n == Number(a, Radix) IN IF n = 0 THEN <<0>> ELSE Digits(n, Byte)

(* _address_to_pubkey_hash: a version byte is taken off. *)
PubkeyHash(a) ==
  LET h == base58_decode(a)
  IN  IF Len(h) <= HashLen THEN h ELSE SubSeq(h, Len(h) - HashLen + 1, Len(h))

(* p2pkh_lock_script raises on a hash of another length. *)
Payable(a) == Len(PubkeyHash(a)) = HashLen
LockTo(a) == <<"p2pkh", PubkeyHash(a)>>

-----------------------------------------------------------------------------
(***************************************************************************)
(* TxCreator.  An operator that may raise yields the set of what it        *)
(* returns, empty when it raises.                                          *)
(***************************************************************************)
SmallestFirst(utxos) == StableSort(utxos, LAMBDA u, v : u[2] < v[2])

select_utxos(utxos, amount, strategy, exclude) ==
  LET candidates == SelectSeq(utxos, LAMBDA u : u[1] \notin exclude)
      chosen     == Prefix(IF strategy = "smallest_first" THEN SmallestFirst(candidates)
                           ELSE LargestFirst(candidates), amount)
  IN  IF candidates = <<>> \/ ValueOf(chosen) < amount THEN {} ELSE {chosen}

Output(amount, lock) == [amount |-> amount, lock |-> lock, asset |-> "N"]

ChangeOutputs(left, fee, change) ==
  IF left > 0 THEN <<Output(left, LockTo(change))>> ELSE <<>>

(* What create_transfer, create_sale and create_wage share: select, pay,   *)
(* give change, sign every input with the key of the sender.               *)
Payment(kind, from, to, amount, fee, utxos, change, extra) ==
  {[kind |-> kind, extra |-> extra, witnesses |-> Len(s),
    inputs  |-> [i \in DOMAIN s |-> [utxo |-> s[i], unlock |-> <<"key", from>>]],
    outputs |-> <<Output(amount, LockTo(to))>>
                  \o ChangeOutputs(ValueOf(s) - amount - fee, fee, change)] :
     s \in {s \in select_utxos(utxos, amount + fee, "smallest_first", {}) :
              Payable(to) /\ (ValueOf(s) > amount + fee => Payable(change))}}

create_transfer(from, to, n, fee, utxos, change) ==
  Payment("TRANSFER", from, to, n, fee, utxos, change, <<>>)

(* d_amount and external_amount are the same number; the parties are named *)
(* by their addresses.                                                     *)
create_sale(from, buyer, d, n, fee, utxos, change) ==
  Payment("TRANSFER_SALE", from, buyer, n, fee, utxos, change,
          <<"json", [d_amount |-> d, external_amount |-> d,
                     seller |-> <<"b58", from>>, buyer |-> <<"b58", buyer>>]>>)

create_wage(from, employer, d, n, fee, utxos, change) ==
  Payment("TRANSFER_WAGE", from, employer, n, fee, utxos, change,
          <<"json", [d_amount |-> d, external_amount |-> d,
                     worker |-> <<"b58", from>>, employer |-> <<"b58", employer>>]>>)

(* Nothing is spent; at most one governance key of the wallet signs. *)
create_mint(to, amount, holdsGovKey) ==
  {[kind |-> "MINT", extra |-> <<"json", [recipient |-> <<"b58", to>>, amount |-> amount]>>,
    witnesses |-> IF holdsGovKey THEN 1 ELSE 0,
    inputs |-> <<>>, outputs |-> <<Output(amount, LockTo(to))>>] : x \in {x \in {to} : Payable(x)}}

-----------------------------------------------------------------------------
(***************************************************************************)
(* What the extra field says.  JSON is a function on its keys; any other   *)
(* bytes are read as a length, an address of that length and an amount.    *)
(***************************************************************************)
Keyed(data, keys, none) ==
  LET there == {i \in DOMAIN keys : keys[i] \in DOMAIN data}
  IN  IF there = {} THEN none ELSE data[keys[CHOOSE i \in there : \A j \in there : i <= j]]

External(extra) ==
  IF extra[1] = "binary" THEN extra[3]
  ELSE Keyed(extra[2], <<"external_amount", "d_amount", "payment_amount">>, 0)

(* An empty name under a key is passed over for the next key. *)
Named(extra, keys) ==
  IF extra[1] = "binary" THEN extra[2]
  ELSE Keyed(extra[2], SelectSeq(keys, LAMBDA k : k \in DOMAIN extra[2] /\ extra[2][k] # <<>>), <<>>)

(***************************************************************************)
(* _sum_n_outputs_to: outputs of N whose lock, in hexadecimal, is the name.*)
(***************************************************************************)
Norm(name) == IF name[1] = "0x" THEN <<"hex", name[2]>> ELSE name
Recipient(lock) == IF lock = <<>> THEN <<>> ELSE <<"hex", lock[2]>>
PaidTo(outs, name) ==
  SumOf([i \in DOMAIN outs |->
           IF outs[i].asset = "N" /\ Recipient(outs[i].lock) = Norm(name)
           THEN outs[i].amount ELSE 0])

\* Slip: the required N is rounded down.
required_n_Floor(rate, d) == (rate.num * d) \div rate.den

(* required_n_for_sale and required_n_for_wage: rounded up. *)
required_n(rate, d) == (rate.num * d + rate.den - 1) \div rate.den

(* validate_sale_transaction and validate_wage_transaction differ in the   *)
(* ratio and in who is named.  balance holds the payer's balance, and is   *)
(* empty when the engine was given no way to ask.                          *)
RebateValid(tx, keys, rate, balance) ==
  /\ tx.extra # <<>>
  /\ External(tx.extra) > 0
  /\ Named(tx.extra, keys) # <<>>
  /\ tx.inputs # <<>> /\ tx.outputs # <<>>
  /\ PaidTo(tx.outputs, Named(tx.extra, keys)) >= required_n(rate, External(tx.extra))
  /\ \A b \in balance : b >= required_n(rate, External(tx.extra))

validate_sale_transaction(tx, phi, balance) ==
  RebateValid(tx, <<"buyer", "buyer_address", "to">>, phi, balance)
validate_wage_transaction(tx, psi, balance) ==
  RebateValid(tx, <<"employer", "employer_address", "to">>, psi, balance)

validate_mint_transaction(tx, required, least) ==
  /\ tx.kind = "MINT"
  /\ tx.witnesses >= required
  /\ tx.outputs # <<>>
  /\ Recipient(tx.outputs[1].lock) # <<>>
  /\ tx.outputs[1].amount >= least

validate_transfer(tx) ==
  /\ tx.inputs # <<>> /\ tx.outputs # <<>>
  /\ \A i \in DOMAIN tx.outputs : tx.outputs[i].asset = "N"
=============================================================================
