------------------------------- MODULE Script -------------------------------
(***************************************************************************)
(* The lock scripts and the stack machine that runs them (core/script.py). *)
(*                                                                         *)
(* A script is a sequence of units, the places where the machine can be    *)
(* when it reads: an opcode <<"op", name>>, or <<"op_n", i>> for OP_0 ..   *)
(* OP_16, of which the engine has handlers for 0 .. 5 and 16 only; the     *)
(* length of a push, <<"push", n>>, which takes the n units that follow as *)
(* one item, whatever they are; and data: <<"n", i>> the byte i, <<"pk",   *)
(* k>> and <<"hash", k>> key k and its HASH160, <<"sig", k>> a signature   *)
(* of this transaction that verifies under k and under no other key (k     *)
(* outside Key for one that verifies under none).  An item of one unit is  *)
(* that unit.                                                              *)
(***************************************************************************)
EXTENDS SequencesExt, Naturals

CONSTANT Key

Op(name) == <<"op", name>>
OpN(i) == <<"op_n", i>>
Push(x) == <<<<"push", 1>>, x>>

Verifies(sig, pk) == sig[1] = "sig" /\ pk = <<"pk", sig[2]>> /\ sig[2] \in Key

Truthy(x) == x # <<"n", 0>>

(***************************************************************************)
(* A machine is its stack (top last), whether it still runs (a handler     *)
(* that fails or underflows ends the run), how many units the push it is   *)
(* reading still takes, and those it has taken.                            *)
(***************************************************************************)
Failed(m) == [m EXCEPT !.ok = FALSE]
Top(m, i) == m.stack[Len(m.stack) - i]
Drop(m, n) == SubSeq(m.stack, 1, Len(m.stack) - n)
Replace(m, n, x) == [m EXCEPT !.stack = Append(Drop(m, n), x)]
Bit(b) == <<"n", IF b THEN 1 ELSE 0>>

(* A count on the stack.  Any longer item reads as a huge number, more than *)
(* a stack holds.                                                           *)
PopInt(x, m) == IF x[1] = "n" THEN x[2] ELSE Len(m.stack) + 1

OpHash160(m) ==
  Replace(m, 1, <<"hash", IF Top(m, 0)[1] = "pk" THEN Top(m, 0)[2] ELSE "other">>)

OpEqualVerify(m) ==
  IF Top(m, 0) = Top(m, 1) THEN [m EXCEPT !.stack = Drop(m, 2)] ELSE Failed(m)

OpCheckSig(m) == Replace(m, 2, Bit(Verifies(Top(m, 1), Top(m, 0))))

(***************************************************************************)
(* The keys are tried in the order they are popped; the next signature is  *)
(* taken up only when the current one has verified.                        *)
(***************************************************************************)
\* Slip: a signature that does not verify is passed over.
NextSig_Skips(sigs, i, pk) == IF i <= Len(sigs) THEN i + 1 ELSE i
NextSig(sigs, i, pk) ==
  IF i <= Len(sigs) /\ Verifies(sigs[i], pk) THEN i + 1 ELSE i

Matched(keys, sigs) ==
  FoldLeft(LAMBDA i, pk : NextSig(sigs, i, pk), 1, keys) - 1

OpCheckMultisig(m) ==
  LET keys  == PopInt(Top(m, 0), m)
      need  == PopInt(Top(m, keys + 1), m)
      pks   == [i \in 1 .. keys |-> Top(m, i)]
      sigs  == [i \in 1 .. need |-> Top(m, keys + 1 + i)]
  IN  IF Len(m.stack) < keys + 2 \/ Len(m.stack) < keys + need + 3
      THEN Failed(m)  \* one more item, the dummy, is popped below the signatures
      ELSE Replace(m, keys + need + 3, Bit(Matched(pks, sigs) >= need))

(***************************************************************************)
(* OP_CHECKGOVSIG reads only the context of the validator: each governance *)
(* key takes the first signature that verifies under it and is not taken.  *)
(***************************************************************************)
TakeSig(sigs, used, k) ==
  LET free == {i \in DOMAIN sigs : Verifies(sigs[i], <<"pk", k>>) /\ i \notin used}
  IN  IF free = {} THEN used
      ELSE used \cup {CHOOSE i \in free : \A j \in free : i <= j}

OpCheckGovSig(m, ctx) ==
  LET used == FoldLeft(LAMBDA u, k : TakeSig(ctx.sigs, u, k), {}, ctx.keys)
  IN  [m EXCEPT !.stack = Append(@, Bit(/\ ctx.keys # <<>>
                                        /\ ctx.threshold > 0
                                        /\ Cardinality(used) >= ctx.threshold))]

Handler(m, name, ctx) ==
  CASE name = "DUP"           -> IF m.stack = <<>> THEN Failed(m)
                                 ELSE [m EXCEPT !.stack = Append(@, Top(m, 0))]
    [] name = "HASH160"       -> IF m.stack = <<>> THEN Failed(m) ELSE OpHash160(m)
    [] name = "EQUALVERIFY"   -> IF Len(m.stack) < 2 THEN Failed(m) ELSE OpEqualVerify(m)
    [] name = "CHECKSIG"      -> IF Len(m.stack) < 2 THEN Failed(m) ELSE OpCheckSig(m)
    [] name = "CHECKMULTISIG" -> IF m.stack = <<>> THEN Failed(m) ELSE OpCheckMultisig(m)
    [] name = "CHECKGOVSIG"   -> OpCheckGovSig(m, ctx)
    [] name = "CHECKDID"      -> [m EXCEPT !.stack = Append(@, Bit(ctx.did))]

HasHandler(i) == i \in 0 .. 5 \cup {16}

(* The item is pushed when it has all its units, or the script has ended.   *)
PushItem(m, units) ==
  [m EXCEPT !.stack = Append(@, IF Len(units) = 1 THEN units[1] ELSE <<"bytes", units>>),
            !.due = 0, !.taken = <<>>]

Take(m, u) ==
  IF m.due = 1 THEN PushItem(m, Append(m.taken, u))
  ELSE [m EXCEPT !.due = @ - 1, !.taken = Append(@, u)]

(* _run, one unit: data where an opcode is due is taken for an unknown one. *)
Step(m, u, ctx) ==
  CASE ~ m.ok        -> m
    [] m.ok /\ m.due > 0 -> Take(m, u)
    [] m.ok /\ m.due = 0 ->
         CASE u[1] = "push" -> [m EXCEPT !.due = u[2]]
           [] u[1] = "op"   -> Handler(m, u[2], ctx)
           [] u[1] = "op_n" -> IF HasHandler(u[2])
                               THEN [m EXCEPT !.stack = Append(@, <<"n", u[2]>>)] ELSE Failed(m)
           [] OTHER         -> Failed(m)

Ended(m) == IF m.ok /\ m.due > 0 THEN PushItem(m, m.taken) ELSE m

(* ScriptEngine.execute: the two scripts are joined and read as one, so a  *)
(* push at the end of the unlock script may take units of the lock script. *)
Execute(lock, unlock, ctx) ==
  LET m == Ended(FoldLeft(LAMBDA s, u : Step(s, u, ctx),
                          [ok |-> TRUE, stack |-> <<>>, due |-> 0, taken |-> <<>>],
                          unlock \o lock))
  IN  m.ok /\ m.stack # <<>> /\ Truthy(Top(m, 0))

(* StandardScripts *)
Pushes(items) == FoldLeft(LAMBDA s, x : s \o Push(x), <<>>, items)
PushKeys(keys) == Pushes([i \in DOMAIN keys |-> <<"pk", keys[i]>>])
p2pkh_lock_script(k) ==
  <<Op("DUP"), Op("HASH160")>> \o Push(<<"hash", k>>) \o <<Op("EQUALVERIFY"), Op("CHECKSIG")>>
p2pkh_unlock_script(sig, k) == Push(sig) \o Push(<<"pk", k>>)
multisig_lock_script(m, keys) ==
  <<OpN(m)>> \o PushKeys(keys) \o <<OpN(Len(keys)), Op("CHECKMULTISIG")>>
gov_lock_script(threshold, keys) ==
  <<OpN(threshold)>> \o PushKeys(keys) \o <<OpN(Len(keys)), Op("CHECKGOVSIG")>>
did_lock_script(d) == <<Op("CHECKDID")>> \o Push(<<"hash", d>>) \o <<Op("CHECKSIG")>>

-----------------------------------------------------------------------------
(* What the standard scripts promise of an unlock script that pushes these  *)
(* items, without a machine.                                                *)

PaysToKey(k, items) ==
  LET n == Len(items)
  IN  n >= 2 /\ items[n] = <<"pk", k>> /\ items[n - 1] = <<"sig", k>>

(* The last m pushes are signatures of m of the keys, in the order of the  *)
(* keys, above one more item.                                              *)
PaysToSome(m, keys, items) ==
  LET n == Len(items)
  IN  /\ HasHandler(m) /\ HasHandler(Len(keys)) /\ n > m
      /\ \E f \in [1 .. m -> DOMAIN keys] :
           /\ \A i, j \in 1 .. m : i < j => f[i] < f[j]
           /\ \A i \in 1 .. m : items[n - m + i] = <<"sig", keys[f[i]]>>

CouncilSigned(ctx) ==
  /\ ctx.threshold > 0
  /\ Cardinality({k \in ToSet(ctx.keys) :
                    \E s \in ToSet(ctx.sigs) : s = <<"sig", k>>}) >= ctx.threshold

PaysToCouncil(m, keys, ctx) ==
  HasHandler(m) /\ HasHandler(Len(keys)) /\ CouncilSigned(ctx)
=============================================================================
