--------------------------- MODULE RewardAccounts ---------------------------
(***************************************************************************)
(* What the hub promises its stakers.  Every account is owed rewards out   *)
(* of a pool.  The pool is funded, its funds are allotted to accounts that *)
(* have a stake at that moment, and an account is paid all it is owed at   *)
(* once.  Changing a stake costs no one a reward and gives no one any.     *)
(***************************************************************************)
EXTENDS Integers, Sums

CONSTANT Accounts

VARIABLES stake, owed, pool

vars == <<stake, owed, pool>>

Init ==
  /\ stake = [k \in Accounts |-> 0]
  /\ owed = [k \in Accounts |-> 0]
  /\ pool = 0

ChangeStake(k) ==
  /\ stake'[k] \in Nat
  /\ stake' = [stake EXCEPT ![k] = stake'[k]]
  /\ UNCHANGED <<owed, pool>>

Fund ==
  /\ pool' \in Nat /\ pool' > pool
  /\ UNCHANGED <<stake, owed>>

(* The pool may be funded in the same step.                                *)
Allot ==
  /\ owed' \in [Accounts -> Nat]
  /\ \A k \in Accounts :
       /\ owed'[k] >= owed[k]
       /\ owed'[k] > owed[k] => stake[k] > 0
  /\ pool' \in Nat /\ pool' >= pool
  /\ SumOver(owed', Accounts) <= pool'
  /\ UNCHANGED stake

Pay(k) ==
  /\ pool' = pool - owed[k]
  /\ owed' = [owed EXCEPT ![k] = 0]
  /\ UNCHANGED stake

Next ==
  \/ \E k \in Accounts : ChangeStake(k) \/ Pay(k)
  \/ Fund
  \/ Allot

Spec == Init /\ [][Next]_vars
=============================================================================
