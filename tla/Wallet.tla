-------------------------------- MODULE Wallet --------------------------------
(***************************************************************************)
(* What a credit wallet promises to everything above it, with no ledger,   *)
(* no versions and no transactions in sight: one balance, one status per   *)
(* reservation, and six atomic operations.  A hold costs nothing until it  *)
(* is committed, but every check compares against what no OPEN hold claims *)
(* (credit-account.aggregate.ts, "two balances").                          *)
(*                                                                         *)
(* CreditLedger implements this module; AskAiSaga is built on top of it.   *)
(***************************************************************************)
EXTENDS Integers, FiniteSets

CONSTANTS
  Reservations,   \* the reservation ids sagas may draw
  Cost,           \* what one AI query holds and, if answered, costs
  Amounts         \* the amounts a grant, refund or direct spend may name

VARIABLES
  balance,        \* credits owned
  holds           \* reservation -> its status

wvars == <<balance, holds>>

Status == {"NONE", "OPEN", "COMMITTED", "RELEASED"}

Held(h) == Cost * Cardinality({r \in Reservations : h[r] = "OPEN"})

Spendable == balance - Held(holds)

Init ==
  /\ balance = 0
  /\ holds = [r \in Reservations |-> "NONE"]

Deposit(a) ==                       \* a grant or a refund
  /\ balance' = balance + a
  /\ UNCHANGED holds

Spend(a) ==
  /\ a <= Spendable
  /\ balance' = balance - a
  /\ UNCHANGED holds

Reserve(r) ==
  /\ holds[r] = "NONE"
  /\ Cost <= Spendable
  /\ holds' = [holds EXCEPT ![r] = "OPEN"]
  /\ UNCHANGED balance

Commit(r) ==
  /\ holds[r] = "OPEN"
  /\ holds' = [holds EXCEPT ![r] = "COMMITTED"]
  /\ balance' = balance - Cost

Release(r) ==
  /\ holds[r] = "OPEN"
  /\ holds' = [holds EXCEPT ![r] = "RELEASED"]
  /\ UNCHANGED balance

Next ==
  \/ \E a \in Amounts : Deposit(a) \/ Spend(a)
  \/ \E r \in Reservations : Reserve(r) \/ Commit(r) \/ Release(r)

Spec == Init /\ [][Next]_wvars
===============================================================================
