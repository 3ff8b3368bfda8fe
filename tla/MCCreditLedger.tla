---------------------------- MODULE MCCreditLedger ----------------------------
(***************************************************************************)
(* Two connections, two reservations, a cost of 2 against amounts 1 and 3: *)
(* a balance can cover one hold but not two, or a hold but not a spend.    *)
(***************************************************************************)
EXTENDS WalletReadModel

MCAmounts == {1, 3}

Symmetry == Permutations(Txns) \cup Permutations(Reservations)
===============================================================================
