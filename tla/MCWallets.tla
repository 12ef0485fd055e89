------------------------------ MODULE MCWallets ------------------------------
(* A small instance of WalletService for TLC. *)
EXTENDS WalletService, TLC

(* Negative, rounded to nothing, rounded up, and twice the opening balance. *)
SomeAmounts == {-10, 5, 6, 40}

CallsAlike == Permutations(Calls)
=============================================================================
