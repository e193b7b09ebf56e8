-------------------------- MODULE MCWalletAccess --------------------------
(* Model checking of WalletAccess.                                         *)
EXTENDS WalletAccess, TLC

CONSTANTS w1, w2, n1, n2, x1, x2, a1, a2, s1, s2, s3

(* Wallets, nonces, payments, nicknames and slots are alike.               *)
Symmetry == Permutations(Wallets) \cup Permutations(Nonces) \cup Permutations(Txs)
            \cup Permutations(Nicknames) \cup Permutations(Slots)
============================================================================
