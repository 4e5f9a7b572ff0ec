------------------------------ MODULE MCWallet ------------------------------
(* A model-checking instance of Wallet.                                    *)
EXTENDS Wallet, TLC

CONSTANTS i1, i2, m1, m2, s1, s2

\* Intents, accounts and requests are interchangeable; codes are not, they come in order.
Symmetry == Permutations(Intents) \cup Permutations(Methods) \cup Permutations(Slots)
=============================================================================
