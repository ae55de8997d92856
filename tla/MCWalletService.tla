--------------------------- MODULE MCWalletService ---------------------------
(* Small instances of WalletService: the two users are alike. *)
EXTENDS WalletService, TLC

MCSymmetry == Permutations(Users) \cup Permutations(Updates)
==============================================================================
