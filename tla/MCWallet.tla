------------------------------- MODULE MCWallet -------------------------------
(***************************************************************************)
(* Small instances of Wallet for TLC.                                      *)
(***************************************************************************)
EXTENDS Wallet

CONSTANTS u1, o1, o2, s1, s2

AllKinds == OrderKinds \cup WalletKinds
=============================================================================
