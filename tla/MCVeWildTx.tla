----------------------------- MODULE MCVeWildTx -----------------------------
(***************************************************************************)
(* Instances of VeWildTx for TLC.                                          *)
(***************************************************************************)
EXTENDS VeWildTx, TLC

AccountsSymmetry == Permutations(Accounts)
=============================================================================
