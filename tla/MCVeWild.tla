------------------------------ MODULE MCVeWild ------------------------------
(***************************************************************************)
(* Instances of VeWild for TLC.                                            *)
(***************************************************************************)
EXTENDS VeWildClaims, TLC

AccountsSymmetry == Permutations(Accounts)
=============================================================================
