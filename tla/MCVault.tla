------------------------------- MODULE MCVault -------------------------------
(* Small instances of Vault for TLC; each .cfg picks the actors and bounds   *)
(* that one question needs.                                                  *)
EXTENDS VaultInvariants, TLC

ContentSymmetry == Permutations(Contents)
=============================================================================
