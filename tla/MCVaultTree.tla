----------------------------- MODULE MCVaultTree -----------------------------
(***************************************************************************)
(* Small instances of VaultTree for TLC.                                   *)
(***************************************************************************)
EXTENDS VaultTree, TLC

\* Clients run the same code and nothing orders them.
ClientSymmetry == Permutations(Client)
=============================================================================
