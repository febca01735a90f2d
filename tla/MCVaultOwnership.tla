-------------------------- MODULE MCVaultOwnership --------------------------
(***************************************************************************)
(* VaultOwnership for TLC.                                                 *)
(***************************************************************************)
EXTENDS VaultOwnership, TLC

CONSTANTS c1, c2

\* Two clients of different builds, as during an upgrade.
Versions == c1 :> "v1" @@ c2 :> "v2"
=============================================================================
