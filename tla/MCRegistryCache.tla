-------------------------- MODULE MCRegistryCache ---------------------------
(***************************************************************************)
(* RegistryCache for TLC.  No definition tells the agents apart, nor their *)
(* keys, so both may be permuted; the refreshing threads may not, since    *)
(* one of them starts the service.                                         *)
(***************************************************************************)
EXTENDS RegistryCache, TLC

Symmetry == Permutations(Agents) \cup Permutations(Keys)
=============================================================================
