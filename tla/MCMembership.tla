---------------------------- MODULE MCMembership -----------------------------
(* Membership for TLC.  No definition tells the agents or the keys apart.   *)
EXTENDS Membership, TLC

Symmetry == Permutations(Agents) \cup Permutations(Keys)
=============================================================================
