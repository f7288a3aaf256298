---------------------------- MODULE RegistryView ----------------------------
(***************************************************************************)
(* What a cache of the agent registry promises its readers: the approved   *)
(* keys it shows are those of the whole registry at some sealed block, and *)
(* the block it shows never goes back while the process lives.             *)
(***************************************************************************)
EXTENDS RegistryChain

VARIABLES
    approved,   \* the key shown for each agent, or NoKey
    at          \* the block whose registry is shown

viewVars == <<chain, head, approved, at>>

ViewInit == ChainInit /\ at = 0 /\ approved = [a \in Agents |-> NoKey]

CatchUp ==
    /\ at' \in at .. head
    /\ approved' = [a \in Agents |-> KeyAt(a, at')]
    /\ UNCHANGED chainVars

\* A new process starts from nothing.
Restart ==
    /\ at' = 0
    /\ approved' = [a \in Agents |-> NoKey]
    /\ UNCHANGED chainVars

ViewNext == (ChainNext /\ UNCHANGED <<approved, at>>) \/ CatchUp \/ Restart

ViewSpec == ViewInit /\ [][ViewNext]_viewVars
=============================================================================
