---------------------------- MODULE RegistryChain ----------------------------
(***************************************************************************)
(* The agent registry contract (contracts/AgentRegistry.sol) on its chain. *)
(* The contract's storage is determined by the events it emitted, so the   *)
(* events are the state.  A transaction executes in the block that is      *)
(* being built (head + 1) and is visible to readers once the block is      *)
(* sealed.  An event's place in chain stands for its (block number, log    *)
(* index).                                                                 *)
(***************************************************************************)
EXTENDS Integers, Sequences, FiniteSetsExt

CONSTANTS
    Agents,     \* junction ids
    Keys,       \* DER public keys
    NoKey,      \* "no key": empty bytes in the contract, None in Python
    MaxEvents   \* bound: events ever emitted

ASSUME ChainAssumption == NoKey \notin Keys /\ MaxEvents \in Nat

VARIABLES
    chain,      \* events emitted by the contract, oldest first
    head        \* number of the last sealed block

chainVars == <<chain, head>>

Event(action, a, k) ==
    [action |-> action, agent |-> a, key |-> k, block |-> head + 1]

\* The positions of the sealed events of blocks from .. to.
Sealed(from, to) == {i \in DOMAIN chain : chain[i].block \in from .. to}

Registers == {i \in DOMAIN chain : chain[i].action = "register"}

Revokes == DOMAIN chain \ Registers

\* getPublicKey(a), called while block h is the last sealed one.
KeyAt(a, h) ==
    LET mine == {i \in Sealed(1, h) : chain[i].agent = a}
    IN IF mine = {} \/ Max(mine) \in Revokes THEN NoKey ELSE chain[Max(mine)].key

-----------------------------------------------------------------------------
ChainInit == chain = <<>> /\ head = 0

\* Re-registration replaces the key; every call emits an event.
Register(a, k) ==
    /\ Len(chain) < MaxEvents
    /\ chain' = Append(chain, Event("register", a, k))
    /\ UNCHANGED head

\* Reverts for an agent that was never registered; revoking twice does not.
Revoke(a) ==
    /\ Len(chain) < MaxEvents
    /\ \E i \in Registers : chain[i].agent = a
    /\ chain' = Append(chain, Event("revoke", a, NoKey))
    /\ UNCHANGED head

Seal ==
    /\ \E i \in DOMAIN chain : chain[i].block = head + 1
    /\ head' = head + 1
    /\ UNCHANGED chain

ChainNext ==
    \/ \E a \in Agents : Revoke(a) \/ \E k \in Keys : Register(a, k)
    \/ Seal
=============================================================================
