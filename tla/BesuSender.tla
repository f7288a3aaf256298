----------------------------- MODULE BesuSender -----------------------------
(***************************************************************************)
(* How a write becomes a transaction (BesuRegistry._send_fn and _send in   *)
(* src/besu_registry.py).  The account's nonce is counted in the object,   *)
(* which all threads share: seeded from the node, advanced by every        *)
(* transaction that succeeds, and read again once when the node calls it   *)
(* too low.  The node keeps what it has accepted in a pool and mines it in *)
(* the order of the nonces, without gaps.                                  *)
(***************************************************************************)
EXTENDS Integers, Sequences, FiniteSets

VARIABLES
    nonce,      \* _nonce
    tx,         \* where each sending thread is in _send_fn, and its locals
    pool,       \* the node: accepted and not mined, by nonce
    mined       \* the node: the account's transactions, from nonce 0 on

senderVars == <<nonce, tx, pool, mined>>

Unseeded == -1
NoTx == [at |-> "idle", nonce |-> 0, again |-> FALSE]

\* A nonce is next to be mined, or follows others in the pool that are.
Mineable(n) == Len(mined) .. n \subseteq DOMAIN pool

\* get_transaction_count(admin, "pending"), which may be stale.
PendingCount == Len(mined) + Cardinality({n \in DOMAIN pool : Mineable(n)})
ReadCount == nonce' \in 0 .. PendingCount

\* The pool with one more transaction.
Pooled(n, write) == [m \in DOMAIN pool \cup {n} |-> IF m = n THEN write ELSE pool[m]]

At(e, place) == tx[e].at = place
Goes(e, place, n) ==
    tx' = [tx EXCEPT ![e] = [at |-> place, nonce |-> n, again |-> tx[e].again]]

-----------------------------------------------------------------------------
Seed(e) ==
    /\ At(e, "idle")
    /\ IF nonce = Unseeded THEN ReadCount ELSE UNCHANGED nonce
    /\ Goes(e, "signing", tx[e].nonce)
    /\ UNCHANGED <<pool, mined>>

\* Mutant: the counter is advanced before the node has taken the transaction.
SignAhead(e) ==
    /\ At(e, "signing")
    /\ Goes(e, "offering", nonce)
    /\ nonce' = nonce + 1
    /\ UNCHANGED <<pool, mined>>

Sign(e) ==
    /\ At(e, "signing")
    /\ Goes(e, "offering", nonce)
    /\ UNCHANGED <<nonce, pool, mined>>

Accepted(e, write) ==
    /\ At(e, "offering")
    /\ tx[e].nonce >= Len(mined) /\ tx[e].nonce \notin DOMAIN pool
    /\ pool' = Pooled(tx[e].nonce, write)
    /\ Goes(e, "awaiting", tx[e].nonce)
    /\ UNCHANGED <<nonce, mined>>

\* The one retry.
TooLow(e) ==
    /\ At(e, "offering") /\ ~tx[e].again
    /\ tx[e].nonce < Len(mined)
    /\ ReadCount
    /\ tx' = [tx EXCEPT ![e] = [at |-> "signing", nonce |-> tx[e].nonce, again |-> TRUE]]
    /\ UNCHANGED <<pool, mined>>

\* A receipt with status 1: the counter is read, and then written.
Receipt(e, write) ==
    /\ At(e, "awaiting")
    /\ tx[e].nonce < Len(mined)
    /\ mined[tx[e].nonce + 1] = [write |-> write, reverted |-> FALSE]
    /\ Goes(e, "counting", nonce)
    /\ UNCHANGED <<nonce, pool, mined>>

Sending(e, write) ==
    Seed(e) \/ Sign(e) \/ Accepted(e, write) \/ TooLow(e) \/ Receipt(e, write)

Succeeds(e) ==
    /\ At(e, "counting")
    /\ nonce' = tx[e].nonce + 1
    /\ tx' = [tx EXCEPT ![e] = NoTx]
    /\ UNCHANGED <<pool, mined>>

\* Anything raised: the write is refused before it is sent (KeyError), the
\* node is out of reach, its nonce is taken or too low again, there is no
\* receipt in time, or one of a reverted transaction.  The node may hold the
\* transaction all the same.
Raises(e, write) ==
    /\ ~At(e, "counting")
    /\ \/ UNCHANGED pool
       \/ /\ At(e, "offering")
          /\ tx[e].nonce >= Len(mined) /\ tx[e].nonce \notin DOMAIN pool
          /\ pool' = Pooled(tx[e].nonce, write)
    /\ tx' = [tx EXCEPT ![e] = NoTx]
    /\ UNCHANGED <<nonce, mined>>

\* A block, at any time.
Mine ==
    /\ Len(mined) \in DOMAIN pool
    /\ \E reverted \in BOOLEAN :
         mined' = Append(mined, [write |-> pool[Len(mined)], reverted |-> reverted])
    /\ pool' = [n \in DOMAIN pool \ {Len(mined)} |-> pool[n]]
    /\ UNCHANGED <<nonce, tx>>

SenderInit ==
    /\ nonce = Unseeded
    /\ pool = <<>> /\ mined = <<>>

\* The transactions that took effect on the chain, by their place in mined.
InEffect == {i \in DOMAIN mined : ~mined[i].reverted}
=============================================================================
