--------------------------- MODULE AnchoredTrail ---------------------------
(***************************************************************************)
(* DecisionTrail with its log chained and anchored as AuditChain has it.   *)
(* It is read when the last interval is over; batches end, and start,      *)
(* where that one began or the log ends.                                   *)
(***************************************************************************)
EXTENDS DecisionTrail, AuditChain

Batches == {b \in {0, began} \X {began, Len(log)} : b[1] < b[2]}

\* Events a log could be passed off with: one rewritten, one left out, two
\* exchanged.
ForgedEvents ==
    {[log EXCEPT ![i] = KeylessSighting(None)] : i \in DOMAIN log}
    \cup {RemoveAt(log, i) : i \in DOMAIN log}
    \cup {[log EXCEPT ![i] = log[i + 1], ![i + 1] = log[i]] : i \in 1 .. Len(log) - 1}

\* The chain is computed afresh for them, or they are put in the place of
\* others whose stored fields are kept.
Forgeries(entries) ==
    UNION {{Chain(events), [i \in DOMAIN events |-> [entries[i] EXCEPT !.event = events[i]]]} :
              events \in ForgedEvents}

\* A forged log passes verify_chain or has the root that was anchored, not
\* both: where it does, it is the log up to the end of the anchored batch.
ForgeriesShow ==
    pc = "idle" /\ intervals = MaxIntervals =>
        LET entries == Chain(log)
        IN \A forged \in {f \in Forgeries(entries) : VerifyChain(f)} : \A batch \in Batches :
              /\ batch[2] <= Len(forged)
              /\ MerkleRoot(RangeHashes(forged, batch[1], batch[2]))
                    = MerkleRoot(RangeHashes(entries, batch[1], batch[2]))
              => SubSeq(forged, 1, batch[2]) = SubSeq(entries, 1, batch[2])

\* Every entry of an anchored batch has a proof that leads to its root, which
\* proves no other entry of the batch; with salted leaves as without.
ProofsFit ==
    pc = "idle" /\ intervals = MaxIntervals =>
        LET entries == Chain(log)
        IN \A batch \in Batches :
              LET hashes == RangeHashes(entries, batch[1], batch[2])
              IN \A leaves \in {hashes, SaltedLeaves(hashes)} :
                    LET root == MerkleRoot(leaves)
                    IN \A i \in DOMAIN leaves :
                          LET branch == Branch(leaves, i - 1)
                          IN \A j \in DOMAIN leaves :
                                VerifyInclusion(leaves[j], branch, root) <=> i = j
=============================================================================
