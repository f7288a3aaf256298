----------------------------- MODULE AuditChain -----------------------------
(***************************************************************************)
(* The tamper evidence of the audit log: the hash chain of src/audit_log.py*)
(* and the Merkle roots, branches and salted leaves with which a batch of  *)
(* it is anchored (src/audit_log.py, src/anchor.py).  A hash is the record *)
(* of what went into it, so that no two inputs share one.  Sequences count *)
(* from 1; seq and index count from 0, as in the code.                     *)
(***************************************************************************)
EXTENDS Integers, Sequences, SequencesExt

GenesisPrevHash == [genesis |-> TRUE]

HashBody(seq, prev, event) == [seq |-> seq, prev |-> prev, event |-> event]

\* append: the entry that comes next after the given ones.
NextEntry(entries, event) ==
    LET seq  == Len(entries)
        prev == IF entries = <<>> THEN GenesisPrevHash ELSE entries[Len(entries)].hash
    IN [seq |-> seq, prev |-> prev, event |-> event, hash |-> HashBody(seq, prev, event)]

\* The chain of events appended one after the other.
Chain(events) ==
    LET upTo[n \in 0 .. Len(events)] ==
            IF n = 0 THEN <<>>
            ELSE LET entries == upTo[n - 1] IN Append(entries, NextEntry(entries, events[n]))
    IN upTo[Len(events)]

\* Mutant: the stored hash is taken for what it says.
VerifyChainTrusting(entries) ==
    \A i \in DOMAIN entries :
        /\ entries[i].seq = i - 1
        /\ entries[i].prev = IF i = 1 THEN GenesisPrevHash ELSE entries[i - 1].hash

VerifyChain(entries) ==
    \A i \in DOMAIN entries :
        /\ entries[i].seq = i - 1
        /\ entries[i].prev = IF i = 1 THEN GenesisPrevHash ELSE entries[i - 1].hash
        /\ entries[i].hash = HashBody(entries[i].seq, entries[i].prev, entries[i].event)

-----------------------------------------------------------------------------
\* Merkle trees.

HashPair(left, right) == [left |-> left, right |-> right]

SaltedLeaf(salt, hash) == [salt |-> salt, of |-> hash]

\* A lone last node is paired with itself.
Even(level) == IF Len(level) % 2 = 1 THEN Append(level, level[Len(level)]) ELSE level

LevelUp(level) ==
    LET even == Even(level)
    IN [i \in 1 .. Len(even) \div 2 |-> HashPair(even[2 * i - 1], even[2 * i])]

\* The levels of the tree, for as long as there is more than one node left;
\* a tree is never higher than it has leaves.
Levels(leaves) ==
    LET level[h \in 0 .. Len(leaves)] ==
            IF h = 0 THEN leaves
            ELSE LET below == level[h - 1]
                 IN IF Len(below) > 1 THEN LevelUp(below) ELSE below
    IN level

MerkleRoot(leaves) == Levels(leaves)[Len(leaves)][1]

Sibling(hash, position) == [hash |-> hash, position |-> position]

\* Mutant: a lone last node is paired with the one before it.
BranchStepSkipsLone(level, pos) ==
    IF pos % 2 = 1 THEN Sibling(level[pos], "left")
    ELSE Sibling(level[IF pos + 2 <= Len(level) THEN pos + 2 ELSE pos], "right")

BranchStep(level, pos) ==
    IF pos % 2 = 0 THEN Sibling(Even(level)[pos + 2], "right")
    ELSE Sibling(Even(level)[pos], "left")

\* One turn of the loop of inclusion_proof.
StepUp(at) ==
    IF Len(at.level) > 1
    THEN [level  |-> LevelUp(at.level),
          pos    |-> at.pos \div 2,
          branch |-> Append(at.branch, BranchStep(at.level, at.pos))]
    ELSE at

\* inclusion_proof: the siblings of leaf pos on its way up.
Branch(leaves, pos) ==
    LET at[h \in 0 .. Len(leaves)] ==
            IF h = 0 THEN [level |-> leaves, pos |-> pos, branch |-> <<>>]
            ELSE LET below == at[h - 1] IN StepUp(below)
    IN at[Len(leaves)].branch

Join(node, sibling) ==
    IF sibling.position = "left" THEN HashPair(sibling.hash, node)
    ELSE HashPair(node, sibling.hash)

\* The root that a leaf and its branch lead to.
RootFrom(leaf, branch) ==
    LET node[h \in 0 .. Len(branch)] ==
            IF h = 0 THEN leaf ELSE Join(node[h - 1], branch[h])
    IN node[Len(branch)]

VerifyInclusion(leaf, branch, root) == RootFrom(leaf, branch) = root

\* The entry hashes from index first up to, and without, index last.
RangeHashes(entries, first, last) == [i \in 1 .. last - first |-> entries[first + i].hash]

\* from_audit: the leaves of a salted anchor; the salts are all different.
SaltedLeaves(hashes) == [i \in DOMAIN hashes |-> SaltedLeaf(i, hashes[i])]
=============================================================================
