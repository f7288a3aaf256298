-------------------------- MODULE Membership_proofs --------------------------
(***************************************************************************)
(* What the registry's cache and the bus over it keep, for any agents,     *)
(* keys and number of events and messages.  The first part is about the    *)
(* cache alone (RegistryCache): no refresh passes over a revocation        *)
(* (NoRevocationMissed), one that a refresh could see is in force in the   *)
(* snapshot which it installs (RevocationLasts), and over a source that    *)
(* answers at once the cache is the registry of a sealed block             *)
(* (CacheIsAView).  Its invariants are about every snapshot a thread may   *)
(* hold, since an old one may be folded and installed later.               *)
(*                                                                         *)
(* Every step of the composition is a step of the cache or leaves it       *)
(* alone, so they hold in Membership too: a message is acted on only if    *)
(* its sender was approved on the chain when the refresh behind the        *)
(* verdict began, or later (RevokedNotHeard), and a sender that keeps its  *)
(* key stays heard (SteadySenderHeard).                                    *)
(***************************************************************************)
EXTENDS Membership, WellFoundedInduction, TLAPS

\* c is a chain whose sealed blocks are 1 .. h: blocks never decrease along
\* it, and at most one is being built.
ChainOK(c, h) ==
    /\ h \in Nat
    /\ DOMAIN c \subseteq Nat
    /\ \A i \in DOMAIN c : c[i].block \in 1 .. h + 1
    /\ \A i, j \in DOMAIN c : i <= j => c[i].block <= c[j].block

\* Snapshot s holds only events below its next block, and all the
\* revocations there are.
Complete(s, c, h) ==
    /\ s.nextBlock \in 0 .. h + 1
    /\ DOMAIN s.audit \subseteq DOMAIN c
    /\ \A j \in DOMAIN s.audit : c[j].block < s.nextBlock
    /\ \A i \in DOMAIN c :
          c[i].action # "register" /\ c[i].block < s.nextBlock
             => i \in DOMAIN s.audit

\* What a refresh with base snapshot s has found is sealed, and holds every
\* revocation from the base up to the highest block found.
FoundOK(s, found, c, h) ==
    /\ found \subseteq {i \in DOMAIN c : c[i].block \in s.nextBlock .. h}
    /\ \A i \in DOMAIN c, j \in found :
          /\ c[i].action # "register"
          /\ c[i].block \in s.nextBlock .. c[j].block
          => i \in found

RefreshOK(x, c, h) ==
    /\ x.pc = "idle" => x.found = {}
    /\ x.upto \in 0 .. h
    /\ Complete(x.base, c, h)
    /\ FoundOK(x.base, x.found, c, h)

\* Every refresher's state is a record of these fields.
RefreshShape ==
    rd = [r \in Refreshers |->
            [pc |-> rd[r].pc, base |-> rd[r].base, since |-> rd[r].since,
             upto |-> rd[r].upto, found |-> rd[r].found, keys |-> rd[r].keys]]

Inv ==
    /\ \E n \in Nat : DOMAIN chain = 1 .. n
    /\ ChainOK(chain, head)
    /\ Complete(cache, chain, head)
    /\ RefreshShape
    /\ \A r \in Refreshers : RefreshOK(rd[r], chain, head)

-----------------------------------------------------------------------------
(* The greatest element of a set of block numbers. *)

LEMMA BoundedMax ==
    ASSUME NEW S, NEW b \in Nat, S \subseteq 0 .. b, S # {}
    PROVE  Max(S) \in S /\ \A x \in S : x <= Max(S)
  <1> DEFINE T == {b - x : x \in S}
  <1>1. T \subseteq Nat /\ T # {}
    OBVIOUS
  <1>2. PICK m \in T : \A y \in T : ~ (<<y, m>> \in OpToRel(<, Nat))
    BY <1>1, NatLessThanWellFounded, WFMin
  <1>3. PICK x \in S : m = b - x
    BY <1>2
  <1>4. \A y \in S : y <= x
    <2> SUFFICES ASSUME NEW y \in S PROVE y <= x
      OBVIOUS
    <2>1. b - y \in T /\ b - y \in Nat /\ m \in Nat
      BY <1>1
    <2>2. ~ (b - y < m)
      BY <1>2, <2>1 DEF OpToRel
    <2> QED BY <1>3, <2>2
  <1>5. \E z \in S : \A y \in S : z >= y
    BY <1>4
  <1> QED BY <1>5 DEF Max

-----------------------------------------------------------------------------
(* What the chain may do under a snapshot or a running refresh. *)

Extends(c, h, c2, h2) ==
    /\ h \in Nat /\ h2 \in Nat /\ h <= h2
    /\ \A i \in DOMAIN c : i \in DOMAIN c2 /\ c2[i] = c[i]
    /\ \A i \in DOMAIN c2 \ DOMAIN c : c2[i].block \in Nat /\ c2[i].block > h

LEMMA CompleteKept ==
    ASSUME NEW s, NEW c, NEW h, NEW c2, NEW h2,
           ChainOK(c, h), Extends(c, h, c2, h2), Complete(s, c, h)
    PROVE  Complete(s, c2, h2)
  BY DEF ChainOK, Extends, Complete

LEMMA RefreshKept ==
    ASSUME NEW x, NEW c, NEW h, NEW c2, NEW h2,
           ChainOK(c, h), Extends(c, h, c2, h2), RefreshOK(x, c, h)
    PROVE  RefreshOK(x, c2, h2)
  <1>1. /\ Complete(x.base, c2, h2)
        /\ x.upto \in 0 .. h2
        /\ x.pc = "idle" => x.found = {}
    BY CompleteKept DEF RefreshOK, Extends
  <1>2. x.base.nextBlock \in Nat
    BY <1>1 DEF Complete, Extends
  <1>3. FoundOK(x.base, x.found, c2, h2)
    <2>1. ASSUME NEW i \in x.found
          PROVE  i \in DOMAIN c /\ c2[i] = c[i] /\ c[i].block <= h
                 /\ c[i].block \in x.base.nextBlock .. h2 /\ i \in DOMAIN c2
      BY <1>2 DEF RefreshOK, FoundOK, Extends, ChainOK
    <2>2. ASSUME NEW i \in DOMAIN c2, NEW j \in x.found,
                 c2[i].action # "register",
                 c2[i].block \in x.base.nextBlock .. c2[j].block
          PROVE  i \in x.found
      <3>1. j \in DOMAIN c /\ c2[j] = c[j] /\ c[j].block <= h /\ c[j].block \in Nat
        BY <2>1 DEF ChainOK
      <3>2. i \in DOMAIN c
        BY <2>2, <3>1, <1>2 DEF Extends
      <3> QED BY <2>2, <3>1, <3>2 DEF RefreshOK, FoundOK, Extends
    <2> QED BY <2>1, <2>2 DEF FoundOK
  <1> QED BY <1>1, <1>3 DEF RefreshOK

\* Nothing read yet.
LEMMA EmptyComplete ==
    ASSUME NEW c, NEW h, ChainOK(c, h)
    PROVE  Complete(EmptyCache, c, h) /\ RefreshOK(Idle, c, h)
  BY DEF ChainOK, Complete, EmptyCache, Idle, RefreshOK, FoundOK

-----------------------------------------------------------------------------
(* The fold: completeness of the base and of what was found make a complete *)
(* snapshot.  The guard against already-applied events drops nothing.       *)

LEMMA FoldReaches ==
    ASSUME ChainOK(chain, head), NEW s, NEW found, NEW keys,
           Complete(s, chain, head), FoundOK(s, found, chain, head)
    PROVE  LET f == Fold(s, found, keys)
           IN /\ NewEvents(s, found) = found
              /\ DOMAIN f.audit = DOMAIN s.audit \cup found
              /\ f.nextBlock \in 0 .. head + 1
              /\ s.nextBlock <= f.nextBlock
              /\ \A i \in found : chain[i].block < f.nextBlock
              /\ f.nextBlock = s.nextBlock
                 \/ \E i \in found : f.nextBlock = chain[i].block + 1
  <1> DEFINE blocks == {s.nextBlock} \cup {chain[i].block + 1 : i \in found}
             f == Fold(s, found, keys)
  <1>1. NewEvents(s, found) = found
    <2>1. ASSUME NEW i \in found, NEW j \in DOMAIN s.audit PROVE j < i
      BY DEF ChainOK, Complete, FoundOK
    <2> QED BY <2>1 DEF NewEvents
  <1>2. /\ f.nextBlock = Max(blocks)
        /\ DOMAIN f.audit = DOMAIN s.audit \cup found
    BY <1>1 DEF Fold, NextBlock, AuditAfter
  <1> HIDE DEF f
  <1>3. blocks \subseteq 0 .. head + 1 /\ blocks # {}
    BY DEF ChainOK, Complete, FoundOK
  <1>4. Max(blocks) \in blocks /\ \A x \in blocks : x <= Max(blocks)
    <2> HIDE DEF blocks
    <2>1. head + 1 \in Nat
      BY DEF ChainOK
    <2> QED BY <1>3, <2>1, BoundedMax
  <1>5. /\ head \in Nat /\ s.nextBlock \in Nat
        /\ \A i \in DOMAIN chain : chain[i].block \in Nat
        /\ found \subseteq DOMAIN chain
    BY DEF ChainOK, Complete, FoundOK
  <1>6. /\ f.nextBlock \in 0 .. head + 1
        /\ s.nextBlock <= f.nextBlock
        /\ \A j \in found : chain[j].block < f.nextBlock
        /\ f.nextBlock = s.nextBlock
           \/ \E j \in found : f.nextBlock = chain[j].block + 1
    <2>1. f.nextBlock \in blocks /\ f.nextBlock \in 0 .. head + 1
          /\ \A x \in blocks : x <= f.nextBlock
      <3> HIDE DEF blocks
      <3> QED BY <1>2, <1>3, <1>4
    <2>2. ASSUME NEW j \in found PROVE chain[j].block < f.nextBlock
      <3>1. chain[j].block + 1 \in blocks
        OBVIOUS
      <3>2. chain[j].block + 1 <= f.nextBlock
        <4> HIDE DEF blocks
        <4> QED BY <2>1, <3>1
      <3> QED BY <1>5, <2>1, <3>2
    <2>3. s.nextBlock <= f.nextBlock
      BY <2>1
    <2> QED BY <2>1, <2>2, <2>3
  <1> QED BY <1>1, <1>2, <1>6 DEF f

\* Every revocation below the next block of the fold is in it.
LEMMA FoldComplete ==
    ASSUME ChainOK(chain, head), NEW s, NEW found, NEW keys,
           Complete(s, chain, head), FoundOK(s, found, chain, head)
    PROVE  Complete(Fold(s, found, keys), chain, head)
  <1> DEFINE f == Fold(s, found, keys)
  <1>2. DOMAIN f.audit = DOMAIN s.audit \cup found
    BY FoldReaches
  <1>6. /\ f.nextBlock \in 0 .. head + 1
        /\ s.nextBlock <= f.nextBlock
        /\ \A j \in found : chain[j].block < f.nextBlock
        /\ f.nextBlock = s.nextBlock
           \/ \E j \in found : f.nextBlock = chain[j].block + 1
    BY FoldReaches
  <1> HIDE DEF f
  <1>5. /\ head \in Nat /\ s.nextBlock \in Nat
        /\ \A i \in DOMAIN chain : chain[i].block \in Nat
        /\ found \subseteq DOMAIN chain
    BY DEF ChainOK, Complete, FoundOK
  <1>7. ASSUME NEW i \in DOMAIN chain, chain[i].action # "register",
               chain[i].block < f.nextBlock
        PROVE  i \in DOMAIN f.audit
    <2>1. CASE chain[i].block < s.nextBlock
      BY <1>2, <1>7, <2>1 DEF Complete
    <2>2. CASE chain[i].block >= s.nextBlock
      <3>1. PICK j \in found : f.nextBlock = chain[j].block + 1
        BY <1>5, <1>6, <1>7, <2>2
      <3>2. chain[i].block \in s.nextBlock .. chain[j].block
        BY <1>5, <1>7, <2>2, <3>1
      <3> QED BY <1>2, <1>7, <3>2 DEF FoundOK
    <2> QED BY <1>5, <2>1, <2>2
  <1>8. DOMAIN f.audit \subseteq DOMAIN chain
    BY <1>2 DEF Complete, FoundOK
  <1>9. ASSUME NEW j \in DOMAIN f.audit PROVE chain[j].block < f.nextBlock
    <2>1. CASE j \in found
      BY <1>6, <2>1
    <2>2. CASE j \in DOMAIN s.audit
      BY <1>5, <1>6, <2>2 DEF Complete
    <2> QED BY <1>2, <1>9, <2>1, <2>2
  <1>10. Complete(f, chain, head)
    BY <1>6, <1>7, <1>8, <1>9 DEF Complete
  <1> QED BY <1>10 DEF f

-----------------------------------------------------------------------------
(* The invariant is kept by every step. *)

LEMMA InitInv == Init => Inv
  <1> SUFFICES ASSUME Init PROVE Inv
    OBVIOUS
  <1>1. DOMAIN chain = 1 .. 0 /\ head = 0
    BY DEF Init, ChainInit
  <1>2. ChainOK(chain, head)
    BY <1>1 DEF ChainOK
  <1>3. Complete(cache, chain, head)
        /\ \A r \in Refreshers : RefreshOK(rd[r], chain, head)
    BY <1>2, EmptyComplete DEF Init
  <1>4. RefreshShape
    BY DEF Init, RefreshShape, Idle
  <1> QED BY <1>1, <1>2, <1>3, <1>4 DEF Inv

\* A transaction or a sealed block extends the chain.
LEMMA ChainStep ==
    ASSUME Inv, ChainNext
    PROVE  /\ \E n \in Nat : DOMAIN chain' = 1 .. n
           /\ ChainOK(chain', head')
           /\ Extends(chain, head, chain', head')
  <1>1. PICK n \in Nat : DOMAIN chain = 1 .. n
    BY DEF Inv
  <1>2. ChainOK(chain, head)
    BY DEF Inv
  <1>3. CASE Seal
    <2>1. chain' = chain /\ head' = head + 1
      BY <1>3 DEF Seal
    <2> QED BY <1>1, <1>2, <2>1 DEF ChainOK, Extends
  <1>4. CASE \E a \in Agents : Revoke(a) \/ \E k \in Keys : Register(a, k)
    <2>1. PICK e : chain' = Append(chain, e) /\ e.block = head + 1 /\ head' = head
      BY <1>4, Zenon DEF Revoke, Register, Event
    <2>2. Len(chain) = n
      BY <1>4, <1>1 DEF Revoke, Register
    <2>3. DOMAIN chain' = 1 .. n + 1 /\ chain'[n + 1] = e
          /\ \A i \in DOMAIN chain : chain'[i] = chain[i]
      BY <1>1, <2>1, <2>2
    <2> QED BY <1>1, <1>2, <2>1, <2>3 DEF ChainOK, Extends
  <1> QED BY <1>3, <1>4 DEF ChainNext

\* A step of r's refresh that leaves the snapshot and the chain alone.
LEMMA ReadKeeps ==
    ASSUME Inv, NEW r \in Refreshers, NEW x,
           UNCHANGED <<chain, head, cache>>,
           rd' = [rd EXCEPT ![r] = x],
           x = [pc |-> x.pc, base |-> x.base, since |-> x.since,
                upto |-> x.upto, found |-> x.found, keys |-> x.keys],
           RefreshOK(x, chain, head)
    PROVE  Inv'
  <1>1. /\ DOMAIN rd = Refreshers
        /\ \A q \in Refreshers :
              /\ rd[q] = [pc |-> rd[q].pc, base |-> rd[q].base, since |-> rd[q].since,
                          upto |-> rd[q].upto, found |-> rd[q].found, keys |-> rd[q].keys]
              /\ RefreshOK(rd[q], chain, head)
    BY DEF Inv, RefreshShape
  <1>2. /\ rd' = [q \in Refreshers |-> rd'[q]]
        /\ \A q \in Refreshers : rd'[q] = IF q = r THEN x ELSE rd[q]
    BY <1>1
  <1>3. \A q \in Refreshers :
           /\ rd'[q] = [pc |-> rd'[q].pc, base |-> rd'[q].base, since |-> rd'[q].since,
                        upto |-> rd'[q].upto, found |-> rd'[q].found, keys |-> rd'[q].keys]
           /\ RefreshOK(rd'[q], chain, head)
    BY <1>1, <1>2
  <1>4. RefreshShape'
    BY <1>2, <1>3 DEF RefreshShape
  <1>5. (\E n \in Nat : DOMAIN chain = 1 .. n) /\ ChainOK(chain, head)
        /\ Complete(cache, chain, head)
    BY DEF Inv
  <1> QED
    BY <1>3, <1>4, <1>5 DEF Inv

\* Replacing two fields of a refresher's record.
LEMMA PcAndField ==
    ASSUME NEW y, NEW a, NEW b,
           y = [pc |-> y.pc, base |-> y.base, since |-> y.since,
                upto |-> y.upto, found |-> y.found, keys |-> y.keys]
    PROVE  /\ [y EXCEPT !.pc = a, !.upto = b]
                 = [pc |-> a, base |-> y.base, since |-> y.since,
                    upto |-> b, found |-> y.found, keys |-> y.keys]
           /\ [y EXCEPT !.pc = a, !.found = b]
                 = [pc |-> a, base |-> y.base, since |-> y.since,
                    upto |-> y.upto, found |-> b, keys |-> y.keys]
           /\ [y EXCEPT !.pc = a, !.base = b]
                 = [pc |-> a, base |-> b, since |-> y.since,
                    upto |-> y.upto, found |-> y.found, keys |-> y.keys]
  <1> DEFINE z == [y EXCEPT !.pc = a]
  <1>1. z = [pc |-> a, base |-> y.base, since |-> y.since,
             upto |-> y.upto, found |-> y.found, keys |-> y.keys]
    OBVIOUS
  <1>2. /\ z = [pc |-> z.pc, base |-> z.base, since |-> z.since,
                upto |-> z.upto, found |-> z.found, keys |-> z.keys]
        /\ z.pc = a /\ z.base = y.base /\ z.since = y.since
        /\ z.upto = y.upto /\ z.found = y.found /\ z.keys = y.keys
    BY <1>1
  <1>3. /\ [y EXCEPT !.pc = a, !.upto = b] = [z EXCEPT !.upto = b]
        /\ [y EXCEPT !.pc = a, !.found = b] = [z EXCEPT !.found = b]
        /\ [y EXCEPT !.pc = a, !.base = b] = [z EXCEPT !.base = b]
    OBVIOUS
  <1> HIDE DEF z
  <1>4. [z EXCEPT !.upto = b]
           = [pc |-> a, base |-> y.base, since |-> y.since,
              upto |-> b, found |-> y.found, keys |-> y.keys]
    BY <1>2
  <1>5. [z EXCEPT !.found = b]
           = [pc |-> a, base |-> y.base, since |-> y.since,
              upto |-> y.upto, found |-> b, keys |-> y.keys]
    BY <1>2
  <1>6. [z EXCEPT !.base = b]
           = [pc |-> a, base |-> b, since |-> y.since,
              upto |-> y.upto, found |-> y.found, keys |-> y.keys]
    BY <1>2
  <1> QED BY <1>3, <1>4, <1>5, <1>6

LEMMA StepInv == Inv /\ [Next]_vars => Inv'
  <1> SUFFICES ASSUME Inv, [Next]_vars PROVE Inv'
    OBVIOUS
  <1>1. /\ ChainOK(chain, head)
        /\ Complete(cache, chain, head)
        /\ RefreshShape
        /\ \A r \in Refreshers : RefreshOK(rd[r], chain, head)
    BY SMTT(30) DEF Inv
  <1>2. CASE ChainNext /\ UNCHANGED cacheVars
    <2>1. ChainOK(chain', head') /\ Extends(chain, head, chain', head')
      BY <1>2, ChainStep
    <2>2. Complete(cache, chain', head')
      BY <1>1, <2>1, CompleteKept
    <2>3. \A r \in Refreshers : RefreshOK(rd[r], chain', head')
      BY <1>1, <2>1, RefreshKept
    <2> QED BY ZenonT(30), <1>1, <1>2, <2>1, <2>2, <2>3, ChainStep
            DEF Inv, cacheVars, RefreshShape
  <1>3. ASSUME NEW r \in Refreshers, Refresh(r) PROVE Inv'
    <2>1. RefreshOK(rd[r], chain, head)
      BY <1>1
    <2>0. rd[r] = [pc |-> rd[r].pc, base |-> rd[r].base, since |-> rd[r].since,
                   upto |-> rd[r].upto, found |-> rd[r].found, keys |-> rd[r].keys]
      BY <1>1 DEF RefreshShape
    <2>2. CASE Begin(r)
      <3> DEFINE x == [pc |-> "registers",
                       base |-> IF started THEN cache ELSE EmptyCache,
                       since |-> head, upto |-> 0, found |-> {}, keys |-> <<>>]
      <3>3. Complete(x.base, chain, head)
        BY <1>1, EmptyComplete
      <3>4. RefreshOK(x, chain, head)
        BY <1>1, <3>3 DEF RefreshOK, FoundOK, ChainOK
      <3>5. rd' = [rd EXCEPT ![r] = x] /\ UNCHANGED <<chain, head, cache>>
        BY <2>2 DEF Begin
      <3>6. x = [pc |-> x.pc, base |-> x.base, since |-> x.since,
                 upto |-> x.upto, found |-> x.found, keys |-> x.keys]
        OBVIOUS
      <3> HIDE DEF x
      <3> QED BY <3>4, <3>5, <3>6, ReadKeeps
    <2>3. CASE ReadRegisters(r)
      <3> DEFINE x == [rd[r] EXCEPT !.pc = "revokes", !.upto = head]
      <3>1. x = [pc |-> "revokes", base |-> rd[r].base, since |-> rd[r].since, upto |-> head,
                 found |-> rd[r].found, keys |-> rd[r].keys]
        BY <2>0, PcAndField, ZenonT(40)
      <3>2. RefreshOK(x, chain, head)
        BY <1>1, <2>1, <3>1 DEF RefreshOK, FoundOK, ChainOK
      <3>3. rd' = [rd EXCEPT ![r] = x] /\ UNCHANGED <<chain, head, cache>>
        BY <2>3 DEF ReadRegisters
      <3> HIDE DEF x
      <3> QED BY <3>1, <3>2, <3>3, ReadKeeps
    <2>4. CASE ReadRevokes(r)
      <3> DEFINE found == (Sealed(rd[r].base.nextBlock, rd[r].upto) \cap Registers)
                          \cup (Sealed(rd[r].base.nextBlock, head) \cap Revokes)
                 x == [rd[r] EXCEPT !.pc = "keys", !.found = found]
      <3>1. x = [pc |-> "keys", base |-> rd[r].base, since |-> rd[r].since, upto |-> rd[r].upto,
                 found |-> found, keys |-> rd[r].keys]
        <4> HIDE DEF found
        <4> QED BY <2>0, PcAndField, ZenonT(40)
      <3>2. FoundOK(rd[r].base, found, chain, head)
        <4>1. /\ head \in Nat /\ rd[r].upto \in 0 .. head
              /\ rd[r].base.nextBlock \in Nat
              /\ \A i \in DOMAIN chain : chain[i].block \in Nat
          BY <1>1, <2>1 DEF RefreshOK, ChainOK, Complete
        <4>2. \A i \in found : i \in DOMAIN chain
                  /\ chain[i].block \in rd[r].base.nextBlock .. head
          BY <4>1 DEF Sealed
        <4>3. ASSUME NEW i \in DOMAIN chain, NEW j \in found,
                     chain[i].action # "register",
                     chain[i].block \in rd[r].base.nextBlock .. chain[j].block
              PROVE  i \in found
          <5>1. chain[i].block \in rd[r].base.nextBlock .. head
            BY <4>1, <4>2, <4>3
          <5> QED BY <4>3, <5>1 DEF Sealed, Revokes, Registers
        <4> QED BY <4>2, <4>3 DEF FoundOK
      <3>3. RefreshOK(x, chain, head)
        BY <2>1, <3>1, <3>2 DEF RefreshOK
      <3>4. rd' = [rd EXCEPT ![r] = x] /\ UNCHANGED <<chain, head, cache>>
        BY <2>4 DEF ReadRevokes
      <3> HIDE DEF x, found
      <3> QED BY <3>1, <3>3, <3>4, ReadKeeps
    <2>5. CASE ReadKey(r)
      <3>1. PICK k : rd' = [rd EXCEPT ![r].keys = k]
                     /\ UNCHANGED <<chain, head, cache>>
        BY <2>5, <1>1 DEF ReadKey, RefreshShape
      <3> DEFINE x == [rd[r] EXCEPT !.keys = k]
      <3>2. x = [pc |-> rd[r].pc, base |-> rd[r].base, since |-> rd[r].since, upto |-> rd[r].upto,
                 found |-> rd[r].found, keys |-> k]
        BY <2>0
      <3>3. RefreshOK(x, chain, head)
        BY <2>1, <3>2 DEF RefreshOK, FoundOK
      <3>4. rd' = [rd EXCEPT ![r] = x]
        BY <3>1
      <3> HIDE DEF x
      <3> QED BY <3>1, <3>2, <3>3, <3>4, ReadKeeps
    <2>6. CASE ReadSnapshot(r)
      <3> DEFINE found == Sealed(rd[r].base.nextBlock, head)
                 k == [i \in found \cap Registers |-> chain[i].key]
                 x == [pc |-> "keys", base |-> rd[r].base, since |-> rd[r].since,
                       upto |-> head, found |-> found, keys |-> k]
      <3>1. x = [pc |-> x.pc, base |-> x.base, since |-> x.since,
                 upto |-> x.upto, found |-> x.found, keys |-> x.keys]
        OBVIOUS
      <3>2. FoundOK(rd[r].base, found, chain, head)
        <4>1. /\ head \in Nat /\ rd[r].base.nextBlock \in Nat
              /\ \A i \in DOMAIN chain : chain[i].block \in Nat
          BY <1>1, <2>1 DEF RefreshOK, ChainOK, Complete
        <4> QED BY <4>1 DEF FoundOK, Sealed
      <3>3. RefreshOK(x, chain, head)
        BY <1>1, <2>1, <3>2 DEF RefreshOK, ChainOK
      <3>4. rd' = [rd EXCEPT ![r] = x] /\ UNCHANGED <<chain, head, cache>>
        BY <2>6 DEF ReadSnapshot
      <3> HIDE DEF x, found, k
      <3> QED BY <3>1, <3>3, <3>4, ReadKeeps
    <2>7. CASE Swap(r)
      <3>1. PICK k : cache' = Fold(rd[r].base, rd[r].found, k)
        BY <2>7 DEF Swap
      <3>2. Complete(cache', chain, head)
        BY <1>1, <2>1, <3>1, FoldComplete DEF RefreshOK
      <3>3. rd' = [rd EXCEPT ![r] = Idle] /\ UNCHANGED <<chain, head>>
        BY <2>7 DEF Swap, chainVars
      <3>4. RefreshOK(Idle, chain, head)
        BY <1>1, EmptyComplete, SMTT(30)
      <3>5. RefreshShape'
        BY <1>1, <3>3, Zenon DEF RefreshShape, Idle
      <3>6. \A q \in Refreshers : RefreshOK(rd'[q], chain, head)
        BY <1>1, <3>3, <3>4 DEF RefreshShape
      <3> QED BY <3>2, <3>3, <3>5, <3>6 DEF Inv
    <2>8. CASE ReadFails(r)
      <3>1. rd' = [rd EXCEPT ![r] = Idle] /\ UNCHANGED <<chain, head, cache>>
        BY <2>8 DEF ReadFails
      <3>2. RefreshOK(Idle, chain, head)
        <4>1. ChainOK(chain, head)
          BY <1>1
        <4> QED BY <4>1, EmptyComplete
      <3>3. Idle = [pc |-> Idle.pc, base |-> Idle.base, since |-> Idle.since,
                    upto |-> Idle.upto, found |-> Idle.found, keys |-> Idle.keys]
        BY DEF Idle
      <3> QED BY <3>1, <3>2, <3>3, ReadKeeps
    <2> QED BY <1>3, <2>2, <2>3, <2>4, <2>5, <2>6, <2>7, <2>8 DEF Refresh
  <1>4. CASE Crash
    <2>1. Complete(EmptyCache, chain, head) /\ RefreshOK(Idle, chain, head)
      BY <1>1, EmptyComplete
    <2> QED BY <1>4, <2>1 DEF Inv, Crash, RefreshShape, Idle
  <1>5. CASE UNCHANGED vars
    BY <1>5 DEF vars, Inv, RefreshShape
  <1> QED BY <1>2, <1>3, <1>4, <1>5 DEF Next

-----------------------------------------------------------------------------
\* Whatever snapshot the control path reads, every revocation below its
\* next_block is in its log: the torn read of BesuRegistry.audit_log and the
\* refreshes that overtake each other can lose registrations and go back in
\* time, but they never skip a revocation for good.
THEOREM RevocationsKept == Spec => []NoRevocationMissed
  <1>1. Inv => NoRevocationMissed
    BY DEF Inv, Complete, NoRevocationMissed, Revokes, Registers
  <1>2. Spec => []Inv
    BY InitInv, StepInv, PTL DEF Spec
  <1> QED BY <1>1, <1>2, PTL
-----------------------------------------------------------------------------
\* What carries the second theorem is that a snapshot, however late it is
\* installed and whatever it lost, approves only agents that were approved in
\* the last block it ingested (Standing), and that the revoke logs are read
\* after the register logs.

Regs(c, a) == {i \in DOMAIN c : c[i].action = "register" /\ c[i].agent = a}
Revs(c, a) == {i \in DOMAIN c : c[i].action # "register" /\ c[i].agent = a}

\* a has a registration by block h that no revocation by block h follows.
ApprovedAt(c, a, h) ==
    \E i \in Regs(c, a) :
        /\ c[i].block <= h
        /\ \A j \in Revs(c, a) : c[j].block <= h => j < i

ApprovedSince(c, a, from, h) == \E t \in from .. h : ApprovedAt(c, a, t)

\* Whoever snapshot s approves was approved in the last block it ingested.
Standing(s, c) ==
    \A a \in Agents :
        s.approved[a] # NoKey => ApprovedAt(c, a, s.nextBlock - 1)

\* Whoever the fold of what was found may approve was approved at some block
\* since the refresh began: an agent of the base without a revocation found,
\* and one with a registration found after which no revocation was found.
Founded(x, c, h) ==
    \A a \in Agents :
        /\ x.base.approved[a] # NoKey /\ x.found \cap Revs(c, a) = {}
              => ApprovedSince(c, a, x.since, h)
        /\ \A i \in x.found \cap Regs(c, a) :
              (\A j \in x.found \cap Revs(c, a) : j < i)
                 => ApprovedSince(c, a, x.since, h)

Sound(x, c, h) ==
    /\ x.since \in 0 .. h
    /\ x.pc = "revokes" => x.since <= x.upto
    /\ Standing(x.base, c)
    /\ x.pc = "keys" => Founded(x, c, h)

Typed(c) == \A i \in DOMAIN c : c[i].action = "register" => c[i].key \in Keys

LastInv ==
    /\ Inv
    /\ Typed(chain)
    /\ floor \in 0 .. head
    /\ Standing(cache, chain)
    /\ \A a \in Agents :
          cache.approved[a] # NoKey => ApprovedSince(chain, a, floor, head)
    /\ \A r \in Refreshers : Sound(rd[r], chain, head)

-----------------------------------------------------------------------------
\* An agent approved at h has a key there.
LEMMA ApprovedHasKey ==
    ASSUME Inv, Typed(chain), NEW a, NEW h \in 0 .. head, ApprovedAt(chain, a, h)
    PROVE  KeyAt(a, h) # NoKey
  <1> DEFINE mine == {i \in Sealed(1, h) : chain[i].agent = a}
  <1>1. PICK n \in Nat : DOMAIN chain = 1 .. n
    BY DEF Inv
  <1>2. /\ head \in Nat
        /\ \A i \in DOMAIN chain : chain[i].block \in 1 .. head + 1
    BY DEF Inv, ChainOK
  <1>3. PICK i \in Regs(chain, a) :
           /\ chain[i].block <= h
           /\ \A j \in Revs(chain, a) : chain[j].block <= h => j < i
    BY DEF ApprovedAt
  <1>4. i \in mine /\ mine \subseteq 0 .. n
    BY <1>1, <1>2, <1>3 DEF Regs, Sealed
  <1>5. Max(mine) \in mine /\ i <= Max(mine)
    BY <1>4, BoundedMax
  <1>6. Max(mine) \notin Revokes
    <2> SUFFICES ASSUME Max(mine) \in Revokes PROVE FALSE
      OBVIOUS
    <2>1. Max(mine) \in Revs(chain, a) /\ chain[Max(mine)].block <= h
      BY <1>2, <1>5 DEF Revs, Revokes, Registers, Sealed
    <2>2. Max(mine) < i
      BY <1>3, <2>1
    <2> QED BY <1>4, <1>5, <2>2
  <1>7. Max(mine) \in DOMAIN chain /\ chain[Max(mine)].action = "register"
    BY <1>5, <1>6 DEF Sealed, Revokes, Registers
  <1>8. KeyAt(a, h) = chain[Max(mine)].key
    BY <1>4, <1>6 DEF KeyAt
  <1> QED BY <1>7, <1>8, ChainAssumption DEF Typed

\* The chain that grows does not change what was approved at a sealed block.
LEMMA ApprovedKept ==
    ASSUME NEW c, NEW h, NEW c2, NEW h2, ChainOK(c, h), Extends(c, h, c2, h2),
           NEW a, NEW t \in Int, t <= h, ApprovedAt(c, a, t)
    PROVE  ApprovedAt(c2, a, t)
  <1>1. PICK i \in Regs(c, a) :
           /\ c[i].block <= t
           /\ \A j \in Revs(c, a) : c[j].block <= t => j < i
    BY DEF ApprovedAt
  <1>2. i \in Regs(c2, a) /\ c2[i].block <= t
    BY <1>1 DEF Regs, Extends
  <1>3. ASSUME NEW j \in Revs(c2, a), c2[j].block <= t PROVE j < i
    <2>1. j \in DOMAIN c
      BY <1>3 DEF Revs, Extends
    <2>2. c2[j] = c[j]
      BY <2>1 DEF Extends
    <2> QED BY <1>1, <1>3, <2>1, <2>2 DEF Revs
  <1> QED BY <1>2, <1>3 DEF ApprovedAt

LEMMA SinceKept ==
    ASSUME NEW c, NEW h, NEW c2, NEW h2, ChainOK(c, h), Extends(c, h, c2, h2),
           NEW a, NEW from \in 0 .. h, ApprovedSince(c, a, from, h)
    PROVE  ApprovedSince(c2, a, from, h2)
  <1>1. PICK t \in from .. h : ApprovedAt(c, a, t)
    BY DEF ApprovedSince
  <1>2. t \in Int /\ t <= h /\ t \in from .. h2
    BY DEF Extends
  <1> QED BY <1>1, <1>2, ApprovedKept DEF ApprovedSince

LEMMA StandingKept ==
    ASSUME NEW s, NEW c, NEW h, NEW c2, NEW h2, ChainOK(c, h),
           Extends(c, h, c2, h2), Complete(s, c, h), Standing(s, c)
    PROVE  Standing(s, c2)
  <1>1. s.nextBlock - 1 \in Int /\ s.nextBlock - 1 <= h
    BY DEF Complete, Extends
  <1> QED BY <1>1, ApprovedKept DEF Standing

LEMMA SoundKept ==
    ASSUME NEW x, NEW c, NEW h, NEW c2, NEW h2, ChainOK(c, h),
           Extends(c, h, c2, h2), RefreshOK(x, c, h), Sound(x, c, h)
    PROVE  Sound(x, c2, h2)
  <1>1. Standing(x.base, c2)
    BY StandingKept DEF RefreshOK, Sound
  <1>2. x.since \in 0 .. h /\ x.since \in 0 .. h2
    BY DEF Sound, Extends
  <1>3. ASSUME x.pc = "keys" PROVE Founded(x, c2, h2)
    <2>1. Founded(x, c, h)
      BY <1>3 DEF Sound
    <2>2. \A a \in Agents :
            /\ x.found \cap Revs(c, a) = x.found \cap Revs(c2, a)
            /\ x.found \cap Regs(c, a) = x.found \cap Regs(c2, a)
      <3>1. \A i \in x.found : i \in DOMAIN c /\ i \in DOMAIN c2 /\ c2[i] = c[i]
        BY DEF RefreshOK, FoundOK, Extends
      <3> QED BY <3>1 DEF Revs, Regs
    <2>3. \A a \in Agents : ApprovedSince(c, a, x.since, h)
                                => ApprovedSince(c2, a, x.since, h2)
      BY <1>2, SinceKept
    <2> QED BY <2>1, <2>2, <2>3 DEF Founded
  <1> QED BY <1>1, <1>2, <1>3 DEF Sound

\* Nothing read, nothing approved.
LEMMA EmptySound ==
    ASSUME NEW c, NEW h \in Nat
    PROVE  Standing(EmptyCache, c) /\ Sound(Idle, c, h)
  BY DEF Standing, EmptyCache, Sound, Idle

-----------------------------------------------------------------------------
\* The queries.  What is found holds every sealed registration of the base's
\* next blocks up to upto, and every revocation of them up to h.
LEMMA ReadFounded ==
    ASSUME NEW x, NEW c, NEW h, ChainOK(c, h), Complete(x.base, c, h),
           Standing(x.base, c), x.since \in 0 .. h, x.upto \in x.since .. h,
           \A i \in x.found : /\ i \in DOMAIN c
                              /\ c[i].block \in x.base.nextBlock .. h
                              /\ c[i].action = "register" => c[i].block <= x.upto,
           \A j \in DOMAIN c : /\ c[j].action # "register"
                               /\ c[j].block \in x.base.nextBlock .. h
                               => j \in x.found
    PROVE  Founded(x, c, h)
  <1>1. /\ h \in Nat /\ x.base.nextBlock \in 0 .. h + 1
        /\ \A i \in DOMAIN c : i \in Nat /\ c[i].block \in Nat
        /\ x.since \in Nat /\ x.upto \in Nat /\ x.upto <= h /\ x.since <= x.upto
    BY DEF ChainOK, Complete
  <1>2. ASSUME NEW a \in Agents, x.base.approved[a] # NoKey,
               x.found \cap Revs(c, a) = {}
        PROVE  ApprovedSince(c, a, x.since, h)
    <2>1. PICK i \in Regs(c, a) :
             /\ c[i].block <= x.base.nextBlock - 1
             /\ \A j \in Revs(c, a) : c[j].block <= x.base.nextBlock - 1 => j < i
      BY <1>2 DEF Standing, ApprovedAt
    <2>2. c[i].block <= h
      BY <1>1, <2>1 DEF Regs
    <2>3. ASSUME NEW j \in Revs(c, a), c[j].block <= h PROVE j < i
      <3>1. j \notin x.found
        BY <1>2
      <3>2. c[j].block <= x.base.nextBlock - 1
        BY <1>1, <2>3, <3>1 DEF Revs
      <3> QED BY <2>1, <3>2
    <2>4. ApprovedAt(c, a, h)
      BY <2>2, <2>3 DEF ApprovedAt
    <2>5. h \in x.since .. h
      BY <1>1
    <2> QED BY <2>4, <2>5 DEF ApprovedSince
  <1>3. ASSUME NEW a \in Agents, NEW i \in x.found \cap Regs(c, a),
               \A j \in x.found \cap Revs(c, a) : j < i
        PROVE  ApprovedSince(c, a, x.since, h)
    <2>1. c[i].block <= x.upto /\ c[i].block >= x.base.nextBlock /\ i \in DOMAIN c
      BY <1>1 DEF Regs
    <2>2. ASSUME NEW j \in Revs(c, a), c[j].block <= x.upto PROVE j < i
      <3>1. j \in DOMAIN c /\ c[j].action # "register"
        BY DEF Revs
      <3>2. CASE j \in x.found
        BY <1>3, <3>2
      <3>3. CASE j \notin x.found
        <4>1. c[j].block < x.base.nextBlock
          BY <1>1, <2>2, <3>1, <3>3
        <4>2. ~ (i <= j)
          BY <1>1, <2>1, <3>1, <4>1 DEF ChainOK
        <4> QED BY <1>1, <2>1, <3>1, <4>2
      <3> QED BY <3>2, <3>3
    <2>3. ApprovedAt(c, a, x.upto)
      BY <2>1, <2>2 DEF ApprovedAt
    <2>4. x.upto \in x.since .. h
      OBVIOUS
    <2> QED BY <2>3, <2>4 DEF ApprovedSince
  <1> QED BY <1>2, <1>3 DEF Founded
-----------------------------------------------------------------------------
\* The fold.
LEMMA FoldStands ==
    ASSUME Inv, NEW x, NEW keys,
           RefreshOK(x, chain, head), Sound(x, chain, head), x.pc = "keys"
    PROVE  LET f == Fold(x.base, x.found, keys)
           IN /\ Standing(f, chain)
              /\ \A a \in Agents :
                    f.approved[a] # NoKey
                       => ApprovedSince(chain, a, x.since, head)
  <1> DEFINE s == x.base
             found == x.found
             f == Fold(s, found, keys)
             es(a) == Effective(a, found, keys)
  <1>1. /\ ChainOK(chain, head) /\ \E n \in Nat : DOMAIN chain = 1 .. n
        /\ Complete(s, chain, head) /\ FoundOK(s, found, chain, head)
        /\ Standing(s, chain) /\ Founded(x, chain, head)
    BY DEF Inv, RefreshOK, Sound
  <1>2. /\ NewEvents(s, found) = found
        /\ DOMAIN f.audit = DOMAIN s.audit \cup found
        /\ f.nextBlock \in 0 .. head + 1
        /\ s.nextBlock <= f.nextBlock
        /\ \A i \in found : chain[i].block < f.nextBlock
    BY <1>1, FoldReaches
  <1>3. Complete(f, chain, head)
    BY <1>1, FoldComplete
  <1>4. f.approved =
          [a \in Agents |->
              IF es(a) = {} THEN s.approved[a]
              ELSE IF Max(es(a)) \in Revokes THEN NoKey ELSE keys[Max(es(a))]]
    BY <1>2 DEF Fold, ApprovedAfter
  <1>5. /\ head \in Nat /\ s.nextBlock \in Nat /\ f.nextBlock \in Nat
        /\ \A i \in DOMAIN chain : i \in Nat /\ chain[i].block \in Nat
        /\ \A i \in found : i \in DOMAIN chain /\ chain[i].block >= s.nextBlock
    BY <1>1, <1>2 DEF ChainOK, Complete, FoundOK
  <1> HIDE DEF f
  \* A revocation which the fold has ingested is the base's or was found.
  <1>6. ASSUME NEW a, NEW j \in Revs(chain, a), chain[j].block <= f.nextBlock - 1,
               j \notin found
        PROVE  chain[j].block <= s.nextBlock - 1
    <2>1. j \in DOMAIN chain /\ chain[j].action # "register"
      BY DEF Revs
    <2>2. chain[j].block < f.nextBlock
      BY <1>5, <1>6, <2>1
    <2>3. j \in DOMAIN s.audit
      BY <1>2, <1>3, <1>6, <2>1, <2>2 DEF Complete
    <2>4. chain[j].block < s.nextBlock
      BY <1>1, <2>3 DEF Complete
    <2> QED BY <1>5, <2>1, <2>4
  <1>7. ASSUME NEW a \in Agents, f.approved[a] # NoKey
        PROVE  /\ ApprovedAt(chain, a, f.nextBlock - 1)
               /\ ApprovedSince(chain, a, x.since, head)
    <2>1. \A j \in found \cap Revs(chain, a) : j \in es(a)
      BY DEF Revs, Effective, Registers
    <2>2. CASE es(a) = {}
      <3>1. s.approved[a] # NoKey /\ found \cap Revs(chain, a) = {}
        BY <1>4, <1>7, <2>1, <2>2
      <3>2. PICK i \in Regs(chain, a) :
              /\ chain[i].block <= s.nextBlock - 1
              /\ \A j \in Revs(chain, a) : chain[j].block <= s.nextBlock - 1 => j < i
        BY <1>1, <3>1 DEF Standing, ApprovedAt
      <3>3. chain[i].block <= f.nextBlock - 1
        BY <1>2, <1>5, <3>2 DEF Regs
      <3>4. ASSUME NEW j \in Revs(chain, a), chain[j].block <= f.nextBlock - 1
            PROVE  j < i
        BY <1>6, <3>1, <3>2, <3>4
      <3>5. ApprovedAt(chain, a, f.nextBlock - 1)
        BY <3>3, <3>4 DEF ApprovedAt
      <3> QED BY <1>1, <3>1, <3>5 DEF Founded
    <2>3. CASE es(a) # {}
      <3> DEFINE i == Max(es(a))
      <3>1. PICK n \in Nat : es(a) \subseteq 0 .. n
        BY <1>1, <1>5 DEF Effective
      <3>2. i \in es(a) /\ \A j \in es(a) : j <= i
        <4> HIDE DEF es
        <4> QED BY <2>3, <3>1, BoundedMax
      <3>3. i \notin Revokes
        BY <1>4, <1>7, <2>3
      <3>4. i \in found \cap Regs(chain, a)
        BY <1>5, <3>2, <3>3 DEF Effective, Regs, Revokes, Registers
      <3> HIDE DEF i
      <3>5. i \in DOMAIN chain /\ i \in Nat /\ chain[i].block \in Nat
            /\ chain[i].block >= s.nextBlock /\ chain[i].block < f.nextBlock
        BY <1>2, <1>5, <3>4
      <3>6. ASSUME NEW j \in found \cap Revs(chain, a) PROVE j < i
        <4>1. j <= i
          BY <2>1, <3>2
        <4>2. j # i /\ j \in Nat
          BY <1>5, <3>4 DEF Revs, Regs
        <4> QED BY <3>5, <4>1, <4>2
      <3>7. ASSUME NEW j \in Revs(chain, a), chain[j].block <= f.nextBlock - 1
            PROVE  j < i
        <4>1. CASE j \in found
          BY <3>6, <4>1
        <4>2. CASE j \notin found
          <5>1. chain[j].block <= s.nextBlock - 1 /\ j \in DOMAIN chain
            BY <1>6, <3>7, <4>2 DEF Revs
          <5>2. ~ (i <= j)
            BY <1>1, <1>5, <3>5, <5>1 DEF ChainOK
          <5> QED BY <1>5, <3>5, <5>1, <5>2
        <4> QED BY <4>1, <4>2
      <3>8. ApprovedAt(chain, a, f.nextBlock - 1)
        <4>1. chain[i].block <= f.nextBlock - 1
          BY <1>5, <3>5
        <4> QED BY <3>4, <3>7, <4>1 DEF ApprovedAt
      <3> QED BY <1>1, <3>4, <3>6, <3>8 DEF Founded
    <2> QED BY <2>2, <2>3
  <1>8. Standing(f, chain)
    BY <1>7 DEF Standing
  <1> QED BY <1>7, <1>8 DEF f

-----------------------------------------------------------------------------
(* The invariant is kept by every step. *)

LEMMA InitLast == Init => LastInv
  <1> SUFFICES ASSUME Init PROVE LastInv
    OBVIOUS
  <1>1. DOMAIN chain = {} /\ head = 0 /\ floor = 0
    BY DEF Init, ChainInit
  <1>2. Standing(cache, chain) /\ \A r \in Refreshers : Sound(rd[r], chain, head)
    BY <1>1, EmptySound DEF Init
  <1>3. \A a \in Agents : cache.approved[a] = NoKey
    BY DEF Init, EmptyCache
  <1> QED BY <1>1, <1>2, <1>3, InitInv DEF LastInv, Typed

\* A transaction emits a registration with one of the keys, or a revocation.
LEMMA ChainTyped ==
    ASSUME Inv, Typed(chain), ChainNext
    PROVE  Typed(chain')
  <1>1. PICK n \in Nat : DOMAIN chain = 1 .. n
    BY DEF Inv
  <1>2. CASE Seal
    BY <1>2 DEF Seal, Typed
  <1>3. CASE \E a \in Agents : Revoke(a) \/ \E k \in Keys : Register(a, k)
    <2>1. PICK e : /\ chain' = Append(chain, e)
                   /\ e.action = "register" => e.key \in Keys
      <3>1. ASSUME NEW a \in Agents, Revoke(a)
            PROVE  \E e : /\ chain' = Append(chain, e)
                          /\ e.action = "register" => e.key \in Keys
        <4>1. Event("revoke", a, NoKey).action # "register"
          BY DEF Event
        <4> QED BY <3>1, <4>1, Zenon DEF Revoke
      <3>2. ASSUME NEW a \in Agents, NEW k \in Keys, Register(a, k)
            PROVE  \E e : /\ chain' = Append(chain, e)
                          /\ e.action = "register" => e.key \in Keys
        <4>1. Event("register", a, k).key \in Keys
          BY DEF Event
        <4> QED BY <3>2, <4>1, Zenon DEF Register
      <3> QED BY <1>3, <3>1, <3>2
    <2>2. Len(chain) = n
      BY <1>3, <1>1 DEF Revoke, Register
    <2>3. DOMAIN chain' = 1 .. n + 1 /\ chain'[n + 1] = e
          /\ \A i \in DOMAIN chain : chain'[i] = chain[i]
      BY <1>1, <2>1, <2>2
    <2>4. \A i \in DOMAIN chain' : i \in DOMAIN chain \/ i = n + 1
      BY <1>1, <2>3
    <2> QED BY <2>1, <2>3, <2>4 DEF Typed
  <1> QED BY <1>2, <1>3 DEF ChainNext

\* A step of r's refresh that leaves the snapshot and the chain alone.
LEMMA ReadLasts ==
    ASSUME LastInv, Inv', NEW r \in Refreshers, NEW x,
           UNCHANGED <<chain, head, cache, floor>>,
           rd' = [rd EXCEPT ![r] = x], Sound(x, chain, head)
    PROVE  LastInv'
  <1>1. \A q \in Refreshers : rd'[q] = x \/ rd'[q] = rd[q]
    BY DEF LastInv, Inv, RefreshShape
  <1>2. \A q \in Refreshers : Sound(rd'[q], chain, head)
    BY <1>1 DEF LastInv
  <1> QED BY <1>2 DEF LastInv

LEMMA StepLast == LastInv /\ [Next]_vars => LastInv'
  <1> SUFFICES ASSUME LastInv, [Next]_vars PROVE LastInv'
    OBVIOUS
  <1>0. Inv /\ Inv'
    BY StepInv DEF LastInv
  <1>1. /\ ChainOK(chain, head)
        /\ Complete(cache, chain, head)
        /\ head \in Nat
        /\ \A r \in Refreshers : RefreshOK(rd[r], chain, head)
    BY <1>0 DEF Inv, ChainOK
  <1>2. CASE ChainNext /\ UNCHANGED cacheVars
    <2>1. ChainOK(chain', head') /\ Extends(chain, head, chain', head')
      BY <1>0, <1>2, ChainStep
    <2>2. Standing(cache, chain')
      BY <1>1, <2>1, StandingKept DEF LastInv
    <2>3. \A a \in Agents : cache.approved[a] # NoKey
                              => ApprovedSince(chain', a, floor, head')
      BY <1>1, <2>1, SinceKept DEF LastInv
    <2>4. \A r \in Refreshers : Sound(rd[r], chain', head')
      BY <1>1, <2>1, SoundKept DEF LastInv
    <2>5. Typed(chain')
      BY <1>0, <1>2, ChainTyped DEF LastInv
    <2>6. floor \in 0 .. head'
      BY <2>1 DEF LastInv, Extends
    <2> QED BY <1>0, <1>2, <2>2, <2>3, <2>4, <2>5, <2>6 DEF LastInv, cacheVars
  <1>3. ASSUME NEW r \in Refreshers, Refresh(r) PROVE LastInv'
    <2>0. rd[r] = [pc |-> rd[r].pc, base |-> rd[r].base, since |-> rd[r].since,
                   upto |-> rd[r].upto, found |-> rd[r].found, keys |-> rd[r].keys]
      BY <1>0 DEF Inv, RefreshShape
    <2>1. /\ RefreshOK(rd[r], chain, head) /\ Sound(rd[r], chain, head)
          /\ Complete(rd[r].base, chain, head) /\ Standing(rd[r].base, chain)
          /\ rd[r].since \in 0 .. head
      BY <1>1 DEF LastInv, RefreshOK, Sound
    <2>2. CASE Begin(r)
      <3> DEFINE x == [pc |-> "registers",
                       base |-> IF started THEN cache ELSE EmptyCache,
                       since |-> head, upto |-> 0, found |-> {}, keys |-> <<>>]
      <3>1. Standing(x.base, chain)
        BY <1>1, EmptySound DEF LastInv
      <3>2. Sound(x, chain, head)
        BY <1>1, <3>1 DEF Sound
      <3>3. rd' = [rd EXCEPT ![r] = x] /\ UNCHANGED <<chain, head, cache, floor>>
        BY <2>2 DEF Begin
      <3> HIDE DEF x
      <3> QED BY <1>0, <3>2, <3>3, ReadLasts
    <2>3. CASE ReadRegisters(r)
      <3> DEFINE x == [rd[r] EXCEPT !.pc = "revokes", !.upto = head]
      <3>1. x = [pc |-> "revokes", base |-> rd[r].base, since |-> rd[r].since,
                 upto |-> head, found |-> rd[r].found, keys |-> rd[r].keys]
        BY <2>0, PcAndField, ZenonT(40)
      <3>2. Sound(x, chain, head)
        BY <1>1, <2>1, <3>1 DEF Sound
      <3>3. rd' = [rd EXCEPT ![r] = x] /\ UNCHANGED <<chain, head, cache, floor>>
        BY <2>3 DEF ReadRegisters
      <3> HIDE DEF x
      <3> QED BY <1>0, <3>2, <3>3, ReadLasts
    <2>4. CASE ReadRevokes(r)
      <3> DEFINE found == (Sealed(rd[r].base.nextBlock, rd[r].upto) \cap Registers)
                          \cup (Sealed(rd[r].base.nextBlock, head) \cap Revokes)
                 x == [rd[r] EXCEPT !.pc = "keys", !.found = found]
                 y == [pc |-> "keys", base |-> rd[r].base, since |-> rd[r].since,
                       upto |-> rd[r].upto, found |-> found, keys |-> rd[r].keys]
      <3>1. x = y
        <4> HIDE DEF found
        <4> QED BY <2>0, PcAndField, ZenonT(40)
      <3>2. /\ head \in Nat /\ rd[r].upto \in rd[r].since .. head
            /\ rd[r].base.nextBlock \in Nat
            /\ \A i \in DOMAIN chain : chain[i].block \in Nat
        BY <1>1, <2>1, <2>4 DEF ReadRevokes, Sound, RefreshOK, ChainOK, Complete
      <3>3. \A i \in found :
              /\ i \in DOMAIN chain
              /\ chain[i].block \in rd[r].base.nextBlock .. head
              /\ chain[i].action = "register" => chain[i].block <= rd[r].upto
        BY <3>2 DEF Sealed, Registers, Revokes
      <3>4. \A j \in DOMAIN chain :
              /\ chain[j].action # "register"
              /\ chain[j].block \in rd[r].base.nextBlock .. head
              => j \in found
        BY DEF Sealed, Registers, Revokes
      <3>5. Founded(y, chain, head)
        <4>1. /\ y.base = rd[r].base /\ y.since = rd[r].since
              /\ y.upto = rd[r].upto /\ y.found = found
          OBVIOUS
        <4> HIDE DEF y, found
        <4> QED BY <1>1, <2>1, <3>2, <3>3, <3>4, <4>1, ReadFounded
      <3>6. Sound(y, chain, head)
        BY <2>1, <3>5 DEF Sound
      <3>7. rd' = [rd EXCEPT ![r] = x] /\ UNCHANGED <<chain, head, cache, floor>>
        BY <2>4 DEF ReadRevokes
      <3> HIDE DEF x, y, found
      <3> QED BY <1>0, <3>1, <3>6, <3>7, ReadLasts
    <2>5. CASE ReadKey(r)
      <3>1. PICK k : rd' = [rd EXCEPT ![r].keys = k]
                     /\ UNCHANGED <<chain, head, cache, floor>>
        BY <2>5, <1>0 DEF ReadKey, Inv, RefreshShape
      <3> DEFINE x == [rd[r] EXCEPT !.keys = k]
      <3>2. x = [pc |-> rd[r].pc, base |-> rd[r].base, since |-> rd[r].since,
                 upto |-> rd[r].upto, found |-> rd[r].found, keys |-> k]
        BY <2>0
      <3>3. Sound(x, chain, head)
        BY <2>1, <3>2 DEF Sound, Founded
      <3>4. rd' = [rd EXCEPT ![r] = x]
        BY <3>1
      <3> HIDE DEF x
      <3> QED BY <1>0, <3>1, <3>3, <3>4, ReadLasts
    <2>6. CASE ReadSnapshot(r)
      <3> DEFINE found == Sealed(rd[r].base.nextBlock, head)
                 k == [i \in found \cap Registers |-> chain[i].key]
                 x == [pc |-> "keys", base |-> rd[r].base, since |-> rd[r].since,
                       upto |-> head, found |-> found, keys |-> k]
      <3>1. /\ rd[r].base.nextBlock \in Nat
            /\ \A i \in DOMAIN chain : chain[i].block \in Nat
        BY <1>1, <2>1 DEF ChainOK, Complete
      <3>2. /\ \A i \in found :
                 /\ i \in DOMAIN chain
                 /\ chain[i].block \in rd[r].base.nextBlock .. head
                 /\ chain[i].action = "register" => chain[i].block <= head
            /\ \A j \in DOMAIN chain :
                 /\ chain[j].action # "register"
                 /\ chain[j].block \in rd[r].base.nextBlock .. head
                 => j \in found
        BY <1>1, <3>1 DEF Sealed
      <3>3. /\ x.base = rd[r].base /\ x.since = rd[r].since
            /\ x.upto = head /\ x.found = found /\ x.pc = "keys"
        OBVIOUS
      <3>4. rd' = [rd EXCEPT ![r] = x] /\ UNCHANGED <<chain, head, cache, floor>>
        BY <2>6 DEF ReadSnapshot
      <3> HIDE DEF x, found, k
      <3>5. x.upto \in x.since .. head
        BY <1>1, <2>1, <3>3
      <3>6. Founded(x, chain, head)
        BY <1>1, <2>1, <3>2, <3>3, <3>5, ReadFounded
      <3>7. Sound(x, chain, head)
        BY <2>1, <3>3, <3>6 DEF Sound
      <3> QED BY <1>0, <3>4, <3>7, ReadLasts
    <2>7. CASE Swap(r)
      <3>1. PICK k : cache' = Fold(rd[r].base, rd[r].found, k)
        BY <2>7 DEF Swap
      <3>2. rd[r].pc = "keys" /\ floor' = rd[r].since
            /\ rd' = [rd EXCEPT ![r] = Idle] /\ UNCHANGED <<chain, head>>
        BY <2>7 DEF Swap, chainVars
      <3>3. /\ Standing(cache', chain)
            /\ \A a \in Agents : cache'.approved[a] # NoKey
                                   => ApprovedSince(chain, a, floor', head)
        BY <1>0, <2>1, <3>1, <3>2, FoldStands
      <3>4. Sound(Idle, chain, head)
        BY <1>1, EmptySound
      <3>5. \A q \in Refreshers : Sound(rd'[q], chain, head)
        BY <1>0, <3>2, <3>4 DEF LastInv, Inv, RefreshShape
      <3> QED BY <1>0, <2>1, <3>2, <3>3, <3>5 DEF LastInv
    <2>8. CASE ReadFails(r)
      <3>1. rd' = [rd EXCEPT ![r] = Idle] /\ UNCHANGED <<chain, head, cache, floor>>
        BY <2>8 DEF ReadFails
      <3> QED BY <1>0, <1>1, <3>1, EmptySound, ReadLasts
    <2> QED BY <1>3, <2>2, <2>3, <2>4, <2>5, <2>6, <2>7, <2>8 DEF Refresh
  <1>4. CASE Crash
    <2>1. Standing(EmptyCache, chain) /\ Sound(Idle, chain, head)
      BY <1>1, EmptySound
    <2>2. /\ cache' = EmptyCache /\ UNCHANGED <<chain, head, floor>>
          /\ \A r \in Refreshers : rd'[r] = Idle
      BY <1>4 DEF Crash
    <2>3. \A a \in Agents : cache'.approved[a] = NoKey
      BY <2>2 DEF EmptyCache
    <2> QED BY <1>0, <2>1, <2>2, <2>3 DEF LastInv
  <1>5. CASE UNCHANGED vars
    BY <1>0, <1>5 DEF vars, LastInv
  <1> QED BY <1>2, <1>3, <1>4, <1>5 DEF Next

-----------------------------------------------------------------------------
\* A revocation sealed before a refresh began is in force in the snapshot it
\* installs, whichever refreshes overlap, whatever their reads lose and
\* however old the snapshot they started from (registry_service.py refresh,
\* besu_registry.py audit_log and public_key).
THEOREM RevocationsLast == Spec => []RevocationLasts
  <1>1. LastInv => RevocationLasts
    <2> SUFFICES ASSUME LastInv, NEW a \in Agents, cache.approved[a] # NoKey
                 PROVE  \E h \in floor .. head : KeyAt(a, h) # NoKey
      BY DEF RevocationLasts
    <2>1. PICK h \in floor .. head : ApprovedAt(chain, a, h)
      BY DEF LastInv, ApprovedSince
    <2>2. h \in 0 .. head
      BY DEF LastInv
    <2> QED BY <2>1, <2>2, ApprovedHasKey DEF LastInv
  <1>2. Spec => []LastInv
    BY InitLast, StepLast, PTL DEF Spec
  <1> QED BY <1>1, <1>2, PTL
-----------------------------------------------------------------------------
\* The refinement.  Over a source that answers at once and with one refreshing
\* thread a snapshot is exact: it shows the keys of the last block it ingested,
\* and what a running refresh has found is all that followed, each
\* registration with its own key.

\* The events of agent a up to block h, and the key after the last of them.
Mine(c, a, h) == {i \in DOMAIN c : c[i].agent = a /\ c[i].block \in 1 .. h}

KeyOn(c, a, h) ==
    IF Mine(c, a, h) = {} \/ c[Max(Mine(c, a, h))].action # "register"
    THEN NoKey ELSE c[Max(Mine(c, a, h))].key

Shows(s, c) == s.approved = [a \in Agents |-> KeyOn(c, a, s.nextBlock - 1)]

Answer(s, upto, c) == {i \in DOMAIN c : c[i].block \in s.nextBlock .. upto}

Exact(x, s, c) ==
    /\ x.pc \in {"idle", "registers", "keys"}
    /\ x.pc # "idle" => x.base = s
    /\ x.pc = "keys" =>
          /\ x.found = Answer(s, x.upto, c)
          /\ x.keys = [i \in {j \in x.found : c[j].action = "register"} |-> c[i].key]

ExactInv ==
    /\ Inv
    /\ Typed(chain)
    /\ ~ started => cache = EmptyCache
    /\ Shows(cache, chain)
    /\ Exact(rd[Starter], cache, chain)

LEMMA KeyAtIsKeyOn ==
    ASSUME Inv, NEW a, NEW h \in Int
    PROVE  KeyAt(a, h) = KeyOn(chain, a, h)
  <1> DEFINE mine == {i \in Sealed(1, h) : chain[i].agent = a}
  <1>1. PICK n \in Nat : DOMAIN chain = 1 .. n
    BY DEF Inv
  <1>2. mine = Mine(chain, a, h) /\ mine \subseteq 0 .. n
    BY <1>1 DEF Mine, Sealed
  <1>3. mine # {} => Max(mine) \in DOMAIN chain
    <2>1. mine # {} => Max(mine) \in mine
      <3> HIDE DEF mine
      <3> QED BY <1>2, BoundedMax
    <2> QED BY <2>1 DEF Sealed
  <1>4. mine # {} => (Max(mine) \in Revokes <=> chain[Max(mine)].action # "register")
    <2> HIDE DEF mine
    <2> QED BY <1>3 DEF Revokes, Registers
  <1>5. KeyAt(a, h) = IF mine = {} \/ Max(mine) \in Revokes
                      THEN NoKey ELSE chain[Max(mine)].key
    BY DEF KeyAt
  <1> HIDE DEF mine
  <1> QED BY <1>2, <1>4, <1>5 DEF KeyOn

\* Before the first block nobody has a key.
LEMMA NoKeyAtFirst ==
    ASSUME NEW c, NEW a, NEW h \in Int, h < 1
    PROVE  KeyOn(c, a, h) = NoKey
  <1>1. Mine(c, a, h) = {}
    BY DEF Mine
  <1> QED BY <1>1 DEF KeyOn

LEMMA EmptyShows ==
    ASSUME NEW c
    PROVE  Shows(EmptyCache, c)
  <1>1. \A a \in Agents : KeyOn(c, a, 0 - 1) = NoKey
    BY NoKeyAtFirst
  <1>2. EmptyCache.approved = [a \in Agents |-> NoKey] /\ EmptyCache.nextBlock = 0
    BY DEF EmptyCache
  <1> QED BY <1>1, <1>2 DEF Shows

\* The chain that grows changes nothing of the sealed blocks.
LEMMA KeyKept ==
    ASSUME NEW c, NEW h, NEW c2, NEW h2, ChainOK(c, h), Extends(c, h, c2, h2),
           NEW a, NEW t \in Int, t <= h, \E n \in Nat : DOMAIN c = 1 .. n
    PROVE  KeyOn(c2, a, t) = KeyOn(c, a, t)
  <1>1. Mine(c2, a, t) = Mine(c, a, t)
    BY DEF Mine, Extends
  <1>2. Mine(c, a, t) # {} => c2[Max(Mine(c, a, t))] = c[Max(Mine(c, a, t))]
    <2>1. PICK n \in Nat : DOMAIN c = 1 .. n
      OBVIOUS
    <2>2. Mine(c, a, t) \subseteq DOMAIN c /\ Mine(c, a, t) \subseteq 0 .. n
      BY <2>1 DEF Mine
    <2>3. Mine(c, a, t) # {} => Max(Mine(c, a, t)) \in Mine(c, a, t)
      BY <2>2, BoundedMax
    <2> QED BY <2>2, <2>3 DEF Extends
  <1> QED BY <1>1, <1>2 DEF KeyOn

LEMMA ShowsKept ==
    ASSUME NEW s, NEW c, NEW h, NEW c2, NEW h2, ChainOK(c, h),
           Extends(c, h, c2, h2), \E n \in Nat : DOMAIN c = 1 .. n,
           Complete(s, c, h), Shows(s, c)
    PROVE  Shows(s, c2)
  <1>1. s.nextBlock - 1 \in Int /\ s.nextBlock - 1 <= h
    BY DEF Complete, ChainOK
  <1>2. \A a \in Agents : KeyOn(c2, a, s.nextBlock - 1) = KeyOn(c, a, s.nextBlock - 1)
    BY <1>1, KeyKept
  <1> QED BY <1>2 DEF Shows

LEMMA ExactKept ==
    ASSUME NEW x, NEW s, NEW c, NEW h, NEW c2, NEW h2, ChainOK(c, h),
           Extends(c, h, c2, h2), x.upto \in 0 .. h, s.nextBlock \in Nat,
           Exact(x, s, c)
    PROVE  Exact(x, s, c2)
  <1>1. ASSUME x.pc = "keys"
        PROVE  /\ x.found = Answer(s, x.upto, c2)
               /\ x.keys = [i \in {j \in x.found : c2[j].action = "register"} |-> c2[i].key]
    <2>1. /\ x.found = Answer(s, x.upto, c)
          /\ x.keys = [i \in {j \in x.found : c[j].action = "register"} |-> c[i].key]
      BY <1>1 DEF Exact
    <2>2. Answer(s, x.upto, c2) = Answer(s, x.upto, c)
      BY DEF Answer, Extends
    <2>3. \A i \in x.found : c2[i] = c[i]
      BY <2>1 DEF Answer, Extends
    <2> QED BY <2>1, <2>2, <2>3
  <1> QED BY <1>1 DEF Exact

\* The fold of all that followed an exact snapshot is exact.
LEMMA FoldExact ==
    ASSUME Inv, Typed(chain), NEW x, NEW keys, RefreshOK(x, chain, head),
           x.found = Answer(x.base, x.upto, chain), Shows(x.base, chain),
           \A i \in x.found \cap Registers : keys[i] = chain[i].key
    PROVE  Shows(Fold(x.base, x.found, keys), chain)
  <1> DEFINE s == x.base
             found == x.found
             f == Fold(s, found, keys)
             es(a) == Effective(a, found, keys)
             before(a) == Mine(chain, a, s.nextBlock - 1)
             after(a) == Mine(chain, a, f.nextBlock - 1)
  <1>1. /\ ChainOK(chain, head)
        /\ Complete(s, chain, head) /\ FoundOK(s, found, chain, head)
    BY DEF Inv, RefreshOK
  <1>2. PICK n \in Nat : DOMAIN chain = 1 .. n
    BY DEF Inv
  <1>3. /\ NewEvents(s, found) = found
        /\ f.nextBlock \in 0 .. head + 1
        /\ s.nextBlock <= f.nextBlock
        /\ \A i \in found : chain[i].block < f.nextBlock
        /\ f.nextBlock = s.nextBlock
           \/ \E i \in found : f.nextBlock = chain[i].block + 1
    BY <1>1, FoldReaches
  <1>4. f.approved =
          [a \in Agents |->
              IF es(a) = {} THEN s.approved[a]
              ELSE IF Max(es(a)) \in Revokes THEN NoKey ELSE keys[Max(es(a))]]
    BY <1>3 DEF Fold, ApprovedAfter
  <1> HIDE DEF f
  <1>5. /\ head \in Nat /\ s.nextBlock \in Nat /\ f.nextBlock \in Nat
        /\ x.upto \in Nat
        /\ \A i \in DOMAIN chain : i \in Nat /\ chain[i].block \in Nat
                                   /\ chain[i].block >= 1
        /\ \A i \in found : i \in DOMAIN chain /\ chain[i].block >= s.nextBlock
                            /\ chain[i].block <= x.upto
    BY <1>1, <1>3 DEF ChainOK, Complete, Answer, RefreshOK
  <1>6. \A a : es(a) = {i \in found : chain[i].agent = a}
    BY <1>5, ChainAssumption DEF Effective, Registers, Typed
  <1> HIDE DEF es
  <1>7. ASSUME NEW i \in DOMAIN chain,
               chain[i].block <= f.nextBlock - 1, chain[i].block >= s.nextBlock
        PROVE  i \in found
    <2>1. PICK j \in found : f.nextBlock = chain[j].block + 1
      BY <1>3, <1>5, <1>7
    <2>2. chain[i].block \in s.nextBlock .. x.upto
      BY <1>5, <1>7, <2>1
    <2> QED BY <2>2 DEF Answer
  <1>8. ASSUME NEW a PROVE after(a) = before(a) \cup es(a)
    <2>1. ASSUME NEW i \in after(a) PROVE i \in before(a) \/ i \in es(a)
      BY <1>5, <1>6, <1>7 DEF Mine
    <2>2. ASSUME NEW i \in before(a) PROVE i \in after(a)
      BY <1>3, <1>5 DEF Mine
    <2>3. ASSUME NEW i \in es(a) PROVE i \in after(a)
      BY <1>3, <1>5, <1>6 DEF Mine
    <2> QED BY <2>1, <2>2, <2>3
  <1>9. ASSUME NEW a, NEW i \in before(a), NEW j \in es(a) PROVE i < j
    <2>1. /\ i \in DOMAIN chain /\ j \in DOMAIN chain
          /\ chain[i].block <= s.nextBlock - 1 /\ chain[j].block >= s.nextBlock
      BY <1>5, <1>6, <1>9 DEF Mine
    <2>2. ~ (j <= i)
      BY <1>1, <1>5, <2>1 DEF ChainOK
    <2> QED BY <1>5, <2>1, <2>2
  <1>10. \A a : after(a) \subseteq 0 .. n /\ es(a) \subseteq 0 .. n
    BY <1>2, <1>5, <1>6 DEF Mine
  <1> HIDE DEF before, after
  <1>11. ASSUME NEW a \in Agents
         PROVE  f.approved[a] = KeyOn(chain, a, f.nextBlock - 1)
    <2>1. CASE es(a) = {}
      <3>1. after(a) = before(a)
        BY <1>8, <2>1
      <3>2. KeyOn(chain, a, f.nextBlock - 1) = KeyOn(chain, a, s.nextBlock - 1)
        BY <3>1 DEF KeyOn, before, after
      <3>3. s.approved[a] = KeyOn(chain, a, s.nextBlock - 1)
        BY DEF Shows
      <3> QED BY <1>4, <2>1, <3>2, <3>3
    <2>2. CASE es(a) # {}
      <3>1. Max(es(a)) \in es(a) /\ \A j \in es(a) : j <= Max(es(a))
        BY <1>10, <2>2, BoundedMax
      <3>2. after(a) # {}
        BY <1>8, <2>2
      <3>3. Max(after(a)) \in after(a) /\ \A j \in after(a) : j <= Max(after(a))
        BY <1>10, <3>2, BoundedMax
      <3>4. Max(after(a)) = Max(es(a))
        <4>1. /\ Max(es(a)) \in Nat /\ Max(after(a)) \in Nat
              /\ Max(es(a)) <= Max(after(a))
          BY <1>8, <1>10, <3>1, <3>3
        <4>2. Max(after(a)) \in es(a)
          <5> SUFFICES ASSUME Max(after(a)) \in before(a) PROVE FALSE
            BY <1>8, <3>3
          <5>1. Max(after(a)) < Max(es(a))
            BY <1>9, <3>1
          <5> QED BY <4>1, <5>1
        <4> QED BY <3>1, <4>1, <4>2
      <3>5. Max(es(a)) \in found /\ Max(es(a)) \in DOMAIN chain
        BY <1>5, <1>6, <3>1
      <3>6. KeyOn(chain, a, f.nextBlock - 1)
              = IF chain[Max(es(a))].action # "register"
                THEN NoKey ELSE chain[Max(es(a))].key
        BY <3>2, <3>4 DEF KeyOn, after
      <3>7. f.approved[a] = IF Max(es(a)) \in Revokes
                            THEN NoKey ELSE keys[Max(es(a))]
        BY <1>4, <2>2
      <3> QED BY <3>5, <3>6, <3>7 DEF Revokes, Registers
    <2> QED BY <2>1, <2>2
  <1>12. f.approved = [a \in Agents |-> f.approved[a]]
    BY <1>4
  <1>13. Shows(f, chain)
    BY <1>11, <1>12 DEF Shows
  <1> QED BY <1>13 DEF f

\* Every register was answered with its own key, so that nothing is left to
\* read or to backfill.
LEMMA SwapExact ==
    ASSUME ExactInv, Refreshers = {Starter}, NEW r \in Refreshers, Swap(r)
    PROVE  /\ Shows(cache', chain)
           /\ cache'.nextBlock \in 0 .. head + 1
           /\ cache.nextBlock <= cache'.nextBlock
  <1>0. r = Starter
    OBVIOUS
  <1>1. /\ Inv /\ Typed(chain) /\ Shows(cache, chain)
        /\ Exact(rd[r], cache, chain) /\ rd[r].pc = "keys"
    BY <1>0 DEF ExactInv, Swap
  <1>2. RefreshOK(rd[r], chain, head) /\ ChainOK(chain, head)
    BY <1>1 DEF Inv
  <1>3. PICK backfilled \in BOOLEAN :
          cache' = Fold(rd[r].base, rd[r].found,
                        [i \in DOMAIN rd[r].keys |->
                            IF backfilled /\ rd[r].keys[i] = NoKey
                            THEN chain[i].key ELSE rd[r].keys[i]])
    BY DEF Swap
  <1> DEFINE keys == [i \in DOMAIN rd[r].keys |->
                         IF backfilled /\ rd[r].keys[i] = NoKey
                         THEN chain[i].key ELSE rd[r].keys[i]]
  <1>4. /\ rd[r].base = cache
        /\ rd[r].found = Answer(rd[r].base, rd[r].upto, chain)
        /\ rd[r].keys = [i \in {j \in rd[r].found : chain[j].action = "register"}
                            |-> chain[i].key]
    BY <1>1 DEF Exact
  <1>5. \A i \in rd[r].found \cap Registers : keys[i] = chain[i].key
    BY <1>4 DEF Registers
  <1>6. cache' = Fold(rd[r].base, rd[r].found, keys)
    BY <1>3
  <1> HIDE DEF keys
  <1>7. Shows(cache', chain)
    BY <1>1, <1>2, <1>4, <1>5, <1>6, FoldExact
  <1>8. Complete(rd[r].base, chain, head) /\ FoundOK(rd[r].base, rd[r].found, chain, head)
    BY <1>2 DEF RefreshOK
  <1>9. /\ cache'.nextBlock \in 0 .. head + 1
        /\ cache.nextBlock <= cache'.nextBlock
    BY <1>2, <1>4, <1>6, <1>8, FoldReaches
  <1> QED BY <1>7, <1>9

LEMMA InitExact == Init => ExactInv
  <1> SUFFICES ASSUME Init PROVE ExactInv
    OBVIOUS
  <1>1. cache = EmptyCache /\ rd[Starter] = Idle /\ DOMAIN chain = {}
    BY CacheAssumption DEF Init, ChainInit
  <1>2. Shows(cache, chain) /\ Exact(rd[Starter], cache, chain) /\ Typed(chain)
    BY <1>1, EmptyShows DEF Exact, Idle, Typed
  <1> QED BY <1>1, <1>2, InitInv DEF ExactInv

\* A step of the refreshing thread that leaves the snapshot and the chain alone.
LEMMA ReadExact ==
    ASSUME ExactInv, Inv', Refreshers = {Starter}, NEW x,
           UNCHANGED <<chain, head, cache, started>>,
           rd' = [rd EXCEPT ![Starter] = x], Exact(x, cache, chain)
    PROVE  ExactInv'
  <1>1. rd'[Starter] = x
    BY DEF ExactInv, Inv, RefreshShape
  <1> QED BY <1>1 DEF ExactInv

LEMMA StepExact ==
    ASSUME Source = "snapshot", Refreshers = {Starter}, ExactInv, [Next]_vars
    PROVE  ExactInv'
  <1>0. Inv /\ Inv'
    BY StepInv DEF ExactInv
  <1>1. /\ ChainOK(chain, head) /\ Typed(chain) /\ Shows(cache, chain)
        /\ Complete(cache, chain, head) /\ (~ started => cache = EmptyCache)
        /\ Exact(rd[Starter], cache, chain)
        /\ RefreshOK(rd[Starter], chain, head)
        /\ \E n \in Nat : DOMAIN chain = 1 .. n
    BY <1>0 DEF Inv, ExactInv
  <1>2. CASE ChainNext /\ UNCHANGED cacheVars
    <2>1. ChainOK(chain', head') /\ Extends(chain, head, chain', head')
      BY <1>0, <1>2, ChainStep
    <2>2. Shows(cache, chain')
      BY <1>1, <2>1, ShowsKept
    <2>3. rd[Starter].upto \in 0 .. head /\ cache.nextBlock \in Nat
      BY <1>1 DEF RefreshOK, Complete
    <2>4. Exact(rd[Starter], cache, chain')
      BY <1>1, <2>1, <2>3, ExactKept
    <2>5. Typed(chain')
      BY <1>0, <1>1, <1>2, ChainTyped
    <2> QED BY <1>0, <1>1, <1>2, <2>2, <2>4, <2>5 DEF ExactInv, cacheVars
  <1>3. ASSUME NEW r \in Refreshers, Refresh(r) PROVE ExactInv'
    <2>0. r = Starter
      OBVIOUS
    <2>1. CASE Begin(r)
      <3> DEFINE x == [pc |-> "registers",
                       base |-> IF started THEN cache ELSE EmptyCache,
                       since |-> head, upto |-> 0, found |-> {}, keys |-> <<>>]
      <3>1. x.pc = "registers" /\ x.base = cache
        BY <1>1
      <3>2. /\ rd' = [rd EXCEPT ![Starter] = x]
            /\ UNCHANGED <<chain, head, cache, started>>
        BY <2>0, <2>1 DEF Begin
      <3> HIDE DEF x
      <3>3. Exact(x, cache, chain)
        BY <3>1 DEF Exact
      <3> QED BY <1>0, <3>2, <3>3, ReadExact
    <2>2. CASE ReadSnapshot(r)
      <3> DEFINE found == Sealed(rd[r].base.nextBlock, head)
                 k == [i \in found \cap Registers |-> chain[i].key]
                 x == [pc |-> "keys", base |-> rd[r].base, since |-> rd[r].since,
                       upto |-> head, found |-> found, keys |-> k]
      <3>1. rd[r].base = cache
        BY <1>1, <2>0, <2>2 DEF Exact, ReadSnapshot
      <3>2. found = Answer(cache, head, chain)
        BY <3>1 DEF Sealed, Answer
      <3>3. k = [i \in {j \in found : chain[j].action = "register"} |-> chain[i].key]
        <4>1. found \cap Registers = {j \in found : chain[j].action = "register"}
          BY DEF Sealed, Registers
        <4> HIDE DEF found
        <4> QED BY <4>1
      <3>4. /\ rd' = [rd EXCEPT ![Starter] = x]
            /\ UNCHANGED <<chain, head, cache, started>>
        BY <2>0, <2>2 DEF ReadSnapshot
      <3>5. /\ x.pc = "keys" /\ x.base = cache /\ x.found = found
            /\ x.upto = head /\ x.keys = k
        BY <3>1
      <3> HIDE DEF x, k, found
      <3>6. Exact(x, cache, chain)
        BY <3>2, <3>3, <3>5 DEF Exact
      <3> QED BY <1>0, <3>4, <3>6, ReadExact
    <2>3. CASE Swap(r)
      <3>1. Shows(cache', chain)
        BY <2>3, SwapExact
      <3>2. started' = TRUE /\ rd' = [rd EXCEPT ![Starter] = Idle]
            /\ UNCHANGED <<chain, head>>
        BY <2>0, <2>3 DEF Swap, chainVars
      <3>3. rd'[Starter] = Idle
        BY <1>0, <3>2 DEF Inv, RefreshShape
      <3>4. Exact(Idle, cache', chain)
        BY DEF Exact, Idle
      <3> QED BY <1>0, <1>1, <3>1, <3>2, <3>3, <3>4 DEF ExactInv
    <2>4. CASE ReadFails(r)
      <3>1. /\ rd' = [rd EXCEPT ![Starter] = Idle]
            /\ UNCHANGED <<chain, head, cache, started>>
        BY <2>0, <2>4 DEF ReadFails
      <3>2. Exact(Idle, cache, chain)
        BY DEF Exact, Idle
      <3> QED BY <1>0, <3>1, <3>2, ReadExact
    <2>5. ~ ReadRegisters(r) /\ ~ ReadRevokes(r) /\ ~ ReadKey(r)
      <3>1. ~ ReadRegisters(r)
        BY DEF ReadRegisters
      <3>2. ~ ReadRevokes(r)
        BY <1>1, <2>0 DEF ReadRevokes, Exact
      <3>3. rd[r].pc = "keys" => Unread(r) = {}
        BY <1>1, <2>0 DEF Exact, Unread, Registers
      <3>4. ~ ReadKey(r)
        BY <3>3 DEF ReadKey
      <3> QED BY <3>1, <3>2, <3>4
    <2> QED BY <1>3, <2>1, <2>2, <2>3, <2>4, <2>5 DEF Refresh
  <1>4. CASE Crash
    <2>1. /\ cache' = EmptyCache /\ rd'[Starter] = Idle
          /\ UNCHANGED <<chain, head>>
      BY <1>4, CacheAssumption DEF Crash
    <2>2. Shows(EmptyCache, chain) /\ Exact(Idle, EmptyCache, chain)
      BY EmptyShows DEF Exact, Idle
    <2> QED BY <1>0, <1>1, <2>1, <2>2 DEF ExactInv
  <1>5. CASE UNCHANGED vars
    BY <1>0, <1>1, <1>5 DEF vars, ExactInv
  <1> QED BY <1>2, <1>3, <1>4, <1>5 DEF Next

-----------------------------------------------------------------------------
\* The abstract specification has operators of its own over the same chain.
LEMMA SameChain ==
    /\ \A a, h : View!KeyAt(a, h) = KeyAt(a, h)
    /\ View!ChainNext <=> ChainNext
    /\ View!ChainInit <=> ChainInit
  <1>1. \A S : View!Max(S) = Max(S)
    BY Zenon DEF View!Max, Max
  <1>2. View!Registers = Registers /\ View!Revokes = Revokes
    BY DEF View!Registers, Registers, View!Revokes, Revokes
  <1>3. \A from, to : View!Sealed(from, to) = Sealed(from, to)
    BY DEF View!Sealed, Sealed
  <1>4. \A a, h : View!KeyAt(a, h) = KeyAt(a, h)
    BY <1>1, <1>2, <1>3 DEF View!KeyAt, KeyAt
  <1>5. \A action, a, k : View!Event(action, a, k) = Event(action, a, k)
    BY DEF View!Event, Event
  <1>6. \A a, k : View!Register(a, k) <=> Register(a, k)
    BY <1>5 DEF View!Register, Register
  <1>7. \A a : View!Revoke(a) <=> Revoke(a)
    BY <1>2, <1>5 DEF View!Revoke, Revoke
  <1>8. View!Seal <=> Seal
    BY DEF View!Seal, Seal
  <1>9. View!ChainNext <=> ChainNext
    BY <1>6, <1>7, <1>8 DEF View!ChainNext, ChainNext
  <1>10. View!ChainInit <=> ChainInit
    BY DEF View!ChainInit, ChainInit
  <1> QED BY <1>4, <1>9, <1>10

\* The block a snapshot shows.
At(s) == IF s.nextBlock = 0 THEN 0 ELSE s.nextBlock - 1

LEMMA ShowsAt ==
    ASSUME Inv, NEW s, s.nextBlock \in Nat, Shows(s, chain)
    PROVE  s.approved = [a \in Agents |-> KeyAt(a, At(s))]
  <1>1. ASSUME NEW a \in Agents PROVE KeyOn(chain, a, s.nextBlock - 1) = KeyAt(a, At(s))
    <2>1. PICK h \in Int : h = At(s)
      BY DEF At
    <2>2. CASE s.nextBlock = 0
      <3>1. KeyOn(chain, a, s.nextBlock - 1) = NoKey /\ KeyOn(chain, a, h) = NoKey
        <4>1. h < 1 /\ s.nextBlock - 1 \in Int /\ s.nextBlock - 1 < 1
          BY <2>1, <2>2 DEF At
        <4> QED BY <4>1, NoKeyAtFirst
      <3> QED BY <2>1, <3>1, KeyAtIsKeyOn
    <2>3. CASE s.nextBlock # 0
      <3>1. h = s.nextBlock - 1
        BY <2>1, <2>3 DEF At
      <3> QED BY <2>1, <3>1, KeyAtIsKeyOn
    <2> QED BY <2>2, <2>3
  <1> QED BY <1>1 DEF Shows

LEMMA ViewInits == Init => View!ViewInit
  BY SameChain DEF Init, EmptyCache, View!ViewInit

LEMMA ViewSteps ==
    ASSUME Source = "snapshot", Refreshers = {Starter}, ExactInv, [Next]_vars
    PROVE  [View!ViewNext]_(View!viewVars)
  <1>0. Inv
    BY DEF ExactInv
  <1>1. CASE ChainNext /\ UNCHANGED cacheVars
    BY <1>1, SameChain DEF cacheVars, View!ViewNext
  <1>2. ASSUME NEW r \in Refreshers, Refresh(r), ~ Swap(r)
        PROVE  UNCHANGED View!viewVars
    <2>1. UNCHANGED <<chain, head, cache>>
      BY <1>2 DEF Refresh, Begin, ReadRegisters, ReadRevokes, ReadKey,
                  ReadSnapshot, ReadFails
    <2> QED BY <2>1 DEF View!viewVars
  <1>3. ASSUME NEW r \in Refreshers, Swap(r) PROVE View!CatchUp
    <2>1. PICK s : s = cache'
      OBVIOUS
    <2>2. /\ Shows(s, chain) /\ s.nextBlock \in 0 .. head + 1
          /\ cache.nextBlock <= s.nextBlock
      BY <1>3, <2>1, SwapExact
    <2>3. cache.nextBlock \in Nat /\ head \in Nat
      BY <1>0 DEF Inv, Complete, ChainOK
    <2>4. At(s) \in At(cache) .. head
      BY <2>2, <2>3 DEF At
    <2>5. s.nextBlock \in Nat
      BY <2>2, <2>3
    <2>6. s.approved = [a \in Agents |-> KeyAt(a, At(s))]
      BY <1>0, <2>2, <2>5, ShowsAt
    <2>7. UNCHANGED <<chain, head>>
      BY <1>3 DEF Swap, chainVars
    <2>8. /\ (IF cache.nextBlock = 0 THEN 0 ELSE cache.nextBlock - 1)' = At(s)
          /\ (IF cache.nextBlock = 0 THEN 0 ELSE cache.nextBlock - 1) = At(cache)
          /\ cache'.approved = s.approved
      BY <2>1 DEF At
    <2>9. s.approved = [a \in Agents |-> View!KeyAt(a, At(s))]
      BY <2>6, SameChain
    <2> QED BY <2>4, <2>7, <2>8, <2>9 DEF View!CatchUp, View!chainVars
  <1>4. CASE Crash
    <2>1. cache' = EmptyCache /\ UNCHANGED <<chain, head>>
      BY <1>4 DEF Crash
    <2>2. View!Restart
      BY <2>1 DEF View!Restart, View!chainVars, EmptyCache
    <2> QED BY <2>2 DEF View!ViewNext
  <1>5. CASE UNCHANGED vars
    BY <1>5 DEF vars, View!viewVars
  <1> QED BY <1>1, <1>2, <1>3, <1>4, <1>5 DEF Next, View!ViewNext

\* Over a source that answers in one step and with one refreshing thread, for
\* any agents, keys and number of events: what the control path reads is the
\* registry of one sealed block, and the block never goes back while the
\* process lives (registry_service.py refresh and start).
THEOREM CacheShowsRegistry ==
    ASSUME Source = "snapshot", Refreshers = {Starter}
    PROVE  Spec => CacheIsAView
  <1>1. ExactInv /\ [Next]_vars => ExactInv'
    BY StepExact
  <1>2. ExactInv /\ [Next]_vars => [View!ViewNext]_(View!viewVars)
    BY ViewSteps
  <1> QED BY <1>1, <1>2, InitExact, ViewInits, PTL DEF Spec, CacheIsAView, View!ViewSpec
-----------------------------------------------------------------------------
\* An agent that only ever registered one key.  With one refreshing thread, over
\* either kind of source, no snapshot shows another key for it, although the
\* key is read later than the event, and one that shows it is followed only by
\* others that do, until the process dies.

Loyal(c, a, k) ==
    \A i \in DOMAIN c : c[i].agent = a => c[i].action = "register" /\ c[i].key = k

\* The refresh x of snapshot s holds no other key of such an agent.
OwnKeys(x, s, c) ==
    /\ x.pc # "idle" => x.base = s
    /\ DOMAIN x.keys \subseteq DOMAIN c
    /\ \A a \in Agents, k \in Keys : Loyal(c, a, k) =>
          \A i \in DOMAIN x.keys : c[i].agent = a => x.keys[i] \in {NoKey, k}

ShowsOwn(s, c) ==
    \A a \in Agents, k \in Keys : Loyal(c, a, k) => s.approved[a] \in {NoKey, k}

LoyalInv ==
    /\ Inv
    /\ ~ started => cache = EmptyCache
    /\ ShowsOwn(cache, chain)
    /\ OwnKeys(rd[Starter], cache, chain)

LEMMA LeastMin ==
    ASSUME NEW S, S \subseteq Nat, S # {}
    PROVE  Min(S) \in S
  <1>1. PICK m \in S : \A y \in S : ~ (<<y, m>> \in OpToRel(<, Nat))
    BY NatLessThanWellFounded, WFMin
  <1>2. ASSUME NEW y \in S PROVE m <= y
    <2>1. y \in Nat /\ m \in Nat
      OBVIOUS
    <2>2. ~ (y < m)
      BY <1>1, <2>1 DEF OpToRel
    <2> QED BY <2>1, <2>2
  <1>3. \E z \in S : \A y \in S : z <= y
    BY <1>2
  <1> QED BY <1>3 DEF Min

LEMMA LoyalKeyAt ==
    ASSUME Inv, NEW a, NEW k, Loyal(chain, a, k), NEW h \in Int
    PROVE  KeyAt(a, h) \in {NoKey, k}
  <1>1. PICK n \in Nat : DOMAIN chain = 1 .. n
    BY DEF Inv
  <1>2. Mine(chain, a, h) \subseteq 0 .. n
    BY <1>1 DEF Mine
  <1>3. Mine(chain, a, h) # {} => Max(Mine(chain, a, h)) \in Mine(chain, a, h)
    BY <1>2, BoundedMax
  <1>4. KeyOn(chain, a, h) \in {NoKey, k}
    BY <1>3 DEF KeyOn, Mine, Loyal
  <1> QED BY <1>4, KeyAtIsKeyOn

LEMMA LoyalBefore ==
    ASSUME NEW c, NEW h, NEW c2, NEW h2, Extends(c, h, c2, h2),
           NEW a, NEW k, Loyal(c2, a, k)
    PROVE  Loyal(c, a, k)
  BY DEF Extends, Loyal

LEMMA FoldLoyal ==
    ASSUME Inv, NEW s, NEW found, NEW keys,
           Complete(s, chain, head), FoundOK(s, found, chain, head),
           NEW a \in Agents, NEW k \in Keys, Loyal(chain, a, k),
           s.approved[a] \in {NoKey, k},
           \A i \in found \cap Registers : chain[i].agent = a => keys[i] \in {NoKey, k}
    PROVE  LET f == Fold(s, found, keys)
           IN /\ f.approved[a] \in {NoKey, k}
              /\ s.approved[a] = k => f.approved[a] = k
  <1> DEFINE f == Fold(s, found, keys)
             es == Effective(a, found, keys)
  <1>1. ChainOK(chain, head) /\ \E n \in Nat : DOMAIN chain = 1 .. n
    BY DEF Inv
  <1>2. NewEvents(s, found) = found
    BY <1>1, FoldReaches
  <1>3. f.approved[a] = IF es = {} THEN s.approved[a]
                        ELSE IF Max(es) \in Revokes THEN NoKey ELSE keys[Max(es)]
    BY <1>2 DEF Fold, ApprovedAfter
  <1>4. ASSUME es # {} PROVE f.approved[a] = k
    <2>1. PICK n \in Nat : es \subseteq 0 .. n /\ DOMAIN chain = 1 .. n
      BY <1>1 DEF Effective, FoundOK
    <2>2. Max(es) \in es
      <3> HIDE DEF es
      <3> QED BY <1>4, <2>1, BoundedMax
    <2>3. /\ Max(es) \in DOMAIN chain /\ chain[Max(es)].agent = a
          /\ Max(es) \in found
          /\ Max(es) \in Registers => keys[Max(es)] # NoKey
      BY <2>2 DEF Effective, FoundOK
    <2> HIDE DEF es
    <2>4. Max(es) \in Registers /\ Max(es) \notin Revokes
      BY <2>3 DEF Loyal, Registers, Revokes
    <2>5. keys[Max(es)] = k
      BY <2>3, <2>4
    <2> HIDE DEF f
    <2> QED BY <1>3, <1>4, <2>4, <2>5
  <1> HIDE DEF f, es
  <1>5. f.approved[a] \in {NoKey, k} /\ (s.approved[a] = k => f.approved[a] = k)
    BY <1>3, <1>4
  <1> QED BY <1>5 DEF f

LEMMA SwapLoyal ==
    ASSUME LoyalInv, Refreshers = {Starter}, NEW r \in Refreshers, Swap(r),
           NEW a \in Agents, NEW k \in Keys, Loyal(chain, a, k)
    PROVE  /\ cache'.approved[a] \in {NoKey, k}
           /\ cache.approved[a] = k => cache'.approved[a] = k
  <1>0. r = Starter
    OBVIOUS
  <1>1. /\ Inv /\ ShowsOwn(cache, chain) /\ OwnKeys(rd[r], cache, chain)
        /\ rd[r].pc = "keys" /\ Unread(r) = {}
    BY <1>0 DEF LoyalInv, Swap
  <1>2. RefreshOK(rd[r], chain, head)
    BY <1>1 DEF Inv
  <1>3. PICK backfilled \in BOOLEAN :
          cache' = Fold(rd[r].base, rd[r].found,
                        [i \in DOMAIN rd[r].keys |->
                            IF backfilled /\ rd[r].keys[i] = NoKey
                            THEN chain[i].key ELSE rd[r].keys[i]])
    BY DEF Swap
  <1> DEFINE keys == [i \in DOMAIN rd[r].keys |->
                         IF backfilled /\ rd[r].keys[i] = NoKey
                         THEN chain[i].key ELSE rd[r].keys[i]]
  <1>4. ASSUME NEW i \in rd[r].found \cap Registers, chain[i].agent = a
        PROVE  keys[i] \in {NoKey, k}
    <2>1. i \in DOMAIN rd[r].keys /\ i \in DOMAIN chain
      BY <1>1 DEF Unread, Registers
    <2>2. rd[r].keys[i] \in {NoKey, k} /\ chain[i].key = k
      BY <1>1, <1>4, <2>1 DEF OwnKeys, Loyal
    <2> QED BY <2>1, <2>2
  <1>5. cache' = Fold(rd[r].base, rd[r].found, keys)
    BY <1>3
  <1> HIDE DEF keys
  <1>6. rd[r].base = cache /\ cache.approved[a] \in {NoKey, k}
    BY <1>1 DEF OwnKeys, ShowsOwn
  <1>7. Complete(rd[r].base, chain, head) /\ FoundOK(rd[r].base, rd[r].found, chain, head)
    BY <1>2 DEF RefreshOK
  <1> QED BY <1>1, <1>4, <1>5, <1>6, <1>7, FoldLoyal

LEMMA InitLoyal == Init => LoyalInv
  <1> SUFFICES ASSUME Init PROVE LoyalInv
    OBVIOUS
  <1>1. cache = EmptyCache /\ rd[Starter] = Idle
    BY CacheAssumption DEF Init
  <1>2. ShowsOwn(cache, chain)
    BY <1>1 DEF ShowsOwn, EmptyCache
  <1>3. OwnKeys(rd[Starter], cache, chain)
    BY <1>1 DEF OwnKeys, Idle
  <1> QED BY <1>1, <1>2, <1>3, InitInv DEF LoyalInv

\* A step of the refreshing thread that leaves the snapshot and the chain alone.
LEMMA ReadLoyal ==
    ASSUME LoyalInv, Inv', Refreshers = {Starter}, NEW x,
           UNCHANGED <<chain, head, cache, started>>,
           rd' = [rd EXCEPT ![Starter] = x], OwnKeys(x, cache, chain)
    PROVE  LoyalInv'
  <1>1. rd'[Starter] = x
    BY DEF LoyalInv, Inv, RefreshShape
  <1> QED BY <1>1 DEF LoyalInv

LEMMA StepLoyal ==
    ASSUME Refreshers = {Starter}, LoyalInv, [Next]_vars
    PROVE  LoyalInv'
  <1>0. Inv /\ Inv'
    BY StepInv DEF LoyalInv
  <1>1. /\ ChainOK(chain, head) /\ ShowsOwn(cache, chain)
        /\ (~ started => cache = EmptyCache)
        /\ OwnKeys(rd[Starter], cache, chain)
        /\ RefreshOK(rd[Starter], chain, head)
    BY <1>0 DEF Inv, LoyalInv
  <1>2. CASE ChainNext /\ UNCHANGED cacheVars
    <2>1. Extends(chain, head, chain', head')
      BY <1>0, <1>2, ChainStep
    <2>2. \A a \in Agents, k \in Keys : Loyal(chain', a, k) => Loyal(chain, a, k)
      BY <2>1, LoyalBefore
    <2>3. ShowsOwn(cache, chain')
      BY <1>1, <2>2 DEF ShowsOwn
    <2>4. \A i \in DOMAIN chain : i \in DOMAIN chain' /\ chain'[i] = chain[i]
      BY <2>1 DEF Extends
    <2>5. OwnKeys(rd[Starter], cache, chain')
      BY <1>1, <2>2, <2>4 DEF OwnKeys
    <2> QED BY <1>0, <1>1, <1>2, <2>3, <2>5 DEF LoyalInv, cacheVars
  <1>3. ASSUME NEW r \in Refreshers, Refresh(r) PROVE LoyalInv'
    <2>0. r = Starter
      OBVIOUS
    <2>s. rd[Starter] =
            [pc |-> rd[Starter].pc, base |-> rd[Starter].base, since |-> rd[Starter].since,
             upto |-> rd[Starter].upto, found |-> rd[Starter].found, keys |-> rd[Starter].keys]
      BY <1>0, CacheAssumption DEF Inv, RefreshShape
    <2>1. CASE Begin(r)
      <3> DEFINE x == [pc |-> "registers",
                       base |-> IF started THEN cache ELSE EmptyCache,
                       since |-> head, upto |-> 0, found |-> {}, keys |-> <<>>]
      <3>1. x.base = cache /\ x.keys = <<>>
        BY <1>1
      <3>2. /\ rd' = [rd EXCEPT ![Starter] = x]
            /\ UNCHANGED <<chain, head, cache, started>>
        BY <2>0, <2>1 DEF Begin
      <3> HIDE DEF x
      <3>3. OwnKeys(x, cache, chain)
        BY <3>1 DEF OwnKeys
      <3> QED BY <1>0, <3>2, <3>3, ReadLoyal
    <2>2. CASE ReadRegisters(r)
      <3> DEFINE x == [rd[Starter] EXCEPT !.pc = "revokes", !.upto = head]
      <3>1. x.base = rd[Starter].base /\ x.keys = rd[Starter].keys
            /\ rd[Starter].pc # "idle"
        BY <2>0, <2>2, <2>s DEF ReadRegisters
      <3>2. /\ rd' = [rd EXCEPT ![Starter] = x]
            /\ UNCHANGED <<chain, head, cache, started>>
        BY <2>0, <2>2 DEF ReadRegisters
      <3> HIDE DEF x
      <3>3. OwnKeys(x, cache, chain)
        BY <1>1, <3>1 DEF OwnKeys
      <3> QED BY <1>0, <3>2, <3>3, ReadLoyal
    <2>3. CASE ReadRevokes(r)
      <3>1. PICK found : /\ rd' = [rd EXCEPT ![r].pc = "keys", ![r].found = found]
                         /\ rd[r].pc # "idle"
                         /\ UNCHANGED <<chain, head, cache, started>>
        BY <2>3 DEF ReadRevokes
      <3> DEFINE x == [rd[Starter] EXCEPT !.pc = "keys", !.found = found]
      <3>2. x.base = rd[Starter].base /\ x.keys = rd[Starter].keys
            /\ rd[Starter].pc # "idle"
        BY <2>0, <2>s, <3>1
      <3>3. rd' = [rd EXCEPT ![Starter] = x]
        BY <2>0, <3>1
      <3> HIDE DEF x
      <3>4. OwnKeys(x, cache, chain)
        BY <1>1, <3>2 DEF OwnKeys
      <3> QED BY <1>0, <3>1, <3>3, <3>4, ReadLoyal
    <2>4. CASE ReadKey(r)
      <3>1. /\ Min(Unread(r)) \in Unread(r)
            /\ Min(Unread(r)) \in DOMAIN chain
        <4>1. Unread(r) \subseteq DOMAIN chain /\ Unread(r) \subseteq Nat
          BY <1>1 DEF Unread, Registers, ChainOK
        <4>2. Min(Unread(r)) \in Unread(r)
          BY <2>4, <4>1, LeastMin DEF ReadKey
        <4> QED BY <4>1, <4>2
      <3>2. PICK i \in DOMAIN chain : i = Min(Unread(r))
        BY <3>1
      <3> DEFINE keys == [j \in DOMAIN rd[Starter].keys \cup {i} |->
                            IF j = i THEN KeyAt(chain[i].agent, head)
                            ELSE rd[Starter].keys[j]]
                 x == [rd[Starter] EXCEPT !.keys = keys]
      <3>3. /\ rd' = [rd EXCEPT ![Starter] = x]
            /\ UNCHANGED <<chain, head, cache, started>>
            /\ rd[Starter].pc # "idle"
        BY <2>0, <2>4, <3>2 DEF ReadKey
      <3>4. x.base = rd[Starter].base /\ x.keys = keys
        BY <2>s
      <3> HIDE DEF x
      <3>5. DOMAIN keys \subseteq DOMAIN chain
        BY <1>1 DEF OwnKeys
      <3>6. ASSUME NEW a \in Agents, NEW k \in Keys, Loyal(chain, a, k),
                   NEW j \in DOMAIN keys, chain[j].agent = a
            PROVE  keys[j] \in {NoKey, k}
        <4>1. CASE j = i
          <5>1. head \in Int
            BY <1>1 DEF ChainOK
          <5>2. KeyAt(a, head) \in {NoKey, k}
            BY <1>0, <3>6, <5>1, LoyalKeyAt
          <5> QED BY <3>6, <4>1, <5>2
        <4>2. CASE j # i
          BY <1>1, <3>6, <4>2 DEF OwnKeys
        <4> QED BY <4>1, <4>2
      <3> HIDE DEF keys
      <3>7. OwnKeys(x, cache, chain)
        BY <1>1, <3>3, <3>4, <3>5, <3>6 DEF OwnKeys
      <3> QED BY <1>0, <3>3, <3>7, ReadLoyal
    <2>5. CASE ReadSnapshot(r)
      <3> DEFINE found == Sealed(rd[r].base.nextBlock, head)
                 keys == [i \in found \cap Registers |-> chain[i].key]
                 x == [pc |-> "keys", base |-> rd[r].base, since |-> rd[r].since,
                       upto |-> head, found |-> found, keys |-> keys]
      <3>1. rd[r].base = cache
        BY <1>1, <2>0, <2>5 DEF OwnKeys, ReadSnapshot
      <3>2. /\ rd' = [rd EXCEPT ![Starter] = x]
            /\ UNCHANGED <<chain, head, cache, started>>
        BY <2>0, <2>5 DEF ReadSnapshot
      <3>3. x.base = rd[r].base /\ x.keys = keys
        OBVIOUS
      <3> HIDE DEF x
      <3>4. DOMAIN keys \subseteq DOMAIN chain
        BY DEF Registers
      <3>5. \A i \in DOMAIN keys : keys[i] = chain[i].key
        OBVIOUS
      <3> HIDE DEF keys
      <3>6. OwnKeys(x, cache, chain)
        BY <3>1, <3>3, <3>4, <3>5 DEF OwnKeys, Loyal
      <3> QED BY <1>0, <3>2, <3>6, ReadLoyal
    <2>6. CASE Swap(r)
      <3>1. ShowsOwn(cache', chain)
        BY <2>6, SwapLoyal DEF ShowsOwn
      <3>2. started' = TRUE /\ rd' = [rd EXCEPT ![Starter] = Idle]
            /\ UNCHANGED <<chain, head>>
        BY <2>0, <2>6 DEF Swap, chainVars
      <3>3. rd'[Starter] = Idle
        BY <1>0, <3>2 DEF Inv, RefreshShape
      <3>4. OwnKeys(Idle, cache', chain)
        BY DEF OwnKeys, Idle
      <3> QED BY <1>0, <3>1, <3>2, <3>3, <3>4 DEF LoyalInv
    <2>7. CASE ReadFails(r)
      <3>1. /\ rd' = [rd EXCEPT ![Starter] = Idle]
            /\ UNCHANGED <<chain, head, cache, started>>
        BY <2>0, <2>7 DEF ReadFails
      <3>2. OwnKeys(Idle, cache, chain)
        BY DEF OwnKeys, Idle
      <3> QED BY <1>0, <3>1, <3>2, ReadLoyal
    <2> QED BY <1>3, <2>1, <2>2, <2>3, <2>4, <2>5, <2>6, <2>7 DEF Refresh
  <1>4. CASE Crash
    <2>1. /\ cache' = EmptyCache /\ rd'[Starter] = Idle
          /\ UNCHANGED <<chain, head>>
      BY <1>4, CacheAssumption DEF Crash
    <2>2. ShowsOwn(EmptyCache, chain) /\ OwnKeys(Idle, EmptyCache, chain)
      BY DEF ShowsOwn, EmptyCache, OwnKeys, Idle
    <2> QED BY <1>0, <2>1, <2>2 DEF LoyalInv
  <1>5. CASE UNCHANGED vars
    BY <1>0, <1>1, <1>5 DEF vars, LoyalInv
  <1> QED BY <1>2, <1>3, <1>4, <1>5 DEF Next

-----------------------------------------------------------------------------
(* The composition. *)

\* Every step of the composition is a step of the cache or leaves it alone.
LEMMA CacheMoves == [MembershipNext]_allVars => [Next]_vars
  <1> SUFFICES ASSUME [MembershipNext]_allVars PROVE [Next]_vars
    OBVIOUS
  <1>1. CASE ChainMoves
    BY <1>1 DEF ChainMoves, Next
  <1>2. CASE Poll
    BY <1>2 DEF Poll, Next
  <1>3. CASE Restart
    BY <1>3 DEF Restart, Next
  <1>4. CASE Publish \/ DecisionBegins \/ Scan \/ Record \/ UNCHANGED allVars
    BY <1>4 DEF Publish, DecisionBegins, Scan, Record, allVars, registry, vars
  <1> QED BY <1>1, <1>2, <1>3, <1>4 DEF MembershipNext

LEMMA StandingOnChain ==
    ASSUME LastInv, NEW a \in Agents, cache.approved[a] # NoKey
    PROVE  \E h \in floor .. head : KeyAt(a, h) # NoKey
  <1>1. PICK h \in floor .. head : ApprovedAt(chain, a, h)
    BY DEF LastInv, ApprovedSince
  <1>2. h \in 0 .. head
    BY DEF LastInv
  <1> QED BY <1>1, <1>2, ApprovedHasKey DEF LastInv

-----------------------------------------------------------------------------
\* Where the call of inbox() is.
BusOK ==
    /\ \E n \in Nat : DOMAIN published = 1 .. n
    /\ \A i \in DOMAIN published : published[i].sender \in Agents
    /\ \E n \in Nat : DOMAIN judged = 1 .. n
    /\ scan = [to |-> scan.to, filter |-> scan.filter, next |-> scan.next,
               pin |-> scan.pin, key |-> scan.key]
    /\ scan.next \in Nat \ {0} /\ scan.pin \in Nat
    /\ scanPos \in [Junctions -> Nat]
    /\ pc = "judging" => scan.next \in DOMAIN published

HeardInv == LastInv /\ BusOK

LEMMA HeardInit == MembershipInit => HeardInv
  <1>1. ASSUME MembershipInit PROVE BusOK
    <2>1. scan = Bus!NoScan /\ published = <<>> /\ judged = <<>> /\ pc = "idle"
          /\ scanPos \in [Junctions -> Nat]
      BY <1>1 DEF MembershipInit
    <2> QED BY <2>1 DEF BusOK, Bus!NoScan
  <1> QED BY <1>1, InitLast DEF MembershipInit, HeardInv

\* The steps of a call of inbox() that go on with the next message.
LEMMA AdvanceKeeps ==
    ASSUME BusOK, Bus!Advance, UNCHANGED <<published, scanPos>>,
           judged' = judged \/ \E e : judged' = Append(judged, e)
    PROVE  BusOK'
  <1>1. PICK n \in Nat : DOMAIN judged = 1 .. n
    BY DEF BusOK
  <1>2. \E k \in Nat : DOMAIN judged' = 1 .. k
    BY <1>1
  <1>3. /\ pc' = "scanning" /\ scan'.next = scan.next + 1 /\ scan'.pin = scan.pin
        /\ scan' = [to |-> scan'.to, filter |-> scan'.filter, next |-> scan'.next,
                    pin |-> scan'.pin, key |-> scan'.key]
    BY DEF Bus!Advance, BusOK
  <1> QED BY <1>2, <1>3 DEF BusOK
LEMMA HeardStep == HeardInv /\ [MembershipNext]_allVars => HeardInv'
  <1> SUFFICES ASSUME HeardInv, [MembershipNext]_allVars PROVE HeardInv'
    OBVIOUS
  <1>0. BusOK
    BY DEF HeardInv
  <1>c. LastInv'
    BY CacheMoves, StepLast DEF HeardInv
  <1>1. CASE ChainMoves \/ Poll
    BY <1>0, <1>c, <1>1 DEF BusOK, ChainMoves, Poll, bus, HeardInv
  <1>2. CASE Restart
    <2>1. scan' = Bus!NoScan /\ published' = <<>> /\ judged' = <<>> /\ pc' = "idle"
          /\ scanPos' = [j \in Junctions |-> 0]
      BY <1>2 DEF Restart, NewProcess
    <2>2. BusOK'
      BY <2>1 DEF BusOK, Bus!NoScan
    <2> QED BY <1>c, <2>2 DEF HeardInv
  <1>3. BusOK' => HeardInv'
    BY <1>c DEF HeardInv
  <1>4. CASE Publish
    <2>1. PICK a \in Agents, k \in Keys : Bus!Publish(a, k, Len(published) + 1)
      BY <1>4 DEF Publish
    <2> DEFINE m == [sender |-> a, t |-> Len(published) + 1, key |-> k]
    <2>2. published' = Append(published, m) /\ pc = "idle"
          /\ UNCHANGED <<pc, scan, judged, scanPos>>
      BY <2>1 DEF Bus!Publish
    <2>3. m.sender \in Agents
      OBVIOUS
    <2> HIDE DEF m
    <2>4. PICK n \in Nat : DOMAIN published = 1 .. n
      BY <1>0 DEF BusOK
    <2>5. Len(published) = n
      BY <2>1, <2>4 DEF Bus!Publish
    <2>6. DOMAIN published' = 1 .. n + 1 /\ published'[n + 1] = m
          /\ \A i \in DOMAIN published : published'[i] = published[i]
      BY <2>2, <2>4, <2>5
    <2>7. \A i \in DOMAIN published' : published'[i].sender \in Agents
      BY <1>0, <2>3, <2>4, <2>6 DEF BusOK
    <2>8. BusOK'
      BY <1>0, <2>2, <2>6, <2>7 DEF BusOK
    <2> QED BY <1>3, <1>4, <2>8 DEF Publish
  <1>5. CASE DecisionBegins
    <2>1. scan' = [to |-> Recipient, filter |-> 0, next |-> scanPos[Recipient] + 1,
                   pin |-> Len(published), key |-> NoKey]
          /\ pc' = "scanning" /\ UNCHANGED <<published, judged, scanPos, registry>>
      BY <1>5 DEF DecisionBegins, Bus!InboxBegins
    <2>2. scanPos[Recipient] \in Nat /\ Len(published) \in Nat
      BY <1>0 DEF BusOK, Junctions
    <2>3. /\ scan'.next \in Nat \ {0} /\ scan'.pin \in Nat
          /\ scan' = [to |-> scan'.to, filter |-> scan'.filter, next |-> scan'.next,
                      pin |-> scan'.pin, key |-> scan'.key]
      BY <2>1, <2>2
    <2>4. BusOK'
      BY <1>0, <2>1, <2>3 DEF BusOK
    <2> QED BY <1>3, <2>1, <2>4
  <1>6. CASE Scan
    <2>1. Bus!ScanStep /\ UNCHANGED registry
      BY <1>6 DEF Scan
    <2>2. CASE Bus!Skip
      BY <1>0, <1>3, <2>1, <2>2, AdvanceKeeps DEF Bus!Skip
    <2>3. CASE Bus!NotNeighbour
      BY <1>0, <1>3, <2>1, <2>3, AdvanceKeeps DEF Bus!NotNeighbour, Bus!Judge
    <2>4. CASE Bus!RejectSender
      BY <1>0, <1>3, <2>1, <2>4, AdvanceKeeps DEF Bus!RejectSender, Bus!Judge
    <2>5. CASE Bus!RejectSignature
      BY <1>0, <1>3, <2>1, <2>5, AdvanceKeeps DEF Bus!RejectSignature, Bus!Judge
    <2>6. CASE Bus!RejectReplay
      BY <1>0, <1>3, <2>1, <2>6, AdvanceKeeps DEF Bus!RejectReplay, Bus!Judge
    <2>7. CASE Bus!ReadPublicKey
      <3>1. PICK k : scan' = [scan EXCEPT !.key = k]
        BY <2>7 DEF Bus!ReadPublicKey
      <3>2. /\ scan'.next = scan.next /\ scan'.pin = scan.pin
            /\ scan' = [to |-> scan'.to, filter |-> scan'.filter, next |-> scan'.next,
                        pin |-> scan'.pin, key |-> scan'.key]
        BY <1>0, <3>1 DEF BusOK
      <3>3. UNCHANGED <<published, judged, scanPos>> /\ scan.next <= Len(published)
        BY <2>7 DEF Bus!ReadPublicKey, Bus!AtMessage
      <3>4. scan.next \in DOMAIN published
        BY <1>0, <3>3 DEF BusOK
      <3>5. BusOK'
        BY <1>0, <3>2, <3>3, <3>4 DEF BusOK
      <3> QED BY <1>3, <2>1, <3>5
    <2>8. CASE Bus!Deliver
      <3>1. PICK p : /\ scan' = [scan EXCEPT !.next = @ + 1, !.pin = p]
                     /\ p \in {scan.next - 1, scan.pin}
        BY <2>8 DEF Bus!Deliver
      <3>2. /\ scan'.next \in Nat \ {0} /\ scan'.pin \in Nat
            /\ scan' = [to |-> scan'.to, filter |-> scan'.filter, next |-> scan'.next,
                        pin |-> scan'.pin, key |-> scan'.key]
        <4> DEFINE z == [scan EXCEPT !.next = @ + 1]
        <4>1. z = [to |-> scan.to, filter |-> scan.filter, next |-> scan.next + 1,
                   pin |-> scan.pin, key |-> scan.key]
          BY <1>0 DEF BusOK
        <4>2. scan' = [z EXCEPT !.pin = p]
          BY <3>1
        <4> HIDE DEF z
        <4>3. scan' = [to |-> scan.to, filter |-> scan.filter, next |-> scan.next + 1,
                       pin |-> p, key |-> scan.key]
          BY <4>1, <4>2
        <4>4. scan.next + 1 \in Nat \ {0} /\ p \in Nat
          BY <1>0, <3>1 DEF BusOK
        <4> QED BY <4>3, <4>4
      <3>3. UNCHANGED <<published, scanPos>> /\ pc' = "scanning"
            /\ \E e : judged' = Append(judged, e)
        BY <2>8 DEF Bus!Deliver, Bus!Judge
      <3>4. \E n \in Nat : DOMAIN judged' = 1 .. n
        <4>1. PICK e : judged' = Append(judged, e)
          BY <3>3
        <4>2. PICK n \in Nat : DOMAIN judged = 1 .. n
          BY <1>0 DEF BusOK
        <4> QED BY <4>1, <4>2
      <3>5. BusOK'
        BY <1>0, <3>2, <3>3, <3>4 DEF BusOK
      <3> QED BY <1>3, <2>1, <3>5
    <2>9. CASE Bus!InboxReturns
      <3>1. scan' = Bus!NoScan /\ pc' = "idle" /\ UNCHANGED <<published, judged>>
        BY <2>9 DEF Bus!InboxReturns
      <3>2. scanPos' \in [Junctions -> Nat]
        BY <1>0, <2>9 DEF Bus!InboxReturns, BusOK
      <3>3. BusOK'
        BY <1>0, <3>1, <3>2 DEF BusOK, Bus!NoScan
      <3> QED BY <1>3, <2>1, <3>3
    <2> QED BY <2>1, <2>2, <2>3, <2>4, <2>5, <2>6, <2>7, <2>8, <2>9 DEF Bus!ScanStep
  <1>7. CASE Record
    BY <1>0, <1>3, <1>7 DEF Record, BusOK, bus
  <1>8. CASE UNCHANGED allVars
    BY <1>0, <1>3, <1>8 DEF allVars, BusOK, bus
  <1> QED BY <1>1, <1>2, <1>4, <1>5, <1>6, <1>7, <1>8 DEF MembershipNext
-----------------------------------------------------------------------------
\* Every message that is acted on comes from an agent whom the chain approved
\* at the head where the refresh behind the snapshot of the verdict began, or
\* later (inbox() of message_bus.py over RegistryService.is_approved).
THEOREM RevokedNeverHeard == MembershipSpec => RevokedNotHeard
  <1> DEFINE Heard ==
        \A n \in DOMAIN judged' \ DOMAIN judged :
          judged'[n].verdict = "delivered" =>
              \E h \in floor .. head : KeyAt(published[judged'[n].msg].sender, h) # NoKey
  <1>1. HeardInv /\ [MembershipNext]_allVars => [Heard]_allVars
    <2> SUFFICES ASSUME HeardInv, MembershipNext PROVE Heard
      OBVIOUS
    <2>1. CASE Scan
      <3>1. CASE Bus!Deliver
        <4>1. scan.next \in DOMAIN published
          BY <3>1 DEF HeardInv, BusOK, Bus!Deliver
        <4>2. published[scan.next].sender \in Agents
              /\ cache.approved[published[scan.next].sender] # NoKey
          BY <3>1, <4>1 DEF HeardInv, BusOK, Bus!Deliver, Bus!IsMember, Bus!Message
        <4>3. \E h \in floor .. head : KeyAt(published[scan.next].sender, h) # NoKey
          BY <4>2, StandingOnChain DEF HeardInv
        <4>4. PICK e : judged' = Append(judged, e) /\ e.msg = scan.next
          BY <3>1 DEF Bus!Deliver, Bus!Judge
        <4>5. \A n \in DOMAIN judged' \ DOMAIN judged : judged'[n] = e
          BY <4>4 DEF HeardInv, BusOK
        <4> QED BY <4>3, <4>4, <4>5
      <3>2. CASE ~Bus!Deliver
        <4>1. judged' = judged
              \/ \E e : judged' = Append(judged, e) /\ e.verdict # "delivered"
          <5>1. \/ Bus!Skip \/ Bus!ReadPublicKey \/ Bus!InboxReturns
                \/ Bus!NotNeighbour \/ Bus!RejectSender
                \/ Bus!RejectSignature \/ Bus!RejectReplay
            BY <2>1, <3>2 DEF Scan, Bus!ScanStep
          <5>2. Bus!Skip \/ Bus!ReadPublicKey \/ Bus!InboxReturns => judged' = judged
            BY DEF Bus!Skip, Bus!ReadPublicKey, Bus!InboxReturns
          <5>3. ASSUME NEW v, Bus!Judge(v), v # "delivered"
                PROVE  \E e : judged' = Append(judged, e) /\ e.verdict # "delivered"
            BY <5>3 DEF Bus!Judge
          <5>4. Bus!NotNeighbour => Bus!Judge("not_neighbour")
            BY DEF Bus!NotNeighbour
          <5>5. Bus!RejectSender => Bus!Judge("revoked") \/ Bus!Judge("unknown_sender")
            BY DEF Bus!RejectSender
          <5>6. Bus!RejectSignature => Bus!Judge("bad_signature")
            BY DEF Bus!RejectSignature
          <5>7. Bus!RejectReplay => Bus!Judge("replay")
            BY DEF Bus!RejectReplay
          <5> QED BY <5>1, <5>2, <5>3, <5>4, <5>5, <5>6, <5>7
        <4>2. \A n \in DOMAIN judged' \ DOMAIN judged : judged'[n].verdict # "delivered"
          BY <4>1 DEF HeardInv, BusOK
        <4> QED BY <4>2
      <3> QED BY <3>1, <3>2
    <2>2. CASE ~Scan
      <3>1. judged' = judged \/ judged' = <<>>
        <4>1. ChainMoves \/ Poll \/ Record => judged' = judged
          BY DEF ChainMoves, Poll, Record, bus
        <4>2. Restart => judged' = <<>>
          BY DEF Restart, NewProcess
        <4>3. Publish \/ DecisionBegins => judged' = judged
          BY DEF Publish, DecisionBegins, Bus!Publish, Bus!InboxBegins
        <4> QED BY <2>2, <4>1, <4>2, <4>3 DEF MembershipNext
      <3>2. DOMAIN judged' \ DOMAIN judged = {}
        BY <3>1
      <3> QED BY <3>2
    <2> QED BY <2>1, <2>2
  <1>2. MembershipSpec => [][Heard]_allVars
    BY <1>1, HeardInit, HeardStep, PTL DEF MembershipSpec
  <1> QED BY <1>2, Zenon DEF RevokedNotHeard
-----------------------------------------------------------------------------
\* An agent that only ever registered one key.  The cache shows that key or
\* none (LoyalInv), and none no more once a message of
\* the agent has been delivered.

\* A message of agent a has been delivered.
Heard(a) ==
    \E n \in DOMAIN judged : judged[n].verdict = "delivered"
                               /\ published[judged[n].msg].sender = a

\* What the bus and the log refer to.
RefersOK ==
    /\ pc # "idle" => scan.to = Recipient
    /\ \A n \in DOMAIN judged : judged[n].msg \in DOMAIN published
    /\ \A m \in consumed : m \in DOMAIN published /\ Heard(published[m].sender)
    /\ \A r \in records : r[1] \in DOMAIN published

StaysHeard(a, k) ==
    /\ Heard(a) => cache.approved[a] = k
    /\ pc = "judging" /\ published[scan.next].sender = a /\ Heard(a) => scan.key = k
    /\ \A n \in DOMAIN judged :
          LET m == published[judged[n].msg]
          IN m.sender = a /\ m.key = k /\ HeardBefore(n, a) =>
                judged[n].verdict \in {"delivered", "replay"}
    /\ \A r \in records : published[r[1]].sender = a => r[2] = k

SteadyInv ==
    /\ HeardInv
    /\ LoyalInv
    /\ RefersOK
    /\ \A a \in Agents, k \in Keys : Loyal(chain, a, k) => StaysHeard(a, k)

LEMMA PollKeeps ==
    ASSUME LoyalInv, Refreshers = {Starter}, NEW r \in Refreshers, Refresh(r),
           NEW a \in Agents, NEW k \in Keys, Loyal(chain, a, k), cache.approved[a] = k
    PROVE  cache'.approved[a] = k
  <1>1. CASE Swap(r)
    BY <1>1, SwapLoyal
  <1>2. CASE ~ Swap(r)
    BY <1>2 DEF Refresh, Begin, ReadRegisters, ReadRevokes, ReadKey, ReadSnapshot, ReadFails
  <1> QED BY <1>1, <1>2

LEMMA SteadyInit == MembershipInit => SteadyInv
  <1> SUFFICES ASSUME MembershipInit PROVE SteadyInv
    OBVIOUS
  <1>1. LoyalInv
    BY InitLoyal DEF MembershipInit
  <1>2. pc = "idle" /\ judged = <<>> /\ consumed = {} /\ records = {}
    BY DEF MembershipInit
  <1>3. RefersOK
    BY <1>2 DEF RefersOK
  <1>4. \A a \in Agents, k \in Keys : StaysHeard(a, k)
    BY <1>2 DEF StaysHeard, Heard
  <1> QED BY <1>1, <1>3, <1>4, HeardInit DEF SteadyInv

\* The chain never takes an event back.
LEMMA ChainLoyal ==
    ASSUME Inv, ChainNext \/ UNCHANGED chain,
           NEW a \in Agents, NEW k \in Keys, Loyal(chain', a, k)
    PROVE  Loyal(chain, a, k)
  <1>1. CASE ChainNext
    <2>1. Extends(chain, head, chain', head')
      BY <1>1, ChainStep
    <2> QED BY <2>1, LoyalBefore
  <1>2. CASE UNCHANGED chain
    BY <1>2
  <1> QED BY <1>1, <1>2

\* A verdict on the next message, of the kinds that a loyal agent may get.
LEMMA VerdictKeeps ==
    ASSUME SteadyInv, HeardInv', LoyalInv', UNCHANGED <<registry, published, records>>,
           scan.next \in DOMAIN published, pc # "idle",
           NEW e, judged' = Append(judged, e), e.msg = scan.next,
           pc' = "scanning", scan'.to = scan.to,
           \A a \in Agents, k \in Keys :
              Loyal(chain, a, k) /\ published[scan.next].sender = a /\ Heard(a)
              /\ published[scan.next].key = k
              => e.verdict \in {"delivered", "replay"},
           e.verdict = "delivered" =>
              \A a \in Agents, k \in Keys :
                 Loyal(chain, a, k) /\ published[scan.next].sender = a => cache.approved[a] = k,
           \A m \in consumed' :
              \/ m \in consumed
              \/ /\ e.verdict = "delivered" /\ m \in DOMAIN published
                 /\ published[m].sender = published[scan.next].sender
    PROVE  SteadyInv'
  <1>1. PICK n \in Nat : DOMAIN judged = 1 .. n
    BY DEF SteadyInv, HeardInv, BusOK
  <1>2. /\ DOMAIN judged' = 1 .. n + 1 /\ judged'[n + 1] = e
        /\ \A i \in DOMAIN judged : i \in DOMAIN judged' /\ judged'[i] = judged[i]
        /\ \A i \in DOMAIN judged' : i \in DOMAIN judged \/ i = n + 1
    BY <1>1
  <1>3. \A a : Heard(a)' <=> Heard(a) \/ (e.verdict = "delivered"
                                          /\ published[scan.next].sender = a)
    BY <1>2 DEF Heard
  <1>4. RefersOK'
    <2>1. \A i \in DOMAIN judged' : judged'[i].msg \in DOMAIN published'
      BY <1>2 DEF SteadyInv, RefersOK
    <2>2. ASSUME NEW m \in consumed'
          PROVE  m \in DOMAIN published' /\ Heard(published[m].sender)'
      BY <1>3 DEF SteadyInv, RefersOK
    <2> QED BY <2>1, <2>2 DEF SteadyInv, RefersOK
  <1>5. ASSUME NEW a \in Agents, NEW k \in Keys, Loyal(chain', a, k) PROVE StaysHeard(a, k)'
    <2>1. Loyal(chain, a, k)
      BY <1>5 DEF Loyal, registry, vars
    <2>2. StaysHeard(a, k)
      BY <2>1 DEF SteadyInv
    <2>3. Heard(a)' => cache'.approved[a] = k
      BY <1>3, <2>1, <2>2 DEF StaysHeard, registry, vars
    <2>4. ASSUME NEW i \in DOMAIN judged', published'[judged'[i].msg].sender = a,
                 published'[judged'[i].msg].key = k, HeardBefore(i, a)'
          PROVE  judged'[i].verdict \in {"delivered", "replay"}
      <3>1. PICK m \in 1 .. i - 1 : judged'[m].verdict = "delivered"
                                     /\ published[judged'[m].msg].sender = a
        BY <2>4 DEF HeardBefore
      <3>2. m \in DOMAIN judged /\ judged'[m] = judged[m]
        BY <1>1, <1>2
      <3>3. CASE i \in DOMAIN judged
        <4>1. HeardBefore(i, a)
          BY <3>1, <3>2 DEF HeardBefore
        <4> QED BY <1>2, <2>2, <2>4, <3>3, <4>1 DEF StaysHeard
      <3>4. CASE i = n + 1
        <4>1. Heard(a)
          BY <3>1, <3>2 DEF Heard
        <4> QED BY <1>2, <2>1, <2>4, <3>4, <4>1
      <3> QED BY <1>2, <3>3, <3>4
    <2>5. \A r \in records' : published'[r[1]].sender = a => r[2] = k
      BY <2>2 DEF StaysHeard
    <2> QED BY <2>3, <2>4, <2>5 DEF StaysHeard
  <1> QED BY <1>4, <1>5 DEF SteadyInv

\* No verdict: the call goes on, or ends.
LEMMA NoVerdictKeeps ==
    ASSUME SteadyInv, HeardInv', LoyalInv',
           UNCHANGED <<chain, cache, published, judged, consumed, records>>,
           pc' # "idle" => scan'.to = Recipient,
           pc' = "judging" => scan'.key = cache.approved[published[scan'.next].sender]
    PROVE  SteadyInv'
  <1>1. \A a : Heard(a)' <=> Heard(a)
    BY DEF Heard
  <1>2. RefersOK'
    BY <1>1 DEF SteadyInv, RefersOK, Heard
  <1>3. ASSUME NEW a \in Agents, NEW k \in Keys, Loyal(chain', a, k) PROVE StaysHeard(a, k)'
    <2>1. Loyal(chain, a, k)
      BY <1>3 DEF Loyal
    <2>2. StaysHeard(a, k)
      BY <2>1 DEF SteadyInv
    <2>3. Heard(a)' => cache'.approved[a] = k
      BY <1>1, <2>2 DEF StaysHeard
    <2> QED BY <2>2, <2>3 DEF StaysHeard, HeardBefore
  <1> QED BY <1>2, <1>3 DEF SteadyInv

LEMMA SteadyStep ==
    ASSUME Refreshers = {Starter}, SteadyInv, [MembershipNext]_allVars
    PROVE  SteadyInv'
  <1>0. /\ HeardInv /\ HeardInv' /\ BusOK /\ LoyalInv /\ RefersOK
        /\ \A a \in Agents, k \in Keys : Loyal(chain, a, k) => StaysHeard(a, k)
    BY HeardStep DEF SteadyInv, HeardInv
  <1>c. LoyalInv' /\ Inv
    BY <1>0, CacheMoves, StepLoyal DEF LoyalInv
  <1>1. CASE ChainMoves \/ Poll
    <2>1. UNCHANGED <<published, pc, scan, judged, consumed, records>>
      BY <1>1 DEF ChainMoves, Poll, bus, trail
    <2>2. \A a : Heard(a)' <=> Heard(a)
      BY <2>1 DEF Heard
    <2>3. RefersOK'
      BY <1>0, <2>1, <2>2 DEF RefersOK
    <2>4. ASSUME NEW a \in Agents, NEW k \in Keys, Loyal(chain', a, k) PROVE StaysHeard(a, k)'
      <3>1. UNCHANGED chain \/ ChainNext
        BY <1>1 DEF ChainMoves, Poll, Refresh, Begin, ReadRegisters,
                    ReadRevokes, ReadKey, ReadSnapshot, Swap,
                    ReadFails, chainVars
      <3>2. Loyal(chain, a, k) /\ StaysHeard(a, k)
        BY <1>0, <1>c, <2>4, <3>1, ChainLoyal
      <3>3. Heard(a)' => cache'.approved[a] = k
        <4>1. CASE ChainMoves
          BY <2>2, <3>2, <4>1 DEF ChainMoves, StaysHeard, cacheVars
        <4>2. CASE Poll
          <5>1. PICK r \in Refreshers : Refresh(r)
            BY <4>2 DEF Poll
          <5>2. cache.approved[a] = k => cache'.approved[a] = k
            BY <1>0, <3>2, <5>1, PollKeeps
          <5> QED BY <2>2, <3>2, <5>2 DEF StaysHeard
        <4> QED BY <1>1, <4>1, <4>2
      <3> QED BY <2>1, <2>2, <3>2, <3>3 DEF StaysHeard, HeardBefore
    <2> QED BY <1>0, <1>c, <2>3, <2>4 DEF SteadyInv
  <1>2. CASE Restart
    <2>1. pc' = "idle" /\ judged' = <<>> /\ consumed' = {} /\ records' = {}
      BY <1>2 DEF Restart, NewProcess
    <2>2. RefersOK'
      BY <2>1 DEF RefersOK
    <2>3. \A a \in Agents, k \in Keys : StaysHeard(a, k)'
      BY <2>1 DEF StaysHeard, Heard
    <2> QED BY <1>0, <1>c, <2>2, <2>3 DEF SteadyInv
  <1>3. CASE Publish
    <2>1. /\ UNCHANGED <<registry, pc, scan, judged, consumed, records>> /\ pc = "idle"
          /\ \E e : published' = Append(published, e)
      BY <1>3 DEF Publish, Bus!Publish, trail
    <2>2. PICK n \in Nat : DOMAIN published = 1 .. n
      BY <1>0 DEF BusOK
    <2>3. \A i \in DOMAIN published : i \in DOMAIN published' /\ published'[i] = published[i]
      BY <2>1, <2>2
    <2>4. \A a : Heard(a)' <=> Heard(a)
      BY <1>0, <2>1, <2>3 DEF Heard, RefersOK
    <2>5. RefersOK'
      BY <1>0, <2>1, <2>3, <2>4 DEF RefersOK
    <2>6. ASSUME NEW a \in Agents, NEW k \in Keys, Loyal(chain', a, k) PROVE StaysHeard(a, k)'
      <3>1. StaysHeard(a, k)
        BY <1>0, <2>1, <2>6 DEF Loyal, registry, vars
      <3>2. Heard(a)' => cache'.approved[a] = k
        BY <2>1, <2>4, <3>1 DEF StaysHeard, registry, vars
      <3>3. \A i \in DOMAIN judged : published'[judged[i].msg] = published[judged[i].msg]
        BY <1>0, <2>3 DEF RefersOK
      <3>4. ASSUME NEW i \in DOMAIN judged, HeardBefore(i, a)' PROVE HeardBefore(i, a)
        <4>1. PICK l \in Nat : DOMAIN judged = 1 .. l
          BY <1>0 DEF BusOK
        <4>2. PICK m \in 1 .. i - 1 : judged[m].verdict = "delivered"
                                       /\ published'[judged[m].msg].sender = a
          BY <2>1, <3>4 DEF HeardBefore
        <4>3. m \in DOMAIN judged
          BY <4>1
        <4> QED BY <3>3, <4>2, <4>3 DEF HeardBefore
      <3>5. \A r \in records : published'[r[1]] = published[r[1]]
        BY <1>0, <2>3 DEF RefersOK
      <3> QED BY <2>1, <3>1, <3>2, <3>3, <3>4, <3>5 DEF StaysHeard
    <2> QED BY <1>0, <1>c, <2>5, <2>6 DEF SteadyInv
  <1>4. CASE DecisionBegins
    <2>1. scan' = [to |-> Recipient, filter |-> 0, next |-> scanPos[Recipient] + 1,
                   pin |-> Len(published), key |-> NoKey]
          /\ pc' = "scanning" /\ UNCHANGED <<published, judged, consumed, records, registry>>
      BY <1>4 DEF DecisionBegins, Bus!InboxBegins, trail
    <2> QED BY <1>0, <2>1, <1>c, NoVerdictKeeps DEF registry, vars
  <1>5. CASE Scan
    <2>1. /\ Bus!ScanStep /\ UNCHANGED <<registry, records>>
          /\ consumed' = consumed \cup {m \in DOMAIN published :
                <<Recipient, published[m].sender, published[m].t>> \in delivered' \ delivered}
      BY <1>5 DEF Scan
    <2>2. pc # "idle" => scan.to = Recipient
      BY <1>0 DEF RefersOK
    <2>3. UNCHANGED delivered => consumed' = consumed
      BY <2>1
    <2>4. ASSUME Bus!Advance PROVE pc' = "scanning" /\ scan'.to = scan.to
      BY <1>0, <2>4 DEF Bus!Advance, BusOK
    <2>5. pc = "scanning" /\ scan.next <= Len(published) => scan.next \in DOMAIN published
      BY <1>0 DEF BusOK
    <2>6. ASSUME NEW v, Bus!Judge(v)
          PROVE  \E e : judged' = Append(judged, e) /\ e.msg = scan.next /\ e.verdict = v
      BY <2>6 DEF Bus!Judge
    <2>7. ASSUME NEW v, v # "delivered", Bus!Judge(v), Bus!Advance, UNCHANGED <<published, delivered>>,
                 scan.next \in DOMAIN published, pc # "idle",
                 \A a \in Agents, k \in Keys :
                    Loyal(chain, a, k) /\ published[scan.next].sender = a /\ Heard(a)
                    /\ published[scan.next].key = k
                    => v = "replay"
          PROVE  SteadyInv'
      <3>1. PICK e : judged' = Append(judged, e) /\ e.msg = scan.next /\ e.verdict = v
        BY <2>6, <2>7
      <3> QED BY <1>0, <2>1, <1>c, <2>3, <2>4, <2>7, <3>1, VerdictKeeps
    <2>8. CASE Bus!Skip
      <3>1. Bus!Advance /\ UNCHANGED <<published, delivered, judged>> /\ pc # "idle"
        BY <2>8 DEF Bus!Skip, Bus!AtMessage
      <3> QED BY <1>0, <2>1, <1>c, <2>2, <2>3, <2>4, <3>1, NoVerdictKeeps DEF registry, vars
    <2>9. CASE Bus!NotNeighbour
      <3>1. /\ Bus!Judge("not_neighbour") /\ Bus!Advance /\ UNCHANGED <<published, delivered>>
            /\ scan.next \in DOMAIN published /\ pc # "idle"
        BY <2>5, <2>9 DEF Bus!NotNeighbour, Bus!AtMessage
      <3>2. published[scan.next].sender \in Agents
        BY <1>0, <3>1 DEF BusOK
      <3>3. FALSE
        BY <2>2, <2>9, <3>1, <3>2 DEF Bus!NotNeighbour, Bus!Message, Junctions
      <3> QED BY <3>3
    <2>10. CASE Bus!ReadPublicKey
      <3>1. /\ scan' = [scan EXCEPT !.key = cache.approved[published[scan.next].sender]]
            /\ pc' = "judging" /\ pc # "idle"
            /\ UNCHANGED <<published, delivered, judged>>
        BY <2>10 DEF Bus!ReadPublicKey, Bus!Message, Bus!AtMessage
      <3>2. /\ scan'.to = scan.to /\ scan'.next = scan.next
            /\ scan'.key = cache.approved[published[scan.next].sender]
        BY <1>0, <3>1 DEF BusOK
      <3> QED BY <1>0, <2>1, <1>c, <2>2, <2>3, <3>1, <3>2, NoVerdictKeeps DEF registry, vars
    <2>11. ASSUME pc = "judging", NEW a \in Agents, NEW k \in Keys, Loyal(chain, a, k),
                  published[scan.next].sender = a, Heard(a)
           PROVE  Bus!IsMember /\ scan.key = k
      <3>1. cache.approved[a] = k /\ scan.key = k
        BY <1>0, <2>11 DEF StaysHeard
      <3> QED BY <2>11, <3>1, ChainAssumption DEF Bus!IsMember, Bus!Message
    <2>12. pc = "judging" => scan.next \in DOMAIN published /\ pc # "idle"
      BY <1>0 DEF BusOK
    <2>13. CASE Bus!RejectSender
      <3>1. PICK v \in {"revoked", "unknown_sender"} : Bus!Judge(v)
        BY <2>13 DEF Bus!RejectSender
      <3>2. /\ pc = "judging" /\ ~ Bus!IsMember /\ Bus!Advance
            /\ UNCHANGED <<published, delivered>>
        BY <2>13 DEF Bus!RejectSender
      <3> QED BY <2>7, <2>11, <2>12, <3>1, <3>2
    <2>14. CASE Bus!RejectSignature
      <3>1. /\ pc = "judging" /\ ~ Bus!IsSigned /\ Bus!Advance
            /\ Bus!Judge("bad_signature") /\ UNCHANGED <<published, delivered>>
        BY <2>14 DEF Bus!RejectSignature
      <3>2. published[scan.next].key # scan.key
        BY <3>1 DEF Bus!IsSigned, Bus!Message
      <3> QED BY <2>7, <2>11, <2>12, <3>1, <3>2
    <2>15. CASE Bus!RejectReplay
      <3>1. /\ pc = "judging" /\ Bus!Advance
            /\ Bus!Judge("replay") /\ UNCHANGED <<published, delivered>>
        BY <2>15 DEF Bus!RejectReplay
      <3> QED BY <2>7, <2>12, <3>1
    <2>16. CASE Bus!Deliver
      <3>1. /\ pc = "judging" /\ Bus!IsMember /\ pc' = "scanning"
            /\ Bus!Judge("delivered") /\ UNCHANGED published
            /\ delivered' = delivered \cup
                  {<<scan.to, published[scan.next].sender, published[scan.next].t>>}
        BY <2>16 DEF Bus!Deliver, Bus!Token, Bus!Message
      <3>2. scan'.to = scan.to
        <4>1. PICK p : scan' = [scan EXCEPT !.next = @ + 1, !.pin = p]
          BY <2>16 DEF Bus!Deliver
        <4> DEFINE z == [scan EXCEPT !.next = @ + 1]
        <4>2. z = [to |-> scan.to, filter |-> scan.filter, next |-> scan.next + 1,
                   pin |-> scan.pin, key |-> scan.key]
          BY <1>0 DEF BusOK
        <4>3. scan' = [z EXCEPT !.pin = p]
          BY <4>1
        <4> HIDE DEF z
        <4> QED BY <4>2, <4>3
      <3>3. PICK e : judged' = Append(judged, e) /\ e.msg = scan.next /\ e.verdict = "delivered"
        BY <2>6, <3>1
      <3>4. ASSUME NEW a \in Agents, NEW k \in Keys, Loyal(chain, a, k), published[scan.next].sender = a
            PROVE  cache.approved[a] = k
        <4>1. cache.approved[a] # NoKey
          BY <3>1, <3>4 DEF Bus!IsMember, Bus!Message
        <4>2. cache.approved[a] \in {NoKey, k}
          BY <1>0, <3>4 DEF LoyalInv, ShowsOwn, Loyal
        <4> QED BY <4>1, <4>2
      <3>5. \A m \in consumed' :
              \/ m \in consumed
              \/ /\ m \in DOMAIN published
                 /\ published[m].sender = published[scan.next].sender
        BY <2>1, <3>1
      <3> QED BY <1>0, <2>1, <1>c, <2>12, <3>1, <3>2, <3>3, <3>4, <3>5, VerdictKeeps
    <2>17. CASE Bus!InboxReturns
      <3>1. pc' = "idle" /\ UNCHANGED <<published, delivered, judged>>
        BY <2>17 DEF Bus!InboxReturns
      <3> QED BY <1>0, <2>1, <1>c, <2>3, <3>1, NoVerdictKeeps DEF registry, vars
    <2> QED BY <2>1, <2>8, <2>9, <2>10, <2>13, <2>14, <2>15, <2>16, <2>17 DEF Bus!ScanStep
  <1>6. CASE Record
    <2>1. PICK m : m = Min(consumed)
      OBVIOUS
    <2>2. /\ pc = "idle" /\ consumed # {} /\ UNCHANGED <<registry, published, pc, scan, judged>>
          /\ records' = records \cup {<<m, cache.approved[published[m].sender]>>}
          /\ consumed' = consumed \ {m}
      BY <1>6, <2>1 DEF Record, bus
    <2>3. m \in consumed
      <3>1. consumed \subseteq Nat
        BY <1>0 DEF RefersOK, BusOK
      <3> QED BY <2>1, <2>2, <3>1, LeastMin
    <2>4. \A a : Heard(a)' <=> Heard(a)
      BY <2>2 DEF Heard
    <2>5. RefersOK'
      <3>1. \A r \in records' : r[1] \in DOMAIN published
        BY <1>0, <2>2, <2>3 DEF RefersOK
      <3> QED BY <1>0, <2>2, <2>4, <3>1 DEF RefersOK
    <2>6. ASSUME NEW a \in Agents, NEW k \in Keys, Loyal(chain', a, k) PROVE StaysHeard(a, k)'
      <3>1. StaysHeard(a, k)
        BY <1>0, <2>2, <2>6 DEF Loyal, registry, vars
      <3>2. \A r \in records' : published[r[1]].sender = a => r[2] = k
        <4>1. Heard(published[m].sender)
          BY <1>0, <2>3 DEF RefersOK
        <4>2. published[m].sender = a => cache.approved[published[m].sender] = k
          BY <3>1, <4>1 DEF StaysHeard
        <4> QED BY <2>2, <3>1, <4>2 DEF StaysHeard
      <3>3. Heard(a)' => cache'.approved[a] = k
        BY <2>2, <2>4, <3>1 DEF StaysHeard, registry, vars
      <3> QED BY <2>2, <3>1, <3>2, <3>3 DEF StaysHeard, HeardBefore
    <2> QED BY <1>0, <1>c, <2>5, <2>6 DEF SteadyInv
  <1>7. CASE UNCHANGED allVars
    <2>1. UNCHANGED <<chain, cache, published, pc, scan, judged, consumed, records>>
      BY <1>7 DEF allVars, registry, vars, bus, trail
    <2>2. \A a : Heard(a)' <=> Heard(a)
      BY <2>1 DEF Heard
    <2>3. RefersOK'
      BY <1>0, <2>1, <2>2 DEF RefersOK
    <2>4. ASSUME NEW a \in Agents, NEW k \in Keys, Loyal(chain', a, k) PROVE StaysHeard(a, k)'
      <3>1. StaysHeard(a, k)
        BY <1>0, <2>1, <2>4 DEF Loyal
      <3> QED BY <2>1, <2>2, <3>1 DEF StaysHeard, HeardBefore
    <2> QED BY <1>0, <1>c, <2>3, <2>4 DEF SteadyInv
  <1> QED BY <1>1, <1>2, <1>3, <1>4, <1>5, <1>6, <1>7 DEF MembershipNext

-----------------------------------------------------------------------------
\* An agent that keeps its key and was heard once stays heard, and the key put on
\* record of its messages is the one that verifies them: for any number of
\* agents, events, messages and verdicts, polls that fail or that the chain
\* outruns (inbox() of message_bus.py, log_messages() of audit_records.py, over
\* a RegistryService that one thread refreshes).
THEOREM SteadyTheorem ==
    ASSUME Refreshers = {Starter}
    PROVE  MembershipSpec => []SteadySenderHeard
  <1>1. SteadyInv => SteadySenderHeard
    <2> SUFFICES ASSUME SteadyInv, NEW a \in Agents, NEW k \in Keys, Steady(a, k)
                 PROVE  StaysHeard(a, k)
      BY DEF SteadySenderHeard, StaysHeard
    <2>1. Loyal(chain, a, k)
      BY DEF Steady, Loyal
    <2> QED BY <2>1 DEF SteadyInv
  <1>2. SteadyInv /\ [MembershipNext]_allVars => SteadyInv'
    BY SteadyStep
  <1>3. MembershipSpec => []SteadyInv
    BY <1>2, SteadyInit, PTL DEF MembershipSpec
  <1> QED BY <1>1, <1>3, PTL
=============================================================================
