------------------------- MODULE MessageBus_proofs --------------------------
(***************************************************************************)
(* The bus acts on a report at most once and its cursor misses none, for   *)
(* every adjacency, any keys, ticks and kinds of calls, and a registry     *)
(* that may change in the middle of one.                                   *)
(***************************************************************************)
EXTENDS MessageBus, FiniteSetTheorems, TLAPS

\* What judging a message may do: the shape shared by all six verdicts.
Judges(verdict) ==
    /\ pc \in {"scanning", "judging"} /\ scan.next <= Len(published)
    /\ Judge(verdict)
    /\ pc' = "scanning"
    /\ scan' \in [to : {scan.to}, filter : {scan.filter}, next : {scan.next + 1},
                  pin : {scan.pin, scan.next - 1}, key : {scan.key}]
    /\ UNCHANGED <<approved, log, published, scanPos>>

\* Why the message is turned down.
Dismissed ==
    \/ Message.sender \notin Neighbours[scan.to]
    \/ pc = "judging" /\ approved[Message.sender] = None
    \/ pc = "judging" /\ scan.key # Message.key
    \/ Token(Message) \in delivered

Rejects(reason) ==
    /\ Judges(reason) /\ RejectOnce(reason)
    /\ Dismissed
    /\ scan'.pin = scan.pin
    /\ delivered' = delivered

Delivers ==
    /\ Judges("delivered")
    /\ pc = "judging" /\ scan.key = Message.key /\ approved[Message.sender] # None
    /\ scan'.pin = IF scan.filter = 0 /\ scan.pin = Len(published)
                   THEN scan.next - 1 ELSE scan.pin
    /\ Token(Message) \notin delivered
    /\ delivered' = delivered \cup {Token(Message)}
    /\ UNCHANGED <<rejected, logged>>

\* Every step is one of seven kinds.
RegistryStep ==
    /\ approved' \in [Junctions -> Keys \cup {None}]
    /\ \E e \in [action : {"register", "revoke"}, junction : Junctions] :
          /\ log' = Append(log, e)
          /\ \/ e.action = "register"
             \/ \A j \in Junctions : approved'[j] \in {approved[j], None}
    /\ UNCHANGED <<published, delivered, rejected, logged, scanPos, pc, scan, judged>>

PublishStep ==
    /\ pc = "idle"
    /\ \E m \in [sender : Junctions, t : Ticks, key : Keys] :
          published' = Append(published, m)
    /\ UNCHANGED <<approved, log, delivered, rejected, logged, scanPos, pc, scan, judged>>

\* The cursor of a scan moves, over no message or one of another tick.
QuietStep ==
    /\ pc = "scanning" /\ scan.next <= Len(published)
    /\ \/ /\ scan.filter # 0
          /\ pc' = "scanning"
          /\ scan' = [to |-> scan.to, filter |-> scan.filter, next |-> scan.next + 1,
                      pin |-> scan.pin, key |-> scan.key]
       \/ /\ pc' = "judging" /\ Message.sender \in Neighbours[scan.to]
          /\ approved[Message.sender] \in Keys \cup {None}
          /\ scan' = [to |-> scan.to, filter |-> scan.filter, next |-> scan.next,
                      pin |-> scan.pin, key |-> approved[Message.sender]]
    /\ UNCHANGED <<approved, log, published, delivered, rejected, logged, scanPos, judged>>

BeginStep == \E r \in Junctions, f \in Filters : InboxBegins(r, f)

\* What the library's sequences do.
LEMMA ElementInSet ==
    ASSUME NEW S, NEW s \in Seq(S), NEW i \in 1 .. Len(s)
    PROVE  s[i] \in S
OBVIOUS

LEMMA SeqWidens ==
    ASSUME NEW S, NEW T, S \subseteq T, NEW s \in Seq(S)
    PROVE  s \in Seq(T)
<1>1. \A i \in 1 .. Len(s) : s[i] \in T
    BY ElementInSet
<1>2. s = [i \in 1 .. Len(s) |-> s[i]] /\ Len(s) \in Nat
    OBVIOUS
<1> QED
    BY <1>1, <1>2

LEMMA MessageTyped ==
    ASSUME TypeOK, NEW i \in Nat \ {0}, i <= Len(published)
    PROVE  published[i] \in [sender : Junctions, t : Ticks, key : Keys]
<1> DEFINE M == [sender : Junctions, t : Ticks, key : Keys]
<1>1. published \in Seq(M) /\ i \in 1 .. Len(published)
    BY DEF TypeOK
<1> HIDE DEF M
<1>2. published[i] \in M
    BY <1>1, ElementInSet
<1> QED
    BY <1>2 DEF M

Reasons == Permanent \cup {"replay"}

LEMMA Kinds ==
    ASSUME TypeOK, [Next]_vars
    PROVE  \/ RegistryStep \/ PublishStep \/ QuietStep \/ BeginStep
           \/ (\E reason \in Reasons : Rejects(reason)) \/ Delivers \/ InboxReturns
           \/ UNCHANGED vars
<1> USE BusAssumption
<1> SUFFICES ASSUME Next
             PROVE  \/ RegistryStep \/ PublishStep \/ QuietStep \/ BeginStep
                    \/ (\E reason \in Reasons : Rejects(reason)) \/ Delivers \/ InboxReturns
    OBVIOUS
<1>s. scan \in [to : Junctions \cup {None}, filter : Filters \cup {0}, next : Nat \ {0},
                pin : Nat, key : Keys \cup {None}]
    BY DEF TypeOK
<1>t. ASSUME pc \in {"scanning", "judging"}
      PROVE  /\ [scan EXCEPT !.next = @ + 1] \in
                    [to : {scan.to}, filter : {scan.filter}, next : {scan.next + 1},
                     pin : {scan.pin, scan.next - 1}, key : {scan.key}]
             /\ [scan EXCEPT !.next = @ + 1].pin = scan.pin
    BY <1>s
<1>j. pc = "judging" => scan.next <= Len(published)
    BY DEF TypeOK
<1>m. scan.next <= Len(published) =>
          Message \in [sender : Junctions, t : Ticks, key : Keys]
  <2> HAVE scan.next <= Len(published)
  <2> QED
      BY <1>s, MessageTyped DEF Message
<1>1. ASSUME NEW j \in Junctions, NEW k \in Keys, Register(j, k)
      PROVE  RegistryStep
  <2> DEFINE e == [action |-> "register", junction |-> j]
  <2>1. /\ e \in [action : {"register", "revoke"}, junction : Junctions]
        /\ e.action = "register" /\ log' = Append(log, e)
      BY <1>1 DEF Register
  <2> HIDE DEF e
  <2> QED
      BY <1>1, <2>1 DEF Register, RegistryStep, TypeOK
<1>2. ASSUME NEW j \in Junctions, Revoke(j)
      PROVE  RegistryStep
  <2> DEFINE e == [action |-> "revoke", junction |-> j]
  <2>1. e \in [action : {"register", "revoke"}, junction : Junctions] /\ log' = Append(log, e)
      BY <1>2 DEF Revoke
  <2> HIDE DEF e
  <2>2. /\ approved' \in [Junctions -> Keys \cup {None}]
        /\ \A i \in Junctions : approved'[i] \in {approved[i], None}
      BY <1>2 DEF Revoke, TypeOK
  <2> QED
      BY <1>2, <2>1, <2>2 DEF Revoke, RegistryStep
<1>3. ASSUME NEW j \in Junctions, NEW k \in Keys, NEW t \in Ticks, Publish(j, k, t)
      PROVE  PublishStep
    BY <1>3 DEF Publish, PublishStep
<1>4. ASSUME Skip
      PROVE  QuietStep
    BY <1>4, <1>s DEF Skip, QuietStep, AtMessage, IsForThisTick, Advance
<1>5. ASSUME ReadPublicKey
      PROVE  QuietStep
  <2>1. approved[Message.sender] \in Keys \cup {None}
      BY <1>5, <1>m DEF ReadPublicKey, AtMessage, TypeOK
  <2> QED
      BY <1>5, <2>1, <1>s DEF ReadPublicKey, QuietStep, AtMessage
<1>6. ASSUME NotNeighbour
      PROVE  Rejects("not_neighbour")
    BY <1>6, <1>t DEF NotNeighbour, Rejects, Judges, AtMessage, Advance, Dismissed
<1>7. ASSUME RejectSender
      PROVE  Rejects("revoked") \/ Rejects("unknown_sender")
  <2>1. Dismissed
      BY <1>7, <1>j, <1>m DEF RejectSender, Dismissed, IsMember
  <2> QED
      BY <1>7, <2>1, <1>t, <1>j DEF RejectSender, Rejects, Judges, Advance
<1>8. ASSUME RejectSignature
      PROVE  Rejects("bad_signature")
    BY <1>8, <1>t, <1>j DEF RejectSignature, Rejects, Judges, Advance, Dismissed, IsSigned
<1>9. ASSUME RejectReplay
      PROVE  Rejects("replay")
    BY <1>9, <1>t, <1>j DEF RejectReplay, Rejects, Judges, Advance, Dismissed
<1>10. ASSUME Deliver
       PROVE  Delivers
  <2>1. scan' \in [to : {scan.to}, filter : {scan.filter}, next : {scan.next + 1},
                   pin : {scan.pin, scan.next - 1}, key : {scan.key}]
      BY <1>10, <1>s DEF Deliver
  <2>2. scan'.pin = IF scan.filter = 0 /\ scan.pin = Len(published)
                    THEN scan.next - 1 ELSE scan.pin
      BY <1>10, <1>s DEF Deliver
  <2>3. scan.key = Message.key /\ approved[Message.sender] # None
      BY <1>10 DEF Deliver, IsMember, IsSigned
  <2> QED
      BY <1>10, <2>1, <2>2, <2>3, <1>j DEF Deliver, Delivers, Judges
<1> QED
    BY <1>1, <1>2, <1>3, <1>4, <1>5, <1>6, <1>7, <1>8, <1>9, <1>10
    DEF Next, ScanStep, BeginStep, Reasons, Permanent

-----------------------------------------------------------------------------
LEMMA TypeInit == Init => TypeOK
BY BusAssumption DEF Init, TypeOK, NoScan

LEMMA TypeNext == TypeOK /\ [Next]_vars => TypeOK'
<1> USE BusAssumption
<1> SUFFICES ASSUME TypeOK, [Next]_vars
             PROVE  TypeOK'
    OBVIOUS
<1>n. Len(published) \in Nat
    BY DEF TypeOK
<1>1. CASE RegistryStep
  <2>1. log' \in Seq([action : {"register", "revoke"}, junction : Junctions])
      BY <1>1 DEF RegistryStep, TypeOK
  <2> QED
      BY <1>1, <2>1 DEF RegistryStep, TypeOK, Positions
<1>2. CASE PublishStep
  <2>1. published' \in Seq([sender : Junctions, t : Ticks, key : Keys])
        /\ Len(published') = Len(published) + 1
      BY <1>2 DEF PublishStep, TypeOK
  <2>2. Positions \subseteq Positions'
      BY <2>1, <1>n DEF Positions
  <2>3. judged' \in Seq([to : Junctions, msg : Positions', verdict : Verdicts, full : BOOLEAN])
    <3> DEFINE Entries(P) == [to : Junctions, msg : P, verdict : Verdicts, full : BOOLEAN]
    <3>1. Entries(Positions) \subseteq Entries(Positions')
        BY <2>2
    <3>2. judged \in Seq(Entries(Positions)) /\ judged' = judged
        BY <1>2 DEF PublishStep, TypeOK
    <3> QED
        BY <3>1, <3>2, SeqWidens
  <2>4. \A r \in Junctions : scanPos[r] <= Len(published')
      BY <2>1, <1>n DEF TypeOK
  <2> QED
      BY <1>2, <2>1, <2>3, <2>4 DEF PublishStep, TypeOK
<1>3. CASE QuietStep
  <2>1. /\ scan \in [to : Junctions, filter : Filters \cup {0}, next : Nat \ {0},
                     pin : Nat, key : Keys \cup {None}]
        /\ scan.pin <= Len(published)
      BY <1>3 DEF QuietStep, TypeOK
  <2>2. /\ pc' \in {"scanning", "judging"}
        /\ pc' = "judging" => scan'.next <= Len(published)
        /\ scan' \in [to : Junctions, filter : Filters \cup {0}, next : Nat \ {0},
                      pin : Nat, key : Keys \cup {None}]
        /\ scan'.next <= Len(published) + 1 /\ scan'.pin <= Len(published)
      BY <1>3, <1>n, <2>1 DEF QuietStep
  <2>3. UNCHANGED <<approved, log, published, delivered, rejected, logged, scanPos, judged>>
      BY <1>3 DEF QuietStep
  <2> QED
      BY <2>2, <2>3 DEF TypeOK, Positions
<1>4. CASE BeginStep
  <2>1. PICK r \in Junctions, f \in Filters : InboxBegins(r, f)
      BY <1>4 DEF BeginStep
  <2>2. scanPos[r] \in Nat /\ scanPos[r] <= Len(published)
      BY DEF TypeOK
  <2>3. /\ scan' \in [to : Junctions \cup {None}, filter : Filters \cup {0},
                      next : Nat \ {0}, pin : Nat, key : Keys \cup {None}]
        /\ scan'.to # None
        /\ scan'.next <= Len(published) + 1 /\ scan'.pin <= Len(published)
      BY <2>1, <2>2, <1>n DEF InboxBegins
  <2>4. /\ pc' = "scanning"
        /\ UNCHANGED <<approved, log, published, delivered, rejected, logged, scanPos, judged>>
      BY <2>1 DEF InboxBegins
  <2> QED
      BY <2>3, <2>4 DEF TypeOK, Positions
<1>5. ASSUME NEW verdict \in Verdicts, Judges(verdict)
      PROVE  /\ judged' \in Seq([to : Junctions, msg : Positions', verdict : Verdicts, full : BOOLEAN])
             /\ scan' \in [to : Junctions, filter : Filters \cup {0}, next : Nat \ {0},
                           pin : Nat, key : Keys \cup {None}]
             /\ scan'.next <= Len(published) + 1 /\ scan'.pin <= Len(published)
             /\ Token(Message) \in Junctions \X Junctions \X Ticks
  <2>1. scan \in [to : Junctions, filter : Filters \cup {0}, next : Nat \ {0},
                  pin : Nat, key : Keys \cup {None}]
        /\ scan.pin <= Len(published) /\ scan.next \in Positions
      BY <1>5, <1>n DEF Judges, TypeOK, Positions
  <2>2. Message \in [sender : Junctions, t : Ticks, key : Keys]
      BY <2>1, MessageTyped DEF Message, Positions
  <2>3. [to |-> scan.to, msg |-> scan.next, verdict |-> verdict, full |-> scan.filter = 0]
            \in [to : Junctions, msg : Positions, verdict : Verdicts, full : BOOLEAN]
      BY <2>1
  <2>4. judged' \in Seq([to : Junctions, msg : Positions, verdict : Verdicts, full : BOOLEAN])
      BY <1>5, <2>3 DEF Judges, Judge, TypeOK
  <2>5. Positions' = Positions
      BY <1>5 DEF Judges, Positions
  <2> QED
      BY <1>5, <1>n, <2>1, <2>2, <2>4, <2>5 DEF Judges, Token, Positions
<1>6. ASSUME NEW reason \in Reasons, Rejects(reason)
      PROVE  TypeOK'
  <2>1. reason \in Verdicts
      BY DEF Reasons, Verdicts
  <2>2. <<scan.to, Message.sender, Message.t, reason>>
            \in Junctions \X Junctions \X Ticks \X Verdicts
      BY <1>5, <1>6, <2>1 DEF Rejects, Token
  <2>3. /\ logged' \subseteq Junctions \X Junctions \X Ticks \X Verdicts
        /\ rejected' \in Seq(Junctions \X Junctions \X Ticks \X Verdicts)
      BY <1>6, <2>2 DEF Rejects, RejectOnce, TypeOK
  <2> QED
      BY <1>5, <1>6, <2>1, <2>3 DEF Rejects, Judges, TypeOK
<1>7. CASE Delivers
  <2>1. "delivered" \in Verdicts
      BY DEF Verdicts
  <2> QED
      BY <1>5, <1>7, <2>1 DEF Delivers, Judges, TypeOK
<1>8. CASE InboxReturns
    BY <1>8, <1>n, SMTT(30) DEF InboxReturns, TypeOK, NoScan, Positions
<1>9. CASE UNCHANGED vars
    BY <1>9 DEF vars, TypeOK, Positions
<1> QED
    BY <1>1, <1>2, <1>3, <1>4, <1>6, <1>7, <1>8, <1>9, Kinds

\* Type correctness of the bus and the registry it asks.
THEOREM BusTypeCorrect == Spec => []TypeOK
<1>1. QED
    BY TypeInit, TypeNext, PTL DEF Spec

-----------------------------------------------------------------------------
\* At most once: what was delivered is on the list of what was delivered.
TokenOf(n) ==
    <<judged[n].to, published[judged[n].msg].sender, published[judged[n].msg].t>>

Recorded ==
    \A n \in DOMAIN judged :
        judged[n].verdict = "delivered" => TokenOf(n) \in delivered

TokensDiffer ==
    \A m, n \in DOMAIN judged :
        /\ judged[m].verdict = "delivered" /\ judged[n].verdict = "delivered"
        /\ TokenOf(m) = TokenOf(n)
        => m = n

\* What is on record stays as it is, and a verdict is the newest entry.
LEMMA JudgedKept ==
    ASSUME TypeOK, UNCHANGED judged \/ (\E e : judged' = Append(judged, e)),
           UNCHANGED published \/ (\E m : published' = Append(published, m))
    PROVE  \A n \in DOMAIN judged :
              /\ n \in DOMAIN judged' /\ judged'[n] = judged[n]
              /\ judged[n].msg \in Positions
              /\ TokenOf(n)' = TokenOf(n)
<1> SUFFICES ASSUME NEW n \in DOMAIN judged
             PROVE  /\ n \in DOMAIN judged' /\ judged'[n] = judged[n]
                    /\ judged[n].msg \in Positions
                    /\ TokenOf(n)' = TokenOf(n)
    OBVIOUS
<1> DEFINE E == [to : Junctions, msg : Positions, verdict : Verdicts, full : BOOLEAN]
           M == [sender : Junctions, t : Ticks, key : Keys]
<1>1. judged \in Seq(E) /\ published \in Seq(M)
    BY DEF TypeOK
<1>2. judged[n].msg \in Positions
  <2> HIDE DEF E
  <2>1. judged[n] \in E
      BY <1>1, ElementInSet
  <2> QED
      BY <2>1 DEF E
<1> HIDE DEF E, M
<1>3. n \in DOMAIN judged' /\ judged'[n] = judged[n]
    BY <1>1
<1>4. published'[judged[n].msg] = published[judged[n].msg]
    BY <1>1, <1>2 DEF Positions
<1> QED
    BY <1>2, <1>3, <1>4 DEF TokenOf

LEMMA Shapes ==
    ASSUME TypeOK, [Next]_vars
    PROVE  /\ UNCHANGED judged \/ (\E e : judged' = Append(judged, e))
           /\ UNCHANGED published \/ (\E m : published' = Append(published, m))
BY Kinds DEF RegistryStep, PublishStep, QuietStep, BeginStep, InboxBegins, Rejects,
    Delivers, Judges, Judge, InboxReturns, vars

LEMMA OnceInit == Init => Recorded /\ TokensDiffer
BY DEF Init, Recorded, TokensDiffer

LEMMA OnceNext ==
    TypeOK /\ Recorded /\ TokensDiffer /\ [Next]_vars => (Recorded /\ TokensDiffer)'
<1> SUFFICES ASSUME TypeOK, Recorded, TokensDiffer, [Next]_vars
             PROVE  Recorded' /\ TokensDiffer'
    OBVIOUS
<1>k. \A n \in DOMAIN judged :
        n \in DOMAIN judged' /\ judged'[n] = judged[n] /\ TokenOf(n)' = TokenOf(n)
    BY JudgedKept, Shapes
<1>1. CASE UNCHANGED judged
  <2>1. delivered \subseteq delivered'
      BY <1>1, Kinds DEF RegistryStep, PublishStep, QuietStep, BeginStep, InboxBegins,
         Rejects, Delivers, InboxReturns, vars
  <2> QED
      BY <1>1, <1>k, <2>1 DEF Recorded, TokensDiffer
<1>2. ASSUME NEW verdict \in Verdicts, Judges(verdict)
      PROVE  \E new :
             /\ DOMAIN judged' = DOMAIN judged \cup {new} /\ new \notin DOMAIN judged
             /\ judged'[new].verdict = verdict
             /\ TokenOf(new)' = Token(Message)
  <2> DEFINE E == [to : Junctions, msg : Positions, verdict : Verdicts, full : BOOLEAN]
  <2>1. judged \in Seq(E)
      BY DEF TypeOK
  <2> HIDE DEF E
  <2>2. /\ DOMAIN judged' = DOMAIN judged \cup {Len(judged) + 1}
        /\ Len(judged) + 1 \notin DOMAIN judged
        /\ judged'[Len(judged) + 1] =
               [to |-> scan.to, msg |-> scan.next, verdict |-> verdict, full |-> scan.filter = 0]
      BY <1>2, <2>1 DEF Judges, Judge
  <2>3. published' = published
      BY <1>2 DEF Judges
  <2>4. PICK new : new = Len(judged) + 1
      OBVIOUS
  <2>5. TokenOf(new)' = Token(Message)
      BY <2>2, <2>3, <2>4 DEF TokenOf, Token, Message
  <2> QED
      BY <2>2, <2>4, <2>5
<1>3. ASSUME NEW reason \in Reasons, Rejects(reason)
      PROVE  Recorded' /\ TokensDiffer'
  <2>1. reason \in Verdicts /\ reason # "delivered"
      BY DEF Reasons, Verdicts, Permanent
  <2> QED
    <3>1. PICK new :
             /\ DOMAIN judged' = DOMAIN judged \cup {new} /\ new \notin DOMAIN judged
             /\ judged'[new].verdict # "delivered"
        BY <1>2, <1>3, <2>1 DEF Rejects
    <3>2. delivered' = delivered
        BY <1>3 DEF Rejects
    <3> QED
        BY <1>k, <3>1, <3>2 DEF Recorded, TokensDiffer
<1>4. CASE Delivers
  <2>1. "delivered" \in Verdicts
      BY DEF Verdicts
  <2> QED
    <3>1. PICK new :
             /\ DOMAIN judged' = DOMAIN judged \cup {new} /\ new \notin DOMAIN judged
             /\ TokenOf(new)' = Token(Message)
        BY <1>2, <1>4, <2>1 DEF Delivers
    <3>2. delivered' = delivered \cup {Token(Message)} /\ Token(Message) \notin delivered
        BY <1>4 DEF Delivers
    <3>3. Recorded'
        BY <1>k, <3>1, <3>2 DEF Recorded
    <3>4. \A n \in DOMAIN judged :
             judged[n].verdict = "delivered" => TokenOf(n)' # TokenOf(new)'
        BY <1>k, <3>1, <3>2 DEF Recorded
    <3>5. TokensDiffer'
        BY <1>k, <3>1, <3>4 DEF TokensDiffer
    <3> QED
        BY <3>3, <3>5
<1> QED
    BY <1>1, <1>3, <1>4, Kinds
    DEF RegistryStep, PublishStep, QuietStep, BeginStep, InboxBegins, InboxReturns, vars

\* A recipient acts on one report at most of a sender for a tick: no
\* interleaving of calls with revocations, new keys and repeated ticks makes
\* inbox() hand the same one over again.
THEOREM DeliveredOnce == Spec => []AtMostOnce
<1>1. TypeOK /\ TokensDiffer => AtMostOnce
    BY DEF TokensDiffer, AtMostOnce, TokenOf, SameToken
<1> QED
    BY <1>1, TypeInit, TypeNext, OnceInit, OnceNext, PTL DEF Spec

-----------------------------------------------------------------------------
\* The cursor: during a full scan all before the next message is judged.
ScanSound ==
    pc # "idle" /\ scan.filter = 0 =>
        \A i \in 1 .. scan.next - 1 : JudgedFor(scan.to, i)

LEMMA JudgedStays ==
    ASSUME TypeOK, [Next]_vars, NEW r, NEW i, JudgedFor(r, i)
    PROVE  JudgedFor(r, i)'
BY JudgedKept, Shapes DEF JudgedFor

LEMMA CursorInit == Init => ScanSound /\ NothingMissed
BY DEF Init, ScanSound, NothingMissed

LEMMA CursorNext ==
    TypeOK /\ ScanSound /\ NothingMissed /\ [Next]_vars => (ScanSound /\ NothingMissed)'
<1> SUFFICES ASSUME TypeOK, ScanSound, NothingMissed, [Next]_vars
             PROVE  ScanSound' /\ NothingMissed'
    OBVIOUS
<1>t. /\ scan.next \in Nat \ {0} /\ scan.pin \in Nat /\ Len(published) \in Nat
      /\ scanPos \in [Junctions -> Nat]
    BY DEF TypeOK
<1>1. ASSUME UNCHANGED scanPos
      PROVE  NothingMissed'
    BY <1>1, JudgedStays DEF NothingMissed
<1>2. ASSUME UNCHANGED <<pc, scan>>
      PROVE  ScanSound'
    BY <1>2, JudgedStays DEF ScanSound
<1>3. CASE QuietStep
  <2>1. pc = "scanning" /\ UNCHANGED scanPos
      BY <1>3 DEF QuietStep
  <2>2. \/ scan'.filter # 0
        \/ scan'.filter = scan.filter /\ scan'.next = scan.next /\ scan'.to = scan.to
      BY <1>3 DEF QuietStep
  <2> QED
      BY <1>1, <2>1, <2>2, JudgedStays DEF ScanSound
<1>4. CASE BeginStep
  <2>1. PICK r \in Junctions, f \in Filters : InboxBegins(r, f)
      BY <1>4 DEF BeginStep
  <2>2. UNCHANGED scanPos /\ scan'.to = r /\ scan'.filter = f
        /\ (f = 0 => scan'.next = scanPos[r] + 1)
      BY <2>1 DEF InboxBegins
  <2>3. f = 0 => \A i \in 1 .. scan'.next - 1 : JudgedFor(r, i)
      BY <1>t, <2>2 DEF NothingMissed
  <2> QED
      BY <1>1, <2>2, <2>3, JudgedStays DEF ScanSound
<1>5. ASSUME NEW verdict, Judges(verdict)
      PROVE  ScanSound' /\ NothingMissed'
  <2> DEFINE E == [to : Junctions, msg : Positions, verdict : Verdicts, full : BOOLEAN]
  <2>1. judged \in Seq(E)
      BY DEF TypeOK
  <2> HIDE DEF E
  <2>2. \A i : i = scan.next => JudgedFor(scan.to, i)'
    <3>1. /\ Len(judged) + 1 \in DOMAIN judged'
          /\ judged'[Len(judged) + 1] =
                 [to |-> scan.to, msg |-> scan.next, verdict |-> verdict, full |-> scan.filter = 0]
        BY <1>5, <2>1 DEF Judges, Judge
    <3>2. scan'.to = scan.to
        BY <1>5 DEF Judges
    <3> QED
        BY <3>1, <3>2 DEF JudgedFor
  <2>3. /\ pc # "idle" /\ UNCHANGED scanPos
        /\ scan'.to = scan.to /\ scan'.filter = scan.filter
        /\ scan'.next = scan.next + 1
      BY <1>5 DEF Judges
  <2>4. ASSUME scan.filter = 0, NEW i \in 1 .. scan.next
        PROVE  JudgedFor(scan.to, i)'
    <3>1. CASE i = scan.next
        BY <2>2, <3>1
    <3>2. CASE i # scan.next
        BY <1>t, <2>3, <2>4, <3>2, JudgedStays DEF ScanSound
    <3> QED
        BY <3>1, <3>2
  <2> QED
      BY <1>1, <1>t, <2>3, <2>4 DEF ScanSound
<1>6. CASE InboxReturns
  <2>1. UNCHANGED <<judged, published>> /\ pc' = "idle"
      BY <1>6 DEF InboxReturns
  <2>2. scan.filter = 0 => \A i \in 1 .. scan.pin : JudgedFor(scan.to, i)
      BY <1>6, <1>t DEF InboxReturns, ScanSound, TypeOK
  <2>3. NothingMissed'
    <3> SUFFICES ASSUME NEW r \in Junctions, NEW i \in 1 .. scanPos'[r]
                 PROVE  JudgedFor(r, i)'
        BY DEF NothingMissed
    <3>1. CASE scan.filter = 0 /\ r = scan.to
        BY <1>6, <1>t, <2>2, <3>1, JudgedStays DEF InboxReturns
    <3>2. CASE ~(scan.filter = 0 /\ r = scan.to)
      <4>1. scanPos'[r] = scanPos[r]
          BY <1>6, <1>t, <3>2 DEF InboxReturns
      <4> QED
          BY <4>1, JudgedStays DEF NothingMissed
    <3> QED
        BY <3>1, <3>2
  <2> QED
      BY <2>1, <2>3 DEF ScanSound
<1> QED
    BY <1>1, <1>2, <1>3, <1>4, <1>5, <1>6, Kinds
    DEF RegistryStep, PublishStep, Rejects, Delivers, vars

\* The cursor leaves no message behind unjudged, whatever calls, filtered or
\* not, of whatever recipients come between two scans.
THEOREM CursorMissesNothing == Spec => []NothingMissed
<1>1. QED
    BY TypeInit, TypeNext, CursorInit, CursorNext, PTL DEF Spec

-----------------------------------------------------------------------------
\* A full scan of recipient r is on.
Scanning(r) == pc # "idle" /\ scan.filter = 0 /\ scan.to = r

\* The cursor it will leave is where it began, at the end, or before what it
\* has seen.
PinSound ==
    \A r \in Junctions : Scanning(r) =>
        /\ scan.pin = Len(published) \/ scan.pin < scan.next
        /\ scanPos[r] <= scan.pin /\ scanPos[r] < scan.next
        /\ pc = "judging" => Message.sender \in Neighbours[r]

\* The message of verdict n is judged once more.
Later(n) ==
    \E m \in DOMAIN judged :
        m > n /\ judged[m].to = judged[n].to /\ judged[m].msg = judged[n].msg

\* A scan has passed the message, and its cursor will.
Ahead(n) ==
    /\ pc # "idle" /\ scan.filter = 0 /\ scan.to = judged[n].to
    /\ judged[n].msg < scan.next /\ judged[n].msg <= scan.pin

Behind(n) == judged[n].msg <= scanPos[judged[n].to]

MetOrAhead ==
    \A n \in DOMAIN judged :
        /\ judged[n].verdict = "delivered" /\ judged[n].full
        /\ Behind(n) \/ Ahead(n)
        => Later(n)

\* What is rejected is on record once.
ReplayOf(n) ==
    <<judged[n].to, published[judged[n].msg].sender, published[judged[n].msg].t, "replay">>

OnRecord ==
    /\ \A p, q \in DOMAIN rejected : rejected[p] = rejected[q] => p = q
    /\ \A p \in DOMAIN rejected : rejected[p] \in logged
    /\ \A entry \in logged : \E p \in DOMAIN rejected : rejected[p] = entry
    /\ \A n \in DOMAIN judged : judged[n].verdict = "replay" => ReplayOf(n) \in logged

\* A verdict is the newest entry, and the others stay.
LEMMA NewVerdict ==
    ASSUME TypeOK, NEW verdict, Judges(verdict)
    PROVE  /\ Len(judged) \in Nat
           /\ DOMAIN judged' = DOMAIN judged \cup {Len(judged) + 1}
           /\ judged'[Len(judged) + 1].to = scan.to
           /\ judged'[Len(judged) + 1].msg = scan.next
           /\ judged'[Len(judged) + 1].verdict = verdict
           /\ judged'[Len(judged) + 1].full <=> scan.filter = 0
           /\ \A n \in DOMAIN judged :
                 /\ n \in Nat /\ n < Len(judged) + 1
                 /\ judged'[n] = judged[n]
<1> DEFINE E == [to : Junctions, msg : Positions, verdict : Verdicts, full : BOOLEAN]
           new == [to |-> scan.to, msg |-> scan.next, verdict |-> verdict,
                   full |-> scan.filter = 0]
<1>1. judged \in Seq(E) /\ judged' = Append(judged, new)
    BY DEF TypeOK, Judges, Judge
<1>2. /\ new.to = scan.to /\ new.msg = scan.next /\ new.verdict = verdict
      /\ new.full <=> scan.filter = 0
    OBVIOUS
<1> HIDE DEF E, new
<1>3. judged'[Len(judged) + 1] = new
    BY <1>1
<1> QED
    BY <1>1, <1>2, <1>3

\* The judged messages are published, and their recipients junctions.
LEMMA JudgedTyped ==
    ASSUME TypeOK, NEW n \in DOMAIN judged
    PROVE  /\ judged[n].to \in Junctions /\ judged[n].msg \in Positions
           /\ judged[n].msg \in Nat /\ judged[n].full \in BOOLEAN
<1> DEFINE E == [to : Junctions, msg : Positions, verdict : Verdicts, full : BOOLEAN]
<1>1. judged \in Seq(E)
    BY DEF TypeOK
<1> HIDE DEF E
<1>2. judged[n] \in E
    BY <1>1, ElementInSet
<1> QED
    BY <1>2 DEF E, Positions

LEMMA LaterStays ==
    ASSUME TypeOK, [Next]_vars, NEW n \in DOMAIN judged, Later(n)
    PROVE  Later(n)'
BY JudgedKept, Shapes DEF Later

LEMMA PinNext ==
    TypeOK /\ PinSound /\ [Next]_vars => PinSound'
<1> SUFFICES ASSUME TypeOK, PinSound, [Next]_vars
             PROVE  PinSound'
    OBVIOUS
<1>t. /\ scan.next \in Nat \ {0} /\ scan.pin \in Nat /\ Len(published) \in Nat
      /\ scanPos \in [Junctions -> Nat]
      /\ \A r \in Junctions : scanPos[r] <= Len(published)
    BY DEF TypeOK
<1>1. CASE RegistryStep \/ UNCHANGED vars
    BY <1>1 DEF RegistryStep, PinSound, Scanning, Message, vars
<1>2. CASE PublishStep
    BY <1>2 DEF PublishStep, PinSound, Scanning
<1>3. CASE QuietStep
  <2>1. UNCHANGED <<published, scanPos>> /\ pc # "idle"
      BY <1>3 DEF QuietStep
  <2>2. \/ scan'.filter # 0
        \/ /\ scan'.filter = scan.filter /\ scan'.next = scan.next /\ scan'.to = scan.to
           /\ scan'.pin = scan.pin /\ Message.sender \in Neighbours[scan.to]
      BY <1>3 DEF QuietStep
  <2> QED
      BY <2>1, <2>2 DEF PinSound, Scanning, Message
<1>4. CASE BeginStep
  <2>1. PICK r \in Junctions, f \in Filters : InboxBegins(r, f)
      BY <1>4 DEF BeginStep
  <2>2. /\ UNCHANGED <<published, scanPos>> /\ pc' = "scanning"
        /\ scan'.to = r /\ scan'.filter = f /\ scan'.pin = Len(published)
        /\ (f = 0 => scan'.next = scanPos[r] + 1)
      BY <2>1 DEF InboxBegins
  <2> QED
      BY <1>t, <2>2 DEF PinSound, Scanning
<1>5. ASSUME NEW verdict, Judges(verdict),
             scan'.pin = scan.pin \/ (scan.filter = 0 => scan'.pin = scan.next - 1)
      PROVE  PinSound'
  <2>1. /\ pc # "idle" /\ pc' = "scanning" /\ UNCHANGED <<published, scanPos>>
        /\ scan'.to = scan.to /\ scan'.filter = scan.filter
        /\ scan'.next = scan.next + 1
      BY <1>5 DEF Judges
  <2> QED
      BY <1>5, <1>t, <2>1 DEF PinSound, Scanning
<1>6. CASE InboxReturns
    BY <1>6 DEF InboxReturns, PinSound, Scanning
<1>7. CASE Delivers
  <2>1. scan'.pin = scan.pin \/ (scan.filter = 0 => scan'.pin = scan.next - 1)
      BY <1>7 DEF Delivers
  <2> QED
      BY <1>5, <1>7, <2>1 DEF Delivers
<1>8. ASSUME NEW reason \in Reasons, Rejects(reason)
      PROVE  PinSound'
    BY <1>5, <1>8 DEF Rejects
<1> QED
    BY <1>1, <1>2, <1>3, <1>4, <1>6, <1>7, <1>8, Kinds

LEMMA MetNext ==
    TypeOK /\ PinSound /\ MetOrAhead /\ [Next]_vars => MetOrAhead'
<1> SUFFICES ASSUME TypeOK, PinSound, MetOrAhead, [Next]_vars,
                    NEW n \in DOMAIN judged', judged'[n].verdict = "delivered", judged'[n].full,
                    Behind(n)' \/ Ahead(n)'
             PROVE  Later(n)'
    BY DEF MetOrAhead
<1>t. /\ scan.next \in Nat \ {0} /\ scan.pin \in Nat /\ Len(published) \in Nat
      /\ scanPos \in [Junctions -> Nat]
      /\ \A r \in Junctions : scanPos[r] <= Len(published)
    BY DEF TypeOK
<1>1. ASSUME UNCHANGED judged
      PROVE  /\ n \in DOMAIN judged /\ judged[n].to \in Junctions /\ judged[n].msg \in Nat
             /\ judged[n].msg <= Len(published)
             /\ Behind(n) \/ Ahead(n) => Later(n)'
    BY <1>1, JudgedTyped, LaterStays DEF MetOrAhead, Positions
<1>2. CASE UNCHANGED <<judged, scanPos, pc, scan>>
  <2>1. Behind(n) \/ Ahead(n)
      BY <1>2 DEF Behind, Ahead
  <2> QED
      BY <1>1, <1>2, <2>1
<1>3. CASE QuietStep
  <2>1. UNCHANGED <<judged, scanPos>> /\ pc # "idle"
      BY <1>3 DEF QuietStep
  <2>2. \/ scan'.filter # 0
        \/ /\ scan'.filter = scan.filter /\ scan'.next = scan.next /\ scan'.to = scan.to
           /\ scan'.pin = scan.pin
      BY <1>3 DEF QuietStep
  <2>3. Behind(n) \/ Ahead(n)
      BY <2>1, <2>2 DEF Behind, Ahead
  <2> QED
      BY <1>1, <2>1, <2>3
<1>4. CASE BeginStep
  <2>1. PICK r \in Junctions, f \in Filters : InboxBegins(r, f)
      BY <1>4 DEF BeginStep
  <2>2. /\ UNCHANGED <<judged, scanPos>> /\ scan'.to = r /\ scan'.filter = f
        /\ (f = 0 => scan'.next = scanPos[r] + 1)
      BY <2>1 DEF InboxBegins
  <2>3. Behind(n)
      BY <1>1, <1>t, <2>2 DEF Behind, Ahead
  <2> QED
      BY <1>1, <2>2, <2>3
<1>5. CASE InboxReturns
  <2>1. /\ UNCHANGED judged /\ pc = "scanning" /\ pc' = "idle" /\ scan.next > Len(published)
        /\ scanPos' = IF scan.filter = 0 THEN [scanPos EXCEPT ![scan.to] = scan.pin]
                      ELSE scanPos
      BY <1>5 DEF InboxReturns
  <2>2. judged[n].msg <= scanPos'[judged[n].to]
      BY <2>1 DEF Behind, Ahead
  <2>3. CASE scan.filter = 0 /\ scan.to = judged[n].to
    <3>1. judged[n].msg <= scan.pin /\ judged[n].msg < scan.next
        BY <1>1, <1>t, <2>1, <2>2, <2>3
    <3> QED
        BY <1>1, <2>1, <2>3, <3>1 DEF Ahead
  <2>4. CASE ~(scan.filter = 0 /\ scan.to = judged[n].to)
    <3>1. scanPos'[judged[n].to] = scanPos[judged[n].to]
        BY <1>1, <1>t, <2>1, <2>4
    <3> QED
        BY <1>1, <2>1, <2>2, <3>1 DEF Behind
  <2> QED
      BY <2>3, <2>4
<1>6. ASSUME NEW verdict, Judges(verdict),
             \/ verdict # "delivered" /\ scan'.pin = scan.pin
             \/ scan'.pin = IF scan.filter = 0 /\ scan.pin = Len(published)
                            THEN scan.next - 1 ELSE scan.pin
      PROVE  Later(n)'
  <2>1. /\ pc # "idle" /\ UNCHANGED <<published, scanPos>>
        /\ scan'.to = scan.to /\ scan'.filter = scan.filter /\ scan'.next = scan.next + 1
        /\ scan.next <= Len(published)
      BY <1>6 DEF Judges
  <2> DEFINE new == Len(judged) + 1
  <2>2. /\ new \in Nat /\ new \in DOMAIN judged'
        /\ n \in DOMAIN judged \/ n = new
        /\ judged'[new].to = scan.to /\ judged'[new].msg = scan.next
        /\ judged'[new].verdict = verdict
        /\ judged'[new].full <=> scan.filter = 0
        /\ n \in DOMAIN judged => n \in Nat /\ n < new /\ judged'[n] = judged[n]
      BY <1>6, NewVerdict
  <2> HIDE DEF new
  <2>3. scan.to \in Junctions
      BY <2>1 DEF TypeOK
  <2>4. CASE n = new
    <3>1. scan.filter = 0 /\ judged'[n].to = scan.to /\ judged'[n].msg = scan.next
          /\ verdict = "delivered"
        BY <2>2, <2>4
    <3>2. Scanning(scan.to)
        BY <2>1, <3>1 DEF Scanning
    <3>3. scanPos[scan.to] < scan.next
          /\ (scan.pin = Len(published) \/ scan.pin < scan.next)
        BY <2>3, <3>2 DEF PinSound
    <3>4. scan'.pin < scan.next
        BY <1>6, <1>t, <3>1, <3>3
    <3>5. scan'.pin \in Int /\ scanPos[scan.to] \in Nat
        BY <1>6, <1>t, <2>3, <3>1
    <3>6. ~ Behind(n)'
        BY <1>t, <2>1, <3>1, <3>3, <3>5 DEF Behind
    <3>7. ~ Ahead(n)'
        BY <1>t, <3>1, <3>4, <3>5 DEF Ahead
    <3> QED
        BY <3>6, <3>7
  <2>5. CASE n \in DOMAIN judged
    <3>1. /\ judged'[n] = judged[n] /\ judged[n].to \in Junctions /\ judged[n].msg \in Nat
          /\ Behind(n) \/ Ahead(n) => Later(n)'
        BY <2>2, <2>5, JudgedTyped, LaterStays DEF MetOrAhead
    <3>2. CASE judged[n].to = scan.to /\ judged[n].msg = scan.next
        BY <2>2, <2>5, <3>1, <3>2 DEF Later
    <3>3. CASE Behind(n)'
      <4>1. Behind(n)
          BY <2>1, <3>1, <3>3 DEF Behind
      <4> QED
          BY <3>1, <4>1
    <3>4. CASE Ahead(n)' /\ ~(judged[n].to = scan.to /\ judged[n].msg = scan.next)
      <4>1. /\ scan.filter = 0 /\ scan.to = judged[n].to
            /\ judged[n].msg < scan.next + 1 /\ judged[n].msg <= scan'.pin
          BY <2>1, <3>1, <3>4 DEF Ahead
      <4>2. judged[n].msg < scan.next
          BY <1>t, <3>1, <3>4, <4>1
      <4>3. judged[n].msg <= scan.pin
          BY <1>6, <1>t, <2>1, <3>1, <4>1, <4>2
      <4>4. Ahead(n)
          BY <2>1, <4>1, <4>2, <4>3 DEF Ahead
      <4> QED
          BY <3>1, <4>4
    <3> QED
        BY <3>2, <3>3, <3>4
  <2> QED
      BY <2>2, <2>4, <2>5
<1>7. CASE Delivers
    BY <1>6, <1>7 DEF Delivers
<1>8. ASSUME NEW reason \in Reasons, Rejects(reason)
      PROVE  Later(n)'
  <2>1. reason # "delivered"
      BY DEF Reasons, Permanent
  <2> QED
      BY <1>6, <1>8, <2>1 DEF Rejects
<1> QED
    BY <1>2, <1>3, <1>4, <1>5, <1>7, <1>8, Kinds DEF RegistryStep, PublishStep, vars

\* What a step does to the record: nothing, or one entry that was not there.
Records(entry) ==
    /\ logged' = logged \cup {entry}
    /\ rejected' = IF entry \in logged THEN rejected ELSE Append(rejected, entry)

LEMMA RecordKept ==
    ASSUME TypeOK, OnRecord, NEW entry, Records(entry) \/ UNCHANGED <<rejected, logged>>
    PROVE  /\ \A p, q \in DOMAIN rejected' : rejected'[p] = rejected'[q] => p = q
           /\ \A p \in DOMAIN rejected' : rejected'[p] \in logged'
           /\ \A e \in logged' : \E p \in DOMAIN rejected' : rejected'[p] = e
           /\ logged \subseteq logged'
<1> DEFINE R == Junctions \X Junctions \X Ticks \X Verdicts
<1>1. rejected \in Seq(R)
    BY DEF TypeOK
<1> HIDE DEF R
<1>2. CASE UNCHANGED <<rejected, logged>> \/ (Records(entry) /\ entry \in logged)
    BY <1>2 DEF OnRecord, Records
<1>3. CASE Records(entry) /\ entry \notin logged
  <2> DEFINE new == Len(rejected) + 1
  <2>1. /\ new \in Nat /\ DOMAIN rejected' = DOMAIN rejected \cup {new}
        /\ rejected'[new] = entry
        /\ \A p \in DOMAIN rejected : rejected'[p] = rejected[p]
      BY <1>1, <1>3 DEF Records
  <2> HIDE DEF new
  <2>2. logged' = logged \cup {entry}
      BY <1>3 DEF Records
  <2> QED
      BY <1>3, <2>1, <2>2 DEF OnRecord
<1> QED
    BY <1>2, <1>3

LEMMA RecordNext ==
    TypeOK /\ OnRecord /\ [Next]_vars => OnRecord'
<1> SUFFICES ASSUME TypeOK, OnRecord, [Next]_vars
             PROVE  OnRecord'
    OBVIOUS
<1>1. \A n \in DOMAIN judged : /\ n \in DOMAIN judged' /\ judged'[n] = judged[n]
                               /\ ReplayOf(n)' = ReplayOf(n)
    BY JudgedKept, Shapes DEF TokenOf, ReplayOf
<1>2. ASSUME UNCHANGED <<rejected, logged>>,
             \A n \in DOMAIN judged' : n \in DOMAIN judged \/ judged'[n].verdict # "replay"
      PROVE  OnRecord'
    BY <1>1, <1>2 DEF OnRecord
<1>3. CASE UNCHANGED <<rejected, logged, judged>>
    BY <1>2, <1>3
<1>4. CASE Delivers
  <2>1. \A n \in DOMAIN judged' : n \in DOMAIN judged \/ judged'[n].verdict # "replay"
      BY <1>4, NewVerdict DEF Delivers
  <2> QED
      BY <1>2, <1>4, <2>1 DEF Delivers
<1>5. ASSUME NEW reason \in Reasons, Rejects(reason)
      PROVE  OnRecord'
  <2> DEFINE entry == <<scan.to, Message.sender, Message.t, reason>>
  <2>1. Records(entry)
      BY <1>5 DEF Rejects, RejectOnce, Records
  <2>a. Judges(reason)
      BY <1>5 DEF Rejects
  <2>b. /\ Len(judged) \in Nat
        /\ DOMAIN judged' = DOMAIN judged \cup {Len(judged) + 1}
        /\ judged'[Len(judged) + 1].to = scan.to
        /\ judged'[Len(judged) + 1].msg = scan.next
        /\ judged'[Len(judged) + 1].verdict = reason
      BY <2>a, NewVerdict
  <2>c. Len(judged) + 1 \in Nat
      BY <2>b
  <2>2. PICK new \in Nat :
           /\ DOMAIN judged' = DOMAIN judged \cup {new}
           /\ judged'[new].to = scan.to /\ judged'[new].msg = scan.next
           /\ judged'[new].verdict = reason
      BY <2>b, <2>c
  <2>3. published' = published
      BY <1>5 DEF Rejects, Judges
  <2>4. judged'[new].verdict = "replay" => ReplayOf(new)' = entry
      BY <2>2, <2>3 DEF ReplayOf, Message
  <2> HIDE DEF entry
  <2>5. entry \in logged'
      BY <2>1 DEF Records
  <2>6. /\ \A p, q \in DOMAIN rejected' : rejected'[p] = rejected'[q] => p = q
        /\ \A p \in DOMAIN rejected' : rejected'[p] \in logged'
        /\ \A e \in logged' : \E p \in DOMAIN rejected' : rejected'[p] = e
        /\ logged \subseteq logged'
      BY <2>1, RecordKept
  <2>7. ASSUME NEW n \in DOMAIN judged', judged'[n].verdict = "replay"
        PROVE  ReplayOf(n)' \in logged'
    <3>1. CASE n = new
        BY <2>4, <2>5, <2>7, <3>1
    <3>2. CASE n \in DOMAIN judged
        BY <1>1, <2>6, <2>7, <3>2 DEF OnRecord
    <3> QED
        BY <2>2, <3>1, <3>2
  <2> QED
      BY <2>6, <2>7 DEF OnRecord
<1> QED
    BY <1>3, <1>4, <1>5, Kinds
    DEF RegistryStep, PublishStep, QuietStep, BeginStep, InboxBegins, InboxReturns, vars

\* What is on record is there once.
LEMMA OnRecordOnce ==
    ASSUME OnRecord, NEW entry \in logged
    PROVE  Cardinality({p \in DOMAIN rejected : rejected[p] = entry}) = 1
<1>1. PICK p \in DOMAIN rejected : rejected[p] = entry
    BY DEF OnRecord
<1>2. {q \in DOMAIN rejected : rejected[q] = entry} = {p}
    BY <1>1 DEF OnRecord
<1> QED
    BY <1>2, FS_Singleton

LEMMA MetInit ==
    Init => PinSound /\ MetOrAhead /\ OnRecord
BY DEF Init, PinSound, Scanning, MetOrAhead, OnRecord

\* A message that a full scan delivered is met once more before the cursor
\* leaves it behind: the cursor is pinned before it (PinSound), and the scan
\* that passes it judges it again (MetOrAhead).  Of a sender's tick one replay
\* at most is put on record.
THEOREM MetAgainTheorem == Spec => []DeliveredMetAgain
<1>1. TypeOK /\ MetOrAhead /\ OnRecord => DeliveredMetAgain
  <2> SUFFICES ASSUME TypeOK, MetOrAhead, OnRecord, NEW n \in DOMAIN judged,
                      judged[n].verdict = "delivered", judged[n].full, Behind(n)
               PROVE  \E m \in DOMAIN judged :
                         /\ m > n /\ judged[m].to = judged[n].to
                         /\ judged[m].msg = judged[n].msg
                         /\ judged[m].verdict = "replay" =>
                               Cardinality({p \in DOMAIN rejected :
                                              rejected[p] = ReplayOf(n)}) = 1
      BY DEF DeliveredMetAgain, Behind, ReplayOf
  <2>1. PICK m \in DOMAIN judged :
           m > n /\ judged[m].to = judged[n].to /\ judged[m].msg = judged[n].msg
      BY DEF MetOrAhead, Later
  <2>2. judged[m].verdict = "replay" => ReplayOf(n) \in logged
      BY <2>1 DEF OnRecord, ReplayOf
  <2> QED
      BY <2>1, <2>2, OnRecordOnce
<1> QED
    BY <1>1, MetInit, TypeInit, TypeNext, PinNext, MetNext, RecordNext, PTL DEF Spec

-----------------------------------------------------------------------------
\* What a scan costs.  A message in front of the cursor has had a scan less
\* than it may have, or there is nothing between the cursor and it that could
\* be delivered: then no scan is pinned before it without a registration.
Found == scan.pin # Len(published)

Blocked(r, k) ==
    \/ published[k].sender \notin Neighbours[r]
    \/ <<r, published[k].sender, published[k].t>> \in delivered
    \/ approved[published[k].sender] # published[k].key

Turned(r, lo, hi) == \A k \in lo .. hi : Blocked(r, k)

\* The key in hand has not been replaced by another.
Fresh == pc = "judging" => approved[Message.sender] \in {scan.key, None}

\* F full scans of message i for r, and G registrations.
Cost(r, i, F, G) ==
    /\ ~Scanning(r) /\ i <= scanPos[r] => F <= 1 + G
    /\ ~Scanning(r) /\ i > scanPos[r] =>
           F <= G /\ (F = G => Turned(r, scanPos[r] + 1, i))
    /\ Scanning(r) /\ i >= scan.next /\ ~Found =>
           F <= G /\ (F = G => Turned(r, scanPos[r] + 1, i) /\ Fresh)
    /\ Scanning(r) /\ i >= scan.next /\ Found =>
           F < G /\ (F + 1 = G => Turned(r, scan.pin + 1, scan.next - 1) /\ Fresh)
    /\ Scanning(r) /\ i < scan.next /\ (~Found \/ i <= scan.pin) => F <= 1 + G
    /\ Scanning(r) /\ i < scan.next /\ Found /\ i > scan.pin =>
           F <= G /\ (F = G => Turned(r, scan.pin + 1, i))

CostInv ==
    /\ \A r \in Junctions, i \in Positions : Cost(r, i, FullScans(r, i), Registrations)
    /\ \A j \in Junctions : approved[j] # None => Registrations # 0

\* The counts, and what a step adds to them.
LEMMA ScansCounted ==
    ASSUME TypeOK, NEW r, NEW i
    PROVE  /\ FullScans(r, i) \in Nat
           /\ UNCHANGED judged => FullScans(r, i)' = FullScans(r, i)
           /\ \A verdict : Judges(verdict) =>
                 /\ scan.filter = 0 /\ scan.to = r /\ scan.next = i =>
                       FullScans(r, i)' = FullScans(r, i) + 1
                 /\ ~(scan.filter = 0 /\ scan.to = r /\ scan.next = i) =>
                       FullScans(r, i)' = FullScans(r, i)
<1> DEFINE S == {n \in DOMAIN judged :
                    judged[n].full /\ judged[n].to = r /\ judged[n].msg = i}
<1>0. Len(judged) \in Nat /\ DOMAIN judged = 1 .. Len(judged)
    BY DEF TypeOK
<1>1. IsFiniteSet(S)
  <2>1. IsFiniteSet(DOMAIN judged)
      BY <1>0, FS_Interval
  <2> QED
      BY <2>1, FS_Subset
<1>2. FullScans(r, i) = Cardinality(S) /\ Cardinality(S) \in Nat
    BY <1>1, FS_CardinalityType DEF FullScans
<1>3. ASSUME NEW verdict, Judges(verdict)
      PROVE  /\ scan.filter = 0 /\ scan.to = r /\ scan.next = i =>
                       FullScans(r, i)' = FullScans(r, i) + 1
             /\ ~(scan.filter = 0 /\ scan.to = r /\ scan.next = i) =>
                       FullScans(r, i)' = FullScans(r, i)
  <2> DEFINE new == Len(judged) + 1
             T == {n \in DOMAIN judged' :
                    judged'[n].full /\ judged'[n].to = r /\ judged'[n].msg = i}
  <2>0. new \notin DOMAIN judged
      BY <1>0
  <2>1. /\ DOMAIN judged' = DOMAIN judged \cup {new}
        /\ judged'[new].to = scan.to /\ judged'[new].msg = scan.next
        /\ judged'[new].full <=> scan.filter = 0
        /\ \A n \in DOMAIN judged : judged'[n] = judged[n]
      BY <1>3, NewVerdict
  <2>2. FullScans(r, i)' = Cardinality(T)
      BY DEF FullScans
  <2> HIDE DEF new
  <2>3. CASE scan.filter = 0 /\ scan.to = r /\ scan.next = i
    <3>1. T = S \cup {new} /\ new \notin S
        BY <2>0, <2>1, <2>3
    <3> HIDE DEF S, T
    <3>2. Cardinality(T) = Cardinality(S) + 1
        BY <1>1, <3>1, FS_AddElement
    <3> QED
        BY <1>2, <2>2, <2>3, <3>2
  <2>4. CASE ~(scan.filter = 0 /\ scan.to = r /\ scan.next = i)
    <3>1. T = S
        BY <2>1, <2>4
    <3> QED
        BY <1>2, <2>2, <2>4, <3>1
  <2> QED
      BY <2>3, <2>4
<1>4. UNCHANGED judged => FullScans(r, i)' = FullScans(r, i)
    BY DEF FullScans
<1> QED
    BY <1>2, <1>3, <1>4

LEMMA Appended ==
    ASSUME NEW S, NEW s \in Seq(S), NEW e \in S
    PROVE  /\ DOMAIN Append(s, e) = DOMAIN s \cup {Len(s) + 1}
           /\ Len(s) + 1 \notin DOMAIN s
           /\ Append(s, e)[Len(s) + 1] = e
           /\ \A n \in DOMAIN s : Append(s, e)[n] = s[n]
OBVIOUS

LEMMA RegistrationsCounted ==
    ASSUME TypeOK
    PROVE  /\ Registrations \in Nat
           /\ UNCHANGED log => Registrations' = Registrations
           /\ \A e \in [action : {"register", "revoke"}, junction : Junctions] :
                 log' = Append(log, e) =>
                 /\ e.action = "register" => Registrations' = Registrations + 1
                 /\ e.action # "register" => Registrations' = Registrations
<1> DEFINE S == {n \in DOMAIN log : log[n].action = "register"}
<1>0. Len(log) \in Nat /\ DOMAIN log = 1 .. Len(log)
    BY DEF TypeOK
<1>1. IsFiniteSet(S)
  <2>1. IsFiniteSet(DOMAIN log)
      BY <1>0, FS_Interval
  <2> QED
      BY <2>1, FS_Subset
<1>2. Registrations = Cardinality(S) /\ Cardinality(S) \in Nat
    BY <1>1, FS_CardinalityType DEF Registrations
<1>3. ASSUME NEW e \in [action : {"register", "revoke"}, junction : Junctions],
             log' = Append(log, e)
      PROVE  /\ e.action = "register" => Registrations' = Registrations + 1
             /\ e.action # "register" => Registrations' = Registrations
  <2> DEFINE new == Len(log) + 1
             T == {n \in DOMAIN log' : log'[n].action = "register"}
             E == [action : {"register", "revoke"}, junction : Junctions]
  <2>0. log \in Seq(E) /\ e \in E
      BY DEF TypeOK
  <2> HIDE DEF E
  <2>1. /\ new \notin DOMAIN log /\ DOMAIN log' = DOMAIN log \cup {new}
        /\ log'[new] = e
        /\ \A n \in DOMAIN log : log'[n] = log[n]
      BY <1>3, <2>0, Appended
  <2>2. Registrations' = Cardinality(T)
      BY DEF Registrations
  <2> HIDE DEF new
  <2>3. CASE e.action = "register"
    <3>1. T = S \cup {new} /\ new \notin S
        BY <2>1, <2>3
    <3> HIDE DEF S, T
    <3>2. Cardinality(T) = Cardinality(S) + 1
        BY <1>1, <3>1, FS_AddElement
    <3> QED
        BY <1>2, <2>2, <2>3, <3>2
  <2>4. CASE e.action # "register"
    <3>1. T = S
        BY <2>1, <2>4
    <3> QED
        BY <1>2, <2>2, <2>4, <3>1
  <2> QED
      BY <2>3, <2>4
<1>4. UNCHANGED log => Registrations' = Registrations
    BY DEF Registrations
<1> QED
    BY <1>2, <1>3, <1>4

\* What cannot be delivered stays so until a junction is registered.
LEMMA BlockedStays ==
    ASSUME TypeOK, NEW r \in Junctions, NEW k \in Positions, Blocked(r, k),
           published'[k] = published[k], delivered \subseteq delivered',
           \A j \in Junctions : approved'[j] \in {approved[j], None}
    PROVE  Blocked(r, k)'
<1>1. published[k] \in [sender : Junctions, t : Ticks, key : Keys]
    BY MessageTyped DEF Positions
<1>2. published[k].sender \in Junctions /\ published[k].key # None
    BY <1>1, BusAssumption
<1> QED
    BY <1>2 DEF Blocked

LEMMA TurnedStays ==
    ASSUME TypeOK, NEW r \in Junctions,
           \A k \in Positions : Blocked(r, k) => Blocked(r, k)'
    PROVE  \A lo \in Nat \ {0}, hi \in Nat : hi <= Len(published) /\ Turned(r, lo, hi) =>
              \A k \in lo .. hi : Blocked(r, k)'
<1>1. Len(published) \in Nat
    BY DEF TypeOK
<1> QED
    BY <1>1 DEF Turned, Positions

\* A key is approved only after a registration.
LEMMA ApprovedNext ==
    ASSUME TypeOK, [Next]_vars, \A j \in Junctions : approved[j] # None => Registrations # 0
    PROVE  \A j \in Junctions : approved'[j] # None => Registrations' # 0
<1>1. CASE RegistryStep
  <2>1. PICK e \in [action : {"register", "revoke"}, junction : Junctions] :
           /\ log' = Append(log, e)
           /\ \/ e.action = "register"
              \/ \A j \in Junctions : approved'[j] \in {approved[j], None}
      BY <1>1 DEF RegistryStep
  <2>2. CASE e.action = "register"
    <3>1. Registrations \in Nat /\ Registrations' = Registrations + 1
        BY <2>1, <2>2, RegistrationsCounted
    <3> QED
        BY <3>1
  <2>3. CASE e.action # "register"
    <3>1. Registrations' = Registrations
        BY <2>1, <2>3, RegistrationsCounted
    <3> QED
        BY <2>1, <2>3, <3>1
  <2> QED
      BY <2>2, <2>3
<1>2. CASE UNCHANGED <<approved, log>>
    BY <1>2, RegistrationsCounted
<1> QED
    BY <1>1, <1>2, Kinds
    DEF PublishStep, QuietStep, BeginStep, InboxBegins, Rejects, Delivers, Judges,
        InboxReturns, vars

\* A registration gives every message a scan more.
LEMMA CostRegistry ==
    ASSUME TypeOK, CostInv, RegistryStep, NEW r \in Junctions, NEW i \in Positions
    PROVE  Cost(r, i, FullScans(r, i), Registrations)'
<1>0. /\ UNCHANGED <<published, delivered, scanPos, pc, scan, judged>>
      /\ scan.next \in Nat \ {0} /\ scan.pin \in Nat /\ Len(published) \in Nat
      /\ scanPos[r] \in Nat /\ scanPos[r] <= Len(published)
      /\ i \in Nat /\ i <= Len(published)
      /\ Scanning(r) => scan.next <= Len(published) + 1 /\ scan.pin <= Len(published)
    BY DEF RegistryStep, TypeOK, Positions, Scanning
<1>1. PICK F \in Nat : F = FullScans(r, i) /\ F = FullScans(r, i)'
    BY <1>0, ScansCounted
<1>2. PICK G \in Nat : G = Registrations
    BY RegistrationsCounted
<1>3. Cost(r, i, F, G)
    BY <1>1, <1>2 DEF CostInv
<1>4. PICK e \in [action : {"register", "revoke"}, junction : Junctions] :
         /\ log' = Append(log, e)
         /\ \/ e.action = "register"
            \/ \A j \in Junctions : approved'[j] \in {approved[j], None}
    BY DEF RegistryStep
<1>5. CASE e.action = "register"
  <2>1. Registrations' = G + 1
      BY <1>2, <1>4, <1>5, RegistrationsCounted
  <2>3. F <= 1 + (G + 1) /\ (~(i < scan.next /\ (~Found \/ i <= scan.pin) /\ Scanning(r))
             /\ ~(~Scanning(r) /\ i <= scanPos[r]) => F < G + 1)
        /\ (Scanning(r) /\ i >= scan.next /\ Found => F + 1 < G + 1)
      BY <1>0, <1>1, <1>2, <1>3 DEF Cost
  <2>4. Scanning(r)' = Scanning(r) /\ Found' = Found
      BY <1>0 DEF Scanning, Found
  <2>5. Cost(r, i, F, G + 1)'
      BY <1>0, <1>1, <1>2, <2>3, <2>4 DEF Cost
  <2> QED
      BY <1>1, <2>1, <2>5 DEF Cost
<1>6. CASE e.action # "register"
  <2>1. Registrations' = G
      BY <1>2, <1>4, <1>6, RegistrationsCounted
  <2>2. \A k \in Positions : Blocked(r, k) => Blocked(r, k)'
      BY <1>0, <1>4, <1>6, BlockedStays
  <2>3. Scanning(r)' = Scanning(r) /\ Found' = Found
      BY <1>0 DEF Scanning, Found
  <2>4. Fresh => Fresh'
      BY <1>0, <1>4, <1>6, MessageTyped DEF Fresh, Message, TypeOK
  <2>5. \A lo \in Nat \ {0}, hi \in Nat : hi <= Len(published) /\ Turned(r, lo, hi) =>
           \A k \in lo .. hi : Blocked(r, k)'
      BY <2>2, TurnedStays
  <2>6. Cost(r, i, F, G)'
    <3>1. Scanning(r)' => scan.next - 1 \in Nat /\ scan.next - 1 <= Len(published)
        BY <1>0, <2>3
    <3>2. Scanning(r) /\ Turned(r, scan.pin + 1, scan.next - 1)
             => \A k \in scan.pin + 1 .. scan.next - 1 : Blocked(r, k)'
        BY <1>0, <2>3, <2>5, <3>1
    <3>3. Turned(r, scan.pin + 1, i) => \A k \in scan.pin + 1 .. i : Blocked(r, k)'
        BY <1>0, <2>5
    <3>4. Turned(r, scanPos[r] + 1, i) => \A k \in scanPos[r] + 1 .. i : Blocked(r, k)'
        BY <1>0, <2>5
    <3> QED
        BY <1>0, <1>3, <2>3, <2>4, <3>2, <3>3, <3>4 DEF Cost, Turned
  <2> QED
      BY <1>1, <2>1, <2>6 DEF Cost
<1> QED
    BY <1>5, <1>6

\* A new message has not been looked at, and without a registration no
\* message can be delivered.
LEMMA CostPublish ==
    ASSUME TypeOK, CostInv, [Next]_vars, PublishStep, NEW r \in Junctions, NEW i \in Positions'
    PROVE  Cost(r, i, FullScans(r, i), Registrations)'
<1>0. /\ UNCHANGED <<approved, log, delivered, scanPos, pc, scan, judged>>
      /\ pc = "idle" /\ Len(published) \in Nat
      /\ scanPos[r] \in Nat /\ scanPos[r] <= Len(published)
    BY DEF PublishStep, TypeOK
<1>1. /\ Len(published') = Len(published) + 1
      /\ \A k \in Positions : published'[k] = published[k]
  <2> DEFINE M == [sender : Junctions, t : Ticks, key : Keys]
  <2>1. published \in Seq(M) /\ \E m \in M : published' = Append(published, m)
      BY DEF PublishStep, TypeOK
  <2> HIDE DEF M
  <2> QED
      BY <2>1 DEF Positions
<1>2. PICK F \in Nat : F = FullScans(r, i) /\ F = FullScans(r, i)'
    BY <1>0, ScansCounted
<1>3. PICK G \in Nat : G = Registrations /\ G = Registrations'
    BY <1>0, RegistrationsCounted
<1>4. \A k \in Positions : Blocked(r, k) => Blocked(r, k)'
    BY <1>0, <1>1 DEF Blocked
<1>5. \A lo \in Nat \ {0}, hi \in Nat : hi <= Len(published) /\ Turned(r, lo, hi) =>
         \A k \in lo .. hi : Blocked(r, k)'
    BY <1>4, TurnedStays
<1>6. /\ ~Scanning(r) /\ ~Scanning(r)' /\ scanPos' = scanPos
      /\ i \in Nat /\ i # 0 /\ i <= Len(published) + 1
    BY <1>0, <1>1 DEF Scanning, Positions
<1>7. CASE i \in Positions
  <2>1. Cost(r, i, F, G)
      BY <1>2, <1>3, <1>7 DEF CostInv
  <2>2. i <= Len(published)
      BY <1>0, <1>7 DEF Positions
  <2>3. Turned(r, scanPos[r] + 1, i) => \A k \in scanPos[r] + 1 .. i : Blocked(r, k)'
      BY <1>0, <1>5, <1>6, <2>2
  <2> QED
      BY <1>2, <1>3, <1>6, <2>1, <2>3 DEF Cost, Turned
<1>8. CASE i \notin Positions
  <2>1. F = 0
    <3>1. {n \in DOMAIN judged :
              judged[n].full /\ judged[n].to = r /\ judged[n].msg = i} = {}
        BY <1>8, JudgedTyped
    <3> QED
        BY <1>2, <3>1, FS_EmptySet DEF FullScans
  <2>2. ASSUME G = 0, NEW k \in Positions'
        PROVE  Blocked(r, k)'
    <3>1. published'[k].sender \in Junctions /\ published'[k].key # None
      <4>1. TypeOK'
          BY TypeNext
      <4>2. published'[k] \in [sender : Junctions, t : Ticks, key : Keys]
        <5> DEFINE M == [sender : Junctions, t : Ticks, key : Keys]
        <5>1. published' \in Seq(M)
            BY <4>1 DEF TypeOK
        <5>2. k \in 1 .. Len(published')
            BY <2>2 DEF Positions
        <5> HIDE DEF M
        <5>3. published'[k] \in M
            BY <5>1, <5>2, ElementInSet
        <5> QED
            BY <5>3 DEF M
      <4> QED
          BY <4>2, BusAssumption
    <3>2. approved'[published'[k].sender] = None
        BY <1>0, <1>3, <2>2, <3>1 DEF CostInv
    <3> QED
        BY <3>1, <3>2 DEF Blocked
  <2>3. G = 0 => \A k \in scanPos[r] + 1 .. i : Blocked(r, k)'
    <3>1. \A k \in scanPos[r] + 1 .. i : k \in Positions'
        BY <1>0, <1>1, <1>6 DEF Positions
    <3> QED
        BY <2>2, <3>1
  <2>4. scanPos'[r] = scanPos[r]
      BY <1>6
  <2>5. F <= G /\ F <= 1 + G /\ (F = G => G = 0)
    <3>1. F \in Nat /\ G \in Nat
        BY <1>2, <1>3
    <3> QED
        BY <2>1, <3>1
  <2> QED
      BY <1>2, <1>3, <1>6, <2>3, <2>4, <2>5 DEF Cost, Turned
<1> QED
    BY <1>7, <1>8

\* A call that begins or goes on: nothing is counted.
LEMMA CostQuiet ==
    ASSUME TypeOK, CostInv, QuietStep \/ BeginStep, NEW r \in Junctions, NEW i \in Positions
    PROVE  Cost(r, i, FullScans(r, i), Registrations)'
<1>0. /\ UNCHANGED <<approved, log, published, delivered, scanPos, judged>>
      /\ Len(published) \in Nat /\ scanPos[r] \in Nat
      /\ i \in Nat /\ i # 0 /\ i <= Len(published)
    BY DEF QuietStep, BeginStep, InboxBegins, TypeOK, Positions
<1>1. PICK F \in Nat : F = FullScans(r, i) /\ F = FullScans(r, i)'
    BY <1>0, ScansCounted
<1>2. PICK G \in Nat : G = Registrations /\ G = Registrations'
    BY <1>0, RegistrationsCounted
<1>3. Cost(r, i, F, G)
    BY <1>1, <1>2 DEF CostInv
<1>4. \A k : Blocked(r, k) => Blocked(r, k)'
    BY <1>0 DEF Blocked
<1>5. CASE QuietStep
  <2>1. \/ ~Scanning(r) /\ ~Scanning(r)'
        \/ /\ Scanning(r) /\ Scanning(r)' /\ Found' = Found /\ Fresh'
           /\ scan'.next = scan.next /\ scan'.pin = scan.pin
    <3>1. CASE scan'.filter # 0
        BY <1>5, <3>1 DEF QuietStep, Scanning
    <3>2. CASE /\ pc' = "judging"
               /\ scan' = [to |-> scan.to, filter |-> scan.filter, next |-> scan.next,
                           pin |-> scan.pin, key |-> approved[Message.sender]]
      <4>1. Message' = Message
          BY <1>0, <3>2 DEF Message
      <4>2. Fresh'
          BY <1>0, <3>2, <4>1 DEF Fresh
      <4> QED
          BY <1>0, <1>5, <3>2, <4>2 DEF QuietStep, Scanning, Found
    <3> QED
        BY <1>5, <3>1, <3>2 DEF QuietStep
  <2> QED
      BY <1>0, <1>1, <1>2, <1>3, <1>4, <2>1 DEF Cost, Turned
<1>6. CASE BeginStep
  <2>1. PICK s \in Junctions, f \in Filters : InboxBegins(s, f)
      BY <1>6 DEF BeginStep
  <2>2. ~Scanning(r) /\ Fresh'
      BY <2>1 DEF InboxBegins, Scanning, Fresh
  <2>3. Scanning(r)' => scan'.next = scanPos[r] + 1 /\ ~Found'
      BY <1>0, <2>1 DEF InboxBegins, Scanning, Found
  <2> QED
      BY <1>0, <1>1, <1>2, <1>3, <1>4, <2>2, <2>3 DEF Cost, Turned
<1> QED
    BY <1>5, <1>6

\* The call returns: its cursor is the recipient's.
LEMMA CostReturns ==
    ASSUME TypeOK, CostInv, InboxReturns, NEW r \in Junctions, NEW i \in Positions
    PROVE  Cost(r, i, FullScans(r, i), Registrations)'
<1>0. /\ UNCHANGED <<approved, log, published, delivered, judged>>
      /\ Len(published) \in Nat /\ scanPos[r] \in Nat /\ scan.pin \in Nat
      /\ i \in Nat /\ i # 0 /\ i <= Len(published) /\ i < scan.next
      /\ pc = "scanning" /\ pc' = "idle"
    BY DEF InboxReturns, TypeOK, Positions
<1>1. PICK F \in Nat : F = FullScans(r, i) /\ F = FullScans(r, i)'
    BY <1>0, ScansCounted
<1>2. PICK G \in Nat : G = Registrations /\ G = Registrations'
    BY <1>0, RegistrationsCounted
<1>3. Cost(r, i, F, G)
    BY <1>1, <1>2 DEF CostInv
<1>4. \A k : Blocked(r, k) => Blocked(r, k)'
    BY <1>0 DEF Blocked
<1>5. ~Scanning(r)'
    BY <1>0 DEF Scanning
<1>6. /\ Scanning(r) => scanPos'[r] = scan.pin
      /\ ~Scanning(r) => scanPos'[r] = scanPos[r]
    BY <1>0 DEF InboxReturns, Scanning, TypeOK
<1>7. i > scan.pin => Found
    BY <1>0 DEF Found
<1> QED
    BY <1>0, <1>1, <1>2, <1>3, <1>4, <1>5, <1>6, <1>7 DEF Cost, Turned

\* With a fresh key in hand: what is turned down could not be delivered, what
\* is delivered could, and cannot be again.
LEMMA NextTurnedDown ==
    ASSUME TypeOK, Scanning(scan.to), scan.next <= Len(published), Dismissed, Fresh
    PROVE  Blocked(scan.to, scan.next)
<1>1. Message \in [sender : Junctions, t : Ticks, key : Keys]
    BY MessageTyped DEF TypeOK, Message
<1>2. Message.key # None
    BY <1>1, BusAssumption
<1> QED
    BY <1>2 DEF Dismissed, Fresh, Blocked, Message, Token

LEMMA NextDelivered ==
    ASSUME TypeOK, PinSound, Delivers, NEW r \in Junctions, Scanning(r),
           NEW k, k = scan.next
    PROVE  /\ Fresh => ~Blocked(r, k)
           /\ Blocked(r, k)'
<1>1. r = scan.to
    BY DEF Scanning
<1>2. Message.sender \in Neighbours[r]
    BY DEF PinSound, Delivers
<1>3. Fresh => ~Blocked(r, k)
    BY <1>1, <1>2 DEF Delivers, Fresh, Blocked, Message, Token
<1>4. /\ published' = published
      /\ <<r, published[k].sender, published[k].t>> \in delivered'
    BY <1>1 DEF Delivers, Judges, Message, Token
<1> QED
    BY <1>3, <1>4 DEF Blocked

\* A verdict counts one scan of the message at the cursor.
LEMMA CostVerdict ==
    ASSUME TypeOK, PinSound, CostInv, NEW verdict, Judges(verdict),
           Delivers \/ Rejects(verdict),
           NEW r \in Junctions, NEW i \in Positions
    PROVE  Cost(r, i, FullScans(r, i), Registrations)'
<1>0. /\ UNCHANGED <<approved, log, published, scanPos>> /\ delivered \subseteq delivered'
      /\ pc # "idle" /\ pc' = "scanning"
      /\ scan'.to = scan.to /\ scan'.filter = scan.filter
      /\ scan.next \in Nat \ {0} /\ scan.next <= Len(published) /\ scan'.next = scan.next + 1
      /\ Len(published) \in Nat /\ scanPos[r] \in Nat /\ scan.pin \in Nat
      /\ i \in Nat /\ i # 0 /\ i <= Len(published)
    BY DEF Judges, Delivers, Rejects, TypeOK, Positions
<1>1. PICK F \in Nat : F = FullScans(r, i)
    BY ScansCounted
<1>2. PICK G \in Nat : G = Registrations /\ G = Registrations'
    BY <1>0, RegistrationsCounted
<1>3. Cost(r, i, F, G)
    BY <1>1, <1>2 DEF CostInv
<1>4. \A k \in Positions : Blocked(r, k) => Blocked(r, k)'
    BY <1>0 DEF Blocked
<1>5. \A lo \in Nat \ {0}, hi \in Nat : hi <= Len(published) /\ Turned(r, lo, hi) =>
         \A k \in lo .. hi : Blocked(r, k)'
    BY <1>4, TurnedStays
<1>6. Fresh' /\ Scanning(r)' = Scanning(r)
    BY <1>0 DEF Fresh, Scanning
<1>7. CASE ~Scanning(r)
  <2>1. F = FullScans(r, i)'
      BY <1>0, <1>1, <1>7, ScansCounted DEF Scanning
  <2>2. Turned(r, scanPos[r] + 1, i) => \A k \in scanPos[r] + 1 .. i : Blocked(r, k)'
      BY <1>0, <1>5
  <2> QED
      BY <1>0, <1>1, <1>2, <1>3, <1>6, <1>7, <2>1, <2>2 DEF Cost, Turned
<1>8. CASE Scanning(r)
  <2>1. PICK n \in Nat \ {0} : n = scan.next /\ n \in Positions /\ scan'.next = n + 1
      BY <1>0 DEF Positions
  <2>2. PICK H \in Nat : /\ H = FullScans(r, i)'
                         /\ i = n => H = F + 1
                         /\ i # n => H = F
    <3>1. i = n => FullScans(r, i)' = F + 1
        BY <1>1, <1>8, <2>1, ScansCounted DEF Scanning
    <3>2. i # n => FullScans(r, i)' = F
        BY <1>1, <1>8, <2>1, ScansCounted DEF Scanning
    <3> QED
        BY <1>1, <3>1, <3>2
  <2>3. /\ scanPos[r] <= scan.pin /\ scanPos[r] < n
        /\ Found => scan.pin < n
      BY <1>8, <2>1 DEF PinSound, Found
  <2>4. /\ Turned(r, scanPos[r] + 1, i) => \A k \in scanPos[r] + 1 .. i : Blocked(r, k)'
        /\ Turned(r, scan.pin + 1, i) => \A k \in scan.pin + 1 .. i : Blocked(r, k)'
        /\ Turned(r, scan.pin + 1, n - 1) => \A k \in scan.pin + 1 .. n - 1 : Blocked(r, k)'
    <3>1. n - 1 \in Nat /\ n - 1 <= Len(published)
        BY <1>0, <2>1
    <3> QED
        BY <1>0, <1>5, <3>1
  <2>5. ASSUME scan'.pin = scan.pin, Fresh => Blocked(r, n)', ~Delivers \/ Found
        PROVE  Cost(r, i, H, G)'
    <3>1. Found' = Found
        BY <1>0, <2>5 DEF Found
    <3>2. (Fresh /\ Turned(r, scan.pin + 1, n - 1)) =>
             \A k \in scan.pin + 1 .. n : Blocked(r, k)'
      <4> SUFFICES ASSUME Fresh, Turned(r, scan.pin + 1, n - 1),
                          NEW k \in scan.pin + 1 .. n
                   PROVE  Blocked(r, k)'
          OBVIOUS
      <4>1. k = n \/ k \in scan.pin + 1 .. n - 1
          BY <1>0, <2>1
      <4> QED
          BY <2>4, <2>5, <4>1
    <3>3. CASE i < n
        BY <1>0, <1>1, <1>2, <1>3, <1>6, <1>8, <2>1, <2>2, <2>3, <2>4, <2>5, <3>1, <3>3
        DEF Cost, Turned
    <3>4. CASE i = n /\ ~Found
        BY <1>0, <1>1, <1>2, <1>3, <1>6, <1>8, <2>1, <2>2, <2>3, <2>5, <3>1, <3>4
        DEF Cost
    <3>5. CASE i > n /\ ~Found
        BY <1>0, <1>1, <1>2, <1>3, <1>6, <1>8, <2>1, <2>2, <2>3, <2>4, <2>5, <3>1, <3>5
        DEF Cost, Turned
    <3>6. CASE i >= n /\ Found
      <4>1. F < G /\ (F + 1 = G => \A k \in scan.pin + 1 .. n : Blocked(r, k)')
          BY <1>3, <1>8, <2>1, <3>2, <3>6 DEF Cost
      <4>2. CASE i = n
          BY <1>0, <1>1, <1>2, <1>6, <1>8, <2>1, <2>2, <2>3, <2>5, <3>1, <3>6, <4>1, <4>2
          DEF Cost, Turned
      <4>3. CASE i > n
        <5>1. i >= n + 1 /\ ~(i < n + 1) /\ (n + 1) - 1 = n /\ H = F
            BY <1>0, <2>1, <2>2, <4>3
        <5> QED
            BY <1>0, <1>1, <1>2, <1>6, <1>8, <2>1, <2>5, <3>1, <3>6, <4>1, <5>1
            DEF Cost, Turned
      <4> QED
          BY <1>0, <2>1, <3>6, <4>2, <4>3
    <3> QED
        BY <1>0, <2>1, <3>3, <3>4, <3>5, <3>6
  <2>6. CASE Rejects(verdict)
    <3>1. Fresh => Blocked(r, n)'
      <4>1. Fresh => Blocked(scan.to, scan.next)
          BY <1>0, <1>8, <2>6, NextTurnedDown DEF Rejects, Scanning
      <4> QED
          BY <1>4, <1>8, <2>1, <4>1 DEF Scanning
    <3>2. verdict # "delivered" \/ Delivers \/ ~Delivers
        OBVIOUS
    <3>3. ~Delivers
      <4>1. Token(Message) \in delivered' => Token(Message) \in delivered
          BY <2>6 DEF Rejects
      <4> QED
          BY <4>1 DEF Delivers
    <3> QED
        BY <2>2, <2>5, <2>6, <3>1, <3>3, <1>2 DEF Rejects, Cost
  <2>7. CASE Delivers
    <3>1. /\ Fresh => ~Blocked(r, n)
          /\ Blocked(r, n)'
        BY <1>8, <2>1, <2>7, NextDelivered
    <3>2. CASE Found
      <4>1. scan'.pin = scan.pin
          BY <2>7, <3>2 DEF Delivers, Found
      <4> QED
          BY <1>2, <2>2, <2>5, <3>1, <3>2, <4>1 DEF Cost
    <3>3. CASE ~Found
      <4>1. scan'.pin = n - 1 /\ Found'
          BY <1>0, <1>8, <2>1, <2>7, <3>3 DEF Delivers, Found, Scanning
      <4>2. ~(Turned(r, scanPos[r] + 1, i) /\ Fresh /\ i >= n)
        <5>1. n <= i => n \in scanPos[r] + 1 .. i
            BY <1>0, <2>1, <2>3
        <5> QED
            BY <1>0, <2>1, <3>1, <5>1 DEF Turned
      <4>3. i >= n => F < G
          BY <1>1, <1>2, <1>3, <1>8, <2>1, <3>3, <4>2 DEF Cost
      <4>4. i < n => F <= 1 + G
          BY <1>3, <1>8, <2>1, <3>3 DEF Cost
      <4>5. \A k \in n .. n : Blocked(r, k)'
          BY <2>1, <3>1
      <4>6. Cost(r, i, H, G)'
        <5>1. CASE i < n
          <6>1. i < n + 1 /\ i <= n - 1 /\ ~(i > n - 1) /\ ~(i >= n + 1) /\ H = F
              BY <1>0, <2>1, <2>2, <5>1
          <6> QED
              BY <1>2, <1>6, <1>8, <2>1, <4>1, <4>4, <5>1, <6>1 DEF Cost
        <5>2. CASE i = n
          <6>1. /\ i < n + 1 /\ i > n - 1 /\ ~(i >= n + 1) /\ H = F + 1 /\ H <= G
                /\ ~(i <= n - 1) /\ (n - 1) + 1 = n
              BY <1>0, <1>1, <1>2, <2>1, <2>2, <4>3, <5>2
          <6> QED
              BY <1>2, <1>6, <1>8, <2>1, <4>1, <4>5, <5>2, <6>1 DEF Cost, Turned
        <5>3. CASE i > n
          <6>1. /\ i >= n + 1 /\ ~(i < n + 1) /\ H = F /\ H < G
                /\ (n - 1) + 1 = n /\ (n + 1) - 1 = n
              BY <1>0, <1>1, <1>2, <2>1, <2>2, <4>3, <5>3
          <6> QED
              BY <1>2, <1>6, <1>8, <2>1, <4>1, <4>5, <5>3, <6>1 DEF Cost, Turned
        <5> QED
            BY <1>0, <2>1, <5>1, <5>2, <5>3
      <4> QED
          BY <1>2, <2>2, <4>6 DEF Cost
    <3> QED
        BY <3>2, <3>3
  <2> QED
      BY <2>6, <2>7
<1> QED
    BY <1>7, <1>8

LEMMA CostNext ==
    TypeOK /\ PinSound /\ CostInv /\ [Next]_vars => CostInv'
<1> SUFFICES ASSUME TypeOK, PinSound, CostInv, [Next]_vars
             PROVE  CostInv'
    OBVIOUS
<1>1. \A j \in Junctions : approved'[j] # None => Registrations' # 0
    BY ApprovedNext DEF CostInv
<1>2. ASSUME NEW r \in Junctions, NEW i \in Positions'
      PROVE  Cost(r, i, FullScans(r, i), Registrations)'
  <2>1. CASE PublishStep
      BY <1>2, <2>1, CostPublish
  <2>2. CASE UNCHANGED published
    <3>1. i \in Positions
        BY <1>2, <2>2 DEF Positions
    <3>2. CASE UNCHANGED vars
      <4>1. /\ Scanning(r)' = Scanning(r) /\ Found' = Found /\ Fresh' = Fresh
            /\ \A k : Blocked(r, k)' = Blocked(r, k)
          BY <3>2 DEF vars, Scanning, Found, Fresh, Message, Blocked
      <4>2. FullScans(r, i)' = FullScans(r, i) /\ Registrations' = Registrations
          BY <3>2 DEF vars, FullScans, Registrations
      <4> QED
          BY <3>1, <3>2, <4>1, <4>2 DEF vars, CostInv, Cost, Turned
    <3>3. ASSUME NEW reason \in Reasons, Rejects(reason)
          PROVE  Cost(r, i, FullScans(r, i), Registrations)'
        BY <3>1, <3>3, CostVerdict DEF Rejects
    <3>4. CASE Delivers
        BY <3>1, <3>4, CostVerdict DEF Delivers
    <3> QED
        BY <2>1, <3>1, <3>2, <3>3, <3>4, Kinds, CostRegistry, CostQuiet, CostReturns
  <2> QED
      BY <2>1, <2>2, Kinds
      DEF RegistryStep, QuietStep, BeginStep, InboxBegins, Rejects, Delivers, Judges,
          InboxReturns, vars
<1> QED
    BY <1>1, <1>2 DEF CostInv

LEMMA CostInit == Init => CostInv
<1> SUFFICES ASSUME Init
             PROVE  CostInv
    OBVIOUS
<1>1. Positions = {}
    BY DEF Init, Positions
<1>2. \A j \in Junctions : approved[j] = None
    BY DEF Init
<1> QED
    BY <1>1, <1>2 DEF CostInv

\* The cursor keeps the cost linear: a full scan looks at a message once, and
\* once more for every registration at most.  Where the cursor stays, no
\* message between it and the one counted could be delivered (CostInv), and
\* only a registration changes that.
THEOREM ScansBoundedTheorem == Spec => []ScansBounded
<1>1. TypeOK /\ PinSound /\ CostInv => ScansBounded
  <2> SUFFICES ASSUME TypeOK, PinSound, CostInv, NEW r \in Junctions, NEW i \in Positions
               PROVE  FullScans(r, i) <= 1 + Registrations
      BY DEF ScansBounded
  <2>1. PICK F \in Nat : F = FullScans(r, i)
      BY ScansCounted
  <2>2. PICK G \in Nat : G = Registrations
      BY RegistrationsCounted
  <2>3. Cost(r, i, F, G)
      BY <2>1, <2>2 DEF CostInv
  <2>4. i \in Nat /\ scanPos[r] \in Nat /\ scan.next \in Nat /\ scan.pin \in Nat
      BY DEF TypeOK, Positions
  <2>5. F <= 1 + G
      BY <2>1, <2>2, <2>3, <2>4 DEF Cost
  <2> QED
      BY <2>1, <2>2, <2>5
<1> QED
    BY <1>1, CostInit, CostNext, MetInit, TypeInit, TypeNext, PinNext, PTL DEF Spec
=============================================================================
