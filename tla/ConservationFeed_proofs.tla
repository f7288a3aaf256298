---------------------- MODULE ConservationFeed_proofs ----------------------
(***************************************************************************)
(* What CusumDetector keeps for every threshold, slack, warm-up and        *)
(* residual, and ConservationFeed for every window, retention, lie and     *)
(* traffic.  The sums are kept by an invariant that adds to the properties *)
(* that a streak of large residuals has been summed up.  The feed's says   *)
(* that the events still logged account for how the edge filled since any  *)
(* moment the log reaches back to.                                         *)
(***************************************************************************)
EXTENDS ConservationFeed, FiniteSetTheorems, SequenceTheorems, WellFoundedInduction, TLAPS

CusumTypes ==
    /\ sHi \in Int /\ sLo \in Int
    /\ seen \in Nat /\ streak \in Nat
    /\ drift \in Nat \cup {None}

\* drift_start_window is set exactly while a sum is off zero.
DriftTracked ==
    /\ drift # None <=> sHi > 0 \/ sLo > 0
    /\ drift # None => drift \in Warmup + 1 .. seen

StreakSummed == Band >= Slack => streak * (Band - Slack) <= sHi

CusumInv == CusumTypes /\ SumsBounded /\ SumsOpposed /\ DriftTracked /\ StreakSummed

-----------------------------------------------------------------------------
\* One more window of the streak, without leaving the product to a prover.
LEMMA OneMore ==
    ASSUME NEW n \in Nat, NEW c \in Int
    PROVE  (n + 1) * c = n * c + c
OBVIOUS

LEMMA CusumInitInv == CusumInit => CusumInv
BY CusumAssumption
   DEF CusumInit, CusumInv, CusumTypes, SumsBounded, SumsOpposed, DriftTracked, StreakSummed, Verdict

\* The sums after a window, before a flag resets one.
LEMMA Folded ==
    ASSUME CusumInv, NEW z \in Int
    PROVE  /\ Fold(sHi, z) \in Nat /\ Fold(sLo, -z) \in Nat
           /\ Fold(sHi, z) >= sHi + z - Slack
           /\ Fold(sHi, z) > 0 /\ Fold(sLo, -z) > 0 => Fold(sHi, z) + Fold(sLo, -z) <= H
           /\ Fold(sHi, z) > H => Fold(sLo, -z) = 0
           /\ Fold(sLo, -z) > H => Fold(sHi, z) = 0
BY CusumAssumption DEF CusumInv, CusumTypes, SumsBounded, SumsOpposed, Fold

LEMMA DriftStarts ==
    ASSUME CusumInv, NEW hi \in Nat, NEW lo \in Nat, seen + 1 > Warmup
    PROVE  /\ DriftStart(hi, lo) # None <=> hi > 0 \/ lo > 0
           /\ DriftStart(hi, lo) # None => DriftStart(hi, lo) \in Warmup + 1 .. seen + 1
<1>1. /\ sHi \in Nat /\ sLo \in Nat /\ seen + 1 \in Nat /\ seen \in Nat
      /\ Warmup + 1 \in Nat /\ Warmup \in Nat
      /\ drift # None <=> sHi > 0 \/ sLo > 0
      /\ drift # None => drift \in Warmup + 1 .. seen
  BY CusumAssumption DEF CusumInv, CusumTypes, SumsBounded, DriftTracked
<1>2. CASE sHi <= 0 /\ sLo <= 0 /\ (hi > 0 \/ lo > 0)
  <2>1. DriftStart(hi, lo) = seen + 1
    BY <1>2 DEF DriftStart
  <2> QED
    BY <1>1, <1>2, <2>1, CusumAssumption
<1>3. CASE hi <= 0 /\ lo <= 0
  <2>1. DriftStart(hi, lo) = None
    BY <1>3 DEF DriftStart
  <2> QED
    BY <1>3, <2>1
<1>4. CASE ~(sHi <= 0 /\ sLo <= 0) /\ ~(hi <= 0 /\ lo <= 0)
  <2>1. DriftStart(hi, lo) = drift
    BY <1>4 DEF DriftStart
  <2>2. drift # None /\ (hi > 0 \/ lo > 0)
    BY <1>1, <1>4
  <2> QED
    BY <1>1, <2>1, <2>2
<1> QED
  BY <1>1, <1>2, <1>3, <1>4

LEMMA AccumulateInv ==
    ASSUME CusumInv, NEW z \in Int, seen + 1 > Warmup, seen' = seen + 1, Accumulate(z)
    PROVE  CusumInv'
<1> DEFINE hi == Fold(sHi, z)
           lo == Fold(sLo, -z)
<1>1. /\ hi \in Nat /\ lo \in Nat
      /\ hi >= sHi + z - Slack
      /\ hi > 0 /\ lo > 0 => hi + lo <= H
      /\ hi > H => lo = 0
      /\ lo > H => hi = 0
  BY Folded
<1>2. /\ DriftStart(hi, lo) # None <=> hi > 0 \/ lo > 0
      /\ DriftStart(hi, lo) # None => DriftStart(hi, lo) \in Warmup + 1 .. seen + 1
  BY <1>1, DriftStarts
<1>3. CASE Alarms(hi, lo)
  <2>1. sHi' = 0 /\ sLo' = 0 /\ drift' = None /\ streak' = 0
    <3>1. Raise(hi, lo) /\ streak' = 0
      BY <1>3 DEF Accumulate
    <3>2. sHi' = 0 /\ sLo' = 0
      BY <3>1, <1>3, <1>1, CusumAssumption DEF Raise, Alarms
    <3> QED
      BY <3>1, <3>2 DEF Raise
  <2>2. seen' = seen + 1
    OBVIOUS
  <2>3. CusumTypes' /\ SumsBounded' /\ SumsOpposed'
    BY <2>1, <2>2, CusumAssumption DEF CusumInv, CusumTypes, SumsBounded, SumsOpposed
  <2>4. DriftTracked'
    BY <2>1 DEF DriftTracked
  <2>5. StreakSummed'
    BY <2>1, CusumAssumption DEF StreakSummed
  <2> QED
    BY <2>3, <2>4, <2>5 DEF CusumInv
<1>4. CASE ~Alarms(hi, lo)
  <2>1. /\ sHi' = hi /\ sLo' = lo /\ drift' = DriftStart(hi, lo)
        /\ verdict'.status = "ok"
        /\ streak' = IF z < Band THEN 0 ELSE streak + 1
    BY <1>4 DEF Accumulate, Rest, Verdict
  <2>2. seen' = seen + 1 /\ hi <= H /\ lo <= H
    BY <1>4, <1>1, CusumAssumption DEF Alarms
  <2>3. CusumTypes' /\ SumsBounded' /\ SumsOpposed'
    BY <2>1, <2>2, <1>1, <1>2, CusumAssumption DEF CusumInv, CusumTypes, SumsBounded, SumsOpposed
  <2>4. DriftTracked'
    BY <2>1, <2>2, <1>2, CusumAssumption DEF CusumInv, CusumTypes, DriftTracked
  <2>5. StreakSummed'
    <3>1. CASE z < Band
      BY <3>1, <2>1, <1>1, CusumAssumption DEF StreakSummed
    <3>2. CASE z >= Band
      <4> DEFINE c == Band - Slack
      <4>1. c \in Int /\ streak \in Nat /\ (streak + 1) * c = streak * c + c
        BY OneMore, CusumAssumption DEF CusumInv, CusumTypes
      <4>2. streak * c \in Int /\ (Band >= Slack => streak * c <= sHi)
        BY <4>1 DEF CusumInv, StreakSummed
      <4>3. hi >= sHi + c
        BY <3>2, <1>1, CusumAssumption DEF CusumInv, CusumTypes
      <4>4. streak' = streak + 1 /\ sHi' = hi
        BY <3>2, <2>1, CusumAssumption
      <4>5. Band >= Slack => (streak + 1) * c <= hi
        <5> HIDE DEF c, hi
        <5> QED BY <4>1, <4>2, <4>3, <1>1 DEF CusumInv, CusumTypes
      <4> QED
        BY <4>4, <4>5 DEF StreakSummed
    <3> QED
      BY <3>1, <3>2, CusumAssumption
  <2> QED
    BY <2>3, <2>4, <2>5 DEF CusumInv
<1> QED
  BY <1>3, <1>4

LEMMA HoldInv ==
    ASSUME CusumInv, NEW status \in {"spillback", "warmup"}, seen' = seen + 1, Hold(status)
    PROVE  CusumInv'
BY CusumAssumption
   DEF Hold, Verdict, CusumInv, CusumTypes, SumsBounded, SumsOpposed, DriftTracked, StreakSummed

LEMMA CusumStep == CusumInv /\ [CusumNext]_cusumVars => CusumInv'
<1> SUFFICES ASSUME CusumInv, [CusumNext]_cusumVars PROVE CusumInv'
  OBVIOUS
<1>1. ASSUME NEW z \in Int, NEW jam \in BOOLEAN, Window(z, jam) PROVE CusumInv'
  <2>1. seen' = seen + 1
    BY <1>1 DEF Window
  <2>2. CASE jam
    BY <1>1, <2>1, <2>2, HoldInv DEF Window
  <2>3. CASE ~jam /\ seen + 1 <= Warmup
    BY <1>1, <2>1, <2>3, HoldInv DEF Window
  <2>4. CASE ~jam /\ ~(seen + 1 <= Warmup)
    <3>1. Accumulate(z) /\ seen + 1 > Warmup
      BY <1>1, <2>4, CusumAssumption DEF Window, CusumInv, CusumTypes
    <3> QED
      BY <3>1, <2>1, AccumulateInv
  <2> QED
    BY <2>2, <2>3, <2>4
<1>2. CASE UNCHANGED cusumVars
  BY <1>2
     DEF cusumVars, CusumInv, CusumTypes, SumsBounded, SumsOpposed, DriftTracked, StreakSummed
<1> QED
  BY <1>1, <1>2 DEF CusumNext

THEOREM CusumInvHolds == CusumSpec => []CusumInv
BY CusumInitInv, CusumStep, PTL DEF CusumSpec

-----------------------------------------------------------------------------
\* The sums are never both near the threshold, so that a flag ends the drift
\* on both sides (FlowConservationDetector.update resets only one).
THEOREM OpposedTheorem == CusumSpec => []SumsOpposed
<1>1. CusumInv => SumsOpposed
  BY DEF CusumInv
<1> QED
  BY <1>1, CusumInvHolds, PTL

\* A residual of one band or more is flagged within H / (Band - Slack)
\* windows and one, whatever came before and whatever jams lie in between.
THEOREM LatencyTheorem == CusumSpec => []SustainedIsFlagged
<1>1. CusumInv => SustainedIsFlagged
  <2> SUFFICES ASSUME CusumInv PROVE streak * (Band - Slack) <= H
    BY DEF SustainedIsFlagged
  <2>1. CASE Band >= Slack
    BY <2>1, CusumAssumption DEF CusumInv, CusumTypes, SumsBounded, StreakSummed
  <2>2. CASE Band < Slack
    <3> DEFINE c == Slack - Band
    <3>1. c \in Nat /\ streak \in Nat
      BY <2>2, CusumAssumption DEF CusumInv, CusumTypes
    <3>2. streak * c >= 0
      BY <3>1
    <3>3. streak * (Band - Slack) = -(streak * c)
      BY <3>1, CusumAssumption
    <3> QED
      BY <3>2, <3>3, <3>1, CusumAssumption
  <2> QED
    BY <2>1, <2>2, CusumAssumption
<1> QED
  BY <1>1, CusumInvHolds, PTL

-----------------------------------------------------------------------------
\* What the sums are sums of.  Excess is defined by recursion: that there is
\* such a function is shown by induction, as a set that has no least stranger.

LEMMA Induction ==
    ASSUME NEW Good, NEW n \in Nat, 0 \in Good,
           \A k \in 0 .. n : k > 0 /\ k - 1 \in Good => k \in Good
    PROVE  \A k \in 0 .. n : k \in Good
<1> DEFINE Bad == {k \in 0 .. n : k \notin Good}
<1>1. ASSUME Bad # {} PROVE FALSE
  <2>1. Bad \subseteq Nat
    OBVIOUS
  <2>2. PICK m \in Bad : \A y \in Bad : ~(<<y, m>> \in OpToRel(<, Nat))
    <3> HIDE DEF Bad
    <3> QED BY <1>1, <2>1, NatLessThanWellFounded, WFMin
  <2>3. m \in Nat /\ m <= n /\ m \notin Good /\ m > 0
    OBVIOUS
  <2>4. m - 1 \in Nat /\ m - 1 \in 0 .. n
    BY <2>3
  <2>5. m - 1 \notin Bad
    <3>1. <<m - 1, m>> \in OpToRel(<, Nat)
      BY <2>3, <2>4 DEF OpToRel
    <3> HIDE DEF Bad
    <3> QED BY <2>2, <3>1
  <2> QED BY <2>3, <2>4, <2>5
<1> QED BY <1>1

Sums(zs, n, sum) ==
    sum = [k \in 0 .. n |-> IF k = 0 THEN 0 ELSE sum[k - 1] + zs[k] - Slack]

LEMMA SumsStep ==
    ASSUME NEW zs, NEW n \in Nat, NEW sum, Sums(zs, n, sum), NEW k \in 0 .. n
    PROVE  sum[k] = IF k = 0 THEN 0 ELSE sum[k - 1] + zs[k] - Slack
BY DEF Sums

LEMMA SumExists ==
    ASSUME NEW zs, NEW n \in Nat
    PROVE  \E sum : Sums(zs, n, sum)
<1> DEFINE Good == {k \in 0 .. n : \E sum : Sums(zs, k, sum)}
<1>1. 0 \in Good
  <2> DEFINE f == [k \in 0 .. 0 |-> 0]
  <2>1. f = [k \in 0 .. 0 |-> IF k = 0 THEN 0 ELSE f[k - 1] + zs[k] - Slack]
    OBVIOUS
  <2>2. Sums(zs, 0, f)
    BY <2>1 DEF Sums
  <2> HIDE DEF f
  <2> QED BY <2>2
<1>2. ASSUME NEW m \in 0 .. n, m > 0, m - 1 \in Good PROVE m \in Good
  <2>1. PICK f : Sums(zs, m - 1, f)
    BY <1>2
  <2> DEFINE g == [k \in 0 .. m |-> IF k < m THEN f[k] ELSE f[m - 1] + zs[m] - Slack]
  <2>2. g = [k \in 0 .. m |-> IF k = 0 THEN 0 ELSE g[k - 1] + zs[k] - Slack]
    <3> SUFFICES ASSUME NEW k \in 0 .. m
                 PROVE  g[k] = IF k = 0 THEN 0 ELSE g[k - 1] + zs[k] - Slack
      OBVIOUS
    <3>1. CASE k < m
      <4>1. k \in 0 .. m - 1 /\ m - 1 \in Nat /\ (k > 0 => k - 1 \in 0 .. m - 1)
        BY <1>2, <3>1
      <4>2. f[k] = IF k = 0 THEN 0 ELSE f[k - 1] + zs[k] - Slack
        <5>1. m - 1 \in Nat /\ k \in 0 .. m - 1
          BY <4>1
        <5> HIDE DEF g
        <5> QED BY <2>1, <5>1 DEF Sums
      <4>3. g[k] = f[k] /\ (k > 0 => g[k - 1] = f[k - 1])
        BY <1>2, <3>1
      <4> HIDE DEF g
      <4> QED BY <4>1, <4>2, <4>3
    <3>2. CASE k = m
      BY <1>2, <3>2
    <3> QED BY <3>1, <3>2
  <2>3. Sums(zs, m, g)
    BY <2>2 DEF Sums
  <2> HIDE DEF g
  <2> QED BY <2>3
<1> HIDE DEF Good
<1>3. \A k \in 0 .. n : k \in Good
  BY <1>1, <1>2, Induction
<1>4. n \in Good
  BY <1>3
<1> USE DEF Good
<1> QED BY <1>4

LEMMA ExcessSums ==
    ASSUME NEW zs \in Seq(Int)
    PROVE  \E sum : Sums(zs, Len(zs), sum) /\ Excess(zs) = sum[Len(zs)]
<1>1. \E sum : Sums(zs, Len(zs), sum)
  <2>1. Len(zs) \in Nat
    BY LenProperties
  <2> QED BY <2>1, SumExists
<1>2. Sums(zs, Len(zs), CHOOSE sum : Sums(zs, Len(zs), sum))
  BY <1>1
<1>3. Excess(zs) = (CHOOSE sum : Sums(zs, Len(zs), sum))[Len(zs)]
  BY DEF Excess, Sums
<1> QED BY <1>2, <1>3

LEMMA SumsAreInt ==
    ASSUME NEW zs \in Seq(Int), NEW sum, Sums(zs, Len(zs), sum)
    PROVE  \A k \in 0 .. Len(zs) : sum[k] \in Int
<1> DEFINE Good == {k \in 0 .. Len(zs) : sum[k] \in Int}
<1>0. Len(zs) \in Nat
  BY LenProperties
<1>1. 0 \in Good
  BY <1>0 DEF Sums
<1>2. ASSUME NEW m \in 0 .. Len(zs), m > 0, m - 1 \in Good PROVE m \in Good
  <2>1. zs[m] \in Int
    BY <1>0, <1>2, ElementOfSeq
  <2>2. sum[m] = sum[m - 1] + zs[m] - Slack
    <3>1. m # 0
      BY <1>2
    <3>2. sum[m] = IF m = 0 THEN 0 ELSE sum[m - 1] + zs[m] - Slack
      BY <1>0, SumsStep
    <3> QED BY <3>1, <3>2
  <2> QED BY <1>2, <2>1, <2>2, CusumAssumption
<1> HIDE DEF Good
<1>3. \A k \in 0 .. Len(zs) : k \in Good
  BY <1>0, <1>1, <1>2, Induction
<1> USE DEF Good
<1> QED BY <1>3

\* Two sums of sequences that begin alike agree as far as they are alike.
LEMMA SumsAgree ==
    ASSUME NEW ys, NEW zs, NEW n \in Nat, NEW m \in Nat, n <= m,
           \A k \in 1 .. n : ys[k] = zs[k],
           NEW f, Sums(ys, n, f), NEW g, Sums(zs, m, g)
    PROVE  \A k \in 0 .. n : f[k] = g[k]
<1> DEFINE Good == {k \in 0 .. n : f[k] = g[k]}
<1>1. 0 \in Good
  BY DEF Sums
<1>2. ASSUME NEW k \in 0 .. n, k > 0, k - 1 \in Good PROVE k \in Good
  <2>1. k \in 1 .. n /\ k \in 0 .. m /\ k # 0
    BY <1>2
  <2>2. f[k] = IF k = 0 THEN 0 ELSE f[k - 1] + ys[k] - Slack
    BY SumsStep
  <2>3. g[k] = IF k = 0 THEN 0 ELSE g[k - 1] + zs[k] - Slack
    BY <2>1, SumsStep
  <2> QED BY <1>2, <2>1, <2>2, <2>3
<1> HIDE DEF Good
<1>3. \A k \in 0 .. n : k \in Good
  BY <1>1, <1>2, Induction
<1> USE DEF Good
<1> QED BY <1>3

LEMMA ExcessAppend ==
    ASSUME NEW zs \in Seq(Int), NEW z \in Int
    PROVE  /\ Excess(zs) \in Int
           /\ Excess(Append(zs, z)) = Excess(zs) + z - Slack
<1> DEFINE n == Len(zs)
           longer == Append(zs, z)
<1>1. /\ n \in Nat /\ longer \in Seq(Int) /\ Len(longer) = n + 1 /\ longer[n + 1] = z
      /\ \A k \in 1 .. n : zs[k] = longer[k]
  BY AppendProperties
<1>2. PICK f : Sums(zs, n, f) /\ Excess(zs) = f[n]
  BY ExcessSums
<1>3. PICK g : Sums(longer, n + 1, g) /\ Excess(longer) = g[n + 1]
  BY <1>1, ExcessSums
<1>4. f[n] \in Int
  BY <1>1, <1>2, SumsAreInt
<1> HIDE DEF n, longer
<1>5. f[n] = g[n]
  <2>1. n + 1 \in Nat /\ n <= n + 1 /\ n \in 0 .. n
    BY <1>1
  <2>2. \A k \in 0 .. n : f[k] = g[k]
    BY <1>1, <1>2, <1>3, <2>1, SumsAgree
  <2> QED BY <2>1, <2>2
<1>6. g[n + 1] = g[n] + longer[n + 1] - Slack
  <2>1. n + 1 \in 0 .. n + 1 /\ n + 1 # 0 /\ n + 1 \in Nat /\ (n + 1) - 1 = n
    BY <1>1
  <2>2. g[n + 1] = IF n + 1 = 0 THEN 0 ELSE g[(n + 1) - 1] + longer[n + 1] - Slack
    BY <1>3, <2>1, SumsStep
  <2> QED BY <2>1, <2>2
<1> QED BY <1>1, <1>2, <1>3, <1>4, <1>5, <1>6 DEF longer

LEMMA ExcessOfOne ==
    ASSUME NEW z \in Int
    PROVE  Excess(<<z>>) = z - Slack
<1>1. <<>> \in Seq(Int) /\ Append(<<>>, z) = <<z>>
  OBVIOUS
<1>2. Excess(<<>>) = 0
  <2>1. PICK f : Sums(<<>>, 0, f) /\ Excess(<<>>) = f[0]
    BY <1>1, ExcessSums
  <2> QED BY <2>1 DEF Sums
<1>3. Excess(Append(<<>>, z)) = Excess(<<>>) + z - Slack
  BY <1>1, ExcessAppend
<1> QED BY <1>1, <1>2, <1>3, CusumAssumption

\* s is by how much the stretch of last windows that exceeds the slack most
\* exceeds it; 0 when none does.
Reaches(zs, s) ==
    /\ \A i \in 1 .. Len(zs) : Excess(SubSeq(zs, i, Len(zs))) <= s
    /\ s # 0 => \E i \in 1 .. Len(zs) : Excess(SubSeq(zs, i, Len(zs))) = s

\* The windows the sums are made of: a flag starts them again.
Live == IF verdict.status = "flagged" THEN <<>> ELSE run

RunInv ==
    /\ run \in Seq(Int)
    /\ Reaches(Live, sHi) /\ Reaches(Negated(Live), sLo)
    /\ FlagsMeanARun

LEMMA LastWindows ==
    ASSUME NEW zs \in Seq(Int), NEW z \in Int, NEW i \in 1 .. Len(zs) + 1
    PROVE  LET longer == Append(zs, z)
               last   == SubSeq(longer, i, Len(longer))
           IN IF i = Len(zs) + 1
              THEN Excess(last) = z - Slack
              ELSE /\ Excess(SubSeq(zs, i, Len(zs))) \in Int
                   /\ Excess(last) = Excess(SubSeq(zs, i, Len(zs))) + z - Slack
<1> DEFINE n == Len(zs)
           longer == Append(zs, z)
           last == SubSeq(longer, i, n + 1)
<1>1. n \in Nat /\ longer \in Seq(Int) /\ Len(longer) = n + 1
  BY AppendProperties
<1>2. CASE i = n + 1
  <2>1. last \in Seq(Int) /\ Len(last) = 1 /\ last[1] = longer[n + 1]
    BY <1>1, <1>2, SubSeqProperties
  <2>2. <<z>> \in Seq(Int) /\ Len(<<z>>) = 1 /\ <<z>>[1] = z /\ longer[n + 1] = z
    BY AppendProperties
  <2>3. last = <<z>>
    <3> HIDE DEF last, longer
    <3> QED BY <2>1, <2>2, SeqEqual
  <2> QED BY <1>1, <1>2, <2>3, ExcessOfOne
<1>3. CASE i # n + 1
  <2> DEFINE stretch == SubSeq(zs, i, n)
  <2>1. stretch \in Seq(Int)
    BY <1>3
  <2>2. last = Append(stretch, z)
    <3>1. /\ last \in Seq(Int) /\ Len(last) = n + 2 - i
          /\ \A k \in 1 .. n + 2 - i : last[k] = longer[i + k - 1]
      <4>1. \A k \in i .. n + 1 : longer[k] \in Int
        BY <1>1, ElementOfSeq
      <4> HIDE DEF longer
      <4> QED BY <1>1, <1>3, <4>1, SubSeqProperties
    <3>2. /\ Len(stretch) = n + 1 - i
          /\ \A k \in 1 .. n + 1 - i : stretch[k] = zs[i + k - 1]
      <4>1. \A k \in i .. n : zs[k] \in Int
        BY <1>1, ElementOfSeq
      <4> QED BY <1>1, <1>3, <4>1, SubSeqProperties
    <3>3. /\ Append(stretch, z) \in Seq(Int) /\ Len(Append(stretch, z)) = n + 2 - i
          /\ \A k \in 1 .. n + 1 - i : Append(stretch, z)[k] = stretch[k]
          /\ Append(stretch, z)[n + 2 - i] = z
      <4> HIDE DEF stretch
      <4>1. /\ Append(stretch, z) \in Seq(Int) /\ Len(Append(stretch, z)) = Len(stretch) + 1
            /\ \A k \in 1 .. Len(stretch) : Append(stretch, z)[k] = stretch[k]
            /\ Append(stretch, z)[Len(stretch) + 1] = z
        BY <2>1, AppendProperties
      <4>2. Len(stretch) + 1 = n + 2 - i
        BY <1>1, <3>2
      <4> QED BY <3>2, <4>1, <4>2
    <3>4. /\ \A k \in 1 .. n : longer[k] = zs[k]
          /\ longer[n + 1] = z
      BY AppendProperties
    <3> HIDE DEF last, longer, stretch
    <3>5. ASSUME NEW k \in 1 .. n + 2 - i PROVE last[k] = Append(stretch, z)[k]
      <4>1. CASE k = n + 2 - i
        <5>1. i + k - 1 = n + 1
          BY <1>1, <4>1
        <5>2. last[k] = longer[i + k - 1]
          BY <3>1
        <5> QED BY <3>3, <3>4, <4>1, <5>1, <5>2
      <4>2. CASE k # n + 2 - i
        <5>1. k \in 1 .. n + 1 - i /\ i + k - 1 \in 1 .. n
          BY <1>1, <4>2
        <5> QED BY <3>1, <3>2, <3>3, <3>4, <5>1
      <4> QED BY <4>1, <4>2
    <3>6. last = Append(stretch, z)
      BY <3>1, <3>3, <3>5, SeqEqual
    <3> QED BY <3>6
  <2> HIDE DEF last, stretch
  <2>3. Excess(stretch) \in Int /\ Excess(last) = Excess(stretch) + z - Slack
    BY <2>1, <2>2, ExcessAppend
  <2> QED BY <1>1, <1>3, <2>3 DEF last, stretch
<1> QED BY <1>2, <1>3

\* One more window: what Fold makes of the sum is the sum of the longer run.
LEMMA FoldReaches ==
    ASSUME NEW zs \in Seq(Int), NEW s \in Nat, Reaches(zs, s), NEW z \in Int
    PROVE  /\ Fold(s, z) \in Nat
           /\ Reaches(Append(zs, z), Fold(s, z))
<1> DEFINE n == Len(zs)
           longer == Append(zs, z)
           at(i) == Excess(SubSeq(zs, i, n))
           up(i) == Excess(SubSeq(longer, i, n + 1))
<1>1. /\ n \in Nat /\ Len(longer) = n + 1 /\ Slack \in Int
      /\ up(n + 1) = z - Slack
      /\ \A i \in 1 .. n : at(i) \in Int /\ up(i) = at(i) + z - Slack
  <2>1. n \in Nat /\ Len(longer) = n + 1 /\ Slack \in Int
    BY CusumAssumption
  <2>2. up(n + 1) = z - Slack
    BY <2>1, LastWindows
  <2>3. ASSUME NEW i \in 1 .. n PROVE at(i) \in Int /\ up(i) = at(i) + z - Slack
    <3>1. i \in 1 .. Len(zs) + 1 /\ i # Len(zs) + 1
      BY <2>1
    <3>2. at(i) \in Int /\ Excess(SubSeq(longer, i, Len(longer))) = at(i) + z - Slack
      BY <3>1, LastWindows
    <3> QED BY <2>1, <3>2
  <2> QED BY <2>1, <2>2, <2>3
<1>2. /\ \A i \in 1 .. n : at(i) <= s
      /\ s # 0 => \E i \in 1 .. n : at(i) = s
  BY DEF Reaches
<1> HIDE DEF n, at, up, longer
<1>3. ASSUME NEW i \in 1 .. n + 1 PROVE up(i) <= Fold(s, z)
  <2>1. CASE i = n + 1
    BY <1>1, <2>1 DEF Fold
  <2>2. CASE i # n + 1
    <3>1. i \in 1 .. n
      BY <1>1, <2>2
    <3>2. at(i) <= s /\ at(i) \in Int /\ up(i) = at(i) + z - Slack
      BY <1>1, <1>2, <3>1
    <3> QED BY <1>1, <3>2 DEF Fold
  <2> QED BY <2>1, <2>2
<1>4. ASSUME Fold(s, z) # 0 PROVE \E i \in 1 .. n + 1 : up(i) = Fold(s, z)
  <2>1. Fold(s, z) = s + z - Slack
    BY <1>4 DEF Fold
  <2>2. CASE s = 0
    <3>1. up(n + 1) = Fold(s, z) /\ n + 1 \in 1 .. n + 1
      BY <1>1, <2>1, <2>2
    <3> QED BY <3>1
  <2>3. CASE s # 0
    <3>1. PICK i \in 1 .. n : at(i) = s
      BY <1>2, <2>3
    <3>2. i \in 1 .. n + 1 /\ up(i) = Fold(s, z)
      BY <1>1, <2>1, <3>1
    <3> QED BY <3>2
  <2> QED BY <2>2, <2>3
<1>5. Fold(s, z) \in Nat
  BY <1>1 DEF Fold
<1> QED BY <1>1, <1>3, <1>4, <1>5 DEF Reaches, up, longer

LEMMA PersistsReaches ==
    ASSUME NEW zs \in Seq(Int), NEW s \in Nat, Reaches(zs, s), NEW h \in Nat
    PROVE  PersistsAbove(zs, h) <=> s > h
<1>1. Len(zs) \in Nat
  OBVIOUS
<1>2. ASSUME NEW i \in 1 .. Len(zs) PROVE Excess(SubSeq(zs, i, Len(zs))) \in Int
  <2>1. SubSeq(zs, i, Len(zs)) \in Seq(Int)
    BY <1>1
  <2>2. 0 \in Int
    OBVIOUS
  <2> QED BY <2>1, <2>2, ExcessAppend
<1> QED BY <1>1, <1>2 DEF PersistsAbove, Reaches

LEMMA NegatedAppend ==
    ASSUME NEW zs \in Seq(Int)
    PROVE  /\ Negated(zs) \in Seq(Int)
           /\ \A z \in Int : Negated(Append(zs, z)) = Append(Negated(zs), -z)
<1>1. Negated(zs) \in Seq(Int) /\ Len(Negated(zs)) = Len(zs)
  BY DEF Negated
<1>2. ASSUME NEW z \in Int PROVE Negated(Append(zs, z)) = Append(Negated(zs), -z)
  <2> DEFINE a == Negated(Append(zs, z))
             b == Append(Negated(zs), -z)
  <2>1. /\ a \in Seq(Int) /\ b \in Seq(Int)
        /\ Len(a) = Len(zs) + 1 /\ Len(b) = Len(zs) + 1
    BY <1>1 DEF Negated
  <2>2. \A k \in 1 .. Len(zs) + 1 : a[k] = b[k]
    BY <1>1 DEF Negated
  <2> HIDE DEF a, b
  <2>3. a = b
    BY <2>1, <2>2, SeqEqual
  <2> QED BY <2>3 DEF a, b
<1> QED BY <1>1, <1>2

LEMMA NoneReaches == Reaches(<<>>, 0) /\ Negated(<<>>) = <<>>
BY DEF Reaches, Negated

LEMMA RunInit == CusumInit => RunInv
BY NoneReaches DEF CusumInit, RunInv, Live, FlagsMeanARun, Verdict

LEMMA AccumulateRun ==
    ASSUME CusumInv, RunInv, NEW z \in Int, Accumulate(z)
    PROVE  RunInv'
<1> DEFINE hi == Fold(sHi, z)
           lo == Fold(sLo, -z)
<1>0. sHi \in Nat /\ sLo \in Nat /\ H \in Nat \ {0}
  BY CusumAssumption DEF CusumInv, CusumTypes, SumsBounded
<1>1. Live \in Seq(Int) /\ run' = Append(Live, z)
  <2>1. Append(<<>>, z) = <<z>> /\ <<>> \in Seq(Int) /\ run \in Seq(Int)
    BY DEF RunInv
  <2> QED BY <2>1 DEF Live, Accumulate
<1>2. /\ run' \in Seq(Int)
      /\ hi \in Nat /\ Reaches(run', hi)
  <2>1. Reaches(Live, sHi)
    BY DEF RunInv
  <2>2. hi \in Nat /\ Reaches(Append(Live, z), hi)
    BY <1>0, <1>1, <2>1, FoldReaches
  <2> QED BY <1>1, <2>2
<1>3. lo \in Nat /\ Reaches(Negated(run'), lo) /\ Negated(run') \in Seq(Int)
  <2>1. Negated(Live) \in Seq(Int) /\ Reaches(Negated(Live), sLo) /\ -z \in Int
    BY <1>1, NegatedAppend DEF RunInv
  <2>2. lo \in Nat /\ Reaches(Append(Negated(Live), -z), lo)
    BY <1>0, <2>1, FoldReaches
  <2>3. Negated(run') = Append(Negated(Live), -z)
    BY <1>1, NegatedAppend
  <2> QED BY <1>2, <2>2, <2>3, NegatedAppend
<1>4. /\ PersistsAbove(run', H) <=> hi > H
      /\ PersistsAbove(Negated(run'), H) <=> lo > H
  BY <1>0, <1>2, <1>3, PersistsReaches
<1>5. Alarms(hi, lo) <=> PersistsAbove(run', H) \/ PersistsAbove(Negated(run'), H)
  BY <1>4 DEF Alarms
<1>6. hi > H => lo = 0
  BY Folded
<1>7. lo > H => hi = 0
  BY Folded
<1>8. CASE Alarms(hi, lo)
  <2>1. Raise(hi, lo)
    BY <1>8 DEF Accumulate
  <2>2. sHi' = 0 /\ sLo' = 0 /\ verdict'.status = "flagged"
    BY <1>0, <1>2, <1>3, <1>6, <1>7, <1>8, <2>1 DEF Raise, Alarms, Verdict
  <2> QED BY <1>2, <1>5, <1>8, <2>2, NoneReaches DEF RunInv, Live, FlagsMeanARun
<1>9. CASE ~Alarms(hi, lo)
  <2>1. sHi' = hi /\ sLo' = lo /\ verdict'.status = "ok"
    BY <1>9 DEF Accumulate, Rest, Verdict
  <2> QED BY <1>2, <1>3, <1>5, <1>9, <2>1 DEF RunInv, Live, FlagsMeanARun
<1> QED BY <1>8, <1>9

\* A window without a verdict of ok or flagged folds nothing in.
LEMMA HoldRun ==
    ASSUME RunInv, NEW status \in {"spillback", "warmup"}, Hold(status)
    PROVE  RunInv'
<1>1. /\ sHi' = sHi /\ sLo' = sLo /\ run' = Live
      /\ verdict'.status \notin {"ok", "flagged"}
  BY DEF Hold, Verdict, Live
<1>2. Live' = Live
  BY <1>1 DEF Live
<1>3. Live \in Seq(Int)
  BY DEF RunInv, Live
<1> QED BY <1>1, <1>2, <1>3 DEF RunInv, FlagsMeanARun

LEMMA RunStep == CusumInv /\ RunInv /\ [CusumNext]_cusumVars => RunInv'
<1> SUFFICES ASSUME CusumInv, RunInv, [CusumNext]_cusumVars PROVE RunInv'
  OBVIOUS
<1>1. ASSUME NEW z \in Int, NEW jam \in BOOLEAN, Window(z, jam) PROVE RunInv'
  BY <1>1, AccumulateRun, HoldRun DEF Window
<1>2. CASE UNCHANGED cusumVars
  BY <1>2 DEF cusumVars, RunInv, Live, FlagsMeanARun
<1> QED BY <1>1, <1>2 DEF CusumNext

\* A flag is raised exactly when some stretch of windows up to this one
\* exceeds the slack by more than the threshold, to one side: resetting only
\* the sum that fired, and passing over jams, hides no drift and invents none.
THEOREM FlagsTheorem == CusumSpec => []FlagsMeanARun
<1>1. CusumInit => RunInv
  BY RunInit
<1>2. RunInv => FlagsMeanARun
  BY DEF RunInv
<1> QED BY <1>1, <1>2, RunStep, CusumInvHolds, PTL DEF CusumSpec

-----------------------------------------------------------------------------
\* Where a drift begins.

\* The windows that the live run was folded in by.
LiveAt == IF verdict.status = "flagged" THEN <<>> ELSE folded

DriftInv ==
    /\ folded \in Seq(Nat) /\ Len(folded) = Len(run)
    /\ drift # None =>
          \E r \in 1 .. Len(Live) : UnrestSince(Live, r) /\ drift = LiveAt[r]
    /\ LatencySpansUnrest

\* Something is accumulating exactly while a sum is off zero.
LEMMA UnrestReaches ==
    ASSUME NEW zs \in Seq(Int), NEW hi \in Nat, NEW lo \in Nat,
           Reaches(zs, hi), Reaches(Negated(zs), lo)
    PROVE  Unrest(zs) <=> hi > 0 \/ lo > 0
<1>1. PersistsAbove(zs, 0) <=> hi > 0
  BY PersistsReaches
<1>2. PersistsAbove(Negated(zs), 0) <=> lo > 0
  BY NegatedAppend, PersistsReaches
<1> QED BY <1>1, <1>2 DEF Unrest

LEMMA Prefixes ==
    ASSUME NEW zs \in Seq(Int), NEW z \in Int
    PROVE  /\ \A n \in 0 .. Len(zs) : SubSeq(Append(zs, z), 1, n) = SubSeq(zs, 1, n)
           /\ SubSeq(Append(zs, z), 1, Len(zs) + 1) = Append(zs, z)
           /\ SubSeq(zs, 1, Len(zs)) = zs
<1> DEFINE longer == Append(zs, z)
<1>1. /\ Len(zs) \in Nat /\ longer \in Seq(Int) /\ Len(longer) = Len(zs) + 1
      /\ \A k \in 1 .. Len(zs) : longer[k] = zs[k]
  BY AppendProperties
<1>2. \A k \in 1 .. Len(zs) : zs[k] \in Int
  BY <1>1, ElementOfSeq
<1>3. \A k \in 1 .. Len(zs) + 1 : longer[k] \in Int
  BY <1>1, ElementOfSeq
<1> HIDE DEF longer
<1>4. ASSUME NEW n \in 0 .. Len(zs) PROVE SubSeq(longer, 1, n) = SubSeq(zs, 1, n)
  <2>1. /\ SubSeq(longer, 1, n) \in Seq(Int) /\ Len(SubSeq(longer, 1, n)) = n
        /\ \A k \in 1 .. n : SubSeq(longer, 1, n)[k] = longer[k]
    BY <1>1, <1>3
  <2>2. /\ SubSeq(zs, 1, n) \in Seq(Int) /\ Len(SubSeq(zs, 1, n)) = n
        /\ \A k \in 1 .. n : SubSeq(zs, 1, n)[k] = zs[k]
    BY <1>1, <1>2
  <2>3. \A k \in 1 .. n : SubSeq(longer, 1, n)[k] = SubSeq(zs, 1, n)[k]
    BY <1>1, <2>1, <2>2
  <2> QED BY <2>1, <2>2, <2>3, SeqEqual
<1>5. SubSeq(longer, 1, Len(zs) + 1) = longer
  <2>1. /\ SubSeq(longer, 1, Len(zs) + 1) \in Seq(Int)
        /\ Len(SubSeq(longer, 1, Len(zs) + 1)) = Len(zs) + 1
        /\ \A k \in 1 .. Len(zs) + 1 : SubSeq(longer, 1, Len(zs) + 1)[k] = longer[k]
    BY <1>1, <1>3
  <2> QED BY <1>1, <2>1, SeqEqual
<1>6. SubSeq(zs, 1, Len(zs)) = zs
  <2>1. /\ SubSeq(zs, 1, Len(zs)) \in Seq(Int) /\ Len(SubSeq(zs, 1, Len(zs))) = Len(zs)
        /\ \A k \in 1 .. Len(zs) : SubSeq(zs, 1, Len(zs))[k] = zs[k]
    BY <1>1, <1>2
  <2> QED BY <2>1, SeqEqual
<1> QED BY <1>4, <1>5, <1>6 DEF longer

\* A drift goes on with one more window of unrest, or begins with it.
LEMMA UnrestGoesOn ==
    ASSUME NEW zs \in Seq(Int), NEW z \in Int, Unrest(Append(zs, z))
    PROVE  /\ \A r \in 1 .. Len(zs) : UnrestSince(zs, r) => UnrestSince(Append(zs, z), r)
           /\ ~Unrest(zs) => UnrestSince(Append(zs, z), Len(zs) + 1)
<1> DEFINE longer == Append(zs, z)
<1>1. Len(zs) \in Nat /\ Len(longer) = Len(zs) + 1
  BY AppendProperties
<1>2. /\ \A n \in 0 .. Len(zs) : SubSeq(longer, 1, n) = SubSeq(zs, 1, n)
      /\ SubSeq(longer, 1, Len(zs) + 1) = longer
      /\ SubSeq(zs, 1, Len(zs)) = zs
  BY Prefixes
<1>3. Unrest(longer)
  OBVIOUS
<1> HIDE DEF longer
<1>4. ASSUME NEW r \in 1 .. Len(zs), UnrestSince(zs, r) PROVE UnrestSince(longer, r)
  <2>1. r - 1 \in 0 .. Len(zs) /\ ~Unrest(SubSeq(longer, 1, r - 1))
    <3>1. r - 1 \in 0 .. Len(zs)
      BY <1>1
    <3> QED BY <3>1, <1>2, <1>4 DEF UnrestSince
  <2>2. ASSUME NEW n \in r .. Len(longer) PROVE Unrest(SubSeq(longer, 1, n))
    <3>1. CASE n = Len(zs) + 1
      BY <3>1, <1>2, <1>3
    <3>2. CASE n # Len(zs) + 1
      <4>1. n \in r .. Len(zs) /\ n \in 0 .. Len(zs)
        BY <3>2, <1>1
      <4> QED BY <4>1, <1>2, <1>4 DEF UnrestSince
    <3> QED BY <3>1, <3>2
  <2> QED BY <2>1, <2>2 DEF UnrestSince
<1>5. ASSUME ~Unrest(zs) PROVE UnrestSince(longer, Len(zs) + 1)
  <2>1. (Len(zs) + 1) - 1 = Len(zs) /\ Len(zs) \in 0 .. Len(zs)
    BY <1>1
  <2>2. ~Unrest(SubSeq(longer, 1, (Len(zs) + 1) - 1))
    BY <2>1, <1>2, <1>5
  <2>3. ASSUME NEW n \in Len(zs) + 1 .. Len(longer) PROVE Unrest(SubSeq(longer, 1, n))
    <3>1. n = Len(zs) + 1
      BY <1>1
    <3> QED BY <3>1, <1>2, <1>3
  <2> QED BY <2>2, <2>3 DEF UnrestSince
<1> QED BY <1>4, <1>5 DEF longer

LEMMA AccumulateDrift ==
    ASSUME CusumInv, RunInv, DriftInv, NEW z \in Int, seen' = seen + 1, Accumulate(z)
    PROVE  DriftInv'
<1> DEFINE hi == Fold(sHi, z)
           lo == Fold(sLo, -z)
<1>0. /\ sHi \in Nat /\ sLo \in Nat /\ seen \in Nat /\ H \in Nat \ {0}
      /\ drift # None <=> sHi > 0 \/ sLo > 0
  BY CusumAssumption DEF CusumInv, CusumTypes, SumsBounded, DriftTracked
<1>1. /\ Live \in Seq(Int) /\ LiveAt \in Seq(Nat) /\ Len(LiveAt) = Len(Live)
      /\ run' = Append(Live, z) /\ folded' = Append(LiveAt, seen + 1)
  <2>1. /\ Append(<<>>, z) = <<z>> /\ Append(<<>>, seen + 1) = <<seen + 1>>
        /\ <<>> \in Seq(Int) /\ <<>> \in Seq(Nat) /\ run \in Seq(Int)
    BY DEF RunInv
  <2> QED BY <2>1 DEF Live, LiveAt, Accumulate, DriftInv
<1>2. hi \in Nat /\ Reaches(run', hi) /\ run' \in Seq(Int)
  <2>1. hi \in Nat /\ Reaches(Append(Live, z), hi)
    BY <1>0, <1>1, FoldReaches DEF RunInv
  <2> QED BY <1>1, <2>1
<1>3. lo \in Nat /\ Reaches(Negated(run'), lo)
  <2>1. Negated(Live) \in Seq(Int) /\ Reaches(Negated(Live), sLo) /\ -z \in Int
    BY <1>1, NegatedAppend DEF RunInv
  <2>2. lo \in Nat /\ Reaches(Append(Negated(Live), -z), lo)
    BY <1>0, <2>1, FoldReaches
  <2> QED BY <1>1, <2>2, NegatedAppend
<1>4. /\ Unrest(Live) <=> sHi > 0 \/ sLo > 0
      /\ Unrest(run') <=> hi > 0 \/ lo > 0
  BY <1>0, <1>1, <1>2, <1>3, UnrestReaches DEF RunInv
<1>5. /\ folded' \in Seq(Nat) /\ Len(folded') = Len(run')
      /\ Len(run') = Len(Live) + 1 /\ Len(Live) \in Nat
      /\ folded'[Len(Live) + 1] = seen + 1
      /\ \A r \in 1 .. Len(Live) : folded'[r] = LiveAt[r]
  BY <1>0, <1>1
<1> HIDE DEF hi, lo
<1>6. ASSUME hi > 0 \/ lo > 0
      PROVE  \E r \in 1 .. Len(run') : UnrestSince(run', r) /\ DriftStart(hi, lo) = folded'[r]
  <2>1. Unrest(Append(Live, z))
    BY <1>1, <1>4, <1>6
  <2>2. CASE sHi > 0 \/ sLo > 0
    <3>1. DriftStart(hi, lo) = drift
      BY <1>0, <1>2, <1>3, <1>6, <2>2 DEF DriftStart
    <3>2. PICK r \in 1 .. Len(Live) : UnrestSince(Live, r) /\ drift = LiveAt[r]
      BY <1>0, <2>2 DEF DriftInv
    <3>3. UnrestSince(run', r)
      BY <1>1, <2>1, <3>2, UnrestGoesOn
    <3>4. r \in 1 .. Len(run')
      BY <1>5
    <3> QED BY <1>5, <3>1, <3>2, <3>3, <3>4
  <2>3. CASE ~(sHi > 0 \/ sLo > 0)
    <3>1. DriftStart(hi, lo) = seen + 1
      <4>1. sHi <= 0 /\ sLo <= 0
        BY <1>0, <2>3
      <4> QED BY <4>1, <1>6, Zenon DEF DriftStart
    <3>2. UnrestSince(run', Len(Live) + 1)
      BY <1>1, <1>4, <2>1, <2>3, UnrestGoesOn
    <3>3. Len(Live) + 1 \in 1 .. Len(run')
      BY <1>5
    <3> QED BY <1>5, <3>1, <3>2, <3>3
  <2> QED BY <2>2, <2>3
<1>7. CASE Alarms(hi, lo)
  <2>1. Raise(hi, lo)
    BY <1>7 DEF Accumulate, hi, lo
  <2>2. hi > 0 \/ lo > 0
    BY <1>0, <1>2, <1>3, <1>7 DEF Alarms
  <2>3. PICK r \in 1 .. Len(run') : UnrestSince(run', r) /\ DriftStart(hi, lo) = folded'[r]
    BY <1>6, <2>2
  <2>4. folded'[r] \in Nat
    BY <1>5, <2>3
  <2>5. DriftStart(hi, lo) # None
    BY <2>3, <2>4, CusumAssumption
  <2>6. drift' = None /\ verdict'.latency = seen' - folded'[r] + 1
    <3>1. drift' = None /\ verdict'.latency = seen + 1 - DriftStart(hi, lo) + 1
      BY <2>1, <2>5 DEF Raise, Verdict
    <3> QED BY <1>0, <2>3, <2>4, <3>1
  <2> QED BY <1>5, <2>3, <2>6 DEF DriftInv, LatencySpansUnrest
<1>8. CASE ~Alarms(hi, lo)
  <2>1. drift' = DriftStart(hi, lo) /\ verdict'.status = "ok"
    BY <1>8 DEF Accumulate, Rest, Verdict, hi, lo
  <2>2. Live' = run' /\ LiveAt' = folded'
    BY <2>1 DEF Live, LiveAt
  <2>3. ASSUME drift' # None PROVE hi > 0 \/ lo > 0
    <3>1. CASE hi <= 0 /\ lo <= 0
      BY <1>2, <1>3, <2>1, <2>3, <3>1 DEF DriftStart
    <3> QED BY <1>2, <1>3, <3>1
  <2> QED BY <1>5, <1>6, <2>1, <2>2, <2>3 DEF DriftInv, LatencySpansUnrest
<1> QED BY <1>7, <1>8

LEMMA HoldDrift ==
    ASSUME RunInv, DriftInv, NEW status \in {"spillback", "warmup"}, Hold(status)
    PROVE  DriftInv'
<1>1. /\ drift' = drift /\ run' = Live /\ folded' = LiveAt
      /\ verdict'.status \notin {"ok", "flagged"}
  BY DEF Hold, Verdict, Live, LiveAt
<1>2. Live' = Live /\ LiveAt' = LiveAt
  BY <1>1 DEF Live, LiveAt
<1>3. LiveAt \in Seq(Nat) /\ Len(LiveAt) = Len(Live)
  BY DEF DriftInv, Live, LiveAt
<1> QED BY <1>1, <1>2, <1>3 DEF DriftInv, LatencySpansUnrest

LEMMA DriftStep == CusumInv /\ RunInv /\ DriftInv /\ [CusumNext]_cusumVars => DriftInv'
<1> SUFFICES ASSUME CusumInv, RunInv, DriftInv, [CusumNext]_cusumVars PROVE DriftInv'
  OBVIOUS
<1>1. ASSUME NEW z \in Int, NEW jam \in BOOLEAN, Window(z, jam) PROVE DriftInv'
  BY <1>1, AccumulateDrift, HoldDrift DEF Window
<1>2. CASE UNCHANGED cusumVars
  BY <1>2 DEF cusumVars, DriftInv, Live, LiveAt, LatencySpansUnrest
<1> QED BY <1>1, <1>2 DEF CusumNext

\* The latency that a flag reports counts from the first window after the last
\* one at which nothing was accumulating on either side, for any residuals,
\* jams, slack and threshold.
THEOREM UnrestTheorem == CusumSpec => []LatencySpansUnrest
<1>1. CusumInit => RunInv /\ DriftInv
  BY RunInit DEF CusumInit, DriftInv, LatencySpansUnrest, Verdict
<1>2. DriftInv => LatencySpansUnrest
  BY DEF DriftInv
<1> QED BY <1>1, <1>2, RunStep, DriftStep, CusumInvHolds, PTL DEF CusumSpec

-----------------------------------------------------------------------------
\* The log of one edge.

After(events, t) == {e \in events : e[1] > t}

Logged == (1 .. now) \X (1 .. MaxMoves)

FeedTypes ==
    /\ now \in Times /\ onEdge \in Nat
    /\ entries \cup exits \subseteq Logged
    /\ claim \in Claims \cup {None}
    /\ residual \in Int
    /\ stored \in [Times -> Nat] /\ stored[now] = onEdge
    /\ lastStorage \in Nat \cup {None}
    /\ reconciled \in Times \cup {None}
    /\ lastStorage = None <=> reconciled = None
    /\ reconciled # None => reconciled <= now /\ lastStorage = stored[reconciled]

\* As far back as the log reaches, it accounts for what is on the edge now.
Balance ==
    \A t \in now - Retain - 1 .. now :
        onEdge - Stored(t) = Cardinality(After(entries, t)) - Cardinality(After(exits, t))

HonestClaim ==
    claim # None /\ claim.honest => claim.measT \in Times /\ claim.measT <= now

FeedInv == FeedTypes /\ Balance /\ HonestClaim /\ ClaimReproducible

LEMMA NoneIsNoTime == None \notin Nat /\ None \notin Times
BY CusumAssumption, FeedAssumption DEF Times

\* Events are finite in number, and their times integers.
LEMMA EventsFinite ==
    ASSUME FeedTypes, NEW events \in SUBSET Logged
    PROVE  /\ IsFiniteSet(events) /\ \A e \in events : e[1] \in 1 .. now
<1>1. now \in Int /\ MaxMoves \in Int
  BY FeedAssumption DEF FeedTypes, Times
<1>2. IsFiniteSet(1 .. now) /\ IsFiniteSet(1 .. MaxMoves)
  BY <1>1, FS_Interval
<1>3. IsFiniteSet(Logged)
  BY <1>2, FS_Product DEF Logged
<1>4. IsFiniteSet(events)
  BY <1>3, FS_Subset
<1> QED BY <1>4 DEF Logged

\* The count of a window, from what came after its ends.
LEMMA CountedBetween ==
    ASSUME FeedTypes, NEW events \in SUBSET Logged, NEW at \in Int
    PROVE  /\ Counted(events, at) \in Nat
           /\ Cardinality(After(events, at)) \in Nat
           /\ Cardinality(After(events, at - Span - 1)) \in Nat
           /\ Counted(events, at) = Cardinality(After(events, at - Span - 1))
                                    - Cardinality(After(events, at))
<1> DEFINE start == at - Span - 1
           counted == {e \in events : e[1] \in at - Span .. at}
<1>0. now \in Int
  BY FeedAssumption DEF FeedTypes, Times
<1>1. IsFiniteSet(events) /\ \A e \in events : e[1] \in Int
  BY <1>0, EventsFinite
<1>2. /\ counted \subseteq events
      /\ After(events, at) \subseteq events /\ After(events, start) \subseteq events
  BY DEF After
<1>3. /\ IsFiniteSet(counted) /\ IsFiniteSet(After(events, at))
      /\ IsFiniteSet(After(events, start))
  BY <1>1, <1>2, FS_Subset
<1>4. After(events, start) = counted \cup After(events, at)
  BY <1>1, FeedAssumption DEF After
<1>5. counted \cap After(events, at) = {}
  BY <1>1 DEF After
<1>6. /\ Cardinality(counted) \in Nat /\ Cardinality(After(events, at)) \in Nat
      /\ Cardinality(After(events, start)) \in Nat
  BY <1>3, FS_CardinalityType
<1>7. Cardinality(After(events, start)) = Cardinality(counted) + Cardinality(After(events, at))
  <2>1. Cardinality({}) = 0
    BY FS_EmptySet
  <2> HIDE DEF counted, start
  <2>2. Cardinality(counted \cup After(events, at))
           = Cardinality(counted) + Cardinality(After(events, at)) - Cardinality({})
    BY <1>3, <1>5, FS_Union
  <2> QED BY <1>4, <1>6, <2>1, <2>2
<1>8. Counted(events, at) = Cardinality(counted)
  BY DEF Counted
<1> HIDE DEF counted
<1> QED BY <1>6, <1>7, <1>8

LEMMA MovesCount ==
    ASSUME now \in Nat, NEW n \in 0 .. MaxMoves
    PROVE  IsFiniteSet(Moves(n)) /\ Cardinality(Moves(n)) = n
<1>1. n \in Nat /\ 1 \in Int /\ n \in Int
  BY FeedAssumption
<1>2. IsFiniteSet(1 .. n) /\ Cardinality(1 .. n) = n
  BY <1>1, FS_Interval
<1>3. IsFiniteSet({now + 1}) /\ Cardinality({now + 1}) = 1
  BY FS_Singleton
<1>4. /\ IsFiniteSet({now + 1} \X (1 .. n))
      /\ Cardinality({now + 1} \X (1 .. n)) = 1 * n
  BY <1>2, <1>3, FS_Product
<1> QED BY <1>1, <1>4 DEF Moves

\* What a step of the simulation does to the log of one kind of event.
Grows(events, after, n) ==
    \/ n = 0 /\ after \in {events, Prune(events, now + 1)}
    \/ after = Prune(events \cup Moves(n), now + 1)

LEMMA LogGrows ==
    ASSUME FeedTypes, NEW n \in 0 .. MaxMoves, NEW events \in SUBSET Logged,
           NEW after, Grows(events, after, n)
    PROVE  /\ after \subseteq (1 .. now + 1) \X (1 .. MaxMoves)
           /\ After(after, now + 1) = {}
           /\ \A t \in now - Retain .. now :
                 /\ Cardinality(After(after, t)) = Cardinality(After(events, t)) + n
                 /\ Cardinality(After(events, t)) \in Nat
           /\ \A at \in Int : at <= now /\ at - Span >= now + 1 - Retain =>
                 Counted(after, at) = Counted(events, at)
<1>0. now \in Nat /\ Retain \in Nat /\ Span \in Nat /\ n \in Nat /\ MaxMoves \in Nat
  BY FeedAssumption DEF FeedTypes, Times
<1>1. IsFiniteSet(events) /\ \A e \in events : e[1] \in 1 .. now
  BY EventsFinite
<1>2. \A e \in Moves(n) : e[1] = now + 1
  BY DEF Moves
<1>3. after \subseteq events \cup Moves(n) /\ (n = 0 => Moves(n) = {})
  <2>1. n = 0 => Moves(n) = {}
    BY DEF Moves
  <2> QED BY <2>1 DEF Grows, Prune
<1>4. ASSUME NEW e \in events \cup Moves(n), e[1] >= now + 1 - Retain PROVE e \in after
  <2>1. CASE n = 0 /\ after = events
    BY <1>3, <2>1
  <2>2. CASE n = 0 /\ after = Prune(events, now + 1)
    BY <1>0, <1>1, <1>2, <1>3, <1>4, <2>2 DEF Prune
  <2>3. CASE after = Prune(events \cup Moves(n), now + 1)
    BY <1>0, <1>1, <1>2, <1>4, <2>3 DEF Prune
  <2> QED BY <2>1, <2>2, <2>3 DEF Grows
<1>5. after \subseteq (1 .. now + 1) \X (1 .. MaxMoves)
  <2>1. Moves(n) \subseteq (1 .. now + 1) \X (1 .. MaxMoves)
    BY <1>0 DEF Moves
  <2>2. events \subseteq (1 .. now + 1) \X (1 .. MaxMoves)
    BY <1>0 DEF Logged
  <2> QED BY <1>3, <2>1, <2>2
<1>6. After(after, now + 1) = {}
  BY <1>0, <1>1, <1>2, <1>3 DEF After
<1>7. ASSUME NEW t \in now - Retain .. now
      PROVE  /\ Cardinality(After(after, t)) = Cardinality(After(events, t)) + n
             /\ Cardinality(After(events, t)) \in Nat
  <2>1. After(after, t) = After(events, t) \cup Moves(n)
    BY <1>0, <1>1, <1>2, <1>3, <1>4 DEF After
  <2>2. After(events, t) \cap Moves(n) = {}
    BY <1>0, <1>1, <1>2 DEF After
  <2>3. IsFiniteSet(After(events, t))
    BY <1>1, FS_Subset DEF After
  <2>4. IsFiniteSet(Moves(n)) /\ Cardinality(Moves(n)) = n
    BY <1>0, MovesCount
  <2>5. Cardinality(After(events, t)) \in Nat /\ Cardinality({}) = 0
    BY <2>3, FS_CardinalityType, FS_EmptySet
  <2>6. Cardinality(After(events, t) \cup Moves(n))
           = Cardinality(After(events, t)) + Cardinality(Moves(n))
             - Cardinality(After(events, t) \cap Moves(n))
    BY <2>3, <2>4, FS_Union
  <2>7. Cardinality(After(events, t) \cap Moves(n)) = 0
    BY <2>2, <2>5
  <2> QED BY <1>0, <2>1, <2>4, <2>5, <2>6, <2>7
<1>8. ASSUME NEW at \in Int, at <= now, at - Span >= now + 1 - Retain
      PROVE  Counted(after, at) = Counted(events, at)
  <2>1. {e \in after : e[1] \in at - Span .. at} = {e \in events : e[1] \in at - Span .. at}
    BY <1>0, <1>1, <1>2, <1>3, <1>4, <1>8
  <2> QED BY <2>1 DEF Counted
<1> QED BY <1>5, <1>6, <1>7, <1>8

-----------------------------------------------------------------------------
LEMMA FeedInit == Init => FeedInv
<1> SUFFICES ASSUME Init PROVE FeedInv
  OBVIOUS
<1>1. /\ now = 0 /\ onEdge = 0 /\ entries = {} /\ exits = {} /\ claim = None
      /\ lastStorage = None /\ residual = 0 /\ reconciled = None
      /\ stored = [t \in Times |-> 0] /\ 0 \in Times
  BY FeedAssumption DEF Init, Times
<1>2. FeedTypes
  BY <1>1, NoneIsNoTime DEF FeedTypes
<1>3. Balance
  <2>1. \A t : After(entries, t) = {} /\ After(exits, t) = {} /\ Stored(t) = 0
    BY <1>1 DEF After, Stored
  <2>2. Cardinality({}) = 0
    BY FS_EmptySet
  <2> QED BY <1>1, <2>1, <2>2 DEF Balance
<1> QED BY <1>1, <1>2, <1>3 DEF FeedInv, HonestClaim, ClaimReproducible

LEMMA FeedStep ==
    ASSUME FeedInv, Step
    PROVE  FeedInv'
<1>0. /\ FeedTypes /\ Balance /\ HonestClaim /\ ClaimReproducible
      /\ now \in Nat /\ MaxTime \in Nat /\ Retain \in Nat /\ Span \in Nat /\ MaxMoves \in Nat
      /\ onEdge \in Nat
  BY FeedAssumption DEF FeedInv, FeedTypes, Times
<1>1. /\ now < MaxTime /\ now' = now + 1 /\ stored' = [stored EXCEPT ![now + 1] = onEdge']
      /\ UNCHANGED <<claim, lastStorage, residual, reconciled>>
  BY DEF Step
<1>2. PICK in \in 0 .. MaxMoves, out \in 0 .. Smaller(MaxMoves, onEdge) :
         /\ Grows(entries, entries', in) /\ Grows(exits, exits', out)
         /\ onEdge' = onEdge + in - out
  <2>1. CASE \E in \in 0 .. MaxMoves, out \in 0 .. Smaller(MaxMoves, onEdge) : Observe(in, out)
    BY <2>1 DEF Observe, Grows
  <2>2. CASE UNCHANGED onEdge /\ entries' \in {entries, Prune(entries, now + 1)}
                              /\ exits' \in {exits, Prune(exits, now + 1)}
    <3>1. Grows(entries, entries', 0) /\ Grows(exits, exits', 0)
      BY <2>2 DEF Grows
    <3>2. 0 \in 0 .. MaxMoves /\ 0 \in 0 .. Smaller(MaxMoves, onEdge)
          /\ onEdge' = onEdge + 0 - 0
      BY <1>0, <2>2 DEF Smaller
    <3> QED BY <3>1, <3>2
  <2> QED BY <2>1, <2>2 DEF Step
<1>3. out \in 0 .. MaxMoves /\ onEdge' \in Nat /\ in \in Nat /\ out \in Nat
  BY <1>0, <1>2 DEF Smaller
<1>4. entries \in SUBSET Logged /\ exits \in SUBSET Logged
  BY <1>0 DEF FeedTypes
<1>5. /\ now' \in Times /\ stored' \in [Times -> Nat] /\ stored'[now'] = onEdge'
      /\ \A t \in Int : t <= now => Stored(t)' = Stored(t)
      /\ \A t \in Times : t <= now => stored'[t] = stored[t]
  <2>1. now' \in Times /\ Times \subseteq Int
    BY <1>0, <1>1 DEF Times
  <2>2. stored' \in [Times -> Nat] /\ stored'[now'] = onEdge'
        /\ \A t \in Times : t # now + 1 => stored'[t] = stored[t]
    BY <1>0, <1>1, <1>3, <2>1 DEF FeedTypes
  <2> QED BY <1>0, <2>1, <2>2 DEF Stored
<1>6. FeedTypes'
  <2>1. Logged' = (1 .. now + 1) \X (1 .. MaxMoves)
    BY <1>1 DEF Logged
  <2>2. entries' \cup exits' \subseteq Logged'
    BY <1>0, <1>2, <1>3, <1>4, <2>1, LogGrows
  <2>3. reconciled # None => reconciled <= now' /\ lastStorage = stored'[reconciled]
    <3> SUFFICES ASSUME reconciled # None
                 PROVE  reconciled <= now' /\ lastStorage = stored'[reconciled]
      OBVIOUS
    <3>1. reconciled \in Times /\ reconciled <= now /\ lastStorage = stored[reconciled]
          /\ reconciled \in Int
      BY <1>0 DEF FeedTypes, Times
    <3> QED BY <1>0, <1>1, <1>5, <3>1
  <2> QED BY <1>0, <1>1, <1>3, <1>5, <2>2, <2>3 DEF FeedTypes
<1>7. Balance'
  <2> SUFFICES ASSUME NEW t \in now' - Retain - 1 .. now'
               PROVE  onEdge' - Stored(t)'
                         = Cardinality(After(entries', t)) - Cardinality(After(exits', t))
    BY DEF Balance
  <2>1. CASE t = now + 1
    <3>1. After(entries', t) = {} /\ After(exits', t) = {} /\ Cardinality({}) = 0
      BY <1>0, <1>2, <1>3, <1>4, <2>1, LogGrows, FS_EmptySet
    <3>2. Stored(t)' = onEdge'
      BY <1>1, <1>5, <2>1 DEF Stored
    <3> QED BY <1>3, <3>1, <3>2
  <2>2. CASE t \in now - Retain .. now
    <3>1. onEdge - Stored(t)
             = Cardinality(After(entries, t)) - Cardinality(After(exits, t))
      BY <1>0, <2>2 DEF Balance
    <3>2. /\ Cardinality(After(entries', t)) = Cardinality(After(entries, t)) + in
          /\ Cardinality(After(exits', t)) = Cardinality(After(exits, t)) + out
          /\ Cardinality(After(entries, t)) \in Nat /\ Cardinality(After(exits, t)) \in Nat
      BY <1>0, <1>2, <1>3, <1>4, <2>2, LogGrows
    <3>3. Stored(t)' = Stored(t) /\ Stored(t) \in Int
      BY <1>0, <1>5, <2>2 DEF Stored, FeedTypes
    <3> QED BY <1>0, <1>2, <1>3, <3>1, <3>2, <3>3
  <2> QED BY <1>0, <1>1, <2>1, <2>2
<1>8. HonestClaim'
  <2> SUFFICES ASSUME claim # None, claim.honest
               PROVE  claim.measT \in Times /\ claim.measT <= now'
    BY <1>1 DEF HonestClaim
  <2>1. claim.measT \in Times /\ claim.measT <= now
    BY <1>0 DEF HonestClaim
  <2> QED BY <1>0, <1>1, <2>1 DEF Times
<1>9. ClaimReproducible'
  <2> SUFFICES ASSUME claim # None, claim.honest, claim.measT - Span >= now' - Retain
               PROVE  Counted(entries', claim.measT) = claim.release
    BY <1>1 DEF ClaimReproducible, Retained, ReleasedInWindow
  <2>1. claim.measT \in Int /\ claim.measT <= now
    BY <1>0 DEF HonestClaim, Times
  <2>2. Counted(entries, claim.measT) = claim.release
    BY <1>0, <1>1, <2>1 DEF ClaimReproducible, Retained, ReleasedInWindow
  <2>3. Counted(entries', claim.measT) = Counted(entries, claim.measT)
    BY <1>0, <1>1, <1>2, <1>4, <2>1, LogGrows
  <2> QED BY <2>2, <2>3
<1> QED BY <1>6, <1>7, <1>8, <1>9 DEF FeedInv

LEMMA FeedPublish ==
    ASSUME FeedInv, Publish
    PROVE  FeedInv' /\ claim' \in Claims
<1>0. /\ FeedTypes /\ Balance /\ now \in Times /\ now \in Nat
      /\ entries \in SUBSET Logged
  BY FeedAssumption DEF FeedInv, FeedTypes, Times
<1>1. PICK lie \in Lies, measT \in Times \cup {now + 1} :
         /\ lie = 0 => measT = now
         /\ claim' = [release |-> ReleasedInWindow(now) + lie, measT |-> measT,
                      honest |-> lie = 0]
         /\ UNCHANGED <<now, onEdge, entries, exits, lastStorage, residual, stored,
                        reconciled, cusumVars>>
  BY DEF Publish
<1>2. Counted(entries, now) \in Nat
  BY <1>0, CountedBetween
<1>3. claim'.honest => claim'.measT = now /\ claim'.release = Counted(entries, now)
  <2>1. /\ claim'.honest <=> lie = 0
        /\ claim'.measT = measT /\ claim'.release = Counted(entries, now) + lie
    BY <1>1 DEF ReleasedInWindow
  <2> QED BY <1>1, <1>2, <2>1
<1>4. claim' \in Claims
  <2>1. measT \in Nat /\ ReleasedInWindow(now) + lie \in Nat
    BY <1>0, <1>2, FeedAssumption DEF ReleasedInWindow, Times
  <2> QED BY <1>1, <2>1 DEF Claims
<1>5. FeedTypes'
  BY <1>0, <1>1, <1>4 DEF FeedTypes, Logged
<1>6. Balance'
  BY <1>0, <1>1 DEF Balance, Stored
<1>7. HonestClaim'
  BY <1>0, <1>1, <1>3 DEF HonestClaim, Times
<1>8. ClaimReproducible'
  <2> SUFFICES ASSUME claim'.honest PROVE Counted(entries', claim'.measT) = claim'.release
    BY DEF ClaimReproducible, ReleasedInWindow
  <2> QED BY <1>1, <1>3
<1> QED BY <1>4, <1>5, <1>6, <1>7, <1>8 DEF FeedInv

LEMMA FeedUnaddressed ==
    ASSUME FeedInv, PublishUnaddressed
    PROVE  FeedInv' /\ claim' \in Claims
<1>1. /\ claim' \in Claims /\ ~claim'.honest
      /\ UNCHANGED <<now, onEdge, entries, exits, lastStorage, residual, stored,
                     reconciled, cusumVars>>
  BY DEF PublishUnaddressed, Claims
<1>2. FeedTypes' /\ Balance'
  BY <1>1 DEF FeedInv, FeedTypes, Balance, Logged, Stored
<1>3. HonestClaim' /\ ClaimReproducible'
  BY <1>1 DEF HonestClaim, ClaimReproducible
<1> QED BY <1>1, <1>2, <1>3 DEF FeedInv

\* The residual is a number, so reconciling is a window of the CUSUM.
LEMMA ResidualIsInt ==
    ASSUME FeedInv, NEW release \in Nat
    PROVE  /\ RefTime \in Int
           /\ Residual(release, ExitedInWindow(RefTime)) \in Int
<1>0. FeedTypes /\ exits \in SUBSET Logged
  BY DEF FeedInv, FeedTypes
<1>1. RefTime \in Int
  <2>1. now \in Int /\ (claim # None /\ claim.measT # None => claim.measT \in Int)
    BY <1>0, FeedAssumption DEF FeedTypes, Times, Claims
  <2> QED BY <2>1 DEF RefTime, Smaller
<1>2. ExitedInWindow(RefTime) \in Nat
  BY <1>0, <1>1, CountedBetween DEF ExitedInWindow
<1> QED BY <1>0, <1>1, <1>2 DEF Residual, FeedTypes

LEMMA FeedReconcile ==
    ASSUME FeedInv, Reconcile
    PROVE  /\ FeedInv'
           /\ \E z \in Int, jam \in BOOLEAN : Window(z, jam)
           /\ claim # None =>
                 residual' = Residual(claim.release, ExitedInWindow(RefTime))
<1>0. /\ FeedTypes /\ Balance
  BY DEF FeedInv
<1>1. /\ lastStorage' = onEdge /\ claim' = None /\ reconciled' = now
      /\ UNCHANGED <<now, onEdge, entries, exits, stored>>
  BY DEF Reconcile
<1>2. PICK release \in Nat :
         /\ residual' = Residual(release, ExitedInWindow(RefTime))
         /\ \E jam \in BOOLEAN : Window(residual', jam)
         /\ claim # None => release = claim.release
  <2>1. (IF claim = None THEN 0 ELSE claim.release) \in Nat
    BY <1>0 DEF FeedTypes, Claims
  <2> QED BY <2>1 DEF Reconcile
<1>3. residual' \in Int
  BY <1>2, ResidualIsInt
<1>4. FeedTypes'
  BY <1>0, <1>1, <1>3, NoneIsNoTime, FeedAssumption DEF FeedTypes, Logged, Times
<1>5. Balance'
  BY <1>0, <1>1 DEF Balance, Stored
<1>6. HonestClaim' /\ ClaimReproducible'
  BY <1>1 DEF HonestClaim, ClaimReproducible
<1> QED BY <1>2, <1>3, <1>4, <1>5, <1>6 DEF FeedInv

LEMMA FeedStutter == FeedInv /\ UNCHANGED feedVars => FeedInv'
BY DEF FeedInv, feedVars, FeedTypes, Balance, HonestClaim, ClaimReproducible, Retained,
       ReleasedInWindow, Counted, Stored, Logged

LEMMA FeedNext ==
    FeedInv /\ [Next]_vars => FeedInv' /\ [CusumNext]_cusumVars
<1>1. FeedInv /\ Step => FeedInv' /\ UNCHANGED cusumVars
  BY FeedStep DEF Step
<1>2. FeedInv /\ Publish => FeedInv' /\ UNCHANGED cusumVars
  BY FeedPublish DEF Publish
<1>3. FeedInv /\ PublishUnaddressed => FeedInv' /\ UNCHANGED cusumVars
  BY FeedUnaddressed DEF PublishUnaddressed
<1>4. FeedInv /\ Reconcile => FeedInv' /\ CusumNext
  BY FeedReconcile DEF CusumNext
<1>5. FeedInv /\ UNCHANGED vars => FeedInv' /\ UNCHANGED cusumVars
  BY FeedStutter DEF vars
<1> QED BY <1>1, <1>2, <1>3, <1>4, <1>5 DEF Next

\* Whatever the traffic, the claims and the failures to read the edge, the
\* sums of the edge are those of a CUSUM: what is proved of one above holds
\* of every edge.
THEOREM FeedRunsCusum == Spec => CusumSpec
<1>1. Init => FeedInv /\ CusumInit
  BY FeedInit DEF Init
<1> QED BY <1>1, FeedNext, PTL DEF Spec, CusumSpec

LEMMA FeedInvHolds == Spec => [](FeedInv /\ CusumInv)
<1>1. Init => FeedInv
  BY FeedInit
<1>2. Spec => []FeedInv
  BY <1>1, FeedNext, PTL DEF Spec
<1> QED BY <1>2, FeedRunsCusum, CusumInvHolds, PTL

\* Every count, residual and sum stays in its type: in particular the vehicles
\* on the edge are never fewer than none, whatever reads of it fail.
THEOREM FeedTypeTheorem == Spec => []TypeOK
<1>1. FeedInv /\ CusumInv => TypeOK
  <2> SUFFICES ASSUME FeedInv, CusumInv PROVE TypeOK
    OBVIOUS
  <2>1. FeedTypes /\ CusumTypes /\ SumsBounded
    BY DEF FeedInv, CusumInv
  <2>2. Logged \subseteq Times \X (1 .. MaxMoves)
    BY <2>1, FeedAssumption DEF Logged, FeedTypes, Times
  <2> QED BY <2>1, <2>2 DEF TypeOK, FeedTypes, CusumTypes
<1> QED BY <1>1, FeedInvHolds, PTL

\* However late an honest claim is read, released_in_window over the sender's
\* window gives the count the sender signed, as long as observe() has not
\* pruned that far.
THEOREM ClaimTheorem == Spec => []ClaimReproducible
<1>1. FeedInv => ClaimReproducible
  BY DEF FeedInv
<1> QED BY <1>1, FeedInvHolds, PTL

\* What update() makes of an honest claim, for any windows, lateness and
\* failures to read: the residual says exactly how the edge filled in the part
\* of the window before the last reconciliation, less the time since.
THEOREM ResidualTheorem == Spec => BenignResidual
<1> DEFINE before == IF reconciled = None THEN now ELSE reconciled
           Benign == claim # None /\ claim' = None /\ claim.honest /\ Retained(claim.measT) =>
                        residual' = (stored[before] - Stored(claim.measT - Span - 1))
                                       - (stored[now] - stored[claim.measT])
<1>1. FeedInv /\ [Next]_vars => [Benign]_vars
  <2> SUFFICES ASSUME FeedInv, Next, claim # None, claim' = None, claim.honest,
                      Retained(claim.measT)
               PROVE  residual' = (stored[before] - Stored(claim.measT - Span - 1))
                                     - (stored[now] - stored[claim.measT])
    OBVIOUS
  <2> DEFINE m == claim.measT
  <2>0. /\ FeedTypes /\ Balance /\ entries \in SUBSET Logged /\ exits \in SUBSET Logged
        /\ now \in Nat /\ Span \in Nat \ {0} /\ Retain \in Nat /\ onEdge \in Nat
        /\ m \in Times /\ m \in Nat /\ m <= now /\ m - Span >= now - Retain
        /\ Counted(entries, m) = claim.release /\ claim.release \in Nat
    BY FeedAssumption
       DEF FeedInv, FeedTypes, Times, HonestClaim, ClaimReproducible, Retained,
           ReleasedInWindow, Claims
  <2>1. Reconcile
    <3>1. ~Step
      BY DEF Step
    <3>2. ~Publish /\ ~PublishUnaddressed
      <4>1. Publish \/ PublishUnaddressed => claim' \in Claims
        BY FeedPublish, FeedUnaddressed
      <4> QED BY <4>1, FeedAssumption
    <3> QED BY <3>1, <3>2 DEF Next
  <2>2. RefTime = m
    BY <2>0, NoneIsNoTime DEF RefTime, Smaller
  <2>3. residual' = Residual(claim.release, Counted(exits, m))
    BY <2>1, <2>2, FeedReconcile DEF ExitedInWindow
  <2>4. /\ Counted(entries, m) = Cardinality(After(entries, m - Span - 1))
                                   - Cardinality(After(entries, m))
        /\ Counted(exits, m) = Cardinality(After(exits, m - Span - 1))
                                 - Cardinality(After(exits, m))
        /\ Cardinality(After(entries, m)) \in Nat
        /\ Cardinality(After(entries, m - Span - 1)) \in Nat
        /\ Cardinality(After(exits, m)) \in Nat
        /\ Cardinality(After(exits, m - Span - 1)) \in Nat
    <3> HIDE DEF m
    <3>1. m \in Int
      BY <2>0
    <3> QED BY <2>0, <3>1, CountedBetween
  <2>5. /\ m \in now - Retain - 1 .. now /\ m - Span - 1 \in now - Retain - 1 .. now
    BY <2>0
  <2>6. /\ onEdge - Stored(m) = Cardinality(After(entries, m)) - Cardinality(After(exits, m))
        /\ onEdge - Stored(m - Span - 1) = Cardinality(After(entries, m - Span - 1))
                                              - Cardinality(After(exits, m - Span - 1))
    BY <2>0, <2>5 DEF Balance
  <2>7. Stored(m) = stored[m] /\ stored[m] \in Nat /\ Stored(m - Span - 1) \in Nat
    BY <2>0 DEF Stored, FeedTypes
  <2>8. (IF lastStorage = None THEN onEdge ELSE lastStorage) = stored[before]
        /\ stored[before] \in Nat
    BY <2>0 DEF FeedTypes
  <2>9. stored[now] = onEdge
    BY <2>0 DEF FeedTypes
  <2>10. residual' = claim.release - Counted(exits, m) - (onEdge - stored[before])
    BY <2>3, <2>8 DEF Residual
  <2>11. residual' = (stored[before] - Stored(m - Span - 1)) - (stored[now] - stored[m])
    <3>1. claim.release - Counted(exits, m) = Stored(m) - Stored(m - Span - 1)
      <4> HIDE DEF m
      <4>1. onEdge \in Int /\ Stored(m) \in Int /\ Stored(m - Span - 1) \in Int
        BY <2>0, <2>7
      <4>2. Counted(entries, m) = claim.release
        BY <2>0
      <4> QED BY <2>4, <2>6, <4>1, <4>2
    <3>2. claim.release \in Int /\ Counted(exits, m) \in Int /\ onEdge \in Int
          /\ stored[before] \in Int /\ stored[m] \in Int /\ Stored(m - Span - 1) \in Int
      BY <2>0, <2>4, <2>7, <2>8
    <3> HIDE DEF before, m
    <3> QED BY <2>7, <2>9, <2>10, <3>1, <3>2
  <2> QED BY <2>11
<1> QED BY <1>1, FeedInvHolds, PTL DEF Spec, BenignResidual
=============================================================================
