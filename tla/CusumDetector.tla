---------------------------- MODULE CusumDetector ----------------------------
(***************************************************************************)
(* The persistence test of FlowConservationDetector.update for one edge    *)
(* (src/flow_conservation.py): a two-sided CUSUM on the normalised         *)
(* residual z of each window.  All magnitudes are integers in one unit, a  *)
(* fraction of the band: with halves the defaults are Band = 2, Slack = 1  *)
(* and H = 6.                                                              *)
(***************************************************************************)
EXTENDS Integers, Sequences

CONSTANTS
    H,          \* CusumParams.h
    Slack,      \* CusumParams.slack
    Warmup,     \* CusumParams.warmup_windows
    Band,       \* z of a residual of one band
    None

ASSUME CusumAssumption ==
    /\ H \in Nat \ {0} /\ Slack \in Nat /\ Warmup \in Nat /\ Band \in Nat
    /\ None \notin Nat

VARIABLES
    sHi, sLo,       \* s_hi and s_lo
    seen,           \* windows_seen
    drift,          \* drift_start_window
    verdict,        \* status, reason and latency of the last window
    run,            \* history: the z folded in, from the window after a flag
    folded,         \* history: the windows they were folded in by
    streak          \* history: folded windows in a row with z of Band or more

cusumVars == <<sHi, sLo, seen, drift, verdict, run, folded, streak>>

Verdict(status, reason, latency) ==
    [status |-> status, reason |-> reason, latency |-> latency]

Fold(s, deviation) == IF s + deviation - Slack > 0 THEN s + deviation - Slack ELSE 0

\* Mutant: the threshold is met rather than exceeded.
AlarmsAt(hi, lo) == hi >= H \/ lo >= H

Alarms(hi, lo) == hi > H \/ lo > H

\* Mutant: the drift begins when either sum leaves zero.
DriftStartPerSide(hi, lo) ==
    IF (sHi <= 0 /\ hi > 0) \/ (sLo <= 0 /\ lo > 0) THEN seen + 1
    ELSE IF hi <= 0 /\ lo <= 0 THEN None
    ELSE drift

\* The window in which the drift that leaves the sums at hi and lo began: the
\* one in which either left zero after both had been there.
DriftStart(hi, lo) ==
    IF sHi <= 0 /\ sLo <= 0 /\ (hi > 0 \/ lo > 0) THEN seen + 1
    ELSE IF hi <= 0 /\ lo <= 0 THEN None
    ELSE drift

\* Mutant: the other accumulator is reset.
RaiseResetsOther(hi, lo) ==
    LET inflated == hi >= lo
        start == IF DriftStart(hi, lo) # None THEN DriftStart(hi, lo) ELSE seen + 1
    IN /\ sHi' = IF inflated THEN hi ELSE 0
       /\ sLo' = IF inflated THEN 0 ELSE lo
       /\ drift' = None
       /\ verdict' = Verdict("flagged", IF inflated THEN "inflated" ELSE "under_reported",
                             seen + 1 - start + 1)

\* A flag: the accumulator that fired starts again, and so does the drift.
Raise(hi, lo) ==
    LET inflated == hi >= lo
        start == IF DriftStart(hi, lo) # None THEN DriftStart(hi, lo) ELSE seen + 1
    IN /\ sHi' = IF inflated THEN 0 ELSE hi
       /\ sLo' = IF inflated THEN lo ELSE 0
       /\ drift' = None
       /\ verdict' = Verdict("flagged", IF inflated THEN "inflated" ELSE "under_reported",
                             seen + 1 - start + 1)

Rest(hi, lo) ==
    /\ sHi' = hi /\ sLo' = lo
    /\ drift' = DriftStart(hi, lo)
    /\ verdict' = Verdict("ok", "ok", -1)

Accumulate(z) ==
    LET hi == Fold(sHi, z)
        lo == Fold(sLo, -z)
    IN /\ IF Alarms(hi, lo) THEN Raise(hi, lo) ELSE Rest(hi, lo)
       /\ run' = IF verdict.status = "flagged" THEN <<z>> ELSE Append(run, z)
       /\ folded' = IF verdict.status = "flagged" THEN <<seen + 1>>
                    ELSE Append(folded, seen + 1)
       /\ streak' = IF Alarms(hi, lo) \/ z < Band THEN 0 ELSE streak + 1

\* Mutant: a jam wipes out what was accumulated.
HoldAfresh(status) ==
    /\ verdict' = Verdict(status, status, -1)
    /\ sHi' = 0 /\ sLo' = 0 /\ drift' = None
    /\ run' = IF verdict.status = "flagged" THEN <<>> ELSE run
    /\ folded' = IF verdict.status = "flagged" THEN <<>> ELSE folded
    /\ UNCHANGED streak

\* The window counts, but nothing is accumulated.
Hold(status) ==
    /\ verdict' = Verdict(status, status, -1)
    /\ run' = IF verdict.status = "flagged" THEN <<>> ELSE run
    /\ folded' = IF verdict.status = "flagged" THEN <<>> ELSE folded
    /\ UNCHANGED <<sHi, sLo, drift, streak>>

\* jam: the edge is crowded and crawling (_is_spillback).
Window(z, jam) ==
    /\ seen' = seen + 1
    /\ IF jam THEN Hold("spillback")
       ELSE IF seen + 1 <= Warmup THEN Hold("warmup")
       ELSE Accumulate(z)

CusumInit ==
    /\ sHi = 0 /\ sLo = 0
    /\ seen = 0
    /\ drift = None
    /\ verdict = Verdict("warmup", "warmup", -1)
    /\ run = <<>> /\ folded = <<>> /\ streak = 0

CusumNext == \E z \in Int, jam \in BOOLEAN : Window(z, jam)

CusumSpec == CusumInit /\ [][CusumNext]_cusumVars

-----------------------------------------------------------------------------
\* A sum that went over the threshold has been reset: neither stays above it.
SumsBounded == sHi \in 0 .. H /\ sLo \in 0 .. H

\* Over- and under-reporting are never both on the verge: while both sums are
\* off zero they do not exceed the threshold together.  So a flag leaves both
\* at zero, though update() resets only the one that fired.
SumsOpposed == sHi > 0 /\ sLo > 0 => sHi + sLo <= H

\* An inflated claim is found: a residual of one band or more, window after
\* window, is flagged before the excess over the slack adds up to more than H.
SustainedIsFlagged == streak * (Band - Slack) <= H

\* The reference: how far the last windows of run exceed the slack, for the
\* stretch that exceeds it most.
Excess(zs) ==
    LET sum[n \in 0 .. Len(zs)] == IF n = 0 THEN 0 ELSE sum[n - 1] + zs[n] - Slack
    IN sum[Len(zs)]

PersistsAbove(zs, h) == \E i \in 1 .. Len(zs) : Excess(SubSeq(zs, i, Len(zs))) > h

Negated(zs) == [i \in DOMAIN zs |-> -zs[i]]

\* A flag is raised by a window exactly if a run of windows that ends with it
\* exceeds the slack by more than H in total, to one side.
FlagsMeanARun ==
    verdict.status \in {"ok", "flagged"} =>
        (verdict.status = "flagged" <=> PersistsAbove(run, H) \/ PersistsAbove(Negated(run), H))

\* Something is accumulating, to one side or the other.
Unrest(zs) == PersistsAbove(zs, 0) \/ PersistsAbove(Negated(zs), 0)

\* It has been since the r-th window that was folded in, and was not before.
UnrestSince(zs, r) ==
    /\ ~Unrest(SubSeq(zs, 1, r - 1))
    /\ \A n \in r .. Len(zs) : Unrest(SubSeq(zs, 1, n))

\* The latency of a flag counts from the first window after the last one at
\* which nothing was accumulating on either side.  It is not the latency of
\* the drift that is flagged if an opposite one came before and faded only as
\* this one grew.
LatencySpansUnrest ==
    verdict.status = "flagged" =>
        \E r \in 1 .. Len(run) :
            /\ UnrestSince(run, r)
            /\ verdict.latency = seen - folded[r] + 1
=============================================================================
