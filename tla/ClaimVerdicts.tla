---------------------------- MODULE ClaimVerdicts ----------------------------
(***************************************************************************)
(* What the scoring of emergency claims promises, whatever the order in    *)
(* which claims, sensings and expiries come: a claim that is known counts  *)
(* as true exactly when its vehicle has been sensed by some junction; only *)
(* a claim that does not may be under suspicion, until it does; and a      *)
(* source is held back exactly while a claim of its own is under suspicion.*)
(***************************************************************************)
CONSTANTS Junctions, Vehicles

VARIABLES
    known,      \* claims <<vehicle, claimer>> that have been received
    confirmed,  \* vehicles that some junction has sensed
    credited,   \* claims counted as true
    suspected,  \* claims counted as lies for the time being
    heldBack    \* junctions that may not corroborate

verdictVars == <<known, confirmed, credited, suspected, heldBack>>

Claims == Vehicles \X Junctions

VerdictInit ==
    /\ known = {} /\ confirmed = {}
    /\ credited = {} /\ suspected = {} /\ heldBack = {}

Observe ==
    /\ known \subseteq known' /\ known' \subseteq Claims
    /\ confirmed \subseteq confirmed' /\ confirmed' \subseteq Vehicles
    /\ credited' = {k \in known' : k[1] \in confirmed'}
    /\ suspected' \subseteq known' \ credited'
    /\ suspected \subseteq suspected' \cup credited'
    /\ heldBack' = {k[2] : k \in suspected'}

VerdictSpec == VerdictInit /\ [][Observe]_verdictVars
=============================================================================
