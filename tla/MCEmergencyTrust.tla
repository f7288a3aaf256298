-------------------------- MODULE MCEmergencyTrust --------------------------
(* Three junctions along a road, as in the shipped demo.               *)
EXTENDS EmergencyTrust, TLC

CONSTANTS west, mid, east

MCNeighbours == west :> {mid} @@ mid :> {west, east} @@ east :> {mid}
=============================================================================
