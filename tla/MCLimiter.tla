----------------------------- MODULE MCLimiter -----------------------------
(***************************************************************************)
(* Instances of Limiter for TLC: two missions whose last waypoints are far  *)
(* apart, one whose altitude is out of bounds, and a position near each of  *)
(* the first, one between, and one that is too high.                       *)
(***************************************************************************)
EXTENDS Limiter

CONSTANTS m1, m2, high

P(x, alt) == [x |-> x, alt |-> alt]

MCSteps == [m \in Missions |->
  CASE m = m1 -> <<P(0, 2), P(4, 2)>> [] m = m2 -> <<P(0, 2)>> [] m = high -> <<P(0, 99)>>]
MCPositions == {P(4, 2), P(0, 2), P(3, 2), P(4, 9)}
MCConfigUpdates == {[dist |-> 9, alt |-> 0]}

=============================================================================
