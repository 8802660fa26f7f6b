---------------------------- MODULE MCAutopilot ----------------------------
(***************************************************************************)
(* Instances of Autopilot for TLC: a mission of two steps that drops the    *)
(* cargo at the second, and a mission of one step.                         *)
(***************************************************************************)
EXTENDS Autopilot

CONSTANTS m1, m2

MCSteps == [m \in Missions |-> IF m = m1 THEN 2 ELSE 1]
MCDrops == {<<m1, 1>>}

=============================================================================
