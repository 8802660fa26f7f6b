--------------------------- MODULE MCMissionChain ---------------------------
(***************************************************************************)
(* MissionChain for TLC: loads race a poll of two components.               *)
(***************************************************************************)
EXTENDS MissionChain

CONSTANTS m1, m2

MCSensors == {"motors", "cargo"}

Scenario(b, o, q, l, p, n) ==
  [broker |-> b, orvd |-> o, pollOrder |-> q,
   maxLoads |-> l, maxPolls |-> p, maxSamples |-> n]

MCScenarios ==
  {Scenario("kafka", FALSE, <<>>, 2, 0, 0),
   Scenario("kafka", FALSE, <<"motors">>, 1, 1, 0),
   Scenario("kafka", TRUE, <<>>, 1, 0, 0),
   Scenario("mqtt", FALSE, <<"motors">>, 1, 1, 0),
   Scenario("kafka", FALSE, <<"motors", "cargo">>, 0, 1, 1),
   Scenario("kafka", FALSE, <<"motors">>, 0, 2, 1)}

(* The scenario that docs/orvd_integration.md describes.                    *)
MCKafkaWithOrvd == {Scenario("kafka", TRUE, <<>>, 1, 0, 0)}

=============================================================================
