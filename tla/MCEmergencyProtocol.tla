------------------------ MODULE MCEmergencyProtocol ------------------------
(***************************************************************************)
(* Instances of EmergencyProtocol for TLC, with the policies of             *)
(* security_monitor.env that the emergency landing needs.                  *)
(***************************************************************************)
EXTENDS EmergencyProtocol

MCSender == {ME, "emergency", "limiter", "autopilot", "cargo", "qa_admin"}
MCTopic == {ME, "emergency", "navigation", "motors", "cargo", "journal", "orvd"}
MCAction == StateChanging \cup
  {"get_state", "LAND", "CLOSE", "LOG_EVENT", "isolation_status", "SET_TARGET",
   "OPEN", "limiter_event", "report_incident"}

K(s, t, a) == [sender |-> s, topic |-> t, action |-> a]

MCInitialPolicies ==
  {K("limiter", "emergency", "limiter_event"),
   K("limiter", "orvd", "report_incident"),
   K("emergency", "motors", "LAND"), K("emergency", "cargo", "CLOSE"),
   K("autopilot", "motors", "SET_TARGET"), K("autopilot", "motors", "get_state"),
   K("autopilot", "cargo", "OPEN"), K("autopilot", "cargo", "CLOSE")}

Flight ==
  {ProxyPublishAsync("autopilot", "motors", "SET_TARGET"),
   ProxyPublishAsync("autopilot", "cargo", "OPEN")}

MCFlightAndRecovery ==
  Flight \cup {Direct("ISOLATION_START", "qa_admin"),
               Direct("ISOLATION_END", "qa_admin"),
               ProxyPublishAsync("autopilot", "motors", "get_state")}

=============================================================================
