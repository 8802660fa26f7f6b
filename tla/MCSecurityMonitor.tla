------------------------- MODULE MCSecurityMonitor -------------------------
(***************************************************************************)
(* A small instance of SecurityMonitor for TLC: an administrator, the       *)
(* watched components, and an autopilot whose base policies are wrong on    *)
(* purpose (they let it address the monitor's own topic).                  *)
(***************************************************************************)
EXTENDS SecurityMonitor

MCSender == {ME, "emergency", "limiter", "autopilot", "qa_admin"}
MCTopic == {ME, "navigation", "motors", "cargo", "journal"}
MCAction == StateChanging \cup
  {"get_state", "LAND", "CLOSE", "LOG_EVENT", "isolation_status", "SET_TARGET"}

K(s, t, a) == [sender |-> s, topic |-> t, action |-> a]

MCInitialPolicies ==
  {K("autopilot", "motors", "SET_TARGET"), K("limiter", "navigation", "get_state"),
   K("emergency", "motors", "LAND"), K("autopilot", ME, "ISOLATION_END"),
   K("autopilot", ME, "set_policy")}

Msg(a, s, p) ==
  [action |-> a, sender |-> s, origin |-> s, payload |-> p, epoch |-> 0]
Publish(s, t, a, d) == Msg("proxy_publish", s, [topic |-> t, action |-> a, data |-> d])
Request(s, t, a) ==
  Msg("proxy_request", s, [topic |-> t, action |-> a, data |-> NoPayload])

Flight ==
  {Publish("autopilot", "motors", "SET_TARGET", NoPayload),
   Request("limiter", "navigation", "get_state"),
   Msg("proxy_publish", "autopilot", NoPayload),
   Msg("isolation_status", "autopilot", NoPayload)}
Heartbeats == {Msg("safety_heartbeat", s, NoPayload) : s \in Watched}
Switches ==
  {Msg("ISOLATION_START", "emergency", NoPayload),
   Msg("ISOLATION_END", "qa_admin", NoPayload),
   Msg("ISOLATION_START", "autopilot", NoPayload)}
SelfAddressed ==
  {Publish("autopilot", ME, "ISOLATION_END", NoPayload),
   Request("emergency", ME, "ISOLATION_END"),
   Publish("autopilot", ME, "set_policy", K("autopilot", "cargo", "CLOSE"))}
PolicyCommands ==
  {Msg("set_policy", "qa_admin", K("autopilot", "cargo", "CLOSE")),
   Msg("remove_policy", "qa_admin", K("autopilot", "motors", "SET_TARGET")),
   Msg("clear_policies", "qa_admin", NoPayload)}

MCClientMessages ==
  Flight \cup Heartbeats \cup Switches \cup SelfAddressed \cup PolicyCommands

=============================================================================
