SPECIFICATION ESpec
CONSTANTS
  Sender <- MCSender
  Topic <- MCTopic
  Action <- MCAction
  Admin = "qa_admin"
  NoAdmin = NoAdmin
  InitialPolicies <- MCInitialPolicies
  ClientMessages <- Flight
  HeartbeatOn = FALSE
  Failsafe = TRUE
  LossyBus = FALSE
  NoMsg = NoMsg
  NoPayload = NoPayload
  MaxSent = 1
  MaxRestarts = 1
  ReportsIncident = TRUE
  MaxRecalc = 1
INVARIANT LandingUntilIsolationEnd
CHECK_DEADLOCK FALSE
