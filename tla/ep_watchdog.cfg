SPECIFICATION EFairSpec
CONSTANTS
  Sender <- MCSender
  Topic <- MCTopic
  Action <- MCAction
  Admin = "qa_admin"
  NoAdmin = NoAdmin
  InitialPolicies <- MCInitialPolicies
  ClientMessages <- Flight
  HeartbeatOn = TRUE
  Failsafe = TRUE
  LossyBus = FALSE
  NoMsg = NoMsg
  NoPayload = NoPayload
  MaxSent = 1
  MaxRestarts = 0
  ReportsIncident = TRUE
  MaxRecalc = 1
PROPERTY AlarmLands
CHECK_DEADLOCK FALSE
