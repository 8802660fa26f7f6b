SPECIFICATION EFairSpec
CONSTANTS
  Sender <- MCSender
  Topic <- MCTopic
  Action <- MCAction
  Admin = "qa_admin"
  NoAdmin = NoAdmin
  InitialPolicies <- MCInitialPolicies
  ClientMessages <- Flight
  HeartbeatOn = FALSE
  Failsafe = TRUE
  LossyBus = FALSE
  NoMsg = NoMsg
  NoPayload = NoPayload
  MaxSent = 3
  MaxRestarts = 0
  ReportsIncident = TRUE
  MaxRecalc = 2
PROPERTY AlarmLands
CHECK_DEADLOCK FALSE
