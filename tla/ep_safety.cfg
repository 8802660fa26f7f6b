SPECIFICATION ESpec
CONSTANTS
  Sender <- MCSender
  Topic <- MCTopic
  Action <- MCAction
  Admin = "qa_admin"
  NoAdmin = NoAdmin
  InitialPolicies <- MCInitialPolicies
  ClientMessages <- MCFlightAndRecovery
  HeartbeatOn = TRUE
  Failsafe = TRUE
  LossyBus = TRUE
  NoMsg = NoMsg
  NoPayload = NoPayload
  MaxSent = 2
  MaxRestarts = 0
  ReportsIncident = FALSE
  MaxRecalc = 1
INVARIANTS ETypeOK SafeStateHolds ActiveMeansLandAsked
PROPERTY ImplementsLanding
CHECK_DEADLOCK FALSE
