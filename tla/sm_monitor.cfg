SPECIFICATION FairSpec
CONSTANTS
  Sender <- MCSender
  Topic <- MCTopic
  Action <- MCAction
  Admin = "qa_admin"
  NoAdmin = NoAdmin
  InitialPolicies <- MCInitialPolicies
  ClientMessages <- MCClientMessages
  HeartbeatOn = TRUE
  Failsafe = TRUE
  LossyBus = TRUE
  NoMsg = NoMsg
  NoPayload = NoPayload
  MaxSent = 3
  MaxRestarts = 1
INVARIANTS TypeOK ActiveTableFollowsMode VersionTellsMode TransitionsLoggedInOrder IsolationLeaksAtMostOne
PROPERTIES AuthorityNotBorrowed SilenceIsolates InboxDrains
CHECK_DEADLOCK FALSE
