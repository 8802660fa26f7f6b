SPECIFICATION FairSpec
CONSTANTS
  m1 = m1
  m2 = m2
  high = high
  Missions = {m1, m2, high}
  NoMission = NoMission
  Steps <- MCSteps
  Positions <- MCPositions
  NoNav = NoNav
  ORVDTopic = TRUE
  MockSuccess = FALSE
  RevokeSender = "orvd"
  ConfigUpdates <- MCConfigUpdates
  MaxDistanceFromPathM = 2
  MaxAltDeviationM = 4
  MaxMissionAltM = 10
  PublishFails = FALSE
  MaxRequests = 3
  MaxRevokes = 1
  MaxRestarts = 1
INVARIANTS TypeOK AuthorizedIsGuarded TakeoffFlagSound LateAlarmsBounded
PROPERTY BreachAlarms
