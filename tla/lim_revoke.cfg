SPECIFICATION Spec
CONSTANTS
  m1 = m1
  m2 = m2
  high = high
  Missions = {m1, m2, high}
  NoMission = NoMission
  Steps <- MCSteps
  Positions <- MCPositions
  NoNav = NoNav
  ORVDTopic = TRUE
  MockSuccess = FALSE
  RevokeSender = "security_monitor"
  ConfigUpdates <- MCConfigUpdates
  MaxDistanceFromPathM = 2
  MaxAltDeviationM = 4
  MaxMissionAltM = 10
  PublishFails = TRUE
  MaxRequests = 3
  MaxRevokes = 1
  MaxRestarts = 0
INVARIANT RevokeObeyed
