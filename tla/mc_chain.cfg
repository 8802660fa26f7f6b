SPECIFICATION FairSpec
CONSTANTS
  m1 = m1
  m2 = m2
  Missions = {m1, m2}
  BadMission = BadMission
  NoMission = NoMission
  Sensors <- MCSensors
  Scenarios <- MCScenarios
  Refusing = TRUE
  Patient = FALSE
  NoMsg = NoMsg
  NoAnswer = NoAnswer
INVARIANTS TypeOK FliesAcceptedOnly OkMeansLoaded ToldIsTrue FreshTelemetry
PROPERTIES ImplementsLoading HandlersReturn
CHECK_DEADLOCK FALSE
