SPECIFICATION Spec
CONSTANTS
  m1 = m1
  m2 = m2
  Missions = {m1}
  BadMission = BadMission
  NoMission = NoMission
  Sensors <- MCSensors
  Scenarios <- MCKafkaWithOrvd
  Refusing = FALSE
  Patient = TRUE
  NoMsg = NoMsg
  NoAnswer = NoAnswer
INVARIANT DocumentedLoad
CHECK_DEADLOCK FALSE
