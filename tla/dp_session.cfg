SPECIFICATION FairSpec
CONSTANTS
  m1 = m1
  m2 = m2
  Missions = {m1, m2}
  NoMission = NoMission
  Configs <- MCConfigs
  MaxQueue = 3
INVARIANTS TypeOK TakeoffIsCleared ChargingIsOnPort
PROPERTY PendingEnds
