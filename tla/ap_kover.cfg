SPECIFICATION Spec
CONSTANTS
  m1 = m1
  m2 = m2
  Missions = {m1}
  NoMission = NoMission
  Steps <- MCSteps
  Drops <- MCDrops
  Commands <- AllCommands
  MaxCmds = 3
  MaxLoads = 1
INVARIANT ClearedToExecute
