SPECIFICATION FairSpec
CONSTANTS
  m1 = m1
  m2 = m2
  Missions = {m1, m2}
  NoMission = NoMission
  Steps <- MCSteps
  Drops <- MCDrops
  Commands <- AllCommands
  MaxCmds = 3
  MaxLoads = 2
INVARIANTS TypeOK StopLeaksAtMostOne ClearedUnlessKover FlownUnlessOvertaken
PROPERTY PreflightEnds
