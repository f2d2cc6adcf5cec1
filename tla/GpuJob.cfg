SPECIFICATION FairSpec
CONSTANTS
  Pod = {p1, p2, p3, p4}
  NoPod = NoPod
  NoJob = NoJob
  QueueCap = 2
  Word = 8
  Worlds <- AllWorlds
PROPERTIES
  OnlyWhatIsNeeded
  JobCompletes
  TemplateKept
CHECK_DEADLOCK FALSE
