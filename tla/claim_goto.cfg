SPECIFICATION StackSpec
CONSTANTS
  Places = {"origin", "here", "there"}
  Origin = "origin"
  First = "here"
  Second = "there"
  DwellTime = 1
  MenuCommands = {"goto"}
  TrajectoryTypes = {"hover"}
  TopicSize = 1
PROPERTIES GotoIsFlown
CHECK_DEADLOCK FALSE
