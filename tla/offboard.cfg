SPECIFICATION OffboardSpec
CONSTANTS
  Places = {"origin", "here", "there"}
  Origin = "origin"
  First = "here"
  Second = "origin"
  DwellTime = 1
  MenuCommands = {"circle", "goto", "stop", "quit"}
  TrajectoryTypes = {"circle", "square", "hover"}
  TopicSize = 1
INVARIANTS HoldFlown
PROPERTIES NoStaleAcceleration StopHolds SequenceCompletes StopIsFlown TrajectoryIsFlown
CHECK_DEADLOCK FALSE
