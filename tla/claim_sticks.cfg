SPECIFICATION TakeoffSpec
CONSTANTS
  RcTimeout = 1
  RcMsgs <- StickMsgs
  OdomTimeout = 1
  CmdTimeout = 1
  OffboardDelay = 0
  MotorsSpeedup = 1
  ClimbTime = 0
  RampTime = 0
  TriggerDelay = 0
  TimeKeep = 0
  DisarmPeriod = 0
  Modes = {"MANUAL"}
  Enable = TRUE
  EnableAutoArm = TRUE
  NoRC = FALSE
PROPERTIES SticksCenteredAtTakeoff
