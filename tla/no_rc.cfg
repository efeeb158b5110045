SPECIFICATION Spec
CONSTANTS
  RcTimeout = 1
  RcMsgs <- NoMsgs
  OdomTimeout = 1
  CmdTimeout = 1
  OffboardDelay = 1
  MotorsSpeedup = 2
  ClimbTime = 0
  RampTime = 0
  TriggerDelay = 0
  TimeKeep = 1
  DisarmPeriod = 0
  Modes = {"MANUAL"}
  Enable = TRUE
  EnableAutoArm = TRUE
  NoRC = TRUE
INVARIANTS TypeOK BeforeModeKnown FreshDetector ContactOfThisLanding
PROPERTIES RcFreeHandBack FlightModesSpec
