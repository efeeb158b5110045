SPECIFICATION CliSpec
CONSTANTS
  Places <- OnePlace
  First = "first"
  Second = "origin"
  DwellTime = 1
  MenuCommands <- StopAndGoto
PROPERTIES SecondAfterDwell
