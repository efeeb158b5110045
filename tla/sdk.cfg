CONSTANTS
    MaxSeq = 2
    MaxFailures = 1
    Lidars = {l1}
    Settings = {"PclDataType", "DualEmit"}
    TryLimit = 0
    Blocks = 2
    UpgradeTryLimit = 2
    ProgressLimit = 2
    Types = {"HAP", "Mid360"}
    Calls <- SetterMenu
    Again <- SecondCalls
    MaxCalls = 2
    Word = 65536
    NetLidars = {"hap", "mid"}
    TypeOf <- TypeOfLidars
    Files <- NetFiles
    Changes <- ChangedFiles
    MaxInits = 2
    MaxRefusals = 1
    MaxPoll = 9
SPECIFICATION InterfacesSpec
INVARIANTS CalledOnce SamplingIsConfigured BitHasRequest NoBlockMissing OneRequestDrives SuccessMeansFlashed
           ReportedAsAsked Heard SocketsClosed EveryoneIsTold
PROPERTIES EventuallySampling UpgradeEnds
CHECK_DEADLOCK FALSE
