CONSTANTS
    N = 2
    Capacity = 2
    Handles = {1, 2}
    Known = {1}
    Interval = 2
    QueueSize = 2
    TimeTypes <- DriverTimeTypes
    OffsetWrap = 5
    MaxPackets <- DriverPackets
    Span = 1
    MaxClock = 4
    MaxTime = 9
    MaxBacklog = 1
    IndexWrap = 4
    Files = 1
    LastIndex = 3
    CacheSize = 2
    MaxSeconds = 2
    Faults = 1
SPECIFICATION DriverSpec
INVARIANTS NoLostWakeup EachPacketOnce NoTornSlot OffsetsFit FilesSound
PROPERTIES EventuallyPublished ExitCompletes DeletesOldest DestoryReturns
CHECK_DEADLOCK FALSE
