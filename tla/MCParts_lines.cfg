SPECIFICATION PartsSpec
CONSTANTS
    A = A
    B = B
    Moving = {"train"}
    Session <- TwoSessions
    None = None
    Vanilla = Vanilla
    Blank = Blank
    MaxFramesPerStep = 3
    MaxInputBlockFrames = 9
    StableAliveTicks = 2
    InboundDeathGrace = 3
    PendingInboundDeath = 8
    DeathConfirm = 6
    Latency = 2
    Revives = FALSE
    EarlyBlips = FALSE
    LivenessTimeoutTicks = 3
    MaxCommands = 2
    Modifier = {m1, m2}
    Seconds = 2
    MidTrapChoice = FALSE
    Starter = "whip"
    Stream <- Streams
    Drops = FALSE
    MidRun = FALSE
    Kear = {k1, k2}
    Plain = {p1}
    VanillaKear = {v1}
    Removed = {p1}
    MaxKeys = 2
    Outage = FALSE
    Boss = {1, 2, 3, 4}
    Preset = {1}
    WideRise = 3
    Image = {1, 2}
    MaxSwapchains = 2
    MaxFailures = 2
    MaxQueued = 2
    SignalFails = FALSE
    BufferCounts = {2, 3}
    MaxMessages = 1
    ResizeFails = FALSE
    WaterConfirmTicks = 3
    BurrowConfirmGraceTicks = 2
    Line = {l1}
    WalkInterval = 2
    Nobody = Nobody
    Lock = {"kear", "plain"}
    BitOf <- Bits
    Chest = {"left", "right"}
    SlotOf <- ChestSlots
    MaxTrackedChests = 2
    Color = {red, blue}
    Retry = 2
    Piecemeal = FALSE
    Cap = 2
    Kit = 2
    Base = 1
    Stat = {"attack", "defense"}
    Native = 1
    MaxStatLevel = 2
    MaxUps = 3
    ConsoleCaps = {1}
PROPERTY OwnLinesKept
CHECK_DEADLOCK FALSE
