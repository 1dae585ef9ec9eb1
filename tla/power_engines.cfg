SPECIFICATION FairSpec
CONSTANTS
    Outputs = {A}
    NoOutput = NoOutput
    WinIds = {1}
    Windows = {w}
    Plugged = {{}, {A}}
    Flavors = {"none", "hyprland", "sway", "niri"}
    IdleTimeouts = {0, 300}
    Actors = {"ipc", "battery", "idle", "user", "image", "start", "reload", "plug"}
    Started = {"shader", "anim", "video"}
    MaxEnv = 4
INVARIANTS AwakeWhenVisible BatteryMask EarlyReasonMoves
PROPERTIES FrameTimersSleep
CHECK_DEADLOCK FALSE
