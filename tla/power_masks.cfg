SPECIFICATION Spec
CONSTANTS
    Outputs = {A, B}
    NoOutput = NoOutput
    WinIds = {1}
    Windows = {w}
    Plugged = {{A}, {A, B}}
    Flavors = {"none"}
    IdleTimeouts = {0}
    Actors = {"windows", "unplug", "start", "battery"}
    Started = {"shader"}
    MaxEnv = 7
INVARIANTS CoveredIsPaused NoPhantomPause
CHECK_DEADLOCK FALSE
