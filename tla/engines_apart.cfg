SPECIFICATION Spec
CONSTANTS
    Outputs = {"A", "B", "C"}
    Removable = {"C"}
    Boards <- TwoMonitors
    Specs <- AllOrOne
    ShowSpecs <- StayingOnes
    Videos <- OwnVideos
    Files = {"f1", "f2", "f3", "broken"}
    Broken = {"broken"}
    Spares = {"x", "y"}
    Items = {"anim", "shader"}
    Restored = {"nothing", "shader"}
    Controls = {"pause", "resume"}
INVARIANTS DrawnAsAsked NoFreedEngine NoLostEngine
PROPERTIES OthersUndisturbed
CHECK_DEADLOCK FALSE
