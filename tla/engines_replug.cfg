SPECIFICATION Spec
CONSTANTS
    Outputs = {"A", "B"}
    Removable = {"A"}
    Boards <- OneMonitor
    Specs <- One
    ShowSpecs <- NoSpecs
    Videos <- ItsVideo
    Files = {"f1"}
    Broken = {}
    Spares = {"x", "y"}
    Items = {"still"}
    Restored = {"f1"}
    Controls = {"pause"}
INVARIANT GivenVideoPlays
CHECK_DEADLOCK FALSE
