SPECIFICATION SurfacesSpec
CONSTANTS
    RingSize = 2
    Sizes = {size1, size2}
    MaxFrames = 1
    MaxWire = 2
    Bos = {"t", "o"}
    Size <- MCSize
    Tiled = {"t"}
    Effects = {"fade", "custom"}
    Values = {1}
    PoolSize = 1
    ScratchName <- MCScratchName
    Places = {place1, place2}
    Pictures = {picture1, picture2}
    Extent <- MCExtent
    Calls = 3
SYMMETRY MCSymmetry
INVARIANTS NoLeakedBuffer BoundAsWanted
PROPERTIES ScreenKept
CHECK_DEADLOCK FALSE
