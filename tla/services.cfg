SPECIFICATION ServicesSpec
CONSTANTS
    d1 = d1  d2 = d2  d3 = d3  d4 = d4
    c1 = c1  c2 = c2  c3 = c3
    m1 = m1  m2 = m2  m3 = m3
    Daemons <- MCDaemons
    Activated <- MCActivated
    Systemd = Systemd
    NoFile = NoFile
    Overlap = FALSE
    Clients <- MCClients
    Seats = 2
    Room = 1
    MaxEvents = 2
    Monitors <- MCMonitors
    AllOutputs = AllOutputs
    Absent = Absent
    Torn = Torn
    MaxEntries = 3
    MaxRequests = 2
    p1 = p1
    p2 = p2
    p3 = p3
    p4 = p4
    cover = cover
    Wallpapers <- MCWallpaperIds
    NoCache <- MCNoCache
    NoTheme <- MCNoTheme
    Covers = {cover}
    Unset = Unset
    s1 = s1  s2 = s2  s3 = s3
    PlayRing = 4
    Period = 2
    CapRing = 4
    Window = 3
    Wrap = 8
    Chunks = {1, 3, 5}
    MaxSamples = 10
    Programs <- MCPrograms
    Nodes = 2
SYMMETRY MCSymmetry
INVARIANTS ServingIsReachable StoredAsShown PaletteOfWallpaper  NothingKept
PROPERTIES ClosedForCause RefinesFeed
CHECK_DEADLOCK FALSE
