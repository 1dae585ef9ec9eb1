CONSTANTS
  display = display
  timer = timer
  accept = accept
  None = None
  Fds = {display, timer}
  Types <- MCTypes
  Wayland = "wayland"
  Masks = {"in"}
  Interest <- MCInterest
  NumSlots = 2
  SqDepth = 2
  Kernels = {TRUE, FALSE}
  Faults = {}
  MaxEnv = 5
SPECIFICATION FairSpec
PROPERTIES ReadyServed
CHECK_DEADLOCK FALSE
