CONSTANTS
  display = display
  timer = timer
  accept = accept
  None = None
  Fds = {display, timer}
  Types <- MCTypes
  Wayland = "wayland"
  Masks = {"in"}
  Interest <- MCReuse
  NumSlots = 2
  SqDepth = 2
  Kernels = {TRUE, FALSE}
  Faults = {"again", "error", "ends"}
  MaxEnv = 5
SPECIFICATION Spec
INVARIANTS InFlightBacked NoDeafSlot NoOrphanPoll CanceledIsStale
PROPERTIES DeliveryIsCurrent RefinesEventLoop
CHECK_DEADLOCK FALSE
