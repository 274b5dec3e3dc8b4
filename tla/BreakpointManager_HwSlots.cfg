\* Two enabled hardware breakpoints end up on one debug register.
CONSTANTS
  Addrs <- MCAddrs
  HwTypes <- MCHwTypes
  NumSlots = 2
  MaxIds = 3
  MaxRefs = 2
  MaxFailures = 0
SPECIFICATION BpmSpec
INVARIANT HwSlotsDistinct
