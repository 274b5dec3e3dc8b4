\* One failing ptrace call leaves a debugger INT3 visible to the user.
CONSTANTS
  Addrs <- MCAddrs
  HwTypes <- MCHwTypes
  NumSlots = 2
  MaxIds = 3
  MaxRefs = 2
  MaxFailures = 1
SPECIFICATION BpmSpec
INVARIANT UserViewIsOriginal
