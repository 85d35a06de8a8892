SPECIFICATION FairSpec
CONSTANTS
  Root <- MCRoot
  Versions <- MCVersions
  MaxMessages = 2
INVARIANT FutureAdditionsIgnored
CHECK_DEADLOCK FALSE
