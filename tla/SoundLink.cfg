SPECIFICATION BoundedSpec
CONSTANTS
  Bit7 = 16
  Rom <- MCRom
  Request <- MCRequests
  Slack <- MCSlack
  MaxCalls = 3
INVARIANTS
  DispatchOnlyPosted
  AcksMatch
  TransfersInStep
  LinkInv
  Delivered
PROPERTIES
  ImplementsService
  CallsReturn
  VolumeSettles
