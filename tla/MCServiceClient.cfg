\* Safety, refinement and liveness of one client item.
CONSTANTS
  v1 = v1
  v2 = v2
  Values = {v1, v2}
  Default = v1
  MaxWrites = 3
  MaxImperative = 1
  MaxResets = 2
  MaxOutages = 1
SPECIFICATION FairSpec
INVARIANT TypeOK
INVARIANT NoLostWakeup
INVARIANT DeclarativeCallsSerialised
PROPERTY CoalescesWrites
PROPERTY DispatchedUnlessOrphaned
