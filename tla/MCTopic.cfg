\* One publisher, one subscriber: latching, the heartbeat, restarts, losses.
CONSTANTS
  v1 = v1
  v2 = v2
  ta = ta
  tb = tb
  None = None
  Values = {v1, v2}
  Default = v1
  Topics = {ta, tb}
  Depth = 1
  MaxPosted = 1
  MaxWrites = 2
  MaxChanges = 2
  MaxLosses = 1
SPECIFICATION FairSpec
INVARIANT TypeOK
INVARIANT LatchedIsLatest
PROPERTY LatchedReachesSubscriber
PROPERTY HeartbeatReachesSubscriber
