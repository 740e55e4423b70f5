\* The documented promise of autoCall, against an outage or a reconnection.
CONSTANTS
  v1 = v1
  v2 = v2
  Values = {v1, v2}
  Default = v1
  MaxWrites = 2
  MaxImperative = 0
  MaxResets = 1
  MaxOutages = 1
SPECIFICATION FairSpec
PROPERTY DispatchedAsSoonAsPossible
