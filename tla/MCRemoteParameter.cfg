\* One item, two targets: safety, refinement and liveness of the write side.
CONSTANTS
  v1 = v1
  v2 = v2
  text = text
  t1 = t1
  t2 = t2
  Undefined = Undefined
  Values = {v1, v2, text}
  Declared <- NumberAndText
  Coerced <- NumbersAndTexts
  Targets = {t1, t2}
  Incomplete = Incomplete
  FirstTarget = t1
  MaxInputs = 2
  MaxDisturbances = 1
  MaxForeign = 1
SPECIFICATION FairSpec
INVARIANT TypeOK
INVARIANT NoLostWakeup
PROPERTY CoalescesWrites
PROPERTY DesiredStateSticks
