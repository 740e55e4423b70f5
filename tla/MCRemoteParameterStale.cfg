\* reported, when somebody changes the parameter during the first fetch.
CONSTANTS
  v1 = v1
  v2 = v2
  text = text
  t1 = t1
  t2 = t2
  Undefined = Undefined
  Values = {v1, v2, text}
  Declared <- NumberAndText
  Coerced <- NumbersAndTexts
  Targets = {t1, t2}
  Incomplete = Incomplete
  FirstTarget = t1
  MaxInputs = 0
  MaxDisturbances = 0
  MaxForeign = 1
SPECIFICATION FairSpec
PROPERTY ReportedIsActual
