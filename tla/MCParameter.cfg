\* One item on two nodes: coercion, ranges, read-only, moves, external sets.
CONSTANTS
  n1 = n1
  n2 = n2
  p1 = p1
  p2 = p2
  None = None
  NotANumber = NotANumber
  AnyNumber = AnyNumber
  Nodes = {n1, n2}
  Names = {p1}
  Choices = {"Auto", "Double", "IntegerList"}
  Ranges <- WideAndPositive
  Writes <- MixedWrites
  UndeclareFails = TRUE
  MaxWrites = 2
  MaxChanges = 4
  MaxExternal = 2
SPECIFICATION Spec
INVARIANT TypeOK
INVARIANT ValueSettles
INVARIANT DescriptorInForce
PROPERTY DeclaredAtOnce
CHECK_DEADLOCK FALSE
