SPECIFICATION Spec
CONSTANTS
    Kinds <- AllKinds
    Overridden = {4}
    MaxLines = 5
INVARIANT TypeOK
INVARIANT Attribution
INVARIANT EveryLineDocumented
INVARIANT MarkupBalanced
CHECK_DEADLOCK FALSE
