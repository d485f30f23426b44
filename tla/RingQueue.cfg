SPECIFICATION Spec
CONSTANTS
    Granularity = 4
    MaxItems = 14
    MaxPushes = 14
INVARIANTS
    InOrder
PROPERTIES
    FifoUnlessWrapped
