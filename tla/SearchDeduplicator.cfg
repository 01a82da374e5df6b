SPECIFICATION Spec
CONSTANTS
    a = a
    b = b
    c = c
    d = d
    Identities <- MCIdentities
    Capacity <- MCCapacity
    MaxMessages <- MCMaxMessages
CHECK_DEADLOCK FALSE
INVARIANTS
    TypeOK
    UniqueInWindow
PROPERTY
    SuppressesOnlyRepeats
