SPECIFICATION Spec
CONSTANTS
    order = order
    envelope = envelope
    poison = poison
    Message <- MCMessage
    OuterType <- MCOuter
    InnerType <- MCInner
    None = None
    Consumer = {c1, c2}
    BatchSize = 2
    MaxFaults = 2
INVARIANTS
    TypeOK
    NothingIsLost
PROPERTIES
    PoisonStays
    GoodMessagesAreDeleted
