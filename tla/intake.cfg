\* Two entities, two packet identifiers, one connect goroutine at a time.
CONSTANTS
    Entity = {lamp, gate}
    PacketId = {p1, p2}
    Handler = {h1}
    Capacity = 1
    CacheSize = 4
    MaxCommands = 2
    MaxDeliveries = 4
    MaxConnections = 2
SPECIFICATION FairSpec
INVARIANTS
    TypeOK
    AtMostOncePerConnection
    RefusedWasPassed
    AtMostOneAfterCancel
PROPERTIES
    CallbackReturns
CHECK_DEADLOCK FALSE
