\* The goroutine of a lost connection resets the filter of the next one.
CONSTANTS
    Entity = {lamp}
    PacketId = {p1}
    Handler = {h1, h2}
    Capacity = 2
    CacheSize = 4
    MaxCommands = 1
    MaxDeliveries = 2
    MaxConnections = 2
SPECIFICATION Spec
INVARIANTS
    AtMostOncePerConnection
CHECK_DEADLOCK FALSE
