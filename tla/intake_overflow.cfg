\* A command dropped by a full queue is sent again.
CONSTANTS
    Entity = {lamp}
    PacketId = {p1, p2}
    Handler = {h1}
    Capacity = 1
    CacheSize = 4
    MaxCommands = 2
    MaxDeliveries = 3
    MaxConnections = 1
SPECIFICATION Spec
INVARIANTS
    RefusedWasQueued
CHECK_DEADLOCK FALSE
