\* One daemon, two devices, three entities of which a manifest holds two; crashes, power loss, late publications.
CONSTANTS
    d1 = d1
    d2 = d2
    c1 = c1
    c2 = c2
    v1 = v1
    v2 = v2
    v3 = v3
    e1 = e1
    e2 = e2
    e3 = e3
    Daemon = {d1}
    Client = {c1, c2}
    Nobody = Nobody
    NoState = NoState
    Corrupt = Corrupt
    Device = {v1, v2}
    Entity = {e1, e2, e3}
    Configs <- AloneConfigs
    Existing <- AloneExisting
    MQTTQoS = 0
    MaxTopics = 2
    MaxStops = 3
SPECIFICATION FairSpec
INVARIANTS
    TypeOK
    Tracked
    SelfAccepted
    SuccessMeansSettled
PROPERTIES
    Converges
