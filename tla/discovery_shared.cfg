\* Two daemons of different clients on one state file.
CONSTANTS
    d1 = d1
    d2 = d2
    c1 = c1
    c2 = c2
    v1 = v1
    v2 = v2
    v3 = v3
    e1 = e1
    e2 = e2
    e3 = e3
    Daemon = {d1, d2}
    Client = {c1, c2}
    Nobody = Nobody
    NoState = NoState
    Corrupt = Corrupt
    Device = {v1, v2, v3}
    Entity = {e1}
    Configs <- SharedConfigs
    Existing <- SharedExisting
    MQTTQoS = 0
    MaxTopics = 2
    MaxStops = 2
SPECIFICATION Spec
INVARIANTS
    Tracked
    OwnTopicsOnly
    SuccessMeansSettled
