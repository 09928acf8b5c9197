\* A switch, a sensor and overlapping connect handlers against shutdown.
CONSTANTS
    lamp = lamp
    fan = fan
    bell = bell
    door = door
    l1 = l1
    Nothing = Nothing
    Line = {}
    LineOf <- FanLine
    Actions <- AllActions
    MemorySwitch = {lamp}
    InitialState <- InitiallyOff
    GpioSwitch = {}
    Button = {}
    Sensor = {door}
    Order <- LampAndDoor
    Handler = {h1}
    Capacity = 1
    MaxArrivals = 1
    MaxConnections = 1
    MaxEdges = 1
SPECIFICATION FairSpec
INVARIANTS
    QuietWhenStopped
    WorkerPublishesTruth
PROPERTIES
    ShutdownReturns
CHECK_DEADLOCK FALSE
