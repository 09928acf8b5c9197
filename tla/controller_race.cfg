\* A connect handler publishes a state it read before a command changed it.
CONSTANTS
    lamp = lamp
    fan = fan
    bell = bell
    door = door
    l1 = l1
    Nothing = Nothing
    Line = {l1}
    LineOf <- FanLine
    Actions <- AllActions
    MemorySwitch = {}
    InitialState <- InitiallyOff
    GpioSwitch = {fan}
    Button = {}
    Sensor = {}
    Order <- FanAlone
    Handler = {h1}
    Capacity = 1
    MaxArrivals = 1
    MaxConnections = 1
    MaxEdges = 0
SPECIFICATION Spec
INVARIANTS
    FinalStateRetained
CHECK_DEADLOCK FALSE
