\* A GPIO switch, a button and run(): execution, failure, cancellation, shutdown.
CONSTANTS
    lamp = lamp
    fan = fan
    bell = bell
    door = door
    l1 = l1
    Nothing = Nothing
    Line = {l1}
    LineOf <- FanLine
    Actions <- AllActions
    MemorySwitch = {}
    InitialState <- InitiallyOff
    GpioSwitch = {fan}
    Button = {bell}
    Sensor = {}
    Order <- FanAlone
    Handler = {}
    Capacity = 1
    MaxArrivals = 2
    MaxConnections = 0
    MaxEdges = 0
SPECIFICATION FairSpec
INVARIANTS
    TypeOK
    AtMostOneLateAction
    WorkerPublishesTruth
PROPERTIES
    CommandsTaken
CHECK_DEADLOCK FALSE
