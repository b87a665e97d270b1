CONSTANTS
    Inputs <- AllLines
    Coordinates = {0, 1, 7}
    UINT_MAX = 7
    MaxDrivers = 2
    MaxCustomers = 3
    MaxRequests = 2
    Missing = Missing
    NotANumber = NotANumber
    OutOfRange = OutOfRange
    Unreadable = Unreadable
    None = None
SPECIFICATION FairSpec
INVARIANTS TypeOK PairedUntilPaid TradeInOrder
PROPERTIES UsesMonitor AllServed
CHECK_DEADLOCK FALSE
