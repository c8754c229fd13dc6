SPECIFICATION Spec
CONSTANTS
    Null = Null
    Down = Down
    People = {p1, p2}
    Registered = {p1}
    Nobody = Nobody
    Addresses <- MCOneAddress
    Services <- MCFewServices
    Requests = {r1, r2}
    ReturningIsChecked = FALSE
    MaxHomes = 2
    MaxNew = 1
    MaxRows = 3
    MaxTimes = 1
SYMMETRY MCSymmetry
INVARIANTS
    TypeOK
    DemosAreWholeOrUnseen
    OneHomePerNumber
    RecurringTasksGoOn
PROPERTIES
    OnlySalesTakeAway
CHECK_DEADLOCK FALSE
