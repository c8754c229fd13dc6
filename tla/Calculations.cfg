SPECIFICATION Spec
CONSTANTS
    Null = Null
    Down = Down
    Absent = Absent
    Categories = {"El", "VVS", "Tag", "Garanti", "Forsikring", "Andet"}
    MinText = 2
    MaxText = 6
    MaxItems = 2
    Addresses <- MCAddresses
    Services <- MCServices
    Tokens <- MCTokens
    Sessions <- MCSessions
    OwnerRegisters <- MCOwnerRegisters
    Strings <- MCStrings
    Pdfs <- MCPdfs
    Files <- MCFiles
    Models <- MCModels
    Indexes <- MCIndexes
    Hits = {1, 2}
    HomeRows <- MCHomeRows
    Dates <- MCDatesOfTheCalendar
    Intervals = {1, 3, 6, 12, 13, 24}
INVARIANTS
    FailuresAreNotAbsence
    VerificationFailsClosed
    PdfTextIsRead
    IndexingNeverBlocks
    WorkPaysOff
    NextDueIsNear
CHECK_DEADLOCK FALSE
