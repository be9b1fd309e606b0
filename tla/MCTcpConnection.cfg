SPECIFICATION FairSpec
CONSTANTS
    Prompt = TRUE
    MaxConnects = 2
    MaxData = 2
INVARIANTS
    TypeOK
    DeliveredInOrder
    NoReaderSurvives
    OpenIsRead
PROPERTIES
    CloseReturns
    LostIsReinitialised
