SPECIFICATION Spec
CHECK_DEADLOCK FALSE
CONSTANTS
    None = None
    BlockSize = 6
    HeaderSize = 2
    Scenarios <- MCScenarios
INVARIANTS
    TypeOK
    TablesFinished
    AckedKept
    CanReopen
    SequencesFresh
