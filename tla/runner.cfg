SPECIFICATION Spec
CONSTANTS
    NGroups = 2
    NCommands = 2
INVARIANTS
    TypeOK
    StartsGated
    CommandsInOrder
    SignalStopsRun
    NothingLeaks
    ReportsTellOutcome
PROPERTIES
    RunEnds
    ImplementsGroupSequence
