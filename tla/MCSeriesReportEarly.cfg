SPECIFICATION Spec
CONSTANTS
    Total = 4
    Count = 2
    Fixed = TRUE
    First = FALSE
    Earlier <- NoneLeft
    Kinds <- NoFailure
    Points <- Table17
    Tellings <- MCTellings
CHECK_DEADLOCK FALSE
INVARIANTS
    OneReportFiled
