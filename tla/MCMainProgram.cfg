SPECIFICATION MPSpec
CONSTANTS
    Pipelines = {p1, p2}
    detailed_records = TRUE
INVARIANTS
    CountersBeforeRecords
    AnswersComplete
PROPERTIES
    CtrlCEndsProgram
CHECK_DEADLOCK FALSE
