SPECIFICATION Spec
CONSTANTS
    Task = {t1, t2}
    File = {readme, main}
    Markdown = {readme}
    Source = {main}
    Present = {main}
    LowFiles = 2
    HighFiles = 2
    MaxEdits = 1
SYMMETRY Interchangeable
CHECK_DEADLOCK FALSE
INVARIANTS SourceIsAudited SuccessorsFollow WorkIsKept
PROPERTIES NoLostUpdate CleanAppliesAll
