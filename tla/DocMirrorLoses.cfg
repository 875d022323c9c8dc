SPECIFICATION Spec
CONSTANTS
    Task = {t1, t2}
    File = {readme, main}
    Markdown = {readme}
    Source = {main}
    Present = {main}
    LowFiles = 2
    HighFiles = 2
    MaxEdits = 1
SYMMETRY Interchangeable
PROPERTY MirrorMergesBack
CHECK_DEADLOCK FALSE
