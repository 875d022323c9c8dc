SPECIFICATION Spec
CONSTANTS
    Task = {t1, t2}
    File = {f}
    MaxAsks = 1
    MaxMail = 1
    MaxSends = 1
CHECK_DEADLOCK FALSE
INVARIANTS NoSharedFiles
PROPERTIES TaskLives
