SPECIFICATION Spec
CONSTANTS
    Task = {t1}
    File = {f}
    MaxAsks = 2
    MaxMail = 2
    MaxSends = 2
INVARIANT CompletedOnce
PROPERTIES EveryEndIsTold WaitEnds
CHECK_DEADLOCK FALSE
