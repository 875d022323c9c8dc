CONSTANTS
    MaxTyped = 3
    MaxPieces = 2
    MaxTrouble = 1
    Line <- MCLine
    TaskIds <- MCTaskIds
    ChainIds <- MCChainIds
    Driven = {"Waiting", "Delivered"}
    MaxDriven = 2
SPECIFICATION MainSpec
CHECK_DEADLOCK FALSE
PROPERTY CtrlCExits
