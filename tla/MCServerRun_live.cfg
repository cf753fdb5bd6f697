CONSTANTS
    main = main  cdc = cdc
    DBs <- MCDBs
SPECIFICATION FairSpec
PROPERTY WaitLoopExits
CHECK_DEADLOCK FALSE
