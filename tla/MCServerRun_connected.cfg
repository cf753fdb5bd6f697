CONSTANTS
    main = main  cdc = cdc
    DBs <- MCDBs
SPECIFICATION Spec
INVARIANT ServeOnlyWhenConnected
CHECK_DEADLOCK FALSE
