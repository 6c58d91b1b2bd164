CONSTANTS
    Conns <- MCConns
    BUF_SIZE = 2
    STEPSIZE = 2
    BLOCK = 1
    KERNEL = 3
    BLOCKSIZE = 2
    MAXREDIRECTS = 1
    Scenarios <- MCScenarios
SPECIFICATION Spec
INVARIANTS  RequestSent 
PROPERTY RequestEnds
CHECK_DEADLOCK FALSE
