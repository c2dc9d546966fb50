\* Two connections compete for one permit.
CONSTANTS
    Conns = {c1, c2}
    MaxSession = 1
    NoConn = none
    MaxPending = 2
SPECIFICATION SisFairSpec
INVARIANTS PermitsAccounted NoServiceAfterStop
PROPERTIES StopReturns HangUpIsNoticed
CHECK_DEADLOCK FALSE
