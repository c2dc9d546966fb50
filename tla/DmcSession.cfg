\* Three threads of the gateway, three requests, fair threads.
CONSTANTS
    Threads = {t1, t2, t3}
    Free = none
    MaxRequests = 3
SPECIFICATION FairSpec
INVARIANTS AnswerInSequence
PROPERTIES EveryCallReturns
CHECK_DEADLOCK FALSE
