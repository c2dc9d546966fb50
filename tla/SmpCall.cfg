\* Two callers, a locker that lets in one or two.
CONSTANTS
  Callers = {c1, c2}
  Server = Server
  Lockers <- OneOrTwo
  MaxCalls = 3
SPECIFICATION FairSpec
INVARIANTS NoOverlap RequestsAccounted
PROPERTIES CallsReturn CallsAnswered ImplementsCall
CHECK_DEADLOCK FALSE
