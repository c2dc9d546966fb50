\* Two consumers on one queue, with reuse of freed blocks.
CONSTANTS
    Producers = {p1, p2}
    Consumers = {c1, c2}
    Blocks = {b1, b2, b3}
    Msgs = {m1, m2, m3}
    NoBlock = NoBlock
SPECIFICATION Spec
INVARIANTS PermitAccounting SingleOwner
PROPERTY ImplementsPool
SYMMETRY Symmetric
CHECK_DEADLOCK FALSE
