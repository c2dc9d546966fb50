\* One consumer: the use the gateway's threads make of their queues.
CONSTANTS
    Producers = {p1, p2}
    Consumers = {c1}
    Blocks = {b1, b2, b3}
    Msgs = {m1, m2, m3}
    NoBlock = NoBlock
SPECIFICATION FairSpec
PROPERTIES ImplementsChannel EventuallyDelivered
CHECK_DEADLOCK FALSE
