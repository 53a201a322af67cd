\* Three tasks, two places in the channel, two pins to bad addresses: the
\* awaited task or another dies first, and the pool outlives one or none.
CONSTANTS
    Pins = {p1, p2, p3, p4, p5}
    BadPins = {p4, p5}
    Workers = {w1, w2, w3}
    Awaited = w1
    QUEUE_SIZE = 2
    NoPin = NoPin
SPECIFICATION FairSpec
INVARIANTS
    TypeOK
    FewOvertaken
    DamageContained
PROPERTIES
    ImplementsWarmService
    EveryPinSettles
\* The model ends when every pin is settled or the pool is gone.
CHECK_DEADLOCK FALSE
