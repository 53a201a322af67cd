\* One offer fewer than the channel and the pool hold together.
CONSTANTS
    Urls = {u1, u2, u3, u4}
    Workers = {w1, w2}
    QUEUE_SIZE = 3
    NUM_RETRIES = 2
    NoItem = NoItem
SPECIFICATION FairSpec
INVARIANTS
    TypeOK
    OneCopy
    TriesAgree
    NeverWedged
PROPERTIES
    ImplementsWarmService
    EveryOfferSettles
\* The model ends when every offer is settled.
CHECK_DEADLOCK FALSE
