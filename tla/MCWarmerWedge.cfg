\* As many offers as the channel and the pool hold together.
CONSTANTS
    Urls = {u1, u2, u3, u4}
    Workers = {w1, w2}
    QUEUE_SIZE = 2
    NUM_RETRIES = 1
    NoItem = NoItem
SPECIFICATION FairSpec
PROPERTIES
    EveryOfferSettles
CHECK_DEADLOCK FALSE
