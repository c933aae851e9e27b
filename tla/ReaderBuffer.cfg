\* A buffer of three bytes, reads of at most two, a pattern of two, five bytes sent.
SPECIFICATION FairSpec
CONSTANTS
    MaxBytes = 3
    Chunk = 2
    NeedleLen = 2
    MaxStream = 5
    Consumers = {c1, c2}
INVARIANTS EveryByteAccounted NoByteTwice NoOccurrencePassedOver
PROPERTIES FeedSpec DeadReaderReleasesConsumers
