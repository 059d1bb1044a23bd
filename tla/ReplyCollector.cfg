\* Voice requests of two sessions: the collector's bookkeeping.
CONSTANTS
    Sessions = {s1, s2}
    MaxActive = 2
    MaxRequests = 3
    MaxPrompts = 2
SPECIFICATION CollectorFairSpec
INVARIANTS IndexesAgree NoAnswerFromTheFuture
PROPERTIES EveryRequestEnds
