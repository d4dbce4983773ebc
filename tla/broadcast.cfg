SPECIFICATION FairSpec
CONSTANTS
    Broadcasters = {b1, b2}
    Execs = {e1}
    Sshs = {t1}
    ChanCap = 1
    MaxMsgs = 1
INVARIANTS StreamFaithful NoSendOnClosed
PROPERTIES BroadcastReturns StreamEnds
CHECK_DEADLOCK FALSE
