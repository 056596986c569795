SPECIFICATION FairSpec
CONSTANTS
    Frags = 1
    OfferEarly = FALSE
    MayRetry = TRUE
    MayFail = {}
    MayCancel = {"server"}
    BadTicket = TRUE
PROPERTIES
    CallsReturn
    HandshakesComplete
CHECK_DEADLOCK FALSE
