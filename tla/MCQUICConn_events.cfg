SPECIFICATION Spec
CONSTANTS
    Frags = 2
    OfferEarly = TRUE
    MayRetry = TRUE
    MayFail = {"server"}
    MayCancel = {"client"}
    BadTicket = FALSE
INVARIANTS
    Handover
    EventsInOrder
    LevelsAgree
    EarlyDataAgreed
CHECK_DEADLOCK FALSE
