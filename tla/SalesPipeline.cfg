CONSTANTS
    Blank = Blank
    Bad = Bad
    None = None
    Uploads <- MCUploads
SPECIFICATION Spec
INVARIANTS TypeOK EveryRowAccountedFor AcceptedStayValid AnyRowStandsForTheOrder
    OrderDiscountConserved OnlyUndividedOrdersFail
CHECK_DEADLOCK FALSE
