CONSTANTS
    Blank = Blank
    Bad = Bad
    None = None
    Uploads <- MCUploads
SPECIFICATION Spec
CHECK_DEADLOCK FALSE
INVARIANT PercentagesAreJudged
