SPECIFICATION FairSpec

CONSTANTS
    Width = 3
    Searches <- MCSearches

INVARIANT Accounted
INVARIANT OutcomeIsTrue
PROPERTY Returns
CHECK_DEADLOCK FALSE
