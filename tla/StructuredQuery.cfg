\* Four turns over three states of the index, pages of one and of two items.
CONSTANTS
    Questions <- MCQuestions
    IndexStates <- MCIndexStates
    Deployments <- MCDeployments
    MaxTurns = 4
    MaxRefreshes = 1
SPECIFICATION StructuredSpec
CHECK_DEADLOCK FALSE
INVARIANT PagesTile
INVARIANT CompleteIfCompatible
PROPERTY ExactAsAsked
