SPECIFICATION FairSpec
CONSTANTS
    Sessions = {1, 2}
    Password = 1
    Entered = {1, 2}
    Passed = {1}
    MaxFaults = 1
    MaxDeaths = 1
    MaxSubmits = 1
    MaxCalls = 1
    MaxDials = 6
INVARIANTS
    SessionsAreOrderly
PROPERTIES
    OpenSessionsComeUp
CHECK_DEADLOCK FALSE
