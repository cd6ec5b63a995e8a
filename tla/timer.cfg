SPECIFICATION FairSpec
CONSTANTS
    B = 3
    Harts = 2
    Thresholds <- MCThresholds
    MaxTime = 5
    MaxCalls = 4
INVARIANT CounterReadIsCurrent
PROPERTIES NoEarlyAlarm AlarmComes
CHECK_DEADLOCK FALSE
