SPECIFICATION Spec
CONSTANTS
    p1 = p1
    p2 = p2
    Name <- MCName
    Interval = 2
    Slack = 1
    Adjustments <- MCAdjustments
    MaxBack = 10
    MaxAhead = 10
INVARIANT PendingBound
PROPERTIES RateLimited CoalescerSpec
