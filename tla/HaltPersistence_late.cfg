SPECIFICATION Spec
CONSTANTS
    Blocks = {1, 2}
    MaxHalts = 2
    Operators = {o1, o2}
INVARIANT
    RetryAfterLate
