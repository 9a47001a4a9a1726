SPECIFICATION Spec
CONSTANTS
    MaxHeight = 3
    WriteStep = 2
CONSTRAINT OnlyRange
INVARIANT
    AfterRange
