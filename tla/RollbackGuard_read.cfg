SPECIFICATION Spec
CONSTANTS
    MaxTip = 4
    MaxDepth = 2
PROPERTY
    AfterRead
