SPECIFICATION Spec
CONSTANTS
    MaxTip = 4
    MaxDepth = 2
CONSTRAINT Kept
INVARIANT
    TypeOK
PROPERTY
    DepthBounded
