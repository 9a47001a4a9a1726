SPECIFICATION Spec
CONSTANTS
    MaxHeight = 3
    WriteStep = 2
CONSTRAINT Guarded
INVARIANTS
    TypeOK
    MarkerSoundWhileGuarded
PROPERTY
    AdvanceOnVerified
