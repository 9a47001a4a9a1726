SPECIFICATION Spec
CONSTANTS
  MaxHeight = 4
  MaxBranch = 3
  EpochSize = 2
  RetentionBlocks = 2
  Reach = 2
  HashCap = 3
INVARIANTS TypeOK ChangesAreFound ProofsVerify
PROPERTY RootsAreAudited
CONSTRAINT Guarded
