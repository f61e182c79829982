SPECIFICATION Spec
CONSTANTS
    MaxGeneration = 3
    MaxSkip = 0
CONSTRAINT UntilTaken
INVARIANTS
    OpensToAckedOrTried
    NumbersNeverReissued
    FallbackAlwaysThere
