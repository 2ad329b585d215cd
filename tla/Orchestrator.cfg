\* The retry limits of the code, and documents of up to two sections, so that
\* loops are entered, repeated and left.
CONSTANTS
    MaxSections = 2
    MaxRounds = 3
    MaxTries = 3
    VerifyTries = 2
SPECIFICATION FairSpec
INVARIANTS
    RenderedIsChecked
    
PROPERTIES
    Terminates
CHECK_DEADLOCK FALSE
