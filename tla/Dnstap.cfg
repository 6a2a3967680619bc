\* One struct, every frame, a caller that keeps to the rules.
SPECIFICATION Spec
CONSTANTS
    Careful = TRUE
INVARIANTS
    TypeOK
    NoBadMemory
    ShowsWhatIsEncoded
