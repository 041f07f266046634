\* Protected statements only, and a half that one of them fills to the last byte.
SPECIFICATION Spec
CONSTANTS
    Half = 138
    MaxLines = 4
    IntBits = 4
    Junk <- MCJunk
    Statements <- MCProtected
    Slips <- MCSlips
    Scripts <- MCScripts
    Unprotected <- MCUnprotected
    Careful = FALSE
INVARIANTS
    CollectsAllGarbage
