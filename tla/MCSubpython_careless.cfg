SPECIFICATION Spec
CONSTANTS
    Half = 172
    MaxLines = 4
    IntBits = 4
    Junk <- MCJunk
    Statements <- MCStatements
    Slips <- MCSlips
    Scripts <- MCScripts
    Unprotected <- MCUnprotected
    Careful = FALSE
INVARIANTS
    CollectionIsInvisible
