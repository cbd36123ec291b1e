CONSTANTS
    Instructions <- MCInstructions
    Destination = 2000
    MinBytes = 5
    CodeSize = 27
    BackjumpSize = 6
    MapSize = 7
    MaxUses = 1
    Elsewhere <- MCElsewhere
    Before <- MCBefore
    CallbackJump = 1984
    ContextFails = FALSE
SPECIFICATION Spec
INVARIANT MigrationFindsInstruction
CHECK_DEADLOCK FALSE
