SPECIFICATION Spec
CONSTANTS
    Message <- Json
    MAX_BUFFER_COUNT = 3
    MaxWrites = 3
INVARIANT NothingHeldBack
PROPERTY ImplementsChannel
