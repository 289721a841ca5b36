SPECIFICATION Spec
CONSTANTS
    Byte = {0, 1}
    CheapPrepend = 1
    InitialSize = 2
    ExtraSize = 2
    MaxChunk = 3
    MaxCapacity = 8
PROPERTIES ImplementsQueue
