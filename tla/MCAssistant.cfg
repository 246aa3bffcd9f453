SPECIFICATION FairSpec
CONSTANTS
    lampFile = lampFile
    otherFile = otherFile
    None = None
    Uris = {lampFile}
    OnDisk <- TheOnDisk
    Readable = {lampFile}
    LowerSnake <- TheLowerSnake
    Completions <- TheCompletions
    Settings <- TheSettings
    MaxSteps = 2
    MaxAsks = 2
    MaxFailures = 1
    MaxSaves = 1
    MaxApplies = 2
INVARIANTS
    TypeOK
    RequestsInOrder
    
PROPERTIES
    WrittenWasShown
    
CHECK_DEADLOCK FALSE
