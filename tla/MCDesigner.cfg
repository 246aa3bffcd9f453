SPECIFICATION Spec
CONSTANTS
    lampFile = lampFile
    otherFile = otherFile
    None = None
    Uris = {lampFile, otherFile}
    OnDisk <- TheOnDisk
    LowerSnake <- TheLowerSnake
    Forms <- TheForms
    Texts = {"", "light"}
    Numbers = {0}
    ModeLists <- TheModeLists
    Tiles = {"__blank__", "motion_sensor"}
    Proposals <- TheProposals
    Outside <- TheOutside
    MaxQueue = 2
INVARIANTS
    TypeOK
    
    
    OnlyValidOffered
    
