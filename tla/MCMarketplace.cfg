SPECIFICATION Spec
CONSTANTS
    server = server
    alice = alice
    bob = bob
    carol = carol
    None = None
    Torn = Torn
    Registries = {server}
    Strict = {server}
    Publishers = {alice, bob}
    Installers = {carol}
    Trusted <- TrustFirstKey
    Projects <- TheProjects
    Contents = {"plain", "rogue"}
    LowerSnake <- TheLowerSnake
    PackageNames <- ThePackageNames
    Dotted <- TheDotted
    FileOrder <- TheFileOrder
    Damage = {FALSE, TRUE}
    MaxKeys = 2
INVARIANTS
    TypeOK
    ReleasedStays
    StableKey
    
PROPERTIES
    ImplementsPackageLog
    NeverOlder
CHECK_DEADLOCK FALSE
