SPECIFICATION FairSpec
CONSTANTS
    base = base
    good2 = good2
    fails2 = fails2
    crash3 = crash3
    good3 = good3
    stale3 = stale3
    text3 = text3
    NoImage = NoImage
    Garbage = Garbage
    Base = base
    Versions = {1, 2, 3}
    Artifacts <- AllArtifacts
    Builds <- AllBuilds
    Embedded <- EmbeddedVersion
    Health <- FirstBoot
INVARIANT TypeOK
INVARIANT AlwaysRecoverable
PROPERTY ImplementsAtomicUpdate
 
