\* Two issuers, any configuration at each start, every fault, fair goroutines.
CONSTANTS
    microsoft = microsoft
    google = google
    tenantA = tenantA
    tenantB = tenantB
    goog = goog
    Loop <- Both
    Issuers = {tenantA, tenantB, goog}
    Configs <- AnyConfig
    Faults = {"lost", "page", "disk", "crash"}
    Page = Page
    Empty = Empty
    None = None
SPECIFICATION FairSpec
INVARIANTS
    TypeOK
    ServesWhatIsEnabled
    IntactCacheSuffices
PROPERTIES
    StartupEnds
