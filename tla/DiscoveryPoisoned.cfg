\* Two issuers, one configuration, and a network that may lose a request.
CONSTANTS
    microsoft = microsoft
    google = google
    tenantA = tenantA
    tenantB = tenantB
    goog = goog
    Loop <- Both
    Issuers = {tenantA, tenantB, goog}
    Configs <- OneConfig
    Faults = {"lost"}
    Page = Page
    Empty = Empty
    None = None
SPECIFICATION Spec
INVARIANTS
    HealthyUpstreamsSuffice
