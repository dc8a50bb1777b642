SPECIFICATION Spec
CONSTANTS
    None = None
    ann = ann
    bob = bob
    cho = cho
    acme = acme
    beta = beta
    Names = {ann, bob, cho}
    Slugs = {acme, beta}
    Roles = {"Owner", "Member"}
    Seed <- MCSeed
    Clients = {c1}
    Texts = {"", "Bo"}
    Blank = ""
    SeedName = "Bo"
    Times = {1, 2, 3}
    Signups <- MCSignups
    Offered <- MCOffered
    Pictures <- MCPictures
    Patches <- MCPatches
    Searches <- MCSearches
    PageSizes <- MCPageSizes
    MaxPage = 2
    DefaultPage = 1
INVARIANTS TypeOK WalkSeesEveryone AnswersAreCoherent
PROPERTIES ProfilesAreTheirOwners
