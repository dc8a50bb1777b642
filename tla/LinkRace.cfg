\* Two users link one identity at the same time.
CONSTANTS
    ann = ann
    bob = bob
    acme = acme
    beta = beta
    Blank = Blank
    Spaces = Spaces
    None = None
    SeedPassword = pw1
    gid = gid
    Identities = {gid}
    LinkTokens = {lt1, lt2}
    LinkNames = {" Ann", "BOB"}
    Names = {ann, bob, acme}
    Slugs = {acme}
    Passwords = {pw1}
    LongPasswords = {}
    Secrets = {}
    Raw = {"  ", " Ann", "BOB", "Acme "}
    Sids = {sid1}
    Reqs = {r1, r2}
    Tokens = {}
    EmailInputs = {" Ann", "BOB"}
    SlugInputs = {"Acme "}
    NameInputs = {"  "}
    RoleInputs = {}
    Routes = {"signup", "callback", "link"}
    QueryErrors = FALSE
    LocalRequired = FALSE
    Normal <- MCNormal
    ProviderOf <- MCProviderOf
    Claims <- MCMovingClaims
    Seed <- MCNoSeed
SPECIFICATION Spec
SYMMETRY Symmetry
INVARIANTS
    ProviderSessionsAreLinked
