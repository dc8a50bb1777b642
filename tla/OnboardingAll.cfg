\* Every route under local_required, one request at a time, two organisations:
\* long sequences of calls with failures and crashes in between.
CONSTANTS
    ann = ann
    bob = bob
    acme = acme
    beta = beta
    Blank = Blank
    Spaces = Spaces
    None = None
    SeedPassword = pw1
    gid = gid
    Identities = {gid}
    LinkTokens = {lt1}
    LinkNames = {"ann"}
    Names = {ann, bob, acme, beta}
    Slugs = {acme, beta}
    Passwords = {pw1, pw2}
    LongPasswords = {pw2}
    Secrets = {sec1}
    Tokens = {tok1}
    Reqs = {r1}
    Sids = {sid1, sid2}
    Raw = {"  ", "ann", " Ann", "BOB", "Acme ", "beta"}
    EmailInputs = {" Ann", "BOB"}
    NameInputs = {"  ", "ann"}
    SlugInputs = {"Acme ", "beta"}
    RoleInputs = {Blank}
    Routes = {"signup", "login", "logout", "password", "totp", "invite", "accept", "callback", "link"}
    QueryErrors = TRUE
    LocalRequired = TRUE
    Normal <- MCNormal
    ProviderOf <- MCProviderOf
    Claims <- MCStableClaims
    Seed <- MCSeedOther
SPECIFICATION Spec
SYMMETRY Symmetry
INVARIANTS
    SessionsAreBacked
    ProviderSessionsAreLinked
    InvitersAreEnrolled
