\* A username equal to the email of another user.
CONSTANTS
    ann = ann
    bob = bob
    acme = acme
    beta = beta
    Blank = Blank
    Spaces = Spaces
    None = None
    SeedPassword = pw1
    gid = gid
    Identities = {}
    LinkTokens = {}
    LinkNames = {}
    Names = {ann, bob, acme}
    Slugs = {acme}
    Passwords = {pw1, pw2}
    LongPasswords = {pw2}
    Secrets = {sec1}
    Raw = {"  ", " Ann", "BOB", "Acme ", "bob"}
    Sids = {sid1, sid2}
    Reqs = {r1, r2}
    Tokens = {tok1}
    EmailInputs = {" Ann", "BOB"}
    SlugInputs = {"Acme "}
    NameInputs = {"  ", "bob"}
    RoleInputs = {Blank}
    Routes = {"signup", "invite", "accept", "password"}
    QueryErrors = FALSE
    LocalRequired = FALSE
    Normal <- MCNormal
    ProviderOf <- MCProviderOf
    Claims <- MCMovingClaims
    Seed <- MCNoSeed
SPECIFICATION Spec
SYMMETRY Symmetry
PROPERTIES
    SetPasswordTakesEffect
