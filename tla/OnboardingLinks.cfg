\* Two users link one identity, whose email changes at its provider, and log in
\* while TOTP is enrolled; queries answer.
CONSTANTS
    ann = ann
    bob = bob
    acme = acme
    beta = beta
    Blank = Blank
    Spaces = Spaces
    None = None
    SeedPassword = pw1
    gid = gid
    Identities = {gid}
    LinkTokens = {lt1, lt2}
    LinkNames = {" Ann", "BOB"}
    Names = {ann, bob, acme, beta}
    Slugs = {acme, beta}
    Passwords = {pw1}
    LongPasswords = {}
    Secrets = {sec1}
    Tokens = {}
    Raw = {"  ", " Ann", "BOB"}
    EmailInputs = {" Ann", "BOB"}
    NameInputs = {" Ann"}
    SlugInputs = {}
    RoleInputs = {}
    Reqs = {r1, r2}
    Sids = {sid1}
    QueryErrors = FALSE
    LocalRequired = FALSE
    Routes = {"callback", "link", "totp", "login"}
    Normal <- MCNormal
    ProviderOf <- MCProviderOf
    Claims <- MCMovingClaims
    Seed <- MCSeedBoth
SPECIFICATION Spec
SYMMETRY Symmetry
INVARIANTS
    LinksWereAsserted
    PasswordLoginsHonourTOTP
