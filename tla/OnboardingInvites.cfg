\* Signups for one organisation and its invites: two tokens, two requests
\* at a time; queries may fail.
CONSTANTS
    ann = ann
    bob = bob
    acme = acme
    beta = beta
    Blank = Blank
    Spaces = Spaces
    None = None
    SeedPassword = pw1
    gid = gid
    Identities = {}
    LinkTokens = {}
    LinkNames = {}
    Names = {ann, bob, acme}
    Slugs = {acme}
    Passwords = {pw1}
    LongPasswords = {}
    Secrets = {}
    Tokens = {tok1, tok2}
    Reqs = {r1, r2}
    Sids = {sid1, sid2}
    Raw = {"  ", " Ann", "BOB", "Acme "}
    EmailInputs = {" Ann", "BOB"}
    NameInputs = {"  "}
    SlugInputs = {"Acme "}
    RoleInputs = {"Admin", "Owner"}
    Routes = {"signup", "invite", "accept"}
    QueryErrors = TRUE
    LocalRequired = FALSE
    Normal <- MCNormal
    ProviderOf <- MCProviderOf
    Claims <- MCMovingClaims
    Seed <- MCNoSeed
SPECIFICATION Spec
SYMMETRY Symmetry
INVARIANTS
    TypeOK
    SessionsAreBacked
    OwnerIsFounder
    RolesAreEarned
    UsedInviteGrantedMembership
PROPERTIES
    StrandedUntilInvited
    MembershipSpec
