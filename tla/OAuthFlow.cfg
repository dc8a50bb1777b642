\* Two sign-ins of one browser and two callbacks at a time.
CONSTANTS
    Flows = {f1, f2}
    Calls = {c1, c2}
    Providers = {"google", "github"}
    OIDC = {"google"}
    Accounts <- MCAccounts
    None = None
SPECIFICATION FairSpec
INVARIANTS
    TypeOK
    CookiesBindTheSignIn
    RefusalsHaveACause
PROPERTIES
    SignInsComplete
