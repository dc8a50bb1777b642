----------------------------- MODULE LocalAuth ------------------------------
(***************************************************************************)
(* internal/auth/local.go and password.go: signup, login, logout, TOTP     *)
(* setup and set-password, one action per repository call or session-table *)
(* operation.  The first action of a handler includes the validation of    *)
(* its body: a request that fails it changes nothing.                      *)
(***************************************************************************)
EXTENDS MFAEnforce

CONSTANTS NameInputs, SlugInputs,  \* body fields of signup and login, as sent
          Spaces,          \* a password of white space only
          LongPasswords    \* the ones of at least 8 bytes

ASSUME LocalAuthConstants ==
    /\ NameInputs \cup SlugInputs \subseteq Raw
    /\ LongPasswords \subseteq Passwords
    /\ Spaces \notin Passwords

SignupReq == [at : {"signup.credential", "signup.find", "signup.org",
                    "signup.member", "signup.session"},
              user : Names, name : Names, pw : Passwords, org : Slugs]
LoginReq == [at : {"login.failure", "login.mfa", "login.secret", "login.org",
                   "login.session", "login.record"},
             user : Names, name : Names, code : Secrets \cup {None},
             due : Secrets \cup {None}, org : Slugs \cup {None}]
TotpReq == [at : {"totp.store"}, user : Names, secret : Secrets]
PasswordReq == [at : {"password.find", "password.update", "password.create"},
                user : Names, pw : Passwords]

-----------------------------------------------------------------------------
(* POST /auth/signup *)

\* The body is normalised and validated, an empty username is the email, and
\* the user row is written.  HashPassword then refuses a white-space password
\* that the check for an empty one let through.
SignupBegin(r, e, n, pw, o) ==
    LET email == Normal[e]
        username == IF Normal[n] = Blank THEN email ELSE Normal[n]
    IN  /\ "signup" \in Routes
        /\ email # Blank
        /\ Normal[o] \in Slugs
        /\ UpsertUser(email)
        /\ IF pw = Spaces
           THEN req[r] = Idle /\ UNCHANGED req
           ELSE Start(r, [at |-> "signup.credential", user |-> email,
                          name |-> username, pw |-> pw, org |-> Normal[o]])
        /\ UNCHANGED <<web, ghosts>>

\* The credential is inserted, or "username taken" (409).
SignupCredential(r) ==
    LET c == req[r] IN
    /\ c.at = "signup.credential"
    /\ IF CredentialFits(c.user, c.name)
       THEN CreateLocalCredential(c.user, c.name, c.pw) /\ Goto(r, "signup.find")
       ELSE Finish(r) /\ UNCHANGED db
    /\ UNCHANGED <<web, ghosts>>

\* "org_exists" (409); any error of the query counts as "no such slug".
SignupOrgExists(r) ==
    /\ req[r].at = "signup.find"
    /\ OrgExists(req[r].org)
    /\ Finish(r)
    /\ UNCHANGED <<db, web, ghosts>>

SignupOrgMissing(r) ==
    /\ req[r].at = "signup.find"
    /\ ~OrgExists(req[r].org) \/ QueryErrors
    /\ Goto(r, "signup.org")
    /\ UNCHANGED <<db, web, ghosts>>

\* Mutant: CreateOrg as an upsert, which returns the row there is.
SignupCreateOrgUpsert(r) ==
    LET c == req[r] IN
    /\ c.at = "signup.org"
    /\ Goto(r, "signup.member")
    /\ IF OrgExists(c.org)
       THEN UNCHANGED <<db, founder>>
       ELSE CreateOrg(c.org) /\ founder' = [founder EXCEPT ![c.org] = c.user]
    /\ UNCHANGED <<web, enrolled, asserted>>

\* organisations.slug is UNIQUE: of two signups that both saw the slug free,
\* one creates the organisation and the other fails.
SignupCreateOrg(r) ==
    LET c == req[r] IN
    /\ c.at = "signup.org"
    /\ IF OrgExists(c.org)
       THEN Finish(r) /\ UNCHANGED <<db, founder>>
       ELSE /\ CreateOrg(c.org)
            /\ founder' = [founder EXCEPT ![c.org] = c.user]
            /\ Goto(r, "signup.member")
    /\ UNCHANGED <<web, enrolled, asserted>>

\* Mutant: the session is issued before the membership is written.
SignupMemberLater(r) ==
    /\ req[r].at = "signup.member"
    /\ Goto(r, "signup.session")
    /\ UNCHANGED <<db, web, ghosts>>

\* The creator becomes the Owner.
SignupMember(r) ==
    LET c == req[r] IN
    /\ c.at = "signup.member"
    /\ EnsureMembership(c.org, c.user, "Owner")
    /\ Goto(r, "signup.session")
    /\ UNCHANGED <<web, ghosts>>

\* The response carries a session of the new organisation.
SignupSession(r, s) ==
    LET c == req[r] IN
    /\ c.at = "signup.session"
    /\ CreateSession(s, [user |-> c.user, org |-> c.org, provider |-> "local"])
    /\ Finish(r)
    /\ UNCHANGED <<db, ghosts>>

-----------------------------------------------------------------------------
(* POST /auth/login *)

\* The credential of the username is read and the password verified; `due`
\* is a ghost: the TOTP secret in force for the user at that moment, or None.
LoginBegin(r, n, pw, code, u) ==
    /\ "login" \in Routes
    /\ Normal[n] # Blank
    /\ HasUsername(u, Normal[n])
    /\ Start(r, [at |-> IF VerifyPassword(pw, credentials[u].hash)
                        THEN "login.mfa" ELSE "login.failure",
                 user |-> u, name |-> Normal[n], code |-> code,
                 due |-> totp[u], org |-> None])
    /\ UNCHANGED <<db, web, ghosts>>

LoginFailure(r) ==
    /\ req[r].at = "login.failure"
    /\ RecordLoginAttempt(req[r].name, FALSE)
    /\ Finish(r)
    /\ UNCHANGED <<web, ghosts>>

\* Mutant: TOTP is asked of those who send a code.
LoginMFAOptional(r) ==
    LET c == req[r] IN
    /\ c.at = "login.mfa"
    /\ Goto(r, IF HasTOTP(c.user) /\ c.code # None THEN "login.secret" ELSE "login.org")
    /\ UNCHANGED <<db, web, ghosts>>

\* UserHasTOTP, and the code is missing or will be checked.  A failed query
\* is reported as "no TOTP".
LoginMFA(r) ==
    LET c == req[r] IN
    /\ c.at = "login.mfa"
    /\ \/ /\ HasTOTP(c.user)
          /\ IF c.code = None THEN Finish(r) ELSE Goto(r, "login.secret")
       \/ /\ ~HasTOTP(c.user) \/ QueryErrors
          /\ Goto(r, "login.org")
    /\ UNCHANGED <<db, web, ghosts>>

\* GetTOTPSecret and validateTOTP.
LoginSecret(r) ==
    LET c == req[r] IN
    /\ c.at = "login.secret"
    /\ IF ValidateTOTP(totp[c.user], c.code) THEN Goto(r, "login.org") ELSE Finish(r)
    /\ UNCHANGED <<db, web, ghosts>>

\* PickUserOrg; a user without a membership gets "no organisation" (403).
LoginOrg(r, o) ==
    LET c == req[r] IN
    /\ c.at = "login.org"
    /\ PickedOrg(c.user, o)
    /\ req' = [req EXCEPT ![r] =
                  [at |-> "login.session", user |-> c.user, name |-> c.name,
                   code |-> c.code, due |-> c.due, org |-> o]]
    /\ UNCHANGED <<db, web, ghosts>>

LoginNoOrg(r) ==
    /\ req[r].at = "login.org"
    /\ \A o \in Slugs : ~IsMember(o, req[r].user)
    /\ Finish(r)
    /\ UNCHANGED <<db, web, ghosts>>

LoginSession(r, s) ==
    LET c == req[r] IN
    /\ c.at = "login.session"
    /\ CreateSession(s, [user |-> c.user, org |-> c.org, provider |-> "local"])
    /\ Goto(r, "login.record")
    /\ UNCHANGED <<db, ghosts>>

LoginRecord(r) ==
    /\ req[r].at = "login.record"
    /\ RecordLoginAttempt(req[r].name, TRUE)
    /\ Finish(r)
    /\ UNCHANGED <<web, ghosts>>

-----------------------------------------------------------------------------
\* POST /auth/logout deletes the session behind the cookie.
Logout(s) ==
    /\ "logout" \in Routes
    /\ sessions[s] # None
    /\ MFAEnforce("logout", s)
    /\ DropSession(s)
    /\ UNCHANGED <<db, req, ghosts>>

\* GET /auth/mfa/totp/setup: the session is read and a secret generated, then
\* stored.  It is in force from that moment; verify only compares a code.
TotpBegin(r, s, secret) ==
    /\ "totp" \in Routes
    /\ sessions[s] # None
    /\ MFAEnforce("totp", s)
    /\ Start(r, [at |-> "totp.store", user |-> sessions[s].user, secret |-> secret])
    /\ UNCHANGED <<db, web, ghosts>>

TotpStore(r) ==
    LET c == req[r] IN
    /\ c.at = "totp.store"
    /\ SetTOTPSecret(c.user, c.secret)
    /\ enrolled' = [enrolled EXCEPT ![c.user] = enrolled[c.user] \cup {c.secret}]
    /\ Finish(r)
    /\ UNCHANGED <<web, founder, asserted>>

-----------------------------------------------------------------------------
(* POST /auth/set-password *)

\* The session, the length, the hash and the user row are fine.
PasswordBegin(r, s, pw) ==
    /\ "password" \in Routes
    /\ sessions[s] # None
    /\ MFAEnforce("password", s)
    /\ UserExists(sessions[s].user)
    /\ Start(r, [at |-> "password.find", user |-> sessions[s].user, pw |-> pw])
    /\ UNCHANGED <<db, web, ghosts>>

\* Is there a credential whose username is the user's email?  Whose it is, is
\* not looked at; an error counts as "no".
PasswordFind(r) ==
    LET found == \E v \in Names : HasUsername(v, req[r].user) IN
    /\ req[r].at = "password.find"
    /\ \/ found /\ Goto(r, "password.update")
       \/ (~found \/ QueryErrors) /\ Goto(r, "password.create")
    /\ UNCHANGED <<db, web, ghosts>>

PasswordUpdate(r) ==
    /\ req[r].at = "password.update"
    /\ UpdateLocalPasswordHash(req[r].user, req[r].pw)
    /\ Finish(r)
    /\ UNCHANGED <<web, ghosts>>

\* "cannot create credential" (500) when a constraint refuses the row.
PasswordCreate(r) ==
    LET c == req[r] IN
    /\ c.at = "password.create"
    /\ IF CredentialFits(c.user, c.user)
       THEN CreateLocalCredential(c.user, c.user, c.pw)
       ELSE UNCHANGED db
    /\ Finish(r)
    /\ UNCHANGED <<web, ghosts>>

-----------------------------------------------------------------------------
LocalAuthNext ==
    \/ \E r \in Reqs, e \in EmailInputs, n \in NameInputs,
          pw \in Passwords \cup {Spaces}, o \in SlugInputs : SignupBegin(r, e, n, pw, o)
    \/ \E r \in Reqs, n \in NameInputs, pw \in Passwords, code \in Secrets \cup {None},
          u \in Names : LoginBegin(r, n, pw, code, u)
    \/ \E r \in Reqs :
          \/ SignupCredential(r) \/ SignupOrgExists(r) \/ SignupOrgMissing(r)
          \/ SignupCreateOrg(r) \/ SignupMember(r)
          \/ LoginFailure(r) \/ LoginMFA(r) \/ LoginSecret(r)
          \/ LoginNoOrg(r) \/ LoginRecord(r)
          \/ TotpStore(r)
          \/ PasswordFind(r) \/ PasswordUpdate(r) \/ PasswordCreate(r)
    \/ \E r \in Reqs, o \in Slugs : LoginOrg(r, o)
    \/ \E r \in Reqs, s \in Sids :
          \/ SignupSession(r, s) \/ LoginSession(r, s)
          \/ \E secret \in Secrets : TotpBegin(r, s, secret)
          \/ \E pw \in LongPasswords : PasswordBegin(r, s, pw)
    \/ \E s \in Sids : Logout(s)
=============================================================================
