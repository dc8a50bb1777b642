---------------------------- MODULE ProviderAuth ----------------------------
(***************************************************************************)
(* Sign-in with an external provider: CallbackHandler of                   *)
(* internal/auth/handlers.go and the explicit linking of                   *)
(* internal/auth/linking.go, one action per repository call or operation   *)
(* on a process table.  What comes before a callback has an identity, the  *)
(* cookies and the code exchange, is module OAuthFlow; the identity        *)
(* denylist, to which nothing in the program adds, is left out.            *)
(***************************************************************************)
EXTENDS Requests

CONSTANTS Claims,     \* the <<identity, email as sent>> pairs a provider may assert
          LinkNames   \* the "email" field of POST /auth/link/password, as sent

ASSUME ProviderAuthConstants ==
    /\ Claims \subseteq Identities \X EmailInputs
    /\ LinkNames \subseteq Raw

CallbackReq == [at : {"callback.email"}, identity : Identities,
                email : Names \cup {Blank}]
LinkReq == [at : {"link.credential"}, token : LinkTokens, identity : Identities,
            email : Names, name : Names, pw : Passwords, code : Secrets \cup {None}]
\* A handler that has authenticated its user; a callback has no token and no code.
ProviderReq == [at : {"link.mfa", "link.secret", "link.identity", "link.insert",
                      "link.forget", "provider.org", "provider.session",
                      "provider.record"},
                identity : Identities, email : Names, token : LinkTokens \cup {None},
                user : Names, code : Secrets \cup {None},
                due : Secrets \cup {None}, org : Slugs \cup {None}]

-----------------------------------------------------------------------------
(* GET /auth/{provider}/callback *)

\* The provider asserts an identity with an email, and GetUserByIdentity finds
\* the user it is linked to; an error of the query counts as "not linked".
CallbackBegin(r, i, e) ==
    /\ "callback" \in Routes
    /\ <<i, e>> \in Claims
    /\ \/ /\ identities[i] # None
          /\ Start(r, [at |-> "provider.org", identity |-> i, email |-> identities[i],
                       token |-> None, user |-> identities[i], code |-> None,
                       due |-> None, org |-> None])
       \/ /\ identities[i] = None \/ QueryErrors
          /\ Start(r, [at |-> "callback.email", identity |-> i, email |-> Normal[e]])
    /\ asserted' = [asserted EXCEPT ![i] = asserted[i] \cup {Normal[e]}]
    /\ UNCHANGED <<db, web, founder, enrolled>>

\* Mutant: a known email is as good as a link.
CallbackPendingAutoLink(r, t) ==
    LET c == req[r] IN
    /\ c.at = "callback.email"
    /\ UserExists(c.email)
    /\ req' = [req EXCEPT ![r] =
                  [at |-> "provider.org", identity |-> c.identity, email |-> c.email,
                   token |-> t, user |-> c.email, code |-> None, due |-> None,
                   org |-> None]]
    /\ UNCHANGED <<db, web, ghosts>>

\* "link_required": the email has an account, and a pending link is handed out.
CallbackPending(r, t) ==
    LET c == req[r] IN
    /\ c.at = "callback.email"
    /\ UserExists(c.email)
    /\ CreatePending(t, [identity |-> c.identity, email |-> c.email])
    /\ Finish(r)
    /\ UNCHANGED <<db, ghosts>>

\* "signup_required"; an error of GetUserByEmail counts as "no such user".
CallbackUnknown(r) ==
    /\ req[r].at = "callback.email"
    /\ ~UserExists(req[r].email) \/ QueryErrors
    /\ Finish(r)
    /\ UNCHANGED <<db, web, ghosts>>

-----------------------------------------------------------------------------
(* POST /auth/link/password *)

\* getPending copies the pending link; it stays in the map until the end.
LinkBegin(r, t, n, pw, code) ==
    /\ "link" \in Routes
    /\ pending[t] # None
    /\ Normal[n] # Blank
    /\ Start(r, [at |-> "link.credential", token |-> t,
                 identity |-> pending[t].identity, email |-> pending[t].email,
                 name |-> Normal[n], pw |-> pw, code |-> code])
    /\ UNCHANGED <<db, web, ghosts>>

\* The credential whose username was sent, and its password; or "invalid_login".
LinkCredential(r) ==
    LET c == req[r]
        Verified(u) == /\ HasUsername(u, c.name)
                       /\ VerifyPassword(c.pw, credentials[u].hash)
    IN  /\ c.at = "link.credential"
        /\ \/ \E u \in Names :
                 /\ Verified(u)
                 /\ req' = [req EXCEPT ![r] =
                       [at |-> "link.mfa", identity |-> c.identity, email |-> c.email,
                        token |-> c.token, user |-> u, code |-> c.code,
                        due |-> totp[u], org |-> None]]
           \/ (\A u \in Names : ~Verified(u)) /\ Finish(r)
        /\ UNCHANGED <<db, web, ghosts>>

\* Mutant: the check is forgotten.
EmailMatchesAny(c) == c.user \in Names

\* "Enforce email match to prevent cross-account linking".
EmailMatches(c) == c.user = c.email

\* After the MFA step: on to the identity, or "email_mismatch" (409).
LinkAuthenticated(r) == IF EmailMatches(req[r]) THEN Goto(r, "link.identity") ELSE Finish(r)

\* UserHasTOTP; a failed query is reported as "no TOTP".
LinkMFA(r) ==
    LET c == req[r] IN
    /\ c.at = "link.mfa"
    /\ \/ HasTOTP(c.user) /\ Goto(r, "link.secret")
       \/ (~HasTOTP(c.user) \/ QueryErrors) /\ LinkAuthenticated(r)
    /\ UNCHANGED <<db, web, ghosts>>

LinkSecret(r) ==
    LET c == req[r] IN
    /\ c.at = "link.secret"
    /\ IF ValidateTOTP(totp[c.user], c.code) THEN LinkAuthenticated(r) ELSE Finish(r)
    /\ UNCHANGED <<db, web, ghosts>>

\* "identity_linked_elsewhere" (409); an error counts as "not linked".
LinkIdentityCheck(r) ==
    LET c == req[r] IN
    /\ c.at = "link.identity"
    /\ \/ identities[c.identity] \notin {None, c.user} /\ Finish(r)
       \/ /\ identities[c.identity] \in {None, c.user} \/ QueryErrors
          /\ Goto(r, "link.insert")
    /\ UNCHANGED <<db, web, ghosts>>

LinkInsert(r) ==
    /\ req[r].at = "link.insert"
    /\ LinkIdentity(req[r].user, req[r].identity)
    /\ Goto(r, "link.forget")
    /\ UNCHANGED <<web, ghosts>>

\* delPending; the avatar update before it touches nothing modelled.
LinkForget(r) ==
    /\ req[r].at = "link.forget"
    /\ DropPending(req[r].token)
    /\ Goto(r, "provider.org")
    /\ UNCHANGED <<db, ghosts>>

-----------------------------------------------------------------------------
(* The end of both handlers: PickUserOrg, the session, the login attempt. *)

ProviderOrg(r, o) ==
    LET c == req[r] IN
    /\ c.at = "provider.org"
    /\ PickedOrg(c.user, o)
    /\ req' = [req EXCEPT ![r] =
                  [at |-> "provider.session", identity |-> c.identity,
                   email |-> c.email, token |-> c.token, user |-> c.user,
                   code |-> c.code, due |-> c.due, org |-> o]]
    /\ UNCHANGED <<db, web, ghosts>>

ProviderNoOrg(r) ==
    /\ req[r].at = "provider.org"
    /\ \A o \in Slugs : ~IsMember(o, req[r].user)
    /\ Finish(r)
    /\ UNCHANGED <<db, web, ghosts>>

ProviderSession(r, s) ==
    LET c == req[r] IN
    /\ c.at = "provider.session"
    /\ CreateSession(s, [user |-> c.user, org |-> c.org,
                         provider |-> ProviderOf[c.identity]])
    /\ Goto(r, "provider.record")
    /\ UNCHANGED <<db, ghosts>>

\* RecordLoginSuccess with the email as the username.
ProviderRecord(r) ==
    /\ req[r].at = "provider.record"
    /\ RecordLoginAttempt(req[r].user, TRUE)
    /\ Finish(r)
    /\ UNCHANGED <<web, ghosts>>

-----------------------------------------------------------------------------
ProviderAuthNext ==
    \/ \E r \in Reqs, i \in Identities, e \in EmailInputs : CallbackBegin(r, i, e)
    \/ \E r \in Reqs, t \in LinkTokens :
          \/ CallbackPending(r, t)
          \/ \E n \in LinkNames, pw \in Passwords, code \in Secrets \cup {None} :
                LinkBegin(r, t, n, pw, code)
    \/ \E r \in Reqs :
          \/ CallbackUnknown(r)
          \/ LinkCredential(r) \/ LinkMFA(r) \/ LinkSecret(r)
          \/ LinkIdentityCheck(r) \/ LinkInsert(r) \/ LinkForget(r)
          \/ ProviderNoOrg(r) \/ ProviderRecord(r)
    \/ \E r \in Reqs, o \in Slugs : ProviderOrg(r, o)
    \/ \E r \in Reqs, s \in Sids : ProviderSession(r, s)
=============================================================================
