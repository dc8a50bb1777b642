-------------------------- MODULE OnboardingProofs --------------------------
(***************************************************************************)
(* The safety properties of the onboarding service for any number of       *)
(* users, organisations, invites, sessions and concurrent requests.        *)
(***************************************************************************)
EXTENDS Onboarding, FiniteSetTheorems, TLAPS

\* An invite that is used or lapses stays an invite and keeps what it says.
LEMMA InviteEdits ==
    \A inv \in Invite :
        /\ [inv EXCEPT !.used = TRUE] \in Invite
        /\ [inv EXCEPT !.lapsed = TRUE] \in Invite
BY DEF Invite

USE RepoConstants, RequestConstants, NoneIsNoEntry, LocalAuthConstants,
    ProviderAuthConstants

-----------------------------------------------------------------------------
(* The inductive invariant. *)

SignupAt == {"signup.credential", "signup.find", "signup.org", "signup.member",
             "signup.session"}
LoginAt == {"login.failure", "login.mfa", "login.secret", "login.org",
            "login.session", "login.record"}
PasswordAt == {"password.find", "password.update", "password.create"}
InviteAt == {"invite.role", "invite.create"}
AcceptAt == {"accept.user", "accept.upsert", "accept.member", "accept.use",
             "accept.session"}
ProviderAt == {"link.mfa", "link.secret", "link.identity", "link.insert", "link.forget",
               "provider.org", "provider.session", "provider.record"}

\* Every identity always comes with the same email.
StableClaims ==
    \A i \in Identities, d, e \in EmailInputs :
        <<i, d>> \in Claims /\ <<i, e>> \in Claims => Normal[d] = Normal[e]

\* An organisation has a row exactly when a signup founded it.
Founded == \A o \in Slugs : founder[o] # None <=> OrgExists(o)

\* The rows other rows refer to exist.
RowsAreBacked ==
    /\ \A u \in Names : credentials[u] # None => UserExists(u)
    /\ \A o \in Slugs, u \in Names : IsMember(o, u) => UserExists(u) /\ OrgExists(o)
    /\ \A u \in Names : HasTOTP(u) => totp[u] \in enrolled[u]
    /\ \A i \in Identities : identities[i] # None => credentials[identities[i]] # None

\* Only the founder has issued invites, and none of them for Owner.
InvitesFromFounder ==
    \A t \in Tokens : invites[t] # None =>
        invites[t].role # "Owner" /\ invites[t].inviter = founder[invites[t].org]

\* A session was created under an id that was handed out.
SessionsIssued == \A s \in Sids : sessions[s] # None => s \in issued

\* What the providers have said, and the pending links made from it.
EmailsWereClaimed ==
    \A i \in Identities : \A x \in asserted[i] :
        \E e \in EmailInputs : <<i, e>> \in Claims /\ x = Normal[e]
PendingsWereAsserted ==
    \A t \in LinkTokens : pending[t] # None =>
        pending[t].email \in asserted[pending[t].identity]

TablesOK ==
    /\ Founded /\ RowsAreBacked /\ InvitesFromFounder /\ SessionsIssued
    /\ EmailsWereClaimed /\ PendingsWereAsserted
    /\ OwnerIsFounder /\ RolesAreEarned /\ SessionsAreBacked
    /\ UsedInviteGrantedMembership /\ LinksWereAsserted
    /\ StableClaims => ProviderSessionsAreLinked

\* What a handler has established by the time it is at c.at.
SignupOK(c) ==
    /\ c.at \in SignupAt => UserExists(c.user)
    /\ c.at \in SignupAt \ {"signup.credential"} => credentials[c.user] # None
    /\ c.at \in {"signup.member", "signup.session"} => founder[c.org] = c.user
    /\ c.at = "signup.session" => IsMember(c.org, c.user)

LoginOK(c) ==
    /\ c.at \in LoginAt => credentials[c.user] # None
    /\ c.at = "login.session" => c.org \in Slugs /\ IsMember(c.org, c.user)
    /\ c.at = "login.mfa" /\ c.due # None => HasTOTP(c.user)
    /\ c.at = "login.secret" => c.code # None

\* The MFA step of a login or a link has been taken.
MFAOK(c) ==
    ~QueryErrors /\ c.at \in PastMFA /\ c.due # None => c.code \in enrolled[c.user]

\* The session behind the cookie of an invite request is still the one that
\* was authenticated, or it is gone.
InviteOK(c) ==
    /\ c.at \in InviteAt => c.sid \in issued
    /\ c.at \in InviteAt /\ sessions[c.sid] # None =>
          sessions[c.sid].user = c.user /\ sessions[c.sid].org = c.org
    /\ c.at = "invite.create" => founder[c.org] = c.user

AcceptOK(c) ==
    /\ c.at \in AcceptAt => invites[c.token] # None
    /\ c.at \in {"accept.member", "accept.use", "accept.session"} =>
          UserExists(invites[c.token].email)
    /\ c.at \in {"accept.use", "accept.session"} =>
          IsMember(invites[c.token].org, invites[c.token].email)

PasswordOK(c) == c.at \in PasswordAt => UserExists(c.user)

ProviderOK(c) ==
    /\ c.at \in {"callback.email", "link.credential", "link.mfa", "link.secret",
                "link.identity", "link.insert"} => c.email \in asserted[c.identity]
    /\ c.at \in ProviderAt => credentials[c.user] # None
    /\ c.at \in {"link.mfa", "link.secret", "link.identity", "link.insert", "link.forget"}
          => c.token \in LinkTokens
    /\ c.at = "link.mfa" /\ c.due # None => HasTOTP(c.user)
    /\ c.at = "link.secret" => HasTOTP(c.user)
    /\ c.at \in {"link.identity", "link.insert"} => c.user = c.email
    /\ c.at \in {"link.forget", "provider.org", "provider.session"} /\ StableClaims
          => identities[c.identity] = c.user
    /\ c.at = "provider.session" => c.org \in Slugs /\ IsMember(c.org, c.user)

ReqOK(c) == /\ SignupOK(c) /\ LoginOK(c) /\ MFAOK(c) /\ InviteOK(c)
            /\ AcceptOK(c) /\ PasswordOK(c) /\ ProviderOK(c)

OnboardingInv == TypeOK /\ TablesOK /\ \A r \in Reqs : ReqOK(req[r])

-----------------------------------------------------------------------------
(* Nothing that a handler relies on is taken away by a step of another one. *)

DbGrows ==
    /\ users \subseteq users'
    /\ \A u \in Names : credentials[u] # None => credentials'[u] # None
    /\ \A u \in Names : totp[u] # None => totp'[u] # None
    /\ \A o \in Slugs : organisations[o] # 0 => organisations'[o] # 0
    /\ \A o \in Slugs, u \in Names : members[o][u] # None => members'[o][u] # None
    /\ \A t \in Tokens : invites[t] # None =>
          /\ invites'[t] # None
          /\ invites'[t].org = invites[t].org
          /\ invites'[t].email = invites[t].email
          /\ invites'[t].role = invites[t].role
          /\ invites'[t].inviter = invites[t].inviter
    /\ \A i \in Identities : identities[i] # None => identities'[i] = identities[i]

WebGrows ==
    /\ issued \subseteq issued'
    /\ \A s \in issued : sessions'[s] \in {None, sessions[s]}

GhostsGrow ==
    /\ \A o \in Slugs : founder[o] # None => founder'[o] = founder[o]
    /\ \A u \in Names : enrolled[u] \subseteq enrolled'[u]
    /\ \A i \in Identities : asserted[i] \subseteq asserted'[i]

Grows == DbGrows /\ WebGrows /\ GhostsGrow

-----------------------------------------------------------------------------
(* Type correctness. *)

\* Every SQL statement keeps the tables well typed.
LEMMA StatementTypes ==
    ASSUME RepoTypeOK
    PROVE  /\ UNCHANGED db => RepoTypeOK'
           /\ \A u \in Names : UpsertUser(u) => RepoTypeOK'
           /\ \A u, n \in Names, pw \in Passwords :
                 CreateLocalCredential(u, n, pw) => RepoTypeOK'
           /\ \A u \in Names, pw \in Passwords :
                 UpdateLocalPasswordHash(u, pw) => RepoTypeOK'
           /\ \A u \in Names, x \in Secrets : SetTOTPSecret(u, x) => RepoTypeOK'
           /\ \A o \in Slugs : CreateOrg(o) => RepoTypeOK'
           /\ \A o \in Slugs, u \in Names, role \in Roles :
                 EnsureMembership(o, u, role) => RepoTypeOK'
           /\ \A t \in Tokens, o \in Slugs, u, e \in Names, role \in Roles :
                 CreateInvite(t, o, u, e, role) => RepoTypeOK'
           /\ \A t \in Tokens : invites[t] # None /\ UseInvite(t) => RepoTypeOK'
           /\ \A t \in Tokens : InviteLapses(t) => RepoTypeOK'
           /\ \A n \in Names, b \in BOOLEAN : RecordLoginAttempt(n, b) => RepoTypeOK'
           /\ \A u \in Names, i \in Identities : LinkIdentity(u, i) => RepoTypeOK'
<1> USE DEF RepoTypeOK
<1>1. UNCHANGED db => RepoTypeOK'
  BY DEF db
<1>2. ASSUME NEW u \in Names, UpsertUser(u) PROVE RepoTypeOK'
  BY <1>2 DEF UpsertUser
<1>3. ASSUME NEW u \in Names, NEW n \in Names, NEW pw \in Passwords,
             CreateLocalCredential(u, n, pw)
      PROVE  RepoTypeOK'
  <2>1. [name |-> n, hash |-> HashPassword(pw)] \in Credential
    BY DEF Credential
  <2> QED
    BY <1>3, <2>1 DEF CreateLocalCredential
<1>4. ASSUME NEW u \in Names, NEW pw \in Passwords, UpdateLocalPasswordHash(u, pw)
      PROVE  RepoTypeOK'
  <2>1. credentials[u] # None =>
           [name |-> credentials[u].name, hash |-> HashPassword(pw)] \in Credential
    BY DEF Credential
  <2> QED
    BY <1>4, <2>1 DEF UpdateLocalPasswordHash
<1>5. ASSUME NEW u \in Names, NEW x \in Secrets, SetTOTPSecret(u, x) PROVE RepoTypeOK'
  BY <1>5 DEF SetTOTPSecret
<1>6. ASSUME NEW o \in Slugs, CreateOrg(o) PROVE RepoTypeOK'
  <2>1. IsFiniteSet({p \in Slugs : OrgExists(p)})
    BY FS_Subset
  <2>2. Cardinality({p \in Slugs : OrgExists(p)}) + 1 \in Nat
    BY <2>1, FS_CardinalityType
  <2> QED
    BY <1>6, <2>2 DEF CreateOrg
<1>7. ASSUME NEW o \in Slugs, NEW u \in Names, NEW role \in Roles,
             EnsureMembership(o, u, role)
      PROVE  RepoTypeOK'
  <2>1. [members[o] EXCEPT ![u] = role] \in [Names -> Roles \cup {None}]
    OBVIOUS
  <2> QED
    BY <1>7, <2>1 DEF EnsureMembership
<1>8. ASSUME NEW t \in Tokens, NEW o \in Slugs, NEW u \in Names, NEW e \in Names,
             NEW role \in Roles, CreateInvite(t, o, u, e, role)
      PROVE  RepoTypeOK'
  BY <1>8 DEF CreateInvite, Invite
<1>9. ASSUME NEW t \in Tokens, invites[t] # None, UseInvite(t) PROVE RepoTypeOK'
  <2>1. [invites[t] EXCEPT !.used = TRUE] \in Invite
    BY <1>9, InviteEdits
  <2> QED
    BY <1>9, <2>1 DEF UseInvite
<1>10. ASSUME NEW t \in Tokens, InviteLapses(t) PROVE RepoTypeOK'
  <2>1. invites[t] # None
    BY <1>10 DEF InviteLapses
  <2>2. [invites[t] EXCEPT !.lapsed = TRUE] \in Invite
    BY <2>1, InviteEdits
  <2> QED
    BY <1>10, <2>2 DEF InviteLapses
<1>11. ASSUME NEW n \in Names, NEW b \in BOOLEAN, RecordLoginAttempt(n, b)
       PROVE  RepoTypeOK'
  BY <1>11 DEF RecordLoginAttempt
<1>12. ASSUME NEW u \in Names, NEW i \in Identities, LinkIdentity(u, i) PROVE RepoTypeOK'
  BY <1>12 DEF LinkIdentity
<1> QED
  BY <1>1, <1>2, <1>3, <1>4, <1>5, <1>6, <1>7, <1>8, <1>9, <1>10, <1>11, <1>12

WebTypeOK == Table!TableTypeOK /\ Pending!TableTypeOK

\* The two tables of the process stay well typed.
LEMMA SessionTypes ==
    ASSUME WebTypeOK
    PROVE  /\ UNCHANGED web => WebTypeOK'
           /\ \A s \in Sids, sess \in Session : CreateSession(s, sess) => WebTypeOK'
           /\ \A s \in Sids : DropSession(s) => WebTypeOK'
           /\ \A t \in LinkTokens, link \in PendingLink : CreatePending(t, link) => WebTypeOK'
           /\ \A t \in LinkTokens : DropPending(t) => WebTypeOK'
           /\ Table!Forget /\ Pending!Forget => WebTypeOK'
<1> USE DEF WebTypeOK, Table!TableTypeOK, Pending!TableTypeOK, web, sessionTable, pendingTable
<1>1. UNCHANGED web => WebTypeOK'
  OBVIOUS
<1>2. ASSUME NEW s \in Sids, NEW sess \in Session, CreateSession(s, sess) PROVE WebTypeOK'
  BY <1>2 DEF CreateSession, Table!Create
<1>3. ASSUME NEW s \in Sids, DropSession(s) PROVE WebTypeOK'
  BY <1>3 DEF DropSession, Table!Drop
<1>4. ASSUME NEW t \in LinkTokens, NEW link \in PendingLink, CreatePending(t, link)
      PROVE  WebTypeOK'
  BY <1>4 DEF CreatePending, Pending!Create
<1>5. ASSUME NEW t \in LinkTokens, DropPending(t) PROVE WebTypeOK'
  BY <1>5 DEF DropPending, Pending!Drop
<1>6. ASSUME Table!Forget, Pending!Forget PROVE WebTypeOK'
  BY <1>6 DEF Table!Forget, Pending!Forget
<1> QED
  BY <1>1, <1>2, <1>3, <1>4, <1>5, <1>6

ReqTypeOK == req \in [Reqs -> Request]

\* The location of a handler determines which record it keeps.
LEMMA Shapes ==
    ASSUME ReqTypeOK, NEW r \in Reqs
    PROVE  /\ req[r].at \in SignupAt => req[r] \in SignupReq
           /\ req[r].at \in LoginAt => req[r] \in LoginReq
           /\ req[r].at = "totp.store" => req[r] \in TotpReq
           /\ req[r].at \in PasswordAt => req[r] \in PasswordReq
           /\ req[r].at \in InviteAt => req[r] \in InviteReq
           /\ req[r].at \in AcceptAt => req[r] \in AcceptReq
           /\ req[r].at = "callback.email" => req[r] \in CallbackReq
           /\ req[r].at = "link.credential" => req[r] \in LinkReq
           /\ req[r].at \in ProviderAt => req[r] \in ProviderReq
BY DEF ReqTypeOK, Request, Idle, SignupReq, LoginReq, TotpReq, PasswordReq,
       InviteReq, AcceptReq, CallbackReq, LinkReq, ProviderReq,
       SignupAt, LoginAt, PasswordAt, InviteAt, AcceptAt, ProviderAt

\* A handler that returns, or goes on within its own flow, stays well typed.
LEMMA MoveTypes ==
    ASSUME ReqTypeOK, NEW r \in Reqs
    PROVE  /\ Finish(r) => ReqTypeOK'
           /\ UNCHANGED req => ReqTypeOK'
           /\ \A c \in Request : Start(r, c) => ReqTypeOK'
           /\ \A at \in SignupAt : req[r].at \in SignupAt /\ Goto(r, at) => ReqTypeOK'
           /\ \A at \in LoginAt : req[r].at \in LoginAt /\ Goto(r, at) => ReqTypeOK'
           /\ \A at \in PasswordAt : req[r].at \in PasswordAt /\ Goto(r, at) => ReqTypeOK'
           /\ \A at \in InviteAt : req[r].at \in InviteAt /\ Goto(r, at) => ReqTypeOK'
           /\ \A at \in AcceptAt : req[r].at \in AcceptAt /\ Goto(r, at) => ReqTypeOK'
           /\ \A at \in ProviderAt : req[r].at \in ProviderAt /\ Goto(r, at) => ReqTypeOK'
<1>0. /\ Finish(r) => ReqTypeOK'
      /\ UNCHANGED req => ReqTypeOK'
      /\ \A c \in Request : Start(r, c) => ReqTypeOK'
  BY DEF Finish, Start, ReqTypeOK, Request
<1>1. \A at \in SignupAt : req[r] \in SignupReq => [req[r] EXCEPT !.at = at] \in SignupReq
  BY DEF SignupAt, SignupReq
<1>2. \A at \in LoginAt : req[r] \in LoginReq => [req[r] EXCEPT !.at = at] \in LoginReq
  BY DEF LoginAt, LoginReq
<1>3. \A at \in PasswordAt :
         req[r] \in PasswordReq => [req[r] EXCEPT !.at = at] \in PasswordReq
  BY DEF PasswordAt, PasswordReq
<1>4. \A at \in InviteAt : req[r] \in InviteReq => [req[r] EXCEPT !.at = at] \in InviteReq
  BY DEF InviteAt, InviteReq
<1>5. \A at \in AcceptAt : req[r] \in AcceptReq => [req[r] EXCEPT !.at = at] \in AcceptReq
  BY DEF AcceptAt, AcceptReq
<1>6. \A at \in ProviderAt :
         req[r] \in ProviderReq => [req[r] EXCEPT !.at = at] \in ProviderReq
  BY DEF ProviderAt, ProviderReq
<1>7. \A at : [req[r] EXCEPT !.at = at] \in Request /\ Goto(r, at) => ReqTypeOK'
  BY DEF ReqTypeOK, Goto
<1> QED
  BY <1>0, <1>1, <1>2, <1>3, <1>4, <1>5, <1>6, <1>7, Shapes DEF Request

\* No statement removes a row or a fact about it that a handler relies on.
LEMMA StatementsGrow ==
    ASSUME RepoTypeOK
    PROVE  /\ UNCHANGED db => DbGrows
           /\ \A u \in Names : UpsertUser(u) => DbGrows
           /\ \A u, n \in Names, pw \in Passwords :
                 CreateLocalCredential(u, n, pw) => DbGrows
           /\ \A u \in Names, pw \in Passwords :
                 UpdateLocalPasswordHash(u, pw) => DbGrows
           /\ \A u \in Names, x \in Secrets : SetTOTPSecret(u, x) => DbGrows
           /\ \A o \in Slugs : CreateOrg(o) => DbGrows /\ organisations'[o] # 0
           /\ \A o \in Slugs, u \in Names, role \in Roles :
                 EnsureMembership(o, u, role) => DbGrows
           /\ \A t \in Tokens, o \in Slugs, u, e \in Names, role \in Roles :
                 invites[t] = None /\ CreateInvite(t, o, u, e, role) => DbGrows
           /\ \A t \in Tokens : invites[t] # None /\ UseInvite(t) => DbGrows
           /\ \A t \in Tokens : InviteLapses(t) => DbGrows
           /\ \A n \in Names, b \in BOOLEAN : RecordLoginAttempt(n, b) => DbGrows
           /\ \A u \in Names, i \in Identities : LinkIdentity(u, i) => DbGrows
<1> USE DEF RepoTypeOK, DbGrows
<1>1. UNCHANGED db => DbGrows
  BY DEF db
<1>2. ASSUME NEW u \in Names, UpsertUser(u) PROVE DbGrows
  BY <1>2 DEF UpsertUser
<1>3. ASSUME NEW u \in Names, NEW n \in Names, NEW pw \in Passwords,
             CreateLocalCredential(u, n, pw)
      PROVE  DbGrows
  <2>1. [name |-> n, hash |-> HashPassword(pw)] \in Credential
    BY DEF Credential
  <2> QED
    BY <1>3, <2>1 DEF CreateLocalCredential
<1>4. ASSUME NEW u \in Names, NEW pw \in Passwords, UpdateLocalPasswordHash(u, pw)
      PROVE  DbGrows
  <2>1. credentials[u] # None =>
           [name |-> credentials[u].name, hash |-> HashPassword(pw)] \in Credential
    BY DEF Credential
  <2> QED
    BY <1>4, <2>1 DEF UpdateLocalPasswordHash
<1>5. ASSUME NEW u \in Names, NEW x \in Secrets, SetTOTPSecret(u, x) PROVE DbGrows
  BY <1>5 DEF SetTOTPSecret
<1>6. ASSUME NEW o \in Slugs, CreateOrg(o) PROVE DbGrows /\ organisations'[o] # 0
  <2> DEFINE n == Cardinality({p \in Slugs : OrgExists(p)})
  <2>1. n \in Nat
    BY FS_Subset, FS_CardinalityType
  <2>2. n + 1 # 0
    BY <2>1
  <2> HIDE DEF n
  <2>3. organisations' = [organisations EXCEPT ![o] = n + 1]
    BY <1>6 DEF CreateOrg, n
  <2> QED
    BY <1>6, <2>2, <2>3 DEF CreateOrg
<1>7. ASSUME NEW o \in Slugs, NEW u \in Names, NEW role \in Roles,
             EnsureMembership(o, u, role)
      PROVE  DbGrows
  BY <1>7 DEF EnsureMembership
<1>8. ASSUME NEW t \in Tokens, NEW o \in Slugs, NEW u \in Names, NEW e \in Names,
             NEW role \in Roles, invites[t] = None, CreateInvite(t, o, u, e, role)
      PROVE  DbGrows
  BY <1>8 DEF CreateInvite
<1>9. ASSUME NEW t \in Tokens, invites[t] # None, UseInvite(t) PROVE DbGrows
  <2>1. [invites[t] EXCEPT !.used = TRUE] \in Invite
    BY <1>9, InviteEdits
  <2> QED
    BY <1>9, <2>1 DEF UseInvite, Invite
<1>10. ASSUME NEW t \in Tokens, InviteLapses(t) PROVE DbGrows
  <2>1. invites[t] # None
    BY <1>10 DEF InviteLapses
  <2>2. [invites[t] EXCEPT !.lapsed = TRUE] \in Invite
    BY <2>1, InviteEdits
  <2> QED
    BY <1>10, <2>1, <2>2 DEF InviteLapses, Invite
<1>11. ASSUME NEW n \in Names, NEW b \in BOOLEAN, RecordLoginAttempt(n, b)
       PROVE  DbGrows
  BY <1>11 DEF RecordLoginAttempt
<1>12. ASSUME NEW u \in Names, NEW i \in Identities, LinkIdentity(u, i) PROVE DbGrows
  BY <1>12 DEF LinkIdentity
<1> QED
  BY <1>1, <1>2, <1>3, <1>4, <1>5, <1>6, <1>7, <1>8, <1>9, <1>10, <1>11, <1>12

\* A session id never starts to stand for another session.
LEMMA SessionsGrow ==
    ASSUME WebTypeOK
    PROVE  /\ UNCHANGED web => WebGrows
           /\ \A s \in Sids, sess \in Session : CreateSession(s, sess) => WebGrows
           /\ \A s \in Sids : DropSession(s) => WebGrows
           /\ \A t \in LinkTokens, link \in PendingLink : CreatePending(t, link) => WebGrows
           /\ \A t \in LinkTokens : DropPending(t) => WebGrows
           /\ Table!Forget => WebGrows
BY DEF WebTypeOK, Table!TableTypeOK, Table!Create, Table!Drop, Table!Forget, CreateSession,
       DropSession, CreatePending, DropPending, web, sessionTable, WebGrows

\* Every step keeps the types and takes nothing away.
LEMMA TypeStep ==
    ASSUME OnboardingInv, [Next]_vars PROVE TypeOK' /\ Grows
<1> USE DEF TypeOK
<1>0. TypeOK /\ ReqTypeOK /\ WebTypeOK
  BY DEF ReqTypeOK, WebTypeOK, OnboardingInv
<1> DEFINE GhostGoal == /\ (founder \in [Slugs -> Names \cup {None}])'
                        /\ (enrolled \in [Names -> SUBSET Secrets])'
                        /\ (asserted \in [Identities -> SUBSET (Names \cup {Blank})])'
                        /\ GhostsGrow
<1> DEFINE Goal == /\ RepoTypeOK' /\ WebTypeOK' /\ ReqTypeOK'
                   /\ DbGrows /\ WebGrows /\ GhostGoal
<1>00. UNCHANGED ghosts => GhostGoal
  BY <1>0 DEF ghosts, GhostsGrow
<1> HIDE DEF GhostGoal
<1> USE StatementTypes, SessionTypes, StatementsGrow, SessionsGrow, <1>0, <1>00
<1>1. ASSUME NEW r \in Reqs, NEW e \in EmailInputs, NEW n \in NameInputs,
             NEW pw \in Passwords \cup {Spaces}, NEW o \in SlugInputs,
             SignupBegin(r, e, n, pw, o)
      PROVE  Goal
  <2> DEFINE name == IF Normal[n] = Blank THEN Normal[e] ELSE Normal[n]
  <2>1. Normal[e] \in Names /\ name \in Names /\ Normal[o] \in Slugs
    BY <1>1 DEF SignupBegin
  <2>2. pw \in Passwords =>
           [at |-> "signup.credential", user |-> Normal[e], name |-> name,
            pw |-> pw, org |-> Normal[o]] \in Request
    BY <2>1 DEF Request, SignupReq
  <2>3. RepoTypeOK' /\ WebTypeOK' /\ DbGrows /\ WebGrows /\ GhostGoal
    BY <1>1, <2>1 DEF SignupBegin
  <2>4. ReqTypeOK'
    BY <1>1, <2>2, MoveTypes DEF SignupBegin
  <2> QED
    BY <2>3, <2>4
<1>2. ASSUME NEW r \in Reqs, SignupCredential(r) PROVE Goal
  <2>1. req[r].user \in Names /\ req[r].name \in Names /\ req[r].pw \in Passwords
    BY <1>2, Shapes DEF SignupCredential, SignupAt, SignupReq
  <2>2. ReqTypeOK'
    BY <1>2, MoveTypes DEF SignupCredential, SignupAt
  <2> QED
    BY <1>2, <2>1, <2>2 DEF SignupCredential
<1>3. ASSUME NEW r \in Reqs, SignupOrgExists(r) \/ SignupOrgMissing(r) PROVE Goal
  BY <1>3, MoveTypes DEF SignupOrgExists, SignupOrgMissing, SignupAt
<1>4. ASSUME NEW r \in Reqs, SignupCreateOrg(r) PROVE Goal
  <2>1. req[r].user \in Names /\ req[r].org \in Slugs
    BY <1>4, Shapes DEF SignupCreateOrg, SignupAt, SignupReq
  <2>2. ReqTypeOK'
    BY <1>4, MoveTypes DEF SignupCreateOrg, SignupAt
  <2>3. RepoTypeOK' /\ WebTypeOK' /\ DbGrows /\ WebGrows
    BY <1>4, <2>1 DEF SignupCreateOrg
  <2>4. Founded
    BY DEF OnboardingInv, TablesOK
  <2>5. GhostGoal
    BY <1>4, <2>1, <2>4 DEF SignupCreateOrg, GhostGoal, GhostsGrow, Founded
  <2> QED
    BY <2>2, <2>3, <2>5
<1>5. ASSUME NEW r \in Reqs, SignupMember(r) PROVE Goal
  <2>1. req[r].user \in Names /\ req[r].org \in Slugs /\ "Owner" \in Roles
    BY <1>5, Shapes DEF SignupMember, SignupAt, SignupReq, Roles
  <2>2. ReqTypeOK'
    BY <1>5, MoveTypes DEF SignupMember, SignupAt
  <2> QED
    BY <1>5, <2>1, <2>2 DEF SignupMember
<1>6. ASSUME NEW r \in Reqs, NEW s \in Sids, SignupSession(r, s) PROVE Goal
  <2>1. [user |-> req[r].user, org |-> req[r].org, provider |-> "local"] \in Session
    BY <1>6, Shapes DEF SignupSession, SignupAt, SignupReq, Session
  <2>2. ReqTypeOK'
    BY <1>6, MoveTypes DEF SignupSession
  <2> QED
    BY <1>6, <2>1, <2>2 DEF SignupSession
<1>7. ASSUME NEW r \in Reqs, NEW n \in NameInputs, NEW pw \in Passwords,
             NEW code \in Secrets \cup {None}, NEW u \in Names,
             LoginBegin(r, n, pw, code, u)
      PROVE  Goal
  <2> DEFINE c == [at |-> IF VerifyPassword(pw, credentials[u].hash)
                          THEN "login.mfa" ELSE "login.failure",
                   user |-> u, name |-> Normal[n], code |-> code,
                   due |-> totp[u], org |-> None]
  <2>1. Normal[n] \in Names /\ totp[u] \in Secrets \cup {None}
    BY <1>7 DEF LoginBegin, RepoTypeOK
  <2>2. c \in LoginReq
    BY <2>1 DEF LoginReq
  <2>3. ReqTypeOK'
    BY <1>7, <2>2, MoveTypes DEF LoginBegin, Request
  <2> QED
    BY <1>7, <2>3 DEF LoginBegin
<1>8. ASSUME NEW r \in Reqs, LoginFailure(r) \/ LoginRecord(r) PROVE Goal
  <2>1. req[r].name \in Names
    BY <1>8, Shapes DEF LoginFailure, LoginRecord, LoginAt, LoginReq
  <2>2. ReqTypeOK'
    BY <1>8, MoveTypes DEF LoginFailure, LoginRecord
  <2> QED
    BY <1>8, <2>1, <2>2 DEF LoginFailure, LoginRecord
<1>9. ASSUME NEW r \in Reqs, LoginMFA(r) \/ LoginSecret(r) \/ LoginNoOrg(r) PROVE Goal
  BY <1>9, MoveTypes DEF LoginMFA, LoginSecret, LoginNoOrg, LoginAt
<1>10. ASSUME NEW r \in Reqs, NEW o \in Slugs, LoginOrg(r, o) PROVE Goal
  <2> DEFINE c == [at |-> "login.session", user |-> req[r].user, name |-> req[r].name,
                   code |-> req[r].code, due |-> req[r].due, org |-> o]
  <2>1. c \in LoginReq
    BY <1>10, Shapes DEF LoginOrg, LoginAt, LoginReq
  <2>2. ReqTypeOK'
    BY <1>10, <2>1 DEF LoginOrg, ReqTypeOK, Request
  <2> QED
    BY <1>10, <2>2 DEF LoginOrg
<1>11. ASSUME NEW r \in Reqs, NEW s \in Sids, LoginSession(r, s) PROVE Goal
  <2>1. [user |-> req[r].user, org |-> req[r].org, provider |-> "local"] \in Session
    BY <1>11, Shapes DEF OnboardingInv, ReqOK, LoginOK, LoginSession, LoginAt, LoginReq, Session
  <2>2. ReqTypeOK'
    BY <1>11, MoveTypes DEF LoginSession, LoginAt
  <2> QED
    BY <1>11, <2>1, <2>2 DEF LoginSession
<1>12. ASSUME NEW s \in Sids, Logout(s) \/ SessionExpires(s) PROVE Goal
  BY <1>12, Zenon DEF Logout, SessionExpires, ReqTypeOK
<1>13. ASSUME NEW r \in Reqs, NEW s \in Sids, NEW x \in Secrets, TotpBegin(r, s, x)
       PROVE  Goal
  <2>1. [at |-> "totp.store", user |-> sessions[s].user, secret |-> x] \in TotpReq
    BY <1>13 DEF TotpBegin, TotpReq, Table!TableTypeOK, Session
  <2>2. ReqTypeOK'
    BY <1>13, <2>1, MoveTypes DEF TotpBegin, Request
  <2> QED
    BY <1>13, <2>2 DEF TotpBegin
<1>14. ASSUME NEW r \in Reqs, TotpStore(r) PROVE Goal
  <2>1. req[r].user \in Names /\ req[r].secret \in Secrets
    BY <1>14, Shapes DEF TotpStore, TotpReq
  <2>2. ReqTypeOK'
    BY <1>14, MoveTypes DEF TotpStore
  <2>3. RepoTypeOK' /\ WebTypeOK' /\ DbGrows /\ WebGrows
    BY <1>14, <2>1 DEF TotpStore
  <2>4. GhostGoal
    BY <1>14, <2>1 DEF TotpStore, GhostGoal, GhostsGrow
  <2> QED
    BY <2>2, <2>3, <2>4
<1>15. ASSUME NEW r \in Reqs, NEW s \in Sids, NEW pw \in LongPasswords,
              PasswordBegin(r, s, pw)
       PROVE  Goal
  <2>1. [at |-> "password.find", user |-> sessions[s].user, pw |-> pw] \in PasswordReq
    BY <1>15 DEF PasswordBegin, PasswordReq, Table!TableTypeOK, Session
  <2>2. ReqTypeOK'
    BY <1>15, <2>1, MoveTypes DEF PasswordBegin, Request
  <2> QED
    BY <1>15, <2>2 DEF PasswordBegin
<1>16. ASSUME NEW r \in Reqs, PasswordFind(r) PROVE Goal
  BY <1>16, MoveTypes DEF PasswordFind, PasswordAt
<1>17. ASSUME NEW r \in Reqs, PasswordUpdate(r) \/ PasswordCreate(r) PROVE Goal
  <2>1. req[r].user \in Names /\ req[r].pw \in Passwords
    BY <1>17, Shapes DEF PasswordUpdate, PasswordCreate, PasswordAt, PasswordReq
  <2>2. ReqTypeOK'
    BY <1>17, MoveTypes DEF PasswordUpdate, PasswordCreate
  <2> QED
    BY <1>17, <2>1, <2>2 DEF PasswordUpdate, PasswordCreate
<1>18. ASSUME NEW r \in Reqs, NEW s \in Sids, NEW e \in EmailInputs,
              NEW role \in RoleInputs, InviteBegin(r, s, e, role)
       PROVE  Goal
  <2>1. [at |-> "invite.role", sid |-> s, user |-> sessions[s].user,
         org |-> sessions[s].org, email |-> Normal[e], role |-> role] \in InviteReq
    BY <1>18 DEF InviteBegin, InviteReq, Table!TableTypeOK, Session
  <2>2. ReqTypeOK'
    BY <1>18, <2>1, MoveTypes DEF InviteBegin, Request
  <2> QED
    BY <1>18, <2>2 DEF InviteBegin
<1>19. ASSUME NEW r \in Reqs, InviteRole(r) PROVE Goal
  BY <1>19, MoveTypes DEF InviteRole, InviteAt
<1>20. ASSUME NEW r \in Reqs, NEW t \in Tokens, InviteCreate(r, t) PROVE Goal
  <2>1. req[r].sid \in Sids /\ req[r].email \in Names \cup {Blank}
    BY <1>20, Shapes DEF InviteCreate, InviteAt, InviteReq
  <2>2. sessions[req[r].sid] # None =>
           sessions[req[r].sid].org \in Slugs /\ sessions[req[r].sid].user \in Names
    BY <2>1 DEF Table!TableTypeOK, Session
  <2>3. MayInvite(InvitedRole(req[r].role)) => InvitedRole(req[r].role) \in Roles
    BY DEF MayInvite, Roles
  <2>4. RepoTypeOK' /\ DbGrows
    BY <1>20, <2>1, <2>2, <2>3 DEF InviteCreate
  <2>5. ReqTypeOK'
    BY <1>20, MoveTypes DEF InviteCreate
  <2> QED
    BY <1>20, <2>4, <2>5 DEF InviteCreate
<1>21. ASSUME NEW r \in Reqs, NEW t \in Tokens, AcceptLookup(r, t) PROVE Goal
  <2>1. [at |-> "accept.user", token |-> t] \in AcceptReq
    BY DEF AcceptReq
  <2>2. ReqTypeOK'
    BY <1>21, <2>1, MoveTypes DEF AcceptLookup, Request
  <2> QED
    BY <1>21, <2>2 DEF AcceptLookup
<1>22. ASSUME NEW r \in Reqs, req[r].at \in AcceptAt
       PROVE  /\ req[r].token \in Tokens
              /\ invites[req[r].token] # None
              /\ invites[req[r].token] \in Invite
  BY <1>22, Shapes DEF OnboardingInv, ReqOK, AcceptOK, AcceptReq, RepoTypeOK
<1>23. ASSUME NEW r \in Reqs, AcceptUser(r) \/ AcceptUpsert(r) PROVE Goal
  <2>1. ReqTypeOK'
    BY <1>23, MoveTypes DEF AcceptUser, AcceptUpsert, AcceptAt
  <2>2. invites[req[r].token].email \in Names
    BY <1>22, <1>23 DEF AcceptUser, AcceptUpsert, AcceptAt, Invite
  <2> QED
    BY <1>23, <2>1, <2>2 DEF AcceptUser, AcceptUpsert
<1>24. ASSUME NEW r \in Reqs, AcceptMember(r) PROVE Goal
  <2>1. ReqTypeOK'
    BY <1>24, MoveTypes DEF AcceptMember, AcceptAt
  <2>2. /\ invites[req[r].token].org \in Slugs
        /\ invites[req[r].token].email \in Names
        /\ invites[req[r].token].role \in Roles
    BY <1>22, <1>24 DEF AcceptMember, AcceptAt, Invite
  <2> QED
    BY <1>24, <2>1, <2>2 DEF AcceptMember
<1>25. ASSUME NEW r \in Reqs, AcceptUse(r) PROVE Goal
  <2>1. ReqTypeOK'
    BY <1>25, MoveTypes DEF AcceptUse, AcceptAt
  <2>2. req[r].token \in Tokens /\ invites[req[r].token] # None
    BY <1>22, <1>25 DEF AcceptUse, AcceptAt
  <2> QED
    BY <1>25, <2>1, <2>2 DEF AcceptUse
<1>26. ASSUME NEW r \in Reqs, NEW s \in Sids, AcceptSession(r, s) PROVE Goal
  <2>1. [user |-> invites[req[r].token].email, org |-> invites[req[r].token].org,
         provider |-> "invite"] \in Session
    BY <1>22, <1>26 DEF AcceptSession, AcceptAt, Invite, Session
  <2>2. ReqTypeOK'
    BY <1>26, MoveTypes DEF AcceptSession
  <2> QED
    BY <1>26, <2>1, <2>2 DEF AcceptSession
<1>27. ASSUME NEW r \in Reqs, RequestFails(r) PROVE Goal
  BY <1>27, MoveTypes DEF RequestFails
<1>28. ASSUME NEW t \in Tokens, InviteExpires(t) PROVE Goal
  BY <1>28, Zenon DEF InviteExpires, ReqTypeOK
<1>29. ASSUME Crash PROVE Goal
  BY <1>29 DEF Crash, ReqTypeOK, Request
<1>30. ASSUME UNCHANGED vars PROVE Goal
  BY <1>30, Zenon DEF vars, ReqTypeOK
<1>31. ASSUME NEW r \in Reqs, NEW i \in Identities, NEW e \in EmailInputs,
              CallbackBegin(r, i, e)
       PROVE  Goal
  <2> DEFINE known == [at |-> "provider.org", identity |-> i, email |-> identities[i],
                       token |-> None, user |-> identities[i], code |-> None,
                       due |-> None, org |-> None]
             new == [at |-> "callback.email", identity |-> i, email |-> Normal[e]]
  <2>1. Normal[e] \in Names \cup {Blank} /\ identities[i] \in Names \cup {None}
    BY DEF RepoTypeOK
  <2>2. (identities[i] # None => known \in ProviderReq) /\ new \in CallbackReq
    BY <2>1 DEF ProviderReq, CallbackReq
  <2>3. ReqTypeOK'
    BY <1>31, <2>2, MoveTypes DEF CallbackBegin, Request
  <2>4. GhostGoal
    BY <1>31, <2>1 DEF CallbackBegin, GhostGoal, GhostsGrow
  <2> QED
    BY <1>31, <2>3, <2>4 DEF CallbackBegin
<1>32. ASSUME NEW r \in Reqs, NEW t \in LinkTokens, CallbackPending(r, t) PROVE Goal
  <2>1. req[r].identity \in Identities /\ req[r].email \in Names
    BY <1>32, Shapes DEF CallbackPending, CallbackReq, UserExists, RepoTypeOK
  <2>2. [identity |-> req[r].identity, email |-> req[r].email] \in PendingLink
    BY <2>1 DEF PendingLink
  <2>3. ReqTypeOK'
    BY <1>32, MoveTypes DEF CallbackPending
  <2> QED
    BY <1>32, <2>2, <2>3 DEF CallbackPending
<1>33. ASSUME NEW r \in Reqs, CallbackUnknown(r) \/ ProviderNoOrg(r) PROVE Goal
  BY <1>33, MoveTypes DEF CallbackUnknown, ProviderNoOrg
<1>34. ASSUME NEW r \in Reqs, NEW t \in LinkTokens, NEW n \in LinkNames,
              NEW pw \in Passwords, NEW code \in Secrets \cup {None},
              LinkBegin(r, t, n, pw, code)
       PROVE  Goal
  <2>1. pending[t] \in PendingLink /\ Normal[n] \in Names
    BY <1>34 DEF LinkBegin, Pending!TableTypeOK
  <2>2. [at |-> "link.credential", token |-> t, identity |-> pending[t].identity,
         email |-> pending[t].email, name |-> Normal[n], pw |-> pw, code |-> code]
        \in LinkReq
    BY <2>1 DEF LinkReq, PendingLink
  <2>3. ReqTypeOK'
    BY <1>34, <2>2, MoveTypes DEF LinkBegin, Request
  <2> QED
    BY <1>34, <2>3 DEF LinkBegin
<1>35. ASSUME NEW r \in Reqs, LinkCredential(r) PROVE Goal
  <2>1. req[r] \in LinkReq
    BY <1>35, Shapes DEF LinkCredential
  <2>2. \A u \in Names :
           [at |-> "link.mfa", identity |-> req[r].identity, email |-> req[r].email,
            token |-> req[r].token, user |-> u, code |-> req[r].code,
            due |-> totp[u], org |-> None] \in ProviderReq
    BY <2>1 DEF ProviderReq, LinkReq, RepoTypeOK
  <2>3. ReqTypeOK'
    <3>1. CASE Finish(r)
      BY <3>1, MoveTypes
    <3>2. CASE \E u \in Names : req' = [req EXCEPT ![r] =
                  [at |-> "link.mfa", identity |-> req[r].identity, email |-> req[r].email,
                   token |-> req[r].token, user |-> u, code |-> req[r].code,
                   due |-> totp[u], org |-> None]]
      BY <3>2, <2>2 DEF ReqTypeOK, Request
    <3> QED
      BY <1>35, <3>1, <3>2 DEF LinkCredential
  <2> QED
    BY <1>35, <2>3 DEF LinkCredential
<1>36. ASSUME NEW r \in Reqs, LinkMFA(r) \/ LinkSecret(r) \/ LinkIdentityCheck(r) PROVE Goal
  BY <1>36, MoveTypes
     DEF LinkMFA, LinkSecret, LinkIdentityCheck, LinkAuthenticated, ProviderAt
<1>37. ASSUME NEW r \in Reqs, LinkInsert(r) \/ ProviderRecord(r) PROVE Goal
  <2>1. req[r].user \in Names /\ req[r].identity \in Identities
    BY <1>37, Shapes DEF LinkInsert, ProviderRecord, ProviderAt, ProviderReq
  <2>2. ReqTypeOK'
    BY <1>37, MoveTypes DEF LinkInsert, ProviderRecord, ProviderAt
  <2> QED
    BY <1>37, <2>1, <2>2 DEF LinkInsert, ProviderRecord
<1>38. ASSUME NEW r \in Reqs, LinkForget(r) PROVE Goal
  <2>1. req[r].token \in LinkTokens
    BY <1>38 DEF LinkForget, OnboardingInv, ReqOK, ProviderOK
  <2>2. ReqTypeOK'
    BY <1>38, MoveTypes DEF LinkForget, ProviderAt
  <2> QED
    BY <1>38, <2>1, <2>2 DEF LinkForget
<1>39. ASSUME NEW r \in Reqs, NEW o \in Slugs, ProviderOrg(r, o) PROVE Goal
  <2> DEFINE c == [at |-> "provider.session", identity |-> req[r].identity,
                   email |-> req[r].email, token |-> req[r].token, user |-> req[r].user,
                   code |-> req[r].code, due |-> req[r].due, org |-> o]
  <2>1. c \in ProviderReq
    BY <1>39, Shapes DEF ProviderOrg, ProviderAt, ProviderReq
  <2>2. ReqTypeOK'
    BY <1>39, <2>1 DEF ProviderOrg, ReqTypeOK, Request
  <2> QED
    BY <1>39, <2>2 DEF ProviderOrg
<1>40. ASSUME NEW r \in Reqs, NEW s \in Sids, ProviderSession(r, s) PROVE Goal
  <2>1. [user |-> req[r].user, org |-> req[r].org,
         provider |-> ProviderOf[req[r].identity]] \in Session
    BY <1>40, Shapes
       DEF OnboardingInv, ReqOK, ProviderOK, ProviderSession, ProviderAt, ProviderReq, Session
  <2>2. ReqTypeOK'
    BY <1>40, MoveTypes DEF ProviderSession, ProviderAt
  <2> QED
    BY <1>40, <2>1, <2>2 DEF ProviderSession
<1>41. ASSUME NEW t \in LinkTokens, PendingExpires(t) PROVE Goal
  BY <1>41, Zenon DEF PendingExpires, ReqTypeOK
<1> QED
  BY <1>1, <1>2, <1>3, <1>4, <1>5, <1>6, <1>7, <1>8, <1>9, <1>10, <1>11, <1>12,
     <1>13, <1>14, <1>15, <1>16, <1>17, <1>18, <1>19, <1>20, <1>21, <1>23, <1>24,
     <1>25, <1>26, <1>27, <1>28, <1>29, <1>30, <1>31, <1>32, <1>33, <1>34, <1>35,
     <1>36, <1>37, <1>38, <1>39, <1>40, <1>41
     DEF Next, LocalAuthNext, InvitesNext, ProviderAuthNext, Grows, GhostGoal, ReqTypeOK,
         WebTypeOK

\* What a handler has established survives the steps of the others.
LEMMA ReqKept ==
    ASSUME TypeOK, Grows, NEW r \in Reqs, ReqOK(req[r]), req'[r] = req[r]
    PROVE  ReqOK(req[r])'
<1> USE DEF Grows, TypeOK, ReqTypeOK
<1> DEFINE c == req[r]
<1>1. SignupOK(c)'
  <2>1. c.at \in SignupAt => c.user \in Names /\ c.org \in Slugs
    BY Shapes DEF SignupReq
  <2> QED
    BY <2>1 DEF ReqOK, SignupOK, SignupAt, UserExists, IsMember, DbGrows, GhostsGrow
<1>2. LoginOK(c)'
  <2>1. c.at \in LoginAt => c.user \in Names
    BY Shapes DEF LoginReq
  <2> QED
    BY <2>1 DEF ReqOK, LoginOK, LoginAt, IsMember, HasTOTP, DbGrows, GhostsGrow
<1>3. InviteOK(c)'
  <2>1. c.at \in InviteAt => c.user \in Names /\ c.org \in Slugs
    BY Shapes DEF InviteReq
  <2> QED
    BY <2>1 DEF ReqOK, InviteOK, InviteAt, WebGrows, GhostsGrow
<1>4. AcceptOK(c)'
  <2>1. c.at \in AcceptAt => c.token \in Tokens
    BY Shapes DEF AcceptReq
  <2>2. c.at \in AcceptAt => invites[c.token] \in Invite
    BY <2>1 DEF RepoTypeOK, ReqOK, AcceptOK
  <2> QED
    BY <2>1, <2>2 DEF ReqOK, AcceptOK, AcceptAt, UserExists, IsMember, DbGrows, Invite
<1>5. PasswordOK(c)'
  BY DEF ReqOK, PasswordOK, PasswordAt, UserExists, DbGrows
<1>6. MFAOK(c)'
  <2>1. c.at \in LoginAt \cup ProviderAt => c.user \in Names
    BY Shapes DEF LoginReq, ProviderReq
  <2> QED
    BY <2>1 DEF ReqOK, MFAOK, PastMFA, LoginAt, ProviderAt, GhostsGrow
<1>7. ProviderOK(c)'
  <2>1. c.at \in ProviderAt \cup {"callback.email", "link.credential"} =>
           c.identity \in Identities
    BY Shapes DEF ProviderReq, CallbackReq, LinkReq
  <2>2. c.at \in ProviderAt => c.user \in Names
    BY Shapes DEF ProviderReq
  <2> QED
    BY <2>1, <2>2 DEF ReqOK, ProviderOK, ProviderAt, IsMember, HasTOTP, DbGrows, GhostsGrow
<1> QED
  BY <1>1, <1>2, <1>3, <1>4, <1>5, <1>6, <1>7 DEF ReqOK

-----------------------------------------------------------------------------
(* Every handler has established what it relies on. *)

\* It is enough to look at the handler that moved.
LEMMA OneSlot ==
    ASSUME OnboardingInv, Grows, NEW r \in Reqs,
           \A q \in Reqs \ {r} : req'[q] = req[q],
           req'[r] # Idle => ReqOK(req[r])'
    PROVE  \A q \in Reqs : ReqOK(req[q])'
<1>1. req'[r] = Idle => ReqOK(req[r])'
  BY DEF Idle, ReqOK, SignupOK, LoginOK, MFAOK, InviteOK, AcceptOK, PasswordOK, ProviderOK,
     SignupAt, LoginAt, PastMFA, InviteAt, AcceptAt, PasswordAt, ProviderAt
<1>2. ASSUME NEW q \in Reqs \ {r} PROVE ReqOK(req[q])'
  BY <1>2, ReqKept DEF OnboardingInv
<1> QED
  BY <1>1, <1>2

\* The handler in slot r has moved, and the others have not.
LEMMA Moves ==
    ASSUME TypeOK, NEW r \in Reqs
    PROVE  /\ \A at : Goto(r, at) => /\ req'[r] = [req[r] EXCEPT !.at = at]
                                    /\ \A q \in Reqs \ {r} : req'[q] = req[q]
           /\ \A c : Start(r, c) => /\ req'[r] = c
                                   /\ \A q \in Reqs \ {r} : req'[q] = req[q]
           /\ Finish(r) => /\ req'[r] = Idle
                          /\ \A q \in Reqs \ {r} : req'[q] = req[q]
BY DEF TypeOK, Goto, Start, Finish

LEMMA ReqStepSignup ==
    ASSUME OnboardingInv, TypeOK', Grows, NEW r \in Reqs,
           \/ \E e \in EmailInputs, n \in NameInputs, pw \in Passwords \cup {Spaces},
                 o \in SlugInputs : SignupBegin(r, e, n, pw, o)
           \/ SignupCredential(r) \/ SignupOrgExists(r) \/ SignupOrgMissing(r)
           \/ SignupCreateOrg(r) \/ SignupMember(r)
           \/ \E s \in Sids : SignupSession(r, s)
    PROVE  \A q \in Reqs : ReqOK(req[q])'
<1> DEFINE c == req[r]
           Others == \A q \in Reqs \ {r} : req'[q] = req[q]
<1>0. TypeOK /\ TablesOK /\ ReqOK(c) /\ ReqTypeOK
  BY DEF OnboardingInv, TypeOK, ReqTypeOK
<1>1. Others /\ (req'[r] # Idle => ReqOK(req[r])')
  <2> USE DEF ReqOK, SignupOK, LoginOK, MFAOK, InviteOK, AcceptOK, PasswordOK, ProviderOK,
          SignupAt, LoginAt, PastMFA, InviteAt, AcceptAt, PasswordAt, ProviderAt
  <2>1. ASSUME NEW e \in EmailInputs, NEW n \in NameInputs,
               NEW pw \in Passwords \cup {Spaces}, NEW o \in SlugInputs,
               SignupBegin(r, e, n, pw, o)
        PROVE  Others /\ (req'[r] # Idle => ReqOK(req[r])')
    BY <2>1, <1>0, Moves DEF SignupBegin, UpsertUser, UserExists
  <2>2. ASSUME SignupCredential(r) PROVE Others /\ (req'[r] # Idle => ReqOK(req[r])')
    <3>1. c \in SignupReq
      BY <2>2, <1>0, Shapes DEF SignupCredential
    <3>2. CASE ~CredentialFits(c.user, c.name)
      BY <2>2, <3>2, <1>0, Moves DEF SignupCredential
    <3>3. CASE CredentialFits(c.user, c.name)
      <4>1. Others /\ req'[r] = [c EXCEPT !.at = "signup.find"]
        BY <2>2, <3>3, <1>0, Moves DEF SignupCredential
      <4>2. [name |-> c.name, hash |-> HashPassword(c.pw)] \in Credential
        BY <3>1 DEF SignupReq, Credential
      <4>3. users' = users /\ credentials'[c.user] # None
        BY <2>2, <3>1, <3>3, <4>2, <1>0
           DEF SignupCredential, CreateLocalCredential, SignupReq, TypeOK, RepoTypeOK
      <4> QED
        BY <2>2, <1>0, <3>1, <4>1, <4>3 DEF SignupCredential, SignupReq, UserExists
    <3> QED
      BY <3>2, <3>3
  <2>3. ASSUME SignupOrgMissing(r) PROVE Others /\ (req'[r] # Idle => ReqOK(req[r])')
    <3>1. c \in SignupReq
      BY <2>3, <1>0, Shapes DEF SignupOrgMissing
    <3>2. Others /\ req'[r] = [c EXCEPT !.at = "signup.org"]
      BY <2>3, <1>0, Moves DEF SignupOrgMissing
    <3>3. users' = users /\ credentials' = credentials
      BY <2>3 DEF SignupOrgMissing, db
    <3> QED
      BY <2>3, <1>0, <3>1, <3>2, <3>3 DEF SignupOrgMissing, SignupReq, UserExists
  <2>4. ASSUME SignupCreateOrg(r) PROVE Others /\ (req'[r] # Idle => ReqOK(req[r])')
    <3>1. c \in SignupReq
      BY <2>4, <1>0, Shapes DEF SignupCreateOrg
    <3>2. CASE OrgExists(c.org)
      BY <2>4, <3>2, <1>0, Moves DEF SignupCreateOrg
    <3>3. CASE ~OrgExists(c.org)
      <4>1. Others /\ req'[r] = [c EXCEPT !.at = "signup.member"]
        BY <2>4, <3>3, <1>0, Moves DEF SignupCreateOrg
      <4>2. /\ users' = users /\ credentials' = credentials
            /\ founder'[c.org] = c.user
        BY <2>4, <3>1, <3>3, <1>0 DEF SignupCreateOrg, CreateOrg, SignupReq, TypeOK
      <4> QED
        BY <2>4, <1>0, <3>1, <4>1, <4>2 DEF SignupCreateOrg, SignupReq, UserExists
    <3> QED
      BY <3>2, <3>3
  <2>5. ASSUME SignupMember(r) PROVE Others /\ (req'[r] # Idle => ReqOK(req[r])')
    <3>1. c \in SignupReq
      BY <2>5, <1>0, Shapes DEF SignupMember
    <3>2. Others /\ req'[r] = [c EXCEPT !.at = "signup.session"]
      BY <2>5, <1>0, Moves DEF SignupMember
    <3>3. members'[c.org][c.user] = "Owner"
      BY <2>5, <3>1, <1>0
         DEF SignupMember, EnsureMembership, SignupReq, TypeOK, RepoTypeOK
    <3>4. users' = users /\ credentials' = credentials /\ founder' = founder
      BY <2>5 DEF SignupMember, EnsureMembership, ghosts
    <3> QED
      BY <2>5, <1>0, <3>1, <3>2, <3>3, <3>4
         DEF SignupMember, SignupReq, UserExists, IsMember, Roles
  <2>6. ASSUME SignupOrgExists(r) \/ \E s \in Sids : SignupSession(r, s)
        PROVE  Others /\ (req'[r] # Idle => ReqOK(req[r])')
    BY <2>6, <1>0, Moves DEF SignupOrgExists, SignupSession
  <2> QED
    BY <2>1, <2>2, <2>3, <2>4, <2>5, <2>6
<1> QED
  BY <1>1, OneSlot

LEMMA ReqStepLogin ==
    ASSUME OnboardingInv, TypeOK', Grows, NEW r \in Reqs,
           \/ \E n \in NameInputs, pw \in Passwords, code \in Secrets \cup {None},
                 u \in Names : LoginBegin(r, n, pw, code, u)
           \/ LoginFailure(r) \/ LoginMFA(r) \/ LoginSecret(r) \/ LoginNoOrg(r)
           \/ LoginRecord(r)
           \/ \E o \in Slugs : LoginOrg(r, o)
           \/ \E s \in Sids : LoginSession(r, s)
    PROVE  \A q \in Reqs : ReqOK(req[q])'
<1> DEFINE c == req[r]
           Others == \A q \in Reqs \ {r} : req'[q] = req[q]
<1>0. TypeOK /\ TablesOK /\ ReqOK(c) /\ ReqTypeOK
  BY DEF OnboardingInv, TypeOK, ReqTypeOK
<1>1. Others /\ (req'[r] # Idle => ReqOK(req[r])')
  <2> USE DEF ReqOK, SignupOK, LoginOK, MFAOK, InviteOK, AcceptOK, PasswordOK, ProviderOK,
          SignupAt, LoginAt, PastMFA, InviteAt, AcceptAt, PasswordAt, ProviderAt
  <2>1. ASSUME NEW n \in NameInputs, NEW pw \in Passwords,
               NEW code \in Secrets \cup {None}, NEW u \in Names,
               LoginBegin(r, n, pw, code, u)
        PROVE  Others /\ (req'[r] # Idle => ReqOK(req[r])')
    <3>1. Others /\ req'[r] = [at |-> IF VerifyPassword(pw, credentials[u].hash)
                                     THEN "login.mfa" ELSE "login.failure",
                              user |-> u, name |-> Normal[n], code |-> code,
                              due |-> totp[u], org |-> None]
      BY <2>1, <1>0, Moves DEF LoginBegin
    <3>2. credentials'[u] # None /\ totp' = totp
      BY <2>1 DEF LoginBegin, HasUsername, db
    <3> QED
      BY <3>1, <3>2 DEF HasTOTP
  <2>2. ASSUME LoginFailure(r) \/ LoginNoOrg(r) \/ LoginRecord(r)
        PROVE  Others /\ (req'[r] # Idle => ReqOK(req[r])')
    BY <2>2, <1>0, Moves DEF LoginFailure, LoginNoOrg, LoginRecord
  <2>3. ASSUME LoginMFA(r) PROVE Others /\ (req'[r] # Idle => ReqOK(req[r])')
    <3>1. c \in LoginReq
      BY <2>3, <1>0, Shapes DEF LoginMFA
    <3>2. credentials' = credentials /\ totp' = totp /\ enrolled' = enrolled
      BY <2>3 DEF LoginMFA, db, ghosts
    <3>3. CASE Finish(r)
      BY <3>3, <1>0, Moves
    <3>4. CASE c.code # None /\ Goto(r, "login.secret")
      <4>1. Others /\ req'[r] = [c EXCEPT !.at = "login.secret"]
        BY <3>4, <1>0, Moves
      <4> QED
        BY <2>3, <1>0, <3>1, <3>2, <3>4, <4>1 DEF LoginMFA, LoginReq
    <3>5. CASE (~HasTOTP(c.user) \/ QueryErrors) /\ Goto(r, "login.org")
      <4>1. Others /\ req'[r] = [c EXCEPT !.at = "login.org"]
        BY <3>5, <1>0, Moves
      <4> QED
        BY <2>3, <1>0, <3>1, <3>2, <3>5, <4>1 DEF LoginMFA, LoginReq
    <3> QED
      BY <2>3, <3>3, <3>4, <3>5 DEF LoginMFA
  <2>4. ASSUME LoginSecret(r) PROVE Others /\ (req'[r] # Idle => ReqOK(req[r])')
    <3>1. c \in LoginReq /\ c.code # None
      BY <2>4, <1>0, Shapes DEF LoginSecret
    <3>2. credentials' = credentials /\ totp' = totp /\ enrolled' = enrolled
      BY <2>4 DEF LoginSecret, db, ghosts
    <3>3. CASE Finish(r)
      BY <3>3, <1>0, Moves
    <3>4. CASE ValidateTOTP(totp[c.user], c.code) /\ Goto(r, "login.org")
      <4>1. Others /\ req'[r] = [c EXCEPT !.at = "login.org"]
        BY <3>4, <1>0, Moves
      <4>2. c.code \in enrolled[c.user]
        BY <1>0, <3>1, <3>4
           DEF ValidateTOTP, HasTOTP, TablesOK, RowsAreBacked, LoginReq
      <4> QED
        BY <2>4, <1>0, <3>1, <3>2, <4>1, <4>2 DEF LoginSecret, LoginReq
    <3> QED
      BY <2>4, <3>3, <3>4 DEF LoginSecret
  <2>5. ASSUME NEW o \in Slugs, LoginOrg(r, o)
        PROVE  Others /\ (req'[r] # Idle => ReqOK(req[r])')
    <3>1. c \in LoginReq
      BY <2>5, <1>0, Shapes DEF LoginOrg
    <3>2. /\ Others
          /\ req'[r] = [at |-> "login.session", user |-> c.user, name |-> c.name,
                        code |-> c.code, due |-> c.due, org |-> o]
      BY <2>5, <1>0 DEF LoginOrg, TypeOK
    <3>3. credentials' = credentials /\ members' = members /\ enrolled' = enrolled
      BY <2>5 DEF LoginOrg, db, ghosts
    <3>4. IsMember(o, c.user)
      BY <2>5 DEF LoginOrg, PickedOrg
    <3> QED
      BY <2>5, <1>0, <3>1, <3>2, <3>3, <3>4 DEF LoginOrg, LoginReq, IsMember
  <2>6. ASSUME NEW s \in Sids, LoginSession(r, s)
        PROVE  Others /\ (req'[r] # Idle => ReqOK(req[r])')
    <3>1. c \in LoginReq
      BY <2>6, <1>0, Shapes DEF LoginSession
    <3>2. Others /\ req'[r] = [c EXCEPT !.at = "login.record"]
      BY <2>6, <1>0, Moves DEF LoginSession
    <3>3. credentials' = credentials /\ enrolled' = enrolled
      BY <2>6 DEF LoginSession, db, ghosts
    <3> QED
      BY <2>6, <1>0, <3>1, <3>2, <3>3 DEF LoginSession, LoginReq
  <2> QED
    BY <2>1, <2>2, <2>3, <2>4, <2>5, <2>6
<1> QED
  BY <1>1, OneSlot

LEMMA ReqStepAccount ==
    ASSUME OnboardingInv, TypeOK', Grows, NEW r \in Reqs,
           \/ \E s \in Sids, x \in Secrets : TotpBegin(r, s, x)
           \/ TotpStore(r)
           \/ \E s \in Sids, pw \in LongPasswords : PasswordBegin(r, s, pw)
           \/ PasswordFind(r) \/ PasswordUpdate(r) \/ PasswordCreate(r)
    PROVE  \A q \in Reqs : ReqOK(req[q])'
<1> DEFINE c == req[r]
           Others == \A q \in Reqs \ {r} : req'[q] = req[q]
<1>0. TypeOK /\ TablesOK /\ ReqOK(c) /\ ReqTypeOK
  BY DEF OnboardingInv, TypeOK, ReqTypeOK
<1>1. Others /\ (req'[r] # Idle => ReqOK(req[r])')
  <2> USE DEF ReqOK, SignupOK, LoginOK, MFAOK, InviteOK, AcceptOK, PasswordOK, ProviderOK,
          SignupAt, LoginAt, PastMFA, InviteAt, AcceptAt, PasswordAt, ProviderAt
  <2>1. ASSUME NEW s \in Sids, NEW x \in Secrets, TotpBegin(r, s, x)
        PROVE  Others /\ (req'[r] # Idle => ReqOK(req[r])')
    BY <2>1, <1>0, Moves DEF TotpBegin
  <2>2. ASSUME TotpStore(r) \/ PasswordUpdate(r) \/ PasswordCreate(r)
        PROVE  Others /\ (req'[r] # Idle => ReqOK(req[r])')
    BY <2>2, <1>0, Moves DEF TotpStore, PasswordUpdate, PasswordCreate
  <2>3. ASSUME NEW s \in Sids, NEW pw \in LongPasswords, PasswordBegin(r, s, pw)
        PROVE  Others /\ (req'[r] # Idle => ReqOK(req[r])')
    BY <2>3, <1>0, Moves DEF PasswordBegin, UserExists, db
  <2>4. ASSUME PasswordFind(r) PROVE Others /\ (req'[r] # Idle => ReqOK(req[r])')
    <3>1. c \in PasswordReq /\ users' = users
      BY <2>4, <1>0, Shapes DEF PasswordFind, db
    <3>2. \E at \in PasswordAt : Others /\ req'[r] = [c EXCEPT !.at = at]
      BY <2>4, <1>0, Moves DEF PasswordFind
    <3> QED
      BY <2>4, <1>0, <3>1, <3>2 DEF PasswordFind, PasswordReq, UserExists
  <2> QED
    BY <2>1, <2>2, <2>3, <2>4
<1> QED
  BY <1>1, OneSlot

LEMMA ReqStepInvite ==
    ASSUME OnboardingInv, TypeOK', Grows, NEW r \in Reqs,
           \/ \E s \in Sids, e \in EmailInputs, role \in RoleInputs :
                 InviteBegin(r, s, e, role)
           \/ InviteRole(r)
           \/ \E t \in Tokens : InviteCreate(r, t)
    PROVE  \A q \in Reqs : ReqOK(req[q])'
<1> DEFINE c == req[r]
           Others == \A q \in Reqs \ {r} : req'[q] = req[q]
<1>0. TypeOK /\ TablesOK /\ ReqOK(c) /\ ReqTypeOK
  BY DEF OnboardingInv, TypeOK, ReqTypeOK
<1>1. Others /\ (req'[r] # Idle => ReqOK(req[r])')
  <2> USE DEF ReqOK, SignupOK, LoginOK, MFAOK, InviteOK, AcceptOK, PasswordOK, ProviderOK,
          SignupAt, LoginAt, PastMFA, InviteAt, AcceptAt, PasswordAt, ProviderAt
  <2>1. ASSUME NEW s \in Sids, NEW e \in EmailInputs, NEW role \in RoleInputs,
               InviteBegin(r, s, e, role)
        PROVE  Others /\ (req'[r] # Idle => ReqOK(req[r])')
    <3>1. sessions' = sessions /\ issued' = issued
      BY <2>1 DEF InviteBegin, web, sessionTable
    <3> QED
      BY <2>1, <3>1, <1>0, Moves DEF InviteBegin, TablesOK, SessionsIssued
  <2>2. ASSUME InviteRole(r) PROVE Others /\ (req'[r] # Idle => ReqOK(req[r])')
    <3>1. c \in InviteReq
      BY <2>2, <1>0, Shapes DEF InviteRole
    <3>2. sessions' = sessions /\ issued' = issued /\ founder' = founder
      BY <2>2 DEF InviteRole, web, sessionTable, ghosts
    <3>3. CASE Finish(r)
      BY <3>3, <1>0, Moves
    <3>4. CASE RoleAllowed(members[c.org][c.user]) /\ Goto(r, "invite.create")
      <4>1. Others /\ req'[r] = [c EXCEPT !.at = "invite.create"]
        BY <3>4, <1>0, Moves
      <4>2. members[c.org][c.user] \in Roles
        BY <1>0, <3>1, <3>4 DEF RoleAllowed, InviteReq, TypeOK, RepoTypeOK
      <4>3. members[c.org][c.user] = "Owner"
        BY <4>2, <3>4 DEF RoleAllowed, RoleLevel, Roles
      <4>4. founder[c.org] = c.user
        BY <1>0, <3>1, <4>3 DEF TablesOK, OwnerIsFounder, InviteReq
      <4> QED
        BY <2>2, <1>0, <3>1, <3>2, <4>1, <4>4 DEF InviteRole, InviteReq
    <3> QED
      BY <2>2, <3>3, <3>4 DEF InviteRole
  <2>3. ASSUME NEW t \in Tokens, InviteCreate(r, t)
        PROVE  Others /\ (req'[r] # Idle => ReqOK(req[r])')
    BY <2>3, <1>0, Moves DEF InviteCreate
  <2> QED
    BY <2>1, <2>2, <2>3
<1> QED
  BY <1>1, OneSlot

LEMMA ReqStepAccept ==
    ASSUME OnboardingInv, TypeOK', Grows, NEW r \in Reqs,
           \/ \E t \in Tokens : AcceptLookup(r, t)
           \/ AcceptUser(r) \/ AcceptUpsert(r) \/ AcceptMember(r) \/ AcceptUse(r)
           \/ \E s \in Sids : AcceptSession(r, s)
    PROVE  \A q \in Reqs : ReqOK(req[q])'
<1> DEFINE c == req[r]
           Others == \A q \in Reqs \ {r} : req'[q] = req[q]
<1>0. TypeOK /\ TablesOK /\ ReqOK(c) /\ ReqTypeOK
  BY DEF OnboardingInv, TypeOK, ReqTypeOK
<1>1. Others /\ (req'[r] # Idle => ReqOK(req[r])')
  <2> USE DEF ReqOK, SignupOK, LoginOK, MFAOK, InviteOK, AcceptOK, PasswordOK, ProviderOK,
          SignupAt, LoginAt, PastMFA, InviteAt, AcceptAt, PasswordAt, ProviderAt
  <2>0. c.at \in AcceptAt => /\ c \in AcceptReq /\ c.token \in Tokens
                             /\ invites[c.token] \in Invite
    BY <1>0, Shapes DEF AcceptReq, TypeOK, RepoTypeOK
  <2>1. ASSUME NEW t \in Tokens, AcceptLookup(r, t)
        PROVE  Others /\ (req'[r] # Idle => ReqOK(req[r])')
    BY <2>1, <1>0, Moves DEF AcceptLookup, db
  <2>2. ASSUME AcceptUser(r) PROVE Others /\ (req'[r] # Idle => ReqOK(req[r])')
    <3>1. users' = users /\ invites' = invites
      BY <2>2 DEF AcceptUser, db
    <3>2. CASE UserExists(invites[c.token].email) /\ Goto(r, "accept.member")
      <4>1. Others /\ req'[r] = [c EXCEPT !.at = "accept.member"]
        BY <3>2, <1>0, Moves
      <4> QED
        BY <2>2, <1>0, <2>0, <3>1, <3>2, <4>1 DEF AcceptUser, AcceptReq, UserExists
    <3>3. CASE Goto(r, "accept.upsert")
      <4>1. Others /\ req'[r] = [c EXCEPT !.at = "accept.upsert"]
        BY <3>3, <1>0, Moves
      <4> QED
        BY <2>2, <1>0, <2>0, <3>1, <4>1 DEF AcceptUser, AcceptReq
    <3> QED
      BY <2>2, <3>2, <3>3 DEF AcceptUser
  <2>3. ASSUME AcceptUpsert(r) PROVE Others /\ (req'[r] # Idle => ReqOK(req[r])')
    <3>1. invites' = invites /\ invites[c.token].email \in users'
      BY <2>3 DEF AcceptUpsert, UpsertUser
    <3>2. Others /\ req'[r] = [c EXCEPT !.at = "accept.member"]
      BY <2>3, <1>0, Moves DEF AcceptUpsert
    <3> QED
      BY <2>3, <1>0, <2>0, <3>1, <3>2 DEF AcceptUpsert, AcceptReq, UserExists
  <2>4. ASSUME AcceptMember(r) PROVE Others /\ (req'[r] # Idle => ReqOK(req[r])')
    <3>1. Others /\ req'[r] = [c EXCEPT !.at = "accept.use"]
      BY <2>4, <1>0, Moves DEF AcceptMember
    <3>2. /\ invites' = invites /\ users' = users
          /\ members'[invites[c.token].org][invites[c.token].email] = invites[c.token].role
      BY <2>4, <1>0, <2>0 DEF AcceptMember, EnsureMembership, Invite, TypeOK, RepoTypeOK
    <3>3. invites[c.token].role # None
      BY <2>0, <2>4 DEF AcceptMember, Invite
    <3> QED
      BY <2>4, <1>0, <2>0, <3>1, <3>2, <3>3
         DEF AcceptMember, AcceptReq, UserExists, IsMember
  <2>5. ASSUME AcceptUse(r) PROVE Others /\ (req'[r] # Idle => ReqOK(req[r])')
    <3>1. Others /\ req'[r] = [c EXCEPT !.at = "accept.session"]
      BY <2>5, <1>0, Moves DEF AcceptUse
    <3>2. /\ members' = members /\ users' = users /\ invites'[c.token] # None
          /\ invites'[c.token].org = invites[c.token].org
          /\ invites'[c.token].email = invites[c.token].email
      BY <2>5, <1>0, <2>0 DEF AcceptUse, UseInvite, Grows, DbGrows
    <3> QED
      BY <2>5, <1>0, <2>0, <3>1, <3>2 DEF AcceptUse, AcceptReq, UserExists, IsMember
  <2>6. ASSUME NEW s \in Sids, AcceptSession(r, s)
        PROVE  Others /\ (req'[r] # Idle => ReqOK(req[r])')
    BY <2>6, <1>0, Moves DEF AcceptSession
  <2> QED
    BY <2>1, <2>2, <2>3, <2>4, <2>5, <2>6
<1> QED
  BY <1>1, OneSlot

\* An identity whose email does not change came with one email only.
LEMMA OneEmail ==
    ASSUME EmailsWereClaimed, StableClaims, NEW i \in Identities,
           NEW x \in asserted[i], NEW y \in asserted[i]
    PROVE  x = y
<1>1. PICK d \in EmailInputs : <<i, d>> \in Claims /\ x = Normal[d]
  BY DEF EmailsWereClaimed
<1>2. PICK e \in EmailInputs : <<i, e>> \in Claims /\ y = Normal[e]
  BY DEF EmailsWereClaimed
<1> QED
  BY <1>1, <1>2 DEF StableClaims

LEMMA ReqStepProvider ==
    ASSUME OnboardingInv, TypeOK', Grows, NEW r \in Reqs,
           \/ \E i \in Identities, e \in EmailInputs : CallbackBegin(r, i, e)
           \/ \E t \in LinkTokens : CallbackPending(r, t)
           \/ CallbackUnknown(r)
           \/ \E t \in LinkTokens, n \in LinkNames, pw \in Passwords,
                 code \in Secrets \cup {None} : LinkBegin(r, t, n, pw, code)
           \/ LinkCredential(r) \/ LinkMFA(r) \/ LinkSecret(r) \/ LinkIdentityCheck(r)
           \/ LinkInsert(r) \/ LinkForget(r)
           \/ \E o \in Slugs : ProviderOrg(r, o)
           \/ ProviderNoOrg(r) \/ ProviderRecord(r)
           \/ \E s \in Sids : ProviderSession(r, s)
    PROVE  \A q \in Reqs : ReqOK(req[q])'
<1> DEFINE c == req[r]
           Others == \A q \in Reqs \ {r} : req'[q] = req[q]
<1>0. TypeOK /\ TablesOK /\ ReqOK(c) /\ ReqTypeOK
  BY DEF OnboardingInv, TypeOK, ReqTypeOK
<1>1. Others /\ (req'[r] # Idle => ReqOK(req[r])')
  <2> USE DEF ReqOK, SignupOK, LoginOK, MFAOK, InviteOK, AcceptOK, PasswordOK, ProviderOK,
          SignupAt, LoginAt, PastMFA, InviteAt, AcceptAt, PasswordAt, ProviderAt
  <2>1. ASSUME NEW i \in Identities, NEW e \in EmailInputs, CallbackBegin(r, i, e)
        PROVE  Others /\ (req'[r] # Idle => ReqOK(req[r])')
    <3>1. CASE /\ identities[i] # None
               /\ Start(r, [at |-> "provider.org", identity |-> i, email |-> identities[i],
                            token |-> None, user |-> identities[i], code |-> None,
                            due |-> None, org |-> None])
      <4>1. /\ Others
            /\ req'[r] = [at |-> "provider.org", identity |-> i, email |-> identities[i],
                          token |-> None, user |-> identities[i], code |-> None,
                          due |-> None, org |-> None]
        BY <3>1, <1>0, Moves
      <4>2. identities' = identities /\ credentials' = credentials
        BY <2>1 DEF CallbackBegin, db
      <4>3. credentials[identities[i]] # None
        BY <1>0, <3>1 DEF TablesOK, RowsAreBacked
      <4> QED
        BY <4>1, <4>2, <4>3
    <3>2. CASE Start(r, [at |-> "callback.email", identity |-> i, email |-> Normal[e]])
      <4>1. /\ Others
            /\ req'[r] = [at |-> "callback.email", identity |-> i, email |-> Normal[e]]
        BY <3>2, <1>0, Moves
      <4>2. Normal[e] \in asserted'[i]
        BY <2>1, <1>0 DEF CallbackBegin, TypeOK
      <4> QED
        BY <4>1, <4>2
    <3> QED
      BY <2>1, <3>1, <3>2 DEF CallbackBegin
  <2>2. ASSUME \/ \E t \in LinkTokens : CallbackPending(r, t)
               \/ CallbackUnknown(r) \/ ProviderNoOrg(r) \/ ProviderRecord(r)
        PROVE  Others /\ (req'[r] # Idle => ReqOK(req[r])')
    BY <2>2, <1>0, Moves DEF CallbackPending, CallbackUnknown, ProviderNoOrg, ProviderRecord
  <2>3. ASSUME NEW t \in LinkTokens, NEW n \in LinkNames, NEW pw \in Passwords,
               NEW code \in Secrets \cup {None}, LinkBegin(r, t, n, pw, code)
        PROVE  Others /\ (req'[r] # Idle => ReqOK(req[r])')
    <3>1. /\ Others
          /\ req'[r] = [at |-> "link.credential", token |-> t,
                        identity |-> pending[t].identity, email |-> pending[t].email,
                        name |-> Normal[n], pw |-> pw, code |-> code]
      BY <2>3, <1>0, Moves DEF LinkBegin
    <3>2. asserted' = asserted
      BY <2>3 DEF LinkBegin, ghosts
    <3>3. pending[t].email \in asserted[pending[t].identity]
      BY <2>3, <1>0 DEF LinkBegin, TablesOK, PendingsWereAsserted
    <3> QED
      BY <3>1, <3>2, <3>3
  <2>4. ASSUME LinkCredential(r) PROVE Others /\ (req'[r] # Idle => ReqOK(req[r])')
    <3>1. c \in LinkReq
      BY <2>4, <1>0, Shapes DEF LinkCredential
    <3>2. credentials' = credentials /\ totp' = totp /\ asserted' = asserted
      BY <2>4 DEF LinkCredential, db, ghosts
    <3>3. CASE Finish(r)
      BY <3>3, <1>0, Moves
    <3>4. ASSUME NEW u \in Names, HasUsername(u, c.name),
                 req' = [req EXCEPT ![r] =
                    [at |-> "link.mfa", identity |-> c.identity, email |-> c.email,
                     token |-> c.token, user |-> u, code |-> c.code,
                     due |-> totp[u], org |-> None]]
          PROVE  Others /\ (req'[r] # Idle => ReqOK(req[r])')
      <4>1. /\ Others
            /\ req'[r] = [at |-> "link.mfa", identity |-> c.identity, email |-> c.email,
                          token |-> c.token, user |-> u, code |-> c.code,
                          due |-> totp[u], org |-> None]
        BY <3>4, <1>0 DEF TypeOK
      <4>2. credentials[u] # None /\ c.email \in asserted[c.identity]
            /\ c.token \in LinkTokens
        BY <2>4, <1>0, <3>1, <3>4 DEF LinkCredential, HasUsername, LinkReq
      <4> QED
        BY <3>2, <4>1, <4>2 DEF HasTOTP
    <3> QED
      BY <2>4, <3>3, <3>4 DEF LinkCredential
  <2>5. ASSUME LinkMFA(r) \/ LinkSecret(r)
        PROVE  Others /\ (req'[r] # Idle => ReqOK(req[r])')
    <3>1. c \in ProviderReq
      BY <2>5, <1>0, Shapes DEF LinkMFA, LinkSecret
    <3>2. /\ credentials' = credentials /\ totp' = totp
          /\ asserted' = asserted /\ enrolled' = enrolled
      BY <2>5 DEF LinkMFA, LinkSecret, db, ghosts
    <3>3. CASE Finish(r)
      BY <3>3, <1>0, Moves
    <3>4. CASE HasTOTP(c.user) /\ Goto(r, "link.secret") /\ LinkMFA(r)
      <4>1. Others /\ req'[r] = [c EXCEPT !.at = "link.secret"]
        BY <3>4, <1>0, Moves
      <4> QED
        BY <1>0, <3>1, <3>2, <3>4, <4>1 DEF LinkMFA, ProviderReq, HasTOTP
    <3>5. CASE EmailMatches(c) /\ Goto(r, "link.identity")
               /\ \/ LinkMFA(r) /\ (~HasTOTP(c.user) \/ QueryErrors)
                  \/ LinkSecret(r) /\ ValidateTOTP(totp[c.user], c.code)
      <4>1. Others /\ req'[r] = [c EXCEPT !.at = "link.identity"]
        BY <3>5, <1>0, Moves
      <4>2. ~QueryErrors /\ c.due # None => c.code \in enrolled[c.user]
        BY <1>0, <3>1, <3>5
           DEF LinkMFA, LinkSecret, ValidateTOTP, HasTOTP, TablesOK, RowsAreBacked, ProviderReq
      <4> QED
        BY <2>5, <1>0, <3>1, <3>2, <3>5, <4>1, <4>2
           DEF LinkMFA, LinkSecret, EmailMatches, ProviderReq
    <3> QED
      BY <2>5, <3>3, <3>4, <3>5 DEF LinkMFA, LinkSecret, LinkAuthenticated
  <2>6. ASSUME LinkIdentityCheck(r) PROVE Others /\ (req'[r] # Idle => ReqOK(req[r])')
    <3>1. c \in ProviderReq
      BY <2>6, <1>0, Shapes DEF LinkIdentityCheck
    <3>2. credentials' = credentials /\ asserted' = asserted /\ enrolled' = enrolled
      BY <2>6 DEF LinkIdentityCheck, db, ghosts
    <3>3. CASE Finish(r)
      BY <3>3, <1>0, Moves
    <3>4. CASE Goto(r, "link.insert")
      <4>1. Others /\ req'[r] = [c EXCEPT !.at = "link.insert"]
        BY <3>4, <1>0, Moves
      <4> QED
        BY <2>6, <1>0, <3>1, <3>2, <4>1 DEF LinkIdentityCheck, ProviderReq
    <3> QED
      BY <2>6, <3>3, <3>4 DEF LinkIdentityCheck
  <2>7. ASSUME LinkInsert(r) PROVE Others /\ (req'[r] # Idle => ReqOK(req[r])')
    <3>1. c \in ProviderReq
      BY <2>7, <1>0, Shapes DEF LinkInsert
    <3>2. Others /\ req'[r] = [c EXCEPT !.at = "link.forget"]
      BY <2>7, <1>0, Moves DEF LinkInsert
    <3>3. credentials' = credentials /\ asserted' = asserted /\ enrolled' = enrolled
      BY <2>7 DEF LinkInsert, LinkIdentity, ghosts
    <3>4. c.identity \in Identities /\ c.user \in asserted[c.identity]
      BY <2>7, <1>0, <3>1 DEF LinkInsert, ProviderReq
    <3>5. identities'[c.identity] =
             IF identities[c.identity] = None THEN c.user ELSE identities[c.identity]
      BY <2>7, <1>0, <3>4 DEF LinkInsert, LinkIdentity, TypeOK, RepoTypeOK
    <3>6. StableClaims => identities'[c.identity] = c.user
      <4>1. CASE identities[c.identity] = None
        BY <3>5, <4>1
      <4>2. CASE identities[c.identity] # None
        <5>1. identities[c.identity] \in asserted[c.identity]
          BY <1>0, <3>4, <4>2 DEF TablesOK, LinksWereAsserted
        <5>2. EmailsWereClaimed
          BY <1>0 DEF TablesOK
        <5> QED
          BY <3>4, <3>5, <4>2, <5>1, <5>2, OneEmail
      <4> QED
        BY <4>1, <4>2
    <3> QED
      BY <2>7, <1>0, <3>1, <3>2, <3>3, <3>6 DEF LinkInsert, ProviderReq
  <2>8. ASSUME LinkForget(r) PROVE Others /\ (req'[r] # Idle => ReqOK(req[r])')
    <3>1. c \in ProviderReq
      BY <2>8, <1>0, Shapes DEF LinkForget
    <3>2. Others /\ req'[r] = [c EXCEPT !.at = "provider.org"]
      BY <2>8, <1>0, Moves DEF LinkForget
    <3>3. /\ credentials' = credentials /\ identities' = identities
          /\ enrolled' = enrolled
      BY <2>8 DEF LinkForget, db, ghosts
    <3> QED
      BY <2>8, <1>0, <3>1, <3>2, <3>3 DEF LinkForget, ProviderReq
  <2>9. ASSUME NEW o \in Slugs, ProviderOrg(r, o)
        PROVE  Others /\ (req'[r] # Idle => ReqOK(req[r])')
    <3>1. c \in ProviderReq
      BY <2>9, <1>0, Shapes DEF ProviderOrg
    <3>2. /\ Others
          /\ req'[r] = [at |-> "provider.session", identity |-> c.identity,
                        email |-> c.email, token |-> c.token, user |-> c.user,
                        code |-> c.code, due |-> c.due, org |-> o]
      BY <2>9, <1>0 DEF ProviderOrg, TypeOK
    <3>3. /\ credentials' = credentials /\ identities' = identities
          /\ members' = members /\ enrolled' = enrolled
      BY <2>9 DEF ProviderOrg, db, ghosts
    <3>4. IsMember(o, c.user)
      BY <2>9 DEF ProviderOrg, PickedOrg
    <3> QED
      BY <2>9, <1>0, <3>1, <3>2, <3>3, <3>4 DEF ProviderOrg, ProviderReq, IsMember
  <2>10. ASSUME NEW s \in Sids, ProviderSession(r, s)
         PROVE  Others /\ (req'[r] # Idle => ReqOK(req[r])')
    <3>1. c \in ProviderReq
      BY <2>10, <1>0, Shapes DEF ProviderSession
    <3>2. Others /\ req'[r] = [c EXCEPT !.at = "provider.record"]
      BY <2>10, <1>0, Moves DEF ProviderSession
    <3>3. credentials' = credentials /\ enrolled' = enrolled
      BY <2>10 DEF ProviderSession, db, ghosts
    <3> QED
      BY <2>10, <1>0, <3>1, <3>2, <3>3 DEF ProviderSession, ProviderReq
  <2> QED
    BY <2>1, <2>2, <2>3, <2>4, <2>5, <2>6, <2>7, <2>8, <2>9, <2>10
<1> QED
  BY <1>1, OneSlot

-----------------------------------------------------------------------------
(* The tables and the sessions agree with each other. *)

\* A step that writes neither a membership nor a session keeps the agreement
\* if it brings no bad invite, no bad credential and no bad TOTP secret.
LEMMA TablesKept ==
    ASSUME OnboardingInv, TypeOK', Grows, members' = members,
           Founded', InvitesFromFounder', UsedInviteGrantedMembership', SessionsIssued',
           \A u \in Names : credentials'[u] # None => u \in users',
           \A u \in Names : totp'[u] # None => totp'[u] \in enrolled'[u],
           EmailsWereClaimed', PendingsWereAsserted',
           \A i \in Identities : identities'[i] # None =>
              identities'[i] \in asserted'[i] /\ credentials'[identities'[i]] # None,
           \A s \in Sids : sessions'[s] \in {None, sessions[s]}
    PROVE  TablesOK'
<1> USE DEF OnboardingInv, TablesOK, TypeOK, Grows, DbGrows, GhostsGrow,
        IsMember, UserExists, OrgExists, HasTOTP
<1>1. RowsAreBacked'
  BY DEF RowsAreBacked
<1>2. OwnerIsFounder'
  BY DEF OwnerIsFounder, RowsAreBacked, Founded, RepoTypeOK
<1>3. RolesAreEarned'
  <2> SUFFICES ASSUME NEW o \in Slugs, NEW u \in Names, members[o][u] # None
               PROVE  \/ founder'[o] = u /\ members[o][u] = "Owner"
                      \/ \E t \in Tokens :
                            /\ invites'[t] # None
                            /\ invites'[t].org = o /\ invites'[t].email = u
                            /\ invites'[t].role = members[o][u]
                            /\ invites'[t].inviter = founder'[o]
    BY DEF RolesAreEarned
  <2>1. founder'[o] = founder[o]
    BY DEF Founded, RowsAreBacked
  <2>2. CASE founder[o] = u /\ members[o][u] = "Owner"
    BY <2>1, <2>2
  <2>3. ASSUME NEW t \in Tokens, invites[t] # None,
               invites[t].org = o, invites[t].email = u,
               invites[t].role = members[o][u], invites[t].inviter = founder[o]
        PROVE  /\ invites'[t] # None
               /\ invites'[t].org = o /\ invites'[t].email = u
               /\ invites'[t].role = members[o][u]
               /\ invites'[t].inviter = founder'[o]
    BY <2>1, <2>3
  <2> QED
    BY <2>2, <2>3 DEF RolesAreEarned
<1>4. SessionsAreBacked'
  <2> SUFFICES ASSUME NEW s \in Sids, sessions'[s] # None
               PROVE  LET sess == sessions[s] IN
                      /\ sess.user \in users'
                      /\ organisations'[sess.org] # 0
                      /\ members[sess.org][sess.user] # None
                      /\ sess.provider # "invite" => credentials'[sess.user] # None
    BY DEF SessionsAreBacked
  <2>1. sessions[s] \in Session
    BY DEF Table!TableTypeOK
  <2> QED
    BY <2>1 DEF SessionsAreBacked, Session
<1>5. LinksWereAsserted'
  BY DEF LinksWereAsserted
<1>6. ASSUME StableClaims PROVE ProviderSessionsAreLinked'
  <2> SUFFICES ASSUME NEW s \in Sids, sessions'[s] # None,
                      sessions[s].provider \in Providers
               PROVE  \E i \in Identities : /\ ProviderOf[i] = sessions[s].provider
                                            /\ identities'[i] = sessions[s].user
    BY DEF ProviderSessionsAreLinked
  <2>1. PICK i \in Identities : /\ ProviderOf[i] = sessions[s].provider
                               /\ identities[i] = sessions[s].user
    BY <1>6 DEF ProviderSessionsAreLinked
  <2>2. sessions[s].user # None
    BY DEF Table!TableTypeOK, Session
  <2> QED
    BY <2>1, <2>2
<1> QED
  BY <1>1, <1>2, <1>3, <1>4, <1>5, <1>6

\* The same for a step that has nothing to do with providers.
LEMMA LocalTablesKept ==
    ASSUME OnboardingInv, TypeOK', Grows, members' = members, pending' = pending,
           asserted' = asserted, identities' = identities,
           Founded', InvitesFromFounder', UsedInviteGrantedMembership', SessionsIssued',
           \A u \in Names : credentials'[u] # None => u \in users',
           \A u \in Names : totp'[u] # None => totp'[u] \in enrolled'[u],
           \A s \in Sids : sessions'[s] \in {None, sessions[s]}
    PROVE  TablesOK'
<1>1. TypeOK /\ TablesOK
  BY DEF OnboardingInv
<1>2. EmailsWereClaimed' /\ PendingsWereAsserted'
  BY <1>1 DEF TablesOK, EmailsWereClaimed, PendingsWereAsserted
<1>3. \A i \in Identities : identities'[i] # None =>
         identities'[i] \in asserted'[i] /\ credentials'[identities'[i]] # None
  BY <1>1 DEF TablesOK, LinksWereAsserted, RowsAreBacked, Grows, DbGrows, TypeOK, RepoTypeOK
<1> QED
  BY <1>2, <1>3, TablesKept

\* A membership that was earned may be written.
LEMMA MembershipWritten ==
    ASSUME OnboardingInv, TypeOK', NEW o \in Slugs, NEW u \in Names, NEW role \in Roles,
           EnsureMembership(o, u, role), UNCHANGED <<web, ghosts>>,
           UserExists(u), OrgExists(o),
           \/ role = "Owner" /\ founder[o] = u
           \/ /\ role # "Owner"
              /\ \E t \in Tokens :
                    /\ invites[t] # None
                    /\ invites[t].org = o /\ invites[t].email = u
                    /\ invites[t].role = role /\ invites[t].inviter = founder[o]
    PROVE  TablesOK'
<1> USE DEF OnboardingInv, TablesOK, TypeOK, IsMember, UserExists, OrgExists
<1>1. /\ users' = users /\ credentials' = credentials /\ totp' = totp
      /\ organisations' = organisations /\ invites' = invites
      /\ sessions' = sessions /\ issued' = issued /\ pending' = pending
      /\ founder' = founder /\ enrolled' = enrolled /\ asserted' = asserted
      /\ identities' = identities
  BY DEF EnsureMembership, web, sessionTable, pendingTable, ghosts
<1>2. \A p \in Slugs, v \in Names :
         members'[p][v] = IF p = o /\ v = u THEN role ELSE members[p][v]
  BY DEF EnsureMembership, RepoTypeOK
<1>3. role # None
  OBVIOUS
<1>4. /\ Founded' /\ InvitesFromFounder' /\ SessionsIssued'
      /\ EmailsWereClaimed' /\ PendingsWereAsserted' /\ LinksWereAsserted'
      /\ StableClaims => ProviderSessionsAreLinked'
  BY <1>1 DEF Founded, InvitesFromFounder, SessionsIssued, EmailsWereClaimed,
     PendingsWereAsserted, LinksWereAsserted, ProviderSessionsAreLinked
<1>5. RowsAreBacked'
  BY <1>1, <1>2 DEF RowsAreBacked, HasTOTP
<1>6. OwnerIsFounder'
  BY <1>1, <1>2 DEF OwnerIsFounder
<1>7. RolesAreEarned'
  BY <1>1, <1>2 DEF RolesAreEarned
<1>8. SessionsAreBacked'
  <2>1. \A s \in Sids : sessions[s] # None =>
           sessions[s].org \in Slugs /\ sessions[s].user \in Names
    BY DEF Table!TableTypeOK, Session
  <2> QED
    BY <1>1, <1>2, <1>3, <2>1 DEF SessionsAreBacked
<1>9. UsedInviteGrantedMembership'
  <2>1. \A t \in Tokens : invites[t] # None =>
           invites[t].org \in Slugs /\ invites[t].email \in Names
    BY DEF RepoTypeOK, Invite
  <2> QED
    BY <1>1, <1>2, <1>3, <2>1 DEF UsedInviteGrantedMembership
<1> QED
  BY <1>4, <1>5, <1>6, <1>7, <1>8, <1>9

\* A session of an existing member may be created.
LEMMA SessionWritten ==
    ASSUME OnboardingInv, TypeOK', NEW s \in Sids, NEW sess \in Session,
           CreateSession(s, sess), UNCHANGED <<db, ghosts>>,
           UserExists(sess.user), OrgExists(sess.org), IsMember(sess.org, sess.user),
           sess.provider # "invite" => credentials[sess.user] # None,
           StableClaims /\ sess.provider \in Providers =>
              \E i \in Identities : ProviderOf[i] = sess.provider /\ identities[i] = sess.user
    PROVE  TablesOK'
<1> USE DEF OnboardingInv, TablesOK, TypeOK, IsMember, UserExists, OrgExists
<1>1. /\ users' = users /\ credentials' = credentials /\ totp' = totp
      /\ organisations' = organisations /\ members' = members /\ invites' = invites
      /\ founder' = founder /\ enrolled' = enrolled /\ asserted' = asserted
      /\ identities' = identities /\ pending' = pending
  BY DEF CreateSession, db, ghosts, pendingTable
<1>2. \A q \in Sids : sessions'[q] = IF q = s THEN sess ELSE sessions[q]
  BY DEF CreateSession, Table!Create, Table!TableTypeOK
<1>3. issued' = issued \cup {s}
  BY DEF CreateSession, Table!Create
<1>4. /\ Founded' /\ InvitesFromFounder' /\ OwnerIsFounder'
      /\ RolesAreEarned' /\ UsedInviteGrantedMembership'
  BY <1>1 DEF Founded, InvitesFromFounder, OwnerIsFounder,
     RolesAreEarned, UsedInviteGrantedMembership
<1>8. /\ RowsAreBacked' /\ EmailsWereClaimed' /\ PendingsWereAsserted'
      /\ LinksWereAsserted'
  BY <1>1 DEF RowsAreBacked, HasTOTP, EmailsWereClaimed, PendingsWereAsserted,
     LinksWereAsserted
<1>5. SessionsIssued'
  BY <1>2, <1>3 DEF SessionsIssued
<1>6. SessionsAreBacked'
  BY <1>1, <1>2 DEF SessionsAreBacked
<1>7. StableClaims => ProviderSessionsAreLinked'
  BY <1>1, <1>2 DEF ProviderSessionsAreLinked
<1> QED
  BY <1>4, <1>5, <1>6, <1>7, <1>8

\* The steps that write neither a table nor a session.
LEMMA TablesUnchanged ==
    ASSUME OnboardingInv, UNCHANGED <<db, web, ghosts>> PROVE TablesOK'
<1>1. /\ users' = users /\ credentials' = credentials /\ totp' = totp
      /\ organisations' = organisations /\ members' = members /\ invites' = invites
      /\ identities' = identities /\ sessions' = sessions /\ issued' = issued
      /\ pending' = pending /\ founder' = founder /\ enrolled' = enrolled
      /\ asserted' = asserted
  BY DEF db, web, sessionTable, pendingTable, ghosts
<1>2. /\ Founded' /\ InvitesFromFounder' /\ SessionsIssued'
      /\ RowsAreBacked' /\ EmailsWereClaimed' /\ PendingsWereAsserted'
  BY <1>1 DEF OnboardingInv, TablesOK, Founded, RowsAreBacked, InvitesFromFounder,
     SessionsIssued, EmailsWereClaimed, PendingsWereAsserted, IsMember, UserExists,
     OrgExists, HasTOTP
<1>3. /\ OwnerIsFounder' /\ RolesAreEarned' /\ UsedInviteGrantedMembership'
      /\ SessionsAreBacked' /\ LinksWereAsserted'
      /\ StableClaims => ProviderSessionsAreLinked'
  BY <1>1 DEF OnboardingInv, TablesOK, OwnerIsFounder, RolesAreEarned, SessionsAreBacked,
     UsedInviteGrantedMembership, LinksWereAsserted, ProviderSessionsAreLinked,
     IsMember, UserExists, OrgExists
<1> QED
  BY <1>2, <1>3 DEF TablesOK

LEMMA TablesStep ==
    ASSUME OnboardingInv, TypeOK', Grows, [Next]_vars PROVE TablesOK'
<1> USE DEF OnboardingInv
<1>0. TypeOK /\ ReqTypeOK /\ TablesOK /\ \A r \in Reqs : ReqOK(req[r])
  BY DEF TypeOK, ReqTypeOK
<1>1. ASSUME NEW u \in Names, UpsertUser(u), UNCHANGED <<web, ghosts>> PROVE TablesOK'
  BY <1>0, <1>1, LocalTablesKept
     DEF UpsertUser, TablesOK, web, sessionTable, pendingTable, ghosts, Founded,
         InvitesFromFounder, RowsAreBacked,
         UsedInviteGrantedMembership, SessionsIssued, IsMember, OrgExists, HasTOTP,
         UserExists
<1>2. ASSUME NEW u \in Names, NEW n \in Names, NEW pw \in Passwords,
             CreateLocalCredential(u, n, pw), UserExists(u), UNCHANGED <<web, ghosts>>
      PROVE  TablesOK'
  <2>1. \A v \in Names : credentials'[v] # None => v \in users'
    BY <1>0, <1>2 DEF CreateLocalCredential, TablesOK, RowsAreBacked, UserExists,
       TypeOK, RepoTypeOK
  <2> QED
    BY <1>0, <1>2, <2>1, LocalTablesKept
       DEF CreateLocalCredential, TablesOK, web, sessionTable, pendingTable, ghosts, Founded,
           InvitesFromFounder,
           RowsAreBacked, UsedInviteGrantedMembership, SessionsIssued, IsMember,
           OrgExists, HasTOTP
<1>3. ASSUME NEW r \in Reqs, SignupCreateOrg(r) PROVE TablesOK'
  <2>1. CASE OrgExists(req[r].org)
    BY <1>3, <2>1, TablesUnchanged DEF SignupCreateOrg, ghosts
  <2>2. CASE ~OrgExists(req[r].org)
    <3>1. req[r].org \in Slugs /\ req[r].user \in Names
      BY <1>0, <1>3, Shapes DEF SignupCreateOrg, SignupAt, SignupReq
    <3>2. CreateOrg(req[r].org) /\ UNCHANGED web /\ UNCHANGED <<enrolled, asserted>>
          /\ founder' = [founder EXCEPT ![req[r].org] = req[r].user]
      BY <1>3, <2>2 DEF SignupCreateOrg
    <3>3. organisations'[req[r].org] # 0
      BY <1>0, <3>1, <3>2, StatementsGrow DEF TypeOK
    <3>4. \A o \in Slugs \ {req[r].org} :
             organisations'[o] = organisations[o] /\ founder'[o] = founder[o]
      BY <1>0, <3>2 DEF CreateOrg, TypeOK, RepoTypeOK
    <3>5. Founded'
      BY <1>0, <3>1, <3>2, <3>3, <3>4 DEF Founded, OrgExists, TablesOK, TypeOK
    <3>6. InvitesFromFounder'
      <4>1. \A t \in Tokens : invites[t] # None =>
               invites[t].org \in Slugs /\ invites[t].inviter \in Names
        BY <1>0 DEF TypeOK, RepoTypeOK, Invite
      <4> QED
        BY <1>0, <2>2, <3>1, <3>2, <3>4, <4>1
           DEF InvitesFromFounder, TablesOK, Founded, CreateOrg
    <3> QED
      BY <1>0, <3>2, <3>5, <3>6, LocalTablesKept
         DEF CreateOrg, TablesOK, web, sessionTable, pendingTable, RowsAreBacked,
             UsedInviteGrantedMembership, SessionsIssued, IsMember, HasTOTP, UserExists
  <2> QED
    BY <2>1, <2>2
<1>4. ASSUME NEW t \in Tokens, invites[t] # None, UNCHANGED <<web, ghosts>>,
             \/ /\ UseInvite(t)
                /\ IsMember(invites[t].org, invites[t].email)
             \/ InviteLapses(t)
      PROVE  TablesOK'
  <2>1. \A x \in Tokens \ {t} : invites'[x] = invites[x]
    BY <1>0, <1>4 DEF UseInvite, InviteLapses, TypeOK, RepoTypeOK
  <2>2. /\ invites'[t] # None
        /\ invites'[t].org = invites[t].org /\ invites'[t].email = invites[t].email
        /\ invites'[t].role = invites[t].role /\ invites'[t].inviter = invites[t].inviter
    BY <1>4 DEF Grows, DbGrows
  <2>3. invites[t].used \/ ~invites'[t].used \/ IsMember(invites[t].org, invites[t].email)
    <3>1. CASE UseInvite(t) /\ IsMember(invites[t].org, invites[t].email)
      BY <3>1
    <3>2. CASE InviteLapses(t)
      <4>1. invites[t] \in Invite
        BY <1>0, <1>4 DEF TypeOK, RepoTypeOK
      <4>2. invites'[t] = [invites[t] EXCEPT !.lapsed = TRUE]
        BY <1>0, <3>2 DEF InviteLapses, TypeOK, RepoTypeOK
      <4> QED
        BY <4>1, <4>2 DEF Invite
    <3> QED
      BY <1>4, <3>1, <3>2
  <2>4. /\ users' = users /\ credentials' = credentials /\ totp' = totp
        /\ organisations' = organisations /\ members' = members
        /\ identities' = identities
    BY <1>4 DEF UseInvite, InviteLapses
  <2>5. InvitesFromFounder' /\ UsedInviteGrantedMembership'
    BY <1>0, <1>4, <2>1, <2>2, <2>3, <2>4
       DEF TablesOK, InvitesFromFounder, UsedInviteGrantedMembership, IsMember, ghosts
  <2> QED
    BY <1>0, <1>4, <2>4, <2>5, LocalTablesKept
       DEF TablesOK, web, sessionTable, pendingTable, ghosts, Founded, RowsAreBacked, SessionsIssued, IsMember,
           OrgExists, HasTOTP, UserExists
<1>5. ASSUME NEW u \in Names, NEW pw \in Passwords, UpdateLocalPasswordHash(u, pw),
             UNCHANGED <<web, ghosts>>
      PROVE  TablesOK'
  <2>1. \A v \in Names : credentials'[v] # None => credentials[v] # None
    BY <1>0, <1>5 DEF UpdateLocalPasswordHash, TypeOK, RepoTypeOK
  <2> QED
    BY <1>0, <1>5, <2>1, LocalTablesKept
       DEF UpdateLocalPasswordHash, TablesOK, web, sessionTable, pendingTable, ghosts, Founded,
           InvitesFromFounder,
           RowsAreBacked, UsedInviteGrantedMembership, SessionsIssued, IsMember,
           OrgExists, HasTOTP, UserExists
<1>6. ASSUME NEW r \in Reqs, TotpStore(r) PROVE TablesOK'
  <2>1. req[r].user \in Names /\ req[r].secret \in Secrets
    BY <1>0, <1>6, Shapes DEF TotpStore, TotpReq
  <2>2. \A v \in Names : totp'[v] # None => totp'[v] \in enrolled'[v]
    BY <1>0, <1>6, <2>1
       DEF TotpStore, SetTOTPSecret, TablesOK, RowsAreBacked, HasTOTP, TypeOK, RepoTypeOK
  <2> QED
    BY <1>0, <1>6, <2>2, LocalTablesKept
       DEF TotpStore, SetTOTPSecret, TablesOK, web, sessionTable, pendingTable, Founded,
           InvitesFromFounder, RowsAreBacked, UsedInviteGrantedMembership,
           SessionsIssued, IsMember, OrgExists, UserExists
<1>7. ASSUME NEW n \in Names, NEW b \in BOOLEAN, RecordLoginAttempt(n, b),
             UNCHANGED <<web, ghosts>>
      PROVE  TablesOK'
  BY <1>0, <1>7, LocalTablesKept
     DEF RecordLoginAttempt, TablesOK, web, sessionTable, pendingTable, ghosts, Founded,
           InvitesFromFounder,
         RowsAreBacked, UsedInviteGrantedMembership, SessionsIssued, IsMember,
         OrgExists, HasTOTP, UserExists
<1>8. ASSUME NEW r \in Reqs, NEW t \in Tokens, InviteCreate(r, t) PROVE TablesOK'
  <2> DEFINE c == req[r]
             sess == sessions[c.sid]
             role == InvitedRole(c.role)
  <2>1. CASE sess = None \/ c.email = Blank \/ ~MayInvite(role)
    BY <1>8, <2>1, TablesUnchanged DEF InviteCreate, ghosts
  <2>2. CASE sess # None /\ c.email # Blank /\ MayInvite(role)
    <3>1. c.sid \in Sids /\ c.email \in Names
      BY <1>0, <1>8, <2>2, Shapes DEF InviteCreate, InviteAt, InviteReq
    <3>2. sess.user = c.user /\ sess.org = c.org /\ founder[c.org] = c.user
      BY <1>0, <1>8, <2>2 DEF InviteCreate, ReqOK, InviteOK, InviteAt
    <3>3. /\ CreateInvite(t, sess.org, sess.user, c.email, role)
          /\ invites[t] = None /\ UNCHANGED <<web, ghosts>>
      BY <1>8, <2>2 DEF InviteCreate
    <3>4. role # "Owner"
      BY <2>2 DEF MayInvite
    <3>5. invites' = [invites EXCEPT ![t] =
                         [org |-> sess.org, inviter |-> sess.user, email |-> c.email,
                          role |-> role, used |-> FALSE, lapsed |-> FALSE]]
      BY <3>3 DEF CreateInvite
    <3> HIDE DEF role
    <3>6. \A x \in Tokens \ {t} : invites'[x] = invites[x]
      BY <1>0, <3>5 DEF TypeOK, RepoTypeOK
    <3>7. /\ invites'[t].org = c.org /\ invites'[t].inviter = c.user
          /\ invites'[t].role # "Owner"
      BY <1>0, <3>2, <3>4, <3>5 DEF TypeOK, RepoTypeOK
    <3>8. invites'[t].used = FALSE
      BY <1>0, <3>5 DEF TypeOK, RepoTypeOK
    <3>9. InvitesFromFounder'
      BY <1>0, <3>2, <3>3, <3>6, <3>7 DEF TablesOK, InvitesFromFounder, ghosts
    <3>10. UsedInviteGrantedMembership'
      BY <1>0, <3>3, <3>6, <3>8
         DEF TablesOK, UsedInviteGrantedMembership, CreateInvite, IsMember
    <3> QED
      BY <1>0, <3>3, <3>9, <3>10, LocalTablesKept
         DEF CreateInvite, TablesOK, web, sessionTable, pendingTable, ghosts, Founded, RowsAreBacked,
             SessionsIssued, IsMember, OrgExists, HasTOTP, UserExists
  <2> QED
    BY <2>1, <2>2
<1>9. ASSUME NEW r \in Reqs, SignupMember(r) PROVE TablesOK'
  <2>1. req[r].user \in Names /\ req[r].org \in Slugs /\ "Owner" \in Roles
    BY <1>0, <1>9, Shapes DEF SignupMember, SignupAt, SignupReq, Roles
  <2>2. UserExists(req[r].user) /\ founder[req[r].org] = req[r].user
    BY <1>0, <1>9 DEF SignupMember, ReqOK, SignupOK, SignupAt
  <2>3. OrgExists(req[r].org)
    BY <1>0, <2>1, <2>2 DEF TablesOK, Founded
  <2> QED
    BY <1>9, <2>1, <2>2, <2>3, MembershipWritten DEF SignupMember
<1>10. ASSUME NEW r \in Reqs, AcceptMember(r) PROVE TablesOK'
  <2> DEFINE t == req[r].token
  <2>1. t \in Tokens /\ invites[t] # None /\ UserExists(invites[t].email)
    BY <1>0, <1>10, Shapes DEF AcceptMember, AcceptAt, AcceptReq, ReqOK, AcceptOK
  <2>2. invites[t] \in Invite
    BY <1>0, <2>1 DEF TypeOK, RepoTypeOK
  <2>3. /\ invites[t].org \in Slugs /\ invites[t].email \in Names
        /\ invites[t].role \in Roles /\ invites[t].inviter \in Names
    BY <2>2 DEF Invite
  <2>4. invites[t].role # "Owner" /\ invites[t].inviter = founder[invites[t].org]
    BY <1>0, <2>1 DEF TablesOK, InvitesFromFounder
  <2>5. OrgExists(invites[t].org)
    BY <1>0, <2>3, <2>4 DEF TablesOK, Founded
  <2>6. /\ EnsureMembership(invites[t].org, invites[t].email, invites[t].role)
        /\ UNCHANGED <<web, ghosts>>
    BY <1>10 DEF AcceptMember
  <2> HIDE DEF t
  <2> QED
    BY <2>1, <2>3, <2>4, <2>5, <2>6, MembershipWritten
<1>11. ASSUME NEW r \in Reqs, NEW s \in Sids, SignupSession(r, s) PROVE TablesOK'
  <2> DEFINE sess == [user |-> req[r].user, org |-> req[r].org, provider |-> "local"]
  <2>1. req[r].user \in Names /\ req[r].org \in Slugs /\ sess \in Session
    BY <1>0, <1>11, Shapes DEF SignupSession, SignupAt, SignupReq, Session
  <2>2. /\ UserExists(req[r].user) /\ credentials[req[r].user] # None
        /\ IsMember(req[r].org, req[r].user)
    BY <1>0, <1>11 DEF SignupSession, ReqOK, SignupOK, SignupAt
  <2>3. OrgExists(req[r].org)
    BY <1>0, <2>1, <2>2 DEF TablesOK, RowsAreBacked
  <2> QED
    BY <1>11, <2>1, <2>2, <2>3, SessionWritten DEF SignupSession, Providers
<1>12. ASSUME NEW r \in Reqs, NEW s \in Sids, LoginSession(r, s) PROVE TablesOK'
  <2> DEFINE sess == [user |-> req[r].user, org |-> req[r].org, provider |-> "local"]
  <2>1. req[r].user \in Names /\ credentials[req[r].user] # None
        /\ req[r].org \in Slugs /\ IsMember(req[r].org, req[r].user)
    BY <1>0, <1>12, Shapes DEF LoginSession, LoginAt, LoginReq, ReqOK, LoginOK
  <2>2. sess \in Session
    BY <2>1 DEF Session
  <2>3. UserExists(req[r].user) /\ OrgExists(req[r].org)
    BY <1>0, <2>1 DEF TablesOK, RowsAreBacked
  <2> QED
    BY <1>12, <2>1, <2>2, <2>3, SessionWritten DEF LoginSession, Providers
<1>13. ASSUME NEW r \in Reqs, NEW s \in Sids, AcceptSession(r, s) PROVE TablesOK'
  <2> DEFINE inv == invites[req[r].token]
             sess == [user |-> inv.email, org |-> inv.org, provider |-> "invite"]
  <2>1. inv \in Invite /\ UserExists(inv.email) /\ IsMember(inv.org, inv.email)
    BY <1>0, <1>13, Shapes
       DEF AcceptSession, AcceptAt, AcceptReq, ReqOK, AcceptOK, TypeOK, RepoTypeOK
  <2>2. inv.org \in Slugs /\ inv.email \in Names /\ sess \in Session
    BY <2>1 DEF Invite, Session
  <2>3. OrgExists(inv.org)
    BY <1>0, <2>1, <2>2 DEF TablesOK, RowsAreBacked
  <2> QED
    BY <1>13, <2>1, <2>2, <2>3, SessionWritten DEF AcceptSession, Providers
<1>14. ASSUME \A s \in Sids : sessions'[s] \in {None, sessions[s]},
              \A t \in LinkTokens : pending'[t] \in {None, pending[t]},
              issued \subseteq issued', UNCHANGED <<db, ghosts>>
       PROVE  TablesOK'
  <2>1. /\ users' = users /\ credentials' = credentials /\ totp' = totp
        /\ organisations' = organisations /\ members' = members /\ invites' = invites
        /\ identities' = identities /\ founder' = founder /\ enrolled' = enrolled
        /\ asserted' = asserted
    BY <1>14 DEF db, ghosts
  <2>2. PendingsWereAsserted'
    BY <1>0, <1>14, <2>1 DEF TablesOK, PendingsWereAsserted
  <2>3. \A i \in Identities : identities'[i] # None =>
           identities'[i] \in asserted'[i] /\ credentials'[identities'[i]] # None
    BY <1>0, <2>1 DEF TablesOK, LinksWereAsserted, RowsAreBacked
  <2>4. EmailsWereClaimed'
    BY <1>0, <2>1 DEF TablesOK, EmailsWereClaimed
  <2>5. SessionsIssued'
    BY <1>0, <1>14 DEF TablesOK, SessionsIssued
  <2> QED
    BY <1>0, <1>14, <2>1, <2>2, <2>3, <2>4, <2>5, TablesKept
       DEF TablesOK, Founded, InvitesFromFounder, RowsAreBacked,
           UsedInviteGrantedMembership, IsMember, OrgExists, HasTOTP, UserExists
<1>15. ASSUME \/ \E s \in Sids : Logout(s) \/ SessionExpires(s)
              \/ \E t \in LinkTokens : PendingExpires(t)
              \/ \E r \in Reqs : LinkForget(r)
              \/ Crash
       PROVE  TablesOK'
  <2> USE DEF Table!Drop, Table!Forget, Table!TableTypeOK, Pending!Drop, Pending!Forget,
              Pending!TableTypeOK, DropSession, DropPending, sessionTable, pendingTable
  <2>1. \A s \in Sids : sessions'[s] \in {None, sessions[s]}
    BY <1>0, <1>15 DEF Logout, SessionExpires, PendingExpires, LinkForget, Crash, TypeOK
  <2>2. \A t \in LinkTokens : pending'[t] \in {None, pending[t]}
    BY <1>0, <1>15 DEF Logout, SessionExpires, PendingExpires, LinkForget, Crash, TypeOK
  <2>3. issued \subseteq issued' /\ UNCHANGED <<db, ghosts>>
    BY <1>15 DEF Logout, SessionExpires, PendingExpires, LinkForget, Crash
  <2> QED
    BY <2>1, <2>2, <2>3, <1>14
<1>16. ASSUME UNCHANGED <<db, web, ghosts>> PROVE TablesOK'
  BY <1>16, TablesUnchanged
<1>17. ASSUME NEW r \in Reqs, NEW e \in EmailInputs, NEW n \in NameInputs,
              NEW pw \in Passwords \cup {Spaces}, NEW o \in SlugInputs,
              SignupBegin(r, e, n, pw, o)
       PROVE  TablesOK'
  <2>1. Normal[e] \in Names /\ UpsertUser(Normal[e]) /\ UNCHANGED <<web, ghosts>>
    BY <1>17 DEF SignupBegin
  <2> QED
    BY <2>1, <1>1
<1>18. ASSUME NEW r \in Reqs, SignupCredential(r) PROVE TablesOK'
  <2>1. req[r].user \in Names /\ req[r].name \in Names /\ req[r].pw \in Passwords
        /\ UserExists(req[r].user)
    BY <1>0, <1>18, Shapes DEF SignupCredential, SignupAt, SignupReq, ReqOK, SignupOK
  <2> QED
    BY <1>18, <2>1, <1>2, <1>16 DEF SignupCredential
<1>19. ASSUME NEW r \in Reqs, LoginFailure(r) \/ LoginRecord(r) PROVE TablesOK'
  <2>1. req[r].name \in Names
    BY <1>0, <1>19, Shapes DEF LoginFailure, LoginRecord, LoginAt, LoginReq
  <2> QED
    BY <1>19, <2>1, <1>7 DEF LoginFailure, LoginRecord
<1>20. ASSUME NEW r \in Reqs, PasswordUpdate(r) \/ PasswordCreate(r) PROVE TablesOK'
  <2>1. req[r].user \in Names /\ req[r].pw \in Passwords /\ UserExists(req[r].user)
    BY <1>0, <1>20, Shapes
       DEF PasswordUpdate, PasswordCreate, PasswordAt, PasswordReq, ReqOK, PasswordOK
  <2> QED
    BY <1>20, <2>1, <1>2, <1>5, <1>16 DEF PasswordUpdate, PasswordCreate
<1>21. ASSUME NEW r \in Reqs, AcceptUpsert(r) \/ AcceptUse(r) PROVE TablesOK'
  <2>1. req[r].token \in Tokens /\ invites[req[r].token] # None
    BY <1>0, <1>21, Shapes DEF AcceptUpsert, AcceptUse, AcceptAt, AcceptReq, ReqOK, AcceptOK
  <2>2. invites[req[r].token] \in Invite
    BY <1>0, <2>1 DEF TypeOK, RepoTypeOK
  <2>3. invites[req[r].token].email \in Names
    BY <2>2 DEF Invite
  <2>4. AcceptUse(r) => IsMember(invites[req[r].token].org, invites[req[r].token].email)
    BY <1>0 DEF AcceptUse, ReqOK, AcceptOK
  <2> QED
    BY <1>21, <2>1, <2>3, <2>4, <1>1, <1>4 DEF AcceptUpsert, AcceptUse
<1>22. ASSUME NEW t \in Tokens, InviteExpires(t) PROVE TablesOK'
  <2>1. invites[t] # None /\ InviteLapses(t) /\ UNCHANGED <<web, ghosts>>
    BY <1>22 DEF InviteExpires, InviteLapses
  <2> QED
    BY <2>1, <1>4
<1>23. ASSUME NEW r \in Reqs,
              \/ SignupOrgExists(r) \/ SignupOrgMissing(r)
              \/ LoginMFA(r) \/ LoginSecret(r) \/ LoginNoOrg(r)
              \/ \E o \in Slugs : LoginOrg(r, o)
              \/ PasswordFind(r) \/ InviteRole(r) \/ AcceptUser(r) \/ RequestFails(r)
       PROVE  TablesOK'
  BY <1>16, <1>23
     DEF SignupOrgExists, SignupOrgMissing, LoginMFA, LoginSecret, LoginNoOrg, LoginOrg,
         PasswordFind, InviteRole, AcceptUser, RequestFails
<1>24. ASSUME NEW r \in Reqs,
              \/ \E n \in NameInputs, pw \in Passwords, code \in Secrets \cup {None},
                    u \in Names : LoginBegin(r, n, pw, code, u)
              \/ \E s \in Sids, x \in Secrets : TotpBegin(r, s, x)
              \/ \E s \in Sids, pw \in LongPasswords : PasswordBegin(r, s, pw)
              \/ \E s \in Sids, e \in EmailInputs, role \in RoleInputs :
                    InviteBegin(r, s, e, role)
              \/ \E t \in Tokens : AcceptLookup(r, t)
       PROVE  TablesOK'
  BY <1>16, <1>24 DEF LoginBegin, TotpBegin, PasswordBegin, InviteBegin, AcceptLookup
<1>25. ASSUME UNCHANGED vars PROVE TablesOK'
  BY <1>16, <1>25 DEF vars
<1>26. ASSUME NEW r \in Reqs, NEW i \in Identities, NEW e \in EmailInputs,
              CallbackBegin(r, i, e)
       PROVE  TablesOK'
  <2>1. /\ users' = users /\ credentials' = credentials /\ totp' = totp
        /\ organisations' = organisations /\ members' = members /\ invites' = invites
        /\ identities' = identities /\ founder' = founder /\ enrolled' = enrolled
        /\ sessions' = sessions /\ issued' = issued /\ pending' = pending
    BY <1>26 DEF CallbackBegin, db, web, sessionTable, pendingTable
  <2>2. <<i, e>> \in Claims
    BY <1>26 DEF CallbackBegin
  <2>3. \A k \in Identities :
           /\ asserted[k] \subseteq asserted'[k]
           /\ asserted'[k] \subseteq asserted[k] \cup (IF k = i THEN {Normal[e]} ELSE {})
    BY <1>0, <1>26 DEF CallbackBegin, TypeOK
  <2>4. EmailsWereClaimed'
    BY <1>0, <2>2, <2>3 DEF TablesOK, EmailsWereClaimed
  <2>5. PendingsWereAsserted'
    BY <1>0, <2>1, <2>3
       DEF TablesOK, PendingsWereAsserted, PendingLink, TypeOK, Pending!TableTypeOK
  <2>6. \A k \in Identities : identities'[k] # None =>
           identities'[k] \in asserted'[k] /\ credentials'[identities'[k]] # None
    BY <1>0, <2>1, <2>3 DEF TablesOK, LinksWereAsserted, RowsAreBacked
  <2> QED
    BY <1>0, <2>1, <2>4, <2>5, <2>6, TablesKept
       DEF TablesOK, Founded, InvitesFromFounder, RowsAreBacked, SessionsIssued,
           UsedInviteGrantedMembership, IsMember, OrgExists, HasTOTP, UserExists
<1>27. ASSUME NEW r \in Reqs, NEW t \in LinkTokens, CallbackPending(r, t) PROVE TablesOK'
  <2> DEFINE link == [identity |-> req[r].identity, email |-> req[r].email]
  <2>1. req[r].email \in asserted[req[r].identity]
    BY <1>0, <1>27 DEF CallbackPending, ReqOK, ProviderOK
  <2>2. /\ users' = users /\ credentials' = credentials /\ totp' = totp
        /\ organisations' = organisations /\ members' = members /\ invites' = invites
        /\ identities' = identities /\ founder' = founder /\ enrolled' = enrolled
        /\ asserted' = asserted /\ sessions' = sessions /\ issued' = issued
    BY <1>27 DEF CallbackPending, CreatePending, sessionTable, db, ghosts
  <2>3. pending' = [pending EXCEPT ![t] = link]
    BY <1>27 DEF CallbackPending, CreatePending, Pending!Create
  <2>4. PendingsWereAsserted'
    BY <1>0, <2>1, <2>2, <2>3
       DEF TablesOK, PendingsWereAsserted, TypeOK, Pending!TableTypeOK
  <2>5. EmailsWereClaimed'
    BY <1>0, <2>2 DEF TablesOK, EmailsWereClaimed
  <2>6. \A k \in Identities : identities'[k] # None =>
           identities'[k] \in asserted'[k] /\ credentials'[identities'[k]] # None
    BY <1>0, <2>2 DEF TablesOK, LinksWereAsserted, RowsAreBacked
  <2> QED
    BY <1>0, <2>2, <2>4, <2>5, <2>6, TablesKept
       DEF TablesOK, Founded, InvitesFromFounder, RowsAreBacked, SessionsIssued,
           UsedInviteGrantedMembership, IsMember, OrgExists, HasTOTP, UserExists
<1>28. ASSUME NEW r \in Reqs, LinkInsert(r) PROVE TablesOK'
  <2> DEFINE c == req[r]
  <2>1. /\ c.user \in Names /\ c.identity \in Identities
        /\ c.user \in asserted[c.identity] /\ credentials[c.user] # None
    BY <1>0, <1>28, Shapes DEF LinkInsert, ProviderAt, ProviderReq, ReqOK, ProviderOK
  <2>2. /\ users' = users /\ credentials' = credentials /\ totp' = totp
        /\ organisations' = organisations /\ members' = members /\ invites' = invites
        /\ founder' = founder /\ enrolled' = enrolled /\ asserted' = asserted
        /\ sessions' = sessions /\ issued' = issued /\ pending' = pending
    BY <1>28 DEF LinkInsert, LinkIdentity, web, sessionTable, pendingTable, ghosts
  <2>3. \A k \in Identities :
           identities'[k] \in {identities[k], c.user}
           /\ (identities'[k] # identities[k] => k = c.identity)
    BY <1>0, <1>28 DEF LinkInsert, LinkIdentity, TypeOK, RepoTypeOK
  <2>4. \A k \in Identities : identities'[k] # None =>
           identities'[k] \in asserted'[k] /\ credentials'[identities'[k]] # None
    BY <1>0, <2>1, <2>2, <2>3 DEF TablesOK, LinksWereAsserted, RowsAreBacked
  <2>5. EmailsWereClaimed' /\ PendingsWereAsserted'
    BY <1>0, <2>2 DEF TablesOK, EmailsWereClaimed, PendingsWereAsserted
  <2> QED
    BY <1>0, <2>2, <2>4, <2>5, TablesKept
       DEF TablesOK, Founded, InvitesFromFounder, RowsAreBacked, SessionsIssued,
           UsedInviteGrantedMembership, IsMember, OrgExists, HasTOTP, UserExists
<1>29. ASSUME NEW r \in Reqs, NEW s \in Sids, ProviderSession(r, s) PROVE TablesOK'
  <2> DEFINE c == req[r]
             sess == [user |-> c.user, org |-> c.org, provider |-> ProviderOf[c.identity]]
  <2>1. /\ c.user \in Names /\ c.identity \in Identities /\ c.org \in Slugs
        /\ credentials[c.user] # None /\ IsMember(c.org, c.user)
        /\ StableClaims => identities[c.identity] = c.user
    BY <1>0, <1>29, Shapes DEF ProviderSession, ProviderAt, ProviderReq, ReqOK, ProviderOK
  <2>2. sess \in Session
    BY <2>1 DEF Session
  <2>3. UserExists(c.user) /\ OrgExists(c.org)
    BY <1>0, <2>1 DEF TablesOK, RowsAreBacked
  <2>4. CreateSession(s, sess) /\ UNCHANGED <<db, ghosts>>
    BY <1>29 DEF ProviderSession
  <2>5. /\ sess.user = c.user /\ sess.org = c.org
        /\ sess.provider = ProviderOf[c.identity]
    OBVIOUS
  <2> HIDE DEF c, sess
  <2> QED
    BY <2>1, <2>2, <2>3, <2>4, <2>5, SessionWritten
<1>30. ASSUME NEW r \in Reqs, ProviderRecord(r) PROVE TablesOK'
  <2>1. req[r].user \in Names
    BY <1>0, <1>30, Shapes DEF ProviderRecord, ProviderAt, ProviderReq
  <2> QED
    BY <1>30, <2>1, <1>7 DEF ProviderRecord
<1>31. ASSUME NEW r \in Reqs,
              \/ CallbackUnknown(r) \/ LinkCredential(r) \/ LinkMFA(r) \/ LinkSecret(r)
              \/ LinkIdentityCheck(r) \/ ProviderNoOrg(r)
              \/ \E o \in Slugs : ProviderOrg(r, o)
              \/ \E t \in LinkTokens, n \in LinkNames, pw \in Passwords,
                    code \in Secrets \cup {None} : LinkBegin(r, t, n, pw, code)
       PROVE  TablesOK'
  BY <1>16, <1>31
     DEF CallbackUnknown, LinkCredential, LinkMFA, LinkSecret, LinkIdentityCheck,
         ProviderNoOrg, ProviderOrg, LinkBegin
<1>32. ASSUME ProviderAuthNext PROVE TablesOK'
  BY <1>15, <1>26, <1>27, <1>28, <1>29, <1>30, <1>31, <1>32 DEF ProviderAuthNext
<1> QED
  BY <1>3, <1>6, <1>8, <1>9, <1>10, <1>11, <1>12, <1>13, <1>15, <1>17, <1>18, <1>19,
     <1>20, <1>21, <1>22, <1>23, <1>24, <1>25, <1>32
     DEF Next, LocalAuthNext, InvitesNext

-----------------------------------------------------------------------------
(* The theorems. *)

LEMMA OnboardingStarts == Init => OnboardingInv
<1> SUFFICES ASSUME Init PROVE OnboardingInv
  OBVIOUS
<1> USE DEF Init, RepoInit, Table!TableInit, Pending!TableInit
<1>1. TypeOK
  <2>1. \A u \in Names : [name |-> u, hash |-> HashPassword(SeedPassword)] \in Credential
    BY DEF Credential
  <2>2. /\ credentials \in [Names -> Credential \cup {None}]
        /\ organisations \in [Slugs -> Nat]
        /\ members \in [Slugs -> [Names -> Roles \cup {None}]]
    BY <2>1 DEF Roles
  <2> QED
    BY <2>2 DEF TypeOK, RepoTypeOK, Table!TableTypeOK, Pending!TableTypeOK, Request
<1>2. TablesOK
  BY DEF TablesOK, Founded, RowsAreBacked, InvitesFromFounder, SessionsIssued,
     OwnerIsFounder, RolesAreEarned, SessionsAreBacked, UsedInviteGrantedMembership,
     EmailsWereClaimed, PendingsWereAsserted, LinksWereAsserted, ProviderSessionsAreLinked,
     UserExists, OrgExists, IsMember, HasTOTP, Roles
<1>3. \A r \in Reqs : ReqOK(req[r])
  BY DEF Idle, ReqOK, SignupOK, LoginOK, MFAOK, InviteOK, AcceptOK, PasswordOK, ProviderOK,
     SignupAt, LoginAt, PastMFA, InviteAt, AcceptAt, PasswordAt, ProviderAt
<1> QED
  BY <1>1, <1>2, <1>3 DEF OnboardingInv

LEMMA OnboardingStep == OnboardingInv /\ [Next]_vars => OnboardingInv'
<1> SUFFICES ASSUME OnboardingInv, [Next]_vars PROVE OnboardingInv'
  OBVIOUS
<1>1. TypeOK /\ TypeOK' /\ Grows /\ \A r \in Reqs : ReqOK(req[r])
  BY TypeStep DEF OnboardingInv
<1>2. TablesOK'
  BY <1>1, TablesStep
<1> DEFINE Goal == \A r \in Reqs : ReqOK(req[r])'
<1>3. ASSUME NEW r \in Reqs, RequestFails(r) PROVE Goal
  <2>1. req'[r] = Idle /\ \A q \in Reqs \ {r} : req'[q] = req[q]
    BY <1>1, <1>3, Moves DEF RequestFails
  <2> QED
    BY <1>1, <2>1, OneSlot
<1>4. ASSUME Crash PROVE Goal
  BY <1>4 DEF Crash, Idle, ReqOK, SignupOK, LoginOK, MFAOK, InviteOK, AcceptOK, PasswordOK, ProviderOK,
     SignupAt, LoginAt, PastMFA, InviteAt, AcceptAt, PasswordAt, ProviderAt
<1>5. ASSUME UNCHANGED req PROVE Goal
  BY <1>1, <1>5, ReqKept
<1>6. ASSUME \/ \E s \in Sids : Logout(s) \/ SessionExpires(s)
             \/ \E t \in Tokens : InviteExpires(t)
             \/ \E t \in LinkTokens : PendingExpires(t)
             \/ UNCHANGED vars
      PROVE  Goal
  BY <1>5, <1>6 DEF Logout, SessionExpires, InviteExpires, PendingExpires, vars
<1>7. Goal
  BY <1>1, <1>3, <1>4, <1>6, ReqStepSignup, ReqStepLogin, ReqStepAccount, ReqStepInvite,
     ReqStepAccept, ReqStepProvider
     DEF Next, LocalAuthNext, InvitesNext, ProviderAuthNext
<1> QED
  BY <1>1, <1>2, <1>7 DEF OnboardingInv

\* The inductive invariant: what the tables, the sessions and the handlers in
\* flight say about each other, for any interleaving, failure and crash.
THEOREM OnboardingInvariant == Spec => []OnboardingInv
<1>1. Init => OnboardingInv
  BY OnboardingStarts
<1>2. OnboardingInv /\ [Next]_vars => OnboardingInv'
  BY OnboardingStep
<1> QED
  BY <1>1, <1>2, PTL DEF Spec

\* The tables, the session table and the requests in flight are well typed.
THEOREM OnboardingTypes == Spec => []TypeOK
<1>1. OnboardingInv => TypeOK
  BY DEF OnboardingInv
<1> QED
  BY <1>1, OnboardingInvariant, PTL

\* The only Owner of an organisation is the user whose signup created it.
THEOREM OnlyFoundersOwn == Spec => []OwnerIsFounder
<1>1. OnboardingInv => OwnerIsFounder
  BY DEF OnboardingInv, TablesOK
<1> QED
  BY <1>1, OnboardingInvariant, PTL

\* Every membership was founded, or granted by an invite of the founder for
\* exactly that role.
THEOREM MembershipsAreEarned == Spec => []RolesAreEarned
<1>1. OnboardingInv => RolesAreEarned
  BY DEF OnboardingInv, TablesOK
<1> QED
  BY <1>1, OnboardingInvariant, PTL

\* A session's user, organisation, membership and credential are in the database.
THEOREM SessionsHaveRows == Spec => []SessionsAreBacked
<1>1. OnboardingInv => SessionsAreBacked
  BY DEF OnboardingInv, TablesOK
<1> QED
  BY <1>1, OnboardingInvariant, PTL

\* A used invite has made its addressee a member.
THEOREM InvitesAreNotBurnt == Spec => []UsedInviteGrantedMembership
<1>1. OnboardingInv => UsedInviteGrantedMembership
  BY DEF OnboardingInv, TablesOK
<1> QED
  BY <1>1, OnboardingInvariant, PTL

\* As long as no query fails while its client waits, a user with TOTP enabled
\* gets past the MFA step only with a code of a stored secret.
THEOREM LoginsHonourTOTP ==
    ASSUME ~QueryErrors PROVE Spec => []PasswordLoginsHonourTOTP
<1>1. OnboardingInv => PasswordLoginsHonourTOTP
  BY DEF OnboardingInv, ReqOK, MFAOK, PasswordLoginsHonourTOTP
<1> QED
  BY <1>1, OnboardingInvariant, PTL

\* An identity is linked only to a user whose email its provider gave for it.
THEOREM LinksComeFromClaims == Spec => []LinksWereAsserted
<1>1. OnboardingInv => LinksWereAsserted
  BY DEF OnboardingInv, TablesOK
<1> QED
  BY <1>1, OnboardingInvariant, PTL

\* If every identity always comes with the same email, a provider session
\* belongs to a user with a linked identity of that provider.
THEOREM ProviderSessionsHaveLinks ==
    ASSUME StableClaims PROVE Spec => []ProviderSessionsAreLinked
<1>1. OnboardingInv => ProviderSessionsAreLinked
  BY DEF OnboardingInv, TablesOK
<1> QED
  BY <1>1, OnboardingInvariant, PTL

-----------------------------------------------------------------------------
(* What each of the three handlers' files leaves alone. *)

LocalAt == SignupAt \cup LoginAt \cup PasswordAt \cup {"totp.store"}
LinkAt == ProviderAt \cup {"callback.email", "link.credential"}

\* The requests that move go to one of these steps or return.
OnlyMoves(steps) ==
    \A r \in Reqs : req'[r] = req[r] \/ req'[r].at \in steps \cup {"idle"}

\* Both tables are used as tables, for sessions of these providers.
TablesMove(kinds) ==
    /\ \/ UNCHANGED sessionTable
       \/ \E s \in Sids, sess \in Session : sess.provider \in kinds /\ Table!Create(s, sess)
       \/ \E s \in Sids : Table!Drop(s)
       \/ Table!Forget
    /\ UNCHANGED pendingTable \/ Pending!TableNext

\* A handler that goes on keeps what it has read.
LEMMA GoesOn ==
    ASSUME ReqTypeOK, NEW r \in Reqs, NEW at, Goto(r, at)
    PROVE  /\ req'[r].at = at
           /\ req[r] \in AcceptReq => req'[r].token = req[r].token
           /\ req[r] \in PasswordReq => req'[r].user = req[r].user
           /\ req[r] \in ProviderReq => /\ req'[r].user = req[r].user
                                        /\ req'[r].identity = req[r].identity
           /\ \A q \in Reqs \ {r} : req'[q] = req[q]
<1>1. req'[r] = [req[r] EXCEPT !.at = at] /\ \A q \in Reqs \ {r} : req'[q] = req[q]
  BY DEF ReqTypeOK, Goto
<1>2. [req[r] EXCEPT !.at = at].at = at
  BY DEF ReqTypeOK, Idle, Request, SignupReq, LoginReq, TotpReq, PasswordReq, InviteReq,
         AcceptReq, CallbackReq, LinkReq, ProviderReq
<1> QED
  BY <1>1, <1>2 DEF AcceptReq, PasswordReq, ProviderReq

LEMMA ReqFrame ==
    ASSUME ReqTypeOK, NEW r \in Reqs, NEW steps
    PROVE  /\ UNCHANGED req => OnlyMoves(steps)
           /\ Finish(r) => OnlyMoves(steps)
           /\ \A at \in steps : Goto(r, at) => OnlyMoves(steps)
           /\ \A c : c.at \in steps /\ Start(r, c) => OnlyMoves(steps)
           /\ \A c : c.at \in steps /\ req' = [req EXCEPT ![r] = c] => OnlyMoves(steps)
<1>1. Idle.at = "idle"
  BY DEF Idle
<1>2. \A at \in steps : [req[r] EXCEPT !.at = at].at = at
  BY DEF ReqTypeOK, Idle, Request, SignupReq, LoginReq, TotpReq, PasswordReq, InviteReq,
         AcceptReq, CallbackReq, LinkReq, ProviderReq
<1>3. /\ UNCHANGED req => OnlyMoves(steps)
      /\ \A c : c.at \in steps \cup {"idle"} /\ req' = [req EXCEPT ![r] = c] => OnlyMoves(steps)
  BY DEF ReqTypeOK, OnlyMoves
<1> QED
  BY <1>1, <1>2, <1>3 DEF Finish, Goto, Start

LEMMA WebFrame ==
    ASSUME NEW kinds
    PROVE  /\ UNCHANGED web => TablesMove(kinds)
           /\ \A s \in Sids, sess \in Session :
                 sess.provider \in kinds /\ CreateSession(s, sess) => TablesMove(kinds)
           /\ \A s \in Sids : DropSession(s) => TablesMove(kinds)
           /\ \A t \in LinkTokens, link \in PendingLink :
                 CreatePending(t, link) => TablesMove(kinds)
           /\ \A t \in LinkTokens : DropPending(t) => TablesMove(kinds)
           /\ Table!Forget /\ Pending!Forget => TablesMove(kinds)
BY DEF web, TablesMove, CreateSession, DropSession, CreatePending, DropPending,
       Pending!TableNext

\* Under an id there is the session there was, none, or one of these providers.
LEMMA SessionsChange ==
    ASSUME WebTypeOK, NEW kinds, TablesMove(kinds), NEW s \in Sids
    PROVE  \/ sessions'[s] = sessions[s]
           \/ sessions'[s] = None
           \/ sessions'[s] # None /\ sessions'[s].provider \in kinds
<1>1. ASSUME NEW p \in Sids, NEW sess \in Session, sess.provider \in kinds,
             Table!Create(p, sess)
      PROVE  sessions'[s] = sessions[s] \/ sessions'[s] = sess
  BY <1>1 DEF Table!Create, WebTypeOK, Table!TableTypeOK
<1>2. ASSUME NEW p \in Sids, Table!Drop(p)
      PROVE  sessions'[s] = sessions[s] \/ sessions'[s] = None
  BY <1>2 DEF Table!Drop, WebTypeOK, Table!TableTypeOK
<1>3. ASSUME Table!Forget PROVE sessions'[s] = None
  BY <1>3 DEF Table!Forget
<1>4. None \notin Session
  BY NoneIsNoEntry
<1> QED
  BY <1>1, <1>2, <1>3, <1>4 DEF TablesMove, sessionTable

\* The local handlers touch neither invites nor identities.
LEMMA LocalFrame ==
    ASSUME OnboardingInv, LocalAuthNext
    PROVE  /\ UNCHANGED <<invites, identities>>
           /\ TablesMove({"local"})
           /\ OnlyMoves(LocalAt \ {"password.update"}) \/ \E r \in Reqs : PasswordFind(r)
<1> DEFINE Goal == /\ UNCHANGED <<invites, identities>>
                   /\ TablesMove({"local"})
                   /\ OnlyMoves(LocalAt \ {"password.update"})
<1>0. RepoTypeOK /\ WebTypeOK /\ ReqTypeOK
  BY DEF OnboardingInv, TypeOK, WebTypeOK, ReqTypeOK
<1> USE <1>0, WebFrame, ReqFrame
<1>a. UNCHANGED db => UNCHANGED <<invites, identities>>
  BY DEF db
<1>1. ASSUME NEW r \in Reqs, NEW e \in EmailInputs, NEW n \in NameInputs,
             NEW pw \in Passwords \cup {Spaces}, NEW o \in SlugInputs,
             SignupBegin(r, e, n, pw, o)
      PROVE  Goal
  BY <1>1 DEF SignupBegin, UpsertUser, LocalAt, SignupAt
<1>2. ASSUME NEW r \in Reqs, NEW n \in NameInputs, NEW pw \in Passwords,
             NEW code \in Secrets \cup {None}, NEW u \in Names, LoginBegin(r, n, pw, code, u)
      PROVE  Goal
  BY <1>2, <1>a DEF LoginBegin, LocalAt, LoginAt
<1>3. ASSUME NEW r \in Reqs, SignupCredential(r) \/ SignupOrgExists(r) \/ SignupOrgMissing(r)
      PROVE  Goal
  BY <1>3, <1>a DEF SignupCredential, SignupOrgExists, SignupOrgMissing, CreateLocalCredential,
                    LocalAt, SignupAt
<1>4. ASSUME NEW r \in Reqs, SignupCreateOrg(r) \/ SignupMember(r) PROVE Goal
  BY <1>4, <1>a DEF SignupCreateOrg, SignupMember, CreateOrg, EnsureMembership, LocalAt, SignupAt
<1>5. ASSUME NEW r \in Reqs, LoginFailure(r) \/ LoginMFA(r) \/ LoginSecret(r)
                             \/ LoginNoOrg(r) \/ LoginRecord(r)
      PROVE  Goal
  BY <1>5, <1>a DEF LoginFailure, LoginMFA, LoginSecret, LoginNoOrg, LoginRecord,
                    RecordLoginAttempt, LocalAt, LoginAt
<1>6. ASSUME NEW r \in Reqs, TotpStore(r) \/ PasswordUpdate(r) \/ PasswordCreate(r)
      PROVE  Goal
  BY <1>6, <1>a DEF TotpStore, PasswordUpdate, PasswordCreate, SetTOTPSecret,
                    UpdateLocalPasswordHash, CreateLocalCredential
<1>7. ASSUME NEW r \in Reqs, NEW o \in Slugs, LoginOrg(r, o) PROVE Goal
  <2> DEFINE c == [at |-> "login.session", user |-> req[r].user, name |-> req[r].name,
                   code |-> req[r].code, due |-> req[r].due, org |-> o]
  <2>1. c.at \in LocalAt \ {"password.update"} /\ req' = [req EXCEPT ![r] = c]
        /\ UNCHANGED <<db, web>>
    BY <1>7 DEF LoginOrg, LocalAt, LoginAt
  <2> QED
    BY <2>1, <1>a
<1>8. ASSUME NEW r \in Reqs, NEW s \in Sids, SignupSession(r, s) \/ LoginSession(r, s)
      PROVE  Goal
  <2> DEFINE sess == [user |-> req[r].user, org |-> req[r].org, provider |-> "local"]
  <2>1. sess \in Session
    BY <1>8, Shapes DEF SignupSession, LoginSession, Session, SignupAt, LoginAt, SignupReq,
       LoginReq, OnboardingInv, ReqOK, LoginOK
  <2>2. /\ CreateSession(s, sess) /\ UNCHANGED db
        /\ Finish(r) \/ Goto(r, "login.record")
    BY <1>8 DEF SignupSession, LoginSession
  <2>3. OnlyMoves(LocalAt \ {"password.update"})
    BY <2>2 DEF LocalAt, LoginAt
  <2> QED
    BY <2>1, <2>2, <2>3, <1>a
<1>9. ASSUME NEW r \in Reqs, NEW s \in Sids, NEW x \in Secrets, TotpBegin(r, s, x) PROVE Goal
  BY <1>9, <1>a DEF TotpBegin, LocalAt
<1>10. ASSUME NEW r \in Reqs, NEW s \in Sids, NEW pw \in LongPasswords, PasswordBegin(r, s, pw)
       PROVE  Goal
  BY <1>10, <1>a DEF PasswordBegin, LocalAt, PasswordAt
<1>11. ASSUME NEW s \in Sids, Logout(s) PROVE Goal
  BY <1>11, <1>a DEF Logout, OnlyMoves
<1>12. ASSUME NEW r \in Reqs, PasswordFind(r)
       PROVE  UNCHANGED <<invites, identities>> /\ TablesMove({"local"})
  BY <1>12, <1>a DEF PasswordFind
<1> QED
  BY <1>1, <1>2, <1>3, <1>4, <1>5, <1>6, <1>7, <1>8, <1>9, <1>10, <1>11, <1>12
     DEF LocalAuthNext

\* Neither do the provider handlers touch invites or credentials; identities are
\* linked by one of their steps, and three lead to a request that has one.
LinkStep(r) ==
    \/ \E i \in Identities, e \in EmailInputs : CallbackBegin(r, i, e)
    \/ LinkIdentityCheck(r) \/ LinkInsert(r) \/ LinkForget(r)
    \/ \E o \in Slugs : ProviderOrg(r, o)
    \/ \E s \in Sids : ProviderSession(r, s)
Linked == {"link.forget", "provider.org", "provider.session"}

\* The pending links these handlers make and drop.
LEMMA PendingShape ==
    ASSUME OnboardingInv, NEW r \in Reqs
    PROVE  /\ req[r].at = "callback.email" /\ UserExists(req[r].email) =>
                 [identity |-> req[r].identity, email |-> req[r].email] \in PendingLink
           /\ req[r].at = "link.forget" => req[r].token \in LinkTokens
<1>1. ReqTypeOK /\ RepoTypeOK /\ ReqOK(req[r])
  BY DEF OnboardingInv, TypeOK, ReqTypeOK
<1>2. req[r].at = "callback.email" => req[r] \in CallbackReq
  BY <1>1, Shapes
<1> QED
  BY <1>1, <1>2 DEF CallbackReq, PendingLink, UserExists, RepoTypeOK, ReqOK, ProviderOK

LEMMA ProviderFrame ==
    ASSUME OnboardingInv, ProviderAuthNext
    PROVE  /\ UNCHANGED <<users, credentials, invites>>
           /\ OnlyMoves(LinkAt)
           /\ TablesMove(Providers)
           /\ \/ \E r \in Reqs : LinkStep(r)
              \/ /\ UNCHANGED identities
                 /\ OnlyMoves(LinkAt \ ({"link.insert"} \cup Linked))
                 /\ TablesMove({})
<1> DEFINE Frame == UNCHANGED <<users, credentials, invites>>
                    /\ OnlyMoves(LinkAt) /\ TablesMove(Providers)
           Quiet == /\ UNCHANGED <<users, credentials, invites, identities>>
                    /\ OnlyMoves(LinkAt \ ({"link.insert"} \cup Linked))
                    /\ TablesMove({})
<1>0. RepoTypeOK /\ WebTypeOK /\ ReqTypeOK
  BY DEF OnboardingInv, TypeOK, WebTypeOK, ReqTypeOK
<1> USE <1>0, WebFrame, ReqFrame
<1>a. UNCHANGED db => UNCHANGED <<users, credentials, invites, identities>>
  BY DEF db
<1>b. Quiet => Frame
  BY DEF OnlyMoves, TablesMove
<1>1. ASSUME NEW r \in Reqs, NEW i \in Identities, NEW e \in EmailInputs, CallbackBegin(r, i, e)
      PROVE  Frame
  BY <1>1, <1>a DEF CallbackBegin, LinkAt, ProviderAt
<1>2. ASSUME NEW r \in Reqs, NEW t \in LinkTokens, CallbackPending(r, t) PROVE Quiet
  BY <1>2, <1>a, PendingShape DEF CallbackPending
<1>3. ASSUME NEW r \in Reqs, NEW t \in LinkTokens, NEW n \in LinkNames,
             NEW pw \in Passwords, NEW code \in Secrets \cup {None},
             LinkBegin(r, t, n, pw, code)
      PROVE  Quiet
  BY <1>3, <1>a DEF LinkBegin, LinkAt, Linked
<1>4. ASSUME NEW r \in Reqs, CallbackUnknown(r) \/ ProviderNoOrg(r) \/ ProviderRecord(r)
      PROVE  Quiet
  BY <1>4, <1>a DEF CallbackUnknown, ProviderNoOrg, ProviderRecord, RecordLoginAttempt
<1>5. ASSUME NEW r \in Reqs, LinkCredential(r) PROVE Quiet
  <2>1. CASE Finish(r)
    BY <1>5, <1>a, <2>1 DEF LinkCredential
  <2> DEFINE C(u) == [at |-> "link.mfa", identity |-> req[r].identity,
                      email |-> req[r].email, token |-> req[r].token, user |-> u,
                      code |-> req[r].code, due |-> totp[u], org |-> None]
  <2>2. CASE \E u \in Names : req' = [req EXCEPT ![r] = C(u)]
    <3>1. UNCHANGED <<db, web>>
          /\ \A u : C(u).at \in LinkAt \ ({"link.insert"} \cup Linked)
      BY <1>5 DEF LinkCredential, LinkAt, ProviderAt, Linked
    <3> HIDE DEF C
    <3> QED
      BY <2>2, <3>1, <1>a
  <2> QED
    BY <1>5, <2>1, <2>2 DEF LinkCredential
<1>6. ASSUME NEW r \in Reqs, LinkMFA(r) \/ LinkSecret(r) PROVE Quiet
  BY <1>6, <1>a DEF LinkMFA, LinkSecret, LinkAuthenticated, LinkAt, ProviderAt, Linked
<1>7. ASSUME NEW r \in Reqs, LinkIdentityCheck(r) \/ LinkInsert(r) \/ LinkForget(r) PROVE Frame
  BY <1>7, <1>a, PendingShape DEF LinkIdentityCheck, LinkInsert, LinkForget, LinkIdentity, LinkAt, ProviderAt
<1>8. ASSUME NEW r \in Reqs, NEW o \in Slugs, ProviderOrg(r, o) PROVE Frame
  <2> DEFINE c == [at |-> "provider.session", identity |-> req[r].identity,
                   email |-> req[r].email, token |-> req[r].token, user |-> req[r].user,
                   code |-> req[r].code, due |-> req[r].due, org |-> o]
  <2>1. c.at \in LinkAt /\ req' = [req EXCEPT ![r] = c] /\ UNCHANGED <<db, web>>
    BY <1>8 DEF ProviderOrg, LinkAt, ProviderAt
  <2> QED
    BY <2>1, <1>a
<1>9. ASSUME NEW r \in Reqs, NEW s \in Sids, ProviderSession(r, s) PROVE Frame
  <2> DEFINE sess == [user |-> req[r].user, org |-> req[r].org,
                      provider |-> ProviderOf[req[r].identity]]
  <2>1. req[r] \in ProviderReq /\ req[r].org \in Slugs
    BY <1>9, Shapes DEF ProviderSession, ProviderAt, OnboardingInv, ReqOK, ProviderOK
  <2>2. sess \in Session /\ sess.provider \in Providers
    BY <2>1 DEF Session, ProviderReq
  <2>3. CreateSession(s, sess) /\ UNCHANGED db /\ Goto(r, "provider.record")
    BY <1>9 DEF ProviderSession
  <2> QED
    BY <2>2, <2>3, <1>a DEF LinkAt, ProviderAt
<1> QED
  BY <1>1, <1>2, <1>3, <1>4, <1>5, <1>6, <1>7, <1>8, <1>9, <1>b
     DEF ProviderAuthNext, LinkStep

\* The invite handlers leave credentials and identities alone.
LEMMA InviteFrame ==
    ASSUME OnboardingInv, InvitesNext
    PROVE  /\ UNCHANGED <<credentials, identities>>
           /\ OnlyMoves(InviteAt \cup AcceptAt)
           /\ TablesMove({"invite"})
<1> DEFINE Frame == /\ UNCHANGED <<credentials, identities>>
                    /\ OnlyMoves(InviteAt \cup AcceptAt)
                    /\ TablesMove({"invite"})
<1>0. RepoTypeOK /\ WebTypeOK /\ ReqTypeOK
  BY DEF OnboardingInv, TypeOK, WebTypeOK, ReqTypeOK
<1> USE <1>0, WebFrame, ReqFrame
<1>a. UNCHANGED db => UNCHANGED <<credentials, identities>>
  BY DEF db
<1>1. ASSUME NEW r \in Reqs, NEW s \in Sids, NEW e \in EmailInputs, NEW role \in RoleInputs,
             InviteBegin(r, s, e, role)
      PROVE  Frame
  BY <1>1, <1>a DEF InviteBegin, InviteAt
<1>2. ASSUME NEW r \in Reqs, NEW t \in Tokens, InviteCreate(r, t) \/ AcceptLookup(r, t)
      PROVE  Frame
  BY <1>2, <1>a DEF InviteCreate, CreateInvite, AcceptLookup, AcceptAt
<1>3. ASSUME NEW r \in Reqs, InviteRole(r) \/ AcceptUser(r) \/ AcceptUpsert(r)
                             \/ AcceptMember(r) \/ AcceptUse(r)
      PROVE  Frame
  BY <1>3, <1>a DEF InviteRole, AcceptUser, AcceptUpsert, AcceptMember, AcceptUse, UpsertUser,
                    EnsureMembership, UseInvite, InviteAt, AcceptAt
<1>4. ASSUME NEW r \in Reqs, NEW s \in Sids, AcceptSession(r, s) PROVE Frame
  <2> DEFINE inv == invites[req[r].token]
             sess == [user |-> inv.email, org |-> inv.org, provider |-> "invite"]
  <2>1. inv \in Invite
    BY <1>4, Shapes DEF AcceptSession, AcceptAt, AcceptReq, OnboardingInv, ReqOK, AcceptOK,
       RepoTypeOK
  <2>2. sess \in Session /\ CreateSession(s, sess) /\ Finish(r) /\ UNCHANGED db
    BY <1>4, <2>1 DEF AcceptSession, Session, Invite
  <2> QED
    BY <2>2, <1>a
<1> QED
  BY <1>1, <1>2, <1>3, <1>4 DEF InvitesNext

\* Failures, expiries, crashes and steps of nobody only take away.
EnvironmentStep ==
    \/ \E r \in Reqs : RequestFails(r)
    \/ \E s \in Sids : SessionExpires(s)
    \/ \E t \in Tokens : InviteExpires(t)
    \/ \E t \in LinkTokens : PendingExpires(t)
    \/ Crash \/ UNCHANGED vars

LEMMA EnvironmentFrame ==
    ASSUME OnboardingInv, EnvironmentStep
    PROVE  /\ UNCHANGED <<users, credentials, identities>>
           /\ \A t \in Tokens :
                 \/ invites'[t] = invites[t]
                 \/ invites'[t] = [invites[t] EXCEPT !.lapsed = TRUE] /\ invites[t] # None
           /\ OnlyMoves({})
           /\ TablesMove({})
<1>0. RepoTypeOK /\ WebTypeOK /\ ReqTypeOK
  BY DEF OnboardingInv, TypeOK, WebTypeOK, ReqTypeOK
<1> USE <1>0, WebFrame, ReqFrame
<1>1. ASSUME NEW t \in Tokens, InviteExpires(t)
      PROVE  /\ UNCHANGED <<users, credentials, identities, req, web>>
             /\ \A x \in Tokens :
                   \/ invites'[x] = invites[x]
                   \/ invites'[x] = [invites[x] EXCEPT !.lapsed = TRUE] /\ invites[x] # None
  BY <1>1 DEF InviteExpires, InviteLapses, RepoTypeOK
<1>2. ASSUME NEW r \in Reqs, RequestFails(r) PROVE OnlyMoves({}) /\ UNCHANGED <<db, web>>
  BY <1>2 DEF RequestFails
<1>3. ASSUME NEW s \in Sids, SessionExpires(s) PROVE TablesMove({}) /\ UNCHANGED <<db, req>>
  BY <1>3 DEF SessionExpires
<1>4. ASSUME NEW t \in LinkTokens, PendingExpires(t)
      PROVE  TablesMove({}) /\ UNCHANGED <<db, req>>
  BY <1>4 DEF PendingExpires
<1>5. ASSUME Crash PROVE TablesMove({}) /\ OnlyMoves({}) /\ UNCHANGED db
  BY <1>5 DEF Crash, OnlyMoves, Idle
<1>6. ASSUME UNCHANGED vars PROVE UNCHANGED <<db, req, web>>
  BY <1>6 DEF vars
<1>7. UNCHANGED db => UNCHANGED <<users, credentials, identities, invites>>
  BY DEF db
<1>8. UNCHANGED req => OnlyMoves({})
  BY DEF OnlyMoves
<1> QED
  BY <1>1, <1>2, <1>3, <1>4, <1>5, <1>6, <1>7, <1>8 DEF EnvironmentStep

LEMMA StepKinds ==
    [Next]_vars => LocalAuthNext \/ InvitesNext \/ ProviderAuthNext \/ EnvironmentStep
BY DEF Next, EnvironmentStep

-----------------------------------------------------------------------------
(* What the code does not guarantee, under exactly what it would take. *)

\* One invite is accepted by one request at a time.
Accepting == {"accept.user", "accept.upsert", "accept.member", "accept.use"}
NoTwoAcceptances ==
    \A q, r \in Reqs :
        req[q].at \in Accepting /\ req[r].at \in Accepting /\ req[q].token = req[r].token
            => q = r

UnusedUntilUse == \A r \in Reqs : req[r].at \in Accepting => ~invites[req[r].token].used

\* The invite an acceptance is about is of those there are.
LEMMA AcceptingShape ==
    ASSUME OnboardingInv, NEW r \in Reqs, req[r].at \in Accepting
    PROVE  req[r] \in AcceptReq /\ req[r].token \in Tokens /\ invites[req[r].token] \in Invite
<1>1. req[r].at \in AcceptAt /\ ReqTypeOK /\ RepoTypeOK
  BY DEF Accepting, AcceptAt, OnboardingInv, TypeOK, ReqTypeOK
<1>2. req[r] \in AcceptReq /\ req[r].token \in Tokens
  BY <1>1, Shapes DEF AcceptReq
<1> QED
  BY <1>1, <1>2 DEF OnboardingInv, ReqOK, AcceptOK, RepoTypeOK

\* Requests that have only moved elsewhere, over invites that have only lapsed.
LEMMA UnusedKept ==
    ASSUME OnboardingInv, UnusedUntilUse, NEW steps, OnlyMoves(steps), steps \cap Accepting = {},
           \A t \in Tokens : \/ invites'[t] = invites[t]
                             \/ invites'[t] = [invites[t] EXCEPT !.lapsed = TRUE]
    PROVE  UnusedUntilUse'
<1> SUFFICES ASSUME NEW r \in Reqs, req'[r].at \in Accepting
             PROVE  ~invites'[req'[r].token].used
  BY DEF UnusedUntilUse
<1>1. req'[r] = req[r] /\ req[r].at \in Accepting
  BY DEF OnlyMoves, Accepting
<1>2. ~invites[req[r].token].used /\ invites[req[r].token] \in Invite /\ req[r].token \in Tokens
  BY <1>1, AcceptingShape DEF UnusedUntilUse
<1>3. [invites[req[r].token] EXCEPT !.lapsed = TRUE].used = invites[req[r].token].used
  BY <1>2 DEF Invite
<1> QED
  BY <1>1, <1>2, <1>3

LEMMA UnusedStep ==
    ASSUME OnboardingInv, UnusedUntilUse, NoTwoAcceptances, [Next]_vars
    PROVE  UnusedUntilUse'
<1>0. TypeOK /\ RepoTypeOK /\ ReqTypeOK
  BY DEF OnboardingInv, TypeOK, ReqTypeOK
<1> DEFINE Disjoint(steps) == steps \cap Accepting = {}
<1>1. Disjoint(LocalAt) /\ Disjoint(LocalAt \ {"password.update"}) /\ Disjoint(LinkAt)
      /\ Disjoint(InviteAt) /\ Disjoint({}) /\ Disjoint({"accept.session"})
      /\ Disjoint({"password.update", "password.create"})
  BY DEF LocalAt, LinkAt, SignupAt, LoginAt, PasswordAt, ProviderAt, InviteAt, Accepting
<1>2. CASE LocalAuthNext
  <2>1. ASSUME NEW r \in Reqs, PasswordFind(r)
        PROVE  OnlyMoves({"password.update", "password.create"})
    BY <2>1, <1>0, ReqFrame DEF PasswordFind
  <2> QED
    BY <1>1, <1>2, <2>1, LocalFrame, UnusedKept
<1>3. CASE ProviderAuthNext
  BY <1>1, <1>3, ProviderFrame, UnusedKept
<1>4. CASE EnvironmentStep
  BY <1>1, <1>4, EnvironmentFrame, UnusedKept
<1>5. ASSUME NEW r \in Reqs,
             \/ InviteRole(r)
             \/ \E s \in Sids, e \in EmailInputs, role \in RoleInputs : InviteBegin(r, s, e, role)
             \/ \E s \in Sids : AcceptSession(r, s)
      PROVE  UnusedUntilUse'
  <2>1. OnlyMoves(InviteAt) /\ invites' = invites
    BY <1>0, <1>5, ReqFrame DEF InviteRole, InviteBegin, AcceptSession, InviteAt, db
  <2> QED
    BY <1>1, <2>1, UnusedKept
<1>6. ASSUME NEW r \in Reqs, NEW t \in Tokens, InviteCreate(r, t) PROVE UnusedUntilUse'
  <2> SUFFICES ASSUME NEW q \in Reqs, req'[q].at \in Accepting
               PROVE  ~invites'[req'[q].token].used
    BY DEF UnusedUntilUse
  <2>1. req'[q] = req[q] /\ req[q].at \in Accepting
    BY <1>0, <1>6, Moves DEF InviteCreate, Idle, Accepting
  <2>2. invites[req[q].token] # None /\ req[q].token \in Tokens
    BY <2>1, AcceptingShape
  <2>3. invites'[req[q].token] = invites[req[q].token]
    BY <1>0, <1>6, <2>2 DEF InviteCreate, CreateInvite, db, RepoTypeOK
  <2> QED
    BY <2>1, <2>3 DEF UnusedUntilUse
<1>7. ASSUME NEW r \in Reqs, NEW t \in Tokens, AcceptLookup(r, t) PROVE UnusedUntilUse'
  <2>1. /\ req'[r] = [at |-> "accept.user", token |-> t]
        /\ \A q \in Reqs \ {r} : req'[q] = req[q]
        /\ invites' = invites /\ ~invites[t].used
    BY <1>0, <1>7, Moves DEF AcceptLookup, db
  <2> QED
    BY <2>1 DEF UnusedUntilUse
<1>8. ASSUME NEW r \in Reqs, AcceptUser(r) \/ AcceptUpsert(r) \/ AcceptMember(r)
      PROVE  UnusedUntilUse'
  <2>0. req[r].at \in Accepting
    BY <1>8 DEF AcceptUser, AcceptUpsert, AcceptMember, Accepting
  <2>1. /\ req'[r].token = req[r].token
        /\ \A q \in Reqs \ {r} : req'[q] = req[q]
        /\ invites' = invites
    BY <1>0, <1>8, <2>0, AcceptingShape, GoesOn
       DEF AcceptUser, AcceptUpsert, AcceptMember, UpsertUser, EnsureMembership, db
  <2> QED
    BY <2>0, <2>1 DEF UnusedUntilUse
<1>9. ASSUME NEW r \in Reqs, AcceptUse(r) PROVE UnusedUntilUse'
  <2> SUFFICES ASSUME NEW q \in Reqs, req'[q].at \in Accepting
               PROVE  ~invites'[req'[q].token].used
    BY DEF UnusedUntilUse
  <2>1. req[r].at \in Accepting /\ req[r] \in AcceptReq
    BY <1>9, AcceptingShape DEF AcceptUse, Accepting
  <2>2. /\ req'[r].at = "accept.session"
        /\ \A p \in Reqs \ {r} : req'[p] = req[p]
    BY <1>0, <1>9, GoesOn DEF AcceptUse
  <2>3. q # r /\ req'[q] = req[q] /\ req[q].at \in Accepting
    BY <2>2 DEF Accepting
  <2>4. req[q].token # req[r].token
    BY <2>1, <2>3 DEF NoTwoAcceptances
  <2>5. invites'[req[q].token] = invites[req[q].token]
    BY <1>0, <1>9, <2>3, <2>4, AcceptingShape DEF AcceptUse, UseInvite, RepoTypeOK
  <2> QED
    BY <2>3, <2>5 DEF UnusedUntilUse
<1> QED
  BY <1>2, <1>3, <1>4, <1>5, <1>6, <1>7, <1>8, <1>9, StepKinds DEF InvitesNext

\* As long as no two requests accept the same invite at the same time, an invite
\* is used once: nothing but that overlap makes it more than a one-time token.
THEOREM OneTimeUnlessTwoAccept ==
    Spec /\ []NoTwoAcceptances => InviteIsOneTime
<1>1. Init => UnusedUntilUse
  BY DEF Init, Idle, UnusedUntilUse, Accepting
<1>2. OnboardingInv /\ UnusedUntilUse /\ NoTwoAcceptances /\ [Next]_vars => UnusedUntilUse'
  BY UnusedStep
<1>3. UnusedUntilUse => [\A r \in Reqs : AcceptUse(r) => ~invites[req[r].token].used]_vars
  BY DEF UnusedUntilUse, AcceptUse, Accepting
<1> QED
  BY <1>1, <1>2, <1>3, OnboardingInvariant, PTL DEF Spec, InviteIsOneTime

-----------------------------------------------------------------------------
\* No account has the email of another account as its username.
UsernamesAreOwn ==
    \A u, v \in Names : UserExists(u) /\ HasUsername(v, u) => v = u

UpdatesOwnRow ==
    \A r \in Reqs : req[r].at = "password.update" => credentials[req[r].user] # None

LEMMA UpdatesStep ==
    ASSUME OnboardingInv, UpdatesOwnRow, UsernamesAreOwn, [Next]_vars
    PROVE  UpdatesOwnRow'
<1>0. TypeOK /\ ReqTypeOK /\ Grows
  BY TypeStep DEF OnboardingInv, TypeOK, ReqTypeOK
<1>1. ASSUME NEW steps, OnlyMoves(steps), "password.update" \notin steps
      PROVE  UpdatesOwnRow'
  <2> SUFFICES ASSUME NEW r \in Reqs, req'[r].at = "password.update"
               PROVE  credentials'[req'[r].user] # None
    BY DEF UpdatesOwnRow
  <2>1. req'[r] = req[r]
    BY <1>1 DEF OnlyMoves
  <2>2. req[r].user \in Names
    BY <1>0, <2>1, Shapes DEF PasswordAt, PasswordReq
  <2> QED
    BY <1>0, <2>1, <2>2 DEF UpdatesOwnRow, Grows, DbGrows
<1>2. ASSUME NEW r \in Reqs, PasswordFind(r) PROVE UpdatesOwnRow'
  <2>1. req[r] \in PasswordReq /\ req[r].at \in PasswordAt
    BY <1>0, <1>2, Shapes DEF PasswordFind, PasswordAt
  <2>2. /\ req'[r].user = req[r].user
        /\ \A q \in Reqs \ {r} : req'[q] = req[q]
        /\ credentials' = credentials
    BY <1>0, <1>2, <2>1, GoesOn DEF PasswordFind, db
  <2>3. CASE Goto(r, "password.update") /\ \E v \in Names : HasUsername(v, req[r].user)
    <3>1. req[r].user \in Names /\ UserExists(req[r].user)
      BY <2>1 DEF PasswordReq, OnboardingInv, ReqOK, PasswordOK
    <3>2. credentials[req[r].user] # None
      BY <2>3, <3>1 DEF UsernamesAreOwn, HasUsername
    <3> QED
      BY <2>2, <3>2 DEF UpdatesOwnRow
  <2>4. CASE Goto(r, "password.create")
    <3>1. req'[r].at = "password.create"
      BY <1>0, <2>4, GoesOn
    <3> QED
      BY <2>2, <3>1 DEF UpdatesOwnRow
  <2> QED
    BY <1>2, <2>3, <2>4 DEF PasswordFind
<1>3. /\ "password.update" \notin LocalAt \ {"password.update"}
      /\ "password.update" \notin InviteAt \cup AcceptAt
      /\ "password.update" \notin LinkAt /\ "password.update" \notin {}
  BY DEF InviteAt, AcceptAt, LinkAt, ProviderAt
<1> QED
  BY <1>1, <1>2, <1>3, StepKinds, LocalFrame, InviteFrame, ProviderFrame, EnvironmentFrame

\* As long as no account has another one's email as its username, whoever sets a
\* password can log in with it: nothing but such a name makes the update miss.
THEOREM PasswordSetUnlessNameTaken ==
    Spec /\ []UsernamesAreOwn => SetPasswordTakesEffect
<1>1. Init => UpdatesOwnRow
  BY DEF Init, Idle, UpdatesOwnRow
<1>2. OnboardingInv /\ UpdatesOwnRow /\ UsernamesAreOwn /\ [Next]_vars => UpdatesOwnRow'
  BY UpdatesStep
<1>3. ASSUME OnboardingInv, UpdatesOwnRow, NEW r \in Reqs, PasswordUpdate(r)
      PROVE  LET row == credentials'[req[r].user] IN
             row # None /\ VerifyPassword(req[r].pw, row.hash)
  <2>1. req[r] \in PasswordReq /\ req[r].at = "password.update"
    BY <1>3, Shapes DEF PasswordUpdate, PasswordAt, OnboardingInv, TypeOK, ReqTypeOK
  <2>2. credentials[req[r].user] \in Credential /\ req[r].user \in Names
    BY <1>3, <2>1 DEF UpdatesOwnRow, PasswordReq, OnboardingInv, TypeOK, RepoTypeOK
  <2>3. credentials'[req[r].user] =
           [name |-> credentials[req[r].user].name, hash |-> HashPassword(req[r].pw)]
    BY <1>3, <2>2 DEF PasswordUpdate, UpdateLocalPasswordHash, OnboardingInv, TypeOK, RepoTypeOK
  <2>4. credentials'[req[r].user] \in Credential
    BY <2>1, <2>2, <2>3 DEF Credential, PasswordReq
  <2> QED
    BY <2>3, <2>4 DEF VerifyPassword
<1>4. OnboardingInv /\ UpdatesOwnRow =>
        [\A r \in Reqs : PasswordUpdate(r) =>
            LET row == credentials'[req[r].user] IN
            row # None /\ VerifyPassword(req[r].pw, row.hash)]_vars
  BY <1>3
<1> QED
  BY <1>1, <1>2, <1>4, OnboardingInvariant, PTL DEF Spec, SetPasswordTakesEffect

-----------------------------------------------------------------------------
\* No two requests are about to link one identity to two users.
NoTwoLinks ==
    \A q, r \in Reqs :
        req[q].at = "link.insert" /\ req[r].at = "link.insert"
            /\ req[q].identity = req[r].identity => req[q].user = req[r].user

\* Who is about to link an identity will get it, and who has linked it has it.
HasItsLink(c) ==
    /\ c.at = "link.insert" => identities[c.identity] \in {None, c.user}
    /\ c.at \in Linked => identities[c.identity] = c.user
LinkInv == ProviderSessionsAreLinked /\ \A r \in Reqs : HasItsLink(req[r])

LEMMA LinkShape ==
    ASSUME ReqTypeOK, NEW r \in Reqs, req[r].at \in {"link.identity", "link.insert"} \cup Linked
    PROVE  req[r] \in ProviderReq /\ req[r].identity \in Identities /\ req[r].user \in Names
BY Shapes DEF Linked, ProviderAt, ProviderReq

\* Requests and sessions that only move elsewhere keep their links.
LEMMA LinksKept ==
    ASSUME OnboardingInv, Grows, LinkInv, NEW steps, OnlyMoves(steps),
           steps \cap ({"link.insert"} \cup Linked) = {}, UNCHANGED identities
    PROVE  \A r \in Reqs : HasItsLink(req[r])'
<1> SUFFICES ASSUME NEW r \in Reqs PROVE HasItsLink(req[r])'
  OBVIOUS
<1>1. CASE req'[r] = req[r]
  BY <1>1 DEF LinkInv, HasItsLink
<1>2. CASE req'[r].at \in steps \cup {"idle"}
  BY <1>2 DEF HasItsLink, Linked
<1> QED
  BY <1>1, <1>2 DEF OnlyMoves

LEMMA LinkedSessionsKept ==
    ASSUME OnboardingInv, Grows, LinkInv, NEW kinds, TablesMove(kinds), kinds \cap Providers = {}
    PROVE  ProviderSessionsAreLinked'
<1> SUFFICES ASSUME NEW s \in Sids, sessions'[s] # None, sessions'[s].provider \in Providers
             PROVE  \E i \in Identities : /\ ProviderOf[i] = sessions'[s].provider
                                          /\ identities'[i] = sessions'[s].user
  BY DEF ProviderSessionsAreLinked
<1>1. sessions'[s] = sessions[s]
  BY SessionsChange DEF OnboardingInv, TypeOK, WebTypeOK
<1>2. PICK i \in Identities : /\ ProviderOf[i] = sessions[s].provider
                              /\ identities[i] = sessions[s].user
  BY <1>1 DEF LinkInv, ProviderSessionsAreLinked
<1>3. sessions[s].user \in Names
  BY <1>1 DEF OnboardingInv, TypeOK, Table!TableTypeOK, Session
<1>4. identities'[i] = identities[i]
  BY <1>2, <1>3 DEF Grows, DbGrows
<1> QED
  BY <1>1, <1>2, <1>4

LEMMA LinkInvStep ==
    ASSUME ~QueryErrors, OnboardingInv, LinkInv, NoTwoLinks, [Next]_vars
    PROVE  LinkInv'
<1>0. TypeOK /\ ReqTypeOK /\ RepoTypeOK /\ WebTypeOK /\ Grows
  BY TypeStep DEF OnboardingInv, TypeOK, ReqTypeOK, WebTypeOK
<1> DEFINE Elsewhere(steps) == steps \cap ({"link.insert"} \cup Linked) = {}
           Foreign(kinds) == kinds \cap Providers = {}
           Reqs1 == \A r \in Reqs : HasItsLink(req[r])'
<1>1. /\ Elsewhere(LocalAt \ {"password.update"}) /\ Elsewhere(InviteAt \cup AcceptAt)
      /\ Elsewhere(LinkAt \ ({"link.insert"} \cup Linked)) /\ Elsewhere({})
      /\ Elsewhere({"password.update", "password.create"})
      /\ Foreign({"local"}) /\ Foreign({"invite"}) /\ Foreign({})
  BY DEF LocalAt, SignupAt, LoginAt, PasswordAt, InviteAt, AcceptAt, Linked, Providers
<1>2. ASSUME Reqs1, ProviderSessionsAreLinked' PROVE LinkInv'
  BY <1>2 DEF LinkInv
<1> HIDE DEF Reqs1
<1>3. CASE LocalAuthNext
  <2>1. ASSUME NEW r \in Reqs, PasswordFind(r)
        PROVE  OnlyMoves({"password.update", "password.create"})
    BY <2>1, <1>0, ReqFrame DEF PasswordFind
  <2>2. Reqs1
    BY <1>0, <1>1, <1>3, <2>1, LocalFrame, LinksKept DEF Reqs1
  <2>3. ProviderSessionsAreLinked'
    BY <1>0, <1>1, <1>3, LocalFrame, LinkedSessionsKept
  <2> QED
    BY <1>2, <2>2, <2>3
<1>4. CASE InvitesNext
  <2>1. Reqs1
    BY <1>0, <1>1, <1>4, InviteFrame, LinksKept DEF Reqs1
  <2>2. ProviderSessionsAreLinked'
    BY <1>0, <1>1, <1>4, InviteFrame, LinkedSessionsKept
  <2> QED
    BY <1>2, <2>1, <2>2
<1>5. CASE EnvironmentStep
  <2>1. Reqs1
    BY <1>0, <1>1, <1>5, EnvironmentFrame, LinksKept DEF Reqs1
  <2>2. ProviderSessionsAreLinked'
    BY <1>0, <1>1, <1>5, EnvironmentFrame, LinkedSessionsKept
  <2> QED
    BY <1>2, <2>1, <2>2
<1>6. CASE /\ UNCHANGED identities
           /\ OnlyMoves(LinkAt \ ({"link.insert"} \cup Linked))
           /\ TablesMove({})
  <2>1. Reqs1
    BY <1>0, <1>1, <1>6, LinksKept DEF Reqs1
  <2>2. ProviderSessionsAreLinked'
    BY <1>0, <1>1, <1>6, LinkedSessionsKept
  <2> QED
    BY <1>2, <2>1, <2>2
<1>7. ASSUME NEW r \in Reqs, HasItsLink(req[r])',
             \A q \in Reqs \ {r} : req'[q] = req[q], UNCHANGED identities
      PROVE  Reqs1
  BY <1>7 DEF Reqs1, LinkInv, HasItsLink
<1>8. UNCHANGED web => ProviderSessionsAreLinked'
  BY <1>0, <1>1, WebFrame, LinkedSessionsKept
<1>9. ASSUME NEW r \in Reqs, NEW i \in Identities, NEW e \in EmailInputs, CallbackBegin(r, i, e)
      PROVE  LinkInv'
  <2>0. UNCHANGED identities /\ UNCHANGED web
    BY <1>9 DEF CallbackBegin, db
  <2>1. CASE Start(r, [at |-> "callback.email", identity |-> i, email |-> Normal[e]])
    <3>1. req'[r].at = "callback.email" /\ \A q \in Reqs \ {r} : req'[q] = req[q]
      BY <1>0, <2>1, Moves
    <3>2. HasItsLink(req[r])'
      BY <3>1 DEF HasItsLink, Linked
    <3> QED
      BY <1>2, <1>7, <1>8, <2>0, <3>1, <3>2
  <2>2. CASE Start(r, [at |-> "provider.org", identity |-> i, email |-> identities[i],
                       token |-> None, user |-> identities[i], code |-> None,
                       due |-> None, org |-> None])
    <3>1. /\ req'[r] = [at |-> "provider.org", identity |-> i, email |-> identities[i],
                        token |-> None, user |-> identities[i], code |-> None,
                        due |-> None, org |-> None]
          /\ \A q \in Reqs \ {r} : req'[q] = req[q]
      BY <1>0, <2>2, Moves
    <3>2. HasItsLink(req[r])'
      BY <2>0, <3>1 DEF HasItsLink, Linked
    <3> QED
      BY <1>2, <1>7, <1>8, <2>0, <3>1, <3>2
  <2> QED
    BY <1>9, <2>1, <2>2 DEF CallbackBegin
<1>10. ASSUME NEW r \in Reqs, LinkIdentityCheck(r) PROVE LinkInv'
  <2>0. UNCHANGED identities /\ UNCHANGED web /\ req[r] \in ProviderReq
    BY <1>0, <1>10, LinkShape DEF LinkIdentityCheck, db
  <2>1. CASE Finish(r)
    <3>1. req'[r].at = "idle" /\ \A q \in Reqs \ {r} : req'[q] = req[q]
      BY <1>0, <2>1, Moves DEF Idle
    <3>2. HasItsLink(req[r])'
      BY <3>1 DEF HasItsLink, Linked
    <3> QED
      BY <1>2, <1>7, <1>8, <2>0, <3>1, <3>2
  <2>2. CASE identities[req[r].identity] \in {None, req[r].user} /\ Goto(r, "link.insert")
    <3>1. /\ req'[r].at = "link.insert" /\ req'[r].user = req[r].user
          /\ req'[r].identity = req[r].identity
          /\ \A q \in Reqs \ {r} : req'[q] = req[q]
      BY <1>0, <2>0, <2>2, GoesOn
    <3>2. HasItsLink(req[r])'
      BY <2>0, <2>2, <3>1 DEF HasItsLink, Linked
    <3> QED
      BY <1>2, <1>7, <1>8, <2>0, <3>1, <3>2
  <2> QED
    BY <1>10, <2>1, <2>2 DEF LinkIdentityCheck
<1>11. ASSUME NEW r \in Reqs, LinkInsert(r) PROVE LinkInv'
  <2> DEFINE i == req[r].identity
             u == req[r].user
  <2>0. UNCHANGED web /\ req[r] \in ProviderReq /\ i \in Identities /\ u \in Names
        /\ req[r].at = "link.insert"
    BY <1>0, <1>11, LinkShape DEF LinkInsert
  <2>1. /\ req'[r].at = "link.forget" /\ req'[r].user = u /\ req'[r].identity = i
        /\ \A q \in Reqs \ {r} : req'[q] = req[q]
    BY <1>0, <1>11, <2>0, GoesOn DEF LinkInsert
  <2>2. identities[i] \in {None, u}
    BY <2>0 DEF LinkInv, HasItsLink
  <2>3. identities'[i] = u /\ \A j \in Identities \ {i} : identities'[j] = identities[j]
    BY <1>0, <1>11, <2>0, <2>2 DEF LinkInsert, LinkIdentity, RepoTypeOK
  <2>4. ASSUME NEW q \in Reqs PROVE HasItsLink(req[q])'
    <3>1. CASE q = r
      BY <2>1, <2>3, <3>1 DEF HasItsLink, Linked
    <3>2. CASE q # r /\ req[q].at \in {"link.insert"} \cup Linked
      <4>1. req'[q] = req[q] /\ req[q].identity \in Identities /\ req[q].user \in Names
        BY <1>0, <2>1, <3>2, LinkShape
      <4>2. CASE req[q].at = "link.insert" /\ req[q].identity = i
        BY <2>0, <2>3, <4>1, <4>2 DEF NoTwoLinks, HasItsLink, Linked
      <4>3. CASE req[q].at = "link.insert" /\ req[q].identity # i
        BY <2>3, <4>1, <4>3 DEF LinkInv, HasItsLink, Linked
      <4>4. CASE req[q].at \in Linked
        <5>1. identities[req[q].identity] = req[q].user
          BY <4>4 DEF LinkInv, HasItsLink
        <5>2. identities'[req[q].identity] = req[q].user
          BY <1>0, <4>1, <5>1 DEF Grows, DbGrows
        <5> QED
          BY <4>1, <4>4, <5>2 DEF HasItsLink, Linked
      <4> QED
        BY <3>2, <4>2, <4>3, <4>4
    <3>3. CASE q # r /\ req[q].at \notin {"link.insert"} \cup Linked
      BY <2>1, <3>3 DEF HasItsLink
    <3> QED
      BY <3>1, <3>2, <3>3
  <2> QED
    BY <1>2, <1>8, <2>0, <2>4 DEF Reqs1
<1>12. ASSUME NEW r \in Reqs, LinkForget(r) PROVE LinkInv'
  <2>0. UNCHANGED identities /\ req[r] \in ProviderReq /\ req[r].at = "link.forget"
    BY <1>0, <1>12, LinkShape DEF LinkForget, Linked, db
  <2>1. /\ req'[r].at = "provider.org" /\ req'[r].user = req[r].user
        /\ req'[r].identity = req[r].identity
        /\ \A q \in Reqs \ {r} : req'[q] = req[q]
    BY <1>0, <1>12, <2>0, GoesOn DEF LinkForget
  <2>2. HasItsLink(req[r])'
    BY <2>0, <2>1 DEF LinkInv, HasItsLink, Linked
  <2>3. ProviderSessionsAreLinked'
    BY <1>0, <1>1, <1>12, PendingShape, WebFrame, LinkedSessionsKept DEF LinkForget
  <2> QED
    BY <1>2, <1>7, <2>0, <2>1, <2>2, <2>3
<1>13. ASSUME NEW r \in Reqs, NEW o \in Slugs, ProviderOrg(r, o) PROVE LinkInv'
  <2>0. UNCHANGED identities /\ UNCHANGED web /\ req[r].at = "provider.org"
    BY <1>13 DEF ProviderOrg, db
  <2>1. /\ req'[r].at = "provider.session" /\ req'[r].user = req[r].user
        /\ req'[r].identity = req[r].identity
        /\ \A q \in Reqs \ {r} : req'[q] = req[q]
    BY <1>0, <1>13 DEF ProviderOrg, ReqTypeOK
  <2>2. HasItsLink(req[r])'
    BY <2>0, <2>1 DEF LinkInv, HasItsLink, Linked
  <2> QED
    BY <1>2, <1>7, <1>8, <2>0, <2>1, <2>2
<1>14. ASSUME NEW r \in Reqs, NEW s \in Sids, ProviderSession(r, s) PROVE LinkInv'
  <2> DEFINE i == req[r].identity
             sess == [user |-> req[r].user, org |-> req[r].org, provider |-> ProviderOf[i]]
  <2>0. UNCHANGED identities /\ req[r] \in ProviderReq /\ i \in Identities
        /\ req[r].at = "provider.session"
    BY <1>0, <1>14, LinkShape DEF ProviderSession, Linked, db
  <2>1. req'[r].at = "provider.record" /\ \A q \in Reqs \ {r} : req'[q] = req[q]
    BY <1>0, <1>14, GoesOn DEF ProviderSession
  <2>2. HasItsLink(req[r])'
    BY <2>1 DEF HasItsLink, Linked
  <2>3. sessions' = [sessions EXCEPT ![s] = sess]
    BY <1>14 DEF ProviderSession, CreateSession, Table!Create
  <2>4. identities[i] = req[r].user
    BY <2>0 DEF LinkInv, HasItsLink, Linked
  <2>5. ProviderSessionsAreLinked'
    <3> SUFFICES ASSUME NEW p \in Sids, sessions'[p] # None, sessions'[p].provider \in Providers
                 PROVE  \E j \in Identities : /\ ProviderOf[j] = sessions'[p].provider
                                              /\ identities'[j] = sessions'[p].user
      BY DEF ProviderSessionsAreLinked
    <3>1. CASE p = s
      <4>1. sessions'[p] = sess
        BY <1>0, <2>3, <3>1 DEF WebTypeOK, Table!TableTypeOK
      <4> QED
        BY <2>0, <2>4, <4>1
    <3>2. CASE p # s
      <4>1. sessions'[p] = sessions[p]
        BY <1>0, <2>3, <3>2 DEF WebTypeOK, Table!TableTypeOK
      <4> QED
        BY <2>0, <4>1 DEF LinkInv, ProviderSessionsAreLinked
    <3> QED
      BY <3>1, <3>2
  <2> QED
    BY <1>2, <1>7, <2>0, <2>1, <2>2, <2>5
<1> QED
  BY <1>3, <1>4, <1>5, <1>6, <1>9, <1>10, <1>11, <1>12, <1>13, <1>14, StepKinds, ProviderFrame
     DEF LinkStep

\* As long as queries answer and no two requests are about to link one identity
\* to two users, a provider session belongs to a user with a linked identity of
\* that provider, also when the provider changes the email of an identity:
\* nothing but the race for an identity lets a user in without a link.
THEOREM LinkedUnlessTwoLink ==
    ASSUME ~QueryErrors PROVE Spec /\ []NoTwoLinks => []ProviderSessionsAreLinked
<1>1. Init => LinkInv
  BY DEF Init, Idle, LinkInv, HasItsLink, Linked, ProviderSessionsAreLinked, Table!TableInit
<1>2. OnboardingInv /\ LinkInv /\ NoTwoLinks /\ [Next]_vars => LinkInv'
  BY LinkInvStep
<1>3. LinkInv => ProviderSessionsAreLinked
  BY DEF LinkInv
<1> QED
  BY <1>1, <1>2, <1>3, OnboardingInvariant, PTL DEF Spec

-----------------------------------------------------------------------------
\* The handlers use the session store and the pending links only as the tables
\* of module SessionTable: ids are handed out once, what is gone stays gone, and
\* nothing but well-formed entries goes in.  For sessions, module
\* SessionStoreProofs shows that the store with its locks implements that table.
THEOREM ServiceUsesTables == Spec => Table!TableSpec /\ Pending!TableSpec
<1>1. Init => Table!TableInit /\ Pending!TableInit
  BY DEF Init
<1>2. ASSUME NEW kinds, TablesMove(kinds)
      PROVE  [Table!TableNext]_sessionTable /\ [Pending!TableNext]_pendingTable
  BY <1>2 DEF TablesMove, Table!TableNext
<1>3. OnboardingInv /\ [Next]_vars =>
         [Table!TableNext]_sessionTable /\ [Pending!TableNext]_pendingTable
  BY <1>2, StepKinds, LocalFrame, InviteFrame, ProviderFrame, EnvironmentFrame
<1>4. OnboardingInv /\ [Next]_vars =>
         [Table!TableNext]_(Table!tableVars) /\ [Pending!TableNext]_(Pending!tableVars)
  BY <1>3 DEF Table!tableVars, Pending!tableVars, sessionTable, pendingTable
<1> QED
  BY <1>1, <1>4, OnboardingInvariant, PTL DEF Spec, Table!TableSpec, Pending!TableSpec

-----------------------------------------------------------------------------
\* A session that has ended.
Ended(s) == s \in issued /\ sessions[s] = None
Gone(t) == t \in handedOut /\ pending[t] = None

\* No session comes back: after a logout, an expiry or a crash its id finds
\* nothing for ever, whatever request is still under way with it.
THEOREM NoSessionReturns ==
    ASSUME NEW CONSTANT s \in Sids PROVE Spec => [](Ended(s) => []Ended(s))
<1>1. ASSUME Ended(s), [Table!TableNext]_(Table!tableVars), Table!TableTypeOK
      PROVE  Ended(s)'
  BY <1>1 DEF Ended, Table!TableNext, Table!tableVars, Table!Create, Table!Drop, Table!Forget,
              Table!TableTypeOK
<1>2. OnboardingInv => Table!TableTypeOK
  BY DEF OnboardingInv, TypeOK
<1> QED
  BY <1>1, <1>2, OnboardingInvariant, ServiceUsesTables, PTL DEF Table!TableSpec

\* Whoever is signed in to an organisation founded it, or was invited to it by
\* its founder: there is no other way in, whatever overlaps and fails.
SessionsAreEarned ==
    \A s \in Sids : sessions[s] # None =>
        LET sess == sessions[s] IN
        \/ founder[sess.org] = sess.user
        \/ \E t \in Tokens :
              /\ invites[t] # None
              /\ invites[t].org = sess.org /\ invites[t].email = sess.user
              /\ invites[t].inviter = founder[sess.org]

THEOREM OnlyInvitedSignIn == Spec => []SessionsAreEarned
<1>1. OnboardingInv => SessionsAreEarned
  <2> SUFFICES ASSUME OnboardingInv, NEW s \in Sids, sessions[s] # None
               PROVE  \/ founder[sessions[s].org] = sessions[s].user
                      \/ \E t \in Tokens :
                            /\ invites[t] # None
                            /\ invites[t].org = sessions[s].org
                            /\ invites[t].email = sessions[s].user
                            /\ invites[t].inviter = founder[sessions[s].org]
    BY DEF SessionsAreEarned
  <2>1. sessions[s].user \in Names /\ sessions[s].org \in Slugs
    BY DEF OnboardingInv, TypeOK, Table!TableTypeOK, Session
  <2>2. IsMember(sessions[s].org, sessions[s].user)
    BY DEF OnboardingInv, TablesOK, SessionsAreBacked
  <2> QED
    BY <2>1, <2>2 DEF OnboardingInv, TablesOK, RolesAreEarned
<1> QED
  BY <1>1, OnboardingInvariant, PTL
=============================================================================
