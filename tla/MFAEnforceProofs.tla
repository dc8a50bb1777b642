-------------------------- MODULE MFAEnforceProofs --------------------------
(***************************************************************************)
(* What the MFA gate achieves, for any number of users, sessions and       *)
(* concurrent requests: it is passed when a request begins, and what it    *)
(* asked for has to hold when the request writes.                          *)
(***************************************************************************)
EXTENDS OnboardingProofs

USE RepoConstants, RequestConstants, NoneIsNoEntry

-----------------------------------------------------------------------------
(* The inductive invariant. *)

Vouched(u) == HasTOTP(u) \/ \E i \in Identities : identities[i] = u

\* A request that passed the gate on a local session is of an enrolled user,
\* as long as that session is there to create the invite for.
GatePassed ==
    \A r \in Reqs : req[r].at \in InviteAt =>
        (sessions[req[r].sid] # None /\ sessions[req[r].sid].provider = "local"
            => HasTOTP(req[r].user))

\* The session of an acceptance is that of an invited user.
InviteSessionsInvited ==
    \A s \in Sids : sessions[s] # None /\ sessions[s].provider = "invite" =>
        \E t \in Tokens : /\ invites[t] # None
                          /\ invites[t].org = sessions[s].org
                          /\ invites[t].email = sessions[s].user

\* Of the invites there are, the inviters are vouched for.
GateInv ==
    /\ OnboardingInv
    /\ GatePassed /\ InviteSessionsInvited
    /\ \A t \in Tokens : invites[t] # None => Vouched(invites[t].inviter)

-----------------------------------------------------------------------------
(* Most steps concern neither invites nor the requests that create them. *)

NoNewInvite == \A t \in Tokens : invites'[t] # None => invites[t] # None
NoInviteSession ==
    \A s \in Sids : sessions'[s] # None /\ sessions'[s].provider = "invite" =>
        sessions'[s] = sessions[s]
NoInviteRequest ==
    \A r \in Reqs : req'[r].at \in InviteAt => req'[r] = req[r]
Apart == NoNewInvite /\ NoInviteSession /\ NoInviteRequest

LEMMA DbApart ==
    ASSUME RepoTypeOK
    PROVE  /\ UNCHANGED db => NoNewInvite
           /\ \A u : UpsertUser(u) => NoNewInvite
           /\ \A u, n, pw : CreateLocalCredential(u, n, pw) => NoNewInvite
           /\ \A u, pw : UpdateLocalPasswordHash(u, pw) => NoNewInvite
           /\ \A u, x : SetTOTPSecret(u, x) => NoNewInvite
           /\ \A o : CreateOrg(o) => NoNewInvite
           /\ \A o, u, role : EnsureMembership(o, u, role) => NoNewInvite
           /\ \A t : invites[t] # None /\ UseInvite(t) => NoNewInvite
           /\ \A t : InviteLapses(t) => NoNewInvite
           /\ \A n, b : RecordLoginAttempt(n, b) => NoNewInvite
           /\ \A u, i : LinkIdentity(u, i) => NoNewInvite
BY DEF RepoTypeOK, db, NoNewInvite, UpsertUser, CreateLocalCredential,
       UpdateLocalPasswordHash, SetTOTPSecret, CreateOrg, EnsureMembership, UseInvite,
       InviteLapses, RecordLoginAttempt, LinkIdentity

LEMMA WebApart ==
    ASSUME WebTypeOK
    PROVE  /\ UNCHANGED web => NoInviteSession
           /\ \A s, sess : sess.provider # "invite" /\ CreateSession(s, sess) => NoInviteSession
           /\ \A s : DropSession(s) => NoInviteSession
           /\ \A t, link : CreatePending(t, link) => NoInviteSession
           /\ \A t : DropPending(t) => NoInviteSession
           /\ Table!Forget => NoInviteSession
<1> USE DEF WebTypeOK, Table!TableTypeOK, web, sessionTable, NoInviteSession
<1>1. UNCHANGED web => NoInviteSession
  OBVIOUS
<1>2. ASSUME NEW s, NEW sess, sess.provider # "invite", CreateSession(s, sess)
      PROVE  NoInviteSession
  BY <1>2 DEF CreateSession, Table!Create
<1>3. ASSUME NEW s, DropSession(s) PROVE NoInviteSession
  BY <1>3 DEF DropSession, Table!Drop
<1>4. ASSUME NEW t, DropPending(t) \/ \E link : CreatePending(t, link) PROVE NoInviteSession
  BY <1>4 DEF DropPending, CreatePending
<1>5. Table!Forget => NoInviteSession
  BY DEF Table!Forget
<1> QED
  BY <1>1, <1>2, <1>3, <1>4, <1>5

LEMMA ReqApart ==
    ASSUME ReqTypeOK, NEW r \in Reqs
    PROVE  /\ UNCHANGED req => NoInviteRequest
           /\ Finish(r) => NoInviteRequest
           /\ \A at : at \notin InviteAt /\ Goto(r, at) => NoInviteRequest
           /\ \A c : c.at \notin InviteAt /\ Start(r, c) => NoInviteRequest
           /\ \A c : c.at \notin InviteAt /\ req' = [req EXCEPT ![r] = c] => NoInviteRequest
BY DEF ReqTypeOK, NoInviteRequest, Finish, Goto, Start, Idle, InviteAt, Request, SignupReq,
       LoginReq, TotpReq, PasswordReq, InviteReq, AcceptReq, CallbackReq, LinkReq, ProviderReq

LEMMA LocalApart ==
    ASSUME OnboardingInv, LocalAuthNext PROVE Apart
<1>0. RepoTypeOK /\ WebTypeOK /\ ReqTypeOK
  BY DEF OnboardingInv, TypeOK, WebTypeOK, ReqTypeOK
<1> USE <1>0, DbApart, WebApart, ReqApart DEF Apart
<1>1. ASSUME NEW r \in Reqs, NEW e \in EmailInputs, NEW n \in NameInputs,
             NEW pw \in Passwords \cup {Spaces}, NEW o \in SlugInputs,
             SignupBegin(r, e, n, pw, o)
      PROVE  Apart
  BY <1>1 DEF SignupBegin, InviteAt
<1>2. ASSUME NEW r \in Reqs, NEW n \in NameInputs, NEW pw \in Passwords,
             NEW code \in Secrets \cup {None}, NEW u \in Names, LoginBegin(r, n, pw, code, u)
      PROVE  Apart
  BY <1>2 DEF LoginBegin, InviteAt
<1>3. ASSUME NEW r \in Reqs, SignupCredential(r) \/ SignupOrgExists(r) \/ SignupOrgMissing(r)
      PROVE  Apart
  BY <1>3 DEF SignupCredential, SignupOrgExists, SignupOrgMissing, InviteAt
<1>4. ASSUME NEW r \in Reqs, SignupCreateOrg(r) \/ SignupMember(r) PROVE Apart
  BY <1>4 DEF SignupCreateOrg, SignupMember, InviteAt
<1>5. ASSUME NEW r \in Reqs, LoginFailure(r) \/ LoginMFA(r) \/ LoginSecret(r)
                             \/ LoginNoOrg(r) \/ LoginRecord(r)
      PROVE  Apart
  BY <1>5 DEF LoginFailure, LoginMFA, LoginSecret, LoginNoOrg, LoginRecord, InviteAt
<1>6. ASSUME NEW r \in Reqs, TotpStore(r) \/ PasswordFind(r) \/ PasswordUpdate(r)
                             \/ PasswordCreate(r)
      PROVE  Apart
  BY <1>6 DEF TotpStore, PasswordFind, PasswordUpdate, PasswordCreate, InviteAt
<1>7. ASSUME NEW r \in Reqs, NEW o \in Slugs, LoginOrg(r, o) PROVE Apart
  <2> DEFINE c == [at |-> "login.session", user |-> req[r].user, name |-> req[r].name,
                   code |-> req[r].code, due |-> req[r].due, org |-> o]
  <2>1. c.at \notin InviteAt /\ req' = [req EXCEPT ![r] = c] /\ UNCHANGED <<db, web>>
    BY <1>7 DEF LoginOrg, InviteAt
  <2> QED
    BY <2>1
<1>8. ASSUME NEW r \in Reqs, NEW s \in Sids, SignupSession(r, s) \/ LoginSession(r, s)
      PROVE  Apart
  <2> DEFINE sess == [user |-> req[r].user, org |-> req[r].org, provider |-> "local"]
  <2>1. /\ sess.provider # "invite" /\ CreateSession(s, sess) /\ UNCHANGED db
        /\ Finish(r) \/ Goto(r, "login.record")
    BY <1>8 DEF SignupSession, LoginSession
  <2> QED
    BY <2>1 DEF InviteAt
<1>9. ASSUME NEW r \in Reqs, NEW s \in Sids, NEW x \in Secrets, TotpBegin(r, s, x) PROVE Apart
  BY <1>9 DEF TotpBegin, InviteAt
<1>10. ASSUME NEW r \in Reqs, NEW s \in Sids, NEW pw \in LongPasswords, PasswordBegin(r, s, pw)
       PROVE  Apart
  BY <1>10 DEF PasswordBegin, InviteAt
<1>11. ASSUME NEW s \in Sids, Logout(s) PROVE Apart
  BY <1>11 DEF Logout, NoInviteRequest
<1> QED
  BY <1>1, <1>2, <1>3, <1>4, <1>5, <1>6, <1>7, <1>8, <1>9, <1>10, <1>11 DEF LocalAuthNext

LEMMA ProviderApart ==
    ASSUME OnboardingInv, ProviderAuthNext PROVE Apart
<1>0. RepoTypeOK /\ WebTypeOK /\ ReqTypeOK
  BY DEF OnboardingInv, TypeOK, WebTypeOK, ReqTypeOK
<1> USE <1>0, DbApart, WebApart, ReqApart DEF Apart
<1>1. ASSUME NEW r \in Reqs, NEW i \in Identities, NEW e \in EmailInputs, CallbackBegin(r, i, e)
      PROVE  Apart
  BY <1>1 DEF CallbackBegin, InviteAt
<1>2. ASSUME NEW r \in Reqs, NEW t \in LinkTokens, CallbackPending(r, t) PROVE Apart
  BY <1>2 DEF CallbackPending
<1>3. ASSUME NEW r \in Reqs, NEW t \in LinkTokens, NEW n \in LinkNames,
             NEW pw \in Passwords, NEW code \in Secrets \cup {None},
             LinkBegin(r, t, n, pw, code)
      PROVE  Apart
  BY <1>3 DEF LinkBegin, InviteAt
<1>4. ASSUME NEW r \in Reqs, CallbackUnknown(r) \/ ProviderNoOrg(r) \/ ProviderRecord(r)
      PROVE  Apart
  BY <1>4 DEF CallbackUnknown, ProviderNoOrg, ProviderRecord
<1>5. ASSUME NEW r \in Reqs, LinkCredential(r) PROVE Apart
  <2>1. CASE Finish(r)
    BY <1>5, <2>1 DEF LinkCredential
  <2> DEFINE C(u) == [at |-> "link.mfa", identity |-> req[r].identity,
                      email |-> req[r].email, token |-> req[r].token, user |-> u,
                      code |-> req[r].code, due |-> totp[u], org |-> None]
  <2>2. CASE \E u \in Names : req' = [req EXCEPT ![r] = C(u)]
    <3>1. UNCHANGED <<db, web>> /\ \A u : C(u).at \notin InviteAt
      BY <1>5 DEF LinkCredential, InviteAt
    <3> HIDE DEF C
    <3> QED
      BY <2>2, <3>1
  <2> QED
    BY <1>5, <2>1, <2>2 DEF LinkCredential
<1>6. ASSUME NEW r \in Reqs, LinkMFA(r) \/ LinkSecret(r) \/ LinkIdentityCheck(r) PROVE Apart
  BY <1>6 DEF LinkMFA, LinkSecret, LinkIdentityCheck, LinkAuthenticated, InviteAt
<1>7. ASSUME NEW r \in Reqs, LinkInsert(r) \/ LinkForget(r) PROVE Apart
  BY <1>7 DEF LinkInsert, LinkForget, InviteAt
<1>8. ASSUME NEW r \in Reqs, NEW o \in Slugs, ProviderOrg(r, o) PROVE Apart
  <2> DEFINE c == [at |-> "provider.session", identity |-> req[r].identity,
                   email |-> req[r].email, token |-> req[r].token, user |-> req[r].user,
                   code |-> req[r].code, due |-> req[r].due, org |-> o]
  <2>1. c.at \notin InviteAt /\ req' = [req EXCEPT ![r] = c] /\ UNCHANGED <<db, web>>
    BY <1>8 DEF ProviderOrg, InviteAt
  <2> QED
    BY <2>1
<1>9. ASSUME NEW r \in Reqs, NEW s \in Sids, ProviderSession(r, s) PROVE Apart
  <2> DEFINE sess == [user |-> req[r].user, org |-> req[r].org,
                      provider |-> ProviderOf[req[r].identity]]
  <2>1. req[r].identity \in Identities
    BY <1>9, Shapes DEF ProviderSession, ProviderAt, ProviderReq
  <2>2. sess.provider # "invite"
    BY <2>1 DEF Providers
  <2>3. CreateSession(s, sess) /\ UNCHANGED db /\ Goto(r, "provider.record")
    BY <1>9 DEF ProviderSession
  <2> QED
    BY <2>2, <2>3 DEF InviteAt
<1> QED
  BY <1>1, <1>2, <1>3, <1>4, <1>5, <1>6, <1>7, <1>8, <1>9 DEF ProviderAuthNext

\* The steps that do concern invites.
InviteStep ==
    \/ \E r \in Reqs, s \in Sids, e \in EmailInputs, role \in RoleInputs :
          InviteBegin(r, s, e, role)
    \/ \E r \in Reqs : InviteRole(r)
    \/ \E r \in Reqs, t \in Tokens : InviteCreate(r, t)
    \/ \E r \in Reqs, s \in Sids : AcceptSession(r, s)

LEMMA MostApart ==
    ASSUME OnboardingInv, [Next]_vars PROVE Apart \/ InviteStep
<1>0. RepoTypeOK /\ WebTypeOK /\ ReqTypeOK
  BY DEF OnboardingInv, TypeOK, WebTypeOK, ReqTypeOK
<1> USE <1>0, DbApart, WebApart, ReqApart
<1>1. ASSUME NEW r \in Reqs, NEW t \in Tokens, AcceptLookup(r, t) PROVE Apart
  BY <1>1 DEF Apart, AcceptLookup, InviteAt
<1>2. ASSUME NEW r \in Reqs, AcceptUser(r) \/ AcceptUpsert(r) PROVE Apart
  BY <1>2 DEF Apart, AcceptUser, AcceptUpsert, InviteAt
<1>3. ASSUME NEW r \in Reqs, AcceptMember(r) \/ AcceptUse(r) PROVE Apart
  <2>1. invites[req[r].token] # None
    BY <1>3 DEF OnboardingInv, ReqOK, AcceptOK, AcceptAt, AcceptMember, AcceptUse
  <2> QED
    BY <1>3, <2>1 DEF Apart, AcceptMember, AcceptUse, InviteAt
<1>4. ASSUME NEW r \in Reqs, RequestFails(r) PROVE Apart
  BY <1>4 DEF Apart, RequestFails
<1>5. ASSUME NEW s \in Sids, SessionExpires(s) PROVE Apart
  BY <1>5 DEF Apart, SessionExpires, NoInviteRequest
<1>6. ASSUME NEW t \in Tokens, InviteExpires(t) PROVE Apart
  BY <1>6 DEF Apart, InviteExpires, NoInviteRequest
<1>7. ASSUME NEW t \in LinkTokens, PendingExpires(t) PROVE Apart
  BY <1>7 DEF Apart, PendingExpires, NoInviteRequest
<1>8. ASSUME Crash PROVE Apart
  BY <1>8 DEF Apart, Crash, NoInviteRequest, Idle, InviteAt
<1>9. ASSUME UNCHANGED vars PROVE Apart
  BY <1>9 DEF Apart, vars, NoInviteRequest
<1> QED
  BY <1>1, <1>2, <1>3, <1>4, <1>5, <1>6, <1>7, <1>8, <1>9, LocalApart, ProviderApart
     DEF Next, InvitesNext, InviteStep

-----------------------------------------------------------------------------
(* The gate. *)

\* Who was vouched for stays so.
LEMMA VouchedKept ==
    ASSUME TypeOK, Grows, NEW u \in Names, Vouched(u) PROVE Vouched(u)'
BY DEF TypeOK, Grows, DbGrows, Vouched, HasTOTP, RepoTypeOK

\* The steps apart keep what the gate has established.
LEMMA ApartKeeps ==
    ASSUME GateInv, OnboardingInv', Grows, Apart PROVE GateInv'
<1>0. TypeOK /\ SessionsIssued /\ \A r \in Reqs : ReqOK(req[r])
  BY DEF GateInv, OnboardingInv, TablesOK
<1>1. GatePassed'
  <2> SUFFICES ASSUME NEW r \in Reqs, req'[r].at \in InviteAt,
                      sessions'[req'[r].sid] # None, sessions'[req'[r].sid].provider = "local"
               PROVE  HasTOTP(req[r].user)'
    BY DEF GatePassed, HasTOTP
  <2>1. req'[r] = req[r] /\ req[r].at \in InviteAt
    BY DEF Apart, NoInviteRequest
  <2>2. req[r].sid \in issued /\ req[r].user \in Names
    BY <1>0, <2>1, Shapes DEF ReqOK, InviteOK, TypeOK, ReqTypeOK, InviteReq
  <2>3. HasTOTP(req[r].user)
    BY <2>1, <2>2 DEF GateInv, GatePassed, Grows, WebGrows
  <2> QED
    BY <2>1, <2>2, <2>3 DEF HasTOTP, Grows, DbGrows
<1>2. InviteSessionsInvited'
  BY DEF GateInv, InviteSessionsInvited, Apart, NoInviteSession, Grows, DbGrows
<1>3. ASSUME NEW t \in Tokens, invites'[t] # None PROVE Vouched(invites[t].inviter)'
  <2>1. invites[t] # None /\ invites'[t].inviter = invites[t].inviter
    BY <1>3 DEF Apart, NoNewInvite, Grows, DbGrows
  <2>2. invites[t].inviter \in Names
    BY <1>0, <2>1 DEF TypeOK, RepoTypeOK, Invite
  <2> QED
    BY <1>0, <2>1, <2>2, VouchedKept DEF GateInv, Vouched, HasTOTP
<1> QED
  BY <1>1, <1>2, <1>3 DEF GateInv, Vouched, HasTOTP

\* A step that creates no invite keeps those there are vouched for.
LEMMA InvitersKept ==
    ASSUME GateInv, Grows, NoNewInvite
    PROVE  \A t \in Tokens : invites'[t] # None => Vouched(invites[t].inviter)'
<1> SUFFICES ASSUME NEW t \in Tokens, invites'[t] # None PROVE Vouched(invites[t].inviter)'
  OBVIOUS
<1>1. TypeOK /\ invites[t] # None /\ invites'[t].inviter = invites[t].inviter
  BY DEF GateInv, OnboardingInv, NoNewInvite, Grows, DbGrows
<1>2. invites[t].inviter \in Names
  BY <1>1 DEF TypeOK, RepoTypeOK, Invite
<1> QED
  BY <1>1, <1>2, VouchedKept DEF GateInv, Vouched, HasTOTP

\* A request that does not move keeps what the gate has established.
LEMMA PassedKept ==
    ASSUME GateInv, Grows, NEW r \in Reqs, req[r].at \in InviteAt,
           req'[r].sid = req[r].sid, req'[r].user = req[r].user,
           sessions'[req'[r].sid] # None, sessions'[req'[r].sid].provider = "local"
    PROVE  HasTOTP(req[r].user)'
<1>1. req[r].sid \in issued /\ req[r].user \in Names
  BY Shapes DEF GateInv, OnboardingInv, ReqOK, InviteOK, TypeOK, ReqTypeOK, InviteReq
<1>2. HasTOTP(req[r].user)
  BY <1>1 DEF GateInv, GatePassed, Grows, WebGrows
<1> QED
  BY <1>1, <1>2 DEF HasTOTP, Grows, DbGrows

\* Whoever creates an invite has passed the gate, or his session is one the
\* gate lets through: a provider's, or that of an invited Owner.
LEMMA CreatorVouched ==
    ASSUME GateInv, ProviderSessionsAreLinked, NEW r \in Reqs, NEW t \in Tokens,
           InviteCreate(r, t), sessions[req[r].sid] # None
    PROVE  Vouched(sessions[req[r].sid].user)
<1> DEFINE c == req[r]
           sess == sessions[c.sid]
<1>0. TypeOK /\ TablesOK /\ ReqOK(c) /\ c \in InviteReq /\ c.at = "invite.create"
  BY Shapes DEF InviteCreate, InviteAt, GateInv, OnboardingInv, TypeOK, ReqTypeOK
<1>1. c.sid \in Sids /\ sess \in Session
  BY <1>0 DEF InviteReq, TypeOK, Table!TableTypeOK
<1>2. sess.user = c.user /\ sess.org = c.org /\ founder[c.org] = c.user
  BY <1>0 DEF ReqOK, InviteOK, InviteAt
<1>3. CASE sess.provider = "local"
  BY <1>0, <1>2, <1>3 DEF GateInv, GatePassed, InviteAt, Vouched
<1>4. CASE sess.provider \in Providers
  BY <1>1, <1>4 DEF ProviderSessionsAreLinked, Vouched
<1>5. CASE sess.provider = "invite"
  <2>1. PICK i \in Tokens : invites[i] # None /\ invites[i].org = sess.org
    BY <1>1, <1>5 DEF GateInv, InviteSessionsInvited
  <2>2. invites[i].inviter = sess.user
    BY <1>0, <1>2, <2>1 DEF TablesOK, InvitesFromFounder
  <2> QED
    BY <2>1, <2>2 DEF GateInv
<1> QED
  BY <1>1, <1>3, <1>4, <1>5 DEF Session

LEMMA GateStep ==
    ASSUME LocalRequired
    PROVE  GateInv /\ ProviderSessionsAreLinked /\ [Next]_vars => GateInv'
<1> SUFFICES ASSUME GateInv, ProviderSessionsAreLinked, [Next]_vars PROVE GateInv'
  OBVIOUS
<1>0. OnboardingInv /\ TypeOK /\ ReqTypeOK
  BY DEF GateInv, OnboardingInv, TypeOK, ReqTypeOK
<1>1. OnboardingInv' /\ Grows
  BY <1>0, OnboardingStep, TypeStep
<1> DEFINE Inviters == \A t \in Tokens : invites'[t] # None => Vouched(invites[t].inviter)'
<1>2. ASSUME GatePassed', InviteSessionsInvited', Inviters PROVE GateInv'
  BY <1>1, <1>2 DEF GateInv, Vouched, HasTOTP
<1> HIDE DEF Inviters
<1>3. InviteSessionsInvited /\ sessions' = sessions => InviteSessionsInvited'
  BY <1>1 DEF InviteSessionsInvited, Grows, DbGrows
<1>4. ASSUME NEW r \in Reqs, NEW s \in Sids, NEW e \in EmailInputs, NEW role \in RoleInputs,
             InviteBegin(r, s, e, role)
      PROVE  GateInv'
  <2> DEFINE c == [at |-> "invite.role", sid |-> s, user |-> sessions[s].user,
                   org |-> sessions[s].org, email |-> Normal[e], role |-> role]
  <2>1. /\ req[r] = Idle /\ req'[r] = c /\ \A q \in Reqs \ {r} : req'[q] = req[q]
        /\ UNCHANGED <<sessions, totp>> /\ UNCHANGED db /\ sessions[s] # None
    BY <1>0, <1>4, Moves DEF InviteBegin, Start, web, sessionTable, db
  <2>2. MFAEnforce("invite", s)
    BY <1>4 DEF InviteBegin
  <2>3. sessions[s].provider = "local" => HasTOTP(sessions[s].user)
    BY <2>1, <2>2 DEF MFAEnforce, Blocked, Exempt
  <2>4. GatePassed'
    <3> SUFFICES ASSUME NEW q \in Reqs, req'[q].at \in InviteAt,
                        sessions'[req'[q].sid] # None, sessions'[req'[q].sid].provider = "local"
                 PROVE  HasTOTP(req[q].user)'
      BY DEF GatePassed, HasTOTP
    <3>1. CASE q = r
      BY <2>1, <2>3, <3>1 DEF HasTOTP
    <3>2. CASE q # r
      BY <1>1, <2>1, <3>2, PassedKept
    <3> QED
      BY <3>1, <3>2
  <2>5. NoNewInvite
    BY <1>0, <2>1, DbApart DEF TypeOK
  <2> QED
    BY <1>1, <1>2, <1>3, <2>1, <2>4, <2>5, InvitersKept DEF GateInv, Inviters
<1>5. ASSUME NEW r \in Reqs, InviteRole(r) PROVE GateInv'
  <2>1. /\ UNCHANGED sessions /\ UNCHANGED db
        /\ req'[r] = Idle \/ req'[r] = [req[r] EXCEPT !.at = "invite.create"]
        /\ \A q \in Reqs \ {r} : req'[q] = req[q]
        /\ req[r] \in InviteReq /\ req[r].at \in InviteAt
    BY <1>0, <1>5, Moves, Shapes DEF InviteRole, InviteAt, web, sessionTable
  <2>2. GatePassed'
    <3> SUFFICES ASSUME NEW q \in Reqs, req'[q].at \in InviteAt,
                        sessions'[req'[q].sid] # None, sessions'[req'[q].sid].provider = "local"
                 PROVE  HasTOTP(req[q].user)'
      BY DEF GatePassed, HasTOTP
    <3>1. CASE q = r
      <4>1. req'[r].sid = req[r].sid /\ req'[r].user = req[r].user
        BY <2>1, <3>1 DEF Idle, InviteAt, InviteReq
      <4> QED
        BY <1>1, <2>1, <3>1, <4>1, PassedKept
    <3>2. CASE q # r
      BY <1>1, <2>1, <3>2, PassedKept
    <3> QED
      BY <3>1, <3>2
  <2>3. NoNewInvite
    BY <1>0, <2>1, DbApart DEF TypeOK
  <2> QED
    BY <1>1, <1>2, <1>3, <2>1, <2>2, <2>3, InvitersKept DEF GateInv, Inviters
<1>6. ASSUME NEW r \in Reqs, NEW t \in Tokens, InviteCreate(r, t) PROVE GateInv'
  <2> DEFINE sess == sessions[req[r].sid]
  <2>1. /\ UNCHANGED sessions /\ req'[r] = Idle /\ \A q \in Reqs \ {r} : req'[q] = req[q]
    BY <1>0, <1>6, Moves DEF InviteCreate, web, sessionTable
  <2>2. GatePassed'
    <3> SUFFICES ASSUME NEW q \in Reqs, req'[q].at \in InviteAt,
                        sessions'[req'[q].sid] # None, sessions'[req'[q].sid].provider = "local"
                 PROVE  HasTOTP(req[q].user)'
      BY DEF GatePassed, HasTOTP
    <3>1. q # r
      BY <2>1 DEF Idle, InviteAt
    <3> QED
      BY <1>1, <2>1, <3>1, PassedKept
  <2>3. Inviters
    <3>1. CASE UNCHANGED db
      <4>1. NoNewInvite
        BY <1>0, <3>1, DbApart DEF TypeOK
      <4> QED
        BY <1>1, <4>1, InvitersKept DEF Inviters
    <3>2. CASE /\ sess # None
               /\ CreateInvite(t, sess.org, sess.user, req[r].email, InvitedRole(req[r].role))
      <4> SUFFICES ASSUME NEW i \in Tokens, invites'[i] # None
                   PROVE  Vouched(invites[i].inviter)'
        BY DEF Inviters
      <4>1. TypeOK' /\ invites'[i].inviter \in Names
        BY <1>1 DEF OnboardingInv, TypeOK, RepoTypeOK, Invite
      <4>2. CASE i = t
        <5>1. invites'[i].inviter = sess.user
          BY <1>0, <3>2, <4>2 DEF CreateInvite, TypeOK, RepoTypeOK
        <5> QED
          BY <1>0, <1>1, <1>6, <3>2, <4>1, <5>1, CreatorVouched, VouchedKept DEF Vouched, HasTOTP
      <4>3. CASE i # t
        <5>1. invites'[i] = invites[i]
          BY <1>0, <3>2, <4>3 DEF CreateInvite, TypeOK, RepoTypeOK
        <5> QED
          BY <1>0, <1>1, <4>1, <5>1, VouchedKept DEF GateInv, Vouched, HasTOTP
      <4> QED
        BY <4>2, <4>3
    <3> QED
      BY <1>6, <3>1, <3>2 DEF InviteCreate
  <2> QED
    BY <1>2, <1>3, <2>1, <2>2, <2>3 DEF GateInv
<1>7. ASSUME NEW r \in Reqs, NEW s \in Sids, AcceptSession(r, s) PROVE GateInv'
  <2> DEFINE inv == invites[req[r].token]
             sess == [user |-> inv.email, org |-> inv.org, provider |-> "invite"]
  <2>1. /\ req[r].token \in Tokens /\ inv # None /\ UNCHANGED db
        /\ req'[r] = Idle /\ \A q \in Reqs \ {r} : req'[q] = req[q]
        /\ sessions' = [sessions EXCEPT ![s] = sess]
    BY <1>0, <1>7, Moves, Shapes
       DEF AcceptSession, CreateSession, Table!Create, OnboardingInv, ReqOK, AcceptOK, AcceptAt,
           AcceptReq
  <2>2. GatePassed'
    <3> SUFFICES ASSUME NEW q \in Reqs, req'[q].at \in InviteAt,
                        sessions'[req'[q].sid] # None, sessions'[req'[q].sid].provider = "local"
                 PROVE  HasTOTP(req[q].user)'
      BY DEF GatePassed, HasTOTP
    <3>1. q # r
      BY <2>1 DEF Idle, InviteAt
    <3> QED
      BY <1>1, <2>1, <3>1, PassedKept
  <2>3. InviteSessionsInvited'
    <3> SUFFICES ASSUME NEW p \in Sids, sessions'[p] # None, sessions'[p].provider = "invite"
                 PROVE  \E t \in Tokens : /\ invites'[t] # None
                                          /\ invites'[t].org = sessions'[p].org
                                          /\ invites'[t].email = sessions'[p].user
      BY DEF InviteSessionsInvited
    <3>1. invites' = invites
      BY <2>1 DEF db
    <3>2. CASE p = s
      <4>1. sessions'[p] = sess
        BY <1>0, <2>1, <3>2 DEF TypeOK, Table!TableTypeOK
      <4> QED
        BY <2>1, <3>1, <4>1
    <3>3. CASE p # s
      <4>1. sessions'[p] = sessions[p]
        BY <1>0, <2>1, <3>3 DEF TypeOK, Table!TableTypeOK
      <4> QED
        BY <3>1, <4>1 DEF GateInv, InviteSessionsInvited
    <3> QED
      BY <3>2, <3>3
  <2>4. NoNewInvite
    BY <1>0, <2>1, DbApart DEF TypeOK
  <2> QED
    BY <1>1, <1>2, <2>2, <2>3, <2>4, InvitersKept DEF Inviters
<1>8. CASE Apart
  BY <1>1, <1>8, ApartKeeps
<1> QED
  BY <1>0, <1>4, <1>5, <1>6, <1>7, <1>8, MostApart DEF InviteStep

-----------------------------------------------------------------------------
\* With the gate in front of the routes the inductive invariant is kept, if
\* every provider session belongs to a linked user.
THEOREM GateInvariant ==
    ASSUME LocalRequired PROVE Spec /\ []ProviderSessionsAreLinked => []GateInv
<1>1. Init => GateInv
  <2>1. Init => OnboardingInv
    BY OnboardingStarts
  <2> QED
    BY <2>1 DEF Init, RepoInit, Table!TableInit, GateInv, GatePassed, InviteSessionsInvited,
                Idle, InviteAt
<1>2. GateInv /\ ProviderSessionsAreLinked /\ [Next]_vars => GateInv'
  BY GateStep
<1> QED
  BY <1>1, <1>2, PTL DEF Spec

\* Nobody has created an invite who is neither enrolled nor vouched for by a
\* provider, whichever way his session was made, if identities keep their emails.
THEOREM OnlyEnrolledInvite ==
    ASSUME StableClaims, LocalRequired PROVE Spec => []InvitersAreEnrolled
<1>1. GateInv => InvitersAreEnrolled
  BY DEF GateInv, Vouched, InvitersAreEnrolled
<1> QED
  BY <1>1, GateInvariant, ProviderSessionsHaveLinks, PTL

\* Nor if they do not, as long as queries answer and no two requests are about
\* to link one identity to two users.
THEOREM OnlyEnrolledInviteUnlessTwoLink ==
    ASSUME ~QueryErrors, LocalRequired
    PROVE  Spec /\ []NoTwoLinks => []InvitersAreEnrolled
<1>1. GateInv => InvitersAreEnrolled
  BY DEF GateInv, Vouched, InvitersAreEnrolled
<1> QED
  BY <1>1, GateInvariant, LinkedUnlessTwoLink, PTL
=============================================================================
