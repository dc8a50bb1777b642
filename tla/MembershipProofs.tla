-------------------------- MODULE MembershipProofs --------------------------
(***************************************************************************)
(* The service implements module Membership, and who is stranded by a      *)
(* signup is only helped by an invite, for any number of users,            *)
(* organisations, invites and concurrent requests.                         *)
(***************************************************************************)
EXTENDS OnboardingProofs

USE RepoConstants, RequestConstants, NoneIsNoEntry

-----------------------------------------------------------------------------
(* The inductive invariant. *)

Founding == {"signup.find", "signup.org", "signup.member"}

\* Until the founder is written down as the Owner, the organisation has neither
\* members nor invites, and no other signup is about to own it.
FoundingIsFirst ==
    \A r \in Reqs : req[r].at = "signup.member" =>
        /\ \A u \in Names : ~IsMember(req[r].org, u)
        /\ \A t \in Tokens : invites[t] # None => invites[t].org # req[r].org
        /\ \A q \in Reqs \ {r} : req[q].at = "signup.member" => req[q].org # req[r].org

MembershipInv == OnboardingInv /\ FoundingIsFirst

-----------------------------------------------------------------------------
(* Most steps neither found, nor invite, nor grant. *)

SameInvites ==
    \A t \in Tokens :
        /\ invites[t] # None <=> invites'[t] # None
        /\ invites[t] # None => /\ invites'[t].org = invites[t].org
                                /\ invites'[t].email = invites[t].email
                                /\ invites'[t].role = invites[t].role
QuietRows ==
    /\ members' = members
    /\ SameInvites
    /\ users' = users \/ \E u \in Names : users' = users \cup {u}
QuietReq == \A r \in Reqs : req'[r].at \in Founding => req'[r] = req[r]
Quiet == QuietRows /\ QuietReq /\ founder' = founder

\* The steps that do.
FoundingStep(r) ==
    SignupCredential(r) \/ SignupOrgMissing(r) \/ SignupCreateOrg(r) \/ SignupMember(r)
GrantingStep(r) == AcceptMember(r) \/ \E t \in Tokens : InviteCreate(r, t)

LEMMA OffersKept ==
    ASSUME SameInvites PROVE Offers' = Offers
BY DEF SameInvites, Offers

LEMMA RowsQuiet ==
    ASSUME RepoTypeOK
    PROVE  /\ UNCHANGED db => QuietRows
           /\ \A u \in Names : UpsertUser(u) => QuietRows
           /\ \A u, n, pw : CreateLocalCredential(u, n, pw) => QuietRows
           /\ \A u, pw : UpdateLocalPasswordHash(u, pw) => QuietRows
           /\ \A u, x : SetTOTPSecret(u, x) => QuietRows
           /\ \A t \in Tokens : invites[t] # None /\ UseInvite(t) => QuietRows
           /\ \A t \in Tokens : InviteLapses(t) => QuietRows
           /\ \A n, b : RecordLoginAttempt(n, b) => QuietRows
           /\ \A u, i : LinkIdentity(u, i) => QuietRows
<1> USE DEF QuietRows, SameInvites
<1>1. /\ UNCHANGED db => QuietRows
      /\ \A u \in Names : UpsertUser(u) => QuietRows
      /\ \A u, n, pw : CreateLocalCredential(u, n, pw) => QuietRows
      /\ \A u, pw : UpdateLocalPasswordHash(u, pw) => QuietRows
      /\ \A u, x : SetTOTPSecret(u, x) => QuietRows
      /\ \A n, b : RecordLoginAttempt(n, b) => QuietRows
      /\ \A u, i : LinkIdentity(u, i) => QuietRows
  BY DEF db, UpsertUser, CreateLocalCredential, UpdateLocalPasswordHash, SetTOTPSecret,
         RecordLoginAttempt, LinkIdentity
<1>2. ASSUME NEW t \in Tokens, invites[t] # None, UseInvite(t) \/ InviteLapses(t)
      PROVE  QuietRows
  <2>1. invites[t] \in Invite
    BY <1>2 DEF RepoTypeOK
  <2> DEFINE used == [invites[t] EXCEPT !.used = TRUE]
             lapsed == [invites[t] EXCEPT !.lapsed = TRUE]
             SameOffer(new) == /\ new \in Invite
                               /\ new.org = invites[t].org /\ new.email = invites[t].email
                               /\ new.role = invites[t].role
  <2>2. SameOffer(used) /\ SameOffer(lapsed)
    BY <2>1, InviteEdits DEF Invite
  <2>3. ASSUME NEW new, SameOffer(new), invites' = [invites EXCEPT ![t] = new]
        PROVE  SameInvites
    BY <1>2, <2>3 DEF RepoTypeOK
  <2>4. invites' = [invites EXCEPT ![t] = used] \/ invites' = [invites EXCEPT ![t] = lapsed]
    BY <1>2 DEF UseInvite, InviteLapses
  <2>5. members' = members /\ users' = users
    BY <1>2 DEF UseInvite, InviteLapses
  <2> HIDE DEF used, lapsed, SameOffer, SameInvites
  <2> QED
    BY <2>2, <2>3, <2>4, <2>5
<1>3. \A t \in Tokens : InviteLapses(t) => invites[t] # None
  BY DEF InviteLapses
<1> QED
  BY <1>1, <1>2, <1>3

LEMMA ReqQuiet ==
    ASSUME ReqTypeOK, NEW r \in Reqs
    PROVE  /\ UNCHANGED req => QuietReq
           /\ Finish(r) => QuietReq
           /\ \A at : at \notin Founding /\ Goto(r, at) => QuietReq
           /\ \A c : c.at \notin Founding /\ Start(r, c) => QuietReq
           /\ \A c : c.at \notin Founding /\ req' = [req EXCEPT ![r] = c] => QuietReq
BY DEF ReqTypeOK, QuietReq, Finish, Goto, Start, Idle, Founding, Request, SignupReq,
       LoginReq, TotpReq, PasswordReq, InviteReq, AcceptReq, CallbackReq, LinkReq, ProviderReq

LEMMA LocalQuiet ==
    ASSUME OnboardingInv, LocalAuthNext PROVE Quiet \/ \E r \in Reqs : FoundingStep(r)
<1>0. RepoTypeOK /\ ReqTypeOK
  BY DEF OnboardingInv, TypeOK, ReqTypeOK
<1> USE <1>0, RowsQuiet, ReqQuiet DEF Quiet, ghosts
<1>1. ASSUME NEW r \in Reqs, NEW e \in EmailInputs, NEW n \in NameInputs,
             NEW pw \in Passwords \cup {Spaces}, NEW o \in SlugInputs,
             SignupBegin(r, e, n, pw, o)
      PROVE  Quiet
  <2>1. Normal[e] \in Names
    BY <1>1 DEF SignupBegin
  <2> QED
    BY <1>1, <2>1 DEF SignupBegin, Founding
<1>2. ASSUME NEW r \in Reqs, NEW n \in NameInputs, NEW pw \in Passwords,
             NEW code \in Secrets \cup {None}, NEW u \in Names, LoginBegin(r, n, pw, code, u)
      PROVE  Quiet
  BY <1>2 DEF LoginBegin, Founding
<1>3. ASSUME NEW r \in Reqs, SignupOrgExists(r) PROVE Quiet
  BY <1>3 DEF SignupOrgExists
<1>4. ASSUME NEW r \in Reqs, LoginFailure(r) \/ LoginMFA(r) \/ LoginSecret(r)
                             \/ LoginNoOrg(r) \/ LoginRecord(r)
      PROVE  Quiet
  BY <1>4 DEF LoginFailure, LoginMFA, LoginSecret, LoginNoOrg, LoginRecord, Founding
<1>5. ASSUME NEW r \in Reqs, TotpStore(r) \/ PasswordFind(r) \/ PasswordUpdate(r)
                             \/ PasswordCreate(r)
      PROVE  Quiet
  BY <1>5 DEF TotpStore, PasswordFind, PasswordUpdate, PasswordCreate, Founding
<1>6. ASSUME NEW r \in Reqs, NEW o \in Slugs, LoginOrg(r, o) PROVE Quiet
  <2> DEFINE c == [at |-> "login.session", user |-> req[r].user, name |-> req[r].name,
                   code |-> req[r].code, due |-> req[r].due, org |-> o]
  <2>1. c.at \notin Founding /\ req' = [req EXCEPT ![r] = c] /\ UNCHANGED <<db, ghosts>>
    BY <1>6 DEF LoginOrg, Founding
  <2> QED
    BY <2>1
<1>7. ASSUME NEW r \in Reqs, NEW s \in Sids, SignupSession(r, s) \/ LoginSession(r, s)
      PROVE  Quiet
  BY <1>7 DEF SignupSession, LoginSession, Founding
<1>8. ASSUME NEW r \in Reqs, NEW s \in Sids, NEW x \in Secrets, TotpBegin(r, s, x) PROVE Quiet
  BY <1>8 DEF TotpBegin, Founding
<1>9. ASSUME NEW r \in Reqs, NEW s \in Sids, NEW pw \in LongPasswords, PasswordBegin(r, s, pw)
      PROVE  Quiet
  BY <1>9 DEF PasswordBegin, Founding
<1>10. ASSUME NEW s \in Sids, Logout(s) PROVE Quiet
  BY <1>10 DEF Logout, QuietReq
<1> QED
  BY <1>1, <1>2, <1>3, <1>4, <1>5, <1>6, <1>7, <1>8, <1>9, <1>10
     DEF LocalAuthNext, FoundingStep

LEMMA ProviderQuiet ==
    ASSUME OnboardingInv, ProviderAuthNext PROVE Quiet
<1>0. RepoTypeOK /\ ReqTypeOK
  BY DEF OnboardingInv, TypeOK, ReqTypeOK
<1> USE <1>0, RowsQuiet, ReqQuiet DEF Quiet, ghosts
<1>1. ASSUME NEW r \in Reqs, NEW i \in Identities, NEW e \in EmailInputs, CallbackBegin(r, i, e)
      PROVE  Quiet
  BY <1>1 DEF CallbackBegin, Founding
<1>2. ASSUME NEW r \in Reqs, NEW t \in LinkTokens, CallbackPending(r, t) PROVE Quiet
  BY <1>2 DEF CallbackPending
<1>3. ASSUME NEW r \in Reqs, NEW t \in LinkTokens, NEW n \in LinkNames,
             NEW pw \in Passwords, NEW code \in Secrets \cup {None},
             LinkBegin(r, t, n, pw, code)
      PROVE  Quiet
  BY <1>3 DEF LinkBegin, Founding
<1>4. ASSUME NEW r \in Reqs, CallbackUnknown(r) \/ ProviderNoOrg(r) \/ ProviderRecord(r)
      PROVE  Quiet
  BY <1>4 DEF CallbackUnknown, ProviderNoOrg, ProviderRecord
<1>5. ASSUME NEW r \in Reqs, LinkCredential(r) PROVE Quiet
  <2>1. CASE Finish(r)
    BY <1>5, <2>1 DEF LinkCredential
  <2> DEFINE C(u) == [at |-> "link.mfa", identity |-> req[r].identity,
                      email |-> req[r].email, token |-> req[r].token, user |-> u,
                      code |-> req[r].code, due |-> totp[u], org |-> None]
  <2>2. CASE \E u \in Names : req' = [req EXCEPT ![r] = C(u)]
    <3>1. UNCHANGED <<db, ghosts>> /\ \A u : C(u).at \notin Founding
      BY <1>5 DEF LinkCredential, Founding
    <3> HIDE DEF C
    <3> QED
      BY <2>2, <3>1
  <2> QED
    BY <1>5, <2>1, <2>2 DEF LinkCredential
<1>6. ASSUME NEW r \in Reqs, LinkMFA(r) \/ LinkSecret(r) \/ LinkIdentityCheck(r) PROVE Quiet
  BY <1>6 DEF LinkMFA, LinkSecret, LinkIdentityCheck, LinkAuthenticated, Founding
<1>7. ASSUME NEW r \in Reqs, LinkInsert(r) \/ LinkForget(r) PROVE Quiet
  BY <1>7 DEF LinkInsert, LinkForget, Founding
<1>8. ASSUME NEW r \in Reqs, NEW o \in Slugs, ProviderOrg(r, o) PROVE Quiet
  <2> DEFINE c == [at |-> "provider.session", identity |-> req[r].identity,
                   email |-> req[r].email, token |-> req[r].token, user |-> req[r].user,
                   code |-> req[r].code, due |-> req[r].due, org |-> o]
  <2>1. c.at \notin Founding /\ req' = [req EXCEPT ![r] = c] /\ UNCHANGED <<db, ghosts>>
    BY <1>8 DEF ProviderOrg, Founding
  <2> QED
    BY <2>1
<1>9. ASSUME NEW r \in Reqs, NEW s \in Sids, ProviderSession(r, s) PROVE Quiet
  BY <1>9 DEF ProviderSession, Founding
<1> QED
  BY <1>1, <1>2, <1>3, <1>4, <1>5, <1>6, <1>7, <1>8, <1>9 DEF ProviderAuthNext

LEMMA MostQuiet ==
    ASSUME OnboardingInv, [Next]_vars
    PROVE  Quiet \/ \E r \in Reqs : FoundingStep(r) \/ GrantingStep(r)
<1>0. RepoTypeOK /\ ReqTypeOK
  BY DEF OnboardingInv, TypeOK, ReqTypeOK
<1> USE <1>0, RowsQuiet, ReqQuiet DEF Quiet, ghosts
<1>1. ASSUME NEW r \in Reqs, NEW t \in Tokens, AcceptLookup(r, t) PROVE Quiet
  BY <1>1 DEF AcceptLookup, Founding
<1>2. ASSUME NEW r \in Reqs, AcceptUser(r) \/ AcceptUpsert(r) \/ AcceptUse(r) PROVE Quiet
  <2>1. req[r].at \in AcceptAt
    BY <1>2 DEF AcceptUser, AcceptUpsert, AcceptUse, AcceptAt
  <2>2. req[r].token \in Tokens /\ invites[req[r].token] # None
    BY <2>1, Shapes DEF OnboardingInv, ReqOK, AcceptOK, AcceptReq
  <2>3. invites[req[r].token].email \in Names
    BY <2>2 DEF RepoTypeOK, Invite
  <2> QED
    BY <1>2, <2>2, <2>3 DEF AcceptUser, AcceptUpsert, AcceptUse, Founding
<1>3. ASSUME NEW r \in Reqs, NEW s \in Sids, AcceptSession(r, s) PROVE Quiet
  BY <1>3 DEF AcceptSession
<1>4. ASSUME NEW r \in Reqs, NEW s \in Sids, NEW e \in EmailInputs, NEW role \in RoleInputs,
             InviteBegin(r, s, e, role)
      PROVE  Quiet
  BY <1>4 DEF InviteBegin, Founding
<1>5. ASSUME NEW r \in Reqs, InviteRole(r) PROVE Quiet
  BY <1>5 DEF InviteRole, Founding
<1>6. ASSUME NEW r \in Reqs, RequestFails(r) PROVE Quiet
  BY <1>6 DEF RequestFails
<1>7. ASSUME NEW s \in Sids, SessionExpires(s) PROVE Quiet
  BY <1>7 DEF SessionExpires, QuietReq
<1>8. ASSUME NEW t \in Tokens, InviteExpires(t) PROVE Quiet
  BY <1>8 DEF InviteExpires, QuietReq
<1>9. ASSUME NEW t \in LinkTokens, PendingExpires(t) PROVE Quiet
  BY <1>9 DEF PendingExpires, QuietReq
<1>10. ASSUME Crash PROVE Quiet
  BY <1>10 DEF Crash, QuietReq, Idle, Founding
<1>11. ASSUME UNCHANGED vars PROVE Quiet
  BY <1>11 DEF vars, QuietReq
<1> QED
  BY <1>1, <1>2, <1>3, <1>4, <1>5, <1>6, <1>7, <1>8, <1>9, <1>10, <1>11, LocalQuiet,
     ProviderQuiet DEF Next, InvitesNext, GrantingStep

-----------------------------------------------------------------------------
(* The invariant. *)

\* What the handlers of the remaining steps know.
LEMMA FoundingShape ==
    ASSUME OnboardingInv, NEW r \in Reqs, req[r].at \in Founding
    PROVE  /\ req[r].user \in Names /\ req[r].org \in Slugs
           /\ UserExists(req[r].user) /\ credentials[req[r].user] # None
           /\ req[r].at = "signup.member" => founder[req[r].org] = req[r].user
<1>1. req[r].at \in SignupAt \ {"signup.credential"}
  BY DEF Founding, SignupAt
<1> QED
  BY <1>1, Shapes DEF OnboardingInv, TypeOK, ReqTypeOK, ReqOK, SignupOK, SignupAt, SignupReq

LEMMA GrantingShape ==
    ASSUME OnboardingInv, NEW r \in Reqs, AcceptMember(r)
    PROVE  LET inv == invites[req[r].token] IN
           /\ req[r].token \in Tokens /\ inv # None
           /\ inv \in Invite /\ inv.role # "Owner" /\ UserExists(inv.email)
<1>1. req[r].at \in AcceptAt
  BY DEF AcceptMember, AcceptAt
<1>2. req[r].token \in Tokens /\ invites[req[r].token] # None
  BY <1>1, Shapes DEF OnboardingInv, TypeOK, ReqTypeOK, ReqOK, AcceptOK, AcceptReq
<1> QED
  BY <1>2 DEF OnboardingInv, TypeOK, RepoTypeOK, TablesOK, InvitesFromFounder, ReqOK, AcceptOK,
              AcceptMember

\* An organisation nobody founded has no members and no invites.
LEMMA UnfoundedIsEmpty ==
    ASSUME OnboardingInv, NEW o \in Slugs, ~OrgExists(o)
    PROVE  /\ \A u \in Names : ~IsMember(o, u)
           /\ \A t \in Tokens : invites[t] # None => invites[t].org # o
           /\ founder[o] = None
<1>1. ASSUME NEW t \in Tokens, invites[t] # None PROVE founder[invites[t].org] # None
  <2>1. invites[t].inviter \in Names
    BY <1>1 DEF OnboardingInv, TypeOK, RepoTypeOK, Invite
  <2> QED
    BY <1>1, <2>1 DEF OnboardingInv, TablesOK, InvitesFromFounder
<1> QED
  BY <1>1 DEF OnboardingInv, TablesOK, Founded, RowsAreBacked

LEMMA QuietKeepsFirst ==
    ASSUME MembershipInv, Quiet PROVE FoundingIsFirst'
<1> SUFFICES ASSUME NEW r \in Reqs, req'[r].at = "signup.member"
             PROVE  /\ \A u \in Names : members'[req'[r].org][u] = None
                    /\ \A t \in Tokens : invites'[t] # None => invites'[t].org # req'[r].org
                    /\ \A q \in Reqs \ {r} :
                          req'[q].at = "signup.member" => req'[q].org # req'[r].org
  BY DEF FoundingIsFirst, IsMember
<1>1. req'[r] = req[r] /\ \A q \in Reqs : req'[q].at = "signup.member" => req'[q] = req[q]
  BY DEF Quiet, QuietReq, Founding
<1> QED
  BY <1>1 DEF MembershipInv, FoundingIsFirst, IsMember, Quiet, QuietRows, SameInvites

LEMMA FoundingKeepsFirst ==
    ASSUME MembershipInv, NEW r \in Reqs, FoundingStep(r) PROVE FoundingIsFirst'
<1>0. TypeOK /\ OnboardingInv /\ FoundingIsFirst
  BY DEF MembershipInv, OnboardingInv
<1>1. ASSUME SignupCredential(r) \/ SignupOrgMissing(r) PROVE FoundingIsFirst'
  <2>0. req[r] \in SignupReq
    BY <1>0, <1>1, Shapes DEF TypeOK, ReqTypeOK, SignupCredential, SignupOrgMissing, SignupAt
  <2>1. /\ \A q \in Reqs : req'[q].at = "signup.member" => req'[q] = req[q]
        /\ members' = members /\ invites' = invites
    BY <1>0, <1>1, <2>0 DEF TypeOK, SignupCredential, SignupOrgMissing, CreateLocalCredential,
                            db, Goto, Finish, Idle, SignupReq
  <2> QED
    BY <1>0, <2>1 DEF FoundingIsFirst, IsMember
<1>2. ASSUME SignupMember(r) PROVE FoundingIsFirst'
  <2> DEFINE o == req[r].org
  <2>1. /\ \A q \in Reqs : req'[q].at = "signup.member" => q # r /\ req'[q] = req[q]
        /\ invites' = invites
        /\ \A p \in Slugs : p # o => members'[p] = members[p]
    BY <1>0, <1>2 DEF TypeOK, RepoTypeOK, SignupMember, EnsureMembership, Goto
  <2>2. req[r].at = "signup.member"
    BY <1>2 DEF SignupMember
  <2>3. ASSUME NEW q \in Reqs, req'[q].at = "signup.member"
        PROVE  req'[q] = req[q] /\ req[q].org \in Slugs \ {o}
    BY <1>0, <2>1, <2>2, <2>3, FoundingShape DEF FoundingIsFirst, Founding
  <2> QED
    BY <1>0, <2>1, <2>3 DEF FoundingIsFirst, IsMember
<1>3. ASSUME SignupCreateOrg(r) PROVE FoundingIsFirst'
  <2> DEFINE o == req[r].org
  <2>1. req[r].at = "signup.org" /\ o \in Slugs
    BY <1>0, <1>3, FoundingShape DEF SignupCreateOrg, Founding
  <2>2. CASE OrgExists(o)
    <3>1. /\ \A q \in Reqs : req'[q].at = "signup.member" => req'[q] = req[q]
          /\ members' = members /\ invites' = invites
      BY <1>0, <1>3, <2>2 DEF TypeOK, SignupCreateOrg, db, Finish, Idle
    <3> QED
      BY <1>0, <3>1 DEF FoundingIsFirst, IsMember
  <2>3. CASE ~OrgExists(o)
    <3>1. /\ \A q \in Reqs \ {r} : req'[q] = req[q]
          /\ req'[r].org = o
          /\ members' = members /\ invites' = invites
      BY <1>0, <1>3, <2>1, <2>3, Shapes
         DEF TypeOK, ReqTypeOK, SignupCreateOrg, CreateOrg, Goto, SignupReq, SignupAt
    <3>2. \A q \in Reqs : req[q].at = "signup.member" => req[q].org # o
      BY <1>0, <2>1, <2>3, UnfoundedIsEmpty, FoundingShape DEF Founding
    <3> QED
      BY <1>0, <2>1, <2>3, <3>1, <3>2, UnfoundedIsEmpty DEF FoundingIsFirst, IsMember
  <2> QED
    BY <2>2, <2>3
<1> QED
  BY <1>1, <1>2, <1>3 DEF FoundingStep

LEMMA GrantingKeepsFirst ==
    ASSUME MembershipInv, NEW r \in Reqs, GrantingStep(r) PROVE FoundingIsFirst'
<1>0. TypeOK /\ OnboardingInv /\ FoundingIsFirst
  BY DEF MembershipInv, OnboardingInv
<1>1. ASSUME AcceptMember(r) PROVE FoundingIsFirst'
  <2> DEFINE o == invites[req[r].token].org
  <2>1. /\ \A q \in Reqs : req'[q].at = "signup.member" => req'[q] = req[q]
        /\ invites' = invites
        /\ \A p \in Slugs : p # o => members'[p] = members[p]
    BY <1>0, <1>1 DEF TypeOK, RepoTypeOK, AcceptMember, EnsureMembership, Goto
  <2>2. \A q \in Reqs : req[q].at = "signup.member" => req[q].org \in Slugs \ {o}
    BY <1>0, <1>1, GrantingShape, FoundingShape DEF FoundingIsFirst, Founding
  <2> QED
    BY <1>0, <2>1, <2>2 DEF FoundingIsFirst, IsMember
<1>2. ASSUME NEW t \in Tokens, InviteCreate(r, t) PROVE FoundingIsFirst'
  <2>1. /\ \A q \in Reqs : req'[q].at = "signup.member" => req'[q] = req[q]
        /\ members' = members
    BY <1>0, <1>2 DEF TypeOK, InviteCreate, CreateInvite, db, Finish, Idle
  <2>2. CASE invites' = invites
    BY <1>0, <2>1, <2>2 DEF FoundingIsFirst, IsMember
  <2>3. CASE sessions[req[r].sid] # None /\ UNCHANGED <<web>> /\
             \A x \in Tokens : invites'[x] = invites[x]
                               \/ invites'[x].org = sessions[req[r].sid].org
    <3> DEFINE sess == sessions[req[r].sid]
    <3>1. req[r].sid \in Sids
      BY <1>0, <1>2, Shapes DEF TypeOK, ReqTypeOK, InviteCreate, InviteAt, InviteReq
    <3>2. sess.user \in Names /\ IsMember(sess.org, sess.user)
      BY <1>0, <2>3, <3>1 DEF OnboardingInv, TypeOK, Table!TableTypeOK, TablesOK,
                              SessionsAreBacked, Session
    <3>3. \A q \in Reqs : req[q].at = "signup.member" => req[q].org # sess.org
      BY <1>0, <3>2 DEF FoundingIsFirst
    <3> QED
      BY <1>0, <2>1, <2>3, <3>3 DEF FoundingIsFirst, IsMember
  <2>4. \/ invites' = invites
        \/ /\ sessions[req[r].sid] # None /\ UNCHANGED <<web>>
           /\ \A x \in Tokens : invites'[x] = invites[x]
                                \/ invites'[x].org = sessions[req[r].sid].org
    BY <1>0, <1>2 DEF TypeOK, RepoTypeOK, InviteCreate, CreateInvite, db
  <2> QED
    BY <2>2, <2>3, <2>4
<1> QED
  BY <1>1, <1>2 DEF GrantingStep

\* An organisation being founded is still empty.
THEOREM MembershipInvariant == Spec => []MembershipInv
<1>1. Init => FoundingIsFirst
  BY DEF Init, FoundingIsFirst, Idle
<1>2. MembershipInv /\ [Next]_vars => FoundingIsFirst'
  BY MostQuiet, QuietKeepsFirst, FoundingKeepsFirst, GrantingKeepsFirst DEF MembershipInv
<1> QED
  BY <1>1, <1>2, OnboardingStarts, OnboardingStep, PTL DEF Spec, MembershipInv

-----------------------------------------------------------------------------
(* The refinement. *)

\* The quiet steps create a user, or nothing the promise is about.
LEMMA QuietPromise ==
    ASSUME Quiet PROVE [Promise!Next]_Promise!mvars
<1>1. Offers' = Offers
  BY OffersKept DEF Quiet, QuietRows
<1>2. CASE users' = users
  BY <1>1, <1>2 DEF Quiet, QuietRows, Promise!mvars
<1>3. CASE \E u \in Names : users' = users \cup {u}
  BY <1>1, <1>3 DEF Quiet, QuietRows, Promise!Next, Promise!Register
<1> QED
  BY <1>2, <1>3 DEF Quiet, QuietRows

LEMMA FoundingPromise ==
    ASSUME MembershipInv, NEW r \in Reqs, FoundingStep(r)
    PROVE  [Promise!Next]_Promise!mvars
<1>0. TypeOK /\ OnboardingInv /\ FoundingIsFirst
  BY DEF MembershipInv, OnboardingInv
<1> DEFINE c == req[r]
<1>1. CASE SignupCredential(r) \/ SignupOrgMissing(r)
  BY <1>1 DEF SignupCredential, SignupOrgMissing, CreateLocalCredential, db, ghosts, Offers,
              Promise!mvars
<1>2. CASE SignupCreateOrg(r)
  <2>1. c.user \in users /\ c.user \in Names /\ c.org \in Slugs
    BY <1>0, <1>2, FoundingShape DEF SignupCreateOrg, Founding, UserExists
  <2>2. CASE OrgExists(c.org)
    BY <1>2, <2>2 DEF SignupCreateOrg, db, ghosts, Offers, Promise!mvars
  <2>3. CASE ~OrgExists(c.org)
    <3>1. founder[c.org] = None
      BY <1>0, <2>1, <2>3, UnfoundedIsEmpty
    <3>2. Promise!Found(c.org, c.user)
      BY <1>2, <2>1, <2>3, <3>1 DEF SignupCreateOrg, CreateOrg, Offers, Promise!Found
    <3> QED
      BY <2>1, <3>2 DEF Promise!Next
  <2> QED
    BY <2>2, <2>3
<1>3. CASE SignupMember(r)
  <2>1. c.user \in Names /\ c.org \in Slugs /\ founder[c.org] = c.user
    BY <1>0, <1>3, FoundingShape DEF SignupMember, Founding
  <2>2. ~Promise!HasMembers(c.org)
    BY <1>0, <1>3 DEF SignupMember, FoundingIsFirst, IsMember, Promise!HasMembers
  <2>3. Promise!Own(c.org)
    BY <1>3, <2>1, <2>2 DEF SignupMember, EnsureMembership, ghosts, Offers, Promise!Own
  <2> QED
    BY <2>1, <2>3 DEF Promise!Next
<1> QED
  BY <1>1, <1>2, <1>3 DEF FoundingStep

LEMMA GrantingPromise ==
    ASSUME MembershipInv, NEW r \in Reqs, GrantingStep(r)
    PROVE  [Promise!Next]_Promise!mvars
<1>0. TypeOK /\ OnboardingInv
  BY DEF MembershipInv, OnboardingInv
<1>1. CASE AcceptMember(r)
  <2> DEFINE inv == invites[req[r].token]
             f == [org |-> inv.org, email |-> inv.email, role |-> inv.role]
  <2>1. f \in Offers /\ inv.email \in users
    BY <1>0, <1>1, GrantingShape DEF Offers, UserExists
  <2>2. Promise!Join(f)
    BY <1>1, <2>1 DEF AcceptMember, EnsureMembership, ghosts, Offers, Promise!Join
  <2> QED
    BY <2>1, <2>2 DEF Promise!Next
<1>2. ASSUME NEW t \in Tokens, InviteCreate(r, t) PROVE [Promise!Next]_Promise!mvars
  <2> DEFINE sess == sessions[req[r].sid]
             role == InvitedRole(req[r].role)
             f == [org |-> sess.org, email |-> req[r].email, role |-> role]
  <2>1. CASE UNCHANGED db
    BY <1>2, <2>1 DEF InviteCreate, db, ghosts, Offers, Promise!mvars
  <2>2. CASE ~(sess = None \/ req[r].email = Blank \/ ~MayInvite(role))
    <3>1. req[r].sid \in Sids /\ req[r].email \in Names
      BY <1>0, <1>2, <2>2, Shapes DEF TypeOK, ReqTypeOK, InviteCreate, InviteAt, InviteReq
    <3>2. /\ sess.user \in Names /\ sess.org \in Slugs
          /\ IsMember(sess.org, sess.user)
      BY <1>0, <2>2, <3>1 DEF OnboardingInv, TypeOK, Table!TableTypeOK, TablesOK,
                              SessionsAreBacked, Session
    <3>3. Promise!HasMembers(sess.org)
      BY <3>2 DEF IsMember, Promise!HasMembers
    <3>4. f \in Promise!Offer
      BY <2>2, <3>1, <3>2 DEF MayInvite, Roles, Promise!Offer
    <3> DEFINE new == [org |-> sess.org, inviter |-> sess.user, email |-> req[r].email,
                       role |-> role, used |-> FALSE, lapsed |-> FALSE]
    <3>5. /\ invites[t] = None /\ invites' = [invites EXCEPT ![t] = new]
          /\ UNCHANGED <<users, members, founder>>
      BY <1>2, <2>2 DEF InviteCreate, CreateInvite, ghosts
    <3>6. new \in Invite
      BY <2>2, <3>1, <3>2 DEF MayInvite, Roles, Invite
    <3>7. new # None /\ invites \in [Tokens -> Invite \cup {None}]
      BY <1>0, <3>6 DEF TypeOK, RepoTypeOK
    <3>8. Offers' = Offers \cup {[org |-> new.org, email |-> new.email, role |-> new.role]}
      <4> HIDE DEF new
      <4> QED
        BY <3>5, <3>7 DEF Offers
    <3>9. Promise!Invite(f)
      BY <3>3, <3>5, <3>8 DEF Promise!Invite
    <3> QED
      BY <3>4, <3>9 DEF Promise!Next
  <2> QED
    BY <1>2, <2>1, <2>2 DEF InviteCreate
<1> QED
  BY <1>1, <1>2 DEF GrantingStep

\* Every step of the service is a step of the promise, or none of its concern.
THEOREM ServiceKeepsPromise == Spec => MembershipSpec
<1>1. Init => Promise!Init
  BY DEF Init, RepoInit, Offers, Promise!Init
<1>2. MembershipInv /\ [Next]_vars => [Promise!Next]_Promise!mvars
  BY MostQuiet, QuietPromise, FoundingPromise, GrantingPromise DEF MembershipInv
<1> QED
  BY <1>1, <1>2, MembershipInvariant, PTL DEF Spec, MembershipSpec, Promise!Spec

-----------------------------------------------------------------------------
(* The stranded. *)

\* Only a signup that got its credential, or an acceptance, makes a user a member.
LEMMA StrandedStep ==
    ASSUME OnboardingInv, [Next]_vars, NEW u \in Names, Stranded(u), ~Stranded(u)'
    PROVE  \E r \in Reqs : AcceptMember(r) /\ invites[req[r].token].email = u
<1>0. TypeOK /\ RepoTypeOK /\ Grows
  BY TypeStep DEF OnboardingInv, TypeOK
<1>1. credentials'[u] # None
  BY <1>0 DEF Stranded, Grows, DbGrows
<1>2. \/ \E o \in Slugs : members'[o][u] # None
      \/ \E r \in Reqs : req'[r].at \in Founding /\ req'[r].user = u
  BY <1>1 DEF Stranded, IsMember, Founding
<1>3. /\ \A o \in Slugs : members[o][u] = None
      /\ \A r \in Reqs : req[r].at \in Founding => req[r].user # u
  BY DEF Stranded, IsMember, Founding
<1>4. ~Quiet
  BY <1>2, <1>3 DEF Quiet, QuietRows, QuietReq
<1>5. ASSUME NEW r \in Reqs, FoundingStep(r) PROVE FALSE
  <2>1. req[r].at \in SignupAt /\ req[r] \in SignupReq
    BY <1>0, <1>5, Shapes DEF TypeOK, ReqTypeOK, FoundingStep, SignupCredential,
       SignupOrgMissing, SignupCreateOrg, SignupMember, SignupAt
  <2>2. \A q \in Reqs \ {r} : req'[q] = req[q]
    BY <1>0, <1>5, Moves DEF FoundingStep, SignupCredential, SignupOrgMissing,
       SignupCreateOrg, SignupMember
  <2>3. req'[r] = Idle \/ req'[r].user = req[r].user
    <3>1. \A at : [req[r] EXCEPT !.at = at].user = req[r].user
      BY <2>1 DEF SignupReq
    <3>2. Finish(r) \/ \E at : Goto(r, at)
      BY <1>5 DEF FoundingStep, SignupCredential, SignupOrgMissing, SignupCreateOrg,
                  SignupMember
    <3> QED
      BY <1>0, <3>1, <3>2, Moves
  <2>4. SignupMember(r) \/ members' = members
    BY <1>5 DEF FoundingStep, SignupCredential, SignupOrgMissing, SignupCreateOrg,
                CreateLocalCredential, CreateOrg, db
  <2>5. CASE SignupMember(r)
    <3>1. req[r].user # u /\ req[r].user \in Names /\ req[r].org \in Slugs
      BY <1>3, <2>1, <2>5 DEF SignupMember, Founding, SignupReq
    <3>2. \A o \in Slugs : members'[o][u] = members[o][u]
      BY <1>0, <2>5, <3>1 DEF SignupMember, EnsureMembership, RepoTypeOK
    <3> QED
      BY <1>2, <1>3, <2>2, <2>3, <3>1, <3>2 DEF Idle, Founding
  <2>6. CASE SignupCredential(r)
    <3>1. req[r].user = u => req'[r] = Idle
      BY <1>0, <2>6, Moves DEF SignupCredential, CredentialFits, Stranded
    <3> QED
      BY <1>2, <1>3, <2>2, <2>3, <2>4, <2>6, <3>1 DEF Idle, Founding, SignupMember, SignupCredential
  <2>7. CASE SignupOrgMissing(r) \/ SignupCreateOrg(r)
    <3>1. req[r].at \in Founding /\ ~SignupMember(r)
      BY <2>7 DEF SignupOrgMissing, SignupCreateOrg, SignupMember, Founding
    <3> QED
      BY <1>2, <1>3, <2>2, <2>3, <2>4, <3>1 DEF Idle, Founding
  <2> QED
    BY <1>5, <2>5, <2>6, <2>7 DEF FoundingStep
<1>6. ASSUME NEW r \in Reqs, GrantingStep(r)
      PROVE  AcceptMember(r) /\ invites[req[r].token].email = u
  <2>1. \A q \in Reqs : req'[q].at \in Founding => req'[q] = req[q]
    <3>1. CASE AcceptMember(r)
      <4>1. req[r] \in AcceptReq
        BY <1>0, <3>1, Shapes DEF TypeOK, ReqTypeOK, AcceptMember, AcceptAt
      <4>2. Goto(r, "accept.use")
        BY <3>1 DEF AcceptMember
      <4>3. /\ req'[r] = [req[r] EXCEPT !.at = "accept.use"]
            /\ \A q \in Reqs \ {r} : req'[q] = req[q]
        BY <1>0, <4>2, Moves
      <4>4. req'[r].at \notin Founding
        BY <4>1, <4>3 DEF AcceptReq, Founding
      <4> QED
        BY <4>3, <4>4
    <3>2. CASE \E t \in Tokens : InviteCreate(r, t)
      <4>1. Finish(r)
        BY <3>2 DEF InviteCreate
      <4> QED
        BY <1>0, <4>1, Moves DEF Idle, Founding
    <3> QED
      BY <1>6, <3>1, <3>2 DEF GrantingStep
  <2>2. PICK o \in Slugs : members'[o][u] # None
    BY <1>2, <1>3, <2>1
  <2>3. AcceptMember(r)
    <3>1. \A t \in Tokens : InviteCreate(r, t) => members' = members
      BY DEF InviteCreate, CreateInvite, db
    <3> QED
      BY <1>3, <1>6, <2>2, <3>1 DEF GrantingStep
  <2> DEFINE inv == invites[req[r].token]
  <2>4. members' = [members EXCEPT ![inv.org] = [members[inv.org] EXCEPT ![inv.email] = inv.role]]
    BY <2>3 DEF AcceptMember, EnsureMembership
  <2>5. members[o] \in [Names -> Roles \cup {None}] /\ members \in [Slugs -> [Names -> Roles \cup {None}]]
    BY <1>0 DEF RepoTypeOK
  <2>6. inv.email # u => members'[o][u] = members[o][u]
    <3> HIDE DEF inv
    <3> QED
      BY <2>4, <2>5
  <2> QED
    BY <1>3, <2>2, <2>3, <2>6
<1> QED
  BY <1>4, <1>5, <1>6, MostQuiet

\* A user whom a signup left with a credential and no organisation gets one by
\* accepting an invite and in no other way.
THEOREM OnlyInvitesHelp == Spec => StrandedUntilInvited
<1>1. OnboardingInv /\ [Next]_vars =>
        [\A u \in Names : Stranded(u) /\ ~Stranded(u)' =>
            \E r \in Reqs : AcceptMember(r) /\ invites[req[r].token].email = u]_vars
  BY StrandedStep
<1> QED
  BY <1>1, OnboardingInvariant, PTL DEF Spec, StrandedUntilInvited
=============================================================================
