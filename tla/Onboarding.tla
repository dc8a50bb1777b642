----------------------------- MODULE Onboarding -----------------------------
(***************************************************************************)
(* The service: local accounts, invites and provider sign-in served        *)
(* concurrently over one database, one session table and one table of      *)
(* pending links, with failing requests, process crashes and expiries.     *)
(***************************************************************************)
EXTENDS LocalAuth, Invites, ProviderAuth

Init ==
    /\ RepoInit
    /\ Table!TableInit /\ Pending!TableInit
    /\ req = [r \in Reqs |-> Idle]
    /\ founder = Seed
    /\ enrolled = [u \in Names |-> {}]
    /\ asserted = [i \in Identities |-> {}]

Next ==
    \/ LocalAuthNext
    \/ InvitesNext
    \/ ProviderAuthNext
    \/ \E r \in Reqs : RequestFails(r)
    \/ \E s \in Sids : SessionExpires(s)
    \/ \E t \in Tokens : InviteExpires(t)
    \/ \E t \in LinkTokens : PendingExpires(t)
    \/ Crash

Spec == Init /\ [][Next]_vars

-----------------------------------------------------------------------------
Request == {Idle} \cup SignupReq \cup LoginReq \cup TotpReq \cup PasswordReq
           \cup InviteReq \cup AcceptReq \cup CallbackReq \cup LinkReq \cup ProviderReq

\* Type invariant: the tables, the session table and the handlers in flight.
TypeOK ==
    /\ RepoTypeOK
    /\ Table!TableTypeOK /\ Pending!TableTypeOK
    /\ req \in [Reqs -> Request]
    /\ founder \in [Slugs -> Names \cup {None}]
    /\ enrolled \in [Names -> SUBSET Secrets]
    /\ asserted \in [Identities -> SUBSET (Names \cup {Blank})]

\* An organisation's only Owner is the user whose signup created it: neither
\* two signups racing for a slug nor an invite makes another one.  (Here and
\* below the seed migration counts as the signup of the organisations it makes.)
OwnerIsFounder ==
    \A o \in Slugs, u \in Names : members[o][u] = "Owner" => founder[o] = u

\* Every role in an organisation was earned: its holder founded it, or was
\* invited to exactly that role by the founder, while the role and the session
\* of the inviter were checked in two different steps.
RolesAreEarned ==
    \A o \in Slugs, u \in Names : IsMember(o, u) =>
        \/ founder[o] = u /\ members[o][u] = "Owner"
        \/ \E t \in Tokens :
              /\ invites[t] # None
              /\ invites[t].org = o /\ invites[t].email = u
              /\ invites[t].role = members[o][u]
              /\ invites[t].inviter = founder[o]

\* A session never outruns the rows it stands for, whatever request or process
\* died half way: its user and organisation exist, the user is a member, and
\* unless it came from an invite, the user has a local credential.
SessionsAreBacked ==
    \A s \in Sids : sessions[s] # None =>
        LET sess == sessions[s] IN
        /\ UserExists(sess.user)
        /\ OrgExists(sess.org)
        /\ IsMember(sess.org, sess.user)
        /\ sess.provider # "invite" => credentials[sess.user] # None

\* An invite is never burnt for nothing: if it is marked used, its addressee
\* is a member of the organisation, also when the accepting request or the
\* process died between the two statements.
UsedInviteGrantedMembership ==
    \A t \in Tokens : invites[t] # None /\ invites[t].used =>
        IsMember(invites[t].org, invites[t].email)

\* The steps of a login and of a link after their MFA step.
PastMFA == {"login.org", "login.session", "login.record",
            "link.identity", "link.insert", "link.forget",
            "provider.org", "provider.session", "provider.record"}

\* A login or a link that passed the password check of a user with TOTP enabled
\* gets past the MFA step only with a code of a secret stored for that user,
\* even if the secret is replaced while the request is under way.
PasswordLoginsHonourTOTP ==
    \A r \in Reqs : req[r].at \in PastMFA /\ req[r].due # None =>
        req[r].code \in enrolled[req[r].user]

\* An identity is linked only to a user whose email its provider gave for it,
\* however callbacks, pending links and link requests of several users overlap.
LinksWereAsserted ==
    \A i \in Identities : identities[i] # None => identities[i] \in asserted[i]

\* A session of a provider belongs to a user with a linked identity of that
\* provider: a known email alone does not sign anybody in.
ProviderSessionsAreLinked ==
    \A s \in Sids : sessions[s] # None /\ sessions[s].provider \in Providers =>
        \E i \in Identities : /\ ProviderOf[i] = sessions[s].provider
                              /\ identities[i] = sessions[s].user

\* With TOTP required of local sessions, whoever has created an invite is enrolled,
\* or is vouched for by a provider, although only local sessions are asked for
\* TOTP: the session of an accepted invite is not, but it belongs to no Owner who
\* was not let through before.
InvitersAreEnrolled ==
    \A t \in Tokens : invites[t] # None =>
        \/ HasTOTP(invites[t].inviter)
        \/ \E i \in Identities : identities[i] = invites[t].inviter

\* A credential without a membership, and no signup on the way to one: what a
\* signup leaves that is answered "org_exists" or dies.
Stranded(u) ==
    /\ credentials[u] # None
    /\ \A o \in Slugs : ~IsMember(o, u)
    /\ \A r \in Reqs : req[r].at \in {"signup.find", "signup.org", "signup.member"} =>
                         req[r].user # u

\* Who is stranded can only be helped by an invite: neither another signup with
\* the same or another name, nor any login or link gets the user a membership.
StrandedUntilInvited ==
    [][\A u \in Names : Stranded(u) /\ ~Stranded(u)' =>
          \E r \in Reqs : AcceptMember(r) /\ invites[req[r].token].email = u]_vars

\* Whatever requests and processes do, founding, inviting and joining happen in
\* the order and under the conditions of module Membership: an organisation is
\* founded once, owned before it invites, and joined by invitation only.
Offers ==
    {[org |-> invites[t].org, email |-> invites[t].email, role |-> invites[t].role] :
        t \in {x \in Tokens : invites[x] # None}}
Promise == INSTANCE Membership WITH offers <- Offers
MembershipSpec == Promise!Spec

-----------------------------------------------------------------------------
(* What comments, messages and docs of the repository say and the code does *)
(* not guarantee.                                                           *)

\* "Returns a one-time token": the acceptance that marks an invite used is the
\* first one to do so.
InviteIsOneTime ==
    [][\A r \in Reqs : AcceptUse(r) => ~invites[req[r].token].used]_vars

\* "sets or updates the local password for the current user session": after
\* the update the user can log in with the new password.
SetPasswordTakesEffect ==
    [][\A r \in Reqs : PasswordUpdate(r) =>
          LET row == credentials'[req[r].user] IN
          row # None /\ VerifyPassword(req[r].pw, row.hash)]_vars
=============================================================================
