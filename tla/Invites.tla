------------------------------ MODULE Invites -------------------------------
(***************************************************************************)
(* internal/auth/invite.go with the middleware mounted in front of         *)
(* POST /auth/invite (RequireAuth, RequireRole(Owner)): creating an invite *)
(* and accepting one, one action per repository call or session-table      *)
(* operation.                                                              *)
(***************************************************************************)
EXTENDS MFAEnforce

CONSTANT RoleInputs    \* the "role" field of POST /auth/invite, as sent

InviteReq == [at : {"invite.role", "invite.create"}, sid : Sids,
              user : Names, org : Slugs, email : Names \cup {Blank},
              role : RoleInputs]
AcceptReq == [at : {"accept.user", "accept.upsert", "accept.member",
                    "accept.use", "accept.session"}, token : Tokens]

-----------------------------------------------------------------------------
(* POST /auth/invite *)

\* roleLevels of RequireRole.
RoleLevel(role) ==
    CASE role = "Viewer" -> 1 [] role = "Member" -> 2
      [] role = "Admin" -> 3 [] role = "Owner" -> 4

\* Mutant: the route is mounted for Admins too.
RoleAllowedAdmin(role) == role # None /\ RoleLevel(role) >= RoleLevel("Admin")

\* RequireRole(r, models.RoleOwner): no membership row is forbidden too.
RoleAllowed(role) == role # None /\ RoleLevel(role) >= RoleLevel("Owner")

\* An absent role is Member.
InvitedRole(role) == IF role = Blank THEN "Member" ELSE role

\* Mutant: the case that disallows Owner is missing.
MayInviteOwner(role) == role \in Roles

\* Viewer, Member and Admin can be invited; Owner and unknown roles are 400.
MayInvite(role) == role \in {"Viewer", "Member", "Admin"}

\* RequireAuth puts the session behind the cookie s into the context.
InviteBegin(r, s, e, role) ==
    /\ "invite" \in Routes
    /\ sessions[s] # None
    /\ MFAEnforce("invite", s)
    /\ UserExists(sessions[s].user)
    /\ Start(r, [at |-> "invite.role", sid |-> s, user |-> sessions[s].user,
                 org |-> sessions[s].org, email |-> Normal[e], role |-> role])
    /\ UNCHANGED <<db, web, ghosts>>

\* RequireRole asks for the role of the session in the context.
InviteRole(r) ==
    LET c == req[r] IN
    /\ c.at = "invite.role"
    /\ IF RoleAllowed(members[c.org][c.user]) THEN Goto(r, "invite.create") ELSE Finish(r)
    /\ UNCHANGED <<db, web, ghosts>>

\* InviteCreateHandler reads the session behind the cookie again, checks the
\* body and inserts an invite with a fresh token on behalf of that session.
InviteCreate(r, t) ==
    LET c == req[r]
        sess == sessions[c.sid]
        role == InvitedRole(c.role)
    IN  /\ c.at = "invite.create"
        /\ Finish(r)
        /\ IF sess = None \/ c.email = Blank \/ ~MayInvite(role)
           THEN UNCHANGED db
           ELSE /\ invites[t] = None
                /\ CreateInvite(t, sess.org, sess.user, c.email, role)
        /\ UNCHANGED <<web, ghosts>>

-----------------------------------------------------------------------------
(* POST /auth/invite/accept: public, the token is all it asks for *)

\* The invite is neither used nor expired.
AcceptLookup(r, t) ==
    /\ "accept" \in Routes
    /\ invites[t] # None
    /\ ~invites[t].used /\ ~invites[t].lapsed
    /\ Start(r, [at |-> "accept.user", token |-> t])
    /\ UNCHANGED <<db, web, ghosts>>

\* GetUserByEmail; an error counts as "no such user".
AcceptUser(r) ==
    LET exists == UserExists(invites[req[r].token].email) IN
    /\ req[r].at = "accept.user"
    /\ \/ exists /\ Goto(r, "accept.member")
       \/ (~exists \/ QueryErrors) /\ Goto(r, "accept.upsert")
    /\ UNCHANGED <<db, web, ghosts>>

AcceptUpsert(r) ==
    /\ req[r].at = "accept.upsert"
    /\ UpsertUser(invites[req[r].token].email)
    /\ Goto(r, "accept.member")
    /\ UNCHANGED <<web, ghosts>>

\* Mutant: the invite is marked used before the membership is written.
AcceptMemberLast(r) ==
    LET t == req[r].token IN
    /\ req[r].at = "accept.member"
    /\ UseInvite(t)
    /\ Goto(r, "accept.use")
    /\ UNCHANGED <<web, ghosts>>

\* The invited role is granted, whatever role the user has already.
AcceptMember(r) ==
    LET inv == invites[req[r].token] IN
    /\ req[r].at = "accept.member"
    /\ EnsureMembership(inv.org, inv.email, inv.role)
    /\ Goto(r, "accept.use")
    /\ UNCHANGED <<web, ghosts>>

AcceptUse(r) ==
    /\ req[r].at = "accept.use"
    /\ UseInvite(req[r].token)
    /\ Goto(r, "accept.session")
    /\ UNCHANGED <<web, ghosts>>

AcceptSession(r, s) ==
    LET inv == invites[req[r].token] IN
    /\ req[r].at = "accept.session"
    /\ CreateSession(s, [user |-> inv.email, org |-> inv.org, provider |-> "invite"])
    /\ Finish(r)
    /\ UNCHANGED <<db, ghosts>>

-----------------------------------------------------------------------------
InvitesNext ==
    \/ \E r \in Reqs, s \in Sids, e \in EmailInputs, role \in RoleInputs :
          InviteBegin(r, s, e, role)
    \/ \E r \in Reqs, t \in Tokens : InviteCreate(r, t) \/ AcceptLookup(r, t)
    \/ \E r \in Reqs :
          InviteRole(r) \/ AcceptUser(r) \/ AcceptUpsert(r) \/ AcceptMember(r)
          \/ AcceptUse(r)
    \/ \E r \in Reqs, s \in Sids : AcceptSession(r, s)
=============================================================================
