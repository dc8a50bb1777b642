----------------------------- MODULE Membership -----------------------------
(***************************************************************************)
(* What the service promises about organisations, without requests,        *)
(* sessions or tokens: users, founded organisations, the offers made on    *)
(* behalf of a founder, and the roles that come from founding or an offer. *)
(* Nobody is removed.  Module Onboarding implements this specification,    *)
(* and module Directory searches and shows what it describes.              *)
(***************************************************************************)
CONSTANTS Names, Slugs, Roles,
          Seed,    \* the organisations there are at first: a founder, or None
          None

VARIABLES users,    \* the users there are
          founder,  \* the user who founded each organisation, or None
          members,  \* the role of each user in each organisation, or None
          offers    \* the memberships that have been offered

mvars == <<users, founder, members, offers>>

Offer == [org : Slugs, email : Names, role : Roles \ {"Owner"}]

HasMembers(o) == \E u \in Names : members[o][u] # None

\* The seed migration has run.
Init ==
    /\ users = {u \in Names : \E o \in Slugs : Seed[o] = u}
    /\ founder = Seed
    /\ members = [o \in Slugs |-> [u \in Names |-> IF Seed[o] = u THEN "Owner" ELSE None]]
    /\ offers = {}

\* A signup, or the acceptance of an invite, creates a user.
Register(u) ==
    /\ users' = users \cup {u}
    /\ UNCHANGED <<founder, members, offers>>

\* A signup creates an organisation.
Found(o, u) ==
    /\ u \in users
    /\ founder[o] = None
    /\ founder' = [founder EXCEPT ![o] = u]
    /\ UNCHANGED <<users, members, offers>>

\* Its founder becomes its first member, if the signup lives to see it.
Own(o) ==
    /\ founder[o] # None
    /\ ~HasMembers(o)
    /\ members' = [members EXCEPT ![o] = [members[o] EXCEPT ![founder[o]] = "Owner"]]
    /\ UNCHANGED <<users, founder, offers>>

\* A membership is offered on behalf of the founder.
Invite(f) ==
    /\ HasMembers(f.org)
    /\ offers' = offers \cup {f}
    /\ UNCHANGED <<users, founder, members>>

\* An offer is taken, for the first time or again; it replaces a role.
Join(f) ==
    /\ f.email \in users
    /\ members' = [members EXCEPT ![f.org] = [members[f.org] EXCEPT ![f.email] = f.role]]
    /\ UNCHANGED <<users, founder, offers>>

Next ==
    \/ \E u \in Names : Register(u)
    \/ \E o \in Slugs, u \in Names : Found(o, u)
    \/ \E o \in Slugs : Own(o)
    \/ \E f \in Offer : Invite(f)
    \/ \E f \in offers : Join(f)

Spec == Init /\ [][Next]_mvars
=============================================================================
