------------------------------- MODULE Directory -------------------------------
(***************************************************************************)
(* What the service shows of its users: POST /users/search, which is asked  *)
(* for one page after another, GET /auth/me and /auth/me/full, and the      *)
(* users table they read, which sign-ups, PUT /auth/profile and linking     *)
(* write meanwhile.  Who is there and who belongs to which organisation     *)
(* changes as module Membership says.                                      *)
(*                                                                         *)
(* A session is a user and an organisation the user is a member of, as      *)
(* SessionsAreBacked of Onboarding says.  Nobody is removed, so RequireAuth *)
(* finds the user again; GetUserByID of the two profile handlers, whose     *)
(* error they ignore, only decides which of two reads of the user's row     *)
(* they show, and is left out with the identities and the last login.       *)
(***************************************************************************)
EXTENDS Integers, FiniteSets, Functions

CONSTANTS Names, Slugs, Roles, Seed, None,   \* see Membership
          Clients,      \* browsers, each with one request at a time
          Texts,        \* names, URLs, numbers and countries, without outer spaces
          Blank,        \* the empty one
          SeedName,     \* the name migration 003 gives its user
          Times,        \* created_at
          Signups,      \* <<user, name>> of the signups and of the invites, whose name is blank
          Offered,      \* the invites that are made
          Pictures,     \* <<user, picture>> of the identities that are linked
          Patches,      \* the bodies of PUT /auth/profile
          Searches,     \* the filterFields a search sends
          PageSizes,    \* and the pageSize, None when it sends none
          MaxPage,      \* 100
          DefaultPage   \* 10

VARIABLES users, founder, members, offers,   \* see Membership
          created,  \* users.created_at
          profile,  \* the columns of users that may change
          req       \* what each client is doing

mvars == <<users, founder, members, offers>>
dvars == <<mvars, created, profile, req>>

Membership == INSTANCE Membership

Fields == {"name", "avatar_url", "phone", "country"}

\* A field and its operation and value, as the set of strings these accept;
\* a field the query does not recognise has no column.
Term == [column : {"email", "name", None}, accepts : SUBSET (Names \cup Texts)]

ASSUME DirectoryConstants ==
    /\ IsFiniteSet(Names)
    /\ "Owner" \in Roles
    /\ Seed \in [Slugs -> Names \cup {None}]
    /\ {Blank, SeedName} \subseteq Texts
    /\ Times \subseteq Nat /\ Times # {}
    /\ Signups \subseteq Names \X Texts /\ Pictures \subseteq Names \X Texts
    /\ Offered \subseteq [org : Slugs, email : Names, role : Roles \ {"Owner"}]
    /\ \A p \in Patches : \E fs \in SUBSET Fields : p \in [fs -> Texts]
    /\ Searches \subseteq SUBSET (SUBSET Term)
    /\ PageSizes \subseteq Int \cup {None}
    /\ MaxPage \in Nat \ {0} /\ DefaultPage \in 1 .. MaxPage
    /\ None \notin Names \cup Roles

Idle == [at |-> "idle"]

\* A client that asks for page after page: the users it has seen and, a ghost,
\* the ones who were members when it began.
Walk == [at : {"search", "searched"}, org : Slugs, filters : Searches,
         size : PageSizes, page : Nat, seen : SUBSET Names, since : SUBSET Names]

\* /auth/me/full, or /auth/me, which answers after the first query.
Me == [at : {"me.role", "me.orgs", "me.answer"}, full : BOOLEAN, user : Names,
       org : Slugs, role : Roles \cup {None}, orgs : {None} \cup SUBSET Slugs]

IsMember(o, u) == members[o][u] # None

Init ==
    /\ Membership!Init
    /\ \E t \in Times : created = [u \in Names |-> t]
    /\ profile = [u \in Names |-> [f \in Fields |->
                     IF f = "name" /\ u \in users THEN SeedName ELSE Blank]]
    /\ req = [c \in Clients |-> Idle]

-----------------------------------------------------------------------------
(* Writing the users table. *)

\* Mutant: ON CONFLICT (email) DO UPDATE SET name = EXCLUDED.name.
UpsertUserRenames(u, name) ==
    /\ Membership!Register(u)
    /\ profile' = [profile EXCEPT ![u] = [@ EXCEPT !["name"] = name]]
    /\ UNCHANGED <<created, req>>

\* UpsertUserByVerifiedEmail, of a signup or of an accepted invite, which has no
\* name: name = COALESCE(users.name, EXCLUDED.name), and a stored name is never
\* NULL.  now() is the start of the transaction: rows may appear out of order.
UpsertUser(u, name) ==
    /\ Membership!Register(u)
    /\ IF u \in users THEN UNCHANGED <<created, profile>>
       ELSE /\ \E t \in Times : created' = [created EXCEPT ![u] = t]
            /\ profile' = [profile EXCEPT ![u] = [@ EXCEPT !["name"] = name]]
    /\ UNCHANGED req

\* Mutant: the row is replaced.
PatchedOnly(row, patch) == patch

\* UpdateUserProfile: COALESCE keeps every column the body does not give.
Patched(row, patch) == [f \in Fields |-> IF f \in DOMAIN patch THEN patch[f] ELSE row[f]]

\* PUT /auth/profile.
UpdateProfile(u, patch) ==
    /\ \E o \in Slugs : IsMember(o, u)
    /\ profile' = [profile EXCEPT ![u] = Patched(profile[u], patch)]
    /\ UNCHANGED <<mvars, created, req>>

\* Linking an identity saves the picture its provider gave, if any.
LinkSavesPicture(u, picture) ==
    /\ u \in users
    /\ picture # Blank
    /\ profile' = [profile EXCEPT ![u] = Patched(profile[u], [f \in {"avatar_url"} |-> picture])]
    /\ UNCHANGED <<mvars, created, req>>

-----------------------------------------------------------------------------
(* POST /users/search: the query SearchOrgUsers. *)

Column(u, column) == IF column = "email" THEN u ELSE profile[u]["name"]

\* A group holds if one of its terms does; a group without a recognised field
\* is ignored.
Matches(u, filters) ==
    \A group \in filters :
        \/ \A term \in group : term.column = None
        \/ \E term \in group : /\ term.column # None
                               /\ Column(u, term.column) \in term.accepts

Found(o, filters) == {u \in Names : IsMember(o, u) /\ Matches(u, filters)}

\* ORDER BY created_at DESC: equal times may come in any order, every time.
Listings(rows) ==
    {list \in Bijection(1 .. Cardinality(rows), rows) :
        \A i, j \in DOMAIN list : i < j => created[list[i]] >= created[list[j]]}

Least(a, b) == IF a < b THEN a ELSE b

\* GREATEST(1, LEAST(COALESCE(pageSize, 10), 100)).
PageSize(size) ==
    LET asked == IF size = None THEN DefaultPage ELSE size
    IN  IF asked < 1 THEN 1 ELSE Least(asked, MaxPage)

\* Mutant: OFFSET takes pageSize as it was asked for.
OffsetUnclamped(size, page) == page * (IF size = None THEN DefaultPage ELSE size)

\* OFFSET page_size * page_num.
Offset(size, page) == page * PageSize(size)

SearchBegin(c, o, filters, size) ==
    /\ req[c] = Idle
    /\ \E u \in Names : IsMember(o, u)
    /\ req' = [req EXCEPT ![c] =
                  [at |-> "search", org |-> o, filters |-> filters, size |-> size,
                   page |-> 0, seen |-> {}, since |-> {v \in Names : IsMember(o, v)}]]
    /\ UNCHANGED <<mvars, created, profile>>

\* A client that asks for the next page until it gets an empty one.
SearchPage(c) ==
    LET w == req[c]
        rows == Found(w.org, w.filters)
        first == Offset(w.size, w.page)
    IN  /\ w.at = "search"
        /\ \E list \in Listings(rows) :
              LET page == {list[i] : i \in {j \in DOMAIN list :
                                      first < j /\ j <= first + PageSize(w.size)}}
              IN  req' = [req EXCEPT ![c] =
                             IF page = {} THEN [w EXCEPT !.at = "searched"]
                             ELSE [w EXCEPT !.page = w.page + 1, !.seen = w.seen \cup page]]
        /\ UNCHANGED <<mvars, created, profile>>

-----------------------------------------------------------------------------
(* GET /auth/me and /auth/me/full. *)

MeBegin(c, u, o, full) ==
    /\ req[c] = Idle
    /\ IsMember(o, u)
    /\ req' = [req EXCEPT ![c] = [at |-> "me.role", full |-> full, user |-> u, org |-> o,
                                  role |-> None, orgs |-> None]]
    /\ UNCHANGED <<mvars, created, profile>>

\* GetUserWithOrgAndRole: without a membership the role is NULL, which does not
\* scan into a string.
MeRole(c) ==
    LET m == req[c] IN
    /\ m.at = "me.role"
    /\ req' = [req EXCEPT ![c] =
                  IF ~IsMember(m.org, m.user) THEN Idle
                  ELSE [m EXCEPT !.role = members[m.org][m.user],
                                 !.at = IF m.full THEN "me.orgs" ELSE "me.answer"]]
    /\ UNCHANGED <<mvars, created, profile>>

\* Mutant: the join goes to the organisations the user founded.
OrgsFounded(u) == {o \in Slugs : founder[o] = u}

\* ListUserOrgs.
OrgsOf(u) == {o \in Slugs : IsMember(o, u)}

\* An error of ListUserOrgs is ignored: the answer has no organisations then.
MeOrgs(c) ==
    LET m == req[c] IN
    /\ m.at = "me.orgs"
    /\ \E orgs \in {OrgsOf(m.user), None} :
          req' = [req EXCEPT ![c] = [m EXCEPT !.orgs = orgs, !.at = "me.answer"]]
    /\ UNCHANGED <<mvars, created, profile>>

\* A request fails, its session ends, or the client has what it wanted.
Leave(c) ==
    /\ req[c] # Idle
    /\ req' = [req EXCEPT ![c] = Idle]
    /\ UNCHANGED <<mvars, created, profile>>

Next ==
    \/ \E s \in Signups : UpsertUser(s[1], s[2])
    \/ /\ \/ \E o \in Slugs, u \in Names : Membership!Found(o, u)
          \/ \E o \in Slugs : Membership!Own(o)
          \/ \E f \in Offered : Membership!Invite(f)
          \/ \E f \in offers : Membership!Join(f)
       /\ UNCHANGED <<created, profile, req>>
    \/ \E u \in Names, patch \in Patches : UpdateProfile(u, patch)
    \/ \E p \in Pictures : LinkSavesPicture(p[1], p[2])
    \/ \E c \in Clients, o \in Slugs :
          \/ \E filters \in Searches, size \in PageSizes : SearchBegin(c, o, filters, size)
          \/ \E u \in Names, full \in BOOLEAN : MeBegin(c, u, o, full)
    \/ \E c \in Clients : SearchPage(c) \/ MeRole(c) \/ MeOrgs(c) \/ Leave(c)

Spec == Init /\ [][Next]_dvars

-----------------------------------------------------------------------------
\* Type invariant: the users table and what the clients have in hand.
TypeOK ==
    /\ users \in SUBSET Names
    /\ members \in [Slugs -> [Names -> Roles \cup {None}]]
    /\ created \in [Names -> Times]
    /\ profile \in [Names -> [Fields -> Texts]]
    /\ req \in [Clients -> {Idle} \cup Walk \cup Me]

\* What a filter promises: every group that names a field it knows is satisfied.
ByName(filters) == \E group \in filters : \E term \in group : term.column = "name"

\* Nobody else in the organisation was created at the same time.
Alone(u, o) == \A v \in Names \ {u} : IsMember(o, v) => created[v] # created[u]

\* A client that walks through all pages misses no one who was a member when it
\* began, although others join meanwhile and every page is a query of its own:
\* unless the filter looks at names, which change, or the order is not
\* determined because somebody was created at the same time.
WalkSeesEveryone ==
    \A c \in Clients : req[c].at = "searched" =>
        \A u \in req[c].since :
            /\ ~ByName(req[c].filters) /\ Matches(u, req[c].filters)
            /\ Alone(u, req[c].org)
            => u \in req[c].seen

\* The organisations of a full profile are read after the session was accepted
\* and include the session's, which its user holds a role in.
AnswersAreCoherent ==
    \A c \in Clients : req[c].at = "me.answer" =>
        /\ req[c].role # None
        /\ req[c].orgs # None => req[c].org \in req[c].orgs

\* A column of a user there is changes only because its owner, signed in, sent
\* that column or linked an identity that came with a picture: neither another
\* signup or invite under the same email nor a body that leaves it out.
ProfilesAreTheirOwners ==
    [][\A u \in users, f \in Fields : profile'[u][f] # profile[u][f] =>
          \/ \E patch \in Patches : f \in DOMAIN patch /\ UpdateProfile(u, patch)
          \/ f = "avatar_url" /\ profile'[u][f] # Blank /\ UNCHANGED mvars]_dvars
=============================================================================
