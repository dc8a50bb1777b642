---------------------------- MODULE DirectoryProofs ----------------------------
(***************************************************************************)
(* The properties of module Directory, for any number of users, clients,   *)
(* organisations, filters and page sizes.                                  *)
(***************************************************************************)
EXTENDS Directory, FiniteSetTheorems, TLAPS

USE DirectoryConstants

-----------------------------------------------------------------------------
(* One page of an ordered listing. *)

\* The rows of a search that come before u in every order.
Later(u, o, filters) == {v \in Found(o, filters) : created[v] > created[u]}

LEMMA PageSizeType ==
    ASSUME NEW size \in PageSizes
    PROVE  PageSize(size) \in Nat \ {0}
BY DEF PageSize, Least

\* Where u stands in a listing: right behind the rows created after it.
LEMMA Standing ==
    ASSUME NEW rows, IsFiniteSet(rows), rows \subseteq Names, created \in [Names -> Times],
           NEW list \in Listings(rows), NEW u \in rows,
           \A v \in rows \ {u} : created[v] # created[u]
    PROVE  \E p \in 1 .. Cardinality(rows) :
              /\ list[p] = u
              /\ Cardinality({v \in rows : created[v] > created[u]}) = p - 1
<1>1. Cardinality(rows) \in Nat
  BY FS_CardinalityType
<1> DEFINE n == Cardinality(rows)
           before == {v \in rows : created[v] > created[u]}
<1>2. /\ list \in [1 .. n -> rows]
      /\ \A i, j \in 1 .. n : list[i] = list[j] => i = j
      /\ \A v \in rows : \E i \in 1 .. n : list[i] = v
      /\ \A i, j \in 1 .. n : i < j => created[list[i]] >= created[list[j]]
  BY DEF Listings, Bijection, Injection, IsInjective, Surjection
<1>3. PICK p \in 1 .. n : list[p] = u
  BY <1>2
<1>4. p \in Nat /\ p >= 1 /\ n \in Nat
  BY <1>1
<1>5. \A v \in rows : created[v] \in Nat
  OBVIOUS
<1> DEFINE f == [i \in 1 .. (p - 1) |-> list[i]]
<1>6. f \in Bijection(1 .. (p - 1), before)
  <2>1. ASSUME NEW i \in 1 .. (p - 1)
        PROVE  list[i] \in before
    <3>1. i \in 1 .. n /\ i < p
      BY <1>4
    <3>2. list[i] \in rows /\ list[i] # u
      BY <1>2, <1>3, <3>1
    <3>3. created[list[i]] >= created[u]
      BY <1>2, <1>3, <3>1
    <3> QED
      BY <1>5, <3>2, <3>3
  <2>2. ASSUME NEW v \in before
        PROVE  \E i \in 1 .. (p - 1) : list[i] = v
    <3>1. PICK i \in 1 .. n : list[i] = v
      BY <1>2
    <3>2. i < p
      <4>1. i # p
        BY <1>3, <1>5, <3>1
      <4>2. ~(p < i)
        BY <1>2, <1>3, <1>5, <3>1
      <4> QED
        BY <1>4, <4>1, <4>2
    <3> QED
      BY <1>4, <3>1, <3>2
  <2>3. \A i, j \in 1 .. (p - 1) : list[i] = list[j] => i = j
    BY <1>2, <1>4
  <2>4. f \in [1 .. (p - 1) -> before]
    BY <2>1
  <2> QED
    BY <2>2, <2>3, <2>4 DEF Bijection, Injection, IsInjective, Surjection
<1>7. IsFiniteSet(1 .. (p - 1)) /\ Cardinality(1 .. (p - 1)) = p - 1
  <2>1. \A q \in Nat : IsFiniteSet(1 .. q) /\ Cardinality(1 .. q) = q
    BY FS_Interval
  <2> QED
    BY <1>4, <2>1
<1>8. Cardinality(before) = p - 1
  <2> HIDE DEF f, before
  <2>1. ExistsBijection(1 .. (p - 1), before)
    BY <1>6 DEF ExistsBijection
  <2> QED
    BY <1>7, <2>1, FS_Bijection
<1> QED
  BY <1>3, <1>8

\* A page shows u, or leaves u behind the rows of this page too; and it is not
\* empty unless u is behind it.
LEMMA PageReaches ==
    ASSUME NEW rows, IsFiniteSet(rows), rows \subseteq Names, created \in [Names -> Times],
           NEW list \in Listings(rows), NEW u \in rows,
           \A v \in rows \ {u} : created[v] # created[u],
           NEW first \in Nat, NEW size \in Nat \ {0},
           first <= Cardinality({v \in rows : created[v] > created[u]})
    PROVE  LET page == {list[i] : i \in {j \in DOMAIN list : first < j /\ j <= first + size}}
           IN  /\ page # {}
               /\ \/ u \in page
                  \/ first + size <= Cardinality({v \in rows : created[v] > created[u]})
<1> DEFINE page == {list[i] : i \in {j \in DOMAIN list : first < j /\ j <= first + size}}
           before == {v \in rows : created[v] > created[u]}
<1>1. PICK p \in 1 .. Cardinality(rows) : list[p] = u /\ Cardinality(before) = p - 1
  BY Standing
<1>2. DOMAIN list = 1 .. Cardinality(rows)
  BY DEF Listings, Bijection, Injection
<1>3. Cardinality(rows) \in Nat
  BY FS_CardinalityType
<1>4. first < p /\ p \in Nat /\ p <= Cardinality(rows)
  BY <1>1, <1>3
<1>5. list[first + 1] \in page
  <2>1. first + 1 \in DOMAIN list /\ first < first + 1 /\ first + 1 <= first + size
    BY <1>2, <1>3, <1>4
  <2> QED
    BY <2>1
<1>6. p <= first + size => u \in page
  BY <1>1, <1>2, <1>4
<1>7. ~(p <= first + size) => first + size <= Cardinality(before)
  BY <1>1, <1>4
<1> QED
  BY <1>5, <1>6, <1>7

-----------------------------------------------------------------------------
(* The inductive invariant. *)

\* The part of it that module Membership keeps: members are users, founders too,
\* and nobody offers anything but a role.
RowsOK ==
    /\ founder \in [Slugs -> Names \cup {None}]
    /\ offers \subseteq Offered
    /\ \A o \in Slugs : founder[o] # None => founder[o] \in users
    /\ \A o \in Slugs, u \in Names : IsMember(o, u) => u \in users

\* While a client walks, whoever it must not miss was on a page it has seen, or
\* stands behind all the rows of these pages.
Ahead ==
    \A c \in Clients : req[c].at = "search" =>
        \A u \in req[c].since :
            /\ IsMember(req[c].org, u)
            /\ ~ByName(req[c].filters) /\ Matches(u, req[c].filters) /\ Alone(u, req[c].org)
               => \/ u \in req[c].seen
                  \/ Offset(req[c].size, req[c].page)
                        <= Cardinality(Later(u, req[c].org, req[c].filters))

\* The organisations of a user are not known before the role is.
Begun ==
    \A c \in Clients : req[c] \in Me =>
        /\ req[c].at # "me.role" => req[c].role # None /\ IsMember(req[c].org, req[c].user)
        /\ req[c].orgs # None => req[c].org \in req[c].orgs

\* Who was there when the walk began is there when it ends.
Stayed ==
    \A c \in Clients : req[c].at = "searched" =>
        \A u \in req[c].since : IsMember(req[c].org, u)

DirectoryInv ==
    /\ TypeOK /\ RowsOK
    /\ Ahead /\ Begun /\ Stayed
    /\ WalkSeesEveryone

\* What the users and memberships do: they stay, and a row keeps its time.
Grows ==
    /\ users \subseteq users'
    /\ \A u \in users : created'[u] = created[u]
    /\ \A o \in Slugs, u \in Names : members[o][u] # None => members'[o][u] # None

\* Every step that is not a client's.
Service ==
    \/ \E s \in Signups : UpsertUser(s[1], s[2])
    \/ /\ \/ \E o \in Slugs, u \in Names : Membership!Found(o, u)
          \/ \E o \in Slugs : Membership!Own(o)
          \/ \E f \in Offered : Membership!Invite(f)
          \/ \E f \in offers : Membership!Join(f)
       /\ UNCHANGED <<created, profile, req>>
    \/ \E u \in Names, patch \in Patches : UpdateProfile(u, patch)
    \/ \E p \in Pictures : LinkSavesPicture(p[1], p[2])
    \/ UNCHANGED dvars

LEMMA InitOK == Init => DirectoryInv
<1> SUFFICES ASSUME Init PROVE DirectoryInv
  OBVIOUS
<1> USE DEF Init, Membership!Init
<1>1. TypeOK
  BY DEF TypeOK, Fields
<1>2. RowsOK
  BY DEF RowsOK, IsMember
<1>3. \A c \in Clients : req[c] = Idle /\ Idle \notin Me
  BY DEF Idle, Me
<1> QED
  BY <1>1, <1>2, <1>3 DEF DirectoryInv, Ahead, Begun, Stayed, WalkSeesEveryone, Idle

LEMMA PatchedType ==
    ASSUME NEW row \in [Fields -> Texts], NEW patch \in Patches
    PROVE  Patched(row, patch) \in [Fields -> Texts]
BY DEF Patched

LEMMA ServiceTypes == ASSUME DirectoryInv, Service PROVE TypeOK' /\ RowsOK' /\ UNCHANGED req
<1> USE DEF DirectoryInv, TypeOK, RowsOK, IsMember, mvars
<1>1. CASE \E s \in Signups : UpsertUser(s[1], s[2])
  <2>1. PICK s \in Signups : UpsertUser(s[1], s[2])
    BY <1>1
  <2>2. s[1] \in Names /\ s[2] \in Texts
    OBVIOUS
  <2>3. created' \in [Names -> Times]
    BY <2>1, <2>2 DEF UpsertUser
  <2>4. [profile[s[1]] EXCEPT !["name"] = s[2]] \in [Fields -> Texts]
    BY <2>2
  <2>5. profile' \in [Names -> [Fields -> Texts]]
    <3> DEFINE row == [profile[s[1]] EXCEPT !["name"] = s[2]]
    <3>1. profile' = profile \/ profile' = [profile EXCEPT ![s[1]] = row]
      BY <2>1 DEF UpsertUser
    <3> HIDE DEF row
    <3>2. row \in [Fields -> Texts]
      BY <2>4 DEF row
    <3> QED
      BY <3>1, <3>2
  <2>6. users' = users \cup {s[1]} /\ UNCHANGED <<founder, members, offers, req>>
    BY <2>1 DEF UpsertUser, Membership!Register
  <2>7. TypeOK'
    BY <2>2, <2>3, <2>5, <2>6
  <2>8. RowsOK'
    BY <2>6
  <2> QED
    BY <2>6, <2>7, <2>8
<1>2. ASSUME NEW o \in Slugs, NEW u \in Names, Membership!Found(o, u), UNCHANGED <<created, profile, req>>
      PROVE  TypeOK' /\ RowsOK' /\ UNCHANGED req
  BY <1>2 DEF Membership!Found
<1>3. ASSUME NEW o \in Slugs, Membership!Own(o), UNCHANGED <<created, profile, req>>
      PROVE  TypeOK' /\ RowsOK' /\ UNCHANGED req
  BY <1>3 DEF Membership!Own
<1>4. ASSUME NEW f \in Offered, Membership!Invite(f), UNCHANGED <<created, profile, req>>
      PROVE  TypeOK' /\ RowsOK' /\ UNCHANGED req
  BY <1>4 DEF Membership!Invite
<1>5. ASSUME NEW f \in offers, Membership!Join(f), UNCHANGED <<created, profile, req>>
      PROVE  TypeOK' /\ RowsOK' /\ UNCHANGED req
  BY <1>5 DEF Membership!Join
<1>6. ASSUME NEW u \in Names, NEW patch \in Patches, UpdateProfile(u, patch)
      PROVE  TypeOK' /\ RowsOK' /\ UNCHANGED req
  BY <1>6, PatchedType DEF UpdateProfile
<1>7. ASSUME NEW p \in Pictures, LinkSavesPicture(p[1], p[2])
      PROVE  TypeOK' /\ RowsOK' /\ UNCHANGED req
  <2>1. p[1] \in Names /\ p[2] \in Texts
    OBVIOUS
  <2>2. Patched(profile[p[1]], [f \in {"avatar_url"} |-> p[2]]) \in [Fields -> Texts]
    BY <2>1 DEF Patched
  <2> QED
    BY <1>7, <2>1, <2>2 DEF LinkSavesPicture
<1>8. CASE UNCHANGED dvars
  BY <1>8 DEF dvars
<1> QED
  BY <1>1, <1>2, <1>3, <1>4, <1>5, <1>6, <1>7, <1>8 DEF Service

LEMMA ServiceGrows == ASSUME DirectoryInv, Service PROVE Grows
<1> USE DEF DirectoryInv, TypeOK, RowsOK, IsMember, mvars, Grows
<1>1. CASE \E s \in Signups : UpsertUser(s[1], s[2])
  BY <1>1 DEF UpsertUser, Membership!Register
<1>2. ASSUME NEW o \in Slugs, NEW u \in Names, Membership!Found(o, u), UNCHANGED <<created, profile, req>>
      PROVE  Grows
  BY <1>2 DEF Membership!Found
<1>3. ASSUME NEW o \in Slugs, Membership!Own(o), UNCHANGED <<created, profile, req>>
      PROVE  Grows
  BY <1>3 DEF Membership!Own
<1>4. ASSUME NEW f \in Offered, Membership!Invite(f), UNCHANGED <<created, profile, req>>
      PROVE  Grows
  BY <1>4 DEF Membership!Invite
<1>5. ASSUME NEW f \in offers, Membership!Join(f), UNCHANGED <<created, profile, req>>
      PROVE  Grows
  BY <1>5 DEF Membership!Join
<1>6. CASE UNCHANGED <<mvars, created>>
  BY <1>6
<1> QED
  BY <1>1, <1>2, <1>3, <1>4, <1>5, <1>6
     DEF Service, UpdateProfile, LinkSavesPicture, dvars

\* What a growing directory means for one user of one search: it is still
\* among the rows, alone if it is now, and no fewer rows come before it.
LEMMA Rank ==
    ASSUME DirectoryInv, Grows, TypeOK', NEW o \in Slugs, NEW u \in Names, NEW filters \in Searches,
           IsMember(o, u), ~ByName(filters)
    PROVE  /\ IsMember(o, u)'
           /\ Alone(u, o)' => Alone(u, o)
           /\ Matches(u, filters)' <=> Matches(u, filters)
           /\ Cardinality(Later(u, o, filters)) \in Nat
           /\ Cardinality(Later(u, o, filters)') \in Nat
           /\ Cardinality(Later(u, o, filters)) <= Cardinality(Later(u, o, filters)')
<1> USE DEF DirectoryInv, Grows, TypeOK, RowsOK
<1>1. \A v \in Names : IsMember(o, v) => IsMember(o, v)' /\ created'[v] = created[v]
  BY DEF IsMember
<1>2. \A v \in Names : Matches(v, filters)' <=> Matches(v, filters)
  <2>1. \A group \in filters : \A term \in group : term.column \in {"email", None}
    BY DEF ByName, Term
  <2> DEFINE Mail(v) == \A group \in filters :
                           \/ \A term \in group : term.column = None
                           \/ \E term \in group : term.column # None /\ v \in term.accepts
  <2>2. ASSUME NEW v \in Names, NEW group \in filters, NEW term \in group, term.column # None
        PROVE  term.column = "email"
    BY <2>1, <2>2
  <2>3. ASSUME NEW v \in Names
        PROVE  Matches(v, filters) <=> Mail(v)
    <3>1. ASSUME NEW group \in filters, NEW term \in group
          PROVE  (term.column # None /\ Column(v, term.column) \in term.accepts)
                    <=> (term.column # None /\ v \in term.accepts)
      BY <2>2 DEF Column
    <3> QED
      BY <3>1, Zenon DEF Matches
  <2>4. ASSUME NEW v \in Names
        PROVE  Matches(v, filters)' <=> Mail(v)
    <3>1. ASSUME NEW group \in filters, NEW term \in group
          PROVE  (term.column # None /\ Column(v, term.column)' \in term.accepts)
                    <=> (term.column # None /\ v \in term.accepts)
      BY <2>2 DEF Column
    <3> QED
      BY <3>1, Zenon DEF Matches
  <2> QED
    BY <2>3, <2>4
<1>3. Later(u, o, filters) \subseteq Later(u, o, filters)'
  BY <1>1, <1>2 DEF Later, Found
<1>4. Later(u, o, filters) \subseteq Names /\ Later(u, o, filters)' \subseteq Names
  BY DEF Later, Found
<1>5. /\ IsFiniteSet(Later(u, o, filters)) /\ IsFiniteSet(Later(u, o, filters)')
      /\ Cardinality(Later(u, o, filters)) <= Cardinality(Later(u, o, filters)')
  BY <1>3, <1>4, FS_Subset
<1>6. Alone(u, o)' => Alone(u, o)
  BY <1>1 DEF Alone
<1> QED
  BY <1>1, <1>2, <1>5, <1>6, FS_CardinalityType

LEMMA ServiceKeeps == ASSUME DirectoryInv, Service PROVE DirectoryInv'
<1>1. TypeOK' /\ RowsOK' /\ req' = req
  BY ServiceTypes
<1>2. Grows
  BY ServiceGrows
<1>3. \A o \in Slugs, u \in Names : IsMember(o, u) => IsMember(o, u)'
  BY <1>2 DEF Grows, IsMember
<1> USE DEF DirectoryInv
<1>4. \A c \in Clients : /\ req[c].at \in {"search", "searched"} => req[c] \in Walk
                         /\ req[c] \in Me => req[c].at \in {"me.role", "me.orgs", "me.answer"}
  BY DEF TypeOK, Idle, Me, Walk
<1>5. Ahead'
  <2> SUFFICES ASSUME NEW c \in Clients, req[c].at = "search", NEW u \in req[c].since
               PROVE  LET w == req[c] IN
                      /\ IsMember(w.org, u)'
                      /\ ~ByName(w.filters) /\ Matches(u, w.filters)' /\ Alone(u, w.org)'
                         => \/ u \in w.seen
                            \/ Offset(w.size, w.page) <= Cardinality(Later(u, w.org, w.filters)')
    BY <1>1 DEF Ahead
  <2>1. req[c] \in Walk
    BY <1>4
  <2>2. PICK o \in Slugs, filters \in Searches, size \in PageSizes, page \in Nat :
           req[c].org = o /\ req[c].filters = filters /\ req[c].size = size /\ req[c].page = page
    BY <2>1 DEF Walk
  <2>3. u \in Names
    BY <2>1 DEF Walk
  <2>4. /\ IsMember(o, u)
        /\ ~ByName(filters) /\ Matches(u, filters) /\ Alone(u, o)
           => \/ u \in req[c].seen
              \/ Offset(size, page) <= Cardinality(Later(u, o, filters))
    BY <2>2 DEF Ahead
  <2>5. Offset(size, page) \in Nat
    BY PageSizeType DEF Offset
  <2>6. IsMember(o, u)'
    BY <1>3, <2>3, <2>4
  <2>7. ASSUME ~ByName(filters), Matches(u, filters)', Alone(u, o)'
        PROVE  u \in req[c].seen \/ Offset(size, page) <= Cardinality(Later(u, o, filters)')
    BY <1>1, <1>2, <2>3, <2>4, <2>5, <2>7, Rank
  <2> QED
    BY <1>1, <2>2, <2>6, <2>7
<1>6. Begun'
  BY <1>1, <1>3 DEF Begun, Me
<1>7. Stayed'
  BY <1>1, <1>3, <1>4 DEF Stayed, Walk
<1>8. WalkSeesEveryone'
  <2> SUFFICES ASSUME NEW c \in Clients, req[c].at = "searched", NEW u \in req[c].since
               PROVE  LET w == req[c] IN
                      ~ByName(w.filters) /\ Matches(u, w.filters)' /\ Alone(u, w.org)'
                         => u \in w.seen
    BY <1>1 DEF WalkSeesEveryone
  <2>1. req[c] \in Walk
    BY <1>4
  <2>2. PICK o \in Slugs, filters \in Searches : req[c].org = o /\ req[c].filters = filters
    BY <2>1 DEF Walk
  <2>3. u \in Names /\ IsMember(o, u)
    BY <2>1, <2>2 DEF Walk, Stayed
  <2>4. ~ByName(filters) /\ Matches(u, filters) /\ Alone(u, o) => u \in req[c].seen
    BY <2>2 DEF WalkSeesEveryone
  <2> QED
    BY <1>1, <1>2, <2>2, <2>3, <2>4, Rank
<1> QED
  BY <1>1, <1>5, <1>6, <1>7, <1>8

\* What the invariant says of one client.
Fine(w) ==
    /\ w.at = "search" =>
          \A u \in w.since :
              /\ IsMember(w.org, u)
              /\ ~ByName(w.filters) /\ Matches(u, w.filters) /\ Alone(u, w.org)
                 => u \in w.seen \/ Offset(w.size, w.page) <= Cardinality(Later(u, w.org, w.filters))
    /\ w.at = "searched" =>
          \A u \in w.since :
              /\ IsMember(w.org, u)
              /\ ~ByName(w.filters) /\ Matches(u, w.filters) /\ Alone(u, w.org) => u \in w.seen
    /\ w \in Me =>
          /\ w.at # "me.role" => w.role # None /\ IsMember(w.org, w.user)
          /\ w.orgs # None => w.org \in w.orgs

LEMMA FineIsInv ==
    (\A c \in Clients : Fine(req[c])) <=>
        Ahead /\ Begun /\ Stayed /\ WalkSeesEveryone
BY DEF Fine, Ahead, Begun, Stayed, WalkSeesEveryone

LEMMA FineStays ==
    ASSUME UNCHANGED <<mvars, created, profile>>
    PROVE  \A w : Fine(w)' <=> Fine(w)
<1> USE DEF mvars
<1>1. \A o, u : IsMember(o, u)' <=> IsMember(o, u)
  BY DEF IsMember
<1>2. \A u, filters : Matches(u, filters)' <=> Matches(u, filters)
  BY DEF Matches, Column
<1>3. \A u, o : Alone(u, o)' <=> Alone(u, o)
  BY DEF Alone, IsMember
<1>4. \A u, o, filters : Later(u, o, filters)' = Later(u, o, filters)
  BY <1>1, <1>2 DEF Later, Found
<1> QED
  BY <1>1, <1>2, <1>3, <1>4 DEF Fine

LEMMA ClientKeeps ==
    ASSUME DirectoryInv, UNCHANGED <<mvars, created, profile>>, NEW c \in Clients,
           NEW w \in {Idle} \cup Walk \cup Me, Fine(w), req' = [req EXCEPT ![c] = w]
    PROVE  DirectoryInv'
<1>1. TypeOK' /\ RowsOK'
  BY DEF DirectoryInv, TypeOK, RowsOK, IsMember, mvars
<1>2. \A d \in Clients : Fine(req[d])
  BY FineIsInv DEF DirectoryInv
<1>3. \A d \in Clients : req'[d] = IF d = c THEN w ELSE req[d]
  BY DEF DirectoryInv, TypeOK
<1>4. \A d \in Clients : Fine(req'[d])
  BY <1>2, <1>3
<1>5. \A d \in Clients : Fine(req[d])'
  <2> SUFFICES ASSUME NEW d \in Clients PROVE Fine(req[d])'
    OBVIOUS
  <2>1. PICK v \in {Idle} \cup Walk \cup Me : v = req'[d]
    BY <1>1 DEF TypeOK
  <2>2. Fine(v)'
    BY <1>4, <2>1, FineStays
  <2> QED
    BY <2>1, <2>2
<1>6. (Ahead /\ Begun /\ Stayed /\ WalkSeesEveryone)'
  BY <1>5 DEF Fine, Ahead, Begun, Stayed, WalkSeesEveryone
<1> QED
  BY <1>1, <1>6 DEF DirectoryInv

LEMMA SearchPageKeeps == ASSUME DirectoryInv, NEW c \in Clients, SearchPage(c) PROVE DirectoryInv'
<1> DEFINE w == req[c]
           rows == Found(w.org, w.filters)
           first == Offset(w.size, w.page)
           size == PageSize(w.size)
<1>1. PICK list \in Listings(rows) :
         LET page == {list[i] : i \in {j \in DOMAIN list : first < j /\ j <= first + size}}
         IN  req' = [req EXCEPT ![c] =
                        IF page = {} THEN [w EXCEPT !.at = "searched"]
                        ELSE [w EXCEPT !.page = w.page + 1, !.seen = w.seen \cup page]]
  BY DEF SearchPage
<1> DEFINE page == {list[i] : i \in {j \in DOMAIN list : first < j /\ j <= first + size}}
           done == [w EXCEPT !.at = "searched"]
           more == [w EXCEPT !.page = w.page + 1, !.seen = w.seen \cup page]
<1>2. w.at = "search" /\ w \in Walk /\ UNCHANGED <<mvars, created, profile>>
  BY DEF SearchPage, DirectoryInv, TypeOK, Idle, Me
<1>3. Fine(w)
  BY FineIsInv DEF DirectoryInv
<1>4. /\ rows \subseteq Names /\ IsFiniteSet(rows)
      /\ \A v \in rows : IsMember(w.org, v)
  <2>1. rows \subseteq Names
    BY DEF Found
  <2> QED
    BY <2>1, FS_Subset DEF Found
<1>5. size \in Nat \ {0} /\ first \in Nat /\ Offset(w.size, w.page + 1) = first + size
  <2>1. w.size \in PageSizes /\ w.page \in Nat
    BY <1>2 DEF Walk
  <2>2. size \in Nat \ {0}
    BY <2>1, PageSizeType
  <2>3. \A n, k \in Nat : n * k \in Nat /\ (n + 1) * k = n * k + k
    OBVIOUS
  <2> HIDE DEF size
  <2>4. first = w.page * size /\ Offset(w.size, w.page + 1) = (w.page + 1) * size
    BY DEF Offset, size
  <2> QED
    BY <2>1, <2>2, <2>3, <2>4
<1>6. page \subseteq rows
  BY DEF Listings, Bijection, Injection
<1>7. ASSUME NEW u \in w.since, ~ByName(w.filters), Matches(u, w.filters), Alone(u, w.org),
             u \notin w.seen
      PROVE  /\ page # {}
             /\ u \in page \/ Offset(w.size, w.page + 1) <= Cardinality(Later(u, w.org, w.filters))
  <2>1. u \in rows
    BY <1>2, <1>3, <1>7 DEF Fine, Walk, Found
  <2>2. first <= Cardinality(Later(u, w.org, w.filters))
    BY <1>2, <1>3, <1>7 DEF Fine
  <2>3. \A v \in rows \ {u} : created[v] # created[u]
    BY <1>4, <1>7 DEF Alone
  <2>4. created \in [Names -> Times]
    BY DEF DirectoryInv, TypeOK
  <2>5. Later(u, w.org, w.filters) = {v \in rows : created[v] > created[u]}
    BY DEF Later
  <2>6. IsFiniteSet(rows) /\ rows \subseteq Names
    BY <1>4
  <2>7. first \in Nat /\ size \in Nat \ {0}
    BY <1>5
  <2>8. first <= Cardinality({v \in rows : created[v] > created[u]})
    BY <2>2, <2>5
  <2>9. /\ page # {}
        /\ u \in page \/ first + size <= Cardinality({v \in rows : created[v] > created[u]})
    <3> HIDE DEF rows, first, size, w
    <3> QED
      BY <2>1, <2>3, <2>4, <2>6, <2>7, <2>8, PageReaches
  <2> QED
    BY <1>5, <2>5, <2>9
<1> HIDE DEF page
<1>8. CASE page = {}
  <2>1. done \in Walk /\ req' = [req EXCEPT ![c] = done]
    BY <1>1, <1>2, <1>8 DEF Walk, page
  <2>2. /\ done.at = "searched" /\ done.org = w.org /\ done.filters = w.filters
        /\ done.seen = w.seen /\ done.since = w.since
    BY <1>2 DEF Walk
  <2>3. done \notin Me
    BY <2>2 DEF Me
  <2> HIDE DEF done, w
  <2>4. Fine(done)
    BY <1>2, <1>3, <1>7, <1>8, <2>2, <2>3 DEF Fine
  <2> QED
    BY <1>2, <2>1, <2>4, ClientKeeps
<1>9. CASE page # {}
  <2>1. more \in Walk /\ req' = [req EXCEPT ![c] = more]
    <3>1. page \subseteq Names
      BY <1>4, <1>6
    <3>2. w.page + 1 \in Nat /\ w.seen \cup page \in SUBSET Names
      BY <1>2, <3>1 DEF Walk
    <3>3. more \in Walk
      <4> HIDE DEF w
      <4> QED
        BY <1>2, <3>2 DEF Walk
    <3> QED
      BY <1>1, <1>9, <3>3 DEF page
  <2>2. /\ more.at = "search" /\ more.org = w.org /\ more.filters = w.filters
        /\ more.size = w.size /\ more.page = w.page + 1
        /\ more.seen = w.seen \cup page /\ more.since = w.since
    BY <1>2 DEF Walk
  <2>3. more \notin Me
    BY <2>2 DEF Me
  <2> HIDE DEF more, w
  <2>4. Fine(more)
    BY <1>2, <1>3, <1>7, <2>2, <2>3 DEF Fine
  <2> QED
    BY <1>2, <2>1, <2>4, ClientKeeps
<1> QED
  BY <1>8, <1>9

LEMMA SearchBeginKeeps ==
    ASSUME DirectoryInv, NEW c \in Clients, NEW o \in Slugs, NEW filters \in Searches,
           NEW size \in PageSizes, SearchBegin(c, o, filters, size)
    PROVE  DirectoryInv'
<1> DEFINE w == [at |-> "search", org |-> o, filters |-> filters, size |-> size,
                 page |-> 0, seen |-> {}, since |-> {v \in Names : IsMember(o, v)}]
<1>1. w \in Walk /\ w \notin Me
  BY DEF Walk, Me
<1>2. req' = [req EXCEPT ![c] = w] /\ UNCHANGED <<mvars, created, profile>>
  BY DEF SearchBegin
<1>3. Offset(size, 0) = 0
  BY PageSizeType DEF Offset
<1>4. \A u \in Names : Cardinality(Later(u, o, filters)) \in Nat
  <2>1. \A u \in Names : Later(u, o, filters) \subseteq Names
    BY DEF Later, Found
  <2> QED
    BY <2>1, FS_Subset, FS_CardinalityType
<1>5. Fine(w)
  BY <1>1, <1>3, <1>4 DEF Fine
<1> HIDE DEF w
<1> QED
  BY <1>1, <1>2, <1>5, ClientKeeps

LEMMA MeKeeps ==
    ASSUME DirectoryInv, NEW c \in Clients, MeRole(c) \/ MeOrgs(c)
    PROVE  DirectoryInv'
<1> DEFINE m == req[c]
<1>1. m \in Me /\ m.at \in {"me.role", "me.orgs"} /\ UNCHANGED <<mvars, created, profile>>
  BY DEF MeRole, MeOrgs, DirectoryInv, TypeOK, Idle, Walk
<1>2. Fine(m)
  BY FineIsInv DEF DirectoryInv
<1>3. CASE MeRole(c)
  <2>1. CASE ~IsMember(m.org, m.user)
    <3>1. Fine(Idle)
      BY DEF Fine, Idle, Me
    <3> QED
      BY <1>1, <1>3, <2>1, <3>1, ClientKeeps DEF MeRole
  <2>2. CASE IsMember(m.org, m.user)
    <3> DEFINE n == [m EXCEPT !.role = members[m.org][m.user],
                              !.at = IF m.full THEN "me.orgs" ELSE "me.answer"]
    <3>1. req' = [req EXCEPT ![c] = n]
      BY <1>3, <2>2 DEF MeRole
    <3>2. members[m.org][m.user] \in Roles \cup {None}
      BY <1>1 DEF DirectoryInv, TypeOK, Me
    <3>3. n \in Me
      BY <1>1, <3>2 DEF Me
    <3>4. /\ n.at \in {"me.orgs", "me.answer"} /\ n.role = members[m.org][m.user]
          /\ n.org = m.org /\ n.user = m.user /\ n.orgs = m.orgs
      BY <1>1 DEF Me
    <3> HIDE DEF n
    <3>5. Fine(n)
      BY <1>1, <1>2, <2>2, <3>3, <3>4 DEF Fine, IsMember
    <3> QED
      BY <1>1, <3>1, <3>3, <3>5, ClientKeeps
  <2> QED
    BY <2>1, <2>2
<1>4. CASE MeOrgs(c)
  <2>1. PICK orgs \in {OrgsOf(m.user), None} :
           req' = [req EXCEPT ![c] = [m EXCEPT !.orgs = orgs, !.at = "me.answer"]]
    BY <1>4 DEF MeOrgs
  <2> DEFINE n == [m EXCEPT !.orgs = orgs, !.at = "me.answer"]
  <2>2. n \in Me
    BY <1>1 DEF Me, OrgsOf
  <2>3. /\ n.at = "me.answer" /\ n.role = m.role
        /\ n.org = m.org /\ n.user = m.user /\ n.orgs = orgs
    BY <1>1 DEF Me
  <2>4. m.role # None /\ IsMember(m.org, m.user)
    BY <1>1, <1>2, <1>4 DEF Fine, MeOrgs
  <2>5. m.org \in Slugs
    BY <1>1 DEF Me
  <2> HIDE DEF n
  <2>6. Fine(n)
    BY <2>2, <2>3, <2>4, <2>5 DEF Fine, OrgsOf
  <2> QED
    BY <1>1, <2>1, <2>2, <2>6, ClientKeeps DEF n
<1> QED
  BY <1>3, <1>4

LEMMA MeBeginKeeps ==
    ASSUME DirectoryInv, NEW c \in Clients, NEW u \in Names, NEW o \in Slugs,
           NEW full \in BOOLEAN, MeBegin(c, u, o, full)
    PROVE  DirectoryInv'
<1> DEFINE w == [at |-> "me.role", full |-> full, user |-> u, org |-> o, role |-> None, orgs |-> None]
<1>1. w \in Me
  BY DEF Me
<1>2. req' = [req EXCEPT ![c] = w] /\ UNCHANGED <<mvars, created, profile>>
  BY DEF MeBegin
<1>3. Fine(w)
  BY DEF Fine
<1> HIDE DEF w
<1> QED
  BY <1>1, <1>2, <1>3, ClientKeeps

LEMMA LeaveKeeps == ASSUME DirectoryInv, NEW c \in Clients, Leave(c) PROVE DirectoryInv'
<1>1. Fine(Idle)
  BY DEF Fine, Idle, Me
<1> QED
  BY <1>1, ClientKeeps DEF Leave

-----------------------------------------------------------------------------
\* The inductive invariant holds in every reachable state.
THEOREM DirectoryInvariant == Spec => []DirectoryInv
<1>1. Init => DirectoryInv
  BY InitOK
<1>2. DirectoryInv /\ [Next]_dvars => DirectoryInv'
  <2> SUFFICES ASSUME DirectoryInv, [Next]_dvars PROVE DirectoryInv'
    OBVIOUS
  <2>1. CASE Service
    BY <2>1, ServiceKeeps
  <2>2. ASSUME NEW c \in Clients, NEW o \in Slugs, NEW filters \in Searches,
               NEW size \in PageSizes, SearchBegin(c, o, filters, size)
        PROVE  DirectoryInv'
    BY <2>2, SearchBeginKeeps
  <2>3. ASSUME NEW c \in Clients, NEW o \in Slugs, NEW u \in Names, NEW full \in BOOLEAN,
               MeBegin(c, u, o, full)
        PROVE  DirectoryInv'
    BY <2>3, MeBeginKeeps
  <2>4. ASSUME NEW c \in Clients, SearchPage(c) \/ MeRole(c) \/ MeOrgs(c) \/ Leave(c)
        PROVE  DirectoryInv'
    BY <2>4, SearchPageKeeps, MeKeeps, LeaveKeeps
  <2> QED
    BY <2>1, <2>2, <2>3, <2>4 DEF Next, Service
<1> QED
  BY <1>1, <1>2, PTL DEF Spec

\* The users table and the clients keep their types.
THEOREM DirectoryTypes == Spec => []TypeOK
<1>1. DirectoryInv => TypeOK
  BY DEF DirectoryInv
<1> QED
  BY <1>1, DirectoryInvariant, PTL

\* However many members there are and however small the pages, whoever joins or
\* changes a name meanwhile: a walk through the pages misses no one.
THEOREM WalksAreComplete == Spec => []WalkSeesEveryone
<1>1. DirectoryInv => WalkSeesEveryone
  BY DEF DirectoryInv
<1> QED
  BY <1>1, DirectoryInvariant, PTL

\* A full profile lists the organisation its reader is signed in to.
THEOREM ProfilesCohere == Spec => []AnswersAreCoherent
<1>1. DirectoryInv => AnswersAreCoherent
  BY DEF DirectoryInv, TypeOK, Begun, AnswersAreCoherent, Idle, Walk
<1> QED
  BY <1>1, DirectoryInvariant, PTL

\* Nobody but its owner changes a profile.
THEOREM OwnersProfiles == Spec => ProfilesAreTheirOwners
<1> DEFINE Owned == \A u \in users, f \in Fields : profile'[u][f] # profile[u][f] =>
              \/ \E patch \in Patches : f \in DOMAIN patch /\ UpdateProfile(u, patch)
              \/ f = "avatar_url" /\ profile'[u][f] # Blank /\ UNCHANGED mvars
<1>1. DirectoryInv /\ [Next]_dvars => [Owned]_dvars
  <2> SUFFICES ASSUME DirectoryInv, Next, NEW u \in users, NEW f \in Fields,
                      profile'[u][f] # profile[u][f]
               PROVE  \/ \E patch \in Patches : f \in DOMAIN patch /\ UpdateProfile(u, patch)
                      \/ f = "avatar_url" /\ profile'[u][f] # Blank /\ UNCHANGED mvars
    BY DEF dvars
  <2>1. /\ u \in Names /\ profile \in [Names -> [Fields -> Texts]]
    BY DEF DirectoryInv, TypeOK
  <2>2. ASSUME NEW s \in Signups, UpsertUser(s[1], s[2])
        PROVE  FALSE
    <3> DEFINE row == [profile[s[1]] EXCEPT !["name"] = s[2]]
    <3>1. \/ profile' = profile
          \/ s[1] # u /\ profile' = [profile EXCEPT ![s[1]] = row]
      BY <2>2 DEF UpsertUser
    <3> HIDE DEF row
    <3> QED
      BY <2>1, <3>1
  <2>3. ASSUME NEW v \in Names, NEW patch \in Patches, UpdateProfile(v, patch)
        PROVE  f \in DOMAIN patch /\ UpdateProfile(u, patch)
    <3>1. v = u
      BY <2>1, <2>3 DEF UpdateProfile
    <3> QED
      BY <2>1, <2>3, <3>1 DEF UpdateProfile, Patched
  <2>4. ASSUME NEW p \in Pictures, LinkSavesPicture(p[1], p[2])
        PROVE  f = "avatar_url" /\ profile'[u][f] # Blank /\ UNCHANGED mvars
    <3>1. p[1] = u
      BY <2>1, <2>4 DEF LinkSavesPicture
    <3>2. profile'[u] = Patched(profile[u], [g \in {"avatar_url"} |-> p[2]])
      BY <2>1, <2>4, <3>1 DEF LinkSavesPicture
    <3> QED
      BY <2>1, <2>4, <3>2 DEF LinkSavesPicture, Patched
  <2>5. profile' # profile
    OBVIOUS
  <2> QED
    BY <2>2, <2>3, <2>4, <2>5
       DEF Next, SearchBegin, MeBegin, SearchPage, MeRole, MeOrgs, Leave
<1> QED
  BY <1>1, DirectoryInvariant, PTL DEF Spec, ProfilesAreTheirOwners
=============================================================================
