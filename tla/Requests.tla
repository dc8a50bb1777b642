------------------------------ MODULE Requests ------------------------------
(***************************************************************************)
(* What the HTTP handlers share: net/http runs each request in a goroutine *)
(* of its own, whose local state is a record in req, and the process holds *)
(* one session table (internal/session).  A request advances by one        *)
(* repository call at a time; between two of them the others run, the      *)
(* client may go away (req.Context() is cancelled and the next statement   *)
(* fails) and the process may die.                                         *)
(***************************************************************************)
EXTENDS Repo

CONSTANTS Reqs,         \* slots for concurrent requests; a slot is reused
          Sids,         \* the session ids the store can hand out
          LinkTokens,   \* the tokens putPending can hand out
          Raw,          \* strings as they appear in a request body
          Normal,       \* strings.ToLower(strings.TrimSpace(x)) of each
          EmailInputs,  \* the ones sent as an email
          Blank,        \* the empty string
          Routes,       \* the routes that receive requests
          QueryErrors   \* whether a query may fail while the client waits

ASSUME RequestConstants ==
    /\ Slugs \subseteq Names
    /\ Normal \in [Raw -> Names \cup {Blank}]
    /\ EmailInputs \subseteq Raw
    /\ Blank \notin Names \cup Roles
    /\ QueryErrors \in BOOLEAN

VARIABLES req,        \* the local state of the handler in each slot
          sessions,   \* session.DefaultStore, as the table it implements
          issued,     \* see SessionTable
          pending,    \* pendingMap of linking.go, by token
          handedOut,  \* its issued
          founder,    \* ghost: the user whose signup, or the seed, created each organisation
          enrolled,   \* ghost: every TOTP secret stored for each user
          asserted    \* ghost: every email a provider gave for each identity

ghosts == <<founder, enrolled, asserted>>
sessionTable == <<sessions, issued>>
pendingTable == <<pending, handedOut>>
web == <<sessionTable, pendingTable>>
vars == <<db, req, web, ghosts>>

\* models.Session without its Expiry, which is an event of the table.
Session == [user : Names, org : Slugs, provider : {"local", "invite"} \cup Providers]

\* pendingLink without name and picture: an identity and the email its provider
\* gave for it.
PendingLink == [identity : Identities, email : Names]

ASSUME NoneIsNoEntry == None \notin Session \cup PendingLink

\* Both tables are process memory, keyed by random ids, with entries that
\* expire.  getPending drops an expired entry when it is looked up, so none is
\* ever seen.
Table == INSTANCE SessionTable WITH Sessions <- Session
Pending == INSTANCE SessionTable WITH Sids <- LinkTokens, Sessions <- PendingLink,
                                      sessions <- pending, issued <- handedOut

CreateSession(s, sess) == Table!Create(s, sess) /\ UNCHANGED pendingTable
DropSession(s) == Table!Drop(s) /\ UNCHANGED pendingTable
CreatePending(t, link) == Pending!Create(t, link) /\ UNCHANGED sessionTable
DropPending(t) == Pending!Drop(t) /\ UNCHANGED sessionTable

-----------------------------------------------------------------------------
Idle == [at |-> "idle"]

\* The handler in slot r goes on to the step `at`, returns, or starts as c.
Goto(r, at) == req' = [req EXCEPT ![r] = [req[r] EXCEPT !.at = at]]
Finish(r) == req' = [req EXCEPT ![r] = Idle]
Start(r, c) == req[r] = Idle /\ req' = [req EXCEPT ![r] = c]

\* The next repository call returns an error, because the database failed or
\* the client went away, or the answer of the last one was lost, and the handler
\* gives up; the statements it has already executed stay.
RequestFails(r) ==
    /\ req[r] # Idle
    /\ Finish(r)
    /\ UNCHANGED <<db, web, ghosts>>

\* The process dies and is started again: what is not in the database is lost.
Crash ==
    /\ Table!Forget /\ Pending!Forget
    /\ req' = [r \in Reqs |-> Idle]
    /\ UNCHANGED <<db, ghosts>>

\* The session behind an id expires (8 hours after its creation).
SessionExpires(s) ==
    /\ sessions[s] # None
    /\ DropSession(s)
    /\ UNCHANGED <<db, req, ghosts>>

\* Ten minutes after its creation a pending link expires.
PendingExpires(t) ==
    /\ pending[t] # None
    /\ DropPending(t)
    /\ UNCHANGED <<db, req, ghosts>>

\* Seven days after its creation an invite expires.
InviteExpires(t) ==
    /\ InviteLapses(t)
    /\ UNCHANGED <<req, web, ghosts>>
=============================================================================
