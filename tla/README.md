# A TLA+ model of the Engraph API server

The server (`cmd/server/main.go`) is one Go process in front of a Postgres
database. It signs users up, logs them in by password, TOTP or an OpenID
provider, lets the owners of an organisation invite people into it, and keeps
their sessions in memory. This directory holds TLA+ modules translated from that
code, the TLC configurations that check them on small instances, and TLAPS
proofs of the properties for every instance. `PROJECT.json` maps each definition
to the lines it stands for.

## 1. The system

| Component | State | Operations | Module |
|---|---|---|---|
| session store (`internal/session`, `auth/session.go`) | a map from random id to session, under an RWMutex | Create, Get with lazy eviction, Delete, sweeper | `SessionTable`, `SessionStore` |
| database and repository (`database/`, `internal/repo`) | users, local_credentials, user_totp, organisations, org_memberships, org_invites, user_identities, login_attempts | one auto-commit statement per call | `Repo` |
| local accounts (`auth/local.go`, `password.go`) | the local variables of each request | signup, login, logout, TOTP set-up, set-password | `LocalAuth` |
| invites (`auth/invite.go`, `middleware/auth.go`, `require_role.go`) | the same | create behind RequireAuth and RequireRole(Owner), accept | `Invites` |
| provider sign-in (`auth/handlers.go`, `linking.go`) | the same, and pendingMap | callback, link by password | `ProviderAuth` |
| MFA gate (`middleware/mfa_enforce.go`) | none | stops local sessions without TOTP | `MFAEnforce` |
| rate limiter (`middleware/rate_limiter.go`) | salt and day, a token bucket per key | rotate, key, allow | `RateLimiter` |
| provider set-up (`auth/provider.go`, `cache.go`) | goroutines of a start, cache files, refresh loop | SetupProviders, RoundTrip, ForceRefresh | `DiscoveryCache` |
| code exchange (`auth/handlers.go` up to the identity) | the browser's state and nonce cookies; nothing in the server | start, callback, extractIdentity | `OAuthFlow` |
| profiles and search (`auth/profile.go`, `handlers/users`, the queries of `internal/db/gen`) | profile columns of users | PUT /auth/profile, /auth/me, /auth/me/full, POST /users/search | `Directory` |
| what all of it promises about organisations | | register, found, own, invite, join | `Membership` |
| admin session list, denylist, other middleware, configuration | | | not modelled, section 8 |

How they interact: every request is a goroutine of net/http and passes the
middleware in the order of `main.go`: request id and logging, MFA gate, rate
limiter, denylist, CORS, then the route. Handlers call the repository one
statement at a time, with no transaction around them; `req.Context()` is
cancelled when the client goes away, and then the next statement fails.
`SetSessionCookie` and `ReadSession` are the only ways into the session store.
The callback leaves a pending link in `pendingMap`, which a later request of
`/auth/link/password` picks up by its cookie. The sweeper runs beside all this.
Sessions and pending links are lost with the process, rows and cache files stay.

What makes it hard: statements of concurrent requests interleave, so that what
one query said is stale when the next statement runs; a request may end between
any two statements, the process too; locks are released between looking at an
entry and deleting it; clocks are read before the lock under which they are used;
errors of a query are mistaken for an answer; the tabs of a browser share the cookies of
their sign-ins; the pages of a search are queries at different times. `PROJECT.json` lists each such place
under "hazards".

What makes it correct, per component:

- session store: it behaves as a table with atomic operations; no lookup returns
  a session that was dead when it began; nothing live is evicted; the dead are
  reclaimed.
- accounts, invites, links: sessions stand for rows that exist; roles come from
  founding or from the founder's invite; an invite is not spent for nothing; TOTP
  cannot be raced; an identity is linked to somebody its provider vouches for.
  Seen from outside, only founding, inviting and joining happen.
- code exchange: a callback with a state is completed only with the fresh cookies of its
  sign-in, and with the account picked there where nonce or code tie it to that sign-in
  (without a state it is not so, section 4); no sign-in fails for nothing, and each one
  that is left alone completes.
- profiles and search: paging misses nobody, an answer put together from several queries is coherent, only the owner changes a profile.
- rate limiter: admissions are bounded in every interval; nobody is refused who
  has earned a token.
- provider set-up: it ends, it returns what is enabled, and a good cache is enough.

## 2. The modules

`SessionTable` is the abstract table: Create, Drop, Forget. `SessionStore` has a
step for each lock section of the code: `GetLoad` copies under the read lock,
`GetCheck` looks at the clock after it, `GetEvict` deletes under the write lock,
`ReadRecheck` is the second look of `ReadSession`; the sweeper takes its time
(`SweepTick`) and then the lock (`SweepDelete`). `lapsed` stands for the clock.
It is shown to implement `SessionTable` (property `TableSpec`), and the larger model
uses two instances of the table: the session store and `pendingMap`.

`Repo` has the tables as functions, the constraints that make a statement fail, the
queries and the statements. A user is identified with the email and an
organisation with its slug; both columns are UNIQUE and never updated. `Seed` is the effect
of the demo migration (003), which is part of the migrations and may have run.

`Requests` holds what handlers share: the slots for requests in flight (`req`), the
two tables, `RequestFails`, `Crash` and the expiries. A handler is a sequence of
actions, one per repository call or session-table operation; a prefix of checks that
reads no shared state belongs to the first of them. `LocalAuth`, `Invites` and
`ProviderAuth` are the handlers, `Onboarding` composes them and states the
properties. Three ghost variables only serve the properties: `founder`, `enrolled`,
`asserted`.

`Membership` is the abstract specification of what these modules achieve: users register,
found an organisation, become its first owner, invite, join. It knows no requests,
sessions, tokens or failures. `Onboarding` implements it (property `MembershipSpec`): its
tables are the abstract variables, the open and used invites the offers, and every other step
stutters. Founding and owning are two steps, since the code has no transaction around them.

`OAuthFlow` is what comes before the callback of `ProviderAuth` has an identity: sign-ins
(`flow`, one for each state and nonce drawn), the two cookies of one browser (`jar`), and its
callbacks in progress (`call`), a step for each request to the provider. The state and the code
of a callback are independent parameters, as `handlers.go:70` and `:76` read them:
`SendCallback` is the provider's own redirect, `OpenURL` any other URL, whose parameters are
absent or belong to some sign-in; the code alone decides whose token `Exchange` gets. Browsers share no
cookies, so the jar of one is enough; of the sign-ins of others (`FollowElsewhere`) the states and
codes matter. A URL is taken to be that of the provider of its code, since any
other provider refuses the code. The server keeps nothing between start and callback, so a restart is nothing
but the loss of the callbacks. Two ghosts, `latest` and `disturbed`, say which sign-in was
started last here and whose callback met a failure from outside.

`Directory` puts over `Membership` what can be seen of it: the `profile` columns with everything that
writes them, and clients that walk through the pages of a search or read their profile query by
query. Every page may come in any order `ORDER BY created_at DESC` allows. It takes the
actions of `Membership` instead of the handlers, which is sound because `Onboarding`
implements that specification.

`MFAEnforce` is the gate in front of every route: with `LocalRequired`
(`security.mfa.local_required`) a handler that needs a session begins only if the gate lets the
session through. It stands between `Requests` and the handlers.

`RateLimiter` follows a request through the day it reads, the rotation, the key, the
time it reads and the bucket. Tokens are counted in ticks.

`DiscoveryCache` follows the start of the process: a goroutine per enabled issuer,
its cache lookup, fetch and write, the collection of the results, the panic on the
first error, and then the refresh loop. Files outlive crashes; the configuration
may change at each start.

Modelling decisions a reader should know:

- Strings are normalised as in the code (`Normal` is ToLower of TrimSpace); the
  inputs of the runs contain names that collide only after it, and a username that
  is somebody else's email.
- Time is an event: entries expire at any moment after their creation.
- `QueryErrors` says whether a query can fail with the client still waiting. Where
  the code treats such an error as an answer, both branches are enabled.
- A password hash is a record around the password, TOTP codes are their secrets; the
  clear password never equals its hash.
- A term of a search filter is a column and the set of strings its operation and value accept.
- `Claims` says which emails a provider may give for an identity.
- Expired sessions behave as absent: that the store achieves this is what
  `SessionStore` shows.

## 3. The runs

| Run | Question | Bounds |
|---|---|---|
| SessionStore | is the store the table it should be; are the expired reclaimed | 2 ids, 2 sessions, 2 lookups, sweeper, logout, restart |
| OnboardingInvites | signups racing for an organisation, its roles and invites; does the service implement Membership; who is stranded | 2 requests, 2 tokens, 2 session ids, failing queries |
| OnboardingLinks | links with moving emails, and logins, racing TOTP enrolment | 2 requests, 2 pending links, 1 identity, 1 secret, 1 session id, seeded database |
| OnboardingAll | long sequences over every route, behind the MFA gate | 1 request, 2 organisations, 2 passwords, 1 or 2 of everything else, seeded database, failing queries |
| RateLimiter | the bucket under reordering, rotation around midnight | 2 requests, 1 host, 4 salts, 2 days, burst 2, clock to 3 |
| DiscoveryCache | starts under every fault | 2 hosts, 2 tenants, every configuration |
| OAuthFlow | tabs, reloads, expiry, crashes and other callback URLs around the code exchange | 2 sign-ins of this browser or another, 2 callbacks at a time, one provider of each kind, 3 accounts, every URL |
| Directory | paging and profiles while users come and change | 1 client, 3 users, 2 organisations, 3 times, pages of at most 2, asked sizes 0 and 3 |

Why the bounds are enough: the races are between two requests about one row, so two
slots are needed, and the third request of a race, if any, is one whose slot is
reused; session ids, tokens and pending links are at least as many as the requests that
can hold one at a time, except in OnboardingLinks, which has one session id and is not
about sessions overlapping. Two requests of the rate limiter reach its bucket in
either order, any number of times, and around midnight rotate the salt at most four
times; a bucket of two tokens tells its size from a token. Two sign-ins
are enough for one to supersede the other, before, between or after its callbacks, and for the code
of one to come with the state of the other; two accounts at a provider tell whose it was.
Three users and three times give every order and every tie in a listing, and a page of one or two
falls short of it; the sizes 0 and 3 lie on both sides of what is allowed (`MaxPage` stands for
100). The proofs of section 6 remove the bounds for all the safety properties. Symmetry
is used for slots, ids and tokens, never in a run with a liveness property. A seeded
database holds organisations and their owners as migration 003 makes them (its
organisations without an owner are left out).

Bounds in guards: ids and tokens are drawn from finite sets (`Sids`, `Tokens`, `LinkTokens`; an id
is never handed out twice), `MaxClock`, `LastDay` and `Salts` end a run of the limiter.

## 4. What the code does not guarantee

Each of these runs ends in a counterexample to a sentence of the repository; the
sentences are quoted in `PROJECT.json` under "findings".

| Run | Property | What happens |
|---|---|---|
| OneTimeInvite | InviteIsOneTime | two overlapping acceptances both succeed |
| SetPassword | SetPasswordTakesEffect | another user's username equals the email; the update touches no row |
| LinkRace | ProviderSessionsAreLinked | check and insert of an identity are two statements; the loser gets a session |
| DiscoveryPoisoned | HealthyUpstreamsSuffice | a panic truncates another issuer's cache file, and every later start panics |

More disagreements were met while modelling and have no run of their own:

- a callback is compared with the state cookie under the comment "CSRF" (`handlers.go:69`), and
  `docs/auth_flow.md:136` says "Handles state/nonce verification, token exchange, and identity
  extraction"; but an absent state equals an absent cookie, the code is exchanged whatever the state was, and
  the nonce is not compared without a nonce cookie (`:327`, `:351`), for GitHub never. So
  `SignsInTheConsenter` of `OAuthFlow` does not hold: StartFlow, FollowElsewhere, Consent, `OpenURL(c, None, f)`,
  Exchange and VerifyToken end in a callback completed here with the account that was picked in another browser
  (put the property in the place of `CookiesBindTheSignIn` in `OAuthFlow.cfg` to see it).
  `CookiesBindTheSignIn` is what the code does guarantee, and `ConsentersSignInUnlessMixed` in section 6 says when
  the rest holds;
- an invite is accepted without any session, although `docs/invites.md:21` asks for a
  logged-in user (`AcceptMember` has no guard on a session);
- a signup that ends between `CreateOrg` and `EnsureMembership` (`local.go:93`, `:98`) leaves an organisation
  without an owner, and every later signup is told to "Ask an owner for an invite"
  (`local.go:88`); `Membership` keeps `Found` and `Own` apart for this;
- a user created by an invite has a blank name (`invite.go:114`, "no name known yet"), and
  since the column is never NULL the name given at his signup is dropped (`UpsertUser` of
  `Directory`);
- a client that asks for more than 100 users gets 100, and is told neither that nor how many there
  are: `total_count` of the query is dropped (`repo/search.go:31`); only an empty page ends a walk;
- `ListSessionsHandler` returns "active sessions" (`admin.go:14`) and includes expired ones until
  the sweeper has run;
- the errors `ErrUserNotFound`, `ErrOrgNotFound` and `ErrRoleNotFound` of `GetUserWithOrgAndRole` are never
  returned: the NULL role does not scan into a string and the call fails first; and after one
  of them `ProfileHandler` would write a second error (no return, `handlers.go:224`);
- a failing query counts as "no TOTP" (`HasTOTP` in `LoginMFA`): with `QueryErrors = TRUE`
  `PasswordLoginsHonourTOTP` is violated, which is why its runs and its theorem have
  queries that answer;
- the MFA gate asks local sessions only, so the session of an accepted invite passes
  although its user has a local password (`docs/auth_flow.md:21`);
- a request that read the date before midnight and takes the lock after others
  rotated rotates the salt back, and the next request rotates again
  (`rate_limiter.go:67`): a day can have several salts, each with full buckets.

## 5. Fairness

`SessionStore` assumes weak fairness of the sweeper's two steps: its goroutine runs
until the process ends, its ticker fires every interval, and Go's mutex does not
starve a waiter. Nothing is assumed of requests or of the clock.

`DiscoveryCache` assumes weak fairness of the goroutines of a start-up and of the main
goroutine that collects their results: a fetch ends within the 15 seconds of its
context, reads and writes of files return, well or badly, and the channel has room for every result.
Nobody is assumed to start the server again.

`OAuthFlow` assumes weak fairness of each callback's next step: the goroutine of a request goes on, and the
provider answers it, well or badly (a provider that never answers would hold `fetchGitHubProfile` for
ever, which the hazards list). It assumes strong fairness of the browser's return with a consented
sign-in, as the slots for callbacks may be taken by other tabs for a while. Nothing is assumed of
users, of the expiry of cookies or of failures.

The other runs are about safety and assume no fairness: clients and expiries are free to
do nothing.

## 6. What is proved

The proofs hold for all values of the constants that satisfy the named ASSUMEs
(`OAuthConstants`, `DirectoryConstants`, `RepoConstants`, `RequestConstants`, `MFAConstants`, `LocalAuthConstants`, `ProviderAuthConstants`,
`RateLimiterConstants`, `DiscoveryConstants` and those that say `None` is no value). Each is an
invariance argument: an inductive invariant, that Init implies it, that every action
preserves it, and that it implies the property.

`SessionStoreProofs`. `StoreInv` says that an entry is the session its id was created for
and is gone for good once logged out (nothing puts entries back), and what the copy a
lookup holds can be: a call that began on a dead id holds at most the copy of an expired
session, which the check after the unlock still catches. From it: `LookupsAreSound`,
`OnlyDeadAreEvicted` and the refinement `StoreImplementsTable`.

`OnboardingProofs`. `OnboardingInv` has three parts: the types; `TablesOK`, which relates
rows to rows and sessions to rows (the conjuncts that are properties, and `Founded`,
`RowsAreBacked`, `InvitesFromFounder`, `EmailsWereClaimed`, `PendingsWereAsserted`); and
`ReqOK`, which says for every step a handler can be at what is still true of what it
has read. The last is what makes the argument about interleavings: its conjuncts
are stable under the steps of every other request because rows only grow in the ways
`Grows` lists (lemma `ReqKept`). `RowsAreBacked` alone is not inductive: the
membership a signup will write needs the user and organisation that same request has
made. From it follow the theorems listed in `PROJECT.json`. `LoginsHonourTOTP` assumes
that queries do not fail (section 4 says why), `ProviderSessionsHaveLinks`
assumes `StableClaims`, that an identity always comes with the same email (LinkRace shows why).

What section 4 shows to fail is proved up to exactly the overlap shown there, which says that
there is no other way to it. The hypothesis is in each case about the behaviour, and one that serves
its requests one after the other satisfies it:

| Theorem | Holds unless |
|---|---|
| `OneTimeUnlessTwoAccept` | two requests accept one invite at the same time (`NoTwoAcceptances`) |
| `PasswordSetUnlessNameTaken` | an account's email is another account's username (`UsernamesAreOwn`) |
| `LinkedUnlessTwoLink` | two requests are about to link one identity to two users (`NoTwoLinks`) |
| `HealthyUnlessStale` | a start finds a file that is cut off or of another issuer (`CleanStarts`) |
| `ConsentersSignInUnlessMixed` | a callback is completed that came without a state or with another sign-in's code (`UrlsAreWhole`) |
| `OneSaltPerDay` | a request reads the date before midnight and locks after it (`NoneStraddles`) |

Each adds to the inductive invariant what a request at the second of its two statements still relies on.
The frame lemmas (`LocalFrame`, `InviteFrame`, `ProviderFrame`, `EnvironmentFrame`) say once what each
handlers' file leaves alone, so that only the steps that matter are looked at.
`ServiceUsesTables` follows from them too: handlers touch the session store and the pending links
only through `SessionTable`, the table that `StoreImplementsTable` shows the store to be. From the
one and the other: no id that has ended is ever valid again (`NoSessionReturns`, `DeadStayDead`).
`OnlyInvitedSignIn` puts sessions, memberships and invites together: every session in an organisation
leads back to its founder.

`MFAEnforceProofs`. The gate is passed when a request begins and must hold when it writes.
`GateInv` adds that a local session on its way to an invite has enrolled, that the session of an accepted
invite belongs to an organisation somebody has invited for, and that every inviter so far is vouched for. An
invited Owner is the founder, so he is the inviter of that very invite. Enrolment and links are never taken
back, so what the gate saw stays true. `GateInvariant` rests on `LocalRequired` and on
`[]ProviderSessionsAreLinked`, which the two theorems about provider sessions give under
`StableClaims` (`OnlyEnrolledInvite`) or as long as no two requests race for an identity (`OnlyEnrolledInviteUnlessTwoLink`).

`MembershipProofs`. The refinement and `OnlyInvitesHelp` split the steps of the service into quiet
ones, which leave the abstract variables and the requests that found alone, and the few
that found or grant. `FoundingIsFirst` says that an organisation is empty until
the request that has created it writes its owner, which is what `Own` asks for.

`OAuthFlowProofs`. `FlowInv` says that a state cookie is that of the sign-in started last and
comes with its nonce, and what a callback past the check of the state, with a token or refused, knows of
the sign-in of its state and of that of its code, which may be two, or one, or none. That the nonce of a used
cookie is the one in the token of the same sign-in is why the second check never fails a user who did nothing
wrong, and that it is not the one in any other token is `CookiesBind`. `ConsentersSignInUnlessMixed` is the
stronger sentence of section 4, up to the case that breaks it.

`DirectoryProofs`. A walk misses nobody by an argument on ranks: whoever is alone at his time stands, in
every listing, right behind the rows created after him (`Standing`), so a page that ends
behind him has shown him (`PageReaches`). `Ahead` says that a member not shown yet has at
least as many rows before him as the walk has passed; rows only come, so the number does not
go down (`Rank`, with the cardinality theorems of the library). At the empty page it is a contradiction.

`RateLimiterProofs`. `KeyOK` bounds the tokens of a bucket by the admissions since any
earlier one; the elapsed time may be negative, and then tokens are taken back, which is why the
bound survives reordering.

`DiscoveryCacheProofs`. `CacheInv` says how far each goroutine can have come: those of an
intact start, which finds its documents in files it can read, have nothing to fetch, and the refresh loop only runs when no
goroutine of the start does.

Liveness. `SweepsReclaim`, `TwoProviderStartupEnds` and `ConsentsComplete` prove the three liveness
properties from hypotheses that say what the fairness of section 5 says, with the guards
of the actions spelt out (`SweeperScheduled`, `Scheduled`, `ServeScheduled`, `SlotScheduled`,
`FlowScheduled`): an action whose guard holds for ever from some time on, or again and again for the browser's return, is
taken again and again. The prover
knows no ENABLED, so that WF and SF give these hypotheses is not proved; TLC checks the
properties from `FairSpec` itself. The arguments are the usual chains of leads-to, one link for
each step of a goroutine or callback, over the same invariants. `ConsentsComplete` holds for
any number of tabs and callbacks. `TwoProviderStartupEnds` is for two issuers, as the code has (microsoft and
google): that *all* of finitely many goroutines end up received is a temporal induction, which is out of reach.

Left to TLC are ENABLED (deadlock, and WF and SF as such) and temporal induction; induction over
data is not needed. Proof modules avoid RECURSIVE operators; none is needed.

## 7. Assumptions about the environment

Postgres executes each statement atomically and enforces the constraints of the
migrations; a statement whose answer is lost may have been executed. Random ids, tokens and salts do
not repeat. Nobody edits the tables by hand. One server process uses a database's
sessions and one cache directory. os.WriteFile leaves the old file, an empty one
or the new one; a file that is there may fail to be read, which the code takes for a miss
(`ReadError`). go-oidc accepts a discovery document only for the issuer asked for.

## 8. Not modelled

- admin session list: a role check and one snapshot of the session store, of all organisations.
- of the profile handlers, the linked identities and the last login, and the second read of the user's row.
- of an identity, its name and groups, which are not used; its picture is a parameter of `Directory`.
- a late answer of one tab may replace the session cookie another tab has just got: the browser's
  session cookie is not in the models, where a request carries any session id.
- denylist and log enrichment: the denylist is never filled, and both look for a session in a context that has none yet.
- IdP group mappings, the new-account branch of the callback, `resolveOrgForSignup`,
  `auth_optional`, `org_context`, password resets: not reachable in the server.
- `/orgs/{slug}/projects`: mounted without RequireAuth, so RequireRole never finds a session and always answers 401.
- logging, configuration, request ids, static files, CORS.
- memory growth: pending links that are never looked up and rate limiter buckets are not
  removed; the models are finite from the start.

## 9. Plan

Done: the session store and its table, the onboarding service with all routes that change its state,
the promise of `Membership` that it implements, the MFA gate, the rate limiter, provider set-up, the code
exchange, profiles and search; every property of the passing runs is proved, liveness as far as section 6
says, and for each run of section 4 the case in which its sentence does hold.

Next, in this order:

1. Login attempts and `last_login` of the full profile (recorded under the username, looked up by email)
   and the identities it lists, next to links that are made meanwhile.
2. `PickUserOrg` under concurrent role changes: which organisation a login enters.
3. `OAuthFlow` composed with `ProviderAuth`, with the browser's session and pending cookies.
4. `ListSessionsHandler` over `SessionStore`: what a snapshot may show of expired sessions.
5. Proofs: that `Directory` only changes memberships as `Membership` does; a bound on the admissions of a
   client, not only of a key, over a day without stragglers.
