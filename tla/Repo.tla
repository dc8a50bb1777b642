-------------------------------- MODULE Repo --------------------------------
(***************************************************************************)
(* internal/repo over the PostgreSQL schema of database/schema: the tables *)
(* the authentication and invite handlers use, and one operator per SQL     *)
(* statement they issue.  No handler opens a transaction, so a statement   *)
(* is the unit of atomicity; the UNIQUE and PRIMARY KEY constraints of the *)
(* schema decide whether an INSERT succeeds.                               *)
(*                                                                         *)
(* A user row is identified with its email and an organisation row with    *)
(* its slug: both are UNIQUE, and no handler updates or deletes them.      *)
(***************************************************************************)
EXTENDS Naturals, FiniteSets

CONSTANTS Names,       \* non-empty strings in normal form: emails, usernames
          Slugs,       \* the names isValidSlug accepts
          Passwords,   \* the passwords HashPassword accepts
          Secrets,     \* TOTP secrets
          Tokens,      \* invite tokens, one per SHA-256 hash
          Identities,  \* (provider, subject) pairs
          ProviderOf,  \* the provider of each of them
          Seed,        \* the owner migration 003 gives an organisation, or None
          SeedPassword,
          None         \* NULL, or no row

VARIABLES users,          \* users: the emails that have a row
          credentials,    \* local_credentials, by user_id
          totp,           \* user_totp: the secret of each user_id
          organisations,  \* organisations: created_at of each slug, 0 = no row
          members,        \* org_memberships: the role of (slug, user_id)
          invites,        \* org_invites, by token_hash
          attempts,       \* login_attempts, without ip and ts
          identities      \* identities: the user_id of each (provider, subject)

db == <<users, credentials, totp, organisations, members, invites, attempts, identities>>

-----------------------------------------------------------------------------
\* ProviderKind.
Providers == {"microsoft", "google", "github"}

Roles == {"Owner", "Admin", "Member", "Viewer"}

\* The order of the org_role enum, by which ORDER BY m.role sorts.
EnumRank(role) ==
    CASE role = "Owner" -> 1 [] role = "Admin" -> 2
      [] role = "Member" -> 3 [] role = "Viewer" -> 4

\* HashPassword and VerifyPassword: the PHC string determines the password it
\* was made from; it is not the password itself.
HashPassword(pw) == [phc |-> pw]
VerifyPassword(pw, hash) == hash = HashPassword(pw)

\* validateTOTP: a six-digit code stands for the secret that generates it now.
ValidateTOTP(secret, code) == code = secret

Credential == [name : Names, hash : {HashPassword(pw) : pw \in Passwords}]
Invite == [org : Slugs, inviter : Names, email : Names, role : Roles,
           used : BOOLEAN, lapsed : BOOLEAN]

ASSUME RepoConstants ==
    /\ IsFiniteSet(Slugs)
    /\ ProviderOf \in [Identities -> Providers]
    /\ Seed \in [Slugs -> Names \cup {None}]
    /\ SeedPassword \in Passwords
    /\ None \notin Names \cup Slugs \cup Secrets \cup Roles \cup Credential \cup Invite

RepoTypeOK ==
    /\ users \in SUBSET Names
    /\ credentials \in [Names -> Credential \cup {None}]
    /\ totp \in [Names -> Secrets \cup {None}]
    /\ organisations \in [Slugs -> Nat]
    /\ members \in [Slugs -> [Names -> Roles \cup {None}]]
    /\ invites \in [Tokens -> Invite \cup {None}]
    /\ attempts \in SUBSET [name : Names, success : BOOLEAN]
    /\ identities \in [Identities -> Names \cup {None}]

\* The migrations have run.  The demo seed creates organisations and for each
\* of them an owner, who logs in with the email; Seed leaves out testOrg, whose
\* slug isValidSlug refuses, and the identities of "local", no ProviderKind.
RepoInit ==
    /\ users = {u \in Names : \E o \in Slugs : Seed[o] = u}
    /\ credentials = [u \in Names |-> IF u \in users
                                      THEN [name |-> u, hash |-> HashPassword(SeedPassword)]
                                      ELSE None]
    /\ totp = [u \in Names |-> None]
    /\ organisations = [o \in Slugs |-> IF Seed[o] = None THEN 0 ELSE 1]
    /\ members = [o \in Slugs |-> [u \in Names |-> IF Seed[o] = u THEN "Owner" ELSE None]]
    /\ invites = [t \in Tokens |-> None]
    /\ attempts = {}
    /\ identities = [i \in Identities |-> None]

-----------------------------------------------------------------------------
(* Queries. *)

\* GetUserByEmail and GetUserByID.
UserExists(u) == u \in users

\* GetLocalCredentialByUsername finds the row of u under this username.
HasUsername(u, name) == credentials[u] # None /\ credentials[u].name = name

\* UserHasTOTP.
HasTOTP(u) == totp[u] # None

\* FindOrgBySlug.
OrgExists(o) == organisations[o] # 0

\* GetRole found a row.
IsMember(o, u) == members[o][u] # None

\* Mutant: the join has lost its WHERE m.user_id.
PickedOrgAny(u, o) == OrgExists(o)

\* PickUserOrg: ORDER BY m.role DESC, o.created_at ASC LIMIT 1.
PickedOrg(u, o) ==
    /\ IsMember(o, u)
    /\ \A p \in Slugs : IsMember(p, u) =>
          \/ EnumRank(members[p][u]) < EnumRank(members[o][u])
          \/ /\ members[p][u] = members[o][u]
             /\ organisations[o] <= organisations[p]

-----------------------------------------------------------------------------
(* Statements that write. *)

\* INSERT INTO users ... ON CONFLICT (email) keeps the row there is.
UpsertUser(u) ==
    /\ users' = users \cup {u}
    /\ UNCHANGED <<credentials, totp, organisations, members, invites, attempts, identities>>

\* Mutant: INSERT ... ON CONFLICT (user_id) DO UPDATE.
CredentialFitsUpsert(u, name) == \A v \in Names \ {u} : ~HasUsername(v, name)

\* local_credentials: user_id is the PRIMARY KEY and username is UNIQUE.
CredentialFits(u, name) ==
    /\ credentials[u] = None
    /\ \A v \in Names : ~HasUsername(v, name)

\* Mutant: the password is stored as it came.
CreateLocalCredentialPlain(u, name, pw) ==
    /\ credentials' = [credentials EXCEPT ![u] = [name |-> name, hash |-> pw]]
    /\ UNCHANGED <<users, totp, organisations, members, invites, attempts, identities>>

\* INSERT INTO local_credentials, when no constraint refuses it.
CreateLocalCredential(u, name, pw) ==
    /\ credentials' = [credentials EXCEPT ![u] =
                          [name |-> name, hash |-> HashPassword(pw)]]
    /\ UNCHANGED <<users, totp, organisations, members, invites, attempts, identities>>

\* UPDATE local_credentials ... WHERE user_id = u: no row is no error.
UpdateLocalPasswordHash(u, pw) ==
    /\ credentials' =
          IF credentials[u] = None THEN credentials
          ELSE [credentials EXCEPT ![u] =
                   [name |-> credentials[u].name, hash |-> HashPassword(pw)]]
    /\ UNCHANGED <<users, totp, organisations, members, invites, attempts, identities>>

\* INSERT INTO user_totp ... ON CONFLICT (user_id) replaces the secret.
SetTOTPSecret(u, secret) ==
    /\ totp' = [totp EXCEPT ![u] = secret]
    /\ UNCHANGED <<users, credentials, organisations, members, invites, attempts, identities>>

\* INSERT INTO organisations, when the slug is free; created_at is now().
CreateOrg(o) ==
    /\ organisations' = [organisations EXCEPT ![o] =
                            Cardinality({p \in Slugs : OrgExists(p)}) + 1]
    /\ UNCHANGED <<users, credentials, totp, members, invites, attempts, identities>>

\* INSERT INTO org_memberships ... ON CONFLICT DO UPDATE SET role.
EnsureMembership(o, u, role) ==
    /\ members' = [members EXCEPT ![o] = [members[o] EXCEPT ![u] = role]]
    /\ UNCHANGED <<users, credentials, totp, organisations, invites, attempts, identities>>

\* INSERT INTO org_invites.
CreateInvite(t, o, inviter, email, role) ==
    /\ invites' = [invites EXCEPT ![t] =
                      [org |-> o, inviter |-> inviter, email |-> email,
                       role |-> role, used |-> FALSE, lapsed |-> FALSE]]
    /\ UNCHANGED <<users, credentials, totp, organisations, members, attempts, identities>>

\* UPDATE org_invites SET used_at ... AND used_at IS NULL: no row is no error.
UseInvite(t) ==
    /\ invites' = [invites EXCEPT ![t] = [invites[t] EXCEPT !.used = TRUE]]
    /\ UNCHANGED <<users, credentials, totp, organisations, members, attempts, identities>>

\* The clock passes expires_at of the invite.
InviteLapses(t) ==
    /\ invites[t] # None /\ ~invites[t].lapsed
    /\ invites' = [invites EXCEPT ![t] = [invites[t] EXCEPT !.lapsed = TRUE]]
    /\ UNCHANGED <<users, credentials, totp, organisations, members, attempts, identities>>

\* RecordLoginSuccess and RecordLoginFailure.
RecordLoginAttempt(name, success) ==
    /\ attempts' = attempts \cup {[name |-> name, success |-> success]}
    /\ UNCHANGED <<users, credentials, totp, organisations, members, invites, identities>>

\* INSERT INTO identities ... ON CONFLICT DO NOTHING, which is no error.
LinkIdentity(u, i) ==
    /\ identities' = IF identities[i] = None THEN [identities EXCEPT ![i] = u] ELSE identities
    /\ UNCHANGED <<users, credentials, totp, organisations, members, invites, attempts>>
=============================================================================
