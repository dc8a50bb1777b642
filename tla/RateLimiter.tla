---------------------------- MODULE RateLimiter -----------------------------
(***************************************************************************)
(* internal/middleware/rate_limiter.go: the token bucket per client of     *)
(* RateLimitWith, and the salt that turns an address into the client's     *)
(* key.  Requests arrive concurrently; the day, the salt and the clock are *)
(* each read before the lock under which the value is used.                *)
(*                                                                         *)
(* The key is always made from the address: RateLimitWith is mounted in    *)
(* front of the only middleware that puts a session into the context.      *)
(* Tokens are counted in ticks of the clock, Cost ticks to a token, so     *)
(* that a bucket gains one per tick; the code's float64 is taken as exact. *)
(***************************************************************************)
EXTENDS Integers, Sequences

CONSTANTS Reqs,       \* slots for concurrent requests
          Hosts,      \* client addresses
          Salts,      \* the salts time.Now() can produce
          Cost,       \* the time that earns one admission, 60 s / rpm
          Burst,      \* the size of a bucket
          MaxClock,   \* bound: the clock of a run
          LastDay,    \* bound: the day on which a run ends
          None

ASSUME RateLimiterConstants ==
    /\ Cost \in Nat \ {0}
    /\ Burst \in Nat \ {0}

VARIABLES clock,      \* time.Now(), in ticks
          day,        \* time.Now().YearDay()
          rotDay, rotSalt,
          issued,     \* the salts made so far
          buckets,    \* limiter.buckets, by key; no bucket is ever removed
          req,        \* the local state of RateLimitWith in each slot
          log         \* ghost: the timestamps of the admissions under each key

salting == <<rotDay, rotSalt, issued>>
limiting == <<buckets, log>>
vars == <<clock, day, salting, limiting, req>>

-----------------------------------------------------------------------------
Capacity == Burst * Cost
Keys == Salts \X Hosts
Bucket == [tokens : Int, lastRefill : Nat]

ASSUME NoneIsNothing == None \notin Salts \cup Bucket

Idle == [at |-> "idle"]
Request == {Idle} \cup [at : {"rotate"}, host : Hosts, day : Nat]
                  \cup [at : {"key"}, host : Hosts]
                  \cup [at : {"now"}, key : Keys]
                  \cup [at : {"allow"}, key : Keys, now : Nat]

Init ==
    /\ clock = 0 /\ day = 1
    /\ rotDay = 0 /\ rotSalt = None /\ issued = {}
    /\ buckets = [k \in Keys |-> None]
    /\ req = [r \in Reqs |-> Idle]
    /\ log = [k \in Keys |-> <<>>]

-----------------------------------------------------------------------------
Tick ==
    /\ clock < MaxClock
    /\ clock' = clock + 1
    /\ UNCHANGED <<day, salting, limiting, req>>

Midnight ==
    /\ day < LastDay
    /\ day' = day + 1
    /\ UNCHANGED <<clock, salting, limiting, req>>

\* A request arrives; rotateSaltIfNeeded reads the day before it takes rotMu.
Arrive(r, h) ==
    /\ req[r] = Idle
    /\ req' = [req EXCEPT ![r] = [at |-> "rotate", host |-> h, day |-> day]]
    /\ UNCHANGED <<clock, day, salting, limiting>>

\* Mutant: the test for the first use is the wrong way round.
RotationDueUnlessNil(d) == d # rotDay /\ rotSalt # None

RotationDue(d) == d # rotDay \/ rotSalt = None

Rotate(r) ==
    LET c == req[r] IN
    /\ c.at = "rotate"
    /\ IF RotationDue(c.day)
       THEN \E salt \in Salts \ issued :
               /\ rotDay' = c.day
               /\ rotSalt' = salt
               /\ issued' = issued \cup {salt}
       ELSE UNCHANGED salting
    /\ req' = [req EXCEPT ![r] = [at |-> "key", host |-> c.host]]
    /\ UNCHANGED <<clock, day, limiting>>

\* ipKey copies the salt and hashes it with the address.
MakeKey(r) ==
    /\ req[r].at = "key"
    /\ req' = [req EXCEPT ![r] = [at |-> "now", key |-> <<rotSalt, req[r].host>>]]
    /\ UNCHANGED <<clock, day, salting, limiting>>

\* allow reads the clock before it takes the limiter's lock.
ReadClock(r) ==
    /\ req[r].at = "now"
    /\ req' = [req EXCEPT ![r] = [at |-> "allow", key |-> req[r].key, now |-> clock]]
    /\ UNCHANGED <<clock, day, salting, limiting>>

-----------------------------------------------------------------------------
\* Mutant: no upper limit.
RefilledUnlimited(key, now) ==
    IF buckets[key] = None THEN Capacity
    ELSE buckets[key].tokens + now - buckets[key].lastRefill

\* Mutant: whole tokens only, and the rest of the elapsed time is forgotten.
RefilledWhole(key, now) ==
    LET b == buckets[key]
        earned == ((now - b.lastRefill) \div Cost) * Cost
    IN  IF b = None THEN Capacity
        ELSE IF b.tokens + earned < Capacity THEN b.tokens + earned ELSE Capacity

\* The tokens of the bucket of a key at the time `now`: a new one is full.  The
\* elapsed time is negative when a request that read the clock later was here first.
Refilled(key, now) ==
    LET b == buckets[key] IN
    IF b = None THEN Capacity
    ELSE IF b.tokens + now - b.lastRefill < Capacity
         THEN b.tokens + now - b.lastRefill ELSE Capacity

\* Under the lock: refill, and take a token or answer 429.
Admit(r) ==
    LET c == req[r] IN
    /\ c.at = "allow"
    /\ Refilled(c.key, c.now) >= Cost
    /\ buckets' = [buckets EXCEPT ![c.key] =
                      [tokens |-> Refilled(c.key, c.now) - Cost, lastRefill |-> c.now]]
    /\ log' = [log EXCEPT ![c.key] = Append(log[c.key], c.now)]
    /\ req' = [req EXCEPT ![r] = Idle]
    /\ UNCHANGED <<clock, day, salting>>

Refuse(r) ==
    LET c == req[r] IN
    /\ c.at = "allow"
    /\ Refilled(c.key, c.now) < Cost
    /\ buckets' = [buckets EXCEPT ![c.key] =
                      [tokens |-> Refilled(c.key, c.now), lastRefill |-> c.now]]
    /\ req' = [req EXCEPT ![r] = Idle]
    /\ UNCHANGED <<clock, day, salting, log>>

Next ==
    \/ Tick
    \/ Midnight
    \/ \E r \in Reqs, h \in Hosts : Arrive(r, h)
    \/ \E r \in Reqs :
          \/ Rotate(r) \/ MakeKey(r) \/ ReadClock(r) \/ Admit(r) \/ Refuse(r)

Spec == Init /\ [][Next]_vars

-----------------------------------------------------------------------------
\* Type invariant.
TypeOK ==
    /\ clock \in Nat /\ day \in Nat
    /\ rotDay \in Nat /\ rotSalt \in Salts \cup {None} /\ issued \subseteq Salts
    /\ buckets \in [Keys -> Bucket \cup {None}]
    /\ req \in [Reqs -> Request]
    /\ log \in [Keys -> Seq(Nat)]

\* Any run of admissions under one key fits in the burst plus what the time
\* between the first and the last of them earns, although requests may take
\* the lock in another order than they read the clock, so that the elapsed
\* time is negative and lastRefill goes back.
AdmissionsAreBounded ==
    \A k \in Keys : \A i, j \in DOMAIN log[k] :
        i <= j => (j - i + 1) * Cost <= Capacity + log[k][j] - log[k][i]

\* A client is never refused on credit of the future: whoever is refused came
\* less than the price of one admission after the last one under that key,
\* whatever out-of-order requests have done to the bucket in between.
RefusalsAreRecent ==
    [][\A r \in Reqs : Refuse(r) =>
          LET c == req[r] IN
          /\ log[c.key] # <<>>
          /\ c.now < log[c.key][Len(log[c.key])] + Cost]_vars
=============================================================================
