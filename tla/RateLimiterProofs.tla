------------------------- MODULE RateLimiterProofs --------------------------
(***************************************************************************)
(* The admissions of the rate limiter for any price, burst and number of   *)
(* concurrent requests.  A bucket's credit is what it holds, corrected by  *)
(* the time it was refilled: a refill leaves it alone or lowers it,        *)
(* whether the elapsed time is positive or negative, and an admission      *)
(* lowers it by Cost.                                                      *)
(***************************************************************************)
EXTENDS RateLimiter, TLAPS

USE RateLimiterConstants, NoneIsNothing

Price(n) == n * Cost
Credit(k) == buckets[k].tokens - buckets[k].lastRefill

\* The admissions so far have been paid for, and the last one has not
\* overdrawn the bucket.
KeyOK(k) ==
    /\ buckets[k] = None => log[k] = <<>>
    /\ buckets[k] # None =>
          /\ log[k] # <<>>
          /\ Credit(k) >= 0 - log[k][Len(log[k])]
          /\ \A i \in DOMAIN log[k] :
                Credit(k) <= Capacity - log[k][i] - Price(Len(log[k]) - i + 1)
    /\ \A i, j \in DOMAIN log[k] :
          i <= j => Price(j - i + 1) <= Capacity + log[k][j] - log[k][i]

\* A request that has been through the rotation finds a salt.
Salted == \A r \in Reqs : req[r].at = "key" => rotSalt # None

LimiterInv == TypeOK /\ Salted /\ \A k \in Keys : KeyOK(k)

-----------------------------------------------------------------------------
\* The arithmetic of prices: all there is of multiplication.
LEMMA Prices ==
    /\ Capacity \in Nat /\ Cost <= Capacity
    /\ Price(1) = Cost
    /\ \A n \in Int : Price(n) \in Int /\ Price(n + 1) = Price(n) + Cost
BY DEF Capacity, Price

\* A refill up to the capacity.
LEMMA Refills ==
    ASSUME TypeOK, NEW k \in Keys, NEW now \in Nat
    PROVE  /\ Refilled(k, now) \in Int
           /\ Refilled(k, now) <= Capacity
           /\ buckets[k] = None => Refilled(k, now) = Capacity
           /\ buckets[k] # None =>
                 /\ Credit(k) \in Int
                 /\ Refilled(k, now) - now <= Credit(k)
                 /\ Refilled(k, now) < Capacity => Refilled(k, now) - now = Credit(k)
<1>1. buckets[k] = None \/ buckets[k] \in Bucket
  BY DEF TypeOK
<1>2. CASE buckets[k] = None
  BY <1>2, Prices DEF Refilled
<1>3. CASE buckets[k] \in Bucket
  <2>1. buckets[k].tokens \in Int /\ buckets[k].lastRefill \in Nat /\ buckets[k] # None
    BY <1>3 DEF Bucket
  <2> DEFINE x == buckets[k].tokens
             y == buckets[k].lastRefill
  <2>2. x \in Int /\ y \in Nat /\ Capacity \in Nat
    BY <2>1, Prices
  <2>3. /\ Credit(k) = x - y
        /\ Refilled(k, now) = IF x + now - y < Capacity THEN x + now - y ELSE Capacity
    BY <2>1 DEF Refilled, Credit
  <2> HIDE DEF x, y
  <2>4. CASE x + now - y < Capacity
    <3>1. Refilled(k, now) = x + now - y
      BY <2>3, <2>4
    <3> QED
      BY <2>1, <2>2, <2>3, <2>4, <3>1
  <2>5. CASE ~(x + now - y < Capacity)
    <3>1. Refilled(k, now) = Capacity
      BY <2>3, <2>5
    <3> QED
      BY <2>1, <2>2, <2>3, <2>5, <3>1
  <2> QED
    BY <2>4, <2>5
<1> QED
  BY <1>1, <1>2, <1>3

\* What the handler in front of the lock holds.
LEMMA Waiting ==
    ASSUME TypeOK, NEW r \in Reqs, req[r].at = "allow"
    PROVE  req[r].key \in Keys /\ req[r].now \in Nat
BY DEF TypeOK, Request, Idle

\* A refused request leaves the credit alone, and it came soon after the last
\* admission.
LEMMA Refusal ==
    ASSUME LimiterInv, NEW r \in Reqs, Refuse(r)
    PROVE  LET k == req[r].key IN
           /\ k \in Keys /\ req[r].now \in Nat
           /\ buckets[k] # None /\ log[k] # <<>>
           /\ Refilled(k, req[r].now) - req[r].now = Credit(k)
           /\ req[r].now < log[k][Len(log[k])] + Cost
<1> DEFINE k == req[r].key
           now == req[r].now
<1>1. k \in Keys /\ now \in Nat /\ Refilled(k, now) < Cost
  BY Waiting DEF Refuse, LimiterInv
<1>2. TypeOK /\ KeyOK(k)
  BY <1>1 DEF LimiterInv
<1> HIDE DEF k, now
<1>3. buckets[k] # None
  BY <1>1, <1>2, Refills, Prices
<1>4. log[k] # <<>> /\ Credit(k) >= 0 - log[k][Len(log[k])]
  BY <1>2, <1>3 DEF KeyOK
<1>5. Refilled(k, now) - now = Credit(k)
  BY <1>1, <1>2, <1>3, Refills, Prices
<1>6. log[k][Len(log[k])] \in Nat
  BY <1>1, <1>2, <1>4 DEF TypeOK
<1>7. now < log[k][Len(log[k])] + Cost
  BY <1>1, <1>2, <1>3, <1>4, <1>5, <1>6, Refills
<1> QED
  BY <1>1, <1>3, <1>4, <1>5, <1>7 DEF k, now

-----------------------------------------------------------------------------
LEMMA LimiterTypes == ASSUME TypeOK, Salted, [Next]_vars PROVE TypeOK' /\ Salted'
<1> USE DEF TypeOK, Salted
<1>1. ASSUME Tick \/ Midnight \/ UNCHANGED vars PROVE TypeOK' /\ Salted'
  BY <1>1 DEF Tick, Midnight, vars, salting, limiting
<1>2. ASSUME NEW r \in Reqs, NEW h \in Hosts, Arrive(r, h) PROVE TypeOK' /\ Salted'
  <2>1. req' \in [Reqs -> Request]
    BY <1>2 DEF Arrive, Request
  <2> QED
    BY <1>2, <2>1 DEF Arrive, salting, limiting
<1>3. ASSUME NEW r \in Reqs, Rotate(r) PROVE TypeOK' /\ Salted'
  <2>1. req[r].host \in Hosts /\ req[r].day \in Nat
    BY <1>3 DEF Rotate, Request, Idle
  <2>2. req' \in [Reqs -> Request]
    BY <1>3, <2>1 DEF Rotate, Request
  <2>3. rotDay' \in Nat /\ rotSalt' \in Salts /\ issued' \subseteq Salts
    <3>1. CASE RotationDue(req[r].day)
      BY <1>3, <2>1, <3>1 DEF Rotate
    <3>2. CASE ~RotationDue(req[r].day)
      BY <1>3, <3>2 DEF Rotate, RotationDue, salting
    <3> QED
      BY <3>1, <3>2
  <2>4. rotSalt' # None
    BY <2>3
  <2> QED
    BY <1>3, <2>2, <2>3, <2>4 DEF Rotate, limiting
<1>4. ASSUME NEW r \in Reqs, MakeKey(r) PROVE TypeOK' /\ Salted'
  <2>1. req[r].host \in Hosts /\ rotSalt \in Salts
    BY <1>4 DEF MakeKey, Request, Idle
  <2>2. req' \in [Reqs -> Request]
    BY <1>4, <2>1 DEF MakeKey, Request, Keys
  <2> QED
    BY <1>4, <2>2 DEF MakeKey, salting, limiting
<1>5. ASSUME NEW r \in Reqs, ReadClock(r) PROVE TypeOK' /\ Salted'
  <2>1. req[r].key \in Keys
    BY <1>5 DEF ReadClock, Request, Idle
  <2>2. req' \in [Reqs -> Request]
    BY <1>5, <2>1 DEF ReadClock, Request
  <2> QED
    BY <1>5, <2>2 DEF ReadClock, salting, limiting
<1>6. ASSUME NEW r \in Reqs, Admit(r) \/ Refuse(r) PROVE TypeOK' /\ Salted'
  <2>1. req[r].key \in Keys /\ req[r].now \in Nat
    BY <1>6, Waiting DEF Admit, Refuse
  <2>2. Refilled(req[r].key, req[r].now) \in Int
    BY <2>1, Refills
  <2>3. req' \in [Reqs -> Request]
    BY <1>6 DEF Admit, Refuse, Request
  <2>4. \A x \in Int : [tokens |-> x, lastRefill |-> req[r].now] \in Bucket
    BY <2>1 DEF Bucket
  <2>5. Refilled(req[r].key, req[r].now) - Cost \in Int
    BY <2>2
  <2> HIDE DEF TypeOK
  <2>6. buckets' \in [Keys -> Bucket \cup {None}]
    <3>1. buckets \in [Keys -> Bucket \cup {None}]
      BY DEF TypeOK
    <3>2. \E b \in Bucket : buckets' = [buckets EXCEPT ![req[r].key] = b]
      BY <1>6, <2>2, <2>4, <2>5 DEF Admit, Refuse
    <3> QED
      BY <3>1, <3>2
  <2>7. log' \in [Keys -> Seq(Nat)]
    <3>1. log \in [Keys -> Seq(Nat)]
      BY DEF TypeOK
    <3>2. Append(log[req[r].key], req[r].now) \in Seq(Nat)
      BY <2>1, <3>1
    <3> QED
      BY <1>6, <2>1, <3>1, <3>2 DEF Admit, Refuse
  <2>8. /\ clock' = clock /\ day' = day
        /\ rotDay' = rotDay /\ rotSalt' = rotSalt /\ issued' = issued
    BY <1>6 DEF Admit, Refuse, salting
  <2>9. Salted'
    <3>1. \A q \in Reqs : req'[q].at = "key" => req[q].at = "key"
      BY <1>6 DEF Admit, Refuse, TypeOK, Idle
    <3> QED
      BY <2>8, <3>1
  <2> QED
    BY <2>3, <2>6, <2>7, <2>8, <2>9 DEF TypeOK
<1> QED
  BY <1>1, <1>2, <1>3, <1>4, <1>5, <1>6 DEF Next

\* The admission of one more request is paid for.
LEMMA AdmissionKept ==
    ASSUME TypeOK, NEW k \in Keys, KeyOK(k), NEW now \in Nat,
           Refilled(k, now) >= Cost,
           buckets'[k] = [tokens |-> Refilled(k, now) - Cost, lastRefill |-> now],
           log'[k] = Append(log[k], now)
    PROVE  KeyOK(k)'
<1> DEFINE n == Len(log[k])
           left == Refilled(k, now) - Cost
<1>1. /\ log[k] \in Seq(Nat) /\ n \in Nat /\ DOMAIN log[k] = 1..n
      /\ log'[k] \in Seq(Nat) /\ Len(log'[k]) = n + 1 /\ DOMAIN log'[k] = 1..(n + 1)
      /\ log'[k][n + 1] = now /\ \A i \in 1..n : log'[k][i] = log[k][i] /\ log[k][i] \in Nat
  BY DEF TypeOK
<1>2. left \in Int /\ left >= 0 /\ left <= Capacity - Cost
  <2>1. Refilled(k, now) \in Int /\ Refilled(k, now) <= Capacity /\ Capacity \in Nat
    BY Refills, Prices
  <2> QED
    BY <2>1
<1>3. Credit(k)' = left - now /\ buckets'[k] # None
  <2>1. [tokens |-> left, lastRefill |-> now] \in Bucket
    BY <1>2 DEF Bucket
  <2> QED
    BY <2>1 DEF Credit
<1>4. ASSUME NEW i \in 1..n
      PROVE  left - now <= Capacity - log[k][i] - Price(n + 1 - i + 1)
  <2>1. log[k] # <<>> /\ buckets[k] # None
    BY <1>1 DEF KeyOK
  <2>2. Credit(k) \in Int /\ Refilled(k, now) - now <= Credit(k) /\ Refilled(k, now) \in Int
    BY <2>1, Refills
  <2>3. Credit(k) <= Capacity - log[k][i] - Price(n - i + 1)
    BY <1>1, <2>1 DEF KeyOK
  <2>4. Price(n + 1 - i + 1) = Price(n - i + 1) + Cost /\ Price(n - i + 1) \in Int
    <3>1. n - i + 1 \in Int /\ n + 1 - i + 1 = (n - i + 1) + 1
      BY <1>1
    <3> QED
      BY <3>1, Prices
  <2>5. log[k][i] \in Nat /\ Capacity \in Nat
    BY <1>1, Prices
  <2> DEFINE refilled == Refilled(k, now)
             credit == Credit(k)
             price == Price(n - i + 1)
             at == log[k][i]
  <2>6. /\ credit \in Int /\ refilled \in Int /\ price \in Int /\ at \in Nat
        /\ refilled - now <= credit /\ credit <= Capacity - at - price
    BY <2>2, <2>3, <2>4, <2>5
  <2> HIDE DEF refilled, credit, price, at
  <2>7. refilled - Cost - now <= Capacity - at - (price + Cost)
    BY <2>5, <2>6
  <2> QED
    BY <2>4, <2>7 DEF refilled, price, at
<1> HIDE DEF n, left
<1>5. left - now <= Capacity - now - Price(1)
  <2>1. Capacity \in Nat /\ Price(1) = Cost
    BY Prices
  <2> QED
    BY <1>2, <2>1
<1>6. \A i \in 1..(n + 1) :
         left - now <= Capacity - log'[k][i] - Price(n + 1 - i + 1)
  <2> SUFFICES ASSUME NEW i \in 1..(n + 1)
               PROVE  left - now <= Capacity - log'[k][i] - Price(n + 1 - i + 1)
    OBVIOUS
  <2>1. CASE i = n + 1
    <3>1. n + 1 - i + 1 = 1
      BY <1>1, <2>1
    <3> QED
      BY <1>1, <1>5, <2>1, <3>1
  <2>2. CASE i \in 1..n
    BY <1>1, <1>4, <2>2
  <2> QED
    BY <1>1, <2>1, <2>2
<1>7. \A i, j \in 1..(n + 1) :
         i <= j => Price(j - i + 1) <= Capacity + log'[k][j] - log'[k][i]
  <2> SUFFICES ASSUME NEW i \in 1..(n + 1), NEW j \in 1..(n + 1), i <= j
               PROVE  Price(j - i + 1) <= Capacity + log'[k][j] - log'[k][i]
    OBVIOUS
  <2>1. CASE j = n + 1
    <3>1. Price(n + 1 - i + 1) \in Int
      BY <1>1, Prices
    <3>2. log'[k][i] \in Nat
      BY <1>1
    <3>3. left - now <= Capacity - log'[k][i] - Price(n + 1 - i + 1)
      BY <1>6
    <3>4. log'[k][j] = now /\ Capacity \in Nat
      BY <1>1, <2>1, Prices
    <3> DEFINE price == Price(n + 1 - i + 1)
               at == log'[k][i]
    <3>5. price \in Int /\ at \in Nat /\ left - now <= Capacity - at - price
      BY <3>1, <3>2, <3>3
    <3> HIDE DEF price, at
    <3>6. price <= Capacity + now - at
      BY <1>2, <3>4, <3>5
    <3>7. n + 1 - i + 1 = j - i + 1
      BY <1>1, <2>1
    <3>8. price = Price(j - i + 1) /\ at = log'[k][i]
      BY <3>7, Zenon DEF price, at
    <3> QED
      BY <3>4, <3>6, <3>8
  <2>2. CASE j \in 1..n
    <3>1. i \in 1..n
      BY <1>1, <2>2
    <3> QED
      BY <1>1, <2>2, <3>1 DEF KeyOK
  <2> QED
    BY <1>1, <2>1, <2>2
<1>8. log'[k] # <<>> /\ left - now >= 0 - log'[k][Len(log'[k])]
  <2>1. log'[k][Len(log'[k])] = now
    BY <1>1
  <2>2. left - now >= 0 - now
    BY <1>2
  <2> QED
    BY <1>1, <2>1, <2>2
<1>9. \A i \in DOMAIN log'[k] :
         Credit(k)' <= Capacity - log'[k][i] - Price(Len(log'[k]) - i + 1)
  <2> SUFFICES ASSUME NEW i \in DOMAIN log'[k]
               PROVE  Credit(k)' <= Capacity - log'[k][i] - Price(Len(log'[k]) - i + 1)
    OBVIOUS
  <2>1. i \in 1..(n + 1) /\ Len(log'[k]) - i + 1 = n + 1 - i + 1
    BY <1>1
  <2>2. Price(Len(log'[k]) - i + 1) = Price(n + 1 - i + 1)
    BY <2>1, Zenon
  <2> QED
    BY <1>3, <1>6, <2>1, <2>2
<1>10. Credit(k)' >= 0 - log'[k][Len(log'[k])]
  BY <1>3, <1>8
<1>11. \A i, j \in DOMAIN log'[k] :
          i <= j => Price(j - i + 1) <= Capacity + log'[k][j] - log'[k][i]
  BY <1>1, <1>7
<1> QED
  BY <1>3, <1>8, <1>9, <1>10, <1>11 DEF KeyOK

LEMMA LimiterStarts == Init => LimiterInv
BY DEF Init, LimiterInv, TypeOK, Salted, KeyOK, Request, Idle

LEMMA LimiterStep == LimiterInv /\ [Next]_vars => LimiterInv'
<1> SUFFICES ASSUME LimiterInv, [Next]_vars PROVE LimiterInv'
  OBVIOUS
<1>1. TypeOK /\ TypeOK' /\ Salted' /\ \A k \in Keys : KeyOK(k)
  BY LimiterTypes DEF LimiterInv
<1>2. ASSUME NEW k \in Keys, buckets'[k] = buckets[k], log'[k] = log[k] PROVE KeyOK(k)'
  BY <1>1, <1>2 DEF KeyOK, Credit, Capacity
<1>3. ASSUME NEW r \in Reqs, Admit(r), NEW k \in Keys PROVE KeyOK(k)'
  <2>1. req[r].key \in Keys /\ req[r].now \in Nat
    BY <1>1, <1>3, Waiting DEF Admit
  <2>2. CASE k = req[r].key
    <3>1. /\ Refilled(k, req[r].now) >= Cost
          /\ buckets'[k] = [tokens |-> Refilled(k, req[r].now) - Cost,
                            lastRefill |-> req[r].now]
          /\ log'[k] = Append(log[k], req[r].now)
      BY <1>1, <1>3, <2>2 DEF Admit, TypeOK
    <3> QED
      BY <1>1, <2>1, <3>1, AdmissionKept
  <2>3. CASE k # req[r].key
    BY <1>1, <1>2, <1>3, <2>3 DEF Admit, TypeOK
  <2> QED
    BY <2>2, <2>3
<1>4. ASSUME NEW r \in Reqs, Refuse(r), NEW k \in Keys PROVE KeyOK(k)'
  <2>1. CASE k = req[r].key
    <3> DEFINE now == req[r].now
               b == [tokens |-> Refilled(k, now), lastRefill |-> now]
    <3>1. /\ now \in Nat /\ buckets[k] # None
          /\ Refilled(k, now) - now = Credit(k)
      BY <1>4, <2>1, Refusal
    <3>2. buckets'[k] = b /\ log'[k] = log[k]
      BY <1>1, <1>4, <2>1 DEF Refuse, TypeOK
    <3>3. b \in Bucket
      BY <1>1, <3>1, Refills DEF Bucket
    <3>4. Credit(k)' = Credit(k) /\ buckets'[k] # None
      BY <3>1, <3>2, <3>3 DEF Credit
    <3> QED
      BY <1>1, <3>1, <3>2, <3>4 DEF KeyOK, Capacity
  <2>2. CASE k # req[r].key
    BY <1>1, <1>2, <1>4, <2>2 DEF Refuse, TypeOK
  <2> QED
    BY <2>1, <2>2
<1>5. ASSUME UNCHANGED limiting, NEW k \in Keys PROVE KeyOK(k)'
  BY <1>2, <1>5 DEF limiting
<1>6. UNCHANGED limiting \/ \E r \in Reqs : Admit(r) \/ Refuse(r)
  BY DEF Next, Tick, Midnight, Arrive, Rotate, MakeKey, ReadClock, vars
<1> QED
  BY <1>1, <1>3, <1>4, <1>5, <1>6 DEF LimiterInv

-----------------------------------------------------------------------------
\* Types, and what the buckets and the admissions say about each other.
THEOREM LimiterInvariant == Spec => []LimiterInv
BY LimiterStarts, LimiterStep, PTL DEF Spec

\* The limiter's state is well typed, however requests straddle a rotation.
THEOREM LimiterIsTyped == Spec => []TypeOK
<1>1. LimiterInv => TypeOK
  BY DEF LimiterInv
<1> QED
  BY <1>1, LimiterInvariant, PTL

\* Admissions under one key never exceed the burst plus what time has earned.
THEOREM BurstAndRate == Spec => []AdmissionsAreBounded
<1>1. LimiterInv => AdmissionsAreBounded
  BY DEF LimiterInv, KeyOK, AdmissionsAreBounded, Price
<1> QED
  BY <1>1, LimiterInvariant, PTL

\* Nobody is refused who has waited for the price of one admission.
THEOREM RefusedTooEarly == Spec => RefusalsAreRecent
<1>1. LimiterInv /\ [Next]_vars =>
        [\A r \in Reqs : Refuse(r) =>
            LET c == req[r] IN
            /\ log[c.key] # <<>>
            /\ c.now < log[c.key][Len(log[c.key])] + Cost]_vars
  BY Refusal
<1> QED
  BY <1>1, LimiterInvariant, PTL DEF Spec, RefusalsAreRecent

-----------------------------------------------------------------------------
\* No request is between reading the date and taking the lock at midnight.
NoneStraddles == \A r \in Reqs : req[r].at = "rotate" => req[r].day = day

\* A salt gives way only to the salt of a later day.
SaltsLastTheirDay == [][rotSalt # None /\ rotSalt' # rotSalt => rotDay' > rotDay]_vars

\* As long as no request straddles midnight, a client keeps its key, and with it
\* its bucket, for the whole day: nothing but such a request rotates the salt
\* back to yesterday and makes today's twice.
THEOREM OneSaltPerDay == Spec /\ []NoneStraddles => SaltsLastTheirDay
<1>1. Init => rotDay <= day
  BY DEF Init
<1>2. ASSUME TypeOK, rotDay <= day, NoneStraddles, [Next]_vars
      PROVE  /\ rotDay' <= day'
             /\ rotSalt # None /\ rotSalt' # rotSalt => rotDay' > rotDay
  <2>1. CASE Midnight
    BY <1>2, <2>1 DEF Midnight, salting, TypeOK
  <2>2. ASSUME NEW r \in Reqs, Rotate(r)
        PROVE  /\ rotDay' <= day'
               /\ rotSalt # None /\ rotSalt' # rotSalt => rotDay' > rotDay
    <3>1. req[r].day = day /\ day' = day /\ day \in Nat /\ rotDay \in Nat
      BY <1>2, <2>2 DEF Rotate, NoneStraddles, TypeOK
    <3> QED
      BY <1>2, <2>2, <3>1 DEF Rotate, RotationDue, salting
  <2>3. ASSUME UNCHANGED <<day, salting>>
        PROVE  /\ rotDay' <= day'
               /\ rotSalt # None /\ rotSalt' # rotSalt => rotDay' > rotDay
    BY <1>2, <2>3 DEF salting
  <2> QED
    BY <1>2, <2>1, <2>2, <2>3
       DEF Next, Tick, Arrive, MakeKey, ReadClock, Admit, Refuse, vars
<1>3. /\ TypeOK /\ NoneStraddles /\ rotDay <= day /\ [Next]_vars => (rotDay <= day)'
      /\ TypeOK /\ NoneStraddles /\ rotDay <= day /\ [Next]_vars =>
            [rotSalt # None /\ rotSalt' # rotSalt => rotDay' > rotDay]_vars
  BY <1>2
<1> QED
  BY <1>1, <1>3, LimiterIsTyped, PTL DEF Spec, SaltsLastTheirDay
=============================================================================
