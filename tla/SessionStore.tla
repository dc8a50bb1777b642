---------------------------- MODULE SessionStore ----------------------------
(***************************************************************************)
(* internal/session/store.go and auth.ReadSession, at the granularity of   *)
(* the critical sections of Store.mu.  Every HTTP request is a goroutine   *)
(* (a member of Readers), so the unlocked stretches of Get interleave with *)
(* logouts, with the sweeper, with other lookups and with the clock.       *)
(*                                                                         *)
(* Time is the set of ids whose Expiry is Before(time.Now()): time.Now     *)
(* carries a monotonic reading, so the set only grows.                     *)
(***************************************************************************)
CONSTANTS Sids, Sessions, None, Readers

ASSUME NoneIsNeither == None \notin Sessions /\ None \notin Sids

VARIABLES data,       \* Store.data, None where the map has no key
          lapsed,     \* ids whose Expiry is Before(time.Now())
          calls,      \* the ReadSession call of each reader
          sweep,      \* the sweeper: idle, or the expiry cut it took
          issued,     \* ghost: the session each id was created for
          loggedOut   \* ghost: ids given to Delete

vars == <<data, lapsed, calls, sweep, issued, loggedOut>>

NoCall == [at |-> "idle", sid |-> None, sess |-> None, dead |-> FALSE]
NoSweep == [at |-> "wait", cut |-> {}]

\* The id is already logged out or expired: no lookup that starts now may hit.
IsDead(s) == s \in lapsed \cup loggedOut

Init ==
    /\ data = [s \in Sids |-> None]
    /\ lapsed = {}
    /\ calls = [t \in Readers |-> NoCall]
    /\ sweep = NoSweep
    /\ issued = [s \in Sids |-> None]
    /\ loggedOut = {}

-----------------------------------------------------------------------------
\* SetSessionCookie -> Store.Create: a fresh uuid, stored under the lock.
Create(s, sess) ==
    /\ issued[s] = None
    /\ data' = [data EXCEPT ![s] = sess]
    /\ issued' = [issued EXCEPT ![s] = sess]
    /\ UNCHANGED <<lapsed, calls, sweep, loggedOut>>

\* Mutant: logout clears the cookie and leaves the entry in the map.
DeleteCookieOnly(s) ==
    /\ issued[s] # None
    /\ loggedOut' = loggedOut \cup {s}
    /\ UNCHANGED <<data, lapsed, calls, sweep, issued>>

\* LogoutHandler -> Store.Delete of the id in the cookie; an id the store never
\* issued deletes nothing.
Delete(s) ==
    /\ issued[s] # None
    /\ data' = [data EXCEPT ![s] = None]
    /\ loggedOut' = loggedOut \cup {s}
    /\ UNCHANGED <<lapsed, calls, sweep, issued>>

\* The clock passes the session's Expiry.
Lapse(s) ==
    /\ issued[s] # None
    /\ s \notin lapsed
    /\ lapsed' = lapsed \cup {s}
    /\ UNCHANGED <<data, calls, sweep, issued, loggedOut>>

-----------------------------------------------------------------------------
\* The call of t moves on to step `at`, holding the copy sess.
Goto(t, at, sess) ==
    calls' = [calls EXCEPT ![t] = [at |-> at, sid |-> calls[t].sid,
                                   sess |-> sess, dead |-> calls[t].dead]]

\* ReadSession is entered with the id s in the cookie.
ReadStart(t, s) ==
    /\ calls[t].at = "idle"
    /\ calls' = [calls EXCEPT ![t] =
                    [at |-> "get", sid |-> s, sess |-> None, dead |-> IsDead(s)]]
    /\ UNCHANGED <<data, lapsed, sweep, issued, loggedOut>>

\* Mutant: `ok` is not tested, an absent entry goes on as the zero Session.
GetLoadUnchecked(t) ==
    /\ calls[t].at = "get"
    /\ Goto(t, "check", data[calls[t].sid])
    /\ UNCHANGED <<data, lapsed, sweep, issued, loggedOut>>

\* Get under RLock: the entry is copied; an absent one is a miss.
GetLoad(t) ==
    LET found == data[calls[t].sid] IN
    /\ calls[t].at = "get"
    /\ Goto(t, IF found = None THEN "done" ELSE "check", found)
    /\ UNCHANGED <<data, lapsed, sweep, issued, loggedOut>>

\* Get after RUnlock: the copy's Expiry against the clock, no lock held.
GetCheck(t) ==
    /\ calls[t].at = "check"
    /\ IF calls[t].sid \in lapsed
       THEN Goto(t, "evict", None)
       ELSE Goto(t, "recheck", calls[t].sess)
    /\ UNCHANGED <<data, lapsed, sweep, issued, loggedOut>>

\* Get takes the lock again to delete the expired entry, and misses.
GetEvict(t) ==
    /\ calls[t].at = "evict"
    /\ data' = [data EXCEPT ![calls[t].sid] = None]
    /\ Goto(t, "done", None)
    /\ UNCHANGED <<lapsed, sweep, issued, loggedOut>>

\* Mutant: a "sliding" lookup that stores the copy it read back into the map.
ReadRecheckWritesBack(t) ==
    /\ calls[t].at = "recheck"
    /\ Goto(t, "done", calls[t].sess)
    /\ data' = [data EXCEPT ![calls[t].sid] = calls[t].sess]
    /\ UNCHANGED <<lapsed, sweep, issued, loggedOut>>

\* ReadSession looks at the Expiry once more before it returns the copy.
ReadRecheck(t) ==
    /\ calls[t].at = "recheck"
    /\ Goto(t, "done", IF calls[t].sid \in lapsed THEN None ELSE calls[t].sess)
    /\ UNCHANGED <<data, lapsed, sweep, issued, loggedOut>>

\* The handler has used the result.
ReadReturn(t) ==
    /\ calls[t].at = "done"
    /\ calls' = [calls EXCEPT ![t] = NoCall]
    /\ UNCHANGED <<data, lapsed, sweep, issued, loggedOut>>

ReadStep(t) ==
    \/ GetLoad(t) \/ GetCheck(t) \/ GetEvict(t) \/ ReadRecheck(t) \/ ReadReturn(t)

-----------------------------------------------------------------------------
\* The ticker fires: `now` is read before the lock is taken.
SweepTick ==
    /\ sweep.at = "wait"
    /\ sweep' = [at |-> "lock", cut |-> lapsed]
    /\ UNCHANGED <<data, lapsed, calls, issued, loggedOut>>

\* Mutant: the sweep drops the expiry test.
SweepDeletesAll ==
    /\ sweep.at = "lock"
    /\ data' = [s \in Sids |-> None]
    /\ sweep' = NoSweep
    /\ UNCHANGED <<lapsed, calls, issued, loggedOut>>

\* Mutant: the goroutine returns after its first sweep.
SweepOnce ==
    /\ sweep.at = "lock"
    /\ data' = [s \in Sids |-> IF s \in sweep.cut THEN None ELSE data[s]]
    /\ sweep' = [sweep EXCEPT !.at = "stopped"]
    /\ UNCHANGED <<lapsed, calls, issued, loggedOut>>

\* Under the lock every entry whose Expiry is Before(now) is deleted.
SweepDelete ==
    /\ sweep.at = "lock"
    /\ data' = [s \in Sids |-> IF s \in sweep.cut THEN None ELSE data[s]]
    /\ sweep' = NoSweep
    /\ UNCHANGED <<lapsed, calls, issued, loggedOut>>

\* The process restarts (external): its memory, the map included, is gone.
Restart ==
    /\ data' = [s \in Sids |-> None]
    /\ calls' = [t \in Readers |-> NoCall]
    /\ sweep' = NoSweep
    /\ UNCHANGED <<lapsed, issued, loggedOut>>

Next ==
    \/ \E s \in Sids, sess \in Sessions : Create(s, sess)
    \/ \E s \in Sids : Delete(s) \/ Lapse(s)
    \/ \E t \in Readers, s \in Sids : ReadStart(t, s)
    \/ \E t \in Readers : ReadStep(t)
    \/ SweepTick \/ SweepDelete
    \/ Restart

Spec == Init /\ [][Next]_vars

\* The ticker goroutine runs until the process ends (StartSweeper, ctx never
\* cancelled before exit), and Go's mutex does not starve a waiter.
FairSpec == Spec /\ WF_vars(SweepTick) /\ WF_vars(SweepDelete)

-----------------------------------------------------------------------------
Call == [at : {"idle", "get", "check", "evict", "recheck", "done"},
         sid : Sids \cup {None}, sess : Sessions \cup {None}, dead : BOOLEAN]

\* Type invariant of the store, its lookups in progress and the sweeper; a
\* lookup that goes on after the unlock holds an entry of the map.
TypeOK ==
    /\ data \in [Sids -> Sessions \cup {None}]
    /\ issued \in [Sids -> Sessions \cup {None}]
    /\ lapsed \in SUBSET Sids
    /\ loggedOut \in SUBSET Sids
    /\ calls \in [Readers -> Call]
    /\ \A t \in Readers : calls[t].at # "idle" => calls[t].sid \in Sids
    /\ \A t \in Readers : calls[t].at \in {"check", "recheck"} => calls[t].sess \in Sessions
    /\ sweep \in [at : {"wait", "lock"}, cut : SUBSET Sids]

\* A ReadSession call that began after its session was logged out or had
\* expired returns nil, whatever the lookup, the logout and the sweeper do in
\* between; a call that returns a session returns the one created for its id.
NoDeadHit ==
    \A t \in Readers :
        LET c == calls[t] IN
        c.at = "done" /\ c.sess # None => ~c.dead /\ c.sess = issued[c.sid]

\* An id leaves the map only because its own session expired or was logged
\* out, or with the whole process: neither the lazy delete of Get, decided
\* without the lock, nor a sweep with a stale `now` removes a live session.
LiveNeverEvicted ==
    [][\A s \in Sids :
          data[s] # None /\ data'[s] = None =>
              s \in lapsed \/ s \in loggedOut' \/ Restart]_vars

\* The sweeper reclaims every expired entry, also one nobody looks up again.
LapsedIsReclaimed ==
    \A s \in Sids : (s \in lapsed /\ data[s] # None) ~> (data[s] = None)

\* What a lookup of s that runs alone would find.
Live == [s \in Sids |-> IF s \in lapsed THEN None ELSE data[s]]

\* The ids Create has handed out.
IssuedIds == {s \in Sids : issued[s] # None}

Table == INSTANCE SessionTable WITH sessions <- Live, issued <- IssuedIds

\* The store implements the session table: sessions appear once, vanish at
\* logout, expiry or restart, and no interleaving of lookups and sweeps is
\* visible in the table or brings a session back.
TableSpec == Table!TableSpec
=============================================================================
