------------------------- MODULE SessionStoreProofs -------------------------
(***************************************************************************)
(* For any number of sessions, ids and concurrent lookups: the type        *)
(* invariant, the guarantee of a lookup, what may evict a session, and     *)
(* that the store implements the session table.                            *)
(***************************************************************************)
EXTENDS SessionStore, TLAPS

\* An entry of the map is the session its id was created for, and is gone
\* once the id was logged out: nothing puts an entry back.
DataIsIssued ==
    \A s \in Sids : data[s] # None => data[s] = issued[s] /\ s \notin loggedOut

\* Only created ids expire or are logged out.
KnownIds == \A s \in lapsed \cup loggedOut : issued[s] # None

\* The copy a lookup holds is its id's own session; a copy taken by a call
\* that began on a dead id can only be of an expired one, which the check
\* after the unlock still catches.
CopyIsOwn ==
    \A t \in Readers :
        LET c == calls[t] IN
        /\ c.at \in {"check", "recheck", "done"} /\ c.sess # None =>
               c.sess = issued[c.sid] /\ issued[c.sid] # None
        /\ c.at \in {"get", "check"} /\ c.dead => IsDead(c.sid)
        /\ c.at = "check" /\ c.dead => c.sid \in lapsed
        /\ c.at \in {"recheck", "done"} /\ c.dead => c.sess = None
        /\ c.at = "evict" => c.sid \in lapsed

\* The sweeper's cut was taken from the clock.
CutIsLapsed == sweep.cut \subseteq lapsed

\* The inductive invariant.
StoreInv == TypeOK /\ DataIsIssued /\ KnownIds /\ CopyIsOwn /\ CutIsLapsed

-----------------------------------------------------------------------------
\* Every step keeps the types.
LEMMA TypeStep ==
    ASSUME TypeOK, [Next]_vars PROVE TypeOK'
<1> USE NoneIsNeither DEF TypeOK, Call, NoCall, NoSweep
<1>1. ASSUME NEW s \in Sids, NEW sess \in Sessions, Create(s, sess) PROVE TypeOK'
  BY <1>1 DEF Create
<1>2. ASSUME NEW s \in Sids, Delete(s) PROVE TypeOK'
  BY <1>2 DEF Delete
<1>3. ASSUME NEW s \in Sids, Lapse(s) PROVE TypeOK'
  BY <1>3 DEF Lapse
<1>4. ASSUME NEW t \in Readers, NEW s \in Sids, ReadStart(t, s) PROVE TypeOK'
  BY <1>4 DEF ReadStart, IsDead
<1>5. ASSUME NEW t \in Readers, GetLoad(t) PROVE TypeOK'
  BY <1>5 DEF GetLoad, Goto
<1>6. ASSUME NEW t \in Readers, GetCheck(t) PROVE TypeOK'
  BY <1>6 DEF GetCheck, Goto
<1>7. ASSUME NEW t \in Readers, GetEvict(t) PROVE TypeOK'
  BY <1>7 DEF GetEvict, Goto
<1>8. ASSUME NEW t \in Readers, ReadRecheck(t) PROVE TypeOK'
  BY <1>8 DEF ReadRecheck, Goto
<1>9. ASSUME NEW t \in Readers, ReadReturn(t) PROVE TypeOK'
  BY <1>9 DEF ReadReturn
<1>10. CASE SweepTick
  BY <1>10 DEF SweepTick
<1>11. CASE SweepDelete
  BY <1>11 DEF SweepDelete
<1>12. CASE Restart
  BY <1>12 DEF Restart
<1>13. CASE UNCHANGED vars
  BY <1>13 DEF vars
<1> QED
  BY <1>1, <1>2, <1>3, <1>4, <1>5, <1>6, <1>7, <1>8, <1>9, <1>10, <1>11,
     <1>12, <1>13 DEF Next, ReadStep

-----------------------------------------------------------------------------
\* Every step keeps the inductive invariant.
LEMMA StoreStep ==
    ASSUME StoreInv, [Next]_vars PROVE StoreInv'
<1> USE NoneIsNeither DEF StoreInv, TypeOK, Call, DataIsIssued, KnownIds,
        CopyIsOwn, CutIsLapsed, IsDead
<1>0. TypeOK'
  BY TypeStep
<1>1. ASSUME NEW s \in Sids, NEW sess \in Sessions, Create(s, sess)
      PROVE StoreInv'
  BY <1>0, <1>1 DEF Create
<1>2. ASSUME NEW s \in Sids, Delete(s) PROVE StoreInv'
  BY <1>0, <1>2 DEF Delete
<1>3. ASSUME NEW s \in Sids, Lapse(s) PROVE StoreInv'
  BY <1>0, <1>3 DEF Lapse
<1>4. ASSUME NEW t \in Readers, NEW s \in Sids, ReadStart(t, s) PROVE StoreInv'
  BY <1>0, <1>4 DEF ReadStart
<1>5. ASSUME NEW t \in Readers, GetLoad(t) PROVE StoreInv'
  BY <1>0, <1>5 DEF GetLoad, Goto
<1>6. ASSUME NEW t \in Readers, GetCheck(t) PROVE StoreInv'
  BY <1>0, <1>6 DEF GetCheck, Goto
<1>7. ASSUME NEW t \in Readers, GetEvict(t) PROVE StoreInv'
  BY <1>0, <1>7 DEF GetEvict, Goto
<1>8. ASSUME NEW t \in Readers, ReadRecheck(t) PROVE StoreInv'
  BY <1>0, <1>8 DEF ReadRecheck, Goto
<1>9. ASSUME NEW t \in Readers, ReadReturn(t) PROVE StoreInv'
  BY <1>0, <1>9 DEF ReadReturn, NoCall
<1>10. CASE SweepTick
  BY <1>0, <1>10 DEF SweepTick
<1>11. CASE SweepDelete
  BY <1>0, <1>11 DEF SweepDelete, NoSweep
<1>12. CASE Restart
  BY <1>0, <1>12 DEF Restart, NoSweep, NoCall
<1>13. CASE UNCHANGED vars
  BY <1>0, <1>13 DEF vars
<1> QED
  BY <1>1, <1>2, <1>3, <1>4, <1>5, <1>6, <1>7, <1>8, <1>9, <1>10, <1>11,
     <1>12, <1>13 DEF Next, ReadStep

\* The inductive invariant holds in every reachable state.
THEOREM StoreInvariant == Spec => []StoreInv
<1>1. Init => StoreInv
  BY NoneIsNeither DEF Init, StoreInv, TypeOK, Call, DataIsIssued, KnownIds,
     CopyIsOwn, CutIsLapsed, NoCall, NoSweep
<1>2. StoreInv /\ [Next]_vars => StoreInv'
  BY StoreStep
<1> QED
  BY <1>1, <1>2, PTL DEF Spec

\* Type correctness of the store, for any number of ids and lookups.
THEOREM StoreTypes == Spec => []TypeOK
<1>1. StoreInv => TypeOK
  BY DEF StoreInv
<1> QED
  BY <1>1, StoreInvariant, PTL

\* A lookup that starts after logout or expiry misses, and a hit returns the
\* session its id was created for.
THEOREM LookupsAreSound == Spec => []NoDeadHit
<1>1. StoreInv => NoDeadHit
  BY DEF StoreInv, CopyIsOwn, NoDeadHit
<1> QED
  BY <1>1, StoreInvariant, PTL

\* Only expiry, logout and restart remove a session from the map.
THEOREM OnlyDeadAreEvicted == Spec => LiveNeverEvicted
<1> DEFINE Kept == \A s \in Sids :
                      data[s] # None /\ data'[s] = None =>
                          s \in lapsed \/ s \in loggedOut' \/ Restart
<1>1. StoreInv /\ [Next]_vars => [Kept]_vars
  <2> SUFFICES ASSUME StoreInv, Next, NEW s \in Sids,
                      data[s] # None, data'[s] = None
               PROVE  s \in lapsed \/ s \in loggedOut' \/ Restart
    OBVIOUS
  <2> USE DEF StoreInv, TypeOK, CopyIsOwn, CutIsLapsed
  <2>1. ASSUME NEW k \in Sids, NEW sess \in Sessions, Create(k, sess)
        PROVE  data'[s] # None
    BY <2>1, NoneIsNeither DEF Create
  <2>2. ASSUME NEW k \in Sids, Delete(k) PROVE s \in loggedOut'
    BY <2>2 DEF Delete
  <2>3. ASSUME NEW t \in Readers, GetEvict(t) PROVE s \in lapsed
    BY <2>3 DEF GetEvict
  <2>4. ASSUME SweepDelete PROVE s \in lapsed
    BY <2>4 DEF SweepDelete
  <2> QED
    BY <2>1, <2>2, <2>3, <2>4
       DEF Next, Lapse, ReadStart, ReadStep, GetLoad, GetCheck, ReadRecheck,
           ReadReturn, SweepTick
<1> QED
  BY <1>1, StoreInvariant, PTL DEF Spec, LiveNeverEvicted

-----------------------------------------------------------------------------
\* The lazy, lock-by-lock store implements the atomic session table.
THEOREM StoreImplementsTable == Spec => TableSpec
<1>1. Init => Table!TableInit
  BY DEF Init, Table!TableInit, Live, IssuedIds
<1>2. StoreInv /\ [Next]_vars => [Table!TableNext]_(Table!tableVars)
  <2> SUFFICES ASSUME StoreInv, [Next]_vars
               PROVE  Table!TableNext \/ UNCHANGED <<Live, IssuedIds>>
    BY DEF Table!tableVars
  <2> USE NoneIsNeither DEF StoreInv, TypeOK, Call, KnownIds, CopyIsOwn,
          CutIsLapsed, DataIsIssued, Live, IssuedIds
  <2>1. ASSUME NEW s \in Sids, NEW sess \in Sessions, Create(s, sess)
        PROVE  Table!Create(s, sess)
    <3>1. s \notin IssuedIds /\ s \notin lapsed
      BY <2>1 DEF Create
    <3>2. IssuedIds' = IssuedIds \cup {s}
      BY <2>1 DEF Create
    <3>3. Live' = [Live EXCEPT ![s] = sess]
      BY <2>1, <3>1 DEF Create
    <3> QED
      BY <3>1, <3>2, <3>3 DEF Table!Create
  <2>2. ASSUME NEW s \in Sids, Delete(s) PROVE Table!Drop(s)
    BY <2>2 DEF Delete, Table!Drop
  <2>3. ASSUME NEW s \in Sids, Lapse(s) PROVE Table!Drop(s)
    BY <2>3 DEF Lapse, Table!Drop
  <2>4. ASSUME NEW t \in Readers, GetEvict(t) PROVE UNCHANGED <<Live, IssuedIds>>
    BY <2>4 DEF GetEvict
  <2>5. CASE SweepDelete
    BY <2>5 DEF SweepDelete
  <2>6. CASE Restart
    BY <2>6 DEF Restart, Table!Forget, Table!TableNext
  <2>7. ASSUME UNCHANGED <<data, lapsed, issued>> PROVE UNCHANGED <<Live, IssuedIds>>
    BY <2>7
  <2> QED
    BY <2>1, <2>2, <2>3, <2>4, <2>5, <2>6, <2>7
       DEF Next, Table!TableNext, ReadStart, ReadStep, GetLoad, GetCheck,
           ReadRecheck, ReadReturn, SweepTick, vars
<1> QED
  BY <1>1, <1>2, StoreInvariant, PTL DEF Spec, TableSpec, Table!TableSpec

-----------------------------------------------------------------------------
(* Reclaiming. *)

\* FairSpec, with the guards of the sweeper's two steps spelt out.
SweeperScheduled ==
    /\ []<>(sweep.at # "wait") \/ []<><<SweepTick>>_vars
    /\ []<>(sweep.at # "lock") \/ []<><<SweepDelete>>_vars

\* An expired entry that is still in the map, and one the sweeper is about to delete.
Remains(s) == s \in lapsed /\ data[s] # None
Marked(s) == Remains(s) /\ sweep.at = "lock" /\ s \in sweep.cut

\* What has expired stays so, and the sweeper only moves by its own steps.
LEMMA SweeperStep ==
    ASSUME StoreInv, [Next]_vars
    PROVE  /\ lapsed \subseteq lapsed'
           /\ sweep' = sweep \/ SweepTick \/ SweepDelete \/ Restart
BY DEF Next, Create, Delete, Lapse, ReadStart, ReadStep, GetLoad, GetCheck, GetEvict,
       ReadRecheck, ReadReturn, SweepTick, SweepDelete, Restart, vars

\* The sweeper reclaims every expired entry: a sweep that took its `now` before
\* the entry expired is followed by one that did not, and neither lookups nor a
\* restart put the entry back.
THEOREM SweepsReclaim == Spec /\ SweeperScheduled => LapsedIsReclaimed
<1> SUFFICES ASSUME NEW s \in Sids
             PROVE  Spec /\ SweeperScheduled =>
                       ((s \in lapsed /\ data[s] # None) ~> (data[s] = None))
  BY DEF LapsedIsReclaimed
<1>1. Remains(s) <=> s \in lapsed /\ ~(data[s] = None)
  BY DEF Remains
<1>2. StoreInv => sweep.at = "wait" \/ sweep.at = "lock"
  BY DEF StoreInv, TypeOK
<1>3. StoreInv /\ [Next]_vars /\ Remains(s) => (Remains(s) \/ data[s] = None)'
  BY SweeperStep DEF Remains
<1>4. StoreInv /\ [Next]_vars /\ Remains(s) /\ sweep.at = "wait" =>
         (sweep.at = "wait" \/ Marked(s) \/ data[s] = None)'
  BY SweeperStep, <1>3 DEF Marked, Remains, StoreInv, TypeOK, SweepTick, SweepDelete, Restart
<1>5. StoreInv /\ <<SweepTick>>_vars /\ Remains(s) => (Marked(s) \/ data[s] = None)'
  BY DEF Marked, Remains, StoreInv, TypeOK, SweepTick
<1>6. StoreInv /\ [Next]_vars /\ Marked(s) => (Marked(s) \/ data[s] = None)'
  BY SweeperStep, <1>3 DEF Marked, Remains, StoreInv, TypeOK, SweepTick, SweepDelete, Restart
<1>7. StoreInv /\ <<SweepDelete>>_vars /\ Marked(s) => (data[s] = None)'
  BY DEF Marked, Remains, StoreInv, TypeOK, SweepDelete
<1>8. StoreInv /\ <<SweepDelete>>_vars => (sweep.at = "wait")'
  BY DEF SweepDelete, NoSweep
<1>9. Marked(s) => Remains(s) /\ sweep.at = "lock"
  BY DEF Marked
<1>10. /\ sweep.at = "wait" => ~(sweep.at = "lock")
       /\ sweep.at # "lock" <=> ~(sweep.at = "lock")
       /\ sweep.at # "wait" <=> ~(sweep.at = "wait")
       /\ data[s] # None <=> ~(data[s] = None)
  OBVIOUS
<1> QED
  BY <1>1, <1>2, <1>3, <1>4, <1>5, <1>6, <1>7, <1>8, <1>9, <1>10, StoreInvariant, PTL
     DEF Spec, SweeperScheduled

-----------------------------------------------------------------------------
\* A created id that a lookup would no longer find.
IsGone(s) == s \in IssuedIds /\ Live[s] = None

\* No session comes back: once an id has been logged out, has expired or was
\* lost in a restart, neither the copy a lookup holds nor the sweeper revives it.
THEOREM DeadStayDead ==
    ASSUME NEW CONSTANT s \in Sids PROVE Spec => [](IsGone(s) => []IsGone(s))
<1>1. ASSUME IsGone(s), [Table!TableNext]_(Table!tableVars)
      PROVE  IsGone(s)'
  <2>1. CASE UNCHANGED Table!tableVars
    BY <1>1, <2>1 DEF IsGone, Table!tableVars
  <2>2. ASSUME NEW k \in Sids, NEW sess \in Sessions, Table!Create(k, sess) PROVE IsGone(s)'
    BY <1>1, <2>2 DEF IsGone, Table!Create, Live
  <2>3. ASSUME NEW k \in Sids, Table!Drop(k) PROVE IsGone(s)'
    BY <1>1, <2>3 DEF IsGone, Table!Drop, Live
  <2>4. CASE Table!Forget
    BY <1>1, <2>4 DEF IsGone, Table!Forget
  <2> QED
    BY <1>1, <2>1, <2>2, <2>3, <2>4 DEF Table!TableNext
<1> QED
  BY <1>1, StoreImplementsTable, PTL DEF TableSpec, Table!TableSpec
=============================================================================
