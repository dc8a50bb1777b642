------------------------ MODULE DiscoveryCacheProofs ------------------------
(***************************************************************************)
(* What holds of DiscoveryCache for any hosts, issuers and configurations  *)
(* and under any faults.  The inductive invariant says of every goroutine  *)
(* of a start-up how far it can have come.                                 *)
(***************************************************************************)
EXTENDS DiscoveryCache, TLAPS

\* The goroutines are those of the enabled issuers, and none runs for a dead process.
JobsAreEnabled ==
    IF phase = "down" THEN \A h \in Hosts : job[h].at = "off"
                      ELSE \A h \in Hosts : job[h].at # "off" <=> h \in conf.enabled

\* A provider is in the map if and only if its result has been received.
ProvidersAreCollected == \A h \in Hosts : h \in providers <=> job[h].at = "collected"

\* Only a process that serves refreshes, and its start-up is over.
RefreshFollowsStartup ==
    /\ phase # "serving" => refresh.place = 0
    /\ phase = "serving" => \A h \in conf.enabled : job[h].at = "collected"

\* In an intact start no goroutine has anything to fetch.
IntactJobs ==
    intact => \A h \in Hosts :
        \/ job[h].at \in {"off", "ok", "collected"}
        \/ job[h].at = "read" /\ file[h] = conf.issuer[h]

CacheInv == TypeOK /\ JobsAreEnabled /\ ProvidersAreCollected
            /\ RefreshFollowsStartup /\ IntactJobs

-----------------------------------------------------------------------------
\* The length of the loop is a number, its places are hosts.
LEMMA Places == Len(Loop) \in Nat /\ \A i \in 1..Len(Loop) : Loop[i] \in Hosts
BY DiscoveryConstants DEF Hosts

\* A goroutine that has not started, and the loop between two ticks.
LEMMA Still == Off \in Job /\ Resting \in [place : 0..Len(Loop), job : Job]
<1>1. Off \in Job
  BY DEF Off, Job
<1> QED
  BY <1>1, Places DEF Resting

\* A step of a fetch leaves a file of the directory, and only changes that one.
LEMMA FetchStep ==
    ASSUME TypeOK, NEW h \in Hosts, NEW j \in Job, NEW k \in Job, FetchAndCache(h, j, k)
    PROVE  /\ file' \in [Hosts -> Bodies \cup {Empty, None}]
           /\ j.at \in {"fetch", "truncate", "write"}
           /\ k.at \notin {"off", "collected"}
<1>1. CASE Answer(h, j, k)
  BY <1>1 DEF Answer, TypeOK, Failed
<1>2. CASE Truncate(h, j, k)
  BY <1>2 DEF Truncate, TypeOK
<1>3. CASE Write(h, j, k)
  <2>1. j.body \in Bodies
    BY <1>3 DEF Write, Job
  <2> QED
    BY <1>3, <2>1 DEF Write, TypeOK, Verdict, Failed
<1>4. CASE WriteError(h, j, k)
  BY <1>4 DEF WriteError, TypeOK, Verdict, Failed
<1> QED
  BY <1>1, <1>2, <1>3, <1>4 DEF FetchAndCache

\* The next place of the loop is a place.
LEMMA NextPlaceType ==
    ASSUME NEW place \in 0..Len(Loop)
    PROVE  NextPlace(place) \in [place : 0..Len(Loop), job : Job]
BY Places DEF NextPlace, Fetching, Resting, Off, Job

-----------------------------------------------------------------------------
LEMMA CacheStarts == Init => CacheInv
<1> SUFFICES ASSUME Init PROVE CacheInv
  OBVIOUS
<1>1. TypeOK
  BY Still DEF Init, TypeOK
<1> QED
  BY <1>1 DEF Init, CacheInv, JobsAreEnabled, ProvidersAreCollected,
     RefreshFollowsStartup, IntactJobs, Off, Resting

\* However a process dies, what is left satisfies the invariant.
LEMMA CacheDies == ASSUME CacheInv, Die PROVE CacheInv'
<1>1. TypeOK'
  BY Still DEF CacheInv, TypeOK, Die
<1> QED
  BY <1>1 DEF CacheInv, Die, JobsAreEnabled, ProvidersAreCollected,
     RefreshFollowsStartup, IntactJobs, Off, Resting

LEMMA CacheStep == CacheInv /\ [Next]_vars => CacheInv'
<1> SUFFICES ASSUME CacheInv, [Next]_vars PROVE CacheInv'
  OBVIOUS
<1>1. CASE Boot
  <2>1. PICK c \in Configs :
           /\ conf' = c
           /\ job' = [h \in Hosts |-> IF h \in c.enabled THEN [at |-> "read"] ELSE Off]
           /\ intact' = \A h \in c.enabled : file[h] = c.issuer[h]
    BY <1>1 DEF Boot
  <2>2. UNCHANGED <<file, providers, refresh>> /\ phase' = "booting" /\ healthy' = TRUE
        /\ phase = "down"
    BY <1>1 DEF Boot
  <2>3. intact' \in BOOLEAN
    BY <2>1
  <2>4. TypeOK'
    BY <2>1, <2>2, <2>3 DEF CacheInv, TypeOK, Off, Job
  <2>5. \A h \in Hosts : job'[h].at = IF h \in c.enabled THEN "read" ELSE "off"
    BY <2>1 DEF Off
  <2>6. JobsAreEnabled' /\ RefreshFollowsStartup'
    BY <2>1, <2>2, <2>5 DEF CacheInv, JobsAreEnabled, RefreshFollowsStartup
  <2>7. ProvidersAreCollected'
    BY <2>2, <2>5 DEF CacheInv, JobsAreEnabled, ProvidersAreCollected
  <2>8. IntactJobs'
    BY <2>1, <2>2, <2>5 DEF IntactJobs
  <2> QED
    BY <2>4, <2>6, <2>7, <2>8 DEF CacheInv
<1>2. ASSUME NEW h \in Hosts, NewProvider(h) PROVE CacheInv'
  <2>1. /\ phase = "booting"
        /\ UNCHANGED <<phase, conf, providers, refresh>>
    BY <1>2 DEF NewProvider
  <2>2. CASE ReadCache(h) /\ UNCHANGED <<file, ghosts>>
    <3> DEFINE k == IF file[h] = None THEN [at |-> "fetch"] ELSE Verdict(h, file[h])
    <3>1. job' = [job EXCEPT ![h] = k] /\ job[h].at = "read"
      BY <2>2 DEF ReadCache
    <3>2. k \in Job /\ k.at \in {"fetch", "ok", "failed"}
      BY DEF Verdict, Failed, Job
    <3>3. intact => k.at = "ok"
      <4>1. conf.issuer[h] # None
        BY DiscoveryConstants DEF CacheInv, TypeOK, Config, Bodies
      <4> QED
        BY <3>1, <4>1 DEF CacheInv, IntactJobs, Verdict
    <3> HIDE DEF k
    <3>4. TypeOK'
      BY <2>1, <2>2, <3>1, <3>2 DEF CacheInv, TypeOK, ghosts
    <3>5. \A g \in Hosts : job'[g] = IF g = h THEN k ELSE job[g]
      BY <3>1 DEF CacheInv, TypeOK
    <3>6. JobsAreEnabled' /\ ProvidersAreCollected' /\ RefreshFollowsStartup'
      BY <2>1, <3>1, <3>2, <3>5 DEF CacheInv, JobsAreEnabled, ProvidersAreCollected,
         RefreshFollowsStartup
    <3>7. IntactJobs'
      BY <2>1, <2>2, <3>3, <3>5 DEF CacheInv, IntactJobs, ghosts
    <3> QED
      BY <3>4, <3>6, <3>7 DEF CacheInv
  <2>3. CASE ReadError(h) /\ UNCHANGED <<file, healthy>>
    <3>1. /\ job' = [job EXCEPT ![h] = [at |-> "fetch"]] /\ job[h].at = "read"
          /\ intact' = FALSE
      BY <2>3 DEF ReadError
    <3>2. TypeOK'
      BY <2>1, <2>3, <3>1 DEF CacheInv, TypeOK, Job
    <3>3. \A g \in Hosts : job'[g] = IF g = h THEN [at |-> "fetch"] ELSE job[g]
      BY <3>1 DEF CacheInv, TypeOK
    <3>4. JobsAreEnabled' /\ ProvidersAreCollected' /\ RefreshFollowsStartup'
      BY <2>1, <3>1, <3>3 DEF CacheInv, JobsAreEnabled, ProvidersAreCollected,
         RefreshFollowsStartup
    <3> QED
      BY <3>1, <3>2, <3>4 DEF CacheInv, IntactJobs
  <2>4. ASSUME NEW k \in Job,
               FetchAndCache(h, job[h], k), job' = [job EXCEPT ![h] = k],
               healthy' \in BOOLEAN, UNCHANGED intact
        PROVE  CacheInv'
    <3>1. job[h] \in Job
      BY DEF CacheInv, TypeOK
    <3>2. /\ file' \in [Hosts -> Bodies \cup {Empty, None}]
          /\ job[h].at \in {"fetch", "truncate", "write"}
          /\ k.at \notin {"off", "collected"}
      BY <2>4, <3>1, FetchStep DEF CacheInv
    <3>3. TypeOK'
      BY <2>1, <2>4, <3>2 DEF CacheInv, TypeOK
    <3>4. \A g \in Hosts : job'[g] = IF g = h THEN k ELSE job[g]
      BY <2>4 DEF CacheInv, TypeOK
    <3>5. JobsAreEnabled' /\ ProvidersAreCollected' /\ RefreshFollowsStartup'
      BY <2>1, <3>2, <3>4 DEF CacheInv, JobsAreEnabled, ProvidersAreCollected,
         RefreshFollowsStartup
    <3>6. IntactJobs'
      BY <2>1, <2>4, <3>2 DEF CacheInv, IntactJobs
    <3> QED
      BY <3>3, <3>5, <3>6 DEF CacheInv
  <2> QED
    BY <1>2, <2>2, <2>3, <2>4 DEF NewProvider, CacheInv, TypeOK
<1>3. ASSUME NEW h \in Hosts, Panic(h) PROVE CacheInv'
  BY <1>3, CacheDies DEF Panic
<1>4. ASSUME NEW h \in Hosts, Collect(h) PROVE CacheInv'
  <2>1. /\ job[h].at = "ok" /\ providers' = providers \cup {h}
        /\ job' = [job EXCEPT ![h] = [at |-> "collected"]]
        /\ UNCHANGED <<phase, conf, file, refresh, intact, healthy>>
    BY <1>4 DEF Collect, ghosts
  <2>2. TypeOK'
    BY <2>1 DEF CacheInv, TypeOK, Job
  <2>3. \A g \in Hosts : job'[g] = IF g = h THEN [at |-> "collected"] ELSE job[g]
    BY <2>1 DEF CacheInv, TypeOK
  <2> QED
    BY <2>1, <2>2, <2>3 DEF CacheInv, JobsAreEnabled, ProvidersAreCollected,
       RefreshFollowsStartup, IntactJobs
<1>5. CASE Serve
  BY <1>5 DEF Serve, ghosts, CacheInv, TypeOK, JobsAreEnabled, ProvidersAreCollected,
     RefreshFollowsStartup, IntactJobs
<1>6. CASE RefreshTick
  <2>1. TypeOK'
    BY <1>6, NextPlaceType, Places DEF RefreshTick, ghosts, CacheInv, TypeOK
  <2> QED
    BY <1>6, <2>1 DEF RefreshTick, ghosts, CacheInv, JobsAreEnabled,
       ProvidersAreCollected, RefreshFollowsStartup, IntactJobs
<1>7. CASE ForceRefresh
  <2>1. PICK k \in Job :
           /\ FetchAndCache(Loop[refresh.place], refresh.job, k)
           /\ refresh' = IF k.at \in {"truncate", "write"} THEN [refresh EXCEPT !.job = k]
                         ELSE NextPlace(refresh.place)
    BY <1>7 DEF ForceRefresh, NextPlace
  <2>2. /\ refresh.place > 0
        /\ UNCHANGED <<phase, conf, job, providers, intact, healthy>>
    BY <1>7 DEF ForceRefresh, ghosts
  <2>3. /\ refresh \in [place : 0..Len(Loop), job : Job]
        /\ refresh.place \in 1..Len(Loop) /\ refresh.job \in Job
    BY <2>2, Places DEF CacheInv, TypeOK
  <2>4. file' \in [Hosts -> Bodies \cup {Empty, None}]
    BY <2>1, <2>3, Places, FetchStep DEF CacheInv
  <2>5. refresh' \in [place : 0..Len(Loop), job : Job]
    BY <2>1, <2>3, Places, NextPlaceType
  <2>6. TypeOK'
    BY <2>2, <2>4, <2>5 DEF CacheInv, TypeOK
  <2>7. phase = "serving"
    BY <2>2 DEF CacheInv, RefreshFollowsStartup
  <2>8. \A h \in Hosts : job[h].at \in {"off", "collected"}
    BY <2>7 DEF CacheInv, JobsAreEnabled, RefreshFollowsStartup
  <2> QED
    BY <2>2, <2>6, <2>7, <2>8 DEF CacheInv, JobsAreEnabled, ProvidersAreCollected,
       RefreshFollowsStartup, IntactJobs
<1>8. CASE Crash
  BY <1>8, CacheDies DEF Crash
<1>9. CASE UNCHANGED vars
  BY <1>9 DEF vars, ghosts, CacheInv, TypeOK, JobsAreEnabled, ProvidersAreCollected,
     RefreshFollowsStartup, IntactJobs
<1> QED
  BY <1>1, <1>2, <1>3, <1>4, <1>5, <1>6, <1>7, <1>8, <1>9 DEF Next

\* The invariant of the start-up and of the files it reads.
THEOREM CacheInvariant == Spec => []CacheInv
BY CacheStarts, CacheStep, PTL DEF Spec

\* Every variable keeps its type.
THEOREM CacheIsTyped == Spec => []TypeOK
<1>1. CacheInv => TypeOK
  BY DEF CacheInv
<1> QED
  BY <1>1, CacheInvariant, PTL

\* SetupProviders returns with every enabled provider and with no other.
THEOREM ReturnsEnabled == Spec => []ServesWhatIsEnabled
<1>1. CacheInv => ServesWhatIsEnabled
  <2> SUFFICES ASSUME CacheInv, phase = "serving" PROVE providers = conf.enabled
    BY DEF ServesWhatIsEnabled
  <2>1. providers \subseteq Hosts /\ conf.enabled \subseteq Hosts
    BY DiscoveryConstants DEF CacheInv, TypeOK, Config
  <2>2. \A h \in Hosts : h \in providers <=> h \in conf.enabled
    BY DEF CacheInv, JobsAreEnabled, ProvidersAreCollected, RefreshFollowsStartup
  <2> QED
    BY <2>1, <2>2
<1> QED
  BY <1>1, CacheInvariant, PTL

\* With the right documents in files that can be read no start-up fails, whatever
\* other faults there are.
THEOREM CacheReplacesNetwork == Spec => []IntactCacheSuffices
<1>1. CacheInv => IntactCacheSuffices
  BY DEF CacheInv, IntactJobs, IntactCacheSuffices, Failed
<1> QED
  BY <1>1, CacheInvariant, PTL

-----------------------------------------------------------------------------
\* At every start the file of an enabled issuer is missing or holds its document:
\* what other configurations, answers that were no document and crashes in the
\* middle of a write left behind has been removed.
CleanStarts ==
    [][Boot => \A h \in conf'.enabled : file[h] \in {None, conf'.issuer[h]}]_vars

\* While the upstreams answer properly a goroutine has in hand, in its file or
\* on its way there, the document it needs.
HealthyJobs ==
    healthy => \A h \in Hosts :
        \/ job[h].at \in {"off", "fetch", "ok", "collected"}
        \/ job[h].at = "read" /\ file[h] \in {None, conf.issuer[h]}
        \/ job[h].at \in {"truncate", "write"} /\ job[h].body = conf.issuer[h]

\* A proper answer is followed by a proper verdict, and no other file is touched.
LEMMA HealthyFetch ==
    ASSUME TypeOK, NEW h \in Hosts, NEW j \in Job, NEW k \in Job, FetchAndCache(h, j, k),
           j.at \in {"truncate", "write"} => j.body = conf.issuer[h],
           ~(j.at = "fetch" /\ k \in {Failed, [at |-> "truncate", body |-> Page]})
    PROVE  /\ \/ k.at = "ok"
              \/ k.at \in {"truncate", "write"} /\ k.body = conf.issuer[h]
           /\ \A g \in Hosts \ {h} : file'[g] = file[g]
<1>1. CASE Answer(h, j, k)
  BY <1>1 DEF Answer
<1>2. CASE Truncate(h, j, k)
  BY <1>2 DEF Truncate, TypeOK
<1>3. CASE Write(h, j, k)
  BY <1>3 DEF Write, TypeOK, Verdict
<1>4. CASE WriteError(h, j, k)
  BY <1>4 DEF WriteError, Verdict
<1> QED
  BY <1>1, <1>2, <1>3, <1>4 DEF FetchAndCache

LEMMA HealthyStep ==
    ASSUME CacheInv, HealthyJobs, [Next]_vars,
           Boot => \A h \in conf'.enabled : file[h] \in {None, conf'.issuer[h]}
    PROVE  HealthyJobs'
<1>1. CASE Boot
  <2>1. PICK c \in Configs :
           conf' = c /\ job' = [h \in Hosts |-> IF h \in c.enabled THEN [at |-> "read"] ELSE Off]
    BY <1>1 DEF Boot
  <2>2. file' = file
    BY <1>1 DEF Boot
  <2>3. \A h \in Hosts : job'[h].at = IF h \in c.enabled THEN "read" ELSE "off"
    BY <2>1 DEF Off
  <2> QED
    BY <1>1, <2>1, <2>2, <2>3 DEF HealthyJobs
<1>2. ASSUME NEW h \in Hosts, NewProvider(h) PROVE HealthyJobs'
  <2>1. conf' = conf
    BY <1>2 DEF NewProvider
  <2>2. CASE ReadCache(h) /\ UNCHANGED <<file, ghosts>>
    <3> DEFINE k == IF file[h] = None THEN [at |-> "fetch"] ELSE Verdict(h, file[h])
    <3>1. job' = [job EXCEPT ![h] = k] /\ job[h].at = "read"
      BY <2>2 DEF ReadCache
    <3>2. healthy => k.at \in {"fetch", "ok"}
      BY <3>1 DEF HealthyJobs, Verdict
    <3> HIDE DEF k
    <3>3. \A g \in Hosts : job'[g] = IF g = h THEN k ELSE job[g]
      BY <3>1 DEF CacheInv, TypeOK
    <3> QED
      BY <2>1, <2>2, <3>2, <3>3 DEF HealthyJobs, ghosts
  <2>3. CASE ReadError(h) /\ UNCHANGED <<file, healthy>>
    <3>1. \A g \in Hosts : job'[g] = IF g = h THEN [at |-> "fetch"] ELSE job[g]
      BY <2>3 DEF ReadError, CacheInv, TypeOK
    <3> QED
      BY <2>1, <2>3, <3>1 DEF HealthyJobs
  <2>4. ASSUME NEW k \in Job,
               FetchAndCache(h, job[h], k), job' = [job EXCEPT ![h] = k],
               healthy' = (healthy /\ ~(/\ job[h].at = "fetch"
                                        /\ k \in {Failed, [at |-> "truncate", body |-> Page]}))
        PROVE  HealthyJobs'
    <3> SUFFICES ASSUME healthy' PROVE HealthyJobs'
      BY DEF HealthyJobs
    <3>1. healthy /\ ~(job[h].at = "fetch" /\ k \in {Failed, [at |-> "truncate", body |-> Page]})
      BY <2>4
    <3>2. job[h] \in Job /\ TypeOK
      BY DEF CacheInv, TypeOK
    <3>3. job[h].at \in {"truncate", "write"} => job[h].body = conf.issuer[h]
      BY <3>1 DEF HealthyJobs
    <3>4. /\ \/ k.at = "ok"
             \/ k.at \in {"truncate", "write"} /\ k.body = conf.issuer[h]
          /\ \A g \in Hosts \ {h} : file'[g] = file[g]
      BY <2>4, <3>1, <3>2, <3>3, HealthyFetch
    <3>5. \A g \in Hosts : job'[g] = IF g = h THEN k ELSE job[g]
      BY <2>4 DEF CacheInv, TypeOK
    <3> QED
      BY <2>1, <3>1, <3>4, <3>5 DEF HealthyJobs
  <2> QED
    BY <1>2, <2>2, <2>3, <2>4 DEF NewProvider
<1>3. CASE Die
  BY <1>3 DEF Die, HealthyJobs
<1>4. ASSUME NEW h \in Hosts, Collect(h) PROVE HealthyJobs'
  <2>1. /\ job' = [job EXCEPT ![h] = [at |-> "collected"]]
        /\ UNCHANGED <<conf, file, healthy>>
    BY <1>4 DEF Collect, ghosts
  <2>2. \A g \in Hosts : job'[g] = IF g = h THEN [at |-> "collected"] ELSE job[g]
    BY <2>1 DEF CacheInv, TypeOK
  <2> QED
    BY <2>1, <2>2 DEF HealthyJobs
<1>5. CASE ForceRefresh
  <2>1. refresh.place > 0 /\ UNCHANGED <<conf, job>>
    BY <1>5 DEF ForceRefresh
  <2>2. phase = "serving"
    BY <2>1 DEF CacheInv, RefreshFollowsStartup
  <2>3. \A h \in Hosts : job[h].at \in {"off", "collected"}
    BY <2>2 DEF CacheInv, JobsAreEnabled, RefreshFollowsStartup
  <2> QED
    BY <2>1, <2>3 DEF HealthyJobs
<1>6. CASE Serve \/ RefreshTick \/ UNCHANGED vars
  BY <1>6 DEF Serve, RefreshTick, vars, ghosts, HealthyJobs
<1> QED
  BY <1>1, <1>2, <1>3, <1>4, <1>5, <1>6 DEF Next, Panic, Crash

\* Nothing but a stale file makes a start-up fail whose upstreams all answer: if
\* every start finds its files missing or right, then whatever faults, crashes
\* and refreshes there were before, and whatever the disk does now.
THEOREM HealthyUnlessStale == Spec /\ CleanStarts => []HealthyUpstreamsSuffice
<1> DEFINE Clean == Boot => \A h \in conf'.enabled : file[h] \in {None, conf'.issuer[h]}
<1>1. Init => HealthyJobs
  BY DEF Init, HealthyJobs
<1>2. CacheInv /\ HealthyJobs /\ [Next]_vars /\ [Clean]_vars => HealthyJobs'
  <2>1. CASE UNCHANGED vars
    BY <2>1 DEF vars, ghosts, HealthyJobs
  <2> QED
    BY <2>1, HealthyStep
<1>3. HealthyJobs => HealthyUpstreamsSuffice
  BY DEF HealthyJobs, HealthyUpstreamsSuffice, Failed
<1> QED
  BY <1>1, <1>2, <1>3, CacheInvariant, PTL DEF Spec, CleanStarts

-----------------------------------------------------------------------------
(* A start-up ends. *)

\* A goroutine still has something to do, its result waits to be received, or
\* nothing is expected of it any more.
Busy(h) == phase = "booting" /\ job[h].at \in {"read", "fetch", "truncate", "write"}
Ready(h) == phase = "booting" /\ job[h].at \in {"ok", "failed"}
In(h) == h \in conf.enabled => job[h].at = "collected"
AllIn == phase = "booting" /\ \A h \in Hosts : In(h)

\* FairSpec, with the guards of the actions spelt out: nobody who can go on for
\* ever is passed over for ever.
Scheduled(h) ==
    /\ []<>~Busy(h) \/ []<><<NewProvider(h)>>_vars
    /\ []<>~Ready(h) \/ []<><<Panic(h) \/ Collect(h)>>_vars
ServeScheduled == []<>~AllIn \/ []<><<Serve>>_vars

\* Who moves a goroutine's result while the process boots.
LEMMA JobMoves ==
    ASSUME CacheInv, [Next]_vars, NEW h \in Hosts, phase = "booting", phase' = "booting"
    PROVE  conf' = conf /\ (job'[h] = job[h] \/ NewProvider(h) \/ Collect(h))
<1>1. ASSUME NEW g \in Hosts, NewProvider(g)
      PROVE  conf' = conf /\ (job'[h] = job[h] \/ NewProvider(h))
  BY <1>1 DEF NewProvider, ReadCache, ReadError, CacheInv, TypeOK
<1>2. ASSUME NEW g \in Hosts, Collect(g)
      PROVE  conf' = conf /\ (job'[h] = job[h] \/ Collect(h))
  BY <1>2 DEF Collect, CacheInv, TypeOK
<1> QED
  BY <1>1, <1>2 DEF Next, Boot, Panic, Die, Serve, RefreshTick, ForceRefresh, Crash, vars

\* How far a goroutine comes by one step.
LEMMA JobWorks ==
    ASSUME CacheInv, NEW h \in Hosts, NewProvider(h)
    PROVE  /\ UNCHANGED <<phase, conf>>
           /\ \/ job[h].at = "read" /\ job'[h].at \in {"fetch", "ok", "failed"}
              \/ job[h].at = "fetch" /\ job'[h].at \in {"truncate", "ok", "failed"}
              \/ job[h].at = "truncate" /\ job'[h].at \in {"write", "ok", "failed"}
              \/ job[h].at = "write" /\ job'[h].at \in {"ok", "failed"}
<1>1. CASE ReadCache(h)
  BY <1>1 DEF NewProvider, ReadCache, Verdict, Failed, CacheInv, TypeOK
<1>2. CASE ReadError(h)
  BY <1>2 DEF NewProvider, ReadError, CacheInv, TypeOK
<1>3. ASSUME NEW k \in Job, FetchAndCache(h, job[h], k), job' = [job EXCEPT ![h] = k]
      PROVE  /\ \/ job[h].at = "fetch" /\ k.at \in {"truncate", "failed"}
                \/ job[h].at = "truncate" /\ k.at \in {"write", "ok", "failed"}
                \/ job[h].at = "write" /\ k.at \in {"ok", "failed"}
             /\ job'[h] = k
  <2>1. job'[h] = k
    BY <1>3 DEF CacheInv, TypeOK
  <2> QED
    BY <1>3, <2>1 DEF FetchAndCache, Answer, Truncate, Write, WriteError, Verdict, Failed
<1> QED
  BY <1>1, <1>2, <1>3 DEF NewProvider

\* What is received is no longer expected.
LEMMA JobReceived ==
    ASSUME CacheInv, NEW h \in Hosts, Panic(h) \/ Collect(h)
    PROVE  phase' = "down" \/ job'[h].at = "collected"
BY DEF Panic, Die, Collect, CacheInv, TypeOK

\* The result of a goroutine is received, unless the start-up ends before.
JobEnds(h) == Scheduled(h) => (phase = "booting" ~> phase # "booting" \/ In(h))

LEMMA EveryJobEnds ==
    ASSUME NEW CONSTANT h \in Hosts PROVE Spec => JobEnds(h)
<1> DEFINE Booting == phase = "booting"
           At(step) == phase = "booting" /\ job[h].at = step
           Out == phase # "booting" \/ In(h)
<1>1. CacheInv /\ Booting => Busy(h) \/ Ready(h) \/ Out
  BY DEF CacheInv, TypeOK, JobsAreEnabled, Busy, Ready, In, Job
<1>2. Busy(h) <=> At("read") \/ At("fetch") \/ At("truncate") \/ At("write")
  BY DEF Busy
<1>3. ASSUME CacheInv, [Next]_vars
      PROVE  /\ At("read") => (At("read") \/ At("fetch") \/ Ready(h) \/ Out)'
             /\ At("fetch") => (At("fetch") \/ At("truncate") \/ Ready(h) \/ Out)'
             /\ At("truncate") => (At("truncate") \/ At("write") \/ Ready(h) \/ Out)'
             /\ At("write") => (At("write") \/ Ready(h) \/ Out)'
             /\ Ready(h) => (Ready(h) \/ Out)'
  <2>1. CASE phase # "booting"
    BY <2>1 DEF Ready
  <2>2. CASE phase' # "booting"
    BY <2>2
  <2>3. CASE phase = "booting" /\ phase' = "booting"
    <3>1. conf' = conf /\ (job'[h] = job[h] \/ NewProvider(h) \/ Collect(h))
      BY <1>3, <2>3, JobMoves
    <3>2. CASE job'[h] = job[h]
      BY <2>3, <3>2 DEF Ready
    <3>3. CASE NewProvider(h)
      BY <1>3, <2>3, <3>3, JobWorks DEF Ready
    <3>4. CASE Collect(h)
      <4>1. job'[h].at = "collected"
        BY <1>3, <2>3, <3>4, JobReceived
      <4> QED
        BY <4>1 DEF In
    <3> QED
      BY <3>1, <3>2, <3>3, <3>4
  <2> QED
    BY <2>1, <2>2, <2>3
<1>4. ASSUME CacheInv, NewProvider(h)
      PROVE  /\ At("read") => (At("fetch") \/ Ready(h) \/ Out)'
             /\ At("fetch") => (At("truncate") \/ Ready(h) \/ Out)'
             /\ At("truncate") => (At("write") \/ Ready(h) \/ Out)'
             /\ At("write") => (Ready(h) \/ Out)'
  BY <1>4, JobWorks DEF Ready
<1>5. ASSUME CacheInv, Panic(h) \/ Collect(h)
      PROVE  Out'
  BY <1>5, JobReceived DEF In
<1>6. Booting <=> phase = "booting"
  OBVIOUS
<1>7. Out <=> phase # "booting" \/ In(h)
  OBVIOUS
<1> HIDE DEF Booting, At, Out
<1>8. /\ CacheInv /\ [Next]_vars /\ At("read") => (At("read") \/ At("fetch") \/ Ready(h) \/ Out)'
      /\ CacheInv /\ [Next]_vars /\ At("fetch") => (At("fetch") \/ At("truncate") \/ Ready(h) \/ Out)'
      /\ CacheInv /\ [Next]_vars /\ At("truncate") => (At("truncate") \/ At("write") \/ Ready(h) \/ Out)'
      /\ CacheInv /\ [Next]_vars /\ At("write") => (At("write") \/ Ready(h) \/ Out)'
      /\ CacheInv /\ [Next]_vars /\ Ready(h) => (Ready(h) \/ Out)'
  BY <1>3
<1>9. /\ CacheInv /\ <<NewProvider(h)>>_vars /\ At("read") => (At("fetch") \/ Ready(h) \/ Out)'
      /\ CacheInv /\ <<NewProvider(h)>>_vars /\ At("fetch") => (At("truncate") \/ Ready(h) \/ Out)'
      /\ CacheInv /\ <<NewProvider(h)>>_vars /\ At("truncate") => (At("write") \/ Ready(h) \/ Out)'
      /\ CacheInv /\ <<NewProvider(h)>>_vars /\ At("write") => (Ready(h) \/ Out)'
  BY <1>4
<1>10. CacheInv /\ <<Panic(h) \/ Collect(h)>>_vars => Out'
  BY <1>5
<1>11. Spec /\ Scheduled(h) => (Booting ~> Out)
  BY <1>1, <1>2, <1>8, <1>9, <1>10, CacheInvariant, PTL DEF Spec, Scheduled
<1> QED
  BY <1>6, <1>7, <1>11, PTL DEF JobEnds

\* What has been received stays received.
LEMMA StaysIn ==
    ASSUME CacheInv, [Next]_vars, NEW h \in Hosts, phase = "booting", In(h)
    PROVE  phase' # "booting" \/ In(h)'
<1> SUFFICES ASSUME phase' = "booting" PROVE In(h)'
  OBVIOUS
<1>1. conf' = conf /\ (job'[h] = job[h] \/ NewProvider(h) \/ Collect(h))
  BY JobMoves
<1>2. CASE NewProvider(h)
  BY <1>2, JobWorks DEF In, CacheInv, JobsAreEnabled
<1>3. CASE Collect(h)
  <2>1. job'[h].at = "collected"
    BY <1>3, JobReceived
  <2> QED
    BY <2>1 DEF In
<1> QED
  BY <1>1, <1>2, <1>3 DEF In

\* With the two issuers the server knows, which PTL can enumerate, a start-up
\* never hangs: whichever of the upstreams and the disk fail, and however the
\* two goroutines, the receiver and a crash interleave.
THEOREM TwoProviderStartupEnds ==
    ASSUME NEW CONSTANT a \in Hosts, NEW CONSTANT b \in Hosts, Hosts = {a, b}
    PROVE  Spec /\ Scheduled(a) /\ Scheduled(b) /\ ServeScheduled => StartupEnds
<1>1. Spec => JobEnds(a)
  BY EveryJobEnds
<1>2. Spec => JobEnds(b)
  BY EveryJobEnds
<1>3. /\ CacheInv /\ [Next]_vars /\ phase = "booting" /\ In(a) => (phase # "booting" \/ In(a))'
      /\ CacheInv /\ [Next]_vars /\ phase = "booting" /\ In(b) => (phase # "booting" \/ In(b))'
  BY StaysIn
<1>4. AllIn <=> phase = "booting" /\ In(a) /\ In(b)
  BY DEF AllIn
<1>5. <<Serve>>_vars => (phase # "booting")'
  BY DEF Serve
<1>6. phase # "booting" <=> ~(phase = "booting")
  OBVIOUS
<1> QED
  BY <1>1, <1>2, <1>3, <1>4, <1>5, <1>6, CacheInvariant, PTL
     DEF Spec, JobEnds, ServeScheduled, StartupEnds
=============================================================================
