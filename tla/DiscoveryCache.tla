--------------------------- MODULE DiscoveryCache ---------------------------
(***************************************************************************)
(* internal/auth/provider.go and cache.go: how the server sets up its      *)
(* OpenID providers when it starts, one goroutine per configured issuer,   *)
(* through an HTTP client that keeps every discovery document it fetches   *)
(* in a file per host, and the loop that refreshes those files.  The files *)
(* outlive the process, the configuration may change between two starts.   *)
(*                                                                         *)
(* In one process no two goroutines use the same file at the same time:    *)
(* the start-up client is dropped before the loop begins, so the mutex of  *)
(* ForceRefresh (a field of the loop's own transport) guards nothing.      *)
(* What remains of a file when the process dies inside os.WriteFile is     *)
(* taken to be an empty file.  GitHub has no discovery document and cannot *)
(* fail; the OAuth settings of a provider are left out.                    *)
(***************************************************************************)
EXTENDS Naturals, Sequences, FiniteSets

CONSTANTS Loop,        \* the hosts of the refresh loop, in its order
          Issuers,     \* issuers, which also stand for their discovery documents
          Configs,     \* the configurations the server may be started with
          Faults,      \* what may go wrong: see the steps that test it
          Page,        \* any other body an upstream can answer with
          Empty, None

Hosts == {Loop[i] : i \in 1..Len(Loop)}
Config == [issuer : [Hosts -> Issuers], enabled : SUBSET Hosts]
Bodies == Issuers \cup {Page}

ASSUME DiscoveryConstants ==
    /\ Loop \in Seq(Hosts)
    /\ Configs \subseteq Config
    /\ Faults \subseteq {"lost", "page", "disk", "crash"}
    /\ Page \notin Issuers /\ Empty \notin Bodies /\ None \notin Bodies \cup {Empty}

VARIABLES phase,       \* of the process: SetupProviders is "booting"
          conf,        \* cfg
          file,        \* the cache directory
          job,         \* the goroutine of each issuer, then its result
          providers,   \* the map SetupProviders returns
          refresh,     \* the refresh goroutine: its place in Loop and its fetch
          intact,      \* ghost: this start found every document it needs in a file it could read
          healthy      \* ghost: since this start every upstream answered with its document

ghosts == <<intact, healthy>>
vars == <<phase, conf, file, job, providers, refresh, ghosts>>

-----------------------------------------------------------------------------
Off == [at |-> "off"]
Failed == [at |-> "failed"]
Job == [at : {"off", "read", "fetch", "ok", "failed", "collected"}]
          \cup [at : {"truncate", "write"}, body : Bodies]
Resting == [place |-> 0, job |-> Off]

Init ==
    /\ phase = "down"
    /\ conf \in Configs
    /\ file = [h \in Hosts |-> None]
    /\ job = [h \in Hosts |-> Off]
    /\ providers = {} /\ refresh = Resting
    /\ intact = FALSE /\ healthy = FALSE

-----------------------------------------------------------------------------
\* SetupProviders starts a goroutine for every issuer that is configured.
Boot ==
    /\ phase = "down"
    /\ phase' = "booting"
    /\ \E c \in Configs :
          /\ conf' = c
          /\ job' = [h \in Hosts |-> IF h \in c.enabled THEN [at |-> "read"] ELSE Off]
          /\ intact' = \A h \in c.enabled : file[h] = c.issuer[h]
    /\ healthy' = TRUE
    /\ UNCHANGED <<file, providers, refresh>>

\* oidc.NewProvider: it wants the document of the issuer it was asked for.
Verdict(h, body) == IF body = conf.issuer[h] THEN [at |-> "ok"] ELSE Failed

\* Mutant: the upstream is asked first, whatever the file holds.
ReadCacheNever(h) ==
    /\ job[h].at = "read"
    /\ job' = [job EXCEPT ![h] = [at |-> "fetch"]]

\* RoundTrip: a file that can be read is the answer, whatever it holds.
ReadCache(h) ==
    /\ job[h].at = "read"
    /\ job' = [job EXCEPT ![h] =
                  IF file[h] = None THEN [at |-> "fetch"] ELSE Verdict(h, file[h])]

\* Any error of os.ReadFile is a miss: a file there is, and cannot be read.
ReadError(h) ==
    /\ "disk" \in Faults
    /\ job[h].at = "read" /\ file[h] # None
    /\ job' = [job EXCEPT ![h] = [at |-> "fetch"]]
    /\ intact' = FALSE

\* Mutant: a goroutine whose fetch fails returns without a result.
AnswerSilent(h, j, k) ==
    /\ j.at = "fetch"
    /\ k \in {[at |-> "truncate", body |-> conf.issuer[h]], Off}
    /\ UNCHANGED file

\* fetchAndCache: the upstream's answer, of which the status is not looked at.
Answer(h, j, k) ==
    /\ j.at = "fetch"
    /\ \/ k = [at |-> "truncate", body |-> conf.issuer[h]]
       \/ "page" \in Faults /\ k = [at |-> "truncate", body |-> Page]
       \/ "lost" \in Faults /\ k = Failed
    /\ UNCHANGED file

\* os.WriteFile makes the file empty and then writes it.
Truncate(h, j, k) ==
    /\ j.at = "truncate"
    /\ k = [at |-> "write", body |-> j.body]
    /\ file' = [file EXCEPT ![h] = Empty]

Write(h, j, k) ==
    /\ j.at = "write"
    /\ k = Verdict(h, j.body)
    /\ file' = [file EXCEPT ![h] = j.body]

\* An error of os.WriteFile is logged, and the body is used all the same.
WriteError(h, j, k) ==
    /\ "disk" \in Faults
    /\ j.at \in {"truncate", "write"}
    /\ k = Verdict(h, j.body)
    /\ UNCHANGED file

FetchAndCache(h, j, k) ==
    Answer(h, j, k) \/ Truncate(h, j, k) \/ Write(h, j, k) \/ WriteError(h, j, k)

\* A goroutine of SetupProviders works until its result is in the channel,
\* which has room for all of them.
NewProvider(h) ==
    /\ phase = "booting"
    /\ \/ ReadCache(h) /\ UNCHANGED <<file, ghosts>>
       \/ ReadError(h) /\ UNCHANGED <<file, healthy>>
       \/ \E k \in Job :
             /\ FetchAndCache(h, job[h], k)
             /\ job' = [job EXCEPT ![h] = k]
             /\ healthy' = (healthy /\ ~(/\ job[h].at = "fetch"
                                        /\ k \in {Failed, [at |-> "truncate", body |-> Page]}))
             /\ UNCHANGED intact
    /\ UNCHANGED <<phase, conf, providers, refresh>>

\* The process is gone, and with it every goroutine wherever it was.
Die ==
    /\ phase' = "down"
    /\ job' = [h \in Hosts |-> Off]
    /\ providers' = {} /\ refresh' = Resting
    /\ intact' = FALSE /\ healthy' = FALSE
    /\ UNCHANGED <<conf, file>>

\* Mutant: errors are skipped instead.
PanicNot(h) ==
    /\ job[h].at = "failed"
    /\ job' = [job EXCEPT ![h] = [at |-> "collected"]]
    /\ UNCHANGED <<phase, conf, file, providers, refresh, ghosts>>

Panic(h) == job[h].at = "failed" /\ Die

Collect(h) ==
    /\ job[h].at = "ok"
    /\ job' = [job EXCEPT ![h] = [at |-> "collected"]]
    /\ providers' = providers \cup {h}
    /\ UNCHANGED <<phase, conf, file, refresh, ghosts>>

\* All results are in: the loop is started and SetupProviders returns.
Serve ==
    /\ phase = "booting"
    /\ \A h \in conf.enabled : job[h].at = "collected"
    /\ phase' = "serving"
    /\ UNCHANGED <<conf, file, job, providers, refresh, ghosts>>

-----------------------------------------------------------------------------
\* The loop refreshes every host of its list, configured or not.
Fetching(place) == [place |-> place, job |-> [at |-> "fetch"]]

\* Mutant: one host too many.
NextPlaceTooFar(place) == IF place <= Len(Loop) THEN Fetching(place + 1) ELSE Resting

NextPlace(place) == IF place < Len(Loop) THEN Fetching(place + 1) ELSE Resting

RefreshTick ==
    /\ phase = "serving"
    /\ refresh = Resting
    /\ refresh' = NextPlace(0)
    /\ UNCHANGED <<phase, conf, file, job, providers, ghosts>>

\* ForceRefresh; its error is logged, and the verdict on the body is nobody's.
ForceRefresh ==
    /\ refresh.place > 0
    /\ \E k \in Job :
          /\ FetchAndCache(Loop[refresh.place], refresh.job, k)
          /\ refresh' = IF k.at \in {"truncate", "write"} THEN [refresh EXCEPT !.job = k]
                        ELSE NextPlace(refresh.place)
    /\ UNCHANGED <<phase, conf, job, providers, ghosts>>

Crash == "crash" \in Faults /\ phase # "down" /\ Die

Next ==
    \/ Boot
    \/ \E h \in Hosts : NewProvider(h) \/ Panic(h) \/ Collect(h)
    \/ Serve
    \/ RefreshTick \/ ForceRefresh
    \/ Crash

Spec == Init /\ [][Next]_vars

\* The goroutines of a start-up are scheduled, and the 15 s context ends every
\* fetch that is not answered; nobody is bound to start the server again.
FairSpec ==
    /\ Spec
    /\ WF_vars(Serve)
    /\ \A h \in Hosts : WF_vars(NewProvider(h)) /\ WF_vars(Panic(h) \/ Collect(h))

-----------------------------------------------------------------------------
\* Type invariant.
TypeOK ==
    /\ phase \in {"down", "booting", "serving"}
    /\ conf \in Configs
    /\ file \in [Hosts -> Bodies \cup {Empty, None}]
    /\ job \in [Hosts -> Job]
    /\ providers \subseteq Hosts
    /\ refresh \in [place : 0..Len(Loop), job : Job]
    /\ intact \in BOOLEAN /\ healthy \in BOOLEAN

\* A server that serves has initialised every enabled provider and no other.
ServesWhatIsEnabled == phase = "serving" => providers = conf.enabled

\* What the cache is for: a start that finds the right document of every
\* enabled issuer in its files, and can read them, cannot fail, whatever the
\* upstreams do, whatever becomes of writes and whatever else the directory
\* holds.  (A failed result is a panic.)
IntactCacheSuffices == intact => \A h \in Hosts : job[h] # Failed

\* A start-up that goes wrong never hangs: the results of the goroutines are
\* enough for SetupProviders to return or to panic.
StartupEnds == phase = "booting" ~> phase # "booting"

\* "SetupProviders initializes all enabled providers and returns them": it does
\* not give up unless an upstream it asked failed to answer properly.
HealthyUpstreamsSuffice == healthy => \A h \in Hosts : job[h] # Failed
=============================================================================
