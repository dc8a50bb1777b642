----------------------------- MODULE OAuthFlow ------------------------------
(***************************************************************************)
(* The authorization-code exchange of internal/auth/handlers.go, as one     *)
(* browser with several tabs sees it: StartHandler hands out a state and a *)
(* nonce in two cookies that all tabs share, the provider asks the user    *)
(* and sends the browser back, and CallbackHandler checks the state,       *)
(* redeems the code and extracts the identity.  Between a start and its     *)
(* callback the server keeps nothing, so another process may serve the     *)
(* second one; module ProviderAuth goes on from the identity.  Browsers do *)
(* not share cookies, hence the cookies of one are followed; of the others *)
(* only sign-ins and their codes matter.                                   *)
(***************************************************************************)
CONSTANTS Flows,       \* one for each pair of random strings StartHandler draws
          Calls,       \* slots for concurrent callback requests
          Providers,   \* the configured providers
          OIDC,        \* the ones with an OIDCVerifier: microsoft, google
          Accounts,    \* users at their providers, with what the provider knows of them
          None         \* no value: readCookie's "", an absent parameter

VARIABLES flow,      \* how far each sign-in has come, at which provider and for whom
          jar,       \* the cookies oauth_state and oidc_nonce, by their flow
          call,      \* the callback in each slot, or the last answer given there
          latest,    \* ghost: the flow whose start the browser received last, until
                     \* its state cookie expires
          disturbed  \* ghost: the flows whose callback failed for a reason outside
                     \* the program

vars == <<flow, jar, call, latest, disturbed>>

-----------------------------------------------------------------------------
\* identity: subject and email; the name, picture and groups go nowhere modelled.
Identity == [subject : {a.subject : a \in Accounts}, email : {None} \cup
                UNION {{a.email, a.fallback} : a \in Accounts}]

\* firstNonEmpty(email, preferred_username) for Microsoft, the noreply address
\* of the login for GitHub; the other OIDC providers have no fallback.
IdentityOf(p, a) ==
    [subject |-> a.subject,
     email |-> IF a.email = None /\ p # "google" THEN a.fallback ELSE a.email]

ASSUME OAuthConstants ==
    /\ OIDC \subseteq Providers
    /\ \A a \in Accounts : DOMAIN a = {"provider", "subject", "email", "fallback"}
    /\ None \notin Flows \cup Accounts

Flow == [at : {"unused", "started", "asking", "consented", "redeemed", "denied"},
         provider : Providers \cup {None}, account : Accounts \cup {None}]
Jar == [state : Flows \cup {None}, nonce : Flows \cup {None}]
\* What Exchange returns: the nonce of the id_token, and whose it is.
Token == [nonce : Flows \cup {None}, account : Accounts]
\* The sign-ins that have got a code, which stands for itself.
Issued == {f \in Flows : flow[f].at \in {"consented", "redeemed"}}

\* A callback: its two parameters, the nonce cookie, and what has come of it.
\* A ghost, `fresh`, tells whether the cookies the browser sent with it were
\* those of the sign-in of its state, the last one started, and had not expired.
\* The slot of a request that has been answered keeps what is asked of it below.
Call == [at : {"idle", "exchange", "token", "avatar", "done", "refused"},
         state : Flows \cup {None}, code : Flows \cup {None},
         nonce : Flows \cup {None}, fresh : BOOLEAN,
         token : Token \cup {None}, identity : Identity \cup {None}]

ASSUME NoneIsNoValue == None \notin Token \cup Identity

NoCookies == [state |-> None, nonce |-> None]
Unused == [at |-> "unused", provider |-> None, account |-> None]
IdleCall == [at |-> "idle", state |-> None, code |-> None, nonce |-> None, fresh |-> FALSE,
             token |-> None, identity |-> None]

Init ==
    /\ flow = [f \in Flows |-> Unused]
    /\ jar = NoCookies
    /\ call = [c \in Calls |-> IdleCall]
    /\ latest = None
    /\ disturbed = {}

Free(c) == call[c].at \in {"idle", "done", "refused"}

\* The callback x is one of a sign-in, with the state and the code of it.
OwnCode(x) == x.code # None /\ x.state = x.code

\* A refusal of any other one leaves nothing to ask about.
Refused(x) ==
    IF OwnCode(x) THEN [x EXCEPT !.at = "refused", !.nonce = None] ELSE IdleCall
Refuse(c) == call' = [call EXCEPT ![c] = Refused(@)]
Disturb(cs) ==
    disturbed' = disturbed \cup {f \in Flows : \E c \in cs : OwnCode(call[c]) /\ call[c].code = f}

-----------------------------------------------------------------------------
(* GET /auth/{provider} *)

\* StartHandler draws state and nonce and answers with a redirect.
StartFlow(f, p) ==
    /\ flow[f] = Unused
    /\ flow' = [flow EXCEPT ![f] = [at |-> "started", provider |-> p, account |-> None]]
    /\ UNCHANGED <<jar, call, latest, disturbed>>

\* Mutant: the first sign-in keeps its cookies.
SetTempCookiesOnce(f) == jar' = IF jar.state = None THEN [state |-> f, nonce |-> f] ELSE jar

\* The two cookies of the answer replace those of any sign-in before it.
SetTempCookies(f) == jar' = [state |-> f, nonce |-> f]

\* The browser receives the answers in any order, if it does, and goes to the
\* provider.
FollowRedirect(f) ==
    /\ flow[f].at = "started"
    /\ flow' = [flow EXCEPT ![f].at = "asking"]
    /\ SetTempCookies(f)
    /\ latest' = f
    /\ UNCHANGED <<call, disturbed>>

\* Another browser has asked, and keeps its cookies to itself.
FollowElsewhere(f) ==
    /\ flow[f].at = "started"
    /\ flow' = [flow EXCEPT ![f].at = "asking"]
    /\ UNCHANGED <<jar, call, latest, disturbed>>

\* Both cookies live ten minutes; the state was set first and ends first.
StateExpires ==
    /\ jar.state # None
    /\ jar' = [jar EXCEPT !.state = None]
    /\ latest' = None
    /\ UNCHANGED <<flow, call, disturbed>>

NonceExpires ==
    /\ jar.state = None /\ jar.nonce # None
    /\ jar' = [jar EXCEPT !.nonce = None]
    /\ UNCHANGED <<flow, call, latest, disturbed>>

-----------------------------------------------------------------------------
(* The provider's page: the user picks an account, or says no. *)

Consent(f, a) ==
    /\ flow[f].at = "asking" /\ flow[f].provider = a.provider
    /\ flow' = [flow EXCEPT ![f].at = "consented", ![f].account = a]
    /\ UNCHANGED <<jar, call, latest, disturbed>>

Deny(f) ==
    /\ flow[f].at = "asking"
    /\ flow' = [flow EXCEPT ![f].at = "denied"]
    /\ UNCHANGED <<jar, call, latest, disturbed>>

-----------------------------------------------------------------------------
(* GET /auth/{provider}/callback *)

\* "CSRF": an absent parameter equals an absent cookie.
StateMatches(state) == state = jar.state

\* A request of the browser with these two parameters and its cookies, up to
\* the check of the state.  The code is a parameter of its own.
Request(c, state, code) ==
    LET x == [at |-> "exchange", state |-> state, code |-> code, nonce |-> jar.nonce,
              fresh |-> state = latest /\ state # None, token |-> None, identity |-> None]
    IN  /\ Free(c)
        /\ call' = [call EXCEPT ![c] = IF StateMatches(state) THEN x ELSE Refused(x)]
        /\ UNCHANGED <<flow, jar, latest, disturbed>>

\* The provider sends the browser back, after a denial without a code; the page
\* may be reloaded at any time, for the handler keeps the cookies.
SendCallback(c, f) ==
    \/ f \in Issued /\ Request(c, f, f)
    \/ flow[f].at = "denied" /\ Request(c, f, None)

\* Any other URL of the callback: each parameter is absent, or a value that has
\* been given to some browser.  The URL is that of the provider of its code, as
\* every other provider refuses the code and keeps nothing of it.
OpenURL(c, state, code) ==
    /\ state \in {None} \cup {f \in Flows \ {code} : flow[f].at # "unused"}
    /\ code \in {None} \cup Issued
    /\ Request(c, state, code)

\* Mutant: the nonce is not put into the URL of the provider.
NonceParamForgotten(f) == IF flow[f].provider \in OIDC THEN None ELSE f

\* opts of StartHandler: the nonce the provider copies into the id_token.
NonceParam(f) == IF flow[f].provider \in OIDC THEN f ELSE None

\* The provider redeems the code of a flow, which is good once.
Redeemable == {f \in Flows : flow[f].at = "consented"}
Redeem(f) ==
    /\ f \in Redeemable
    /\ flow' = [flow EXCEPT ![f].at = "redeemed"]

\* Exchange: whatever the state was, the code decides whose token it is.
Exchange(c) ==
    LET g == call[c].code IN
    /\ call[c].at = "exchange"
    /\ Redeem(g)
    /\ call' = [call EXCEPT ![c].at = "token",
                   ![c].token = [nonce |-> NonceParam(g), account |-> flow[g].account]]
    /\ UNCHANGED <<jar, latest, disturbed>>

\* Mutant: the error of Exchange is dropped and the empty token used.
ExchangeRefusedIgnored(c) ==
    /\ call[c].at = "exchange"
    /\ call[c].code \notin Redeemable
    /\ call' = [call EXCEPT ![c].at = "token",
                   ![c].token = [nonce |-> None, account |-> None]]
    /\ UNCHANGED <<flow, jar, latest, disturbed>>

\* The provider knows no such code: there is none, or it has been used.
ExchangeRefused(c) ==
    /\ call[c].at = "exchange"
    /\ call[c].code \notin Redeemable
    /\ Refuse(c)
    /\ UNCHANGED <<flow, jar, latest, disturbed>>

\* The request to the provider or its answer is lost.
ExchangeFails(c) ==
    /\ call[c].at = "exchange"
    /\ Redeem(call[c].code) \/ UNCHANGED flow
    /\ Refuse(c)
    /\ Disturb({c})
    /\ UNCHANGED <<jar, latest>>

\* Mutant: the nonce of the id_token is not looked at.
NonceMatchesAny(c) == TRUE

\* Without a cookie there is nothing to compare.
NonceMatches(c) == call[c].nonce \in {None, call[c].token.nonce}

\* The callback is at the provider of its code.
ProviderOf(c) == flow[call[c].code].provider

Identified(c, at) ==
    call' = [call EXCEPT ![c].at = at, ![c].nonce = None,
                ![c].identity = IdentityOf(ProviderOf(c), call[c].token.account)]

\* extractIdentity, by id_token: its nonce against the cookie's.
VerifyToken(c) ==
    /\ call[c].at = "token" /\ ProviderOf(c) \in OIDC
    /\ IF NonceMatches(c) THEN Identified(c, "done") ELSE Refuse(c)
    /\ UNCHANGED <<flow, jar, latest, disturbed>>

\* extractIdentity, by fetchGitHubProfile: a first request for the profile ...
FetchProfile(c) ==
    /\ call[c].at = "token" /\ ProviderOf(c) \notin OIDC
    /\ Identified(c, "avatar")
    /\ UNCHANGED <<flow, jar, latest, disturbed>>

\* ... and a second one for the picture, which may fail.
FetchAvatar(c) ==
    /\ call[c].at = "avatar"
    /\ call' = [call EXCEPT ![c].at = "done"]
    /\ UNCHANGED <<flow, jar, latest, disturbed>>

\* No id_token, keys that cannot be fetched, a profile that cannot be read.
IdentityFails(c) ==
    /\ call[c].at = "token"
    /\ Refuse(c)
    /\ Disturb({c})
    /\ UNCHANGED <<flow, jar, latest>>

\* The process dies with its requests; the cookies are the browser's.
Crash ==
    /\ call' = [c \in Calls |-> IF Free(c) THEN call[c] ELSE IdleCall]
    /\ Disturb({c \in Calls : ~Free(c)})
    /\ UNCHANGED <<flow, jar, latest>>

-----------------------------------------------------------------------------
Serve(c) == Exchange(c) \/ ExchangeRefused(c) \/ VerifyToken(c) \/ FetchProfile(c) \/ FetchAvatar(c)

Next ==
    \/ \E f \in Flows :
          \/ \E p \in Providers : StartFlow(f, p)
          \/ \E a \in Accounts : Consent(f, a)
          \/ FollowRedirect(f) \/ FollowElsewhere(f) \/ Deny(f)
    \/ StateExpires \/ NonceExpires
    \/ \E c \in Calls :
          \/ \E f \in Flows : SendCallback(c, f)
          \/ \E state, code \in Flows \cup {None} : OpenURL(c, state, code)
          \/ Serve(c) \/ ExchangeFails(c) \/ IdentityFails(c)
    \/ Crash

Spec == Init /\ [][Next]_vars

\* The handler runs on and the provider answers it, well or badly; a browser
\* that is sent back goes back, though other tabs may keep the slots busy.
FairSpec ==
    /\ Spec
    /\ \A c \in Calls : WF_vars(Serve(c))
    /\ \A f \in Flows : SF_vars(\E c \in Calls : f \in Redeemable /\ SendCallback(c, f))

-----------------------------------------------------------------------------
\* Type invariant: sign-ins, cookies and callbacks.
TypeOK ==
    /\ flow \in [Flows -> Flow]
    /\ jar \in Jar
    /\ call \in [Calls -> Call]
    /\ latest \in Flows \cup {None}
    /\ disturbed \in SUBSET Flows

\* A callback that carries a state is completed only with fresh cookies of the
\* sign-in the state is of; where the id_token has a nonce, only with the account
\* picked in that very sign-in, whatever code came with the state; and elsewhere
\* with that account if the code is that of the sign-in.
CookiesBindTheSignIn ==
    \A c \in Calls : call[c].at = "done" /\ call[c].state # None =>
        LET f == call[c].state IN
        /\ call[c].fresh
        /\ ProviderOf(c) \in OIDC \/ call[c].code = f =>
              flow[f].account # None /\ call[c].identity = IdentityOf(flow[f].provider, flow[f].account)

\* No sign-in the user has agreed to fails for nothing: its callback came after
\* a later start or after the expiry of its cookie, met a failure of the provider,
\* the network or the process, or found the code used by another callback.
RefusalsHaveACause ==
    \A c \in Calls : call[c].at = "refused" /\ OwnCode(call[c]) =>
        LET f == call[c].code IN
        \/ ~call[c].fresh
        \/ f \in disturbed
        \/ flow[f].at = "redeemed" /\ call[c].token = None

\* A sign-in the user has agreed to gets its identity, however many other
\* tabs, reloads, URLs and processes there are, unless it is superseded, its
\* cookie expires, or a callback with its code meets a failure.
SignInsComplete ==
    \A f \in Flows :
        flow[f].at = "consented" ~>
            \/ \E c \in Calls : call[c].at = "done" /\ OwnCode(call[c]) /\ call[c].code = f
            \/ jar.state # f
            \/ f \in disturbed

-----------------------------------------------------------------------------
(* What a comment and a doc of the repository say and the code does not      *)
(* guarantee.                                                               *)

\* "CSRF", "state/nonce verification": a callback goes on only with the account
\* the user of this browser has picked, in the sign-in he had started last.
SignsInTheConsenter ==
    \A c \in Calls : call[c].at = "done" =>
        LET f == call[c].state IN
        /\ call[c].fresh /\ f # None
        /\ flow[f].account # None
        /\ call[c].identity = IdentityOf(flow[f].provider, flow[f].account)
=============================================================================
