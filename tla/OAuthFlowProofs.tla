-------------------------- MODULE OAuthFlowProofs ---------------------------
(***************************************************************************)
(* The safety properties of the code exchange for any number of sign-ins,  *)
(* callbacks, providers and accounts.                                      *)
(***************************************************************************)
EXTENDS OAuthFlow, TLAPS

USE OAuthConstants, NoneIsNoValue

-----------------------------------------------------------------------------
(* The inductive invariant. *)

\* Who has a code has answered with an account of the provider.
FlowsOK == \A f \in Issued : flow[f].account \in Accounts

\* The state cookie is that of the last start, and its nonce is with it.
JarOK == jar.state = latest /\ (jar.state # None => jar.nonce = jar.state)

\* A callback past the check of its state.
Passed == {"exchange", "token", "avatar", "done"}

\* The callback has redeemed its code, whosever it is.
HasToken(c) ==
    LET g == call[c].code IN
    /\ g # None /\ call[c].token # None
    /\ flow[g].at = "redeemed"
    /\ call[c].token.account = flow[g].account
    /\ call[c].token.nonce = NonceParam(g)

\* A callback that carries a state came with both cookies of it; that it goes on with
\* a code of another sign-in is excluded where the id_token has a nonce.  One that
\* carries a code without its state was let through by other cookies than those of
\* the code's sign-in, which will not come back.
CallOK(c) ==
    LET f == call[c].state
        g == call[c].code
    IN
    /\ g # None => g \in Issued
    /\ call[c].at \in Passed /\ f # None => call[c].fresh
    /\ call[c].at \in {"exchange", "token"} /\ f # None => call[c].nonce = f
    /\ call[c].at \in {"exchange", "token"} /\ g # None /\ f # g => jar.state # g
    /\ call[c].at \in {"idle", "exchange"} => call[c].token = None
    /\ call[c].at \in {"token", "avatar", "done"} => HasToken(c)
    /\ call[c].at \in {"avatar", "done"} =>
          /\ call[c].identity = IdentityOf(flow[g].provider, flow[g].account)
          /\ f # None /\ flow[g].provider \in OIDC => g = f

\* The causes of a refusal, for one callback.
Caused(c) ==
    LET f == call[c].code IN
    call[c].at = "refused" /\ OwnCode(call[c]) =>
        \/ ~call[c].fresh
        \/ f \in disturbed
        \/ flow[f].at = "redeemed" /\ call[c].token = None

FlowInv ==
    /\ TypeOK /\ FlowsOK /\ JarOK
    /\ \A c \in Calls : CallOK(c) /\ Caused(c)

-----------------------------------------------------------------------------
\* What a callback knows of the sign-in of its code stays true: the code was
\* given, after that it is only redeemed, and the cookies do not return.
FlowsKept ==
    /\ \A f \in Issued :
          /\ f \in Issued'
          /\ flow'[f].provider = flow[f].provider
          /\ flow'[f].account = flow[f].account
          /\ jar'.state = f => jar.state = f
    /\ \A f \in Flows : flow[f].at = "redeemed" => flow'[f].at = "redeemed"
    /\ disturbed \subseteq disturbed'

\* A callback that does not move keeps what the invariant says of it.
LEMMA CallKept ==
    ASSUME TypeOK, FlowsKept, NEW c \in Calls, call'[c] = call[c], CallOK(c), Caused(c)
    PROVE  CallOK(c)' /\ Caused(c)'
<1> DEFINE f == call[c].state
           g == call[c].code
<1>1. g \in Flows \cup {None}
  BY DEF TypeOK, Call
<1>2. HasToken(c) => HasToken(c)'
  <2> SUFFICES ASSUME HasToken(c) PROVE HasToken(c)'
    OBVIOUS
  <2>1. g \in Flows /\ g \in Issued
    BY <1>1 DEF HasToken, Issued
  <2> QED
    BY <2>1 DEF HasToken, FlowsKept, NonceParam
<1>3. CallOK(c)'
  <2>1. g # None => g \in Issued' /\ flow'[g].provider = flow[g].provider
                    /\ flow'[g].account = flow[g].account /\ (jar'.state = g => jar.state = g)
    BY DEF CallOK, FlowsKept
  <2>2. call[c].at \in {"avatar", "done"} => g # None
    BY DEF CallOK, HasToken
  <2> QED
    BY <1>2, <2>1, <2>2 DEF CallOK
<1>4. Caused(c)'
  BY <1>1 DEF FlowsKept, Caused, OwnCode
<1> QED
  BY <1>3, <1>4

\* A step of the callback in slot c keeps the invariant if it does so there.
LEMMA OneCall ==
    ASSUME FlowInv, NEW c \in Calls, call' \in [Calls -> Call],
           \A d \in Calls \ {c} : call'[d] = call[d],
           flow' \in [Flows -> Flow], disturbed' \in SUBSET Flows, UNCHANGED <<jar, latest>>,
           FlowsKept, FlowsOK', CallOK(c)', Caused(c)'
    PROVE  FlowInv'
<1>1. TypeOK' /\ JarOK'
  BY DEF FlowInv, TypeOK, JarOK
<1>2. \A d \in Calls \ {c} : CallOK(d)' /\ Caused(d)'
  BY CallKept DEF FlowInv
<1> QED
  BY <1>1, <1>2 DEF FlowInv

\* A step of a sign-in or of a cookie keeps it if no callback relies on the change.
LEMMA NoCall ==
    ASSUME FlowInv, UNCHANGED call, flow' \in [Flows -> Flow], disturbed' \in SUBSET Flows,
           jar' \in Jar, latest' \in Flows \cup {None}, FlowsKept, FlowsOK', JarOK'
    PROVE  FlowInv'
<1>1. TypeOK'
  BY DEF FlowInv, TypeOK
<1>2. \A d \in Calls : CallOK(d)' /\ Caused(d)'
  BY CallKept DEF FlowInv
<1> QED
  BY <1>1, <1>2 DEF FlowInv

\* A refused callback keeps its type, and its parameters if they are of one sign-in.
LEMMA RefusedTypes ==
    ASSUME NEW x \in Call
    PROVE  /\ Refused(x) \in Call
           /\ Refused(x).at \in {"idle", "refused"}
           /\ OwnCode(x) => /\ Refused(x).at = "refused" /\ OwnCode(Refused(x))
                            /\ Refused(x).state = x.state /\ Refused(x).code = x.code
                            /\ Refused(x).fresh = x.fresh /\ Refused(x).token = x.token
           /\ ~OwnCode(x) => Refused(x) = IdleCall
BY DEF Refused, Call, IdleCall, OwnCode

LEMMA RefuseTypes ==
    ASSUME TypeOK, NEW c \in Calls, Refuse(c)
    PROVE  call' \in [Calls -> Call] /\ call'[c] = Refused(call[c])
BY RefusedTypes DEF Refuse, TypeOK

\* A callback that is refused with a cause is as the invariant says.
LEMMA RefusedOK ==
    ASSUME TypeOK, NEW c \in Calls, NEW x \in Call, call'[c] = Refused(x),
           x.code # None => x.code \in Issued',
           OwnCode(x) => \/ ~x.fresh
                         \/ x.code \in disturbed'
                         \/ flow'[x.code].at = "redeemed" /\ x.token = None
    PROVE  CallOK(c)' /\ Caused(c)'
<1>1. CASE OwnCode(x)
  BY <1>1, RefusedTypes DEF CallOK, Caused, Passed, OwnCode
<1>2. CASE ~OwnCode(x)
  BY <1>2, RefusedTypes DEF CallOK, Caused, Passed, IdleCall
<1> QED
  BY <1>1, <1>2

-----------------------------------------------------------------------------
LEMMA FlowStarts == Init => FlowInv
BY DEF Init, FlowInv, TypeOK, FlowsOK, JarOK, CallOK, Caused, Unused, IdleCall,
       NoCookies, Flow, Jar, Call, Passed, Issued

LEMMA FlowStep == FlowInv /\ [Next]_vars => FlowInv'
<1> SUFFICES ASSUME FlowInv, [Next]_vars PROVE FlowInv'
  OBVIOUS
<1> USE DEF FlowInv, TypeOK
<1>1. ASSUME NEW f \in Flows, NEW p \in Providers, StartFlow(f, p) PROVE FlowInv'
  <2>1. flow' \in [Flows -> Flow] /\ FlowsKept /\ FlowsOK'
    BY <1>1 DEF StartFlow, Flow, FlowsKept, FlowsOK, Unused, Issued
  <2> QED
    BY <1>1, <2>1, NoCall DEF StartFlow, JarOK
<1>2. ASSUME NEW f \in Flows, FollowRedirect(f) PROVE FlowInv'
  <2>1. flow' \in [Flows -> Flow] /\ FlowsOK'
    BY <1>2 DEF FollowRedirect, Flow, FlowsOK, Issued
  <2>2. jar' \in Jar /\ JarOK' /\ jar'.state = f
    BY <1>2 DEF FollowRedirect, SetTempCookies, Jar, JarOK
  <2>3. FlowsKept
    BY <1>2, <2>2 DEF FollowRedirect, Flow, FlowsKept, Issued
  <2> QED
    BY <1>2, <2>1, <2>2, <2>3, NoCall DEF FollowRedirect
<1>3. ASSUME NEW f \in Flows, FollowElsewhere(f) \/ Deny(f) \/ \E a \in Accounts : Consent(f, a)
      PROVE  FlowInv'
  <2>1. flow' \in [Flows -> Flow] /\ FlowsKept /\ FlowsOK'
    BY <1>3 DEF FollowElsewhere, Deny, Consent, Flow, FlowsKept, FlowsOK, Issued
  <2> QED
    BY <1>3, <2>1, NoCall DEF FollowElsewhere, Deny, Consent, JarOK
<1>4. ASSUME StateExpires \/ NonceExpires PROVE FlowInv'
  <2>1. jar' \in Jar /\ JarOK' /\ jar'.state = None /\ latest' \in Flows \cup {None}
    BY <1>4 DEF StateExpires, NonceExpires, Jar, JarOK
  <2>2. UNCHANGED <<flow, call, disturbed>> /\ FlowsKept /\ FlowsOK'
    BY <1>4, <2>1 DEF StateExpires, NonceExpires, FlowsKept, FlowsOK, Issued
  <2> QED
    BY <2>1, <2>2, NoCall
<1>5. ASSUME NEW c \in Calls, NEW state \in Flows \cup {None}, NEW code \in Issued \cup {None},
             Request(c, state, code)
      PROVE  FlowInv'
  <2> DEFINE x == [at |-> "exchange", state |-> state, code |-> code, nonce |-> jar.nonce,
                   fresh |-> state = latest /\ state # None, token |-> None, identity |-> None]
  <2>1. x \in Call
    BY DEF Call, Jar, Issued
  <2>2. call' = [call EXCEPT ![c] = IF StateMatches(state) THEN x ELSE Refused(x)]
        /\ UNCHANGED <<flow, jar, latest, disturbed>>
    BY <1>5 DEF Request
  <2>3. call' \in [Calls -> Call]
    BY <2>1, <2>2, RefusedTypes
  <2>4. FlowsKept /\ FlowsOK'
    BY <2>2 DEF FlowsKept, FlowsOK, Issued
  <2>5. CallOK(c)' /\ Caused(c)'
    <3>1. CASE StateMatches(state)
      <4>1. call'[c] = x
        BY <2>2, <3>1
      <4> QED
        BY <2>2, <3>1, <4>1 DEF StateMatches, CallOK, Caused, JarOK, Passed, Issued
    <3>2. CASE ~StateMatches(state)
      <4>1. call'[c] = Refused(x)
        BY <2>2, <3>2
      <4>2. OwnCode(x) => ~x.fresh
        BY <3>2 DEF StateMatches, JarOK, OwnCode
      <4> QED
        BY <2>1, <2>2, <4>1, <4>2, RefusedOK DEF Issued
    <3> QED
      BY <3>1, <3>2
  <2> QED
    BY <2>2, <2>3, <2>4, <2>5, OneCall
<1>6. ASSUME NEW c \in Calls, Exchange(c) PROVE FlowInv'
  <2> DEFINE g == call[c].code
             token == [nonce |-> NonceParam(g), account |-> flow[g].account]
             mid == [call EXCEPT ![c].at = "token"]
  <2>1. g \in Flows /\ g # None /\ flow[g].at = "consented" /\ flow[g].account \in Accounts
    BY <1>6 DEF Exchange, Redeem, Redeemable, FlowsOK, Issued
  <2>2. flow' \in [Flows -> Flow] /\ flow'[g] = [flow[g] EXCEPT !.at = "redeemed"]
        /\ \A f \in Flows \ {g} : flow'[f] = flow[f]
    BY <1>6, <2>1 DEF Exchange, Redeem, Flow
  <2>3. FlowsKept /\ FlowsOK'
    BY <1>6, <2>1, <2>2 DEF Exchange, Flow, FlowsKept, FlowsOK, Issued
  <2>4. token \in Token
    BY <2>1 DEF NonceParam, Token
  <2>5. /\ call' \in [Calls -> Call] /\ \A d \in Calls \ {c} : call'[d] = call[d]
        /\ call'[c] = [call[c] EXCEPT !.at = "token", !.token = token]
    <3>1. mid \in [Calls -> Call] /\ call' = [mid EXCEPT ![c].token = token]
      BY <1>6 DEF Exchange, Call
    <3>2. mid[c] = [call[c] EXCEPT !.at = "token"] /\ \A d \in Calls \ {c} : mid[d] = call[d]
      OBVIOUS
    <3> HIDE DEF token, mid
    <3>3. [mid[c] EXCEPT !.token = token] \in Call
      BY <2>4, <3>1 DEF Call
    <3>4. /\ call' \in [Calls -> Call] /\ \A d \in Calls \ {c} : call'[d] = call[d]
          /\ call'[c] = [mid[c] EXCEPT !.token = token]
      BY <3>1, <3>2, <3>3
    <3>5. [mid[c] EXCEPT !.token = token] = [call[c] EXCEPT !.at = "token", !.token = token]
      BY <3>2
    <3> QED
      BY <3>4, <3>5
  <2>6. /\ call'[c].at = "token" /\ call'[c].token = token
        /\ call'[c].state = call[c].state /\ call'[c].code = g
        /\ call'[c].fresh = call[c].fresh /\ call'[c].nonce = call[c].nonce
    BY <2>5 DEF Call
  <2>7. HasToken(c)'
    <3>1. NonceParam(call[c].code)' = NonceParam(g)
      BY <2>1, <2>2, <2>6 DEF NonceParam, Flow
    <3>2. flow'[g].at = "redeemed" /\ flow'[g].account = flow[g].account
      BY <2>1, <2>2 DEF Flow
    <3>3. token # None
      BY <2>4
    <3> QED
      BY <2>1, <2>6, <3>1, <3>2, <3>3 DEF HasToken
  <2>8. CallOK(c)' /\ Caused(c)'
    <3>1. g \in Issued' /\ jar' = jar /\ call[c].at = "exchange"
      BY <1>6, <2>1, <2>2 DEF Exchange, Issued, Flow
    <3> QED
      BY <2>6, <2>7, <3>1 DEF CallOK, Caused, Passed
  <2> QED
    BY <1>6, <2>2, <2>3, <2>5, <2>8, OneCall DEF Exchange
<1>7. ASSUME NEW c \in Calls, ExchangeRefused(c) PROVE FlowInv'
  <2>1. call' \in [Calls -> Call] /\ call'[c] = Refused(call[c])
    BY <1>7, RefuseTypes DEF ExchangeRefused
  <2>2. FlowsKept /\ FlowsOK'
    BY <1>7 DEF ExchangeRefused, FlowsKept, FlowsOK, Issued
  <2>3. call[c].code # None => call[c].code \in Issued' /\ flow'[call[c].code].at = "redeemed"
    BY <1>7 DEF ExchangeRefused, Redeemable, CallOK, Issued
  <2>4. call[c].token = None
    BY <1>7 DEF ExchangeRefused, CallOK
  <2>5. CallOK(c)' /\ Caused(c)'
    BY <2>1, <2>3, <2>4, RefusedOK DEF OwnCode
  <2> QED
    BY <1>7, <2>1, <2>2, <2>5, OneCall DEF ExchangeRefused, Refuse
<1>8. ASSUME NEW c \in Calls, ExchangeFails(c) \/ IdentityFails(c) PROVE FlowInv'
  <2>1. /\ call' \in [Calls -> Call] /\ call'[c] = Refused(call[c])
        /\ disturbed' \in SUBSET Flows
        /\ \A d \in Calls \ {c} : call'[d] = call[d]
    BY <1>8, RefuseTypes DEF ExchangeFails, IdentityFails, Refuse, Disturb
  <2>2. flow' \in [Flows -> Flow] /\ FlowsKept /\ FlowsOK'
    BY <1>8 DEF ExchangeFails, IdentityFails, Redeem, Redeemable, Disturb, Flow, FlowsKept,
                FlowsOK, Issued
  <2>3. call[c].code # None => call[c].code \in Issued'
    BY <2>2 DEF FlowsKept, CallOK
  <2>4. OwnCode(call[c]) => call[c].code \in disturbed'
    BY <1>8 DEF ExchangeFails, IdentityFails, Disturb, OwnCode, Call
  <2>5. CallOK(c)' /\ Caused(c)'
    BY <2>1, <2>3, <2>4, RefusedOK
  <2> QED
    BY <1>8, <2>1, <2>2, <2>5, OneCall DEF ExchangeFails, IdentityFails
<1>9. ASSUME NEW c \in Calls, VerifyToken(c), ~NonceMatches(c) PROVE FlowInv'
  <2>1. call' \in [Calls -> Call] /\ call'[c] = Refused(call[c])
        /\ UNCHANGED <<flow, jar, latest, disturbed>>
    BY <1>9, RefuseTypes DEF VerifyToken
  <2>2. FlowsKept /\ FlowsOK'
    BY <2>1 DEF FlowsKept, FlowsOK, Issued
  <2>3. ~OwnCode(call[c])
    BY <1>9 DEF VerifyToken, NonceMatches, ProviderOf, NonceParam, CallOK, HasToken, OwnCode
  <2>4. call[c].code # None => call[c].code \in Issued'
    BY <2>1 DEF CallOK, Issued
  <2>5. CallOK(c)' /\ Caused(c)'
    BY <2>1, <2>3, <2>4, RefusedOK
  <2> QED
    BY <1>9, <2>1, <2>2, <2>5, OneCall DEF VerifyToken, Refuse
<1>10. ASSUME NEW c \in Calls, FetchProfile(c) \/ (VerifyToken(c) /\ NonceMatches(c))
      PROVE  FlowInv'
  <2> DEFINE g == call[c].code
             id == IdentityOf(flow[g].provider, flow[g].account)
  <2>1. /\ g \in Flows /\ g \in Issued /\ call[c].at = "token" /\ HasToken(c)
        /\ flow[g].account \in Accounts
    BY <1>10 DEF VerifyToken, FetchProfile, CallOK, HasToken, Issued, FlowsOK
  <2>2. UNCHANGED <<flow, jar, latest, disturbed>>
    BY <1>10 DEF VerifyToken, FetchProfile
  <2>3. PICK at \in {"done", "avatar"} : Identified(c, at)
    BY <1>10 DEF VerifyToken, FetchProfile
  <2>4. id \in Identity
    BY <2>1 DEF IdentityOf, Identity
  <2>5. /\ call' \in [Calls -> Call] /\ \A d \in Calls \ {c} : call'[d] = call[d]
        /\ call'[c].at = at /\ call'[c].state = call[c].state /\ call'[c].code = g
        /\ call'[c].fresh = call[c].fresh /\ call'[c].token = call[c].token
        /\ call'[c].identity = id
    <3> DEFINE one == [call EXCEPT ![c].at = at]
               two == [one EXCEPT ![c].nonce = None]
    <3>1. /\ one \in [Calls -> Call] /\ \A d \in Calls \ {c} : one[d] = call[d]
          /\ one[c].at = at /\ one[c].state = call[c].state /\ one[c].code = g
          /\ one[c].fresh = call[c].fresh /\ one[c].token = call[c].token
      BY DEF Call
    <3>2. call' = [two EXCEPT ![c].identity = id]
      BY <2>1, <2>3 DEF Identified, ProviderOf, HasToken
    <3> HIDE DEF one, id
    <3>3. /\ two \in [Calls -> Call] /\ \A d \in Calls \ {c} : two[d] = call[d]
          /\ two[c].at = at /\ two[c].state = call[c].state /\ two[c].code = g
          /\ two[c].fresh = call[c].fresh /\ two[c].token = call[c].token
      BY <3>1 DEF Call
    <3> HIDE DEF two
    <3> QED
      BY <2>4, <3>2, <3>3 DEF Call
  <2>6. FlowsKept /\ FlowsOK'
    BY <2>2 DEF FlowsKept, FlowsOK, Issued
  <2>7. call[c].state # None /\ flow[g].provider \in OIDC => g = call[c].state
    BY <1>10, <2>1 DEF FetchProfile, ProviderOf, NonceMatches, HasToken, NonceParam, CallOK
  <2>8. HasToken(c)'
    BY <2>1, <2>2, <2>5 DEF HasToken, NonceParam
  <2>9. CallOK(c)' /\ Caused(c)'
    BY <2>1, <2>2, <2>5, <2>7, <2>8 DEF CallOK, Caused, Passed, Issued
  <2> QED
    BY <2>2, <2>5, <2>6, <2>9, OneCall
<1>11. ASSUME NEW c \in Calls, FetchAvatar(c) PROVE FlowInv'
  <2>1. call' \in [Calls -> Call]
    BY <1>11 DEF FetchAvatar, Call
  <2>2. FlowsKept /\ FlowsOK'
    BY <1>11 DEF FetchAvatar, FlowsKept, FlowsOK, Issued
  <2>3. CallOK(c)' /\ Caused(c)'
    BY <1>11 DEF FetchAvatar, CallOK, Caused, HasToken, Passed, Issued, NonceParam
  <2> QED
    BY <1>11, <2>1, <2>2, <2>3, OneCall DEF FetchAvatar
<1>12. CASE Crash
  <2>1. call' \in [Calls -> Call] /\ disturbed' \in SUBSET Flows
    BY <1>12 DEF Crash, IdleCall, Call, Disturb
  <2>2. FlowsKept /\ FlowsOK' /\ JarOK'
    BY <1>12 DEF Crash, FlowsKept, FlowsOK, JarOK, Disturb, Issued
  <2>3. ASSUME NEW c \in Calls PROVE CallOK(c)' /\ Caused(c)'
    <3>1. CASE Free(c)
      BY <1>12, <2>2, <3>1, CallKept DEF Crash
    <3>2. CASE ~Free(c)
      BY <1>12, <3>2 DEF Crash, IdleCall, CallOK, Caused, Passed
    <3> QED
      BY <3>1, <3>2
  <2> QED
    BY <1>12, <2>1, <2>2, <2>3 DEF Crash
<1>13. CASE UNCHANGED vars
  BY <1>13, NoCall DEF vars, FlowsKept, FlowsOK, JarOK, Issued
<1>14. CASE Next
  <2>1. ASSUME NEW c \in Calls, NEW f \in Flows, SendCallback(c, f) PROVE FlowInv'
    BY <1>5, <2>1 DEF SendCallback
  <2>2. ASSUME NEW c \in Calls, NEW state \in Flows \cup {None}, NEW code \in Flows \cup {None},
               OpenURL(c, state, code)
        PROVE  FlowInv'
    BY <1>5, <2>2 DEF OpenURL
  <2>3. ASSUME NEW c \in Calls, Serve(c) \/ ExchangeFails(c) \/ IdentityFails(c) PROVE FlowInv'
    <3> HIDE DEF FlowInv, TypeOK
    <3>1. CASE VerifyToken(c)
      BY <1>9, <1>10, <3>1
    <3> QED
      BY <1>6, <1>7, <1>8, <1>10, <1>11, <2>3, <3>1 DEF Serve
  <2> HIDE DEF FlowInv
  <2> QED
    BY <1>1, <1>2, <1>3, <1>4, <1>12, <1>14, <2>1, <2>2, <2>3 DEF Next
<1> QED
  BY <1>13, <1>14

-----------------------------------------------------------------------------
\* The inductive invariant of the code exchange holds in every reachable state.
THEOREM FlowInvariant == Spec => []FlowInv
BY FlowStarts, FlowStep, PTL DEF Spec

\* Sign-ins, cookies and callbacks keep their types.
THEOREM FlowTypes == Spec => []TypeOK
<1>1. FlowInv => TypeOK
  BY DEF FlowInv
<1> QED
  BY <1>1, FlowInvariant, PTL

\* A callback with a state is completed with fresh cookies, and where the id_token
\* has a nonce with the account of that very sign-in, whatever its code was.
THEOREM CookiesBind == Spec => []CookiesBindTheSignIn
<1>1. FlowInv => CookiesBindTheSignIn
  BY DEF FlowInv, FlowsOK, CallOK, HasToken, ProviderOf, Passed, Issued, CookiesBindTheSignIn
<1> QED
  BY <1>1, FlowInvariant, PTL

\* A sign-in that is refused was superseded, late, used by another callback or disturbed.
THEOREM RefusalsAreCaused == Spec => []RefusalsHaveACause
<1>1. FlowInv => RefusalsHaveACause
  BY DEF FlowInv, Caused, RefusalsHaveACause
<1> QED
  BY <1>1, FlowInvariant, PTL

\* Every callback that is completed has come with the state and the code of one sign-in.
UrlsAreWhole == \A c \in Calls : call[c].at = "done" => OwnCode(call[c])

\* There is no other way to what section 4 of the README shows: as long as no callback
\* is completed that came without a state or with another sign-in's code, a callback goes
\* on only with the account the user picked in the sign-in he had started last.
THEOREM ConsentersSignInUnlessMixed == Spec /\ []UrlsAreWhole => []SignsInTheConsenter
<1>1. FlowInv /\ UrlsAreWhole => SignsInTheConsenter
  BY DEF FlowInv, FlowsOK, CallOK, HasToken, Passed, Issued, UrlsAreWhole, OwnCode,
         SignsInTheConsenter
<1> QED
  BY <1>1, FlowInvariant, PTL

-----------------------------------------------------------------------------
(* Sign-ins complete. *)

\* Some callback with state and code of the sign-in f is at this step.
Of(c, f) == call[c].state = f /\ call[c].code = f
Somewhere(f, step) == \E c \in Calls : call[c].at = step /\ Of(c, f)

\* What SignInsComplete promises for f.
Settled(f) ==
    \/ \E c \in Calls : call[c].at = "done" /\ OwnCode(call[c]) /\ call[c].code = f
    \/ jar.state # f
    \/ f \in disturbed

\* FairSpec with the guards of the actions spelt out.  A callback that is being
\* served leaves its slot; one of a sign-in that meets no failure is not passed
\* over for ever; and a browser that could often go back goes back.
SlotScheduled(c) == []<>Free(c) \/ []<><<Serve(c)>>_vars

Waits(f, step) == Somewhere(f, step) /\ f \notin disturbed
ServeAt(f, step) == \E c \in Calls : call[c].at = step /\ Of(c, f) /\ Serve(c)
StepScheduled(f, step) == []<>~Waits(f, step) \/ []<><<ServeAt(f, step)>>_vars

Returnable(f) == f \in Redeemable /\ jar.state = f /\ \E c \in Calls : Free(c)
Return(f) == \E c \in Calls : f \in Redeemable /\ SendCallback(c, f)
ReturnScheduled(f) == <>[]~Returnable(f) \/ []<><<Return(f)>>_vars

FlowScheduled(f) ==
    /\ ReturnScheduled(f)
    /\ StepScheduled(f, "exchange")
    /\ StepScheduled(f, "token")
    /\ StepScheduled(f, "avatar")

\* How a callback in service goes on: with its parameters, or not at all.
LEMMA Answered ==
    ASSUME FlowInv, NEW c \in Calls, Serve(c)
    PROVE  /\ UNCHANGED <<jar, disturbed>>
           /\ \/ /\ \/ call[c].at = "exchange" /\ call'[c].at = "token"
                    \/ call[c].at = "token" /\ call'[c].at \in {"avatar", "done"}
                    \/ call[c].at = "avatar" /\ call'[c].at = "done"
                 /\ call'[c].state = call[c].state /\ call'[c].code = call[c].code
              \/ /\ call'[c].at \in {"idle", "refused"}
                 /\ \/ call[c].at = "exchange" /\ call[c].code \notin Redeemable
                    \/ call[c].at = "token" /\ ~OwnCode(call[c])
<1> USE DEF FlowInv, TypeOK
<1>1. CASE Exchange(c)
  <2> DEFINE token == [nonce |-> NonceParam(call[c].code), account |-> flow[call[c].code].account]
             mid == [call EXCEPT ![c].at = "token"]
  <2>1. /\ mid \in [Calls -> Call] /\ mid[c].at = "token"
        /\ mid[c].state = call[c].state /\ mid[c].code = call[c].code
    BY DEF Call
  <2>2. call' = [mid EXCEPT ![c].token = token]
    BY <1>1 DEF Exchange
  <2> HIDE DEF mid, token
  <2>3. call'[c].at = "token" /\ call'[c].state = call[c].state /\ call'[c].code = call[c].code
    BY <2>1, <2>2 DEF Call
  <2> QED
    BY <1>1, <2>3 DEF Exchange
<1>2. CASE ExchangeRefused(c)
  BY <1>2, RefuseTypes, RefusedTypes DEF ExchangeRefused
<1>3. CASE VerifyToken(c) /\ ~NonceMatches(c)
  <2>1. ~OwnCode(call[c])
    BY <1>3 DEF VerifyToken, NonceMatches, ProviderOf, NonceParam, CallOK, HasToken, OwnCode
  <2> QED
    BY <1>3, <2>1, RefuseTypes, RefusedTypes DEF VerifyToken
<1>4. CASE VerifyToken(c) /\ NonceMatches(c)
  BY <1>4 DEF VerifyToken, Identified, Call
<1>5. CASE FetchProfile(c)
  BY <1>5 DEF FetchProfile, Identified, Call
<1>6. CASE FetchAvatar(c)
  BY <1>6 DEF FetchAvatar, Call
<1> QED
  BY <1>1, <1>2, <1>3, <1>4, <1>5, <1>6 DEF Serve

\* A callback in service stays where it is, is served, or meets a failure.
LEMMA InService ==
    ASSUME FlowInv, [Next]_vars, NEW c \in Calls, ~Free(c)
    PROVE  \/ call'[c] = call[c]
           \/ Serve(c)
           \/ Free(c)' /\ (OwnCode(call[c]) => call[c].code \in disturbed')
<1> USE DEF FlowInv, TypeOK
<1>1. ASSUME NEW d \in Calls, NEW state \in Flows \cup {None}, NEW code \in Flows \cup {None},
             Request(d, state, code)
      PROVE  call'[c] = call[c]
  BY <1>1 DEF Request
<1>2. ASSUME NEW d \in Calls, Serve(d), d # c PROVE call'[c] = call[c]
  BY <1>2 DEF Serve, Exchange, ExchangeRefused, VerifyToken, FetchProfile, FetchAvatar,
              Refuse, Identified, Call
<1>3. ASSUME NEW d \in Calls, ExchangeFails(d) \/ IdentityFails(d)
      PROVE  \/ call'[c] = call[c]
             \/ Free(c)' /\ (OwnCode(call[c]) => call[c].code \in disturbed')
  <2>1. CASE d # c
    BY <1>3, <2>1 DEF ExchangeFails, IdentityFails, Refuse, Call
  <2>2. CASE d = c
    <3>1. call'[c].at \in {"idle", "refused"}
      BY <1>3, <2>2, RefuseTypes, RefusedTypes DEF ExchangeFails, IdentityFails
    <3>2. OwnCode(call[c]) => call[c].code \in disturbed'
      BY <1>3, <2>2 DEF ExchangeFails, IdentityFails, Disturb, OwnCode, Call
    <3> QED
      BY <3>1, <3>2 DEF Free
  <2> QED
    BY <2>1, <2>2
<1>4. CASE Crash
  BY <1>4 DEF Crash, Disturb, IdleCall, Free, OwnCode, Call
<1>5. ASSUME UNCHANGED call PROVE call'[c] = call[c]
  BY <1>5
<1>6. ASSUME NEW d \in Calls, NEW f \in Flows, SendCallback(d, f) PROVE call'[c] = call[c]
  BY <1>1, <1>6 DEF SendCallback
<1>7. ASSUME NEW d \in Calls, NEW state \in Flows \cup {None}, NEW code \in Flows \cup {None},
             OpenURL(d, state, code)
      PROVE  call'[c] = call[c]
  BY <1>1, <1>7 DEF OpenURL
<1> HIDE DEF FlowInv, TypeOK
<1> QED
  BY <1>2, <1>3, <1>4, <1>5, <1>6, <1>7
     DEF Next, StartFlow, FollowRedirect, FollowElsewhere, Consent, Deny, StateExpires,
         NonceExpires, vars

LEMMA SlotServed ==
    ASSUME FlowInv, NEW c \in Calls, Serve(c)
    PROVE  \/ Free(c)'
           \/ call[c].at = "exchange" /\ call'[c].at = "token"
           \/ call[c].at = "token" /\ call'[c].at = "avatar"
BY Answered DEF Free

\* Every slot is free again and again.
SlotFrees(c) == SlotScheduled(c) => []<>Free(c)

LEMMA EverySlotFrees ==
    ASSUME NEW CONSTANT c \in Calls PROVE Spec => SlotFrees(c)
<1> DEFINE At(step) == call[c].at = step
<1>1. FlowInv => At("exchange") \/ At("token") \/ At("avatar") \/ Free(c)
  BY DEF FlowInv, TypeOK, Call, Free
<1>2. ASSUME FlowInv, [Next]_vars
      PROVE  /\ At("exchange") => (At("exchange") \/ At("token") \/ Free(c))'
             /\ At("token") => (At("token") \/ At("avatar") \/ Free(c))'
             /\ At("avatar") => (At("avatar") \/ Free(c))'
  <2> SUFFICES ASSUME ~Free(c), ~Free(c)'
               PROVE  \/ call'[c] = call[c]
                      \/ call[c].at = "exchange" /\ call'[c].at = "token"
                      \/ call[c].at = "token" /\ call'[c].at = "avatar"
    BY DEF Free
  <2> QED
    BY <1>2, InService, SlotServed
<1>3. ASSUME FlowInv, Serve(c)
      PROVE  /\ At("exchange") => (At("token") \/ Free(c))'
             /\ At("token") => (At("avatar") \/ Free(c))'
             /\ At("avatar") => Free(c)'
  BY <1>3, SlotServed
<1> HIDE DEF At
<1>4. /\ FlowInv /\ [Next]_vars /\ At("exchange") => (At("exchange") \/ At("token") \/ Free(c))'
      /\ FlowInv /\ [Next]_vars /\ At("token") => (At("token") \/ At("avatar") \/ Free(c))'
      /\ FlowInv /\ [Next]_vars /\ At("avatar") => (At("avatar") \/ Free(c))'
  BY <1>2
<1>5. /\ FlowInv /\ <<Serve(c)>>_vars /\ At("exchange") => (At("token") \/ Free(c))'
      /\ FlowInv /\ <<Serve(c)>>_vars /\ At("token") => (At("avatar") \/ Free(c))'
      /\ FlowInv /\ <<Serve(c)>>_vars /\ At("avatar") => Free(c)'
  BY <1>3
<1> QED
  BY <1>1, <1>4, <1>5, FlowInvariant, PTL DEF Spec, SlotFrees, SlotScheduled

-----------------------------------------------------------------------------
\* A code is redeemed by a callback of its own sign-in, or in a failure, or by
\* a callback with other cookies than those of its sign-in.
LEMMA CodeStays ==
    ASSUME FlowInv, [Next]_vars, NEW f \in Flows, flow[f].at = "consented"
    PROVE  \/ flow'[f].at = "consented"
           \/ Somewhere(f, "token")'
           \/ Settled(f)'
<1> USE DEF FlowInv, TypeOK
<1>1. ASSUME NEW c \in Calls, Exchange(c)
      PROVE  flow'[f] = flow[f] \/ Somewhere(f, "token")' \/ Settled(f)'
  <2>1. CASE Of(c, f)
    <3>1. Of(c, f)' /\ call'[c].at = "token"
      BY <1>1, <2>1, Answered DEF Serve, Exchange, Redeem, Of
    <3> QED
      BY <3>1 DEF Somewhere
  <2>2. CASE call[c].code = f /\ call[c].state # f
    <3>1. jar.state # f /\ jar' = jar
      BY <1>1, <2>2 DEF Exchange, CallOK
    <3> QED
      BY <3>1 DEF Settled
  <2>3. CASE call[c].code # f
    BY <1>1, <2>3 DEF Exchange, Redeem, Redeemable
  <2> QED
    BY <2>1, <2>2, <2>3 DEF Of
<1>2. ASSUME NEW c \in Calls, ExchangeFails(c)
      PROVE  flow'[f] = flow[f] \/ Settled(f)'
  <2>1. CASE Of(c, f)
    BY <1>2, <2>1 DEF ExchangeFails, Disturb, Of, OwnCode, Settled
  <2>2. CASE call[c].code = f /\ call[c].state # f
    <3>1. jar.state # f /\ jar' = jar
      BY <1>2, <2>2 DEF ExchangeFails, CallOK
    <3> QED
      BY <3>1 DEF Settled
  <2>3. CASE call[c].code # f
    BY <1>2, <2>3 DEF ExchangeFails, Redeem, Redeemable
  <2> QED
    BY <2>1, <2>2, <2>3 DEF Of
<1>3. ASSUME NEW g \in Flows, g # f,
             \/ \E p \in Providers : StartFlow(g, p)
             \/ \E a \in Accounts : Consent(g, a)
             \/ FollowRedirect(g) \/ FollowElsewhere(g) \/ Deny(g)
      PROVE  flow'[f] = flow[f]
  BY <1>3 DEF StartFlow, Consent, FollowRedirect, FollowElsewhere, Deny
<1>4. ~ \/ \E p \in Providers : StartFlow(f, p)
        \/ \E a \in Accounts : Consent(f, a)
        \/ FollowRedirect(f) \/ FollowElsewhere(f) \/ Deny(f)
  BY DEF StartFlow, Consent, FollowRedirect, FollowElsewhere, Deny, Unused
<1>5. ASSUME UNCHANGED flow PROVE flow'[f] = flow[f]
  BY <1>5
<1>6. ASSUME NEW c \in Calls, NEW g \in Flows, SendCallback(c, g) PROVE UNCHANGED flow
  BY <1>6 DEF SendCallback, Request
<1> HIDE DEF FlowInv, TypeOK
<1> QED
  BY <1>1, <1>2, <1>3, <1>4, <1>5, <1>6
     DEF Next, Serve, ExchangeRefused, VerifyToken, FetchProfile, FetchAvatar, IdentityFails,
         Crash, StateExpires, NonceExpires, OpenURL, Request, vars

\* A callback of f that has come to a step is still there, further, or f is settled.
LEMMA SomewhereStays ==
    ASSUME FlowInv, [Next]_vars, NEW f \in Flows
    PROVE  /\ Somewhere(f, "exchange") /\ flow[f].at = "consented" =>
                 (Somewhere(f, "exchange") \/ Somewhere(f, "token") \/ Settled(f))'
           /\ Somewhere(f, "token") =>
                 (Somewhere(f, "token") \/ Somewhere(f, "avatar") \/ Settled(f))'
           /\ Somewhere(f, "avatar") => (Somewhere(f, "avatar") \/ Settled(f))'
<1>1. ASSUME NEW c \in Calls, Of(c, f), call[c].at \in {"exchange", "token", "avatar"}
      PROVE  \/ call'[c] = call[c]
             \/ Serve(c)
             \/ f \in disturbed'
  <2>1. ~Free(c) /\ OwnCode(call[c])
    BY <1>1 DEF Free, Of, OwnCode
  <2> QED
    BY <1>1, <2>1, InService DEF Of
<1>2. ASSUME NEW c \in Calls, Of(c, f), Serve(c)
      PROVE  /\ call[c].at = "exchange" /\ flow[f].at = "consented" =>
                    Of(c, f)' /\ call'[c].at = "token"
             /\ call[c].at = "token" => Of(c, f)' /\ call'[c].at \in {"avatar", "done"}
             /\ call[c].at = "avatar" => Of(c, f)' /\ call'[c].at = "done"
  BY <1>2, Answered DEF Of, OwnCode, Redeemable
<1> QED
  BY <1>1, <1>2 DEF Somewhere, Settled, Of, OwnCode

\* A callback of f that is served gets further, or f is settled.
LEMMA SomewhereServed ==
    ASSUME FlowInv, NEW f \in Flows, NEW c \in Calls, Of(c, f), Serve(c)
    PROVE  /\ call[c].at = "exchange" /\ flow[f].at = "consented" => Somewhere(f, "token")'
           /\ call[c].at = "token" => (Somewhere(f, "avatar") \/ Settled(f))'
           /\ call[c].at = "avatar" => Settled(f)'
BY Answered DEF Somewhere, Settled, Of, OwnCode, Redeemable

\* The browser goes back with the cookies of the sign-in.
LEMMA ReturnStarts ==
    ASSUME FlowInv, NEW f \in Flows, NEW c \in Calls, f \in Redeemable, SendCallback(c, f),
           jar.state = f
    PROVE  (Somewhere(f, "exchange") /\ flow[f].at = "consented")'
BY DEF FlowInv, TypeOK, Redeemable, SendCallback, Request, StateMatches, Somewhere, Of

\* The sign-in f, once the user has agreed to it, gets its identity.
Agreed(f) == flow[f].at = "consented"
Exchanging(f) == Somewhere(f, "exchange") /\ Agreed(f)
Completes(f) == Agreed(f) ~> Settled(f)

LEMMA ConsentCompletes ==
    ASSUME NEW CONSTANT c \in Calls, NEW CONSTANT f \in Flows
    PROVE  Spec /\ SlotScheduled(c) /\ FlowScheduled(f) => Completes(f)
<1>1. Spec => SlotFrees(c)
  BY EverySlotFrees
<1>2. Agreed(f) /\ Free(c) => Settled(f) \/ Returnable(f)
  BY DEF Agreed, Returnable, Redeemable, Settled
<1>3. FlowInv /\ [Next]_vars /\ Agreed(f) => (Agreed(f) \/ Somewhere(f, "token") \/ Settled(f))'
  BY CodeStays DEF Agreed, Settled
<1>4. FlowInv /\ <<Return(f)>>_vars => Settled(f) \/ Exchanging(f)'
  BY ReturnStarts DEF Return, Exchanging, Agreed, Settled
<1>5. FlowInv /\ [Next]_vars /\ Exchanging(f) =>
         (Exchanging(f) \/ Somewhere(f, "token") \/ Settled(f))'
  BY SomewhereStays, CodeStays DEF Exchanging, Agreed, Settled
<1>6. FlowInv /\ <<ServeAt(f, "exchange")>>_vars /\ Exchanging(f) => Somewhere(f, "token")'
  BY SomewhereServed DEF ServeAt, Exchanging, Agreed
<1>7. FlowInv /\ [Next]_vars /\ Somewhere(f, "token") =>
         (Somewhere(f, "token") \/ Somewhere(f, "avatar") \/ Settled(f))'
  BY SomewhereStays
<1>8. FlowInv /\ <<ServeAt(f, "token")>>_vars => (Somewhere(f, "avatar") \/ Settled(f))'
  BY SomewhereServed DEF ServeAt
<1>9. FlowInv /\ [Next]_vars /\ Somewhere(f, "avatar") => (Somewhere(f, "avatar") \/ Settled(f))'
  BY SomewhereStays
<1>10. FlowInv /\ <<ServeAt(f, "avatar")>>_vars => Settled(f)'
  BY SomewhereServed DEF ServeAt
<1>11. /\ Exchanging(f) => Agreed(f) /\ (Waits(f, "exchange") \/ Settled(f))
       /\ Somewhere(f, "token") => Waits(f, "token") \/ Settled(f)
       /\ Somewhere(f, "avatar") => Waits(f, "avatar") \/ Settled(f)
  BY DEF Exchanging, Waits, Settled
<1> QED
  BY <1>1, <1>2, <1>3, <1>4, <1>5, <1>6, <1>7, <1>8, <1>9, <1>10, <1>11, FlowInvariant, PTL
     DEF Spec, SlotFrees, FlowScheduled, ReturnScheduled, StepScheduled, Completes

\* A sign-in the user has agreed to gets its identity, for any number of tabs
\* and callbacks: the browser finds a free slot, its code is redeemed by one of
\* the callbacks that carry it, and that one is not refused.
THEOREM ConsentsComplete ==
    ASSUME NEW CONSTANT c \in Calls
    PROVE  Spec /\ SlotScheduled(c) /\ (\A f \in Flows : FlowScheduled(f)) => SignInsComplete
<1>1. ASSUME NEW CONSTANT f \in Flows
      PROVE  Spec /\ SlotScheduled(c) /\ FlowScheduled(f) => Completes(f)
  BY ConsentCompletes
<1>2. (\A f \in Flows : Completes(f)) => SignInsComplete
  BY DEF SignInsComplete, Completes, Settled, Agreed
<1>3. Spec /\ SlotScheduled(c) /\ (\A f \in Flows : FlowScheduled(f))
         => \A f \in Flows : Completes(f)
  BY <1>1
<1> QED
  BY <1>2, <1>3
=============================================================================
