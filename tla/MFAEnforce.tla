----------------------------- MODULE MFAEnforce -----------------------------
(***************************************************************************)
(* internal/middleware/mfa_enforce.go: the middleware in front of every    *)
(* route.  It reads the session behind the cookie and, for a local one,    *)
(* whether its user has TOTP; an error of that query only turns a request  *)
(* away, as if it had not been sent.  Routes that can be used without a    *)
(* cookie are not affected: of those it asks nothing.                      *)
(***************************************************************************)
EXTENDS Requests

CONSTANT LocalRequired   \* security.mfa.local_required

ASSUME MFAConstants == LocalRequired \in BOOLEAN

\* A request with the cookie s is answered 403 or sent to the setup page.
Blocked(s) ==
    /\ sessions[s].provider = "local"
    /\ ~HasTOTP(sessions[s].user)

\* Mutant: the invite pages are let through, and POST /auth/invite with them.
ExemptInvite(route) == route \in {"totp", "logout", "invite"}

\* Where a user goes to enrol, or to give up.
Exempt(route) == route \in {"totp", "logout"}

\* The request for a route with the cookie s gets through.
MFAEnforce(route, s) == LocalRequired => Exempt(route) \/ ~Blocked(s)
=============================================================================
