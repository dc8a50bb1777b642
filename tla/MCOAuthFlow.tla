---------------------------- MODULE MCOAuthFlow -----------------------------
(* OAuthFlow on small sets for TLC. *)
EXTENDS OAuthFlow

\* Ann and Bob at an OIDC provider; at GitHub Bob keeps his email to himself.
MCAccounts ==
    {[provider |-> "google", subject |-> "1", email |-> "ann", fallback |-> None],
     [provider |-> "google", subject |-> "2", email |-> "bob", fallback |-> None],
     [provider |-> "github", subject |-> "2", email |-> None, fallback |-> "bob@noreply"]}
=============================================================================
