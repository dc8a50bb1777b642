---------------------------- MODULE MCOnboarding ----------------------------
(* Onboarding on small sets for TLC. *)
EXTENDS Onboarding, TLC

CONSTANTS ann, bob, acme, beta,   \* the normal forms that occur
          gid                     \* an identity that is Ann's

\* ToLower(TrimSpace(x)) of the strings the runs send.
MCNormal ==
    [x \in Raw |-> CASE x \in {"ann", " Ann"} -> ann
                     [] x \in {"bob", "BOB"} -> bob
                     [] x \in {"acme", "Acme "} -> acme
                     [] x = "beta" -> beta
                     [] x = "  " -> Blank]

MCProviderOf == [i \in Identities |-> IF i = gid THEN "google" ELSE "github"]

\* The seed migration makes Acme, Ann's, and Beta, Bob's, or Acme alone, Bob's, or
\* was not run.
MCSeedBoth == [o \in Slugs |-> IF o = acme THEN ann ELSE bob]
MCSeedOther == [o \in Slugs |-> IF o = acme THEN bob ELSE None]
MCNoSeed == [o \in Slugs |-> None]

\* Every identity keeps its email, or may come with any of them.
MCStableClaims == {<<i, IF i = gid THEN " Ann" ELSE "BOB">> : i \in Identities}
MCMovingClaims == Identities \X EmailInputs

Symmetry == Permutations(Reqs) \cup Permutations(Sids) \cup Permutations(Tokens)
            \cup Permutations(LinkTokens)
=============================================================================
