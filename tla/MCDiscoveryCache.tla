-------------------------- MODULE MCDiscoveryCache --------------------------
(* DiscoveryCache with the hosts of provider.go, two tenants at Microsoft. *)
EXTENDS DiscoveryCache

CONSTANTS microsoft, google, tenantA, tenantB, goog

Microsoft == <<microsoft>>
Both == <<microsoft, google>>
At(tenant) == [h \in Hosts |-> IF h = google THEN goog ELSE tenant]

\* Every configuration, either tenant; the same tenant always.
AnyConfig == [issuer : {At(tenantA), At(tenantB)}, enabled : SUBSET Hosts]
OneConfig == [issuer : {At(tenantA)}, enabled : {Hosts}]
=============================================================================
