----------------------------- MODULE MCDirectory -----------------------------
(* Directory with one client, three users, and one organisation from the start. *)
EXTENDS Directory

CONSTANTS ann, bob, cho, acme, beta

MCSeed == [o \in Slugs |-> IF o = acme THEN ann ELSE None]

\* Ann, who is there, is also invited.  She has an identity with a picture, and
\* one without.
MCSignups == {<<ann, "">>, <<bob, "Bo">>, <<cho, "">>}
MCPictures == {<<ann, "Bo">>, <<ann, "">>}

\* Bob and Cho are invited to Acme, and Ann to Beta once somebody has founded it.
Offer(u, o) == [org |-> o, email |-> u, role |-> "Member"]
MCOffered == {Offer(bob, acme), Offer(cho, acme), Offer(ann, beta)}

\* A body that removes the picture, and one that gives the country only.
MCPatches == {[f \in {"avatar_url"} |-> ""], [f \in {"country"} |-> ""]}

Email(us) == [column |-> "email", accepts |-> us]
Unknown == [column |-> None, accepts |-> Names]

\* No filter; an alternative that is not recognised and a group that is not.
MCSearches == {{}, {{Email({ann, cho}), Unknown}, {Unknown}}}

\* Fewer than one, or more than a page holds.
MCPageSizes == {0, 3}
=============================================================================
