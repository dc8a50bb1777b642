---------------------------- MODULE SessionTable ----------------------------
(***************************************************************************)
(* What internal/session promises to the handlers: a table from opaque     *)
(* session ids to sessions in which an entry is there from the moment a    *)
(* handler creates it until it is logged out, expires, or the process      *)
(* restarts, and never comes back.  Nothing of the lazy eviction, of the   *)
(* sweeper or of the unlocked expiry check shows at this level: module     *)
(* SessionStore is the detailed description and is shown to implement      *)
(* this one.  Module Onboarding uses the actions of this module for the    *)
(* sessions its handlers create, read and delete.                          *)
(***************************************************************************)
CONSTANTS Sids,       \* the uuids the store can hand out
          Sessions,   \* models.Session values
          None        \* no session

VARIABLES sessions,   \* id -> the session a lookup of that id finds, or None
          issued      \* the ids handed out so far

tableVars == <<sessions, issued>>

TableTypeOK ==
    /\ sessions \in [Sids -> Sessions \cup {None}]
    /\ issued \in SUBSET Sids

TableInit ==
    /\ sessions = [s \in Sids |-> None]
    /\ issued = {}

\* Create: the id is a fresh uuid.
Create(s, sess) ==
    /\ s \notin issued
    /\ issued' = issued \cup {s}
    /\ sessions' = [sessions EXCEPT ![s] = sess]

\* Delete, or the expiry of s: the id finds nothing from now on.
Drop(s) ==
    /\ sessions' = [sessions EXCEPT ![s] = None]
    /\ UNCHANGED issued

\* The store is process memory: a restart forgets every session.
Forget ==
    /\ sessions' = [s \in Sids |-> None]
    /\ UNCHANGED issued

TableNext ==
    \/ \E s \in Sids, sess \in Sessions : Create(s, sess)
    \/ \E s \in Sids : Drop(s)
    \/ Forget

TableSpec == TableInit /\ [][TableNext]_tableVars
=============================================================================
