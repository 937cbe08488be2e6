---------------------------- MODULE NotifiedView ----------------------------
(***************************************************************************)
(* What the namespaced controllers may assume of a cluster-scoped setting  *)
(* (the ClusterIdentity, the DNSConfiguration).                            *)
(*                                                                         *)
(* A reconciler does not read the custom resource itself: it calls Fetch,  *)
(* which answers from a cache of the process that another controller fills *)
(* and, when that cache is empty, from the informer's list.  It is woken   *)
(* up by watch events of the custom resource.  The cache and the events    *)
(* travel on different paths, so an event can be handled before the cache  *)
(* has the value that caused it.  What makes the design work is only this: *)
(* each change of what Fetch returns is FOLLOWED by an event.  "owed" is   *)
(* that obligation.                                                        *)
(***************************************************************************)
CONSTANTS
    Values,     \* what the setting can be
    Missing     \* what Fetch returns (nil) when there is no such setting

VARIABLES
    view,       \* what Fetch returns now
    owed        \* the view has changed and no event has been sent since

ViewTypeOK ==
    /\ view \in Values \cup {Missing}
    /\ owed \in BOOLEAN

ViewInit ==
    /\ view \in Values \cup {Missing}
    /\ owed = FALSE

\* The cache is set or cleared, or the list behind an empty cache changes.
ViewChanges ==
    /\ view' \in (Values \cup {Missing}) \ {view}
    /\ owed' = TRUE

\* A watch event reaches the subscribers.  Events need no cause: a status
\* write, a resync and the event that precedes the change of the cache are
\* events too.
ViewEvent ==
    /\ owed' = FALSE
    /\ UNCHANGED view

\* The process dies and with it the cache: a new one may find another value.
\* It owes nothing, as the subscribers start over too and look at everything.
ViewRestarts ==
    /\ view' \in Values \cup {Missing}
    /\ owed' = FALSE

ViewNext == ViewChanges \/ ViewEvent \/ ViewRestarts

ViewSpec ==
    /\ ViewInit
    /\ [][ViewNext]_<<view, owed>>
    /\ WF_<<view, owed>>(ViewEvent)
=============================================================================
