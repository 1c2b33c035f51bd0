----------------------------- MODULE ConfigCache -----------------------------
(***************************************************************************)
(* What the configuration list of npc-gui promises, abstractly: a read    *)
(* cache of the backend's configuration table.  A read takes a snapshot   *)
(* of the store; snapshots are applied to the cache in the order they      *)
(* were taken, and the cache changes in no other way.  The store changes  *)
(* freely underneath.                                                      *)
(***************************************************************************)
EXTENDS Sequences

CONSTANTS
  Keys,    \* configuration ids
  Values,  \* what the cache keeps of a configuration
  Empty    \* the cache before the first read is applied

VARIABLES
  store,   \* the backend's table
  cache,   \* the table as the page holds it
  reads    \* snapshots taken and not yet applied, oldest first

vars == <<store, cache, reads>>

Init ==
  /\ store \in [Keys -> Values]
  /\ cache = Empty
  /\ reads = <<>>

\* The backend changes one or more configurations.
Write ==
  /\ store' \in [Keys -> Values]
  /\ UNCHANGED <<cache, reads>>

\* The backend answers a read with the table as it is now.
Read ==
  /\ reads' = Append(reads, store)
  /\ UNCHANGED <<store, cache>>

\* The oldest outstanding snapshot replaces the cache.
Apply ==
  /\ reads # <<>>
  /\ cache' = Head(reads)
  /\ reads' = Tail(reads)
  /\ UNCHANGED store

Next == Write \/ Read \/ Apply

\* A snapshot taken is eventually applied.
Spec == Init /\ [][Next]_vars /\ WF_vars(Apply)
=============================================================================
