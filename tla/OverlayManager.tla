--------------------------- MODULE OverlayManager ---------------------------
(***************************************************************************)
(* What the toast core of msg.js promises (spec §4.1, §4.2): one overlay   *)
(* slot, the ticket of the overlay in it, and auto-dismiss tasks that can  *)
(* only close the slot while their ticket is still the live one.  A task   *)
(* is never cancelled: its continuation runs whether or not it closed.     *)
(***************************************************************************)
EXTENDS Integers, FiniteSets

CONSTANTS
  Tickets,  \* ticket values; 0 is "no ticket"
  Ids       \* identities of show() requests

ASSUME 0 \in Tickets

VARIABLES
  shown,    \* an overlay is mounted
  ticket,   \* the manager's live ticket, 0 when none
  pending,  \* scheduled closeIfCurrent tasks [ticket, func, id]
  fired     \* ids whose continuation has run

avars == <<shown, ticket, pending, fired>>

\* A ticket is live while the manager holds it or a task may present it.
Live == {ticket} \cup {p.ticket : p \in pending}

AInit ==
  /\ shown = FALSE
  /\ ticket = 0
  /\ pending = {}
  /\ fired = {}

(***************************************************************************)
(* show(request): replace whatever is shown.  A timed request takes a      *)
(* ticket that is not live and schedules closeIfCurrent with it; an        *)
(* untimed one leaves no ticket.  Without a host nothing is mounted.       *)
(***************************************************************************)
ShowTimed(t, f, id, host) ==
  /\ t \in Tickets \ ({0} \cup Live)
  /\ id \notin {p.id : p \in pending} \cup fired
  /\ shown' = host
  /\ ticket' = t
  /\ pending' = pending \cup {[ticket |-> t, func |-> f, id |-> id]}
  /\ UNCHANGED fired

ShowUntimed(host) ==
  /\ shown' = host
  /\ ticket' = 0
  /\ UNCHANGED <<pending, fired>>

\* close(): idempotent unmount.
AClose ==
  /\ shown' = FALSE
  /\ ticket' = 0
  /\ UNCHANGED <<pending, fired>>

\* A task runs: it unmounts only if its ticket is the live one.
CloseIfCurrent(p) ==
  /\ p \in pending
  /\ IF p.ticket = ticket
       THEN shown' = FALSE /\ ticket' = 0
       ELSE UNCHANGED <<shown, ticket>>
  /\ pending' = pending \ {p}
  /\ fired' = IF p.func THEN fired \cup {p.id} ELSE fired

ANext ==
  \/ \E t \in Tickets, f \in BOOLEAN, id \in Ids, host \in BOOLEAN :
       ShowTimed(t, f, id, host)
  \/ \E host \in BOOLEAN : ShowUntimed(host)
  \/ AClose
  \/ \E p \in pending : CloseIfCurrent(p)

\* Every scheduled task eventually runs.
ASpec == AInit /\ [][ANext]_avars /\ WF_avars(\E p \in pending : CloseIfCurrent(p))
=============================================================================
