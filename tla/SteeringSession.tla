--------------------------- MODULE SteeringSession ---------------------------
(***************************************************************************)
(* What a steering session promises the rest of the application, with no   *)
(* metrics, commands or ticks: it holds at most one interface modified, it *)
(* lets go of that one before it takes another, it takes none while it is  *)
(* disabled, and its status says so when something could not be given      *)
(* back.  SteeringController implements it; MonitorWorker builds on it.    *)
(***************************************************************************)
EXTENDS Naturals

CONSTANTS
    Holdable,    \* the interfaces a session may modify
    Nobody       \* not an interface

VARIABLES
    enabled,     \* steering is on
    holder,      \* the interface whose setting is on record, or Nobody
    shown,       \* status.enabled, what the GUI is told
    restored     \* status.restored

vars == <<enabled, holder, shown, restored>>

Init ==
    /\ enabled = FALSE /\ holder = Nobody
    /\ shown = FALSE /\ restored = TRUE

\* enable() with nothing left over.
Accept ==
    /\ holder = Nobody
    /\ enabled' = TRUE /\ shown' = TRUE /\ restored' = TRUE
    /\ UNCHANGED holder

\* enable() with a setting still on record: refused, and whether steering
\* is on does not change.
Refuse ==
    /\ holder # Nobody
    /\ shown' = FALSE /\ restored' = FALSE
    /\ UNCHANGED <<enabled, holder>>

\* enable() without elevation, which never got to hold anything.
Reject ==
    /\ ~enabled /\ holder = Nobody
    /\ shown' = FALSE /\ restored' = TRUE
    /\ UNCHANGED <<enabled, holder>>

\* disable(): off in any case, and restored only if nothing is held.
Disable ==
    /\ enabled \/ holder # Nobody
    /\ enabled' = FALSE /\ shown' = FALSE
    /\ holder' \in {Nobody, holder}
    /\ restored' = (holder' = Nobody)

\* A tick begins a switch with nothing to give back, or with the interface
\* it holds as its target again.
Proceed ==
    /\ enabled /\ restored' = TRUE
    /\ UNCHANGED <<enabled, holder, shown>>

\* A tick takes an interface, or takes the one it holds once more.
Take ==
    /\ enabled
    /\ holder' \in IF holder = Nobody THEN Holdable ELSE {holder}
    /\ UNCHANGED <<enabled, shown, restored>>

\* A tick gives the interface back, before another or after a verification
\* that failed; the status tells whether the command succeeded.
Release ==
    /\ enabled /\ holder # Nobody
    /\ holder' = Nobody /\ restored' \in BOOLEAN
    /\ UNCHANGED <<enabled, shown>>

\* The interface could not be given back: it is kept and the tick is over.
Keep ==
    /\ enabled /\ holder # Nobody
    /\ restored' = FALSE
    /\ UNCHANGED <<enabled, holder, shown>>

\* A new controller replaces the old one.
Renew ==
    /\ enabled' = FALSE /\ holder' = Nobody /\ shown' = FALSE /\ restored' = TRUE

Next ==
    \/ Accept \/ Refuse \/ Reject \/ Disable
    \/ Proceed \/ Take \/ Release \/ Keep \/ Renew

Spec == Init /\ [][Next]_vars

-----------------------------------------------------------------------------
TypeOK ==
    /\ enabled \in BOOLEAN /\ shown \in BOOLEAN /\ restored \in BOOLEAN
    /\ holder \in Holdable \cup {Nobody}
=============================================================================
