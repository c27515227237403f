---------------------------- MODULE MonitorWorker ----------------------------
(***************************************************************************)
(* The background thread of gui/worker.py: a loop of ticks, each of which  *)
(* first serves the request the GUI left in a slot of one, then lets the   *)
(* steering session act, then posts a snapshot; and a finally block that   *)
(* disables steering.  Steering is the abstract session.                   *)
(***************************************************************************)
EXTENDS Naturals, Sequences

CONSTANTS
    Holdable,    \* the interfaces steering may modify
    Nobody,      \* not an interface
    MaxQueue     \* bound: snapshots posted and not yet delivered

ASSUME WorkerAssumption ==
    /\ Nobody \notin Holdable
    /\ MaxQueue \in Nat \ {0}

VARIABLES
    thread,      \* "none", or where run() of the newest worker is
    stop,        \* _stop_event is set
    pending,     \* _pending_steering_request
    enabled, holder, shown, restored,  \* the worker's steering session
    connected,   \* the GUI listens to snapshot_ready
    queue        \* status.enabled of the snapshots posted to the GUI

session == <<enabled, holder, shown, restored>>
workerVars == <<thread, stop, pending, session, connected, queue>>

Steering == INSTANCE SteeringSession

Running == thread \in {"loop", "tick", "ending"}

InitWorker ==
    /\ thread = "none" /\ stop = FALSE /\ pending = "none"
    /\ Steering!Init
    /\ connected = FALSE /\ queue = <<>>

\* A new MonitorWorker is constructed, connected and started.  The steering
\* controller is a new one as well.
Launch ==
    /\ thread' = "loop" /\ stop' = FALSE /\ pending' = "none"
    /\ Steering!Renew
    /\ connected' = TRUE

\* disable() does nothing when there is nothing to do.
DisableSteering ==
    \/ Steering!Disable
    \/ ~enabled /\ holder = Nobody /\ UNCHANGED session

\* _process_pending_steering_request().  The GUI has checked for elevation
\* before it lets anyone ask to enable.
Serve(request) ==
    \/ request = "none" /\ UNCHANGED session
    \/ request = "enable" /\ (Steering!Accept \/ Steering!Refuse)
    \/ request = "disable" /\ DisableSteering

\* The tick takes the request out of the slot and serves it.
BeginTick ==
    /\ thread = "loop" /\ ~stop
    /\ thread' = "tick" /\ pending' = "none"
    /\ Serve(pending)
    /\ UNCHANGED <<stop, connected, queue>>

\* SteeringController.tick(), one of the steps it takes on settings.
Steer ==
    /\ thread = "tick"
    /\ Steering!Proceed \/ Steering!Take \/ Steering!Release \/ Steering!Keep
    /\ UNCHANGED <<thread, stop, pending, connected, queue>>

Posted(q, status) == IF Len(q) < MaxQueue THEN Append(q, status)
                     ELSE Append(Tail(q), status)

\* The snapshot is posted to the GUI's event queue, if the GUI is connected.
EndTick ==
    /\ thread = "tick" /\ thread' = "loop"
    /\ queue' = IF connected THEN Posted(queue, shown) ELSE queue
    /\ UNCHANGED <<stop, pending, session, connected>>

\* An exception leaves _tick() before its snapshot; run() goes on.
TickFails ==
    /\ thread = "tick" /\ thread' = "loop"
    /\ UNCHANGED <<stop, pending, session, connected, queue>>

\* Mutant: run() stays in its loop while a request waits.
LeaveWhenServed ==
    /\ thread = "loop" /\ stop /\ pending = "none"
    /\ thread' = "ending"
    /\ UNCHANGED <<stop, pending, session, connected, queue>>

\* run() sees the stop event.
Leave ==
    /\ thread = "loop" /\ stop
    /\ thread' = "ending"
    /\ UNCHANGED <<stop, pending, session, connected, queue>>

\* Mutant: run() ends without disabling steering.
FinallyKeeps ==
    /\ thread = "ending" /\ thread' = "finished"
    /\ UNCHANGED <<stop, pending, session, connected, queue>>

\* The finally block.  A request still in the slot is never served.
Finally ==
    /\ thread = "ending" /\ thread' = "finished"
    /\ DisableSteering
    /\ UNCHANGED <<stop, pending, connected, queue>>

WorkerStep == BeginTick \/ Steer \/ EndTick \/ TickFails \/ Leave \/ Finally
=============================================================================
