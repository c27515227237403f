------------------------------ MODULE Dashboard ------------------------------
(***************************************************************************)
(* What the window shows and the history keeps: the selection buttons, the *)
(* Interfaces table and a chart (gui/main_window.py, gui/charts.py), the   *)
(* history store (storage/history_store.py), and the worker's tick as far  *)
(* as they see it (gui/worker.py).  What a tick measures is in Traffic.    *)
(*                                                                         *)
(* The worker writes a tick's records to the store itself, and posts its   *)
(* snapshot to the event queue of the window; the user acts in between.    *)
(* Times are ages by the wall clock, in units of the worker's interval;    *)
(* one chart stands for the seven, which are filled and cleared alike.     *)
(***************************************************************************)
EXTENDS FiniteSets, Collections, InterfaceSelection

CONSTANTS
    Iface,       \* interfaces
    TypeOf,      \* their type according to the adapter metadata
    Retentions,  \* the retentions the user may set
    MaxQueue,    \* bound: snapshots on their way to the window
    MaxSetBacks  \* bound: units by which the clock is set back in all

ASSUME DashboardAssumption ==
    /\ TypeOf \in [Iface -> Type]
    /\ Retentions \subseteq Nat \ {0} /\ \E r \in Retentions : \A q \in Retentions : q <= r
    /\ MaxQueue \in Nat \ {0} /\ MaxSetBacks \in Nat

VARIABLES
    overrides,   \* InterfaceSelectionManager._overrides
    at,          \* what the worker does next; "off" when there is none
    connected,   \* the window receives the worker's snapshots
    warm,        \* the worker has read the counters before
    tick,        \* what the tick in progress has found and measured
    queue,       \* the snapshots on their way to the window
    latest,      \* _latest_snapshot, and what the tables show of it
    showAll,     \* "Show all adapters"
    table,       \* the rows of the Interfaces tab, checked or not
    retention,   \* retention_minutes
    history,     \* HistoryStore._records: the ages of each interface's
    chart,       \* the points of each series of the chart
    setBacks,    \* history: units the clock has been set back so far
    inFlight     \* history: snapshots under way when Clear was last clicked

workerVars == <<at, connected, warm, tick>>
selectVars == <<overrides, latest, showAll, table>>
timeVars == <<retention, history, chart, setBacks, inFlight>>
vars == <<workerVars, queue, selectVars, timeVars>>

Empty == [x \in {} |-> x]
NoRecords == [i \in Iface |-> <<>>]
NoPoints == [i \in Iface |-> [old |-> 0, new |-> FALSE]]

\* A snapshot: the interfaces found, those enabled, those with a rate, and
\* whether it is from before the last Clear (history).
NoTick == [list |-> Empty, enabled |-> {}, sampled |-> {}, old |-> FALSE]

Init ==
    /\ overrides = Empty
    /\ at = "off" /\ connected = FALSE /\ warm = FALSE
    /\ tick = NoTick /\ queue = <<>>
    /\ latest = [list |-> Empty, enabled |-> {}]
    /\ showAll = FALSE /\ table = Empty
    /\ retention \in Retentions
    /\ history = NoRecords /\ chart = NoPoints
    /\ setBacks = 0 /\ inFlight = 0

-----------------------------------------------------------------------------
(* The history store. *)

\* Mutant: records are only dropped when the retention changes.
WrittenUnpruned(i) == <<0>> \o history[i]

\* _prune_locked().
UpTo(kept) == {age \in Int : age <= kept}
Prune(ages, kept) == Filtered(ages, UpTo(kept))

\* add_many() of a record, newest first.
Written(i) == Prune(<<0>> \o history[i], retention)

-----------------------------------------------------------------------------
(* The chart.  Of each series its points from before the last Clear are     *)
(* counted; how far back it reaches is left out.                           *)

\* add_point() of a snapshot's point.
Plotted(series, s) ==
    IF s.old THEN [series EXCEPT !.old = @ + 1] ELSE [series EXCEPT !.new = TRUE]

-----------------------------------------------------------------------------
(* The worker. *)

\* Mutant: what is not enabled is measured too.
SampledOfAll(enabled) == SUBSET Iface

\* The interfaces that may have a rate: a new worker has none yet, later any
\* that is enabled may be without.
Sampled(enabled) == IF warm THEN SUBSET enabled ELSE {{}}

\* A tick up to its steering: discover_interfaces() and resolve(), the
\* measurements, and a record of every enabled interface that has a rate.
\* What the window may do in the meantime it may do before or after as well.
Measure(classified, sampled) ==
    LET list == [i \in Iface |-> IF classified THEN TypeOf[i] ELSE "other"]
        enabled == EnabledIn(list, overrides)
    IN  /\ at = "measure" /\ at' = "emit"
        /\ sampled \in Sampled(enabled)
        /\ warm' = TRUE
        /\ tick' = [list |-> list, enabled |-> enabled, sampled |-> sampled, old |-> FALSE]
        /\ history' = IF sampled = {} THEN history
                      ELSE [i \in Iface |-> IF i \in sampled THEN Written(i)
                                            ELSE Prune(history[i], retention)]
        /\ UNCHANGED <<connected, queue, selectVars, retention, chart, setBacks, inFlight>>

\* snapshot_ready.emit(), after the steering tick.
Emit ==
    /\ at = "emit" /\ at' = "sleep"
    /\ connected => Len(queue) < MaxQueue
    /\ queue' = IF connected THEN Append(queue, tick) ELSE queue
    /\ tick' = NoTick
    /\ UNCHANGED <<connected, warm, selectVars, timeVars>>

\* run() catches what the tick raised; its records stay.
Fail ==
    /\ at = "emit" /\ at' = "sleep"
    /\ tick' = NoTick
    /\ UNCHANGED <<connected, warm, queue, selectVars, timeVars>>

\* run() ends.
Finish ==
    /\ at \in {"sleep", "measure"} /\ ~connected /\ at' = "off"
    /\ UNCHANGED <<connected, warm, tick, queue, selectVars, timeVars>>

-----------------------------------------------------------------------------
(* The window: monitoring. *)

\* start_monitoring(): set_retention_minutes() prunes the store.
Start ==
    /\ at = "off" /\ at' = "measure"
    /\ connected' = TRUE /\ warm' = FALSE
    /\ history' = [i \in Iface |-> Prune(history[i], retention)]
    /\ UNCHANGED <<tick, queue, selectVars, retention, chart, setBacks, inFlight>>

\* stop_monitoring() disconnects first; what was posted before may still be
\* delivered or not.  (A wait that gives up connects again: MainWindow.)
Stop ==
    /\ connected /\ connected' = FALSE
    /\ queue' \in {queue, <<>>}
    /\ UNCHANGED <<at, warm, tick, selectVars, timeVars>>

\* Mutant: an interface that has a row keeps its check mark.
RowsKept(list, enabled, all) ==
    [i \in IF all THEN DOMAIN list ELSE VisibleByDefault(list, enabled) |->
        IF i \in DOMAIN table THEN table[i] ELSE i \in enabled]

\* _render_interfaces_table().
Rows(list, enabled, all) ==
    [i \in IF all THEN DOMAIN list ELSE VisibleByDefault(list, enabled) |-> i \in enabled]

\* _on_snapshot().
Render ==
    /\ queue # <<>> /\ queue' = Tail(queue)
    /\ LET s == Head(queue)
       IN  /\ latest' = [list |-> s.list, enabled |-> s.enabled]
           /\ table' = Rows(s.list, s.enabled, showAll)
           /\ chart' = [i \in Iface |-> IF i \in s.sampled THEN Plotted(chart[i], s) ELSE chart[i]]
    /\ UNCHANGED <<workerVars, overrides, showAll, retention, history, setBacks, inFlight>>

-----------------------------------------------------------------------------
(* The window: selection. *)

\* _on_interface_item_changed(): the user clicks the check box of a row.
Click(i) ==
    /\ i \in DOMAIN table
    /\ table' = [table EXCEPT ![i] = ~@]
    /\ overrides' = Chosen(overrides, i, ~table[i])
    /\ UNCHANGED <<workerVars, queue, latest, showAll, timeVars>>

\* The buttons choose for the interfaces of the latest snapshot and render
\* the table by the new selection.
ChooseMany(chosen) ==
    /\ overrides' = chosen
    /\ table' = Rows(latest.list, EnabledIn(latest.list, chosen), showAll)
    /\ UNCHANGED <<workerVars, queue, latest, showAll, timeVars>>

SelectPhysicalDefaults == ChooseMany(PhysicalChosen(overrides, latest.list))
DeselectAll == ChooseMany(NoneChosen(overrides, latest.list))

ToggleShowAll ==
    /\ showAll' = ~showAll
    /\ table' = Rows(latest.list, EnabledIn(latest.list, overrides), showAll')
    /\ UNCHANGED <<workerVars, queue, overrides, latest, timeVars>>

-----------------------------------------------------------------------------
(* The window: history. *)

\* _on_retention_changed().
SetRetention ==
    /\ retention' \in Retentions \ {retention}
    /\ history' = [i \in Iface |-> Prune(history[i], retention')]
    /\ UNCHANGED <<workerVars, queue, selectVars, chart, setBacks, inFlight>>

AsOld(s) == [s EXCEPT !.old = TRUE]

\* What is under way as a snapshot: in the queue, or measured and not posted.
UnderWay == Len(queue) + (IF at = "emit" THEN 1 ELSE 0)

\* Mutant: the charts keep their points.
PointsKept == [i \in Iface |-> [old |-> chart[i].old + (IF chart[i].new THEN 1 ELSE 0), new |-> FALSE]]

PointsCleared == NoPoints

\* _on_clear_history().
Clear ==
    /\ history' = NoRecords /\ chart' = PointsCleared
    /\ inFlight' = UnderWay
    /\ queue' = [k \in DOMAIN queue |-> AsOld(queue[k])]
    /\ tick' = IF at = "emit" THEN AsOld(tick) ELSE tick
    /\ UNCHANGED <<at, connected, warm, selectVars, retention, setBacks>>

-----------------------------------------------------------------------------
(* The clock. *)

MaxRetention == CHOOSE r \in Retentions : \A q \in Retentions : q <= r

\* A record older than this is pruned at the next opportunity.
MaxAge == MaxRetention + 1

\* A unit of time passes: the worker's sleep ends.  What passes during the
\* rest of a tick is counted to the sleep.
Elapse ==
    /\ at # "emit"
    /\ at' = IF at = "sleep" THEN "measure" ELSE at
    /\ history' = [i \in Iface |-> [k \in DOMAIN history[i] |->
                    IF history[i][k] < MaxAge THEN history[i][k] + 1 ELSE MaxAge]]
    /\ UNCHANGED <<connected, warm, tick, queue, selectVars, retention, chart, setBacks,
                   inFlight>>

\* The wall clock is set back by a unit; the worker's sleep does not see it.
SetBack ==
    /\ setBacks < MaxSetBacks /\ setBacks' = setBacks + 1
    /\ history' = [i \in Iface |-> [k \in DOMAIN history[i] |-> history[i][k] - 1]]
    /\ UNCHANGED <<workerVars, queue, selectVars, retention, chart, inFlight>>

-----------------------------------------------------------------------------
Measures == \E classified \in BOOLEAN, sampled \in SUBSET Iface : Measure(classified, sampled)

Next ==
    \/ Measures \/ Emit \/ Fail \/ Finish
    \/ Start \/ Stop \/ Render
    \/ SelectPhysicalDefaults \/ DeselectAll \/ ToggleShowAll
    \/ SetRetention \/ Clear
    \/ Elapse \/ SetBack
    \/ \E i \in Iface : Click(i)

Spec == Init /\ [][Next]_vars

\* The worker goes on: every query it makes has a timeout.  Qt delivers what
\* is posted, and time passes.
FairSpec ==
    /\ Spec
    /\ WF_vars(Measures) /\ WF_vars(Emit)
    /\ WF_vars(Render) /\ WF_vars(Elapse)

-----------------------------------------------------------------------------
(* Properties. *)

Age == -MaxSetBacks .. MaxAge
Snapshot(s) ==
    /\ DOMAIN s.list \subseteq Iface /\ s.enabled \subseteq DOMAIN s.list
    /\ s.sampled \subseteq s.enabled /\ s.old \in BOOLEAN

\* Every variable holds a value of its kind.
TypeOK ==
    /\ DOMAIN overrides \subseteq Iface /\ \A i \in DOMAIN overrides : overrides[i] \in BOOLEAN
    /\ at \in {"off", "sleep", "measure", "emit"}
    /\ connected \in BOOLEAN /\ warm \in BOOLEAN /\ showAll \in BOOLEAN
    /\ Snapshot(tick) /\ Len(queue) <= MaxQueue
    /\ \A k \in DOMAIN queue : Snapshot(queue[k])
    /\ latest.enabled \subseteq DOMAIN latest.list
    /\ DOMAIN table \subseteq DOMAIN latest.list
    /\ retention \in Retentions
    /\ history \in [Iface -> Seq(Age)] /\ chart \in [Iface -> [old : Nat, new : BOOLEAN]]
    /\ setBacks \in 0..MaxSetBacks /\ inFlight \in 0..MaxQueue + 1

\* The store holds no more of an interface than one record for each unit of
\* the retention, and one more for each unit the clock was set back
\* (history_store.py 1-7): it does not grow, however monitoring is started
\* and stopped and the retention changed.
HistoryBounded == \A i \in Iface : Len(history[i]) <= retention + 1 + setBacks

\* After Clear, nothing from before it comes back into the chart but the
\* snapshots that were under way (README.md 249-251: "none are left showing
\* stale data").
ClearHolds ==
    \A i \in Iface :
        chart[i].old + Cardinality({k \in DOMAIN queue : queue[k].old}) <= inFlight

\* What the user has chosen for good is in the end what the window shows,
\* whatever snapshots are on their way: an enabled interface has a checked
\* row, a deselected one has no checked row and is in no table of
\* measurements (README.md 311-312, 722-727).
ViewSettles ==
    \A i \in Iface, choice \in BOOLEAN :
        /\ <>[](i \in DOMAIN overrides /\ overrides[i] = choice)
        /\ <>[]connected /\ <>[][~Fail]_vars
        => IF choice THEN <>[](i \in DOMAIN table /\ table[i])
           ELSE <>[](i \notin latest.enabled /\ (i \in DOMAIN table => ~table[i]))
=============================================================================
