------------------------------- MODULE Traffic -------------------------------
(***************************************************************************)
(* The traffic half of the worker's tick (gui/worker.py, _tick): the       *)
(* counters and their deltas (monitoring/counters.py), the shares          *)
(* (monitoring/distribution.py), the connections                           *)
(* (monitoring/connections.py) and the records written to the history.     *)
(*                                                                         *)
(* A tick resolves the user's selection once, reads the counters of all    *)
(* interfaces, keeps what belongs to the selected ones and writes it down. *)
(* Meanwhile the user changes the selection, and Windows moves, resets     *)
(* and hides counters.  Errors, discards and packets are counted like      *)
(* bytes; rates are deltas divided by an interval and are left out.        *)
(***************************************************************************)
EXTENDS Integers, FiniteSets, Collections, InterfaceSelection

CONSTANTS
    Iface,       \* interfaces
    TypeOf,      \* their type according to the adapter metadata
    MayReset,    \* those whose counters may start again at 0
    MayVanish,   \* those that may disappear from the system's lists
    Overrides,   \* the overrides the user may set for each
    MaxCount,    \* bound: how far each counter goes
    MaxMoved     \* bound: traffic of each between two readings

Direction == {"rx", "tx"}
Metric == Direction \cup {"combined"}
Bytes == [Direction -> Nat]

\* A local address that belongs to no interface.
Elsewhere == "elsewhere"

ASSUME TrafficAssumption ==
    /\ IsFiniteSet(Iface) /\ Elsewhere \notin Iface
    /\ TypeOf \in [Iface -> Type]
    /\ MayReset \subseteq Iface /\ MayVanish \subseteq Iface
    /\ Overrides \in [Iface -> SUBSET BOOLEAN]
    /\ MaxCount \in [Iface -> Bytes] /\ MaxMoved \in [Iface -> Bytes]

VARIABLES
    count,       \* Windows: the cumulative counters
    listed,      \* Windows: the interfaces that are listed
    overrides,   \* InterfaceSelectionManager._overrides
    previous,    \* CounterMonitor._previous
    at,          \* what the tick does next
    found,       \* the tick's interfaces and their types
    enabled,     \* enabled_names
    rates,       \* rates: of each, its delta and whether it is the first
    shares, typeShares,  \* distribution, type_distribution
    connections, \* connections: the interface each is attributed to
    written,     \* what the tick has written to the history
    moved,       \* history: traffic since the counters were last read
    reset,       \* history: interfaces whose counters have restarted since
    lastRead,    \* history: the interfaces in this worker's last reading
    span         \* history: moved, reset and lastRead when the tick began

osVars == <<count, listed>>
tickVars == <<found, enabled, rates, shares, typeShares, connections, written, span>>
workerVars == <<previous, at, tickVars>>
ghostVars == <<moved, reset, lastRead>>
vars == <<osVars, overrides, workerVars, ghostVars>>

Empty == [x \in {} |-> x]
Zero == [d \in Direction |-> 0]
NoSpan == [moved |-> [i \in Iface |-> Zero], reset |-> {}, lastRead |-> {}]

\* Between ticks nothing of the last one is left.
TickVarsCleared ==
    /\ found' = Empty /\ enabled' = {} /\ rates' = Empty
    /\ shares' = Empty /\ typeShares' = Empty /\ connections' = Empty
    /\ written' = Empty /\ span' = NoSpan

Init ==
    /\ count = [i \in Iface |-> Zero] /\ listed = Iface
    /\ overrides = Empty
    /\ previous = Empty /\ at = "discover"
    /\ found = Empty /\ enabled = {} /\ rates = Empty
    /\ shares = Empty /\ typeShares = Empty /\ connections = Empty
    /\ written = Empty /\ span = NoSpan
    /\ moved = [i \in Iface |-> Zero] /\ reset = {} /\ lastRead = {}

-----------------------------------------------------------------------------
(* Windows and the user. *)

Transfer(i, d) ==
    /\ count[i][d] < MaxCount[i][d] /\ moved[i][d] < MaxMoved[i][d]
    /\ count' = [count EXCEPT ![i][d] = @ + 1]
    /\ moved' = [moved EXCEPT ![i][d] = @ + 1]
    /\ UNCHANGED <<listed, overrides, workerVars, reset, lastRead>>

\* The adapter is reset or its driver reloaded.
Restart(i) ==
    /\ i \in MayReset
    /\ count' = [count EXCEPT ![i] = Zero]
    /\ reset' = reset \cup {i}
    /\ UNCHANGED <<listed, overrides, workerVars, moved, lastRead>>

\* An interface disappears from the lists or is listed again; its counters
\* go on.
Relist(i) ==
    /\ i \in MayVanish
    /\ listed' = IF i \in listed THEN listed \ {i} ELSE listed \cup {i}
    /\ UNCHANGED <<count, overrides, workerVars, ghostVars>>

\* set_override().
Choose(i) ==
    /\ \E choice \in Overrides[i] : overrides' = Chosen(overrides, i, choice)
    /\ UNCHANGED <<osVars, workerVars, ghostVars>>

-----------------------------------------------------------------------------
(* The tick. *)

\* Discover, and resolve the selection for this tick.  Without the metadata
\* every interface is of type other.
Discover(classified) ==
    /\ at = "discover" /\ at' = "count"
    /\ found' = [i \in listed |-> IF classified THEN TypeOf[i] ELSE "other"]
    /\ enabled' = EnabledIn(found', overrides)
    /\ UNCHANGED <<osVars, overrides, previous, rates, shares, typeShares, connections, written,
                   span, ghostVars>>

\* read_counter_samples(), which finds nothing if psutil fails.
Samples(works) == [i \in IF works THEN listed ELSE {} |-> count[i]]

\* Mutant: a counter that has gone backwards gives a negative delta.
DeltaSigned(current, before) == current - before

\* _delta(): a counter that has gone backwards has started again at 0.
Delta(current, before) == IF current >= before THEN current - before ELSE current

\* CounterMonitor.update(): a delta for every sample that has a predecessor.
Deltas(samples) ==
    [i \in DOMAIN samples |->
        [first |-> i \notin DOMAIN previous,
         bytes |-> [d \in Direction |->
            IF i \in DOMAIN previous THEN Delta(samples[i][d], previous[i][d]) ELSE 0]]]

\* Mutant: the baseline of a vanished interface is kept.
BaselineOfAll(samples) ==
    [i \in DOMAIN samples \cup DOMAIN previous |->
        IF i \in DOMAIN samples THEN samples[i] ELSE previous[i]]

\* Mutant: only enabled interfaces have a baseline.
BaselineOfEnabled(samples) == [i \in DOMAIN samples \cap enabled |-> samples[i]]

\* The samples are the next baseline; what has vanished has none.
Baseline(samples) == samples

\* Mutant: the selection is looked up again.
OfEnabledNow(f) == [i \in DOMAIN f \cap EnabledIn(found, overrides) |-> f[i]]

\* The part that belongs to enabled interfaces.
OfEnabled(f) == [i \in DOMAIN f \cap enabled |-> f[i]]

Amount(rate, m) ==
    IF m = "combined" THEN rate.bytes["rx"] + rate.bytes["tx"] ELSE rate.bytes[m]

\* A part of a total, which is 0 of 1 if there is no total.
Share(part, total) ==
    IF total > 0 THEN [part |-> part, of |-> total] ELSE [part |-> 0, of |-> 1]

AmountOf(r, S, m) == SumOf([i \in S |-> Amount(r[i], m)])

\* compute_distribution().
Distribution(r) ==
    [i \in DOMAIN r |->
        [m \in Metric |-> Share(Amount(r[i], m), AmountOf(r, DOMAIN r, m))]]

TypeIn(i) == IF i \in enabled THEN found[i] ELSE "unknown"

\* Mutant: a type's share is that of its last interface.
DistributionByTypeOfOne(r) ==
    [t \in {TypeIn(i) : i \in DOMAIN r} |->
        [m \in Metric |->
            Share(Amount(r[CHOOSE i \in DOMAIN r : TypeIn(i) = t], m), AmountOf(r, DOMAIN r, m))]]

\* compute_distribution_by_type(), over the enabled interfaces.
DistributionByType(r) ==
    [t \in {TypeIn(i) : i \in DOMAIN r} |->
        [m \in Metric |->
            Share(AmountOf(r, {i \in DOMAIN r : TypeIn(i) = t}, m), AmountOf(r, DOMAIN r, m))]]

\* list_connections(), one connection per local address: attributed to the
\* interface that has the address if discovery has found it.  The empty list
\* when access is denied is left out.
Attributed == [a \in Iface \cup {Elsewhere} |-> IF a \in DOMAIN found THEN a ELSE Elsewhere]

\* filter_connections_for_display().
Displayed(c) == [a \in {b \in DOMAIN c : c[b] \in enabled \cup {Elsewhere}} |-> c[a]]

\* Read the counters; keep and divide up what belongs to enabled interfaces.
Count(works) ==
    /\ at = "count" /\ at' = "record"
    /\ previous' = Baseline(Samples(works))
    /\ rates' = OfEnabled(Deltas(Samples(works)))
    /\ shares' = Distribution(rates')
    /\ typeShares' = DistributionByType(rates')
    /\ connections' = Displayed(Attributed)
    /\ span' = [moved |-> moved, reset |-> reset, lastRead |-> lastRead]
    /\ moved' = [i \in Iface |-> Zero] /\ reset' = {}
    /\ lastRead' = DOMAIN Samples(works)
    /\ UNCHANGED <<osVars, overrides, found, enabled, written>>

\* history_store.add_many(): a record of each rate that is not a first one.
Record ==
    /\ at = "record" /\ at' = "emit"
    /\ written' = [i \in {j \in DOMAIN rates : ~rates[j].first} |-> rates[i].bytes]
    /\ UNCHANGED <<osVars, overrides, previous, found, enabled, rates, shares, typeShares,
                   connections, span, ghostVars>>

\* The tick ends: its snapshot has been emitted, or run() has caught what it
\* raised.
EndTick ==
    /\ at \in {"count", "record", "emit"} /\ at' = "discover"
    /\ TickVarsCleared
    /\ UNCHANGED <<osVars, overrides, previous, ghostVars>>

\* Stop and Start: a new worker has a new CounterMonitor.
NewWorker ==
    /\ at = "discover"
    /\ previous' = Empty /\ lastRead' = {}
    /\ UNCHANGED <<osVars, overrides, at, tickVars, moved, reset>>

-----------------------------------------------------------------------------
Next ==
    \/ \E i \in Iface : Restart(i) \/ Relist(i) \/ Choose(i)
    \/ \E i \in Iface, d \in Direction : Transfer(i, d)
    \/ \E classified \in BOOLEAN : Discover(classified)
    \/ \E works \in BOOLEAN : Count(works)
    \/ Record \/ EndTick \/ NewWorker

Spec == Init /\ [][Next]_vars

-----------------------------------------------------------------------------
(* Properties. *)

Rate == [first : BOOLEAN, bytes : Bytes]

\* Every variable holds a value of its kind.
TypeOK ==
    /\ count \in [Iface -> Bytes] /\ listed \subseteq Iface
    /\ DOMAIN overrides \subseteq Iface /\ \A i \in DOMAIN overrides : overrides[i] \in BOOLEAN
    /\ DOMAIN previous \subseteq Iface /\ \A i \in DOMAIN previous : previous[i] \in Bytes
    /\ at \in {"discover", "count", "record", "emit"}
    /\ DOMAIN found \subseteq Iface /\ \A i \in DOMAIN found : found[i] \in Type
    /\ enabled \subseteq DOMAIN found
    /\ DOMAIN rates \subseteq Iface /\ \A i \in DOMAIN rates : rates[i] \in Rate
    /\ DOMAIN written \subseteq Iface /\ \A i \in DOMAIN written : written[i] \in Bytes
    /\ moved \in [Iface -> Bytes] /\ reset \subseteq Iface /\ lastRead \subseteq Iface
    /\ span \in [moved : [Iface -> Bytes], reset : SUBSET Iface, lastRead : SUBSET Iface]

\* A record never tells of more traffic than there has been since the reading
\* before: there is no spike after an interface was deselected, hidden or
\* reset, or after a failure.  Unless the counters restarted it tells of
\* exactly that (counters.py 7-12, 133-135; README.md 728-730).
RecordsAreTrue ==
    \A i \in DOMAIN written, d \in Direction :
        /\ written[i][d] <= span.moved[i][d]
        /\ i \notin span.reset => written[i][d] = span.moved[i][d]

\* Nothing is left out either: an interface that is enabled, and that was in
\* this reading and in the one before, has its record, although it may have
\* been deselected then (worker.py 302-306).
NothingMissed ==
    at = "emit" => enabled \cap lastRead \cap span.lastRead \subseteq DOMAIN written

\* All of a snapshot belongs to one selection, the one in its enabled_map,
\* whatever the user or Windows did during the tick (worker.py 284-290,
\* 310-322).  A deselected interface shows through nowhere, unless its
\* addresses were not among those found.
OneSelection ==
    /\ DOMAIN rates \cup DOMAIN shares \cup DOMAIN written \subseteq enabled
    /\ {found[i] : i \in DOMAIN rates} = DOMAIN typeShares
    /\ \A a \in DOMAIN connections : a \in DOMAIN found => a \in enabled

AddsUp(s, m) ==
    \/ \A k \in DOMAIN s : s[k][m].part = 0
    \/ \A k \in DOMAIN s : s[k][m].of = SumOf([j \in DOMAIN s |-> s[j][m].part])

\* The shares of the interfaces add up to all or, without traffic, to
\* nothing, and each type has the share of its interfaces (distribution.py
\* 1-7, 42-54).
SharesAddUp ==
    \A m \in Metric :
        /\ AddsUp(shares, m) /\ AddsUp(typeShares, m)
        /\ \A t \in DOMAIN typeShares :
               LET ofType == {i \in DOMAIN shares : found[i] = t}
               IN  typeShares[t][m].part = SumOf([i \in ofType |-> shares[i][m].part])
=============================================================================
