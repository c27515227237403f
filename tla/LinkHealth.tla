------------------------------ MODULE LinkHealth ------------------------------
(***************************************************************************)
(* Which interfaces are monitored and what is known of them: the user's    *)
(* selection (monitoring/selection.py), the probing thread                 *)
(* (networking/probing.py, LinkProber) and the worker's tick that hands    *)
(* health to steering (gui/worker.py).                                     *)
(*                                                                         *)
(* Three threads share three things.  The GUI writes the overrides, the    *)
(* worker reads them and leaves the list of enabled interfaces for the     *)
(* prober, and the prober leaves results for the worker.  The prober reads *)
(* the list once per round and then probes its targets one after another,  *)
(* for seconds each, whatever becomes of the interfaces meanwhile.         *)
(***************************************************************************)
EXTENDS Scoring, SequencesExt, InterfaceSelection

CONSTANTS
    NIface,      \* interfaces are numbered in discovery order
    Physical,    \* interfaces Windows reports as Ethernet or Wi-Fi
    TargetOrder, \* the gateway, then the ICMP, then the HTTPS targets
    Links,       \* the states each interface's link may be in
    Overrides,   \* the overrides the user may set for each interface
    Answers,     \* what a probe of each target may find on a working link
    MayFail,     \* the targets whose ping.exe may fail to run
    MayRaise     \* the targets whose probe may end in an exception: an HTTPS
                 \* target with an invalid port, for one, does so every time

Iface == 1..NIface
Target == {TargetOrder[k] : k \in 1..Len(TargetOrder)}

\* gone: not listed; bare: no IPv4 address; local: no gateway.
LinkState == {"gone", "bare", "local", "routed"}

\* What a probe finds when there is no reply, and when ping.exe does not run
\* or does not end in time.
NoReply == [reach |-> "no", loss |-> <<100, 1>>, rtt |-> NotMeasured, jitter |-> NotMeasured]
NotSent == [reach |-> "unknown", loss |-> <<100, 1>>, rtt |-> NotMeasured, jitter |-> NotMeasured]

ASSUME HealthAssumption ==
    /\ NIface \in Nat /\ TargetOrder \in Seq(Target)
    /\ Physical \subseteq Iface
    /\ Kind \in [Target -> {"gateway", "icmp", "https"}]
    /\ \E t \in Target : Kind[t] = "icmp"     \* parse_icmp_targets()
    /\ Links \in [Iface -> SUBSET LinkState]
    /\ Overrides \in [Iface -> SUBSET BOOLEAN]
    /\ Answers \in [Target -> SUBSET ProbeResult]
    /\ MayFail \subseteq {t \in Target : Kind[t] # "https"}
    /\ MayRaise \subseteq Target

VARIABLES
    link,        \* Windows: the state of each link
    overrides,   \* InterfaceSelectionManager._overrides
    worker,      \* "discover" or "score": what the worker's tick does next
    enabled,     \* _latest_interfaces: enabled interfaces and their links
    prober,      \* "asleep" or "probing"
    batch,       \* the interfaces on the list when the prober's round began
    todo,        \* the probes of this round still to be made
    results      \* LinkProber._results

proberVars == <<prober, batch, todo>>
vars == <<link, overrides, worker, enabled, proberVars, results>>

Empty == [x \in {} |-> x]

Init ==
    /\ link \in {l \in [Iface -> LinkState] : \A i \in Iface : l[i] \in Links[i]}
    /\ overrides = Empty
    /\ worker = "discover" /\ enabled = Empty
    /\ prober = "asleep" /\ batch = {} /\ todo = <<>>
    /\ results = Empty

-----------------------------------------------------------------------------
(* The user. *)

\* set_override(); deselect_all() and select_physical_defaults() are several
\* of these under one lock.
Choose(i) ==
    /\ \E choice \in Overrides[i] : overrides' = Chosen(overrides, i, choice)
    /\ UNCHANGED <<link, worker, enabled, proberVars, results>>

-----------------------------------------------------------------------------
(* The worker. *)

\* resolve_enabled_map(): an override, or else enabled if classified physical.
IsEnabled(i, classified) ==
    IF i \in DOMAIN overrides THEN overrides[i] ELSE i \in Physical /\ classified

\* Mutant: the prober is given every interface.
EnabledListAll(classified) ==
    [i \in {j \in Iface : link[j] # "gone"} |-> link[i]]

\* The enabled interfaces that are listed.  Without adapter metadata nothing
\* is classified and no gateway is known.
EnabledList(classified) ==
    [i \in {j \in Iface : link[j] # "gone" /\ IsEnabled(j, classified)} |->
        IF link[i] = "routed" /\ ~classified THEN "local" ELSE link[i]]

\* _tick(), first half: discover, resolve, publish the list for the prober.
Discover(classified) ==
    /\ worker = "discover" /\ worker' = "score"
    /\ enabled' = EnabledList(classified)
    /\ UNCHANGED <<link, overrides, proberVars, results>>

\* The health steering is handed if the results are read now: that of every
\* enabled interface that has a result.
Scores == [i \in DOMAIN enabled \cap DOMAIN results |-> HealthOf(results[i])]

\* _tick(), second half: read the results and act on Scores.
Score ==
    /\ worker = "score" /\ worker' = "discover"
    /\ UNCHANGED <<link, overrides, enabled, proberVars, results>>

\* Stop and Start: a new worker with a new prober; the overrides stay.
Restart ==
    /\ worker' = "discover" /\ enabled' = Empty
    /\ prober' = "asleep" /\ batch' = {} /\ todo' = <<>>
    /\ results' = Empty
    /\ UNCHANGED <<link, overrides>>

-----------------------------------------------------------------------------
(* The prober. *)

\* Whether a target is probed: the gateway only if there is one.
Due(t, state) == state \in IF Kind[t] = "gateway" THEN {"routed"} ELSE {"local", "routed"}

Jobs(i, state) ==
    FlattenSeq([k \in 1..Len(TargetOrder) |->
        IF Due(TargetOrder[k], state) THEN << <<i, TargetOrder[k]>> >> ELSE << >>])

\* The probes of a round, in order; an interface without an IPv4 address is
\* skipped.
Round(list) ==
    FlattenSeq([i \in Iface |-> IF i \in DOMAIN list THEN Jobs(i, list[i]) ELSE <<>>])

\* Mutant: results of interfaces that are no longer listed stay.
PrunedNever(r, list) == r

Pruned(r, list) == [i \in DOMAIN r \cap DOMAIN list |-> r[i]]

\* _tick(): read the list, drop the results of everything not on it.
BeginRound ==
    /\ prober = "asleep" /\ prober' = "probing"
    /\ batch' = DOMAIN enabled
    /\ todo' = Round(enabled)
    /\ results' = Pruned(results, enabled)
    /\ UNCHANGED <<link, overrides, worker, enabled>>

Found(i, t) ==
    {NoReply} \cup (IF t \in MayFail THEN {NotSent} ELSE {})
      \cup (IF link[i] \in {"local", "routed"} THEN Answers[t] ELSE {})

Stored(i, t, found) ==
    LET known == IF i \in DOMAIN results THEN results[i] ELSE Empty
    IN  With(results, [j \in {i} |-> With(known, [u \in {t} |-> found])])

\* Mutant: an exception ends the round.
ProbeEndsRound ==
    /\ prober = "probing" /\ todo # <<>>
    /\ LET i == Head(todo)[1]
           t == Head(todo)[2]
       IN  \/ /\ \E found \in Found(i, t) : results' = Stored(i, t, found)
              /\ todo' = Tail(todo)
           \/ t \in MayRaise /\ todo' = <<>> /\ UNCHANGED results
    /\ UNCHANGED <<link, overrides, worker, enabled, prober, batch>>

\* One probe ends and its result is stored, whether its interface is still on
\* the list or not; a probe that raises is logged and stores nothing.
Probe ==
    /\ prober = "probing" /\ todo # <<>>
    /\ LET i == Head(todo)[1]
           t == Head(todo)[2]
       IN  \/ \E found \in Found(i, t) : results' = Stored(i, t, found)
           \/ t \in MayRaise /\ UNCHANGED results
    /\ todo' = Tail(todo)
    /\ UNCHANGED <<link, overrides, worker, enabled, prober, batch>>

EndRound ==
    /\ prober = "probing" /\ todo = <<>>
    /\ prober' = "asleep"
    /\ UNCHANGED <<link, overrides, worker, enabled, batch, todo, results>>

-----------------------------------------------------------------------------
LinkChange(i) ==
    /\ \E state \in Links[i] \ {link[i]} : link' = [link EXCEPT ![i] = state]
    /\ UNCHANGED <<overrides, worker, enabled, proberVars, results>>

WorkerStep == (\E classified \in BOOLEAN : Discover(classified)) \/ Score
ProberStep == BeginRound \/ Probe \/ EndRound

Next ==
    \/ WorkerStep \/ ProberStep \/ Restart
    \/ \E i \in Iface : Choose(i) \/ LinkChange(i)

Spec == Init /\ [][Next]_vars

\* Both threads keep running: every query and every probe has a timeout.
FairSpec == Spec /\ WF_vars(WorkerStep) /\ WF_vars(ProberStep)

-----------------------------------------------------------------------------
(* Properties. *)

\* Every variable holds a value of its kind.
TypeOK ==
    /\ link \in [Iface -> LinkState]
    /\ DOMAIN overrides \subseteq Iface /\ \A i \in DOMAIN overrides : overrides[i] \in BOOLEAN
    /\ worker \in {"discover", "score"} /\ prober \in {"asleep", "probing"}
    /\ batch \subseteq Iface /\ DOMAIN enabled \subseteq Iface
    /\ \A i \in DOMAIN enabled : enabled[i] \in LinkState \ {"gone"}
    /\ \A i \in DOMAIN Scores : Scores[i] \in Health
    /\ todo \in Seq(Iface \X Target)
    /\ \A i \in DOMAIN results : i \in Iface /\ DOMAIN results[i] \subseteq Target

\* Nothing is known of an interface that was not on the list when the
\* current round began: a vanished interface does not linger longer
\* (probing.py 447-450).
NoGhosts == DOMAIN results \subseteq batch

\* An interface none of whose Internet targets answers is never taken for
\* reachable, whatever its gateway says (aggregation.py 40-44), and one
\* target that answers is enough to be reachable (11-15).
InternetDecides ==
    \A i \in DOMAIN results : Internet(results[i]) # {} =>
        (HealthOf(results[i]).reachable = "yes" <=> Reached(results[i]) # {})

\* Losing one endpoint while another still answers does not change what the
\* others say: the score is that of the endpoints that answer (aggregation.py
\* 23-26).
OutageIsHarmless ==
    \A i \in DOMAIN results : Reached(results[i]) # {} =>
        HealthOf(results[i]) =
        HealthOf([t \in Reached(results[i]) |-> results[i][t]])

\* Once the user has deselected an interface for good, its results disappear
\* for good, although a round in progress may still store some.
DeselectedFades ==
    \A i \in Iface :
        <>[](i \in DOMAIN overrides /\ ~overrides[i]) => <>[](i \notin DOMAIN results)

\* An interface that the user has enabled and that keeps its address has in
\* the end a result for every Internet target whose probe does not raise,
\* whatever happens to the other interfaces, to the other targets and to the
\* adapter metadata (probing.py 480-498).
EnabledIsMeasured ==
    \A i \in Iface :
        /\ <>[](i \in DOMAIN overrides /\ overrides[i] /\ link[i] \in {"local", "routed"})
        /\ <>[][~Restart]_vars
        => \A t \in {u \in Target : Kind[u] # "gateway"} \ MayRaise :
               <>[](i \in DOMAIN results /\ t \in DOMAIN results[i])
=============================================================================
