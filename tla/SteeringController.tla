------------------------- MODULE SteeringController -------------------------
(***************************************************************************)
(* One automatic-steering session: steering/controller.py driven by the    *)
(* tick of gui/worker.py, on top of the IPv4 metrics Windows keeps.        *)
(*                                                                         *)
(* A tick is a sequence of PowerShell commands of up to eight seconds each *)
(* so it is split at every command: links and automatic metrics may change *)
(* between two of them, and each command may fail in the ways Faults       *)
(* allows.  Windows prefers the default route with the lowest effective    *)
(* metric, RouteMetric + InterfaceMetric.                                  *)
(***************************************************************************)
EXTENDS SteeringPolicy, FiniteSets

CONSTANTS
    Physical,     \* interfaces classified Ethernet or Wi-Fi
    Original,     \* the user's metric setting of each interface
    RouteMetric,  \* the RouteMetric of each interface's default route
    AutoMetrics,  \* the metrics Windows may compute for each interface
    Links,        \* the link states each interface may be in
    HealthMaps,   \* the scores a tick may compute, per interface
    Selections,   \* the sets of interfaces the user may have enabled
    Faults,       \* what may go wrong, a subset of FaultKind
    MaxMoves      \* bound: link and metric changes within one tick

Automatic == -1   \* AutomaticMetric Enabled
Unsaved == -2     \* no entry in _saved_settings
Setting == {Automatic} \cup Nat

LinkState == {"absent", "down", "up", "routed"}

FaultKind ==
    {"read",      \* a query times out or returns nothing
     "apply",     \* Set-NetIPInterface is refused when a target is pinned
     "restore",   \* Set-NetIPInterface is refused when a setting is restored
     "timeout",   \* Set-NetIPInterface takes effect but is reported failed
     "crash"}     \* the process dies

ASSUME ControllerAssumption ==
    /\ Physical \subseteq Iface
    /\ Original \in [Iface -> Setting]
    /\ RouteMetric \in [Iface -> Nat]
    /\ AutoMetrics \in [Iface -> SUBSET Nat]
    /\ Links \in [Iface -> SUBSET LinkState]
    /\ HealthMaps \subseteq [Iface -> HealthValue]
    /\ Selections \subseteq SUBSET Iface
    /\ Faults \subseteq FaultKind
    /\ MaxMoves \in Nat

VARIABLES
    link, auto, setting,     \* Windows: link state, automatic metric, setting
    elevated,                \* the process runs as Administrator
    enabled, saved, policy, phase,  \* SteeringController's fields
    shown, restored, error,  \* SteeringStatus: enabled, restored, last_error
    pc,                      \* the command the tick is about to issue
    seen, active, selected,  \* what the worker read when the tick began
    target, original, plan,  \* _perform_switch: its locals
    age,                     \* clock units since the tick read its time
    moves,                   \* bound: changes under this tick so far
    lost                     \* history: interfaces left changed with their
                             \* original setting no longer on record

osVars == <<link, auto, elevated>>
ctlVars == <<enabled, policy, phase>>
statusVars == <<shown, restored, error>>
readVars == <<seen, active, selected>>
switchVars == <<target, original, plan>>
vars == <<osVars, setting, ctlVars, saved, statusVars, pc, readVars,
          switchVars, age, moves, lost>>

Step == {"idle", "decide", "recheck", "failback", "read", "plan", "apply",
         "verify", "rollback", "stopped"}

-----------------------------------------------------------------------------
(* Windows. *)

InterfaceMetric(i) == IF setting[i] = Automatic THEN auto[i] ELSE setting[i]

Effective(i) == RouteMetric[i] + InterfaceMetric(i)

Routed == {i \in Iface : link[i] = "routed"}

\* The lowest metric wins; of equals, the first that Get-NetRoute happens to
\* list.
Cheapest(metric) == {i \in Routed : \A j \in Routed : metric[i] <= metric[j]}

Preferred == Cheapest([i \in Iface |-> Effective(i)])

\* What get_preferred_ipv4_interface_name() may return.  Without an answer to
\* its second query every interface metric counts as 0.
PreferredReads ==
    (IF Preferred = {} THEN {None} ELSE Preferred)
      \cup (IF "read" \in Faults THEN {None} \cup Cheapest(RouteMetric) ELSE {})

\* What discover_interfaces() may return: without adapter metadata nothing is
\* classified, so nothing is a physical interface that is up; without the
\* gateways nothing has one.
Sightings ==
    {link} \cup
    (IF "read" \in Faults
     THEN {[i \in Iface |-> IF link[i] = "absent" THEN "absent" ELSE "down"],
           [i \in Iface |-> IF link[i] = "routed" THEN "up" ELSE link[i]]}
     ELSE {})

\* The interfaces for which the look at the default route may return nothing
\* although there is one; only physical ones can become candidates.
Unread == IF "read" \in Faults THEN SUBSET (Routed \cap Physical) ELSE {{}}

\* What a query may return: the truth, or nothing.
Readable == IF "read" \in Faults THEN {TRUE, FALSE} ELSE {TRUE}

\* _run_mutating_command(): does it report success, and did it take effect?
Outcome == [ok : BOOLEAN, done : BOOLEAN]

Outcomes(kind, i) ==
    {o \in Outcome :
        \/ o.ok /\ o.done /\ link[i] # "absent"
        \/ ~o.ok /\ ~o.done /\ (link[i] = "absent" \/ kind \in Faults)
        \/ ~o.ok /\ o.done /\ link[i] # "absent" /\ "timeout" \in Faults}

Written(i, value, o) == IF o.done THEN [setting EXCEPT ![i] = value] ELSE setting

-----------------------------------------------------------------------------
(* The controller. *)

SavedSet == {i \in Iface : saved[i] # Unsaved}

Nothing == [i \in Iface |-> Unsaved]

Up(i) == seen[i] \in {"up", "routed"}

\* The locals of a tick that is over.
NoTick ==
    /\ seen' = [i \in Iface |-> "down"] /\ active' = None /\ selected' = {}
    /\ target' = None /\ original' = Automatic /\ plan' = 0
    /\ age' = 0 /\ moves' = 0

Init ==
    /\ link \in {l \in [Iface -> LinkState] : \A i \in Iface : l[i] \in Links[i]}
    /\ auto \in {a \in [Iface -> UNION {AutoMetrics[i] : i \in Iface}] :
                    \A i \in Iface : a[i] \in AutoMetrics[i]}
    /\ setting = Original
    /\ elevated \in BOOLEAN
    /\ enabled = FALSE /\ saved = Nothing /\ policy = FreshPolicy /\ phase = "none"
    /\ shown = FALSE /\ restored = TRUE /\ error = FALSE
    /\ pc = "idle"
    /\ seen = [i \in Iface |-> "down"] /\ active = None /\ selected = {}
    /\ target = None /\ original = Automatic /\ plan = 0
    /\ age = 0 /\ moves = 0
    /\ lost = {}

\* Mutant: enabling ignores a setting that is still saved.
EnableOverLeftover ==
    /\ pc = "idle"
    /\ \/ /\ elevated
          /\ enabled' = TRUE /\ policy' = FreshPolicy /\ phase' = "none"
          /\ shown' = TRUE /\ restored' = TRUE /\ error' = FALSE
       \/ /\ ~elevated
          /\ shown' = FALSE /\ restored' = TRUE /\ error' = TRUE
          /\ UNCHANGED ctlVars
    /\ UNCHANGED <<osVars, setting, saved, pc, readVars, switchVars, age, moves, lost>>

\* enable(): refused without elevation, and refused while a setting is still
\* saved; a refusal replaces the status and nothing else.
Enable ==
    /\ pc = "idle"
    /\ \/ /\ elevated /\ SavedSet = {}
          /\ enabled' = TRUE /\ policy' = FreshPolicy /\ phase' = "none"
          /\ shown' = TRUE /\ restored' = TRUE /\ error' = FALSE
       \/ /\ elevated /\ SavedSet # {}
          /\ shown' = FALSE /\ restored' = FALSE /\ error' = TRUE
          /\ UNCHANGED ctlVars
       \/ /\ ~elevated
          /\ shown' = FALSE /\ restored' = TRUE /\ error' = TRUE
          /\ UNCHANGED ctlVars
    /\ UNCHANGED <<osVars, setting, saved, pc, readVars, switchVars, age, moves, lost>>

\* Mutant: settings are forgotten whether or not they could be restored.
RestoreAllForgets(out) ==
    /\ \A i \in SavedSet : out[i] \in Outcomes("restore", i)
    /\ setting' = [i \in Iface |-> IF i \in SavedSet /\ out[i].done
                                   THEN saved[i] ELSE setting[i]]
    /\ saved' = Nothing

\* _restore_all(): every saved setting is written back; those whose command
\* fails stay saved.
RestoreAll(out) ==
    /\ \A i \in SavedSet : out[i] \in Outcomes("restore", i)
    /\ setting' = [i \in Iface |-> IF i \in SavedSet /\ out[i].done
                                   THEN saved[i] ELSE setting[i]]
    /\ saved' = [i \in Iface |-> IF i \in SavedSet /\ ~out[i].ok
                                 THEN saved[i] ELSE Unsaved]

\* disable(), called by a request or when the worker's run() ends.
Disable ==
    /\ pc = "idle"
    /\ enabled \/ SavedSet # {}
    /\ \E out \in [SavedSet -> Outcome] : RestoreAll(out)
    /\ enabled' = FALSE /\ policy' = FreshPolicy /\ phase' = "none"
    /\ shown' = FALSE
    /\ restored' = (saved' = Nothing)
    /\ error' = ~restored'
    /\ UNCHANGED <<osVars, readVars, switchVars, age, moves, lost>>

DisableRequest == Disable /\ pc' = "idle"

\* Stop: run() leaves its loop and disables in its finally block.
Stop ==
    \/ Disable /\ pc' = "stopped"
    \/ /\ pc = "idle" /\ ~enabled /\ SavedSet = {}
       /\ pc' = "stopped"
       /\ UNCHANGED <<osVars, setting, ctlVars, saved, statusVars, readVars,
                      switchVars, age, moves, lost>>

\* A controller that has just been constructed.
Constructed ==
    /\ enabled' = FALSE /\ saved' = Nothing /\ policy' = FreshPolicy /\ phase' = "none"
    /\ shown' = FALSE /\ restored' = TRUE /\ error' = FALSE
    /\ pc' = "idle"
    /\ NoTick

\* Start after Stop: the new worker makes a new controller, and what the old
\* one could not restore is on no record any more.
Start ==
    /\ pc = "stopped"
    /\ Constructed
    /\ lost' = lost \cup {i \in SavedSet : setting[i] # saved[i]}
    /\ UNCHANGED <<osVars, setting>>

\* The process dies and is started again.  A Set-NetIPInterface it was waiting
\* for completes or does not: its step comes before this one or never.
Crash ==
    /\ "crash" \in Faults
    /\ Constructed
    /\ lost' = lost \cup {i \in SavedSet : setting[i] # saved[i]}
    /\ UNCHANGED <<osVars, setting>>

-----------------------------------------------------------------------------
(* The tick. *)

\* Leave the tick: the locals are dropped.
Finish == pc' = "idle" /\ NoTick

\* MonitorWorker._tick(): discover the interfaces, resolve the user's
\* selection, read the preferred path.  The controller acts on these values
\* after the worker has read counters and connections.
Observe ==
    /\ pc = "idle" /\ enabled
    /\ pc' = "decide"
    /\ seen' \in Sightings
    /\ selected' \in Selections
    /\ active' \in PreferredReads
    /\ moves' = 0
    /\ UNCHANGED <<osVars, setting, ctlVars, saved, statusVars, switchVars, age, lost>>

\* Mutant: no guard.
NeverGuarded == FALSE

\* The active path is listed and is not a physical interface that is up.
GuardApplies ==
    active # None /\ seen[active] # "absent" /\ ~(active \in Physical /\ Up(active))

\* The no-bypass guard: the tick ends without asking the policy.
Guarded ==
    /\ pc = "decide" /\ GuardApplies
    /\ phase' = "active_path_not_eligible_skip"
    /\ Finish
    /\ UNCHANGED <<osVars, setting, enabled, policy, saved, statusVars, lost>>

\* Mutant: any adapter that is up may become the target.
CandidatesOfAnyType(health, unread) ==
    [i \in {j \in selected : seen[j] # "absent"} |->
        [score |-> health[i].score, reachable |-> health[i].reachable,
         eligible |-> Up(i), route |-> seen[i] = "routed" /\ link[i] = "routed" /\ i \notin unread]]

\* The candidates: every listed, selected interface, with the scores of this
\* tick, the gateway it was discovered with and a fresh look at its route.
CandidatesOf(health, unread) ==
    [i \in {j \in selected : seen[j] # "absent"} |->
        [score |-> health[i].score, reachable |-> health[i].reachable,
         eligible |-> i \in Physical /\ Up(i),
         route |-> seen[i] = "routed" /\ link[i] = "routed" /\ i \notin unread]]

Decision(d) ==
    /\ policy' = d.policy /\ phase' = PhaseOf(d)
    /\ \/ d.target = None /\ Finish
       \/ /\ d.target # None
          /\ pc' = "recheck" /\ target' = d.target
          /\ UNCHANGED <<readVars, original, plan, age, moves>>

\* tick(): ask the policy, and begin a switch if it says so.
DecideStep ==
    /\ pc = "decide" /\ ~GuardApplies
    /\ \E health \in HealthMaps, unread \in Unread, best \in Iface \cup {None} :
        LET cands == CandidatesOf(health, unread)
        IN  /\ IsBest(best, active, cands)
            /\ Decision(Decide(policy, best, active, cands))
    /\ UNCHANGED <<osVars, setting, enabled, saved, statusVars, lost>>

\* Every abort of _perform_switch() sets last_error and ends the tick; the
\* policy is not told.
Abort ==
    /\ error' = TRUE
    /\ Finish
    /\ UNCHANGED <<ctlVars, shown>>

Others == SavedSet \ {target}

\* Mutant: the previous target stays pinned and stays on record.
RecheckKeepsPrevious ==
    /\ pc = "recheck"
    /\ \/ /\ link[target] # "routed" \/ FALSE \in Readable
          /\ Abort /\ UNCHANGED restored
       \/ /\ link[target] = "routed"
          /\ pc' = "read" /\ restored' = TRUE
          /\ UNCHANGED <<ctlVars, shown, error, readVars, switchVars, age, moves>>
    /\ UNCHANGED <<osVars, setting, saved, lost>>

\* The target's default route is looked up again.
Recheck ==
    /\ pc = "recheck"
    /\ \/ /\ link[target] # "routed" \/ FALSE \in Readable
          /\ Abort /\ UNCHANGED restored
       \/ /\ link[target] = "routed"
          /\ pc' = IF Others = {} THEN "read" ELSE "failback"
          /\ restored' = IF Others = {} THEN TRUE ELSE restored
          /\ UNCHANGED <<ctlVars, shown, error, readVars, switchVars, age, moves>>
    /\ UNCHANGED <<osVars, setting, saved, lost>>

\* Mutant: a previous target that cannot be restored is left behind.
FailbackGoesOn(j, o) ==
    /\ setting' = Written(j, saved[j], o)
    /\ saved' = [saved EXCEPT ![j] = Unsaved]
    /\ pc' = IF Others = {j} THEN "read" ELSE "failback"
    /\ restored' = o.ok
    /\ UNCHANGED <<ctlVars, shown, error, readVars, switchVars, age, moves>>

\* Deterministic failback: one previous target is restored, or the switch is
\* abandoned.
FailbackOf(j, o) ==
    /\ setting' = Written(j, saved[j], o)
    /\ \/ /\ o.ok
          /\ saved' = [saved EXCEPT ![j] = Unsaved]
          /\ pc' = IF Others = {j} THEN "read" ELSE "failback"
          /\ restored' = IF Others = {j} THEN TRUE ELSE restored
          /\ UNCHANGED <<ctlVars, shown, error, readVars, switchVars, age, moves>>
       \/ ~o.ok /\ restored' = FALSE /\ Abort /\ UNCHANGED saved

Failback ==
    /\ pc = "failback"
    /\ \E j \in Others : \E o \in Outcomes("restore", j) : FailbackOf(j, o)
    /\ UNCHANGED <<osVars, lost>>

\* get_ip_setting(): the setting to restore later.
ReadOriginal ==
    /\ pc = "read"
    /\ \/ /\ link[target] = "absent" \/ FALSE \in Readable
          /\ Abort
       \/ /\ link[target] # "absent"
          /\ original' = setting[target] /\ pc' = "plan"
          /\ UNCHANGED <<ctlVars, shown, error, readVars, target, plan, age, moves>>
    /\ UNCHANGED <<osVars, setting, saved, restored, lost>>

\* Mutant: the interface that was active does not compete.
CompetitorsButActive == {i \in Routed \ {target, active} : i \in Physical /\ Up(i)}

\* The competitors: eligible physical interfaces with a default route.
Competitors == {i \in Routed \ {target} : i \in Physical /\ Up(i)}

IsLeast(least, metrics) == least \in metrics /\ \A m \in metrics : least <= m

FallbackMetric == 1

\* Mutant: level with the lowest competitor instead of below it.
TargetMetricLevel(least, routeMetric) ==
    LET m == least - routeMetric IN IF m > 1 THEN m ELSE 1

\* One below the lowest competitor, but never below 1.
TargetMetric(least, routeMetric) ==
    LET m == least - routeMetric - 1 IN IF m > 1 THEN m ELSE 1

\* _compute_target_metric(), three queries: the competitors' route metrics
\* (none are known if it fails), every interface metric (0 if it fails), the
\* target's route metric (0 if it has none or it fails).
Plan ==
    /\ pc = "plan"
    /\ \E routes \in Readable, metrics \in Readable, own \in Readable :
        LET others == {RouteMetric[i] + (IF metrics THEN InterfaceMetric(i) ELSE 0) :
                           i \in IF routes THEN Competitors ELSE {}}
            mine   == IF own /\ link[target] = "routed" THEN RouteMetric[target] ELSE 0
        IN  \/ others = {} /\ plan' = FallbackMetric
            \/ \E least \in others :
                  IsLeast(least, others) /\ plan' = TargetMetric(least, mine)
    /\ pc' = "apply"
    /\ UNCHANGED <<osVars, setting, ctlVars, saved, statusVars, readVars, target,
                   original, age, moves, lost>>

\* Mutant: the pinned metric is recorded in place of the original.
ApplyRecordsPlan ==
    /\ pc = "apply"
    /\ \E o \in Outcomes("apply", target) :
        /\ setting' = Written(target, plan, o)
        /\ \/ /\ o.ok
              /\ saved' = [saved EXCEPT ![target] = plan]
              /\ pc' = "verify"
              /\ UNCHANGED <<ctlVars, shown, error, readVars, switchVars, age, moves>>
           \/ ~o.ok /\ Abort /\ UNCHANGED saved
    /\ UNCHANGED <<osVars, restored, lost>>

\* apply_preferred_metric(): the original is remembered only when the command
\* is reported to have succeeded.  Remembering overwrites an entry the target
\* already had.
Apply ==
    /\ pc = "apply"
    /\ \E o \in Outcomes("apply", target) :
        /\ setting' = Written(target, plan, o)
        /\ \/ /\ o.ok
              /\ saved' = [saved EXCEPT ![target] = original]
              /\ lost' = IF saved[target] \in {Unsaved, original}
                         THEN lost ELSE lost \cup {target}
              /\ pc' = "verify"
              /\ UNCHANGED <<ctlVars, shown, error, readVars, switchVars, age, moves>>
           \/ /\ ~o.ok
              /\ lost' = IF o.done /\ saved[target] = Unsaved /\ plan # original
                         THEN lost \cup {target} ELSE lost
              /\ Abort /\ UNCHANGED saved
    /\ UNCHANGED <<osVars, restored>>

\* get_preferred_interface_name(): is the target preferred now?
Verify ==
    /\ pc = "verify"
    /\ \E name \in PreferredReads :
        \/ /\ name = target
           /\ policy' = RecordSwitch(policy, age)
           /\ error' = FALSE
           /\ Finish
        \/ /\ name # target
           /\ pc' = "rollback"
           /\ UNCHANGED <<policy, error, readVars, switchVars, age, moves>>
    /\ UNCHANGED <<osVars, setting, enabled, phase, saved, shown, restored, lost>>

\* Verification failed: write the original back and drop the record of it,
\* whether or not that worked.
Rollback ==
    /\ pc = "rollback"
    /\ \E o \in Outcomes("restore", target) :
        /\ setting' = Written(target, original, o)
        /\ saved' = [saved EXCEPT ![target] = Unsaved]
        /\ restored' = o.ok
        /\ lost' = IF setting'[target] = original THEN lost ELSE lost \cup {target}
    /\ Abort
    /\ UNCHANGED osVars

-----------------------------------------------------------------------------
(* The environment. *)

\* Mid-tick changes are bounded by MaxMoves.
Moving ==
    IF pc \in {"idle", "stopped"} THEN moves' = moves
    ELSE moves < MaxMoves /\ moves' = moves + 1

LinkChange(i) ==
    /\ Moving
    /\ \E state \in Links[i] \ {link[i]} : link' = [link EXCEPT ![i] = state]
    /\ UNCHANGED <<auto, elevated, setting, ctlVars, saved, statusVars, pc, readVars,
                   switchVars, age, lost>>

\* Windows recomputes an automatic metric, for example when a Wi-Fi link
\* negotiates another speed.
Remetric(i) ==
    /\ Moving
    /\ \E m \in AutoMetrics[i] \ {auto[i]} : auto' = [auto EXCEPT ![i] = m]
    /\ UNCHANGED <<link, elevated, setting, ctlVars, saved, statusVars, pc, readVars,
                   switchVars, age, lost>>

\* The clock: hold-down runs down, and a switch in progress grows older.
Elapse ==
    /\ policy.holdLeft > 0 \/ (target # None /\ age < HoldDown)
    /\ policy' = Aged(policy)
    /\ age' = IF target # None /\ age < HoldDown THEN age + 1 ELSE age
    /\ UNCHANGED <<osVars, setting, enabled, phase, saved, statusVars, pc, readVars,
                   switchVars, moves, lost>>

\* The worker's own steps, in the order a tick takes them.
TickStep ==
    \/ Observe \/ Guarded \/ DecideStep \/ Recheck \/ Failback \/ ReadOriginal
    \/ Plan \/ Apply \/ Verify \/ Rollback

Next ==
    \/ TickStep
    \/ Enable \/ DisableRequest \/ Stop \/ Start \/ Crash
    \/ Elapse
    \/ \E i \in Iface : LinkChange(i) \/ Remetric(i)

Spec == Init /\ [][Next]_vars

\* The worker loop keeps ticking while the thread runs, and time passes.
FairSpec == Spec /\ WF_vars(TickStep) /\ WF_vars(Elapse)

-----------------------------------------------------------------------------
(* Properties. *)

\* Every variable holds a value of its kind.
TypeOK ==
    /\ link \in [Iface -> LinkState]
    /\ auto \in [Iface -> Nat]
    /\ setting \in [Iface -> Setting]
    /\ elevated \in BOOLEAN
    /\ enabled \in BOOLEAN
    /\ saved \in [Iface -> Setting \cup {Unsaved}]
    /\ policy \in PolicyState
    /\ phase \in {"none", "active_path_not_eligible_skip", "hold_down",
                  "switching", "confirming", "stable"}
    /\ shown \in BOOLEAN /\ restored \in BOOLEAN /\ error \in BOOLEAN
    /\ pc \in Step
    /\ seen \in [Iface -> LinkState]
    /\ active \in Iface \cup {None}
    /\ selected \in SUBSET Iface
    /\ target \in Iface \cup {None}
    /\ original \in Setting
    /\ plan \in Nat
    /\ age \in 0..HoldDown
    /\ moves \in 0..MaxMoves
    /\ lost \in SUBSET Iface

\* _saved_settings never holds more than one entry (README, "Deterministic
\* failback"): the previous target is restored before the next is touched,
\* whatever fails on the way.
AtMostOneSaved == \A i, j \in SavedSet : i = j

\* The record is right: an interface that is not recorded has the user's
\* setting, and a recorded one has the user's setting on record.  The only
\* exceptions are the interfaces in lost, which enter it at four places: a
\* failed rollback, a pin that overwrites an older record, a pin that took
\* effect but was reported failed, and a process that ended with a record.
LedgerIsRight ==
    \A i \in Iface \ lost :
        IF saved[i] = Unsaved THEN setting[i] = Original[i]
        ELSE saved[i] = Original[i]

\* Only physical interfaces are ever written to, and nothing at all without
\* elevation (README, "What this feature never does").
OnlyPhysicalTouched ==
    \A i \in Iface : setting[i] # Original[i] \/ saved[i] # Unsaved =>
        i \in Physical /\ elevated

\* A disabled controller that reports everything restored has restored
\* everything it could still know about.
RestoredIsTrue ==
    ~enabled /\ restored => \A i \in Iface \ lost : setting[i] = Original[i]

\* The previous target is back at its original setting before a new target
\* is pinned: a step that writes to one interface while another is on record
\* or changed can only be writing the other's original back.
FailbackFirst ==
    [][\A i \in Iface :
        setting'[i] # setting[i] /\ setting'[i] # Original[i] /\ i \notin lost' =>
            \A j \in Iface \ {i} : j \in lost \/ setting[j] = Original[j]]_vars

\* A VPN that is the preferred path when a physical interface is pinned is
\* still the preferred path afterwards (controller.py 195-204).
NoBypass ==
    [][pc = "apply" /\ Preferred # {} /\ Preferred \cap Physical = {} =>
        Preferred' \ Physical # {}]_vars

\* The planned metric makes the target's effective metric lower than every
\* competitor's (docstring of _compute_target_metric).
PlanBeatsOthers ==
    [][pc = "plan" /\ pc' = "apply" =>
        \A i \in Competitors : RouteMetric[target] + plan' < Effective(i)]_vars

\* What is on record is what the user had (models/steering.py 71-72: "so
\* they can be restored exactly").
SavedIsOriginal == \A i \in SavedSet : saved[i] = Original[i]

\* disable() reports everything restored only when it is.
DisableReportsTruth ==
    [][enabled /\ ~enabled' /\ restored' =>
        \A i \in Iface : setting'[i] = Original[i]]_vars

-----------------------------------------------------------------------------
(* The abstract session this controller implements. *)

Holder == IF SavedSet = {} THEN None ELSE CHOOSE i \in SavedSet : TRUE

Session == INSTANCE SteeringSession
               WITH Holdable <- Physical, Nobody <- None, holder <- Holder

\* The controller is a steering session: it never takes a second interface,
\* takes none while disabled, and reports what it still holds.
ImplementsSession == Session!Spec
=============================================================================
