----------------------------- MODULE LinkMonitor -----------------------------
(***************************************************************************)
(* The monitoring core of the Android companion: NetworkMonitor.kt,        *)
(* MonitoringCoordinator.kt with its probe loops, and NetworkSelector.kt.  *)
(*                                                                         *)
(* Two threads.  ConnectivityManager calls NetworkMonitor on its own       *)
(* thread, one callback after another, and start() and stop() do not lock  *)
(* against these calls.  Everything else runs in viewModelScope, on the    *)
(* main thread, one task at a time; a coroutine that has been cancelled    *)
(* runs no further.  Each flow has listeners, the jobs that collect it: a  *)
(* change makes them due, and changes before they run are conflated.       *)
(***************************************************************************)
EXTENDS LinkScorer, SelectionPolicy

CONSTANTS
    Configs,     \* the probe configurations the user may choose
    NoConfig,    \* lastAppliedConfig when it is null
    States,      \* the states each network may be in
    Samples      \* what a probe of each network may find while it is there

NetState == {"none", "plain", "valid"}

ASSUME MonitorAssumption ==
    /\ NoConfig \notin Configs
    /\ States \in [Link -> SUBSET NetState]
    /\ Samples \in [Link -> SUBSET Sample]

VARIABLES
    net,         \* Android: the networks that match the two requests
    told,        \* what the registered callbacks have been told of them:
                 \* "none", or "new" after onAvailable, or the capabilities
    known, caps, \* keys of networkByLinkId; pendingCaps
    links,       \* NetworkMonitor.links
    call,        \* the callback in progress
    running,     \* coordinator.running; the same as monitor.started
    clearing,    \* what NetworkMonitor.stop() has still to clear
    config, applied,  \* _probeConfig; lastAppliedConfig
    probes,      \* probeJobs: the configuration each loop runs with
    health,      \* _health: the window of each link's aggregator
    scores,      \* _scores
    selection,   \* selector._selection
    due,         \* the jobs with a change of a flow yet to collect
    since        \* history: clock units since the selection last changed

osVars == <<net, told>>
monitorVars == <<known, caps, links, call>>
switchVars == <<running, clearing>>
configVars == <<config, applied>>
dataVars == <<probes, health, scores>>
selectVars == <<selection, since>>
coordVars == <<switchVars, configVars, dataVars, selectVars, due>>
vars == <<osVars, monitorVars, coordVars>>

Empty == [x \in {} |-> x]
Without(f, S) == [x \in DOMAIN f \ S |-> f[x]]
With(f, x, y) == [z \in DOMAIN f \cup {x} |-> IF z = x THEN y ELSE f[z]]

NoCall == [at |-> "idle", late |-> FALSE]

\* Mutant: the selector collects the scores alone.
WakingSelectLess(flow, changed) ==
    IF ~changed \/ ~running THEN {}
    ELSE CASE flow = "links"  -> {"reconcile", "score"}
           [] flow = "config" -> {"reconcile"}
           [] flow = "health" -> {"score"}
           [] flow = "scores" -> {"select"}

\* The jobs that collect a flow, if its value has changed.
Waking(flow, changed) ==
    IF ~changed \/ ~running THEN {}
    ELSE CASE flow = "links"  -> {"reconcile", "score", "select"}
           [] flow = "config" -> {"reconcile"}
           [] flow = "health" -> {"score"}
           [] flow = "scores" -> {"select"}

Init ==
    /\ net \in {n \in [Link -> NetState] : \A l \in Link : n[l] \in States[l]}
    /\ told = [l \in Link |-> "none"]
    /\ known = {} /\ caps = Empty /\ links = Empty /\ call = NoCall
    /\ running = FALSE /\ clearing = "nothing"
    /\ config \in Configs /\ applied = NoConfig
    /\ probes = Empty /\ health = Empty /\ scores = Empty
    /\ selection = NoSelection /\ since = HoldDown
    /\ due = {}

-----------------------------------------------------------------------------
(* ConnectivityManager takes a message for a registered callback ...        *)

\* One message at a time; an unregistered callback is sent no more of them.
Tell(l, state, at) ==
    /\ running /\ call = NoCall
    /\ told' = [told EXCEPT ![l] = state]
    /\ call' = [at |-> at, link |-> l, late |-> FALSE]
    /\ UNCHANGED <<net, known, caps, links, coordVars>>

TellAvailable(l) ==
    net[l] # "none" /\ told[l] = "none" /\ Tell(l, "new", "available")

\* Also for a change that no snapshot here shows.
TellChanged(l) ==
    net[l] # "none" /\ told[l] # "none" /\ Tell(l, net[l], net[l])

\* onLinkPropertiesChanged(): pendingProps are not kept here, so that it is
\* as far as refresh() at once.
TellProperties(l) ==
    net[l] # "none" /\ told[l] # "none" /\ Tell(l, told[l], "build")

TellLost(l) ==
    net[l] = "none" /\ told[l] # "none" /\ Tell(l, "none", "lost")

-----------------------------------------------------------------------------
(* ... and NetworkMonitor handles it: first the maps, then the flow, and    *)
(* nothing in it asks whether stop() has run in the meantime.               *)

\* onAvailable(), up to refresh().
OnAvailable ==
    /\ call.at = "available" /\ call' = [call EXCEPT !.at = "build"]
    /\ known' = known \cup {call.link}
    /\ UNCHANGED <<osVars, caps, links, coordVars>>

\* onCapabilitiesChanged(), up to refresh().
OnChanged ==
    /\ call.at \in {"plain", "valid"} /\ call' = [call EXCEPT !.at = "build"]
    /\ caps' = With(caps, call.link, call.at)
    /\ UNCHANGED <<osVars, known, links, coordVars>>

\* onLost(), up to its update of the flow.
OnLost ==
    /\ call.at = "lost" /\ call' = [call EXCEPT !.at = "remove"]
    /\ known' = known \ {call.link} /\ caps' = Without(caps, {call.link})
    /\ UNCHANGED <<osVars, links, coordVars>>

\* refresh(): read what is known of the network ...
Build ==
    /\ call.at = "build"
    /\ call' = [at |-> "publish", link |-> call.link, late |-> call.late,
                snapshot |-> IF call.link \in DOMAIN caps THEN caps[call.link] ELSE "bare"]
    /\ UNCHANGED <<osVars, known, caps, links, coordVars>>

\* Mutant: a link that is shown already is not updated.
PublishOnce ==
    /\ call.at = "publish" /\ call' = NoCall
    /\ links' = IF call.link \in DOMAIN links THEN links ELSE With(links, call.link, call.snapshot)
    /\ due' = due \cup Waking("links", links' # links)
    /\ UNCHANGED <<osVars, known, caps, switchVars, configVars, dataVars, selectVars>>

\* ... and put it into the flow.  A message may hold a further callback about
\* the same link, which then outlives stop() as well.
Publish ==
    /\ call.at = "publish"
    /\ \/ call' = NoCall
       \/ \E state \in {"plain", "valid"} \cap States[call.link] :
              call.late /\ call' = [at |-> state, link |-> call.link, late |-> TRUE]
    /\ links' = With(links, call.link, call.snapshot)
    /\ due' = due \cup Waking("links", TRUE)
    /\ UNCHANGED <<osVars, known, caps, switchVars, configVars, dataVars, selectVars>>

\* The end of onLost().
PublishLoss ==
    /\ call.at = "remove" /\ call' = NoCall
    /\ links' = Without(links, {call.link})
    /\ due' = due \cup Waking("links", call.link \in DOMAIN links)
    /\ UNCHANGED <<osVars, known, caps, switchVars, configVars, dataVars, selectVars>>

Callback == OnAvailable \/ OnChanged \/ OnLost \/ Build \/ Publish \/ PublishLoss

-----------------------------------------------------------------------------
(* The main thread. *)

Free == clearing = "nothing"

\* MonitoringCoordinator.start(): every job collects the present value of its
\* flows first.
Start ==
    /\ Free /\ ~running
    /\ running' = TRUE
    /\ due' = {"reconcile", "score", "select"}
    /\ UNCHANGED <<osVars, monitorVars, clearing, configVars, dataVars, selectVars>>

\* MonitoringCoordinator.stop() as far as NetworkMonitor.stop() has
\* unregistered the callbacks.
Stop ==
    /\ Free /\ running
    /\ told' = [l \in Link |-> "none"]
    /\ running' = FALSE /\ clearing' = "known"
    /\ call' = [call EXCEPT !.late = call # NoCall]
    /\ probes' = Empty /\ health' = Empty /\ scores' = Empty
    /\ applied' = NoConfig /\ due' = {}
    /\ selection' = NoSelection /\ since' = HoldDown
    /\ UNCHANGED <<net, known, caps, links, config>>

\* The rest of NetworkMonitor.stop(): networkByLinkId, pendingCaps, the flow.
ClearKnown ==
    /\ clearing = "known" /\ clearing' = "caps"
    /\ known' = {}
    /\ UNCHANGED <<osVars, caps, links, call, running, configVars, dataVars, selectVars, due>>

ClearCaps ==
    /\ clearing = "caps" /\ clearing' = "flow"
    /\ caps' = Empty
    /\ UNCHANGED <<osVars, known, links, call, running, configVars, dataVars, selectVars, due>>

\* Mutant: stop() leaves the links in the flow.
ClearFlowForgets ==
    /\ clearing = "flow" /\ clearing' = "nothing"
    /\ UNCHANGED <<osVars, monitorVars, running, configVars, dataVars, selectVars, due>>

ClearFlow ==
    /\ clearing = "flow" /\ clearing' = "nothing"
    /\ links' = Empty
    /\ UNCHANGED <<osVars, known, caps, call, running, configVars, dataVars, selectVars, due>>

\* updateProbeConfig().
Configure ==
    /\ Free
    /\ \E c \in Configs \ {config} : config' = c
    /\ due' = due \cup Waking("config", TRUE)
    /\ UNCHANGED <<osVars, monitorVars, switchVars, applied, dataVars, selectVars>>

\* A probe loop reports a sample: the aggregator of its link takes it up.
ProbeDone(l) ==
    /\ Free /\ l \in DOMAIN probes
    /\ LET window == IF l \in DOMAIN health THEN health[l] ELSE <<>>
       IN  \E sample \in IF net[l] = "none" THEN {Failed} ELSE Samples[l] :
               health' = With(health, l, AddSample(window, sample))
    /\ due' = due \cup Waking("health", TRUE)
    /\ UNCHANGED <<osVars, monitorVars, switchVars, configVars, probes, scores, selectVars>>

\* Mutant: a new configuration is for new loops only.
LoopsKept == probes

\* The loops that go on: none if the configuration has changed.
Loops == IF config # applied THEN Empty ELSE probes

\* reconcileProbes(): a loop for every link whose Network object is there,
\* and nothing left of links that have disappeared.
Reconcile ==
    LET kept == IF config # applied THEN Empty ELSE health
        gone == DOMAIN Loops \ DOMAIN links
    IN  /\ Free /\ "reconcile" \in due
        /\ applied' = config
        /\ probes' = [l \in DOMAIN links \cap (DOMAIN Loops \cup known) |->
                        IF l \in DOMAIN Loops THEN Loops[l] ELSE config]
        /\ health' = Without(kept, gone)
        /\ scores' = Without(scores, gone)
        /\ due' = (due \ {"reconcile"})
                    \cup Waking("health", health' # health)
                    \cup Waking("scores", scores' # scores)
        /\ UNCHANGED <<osVars, monitorVars, switchVars, config, selectVars>>

\* scoringJob.
Score ==
    /\ Free /\ "score" \in due
    /\ scores' = [l \in DOMAIN links |->
                    LinkScore(links[l], IF l \in DOMAIN health THEN health[l] ELSE <<>>)]
    /\ due' = (due \ {"score"}) \cup Waking("scores", scores' # scores)
    /\ UNCHANGED <<osVars, monitorVars, switchVars, configVars, probes, health, selectVars>>

\* What the selector chooses from: usable links that have a score.
Candidates ==
    [l \in {k \in DOMAIN links \cap DOMAIN scores : links[k] = "valid"} |-> Percent(scores[l])]

\* selectionJob.
Select ==
    /\ Free /\ "select" \in due
    /\ \E best \in IF DOMAIN Candidates = {} THEN {NoLink} ELSE BestOf(Candidates) :
           selection' = Decide(selection, best, Candidates)
    /\ since' = IF selection'.link = NoLink THEN HoldDown
                ELSE IF selection'.link # selection.link THEN 0 ELSE since
    /\ due' = due \ {"select"}
    /\ UNCHANGED <<osVars, monitorVars, switchVars, configVars, dataVars>>

-----------------------------------------------------------------------------
(* Android and the clock. *)

NetChange(l) ==
    /\ \E state \in States[l] \ {net[l]} : net' = [net EXCEPT ![l] = state]
    /\ UNCHANGED <<told, monitorVars, coordVars>>

Elapse ==
    /\ selection.link # NoLink /\ since < HoldDown
    /\ selection' = Aged(selection) /\ since' = since + 1
    /\ UNCHANGED <<osVars, monitorVars, switchVars, configVars, dataVars, due>>

Next ==
    \/ Callback
    \/ Start \/ Stop \/ ClearKnown \/ ClearCaps \/ ClearFlow \/ Configure
    \/ Reconcile \/ Score \/ Select
    \/ Elapse
    \/ \E l \in Link :
           \/ TellAvailable(l) \/ TellChanged(l) \/ TellProperties(l) \/ TellLost(l)
           \/ ProbeDone(l) \/ NetChange(l)

Spec == Init /\ [][Next]_vars

-----------------------------------------------------------------------------
(* Properties. *)

\* Every variable holds a value of its kind.
TypeOK ==
    /\ net \in [Link -> NetState]
    /\ told \in [Link -> NetState \cup {"new"}]
    /\ known \subseteq Link
    /\ DOMAIN caps \subseteq Link /\ \A l \in DOMAIN caps : caps[l] \in Snapshot
    /\ DOMAIN links \subseteq Link /\ \A l \in DOMAIN links : links[l] \in Snapshot
    /\ call.at \in {"idle", "available", "plain", "valid", "lost", "build", "publish", "remove"}
    /\ running \in BOOLEAN /\ clearing \in {"nothing", "known", "caps", "flow"}
    /\ config \in Configs /\ applied \in Configs \cup {NoConfig}
    /\ DOMAIN probes \subseteq Link /\ \A l \in DOMAIN probes : probes[l] \in Configs
    /\ \A l \in DOMAIN health : l \in Link /\ health[l] \in Seq(Sample) /\ Len(health[l]) <= WindowSize
    /\ \A l \in DOMAIN scores : l \in Link /\ Percent(scores[l]) \in 0..100
    /\ selection \in Selection /\ since \in 0..HoldDown
    /\ due \subseteq {"reconcile", "score", "select"}

\* A callback under way at stop() finishes in its own time: it may bring its
\* link back after the clear, even into the next session.  But it is the only
\* one: while no callback is in progress, of all the links that nobody has
\* been told of, one at most is shown, known or has capabilities
\* (NetworkMonitor.kt 76-89, 94-139).
OneLeftOver ==
    Free /\ call = NoCall =>
        \A a, b \in DOMAIN links \cup known \cup DOMAIN caps :
            told[a] = "none" /\ told[b] = "none" => a = b

Quiet(job) == running /\ call = NoCall /\ job \notin due

\* Once the callbacks have told all there is to tell, every network there is
\* is known and shown as it is, whatever earlier sessions have left behind
\* and whatever stop() ran into.  A link that is shown and no network any
\* more has not been told of, and by OneLeftOver there is one at most.
LinksFollow ==
    running /\ call = NoCall /\ told = net =>
        \A l \in Link : net[l] # "none" => l \in known \cap DOMAIN links /\ links[l] = net[l]

\* Once the reconciliation has nothing to do, exactly the links whose Network
\* object is known are probed, with the configuration in force, and there is
\* no health of any other link (MonitoringCoordinator.kt 38-40).
ProbesFollow ==
    Quiet("reconcile") =>
        /\ DOMAIN probes = DOMAIN links \cap known
        /\ \A l \in DOMAIN probes : probes[l] = config
        /\ DOMAIN health \subseteq DOMAIN probes

\* Once the selector has nothing to do, it has selected a usable link that has
\* a score if there is one, and nothing else (SelectionPolicy.kt, rules 1, 2).
SelectionFollows ==
    Quiet("select") =>
        IF DOMAIN Candidates = {} THEN selection.link = NoLink
        ELSE selection.link \in DOMAIN Candidates

\* Hold-down runs from the last switch and from nothing else (README of the
\* companion, 186-189), however often the policy is asked in between.
HoldDownSinceSwitch ==
    selection.link # NoLink => selection.holdLeft = HoldDown - since
=============================================================================
