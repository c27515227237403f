# Verification of the multi-link manager

TLA+ modules, TLC configurations and TLAPS proofs about the program in this
repository: a Windows desktop application (`src/multilink_manager`, Python and
Qt) that monitors several network links at once and, if the user enables it,
steers traffic by giving one physical interface a lower IPv4 metric; and its
Android companion (`src/android_multilink_manager`, Kotlin).

The application changes settings of the user's machine through PowerShell
commands that are slow and may fail in every way, from a background thread,
under a GUI that can be clicked at any time. What matters most is therefore:
**every metric that was changed is given back, at most one is changed at a
time, nothing but physical interfaces is touched, and the program never says
otherwise.** The project is ordered by that.

## 1. Inventory

### Windows application

| Component | State it keeps | Operations | Talks to |
|---|---|---|---|
| Steering policy (`steering/policy.py`) | streak candidate and count, time of the last switch | `decide`, `record_switch`, `reset` | called by the controller once per tick |
| Steering controller (`steering/controller.py`) | enabled, `_saved_settings`, the policy, the phase, the published `SteeringStatus` | `enable`, `disable`, `tick` with `_perform_switch` | reads and writes Windows metrics through `networking/routes.py` |
| Route metrics (`networking/routes.py`, `utils/platform_utils.py`) | none (the state is in Windows) | queries, `set_interface_metric`, `restore_setting` | PowerShell with a timeout |
| Interface discovery (`networking/interfaces.py`) | none | `discover_interfaces` from psutil and adapter metadata | feeds worker, controller |
| Monitor worker (`gui/worker.py`) | stop event, request slot of one, latest enabled interfaces | `run`, `_tick`, the request handlers, `stop` | owns prober and controller, posts snapshots to the GUI |
| Main window (`gui/main_window.py`) | `worker`, button states; the latest snapshot, table rows, charts, retention | start, stop, close, steering and selection buttons, Show all, Clear, `_on_snapshot` | creates, stops and waits for the worker; changes selection and history |
| Interface selection (`monitoring/selection.py`) | overrides | `set_override`, `select_physical_defaults`, `deselect_all`, `resolve_enabled_map`, filters | written by the GUI, read by the worker |
| Link prober (`networking/probing.py`) | results per interface and target | a loop of rounds, `latest_results` | reads the worker's list of enabled interfaces |
| Scoring (`scoring/`) | none | `compute_score`, `aggregate_internet_probes` | called by the worker |
| Counters and distribution (`monitoring/counters.py`, `distribution.py`) | the counters of the last reading | `update`, `compute_distribution`, `compute_distribution_by_type` | called by the worker |
| Connections (`monitoring/connections.py`) | none | `list_connections`, attribution by local address | called by the worker |
| History (`storage/history_store.py`) | records per interface | `add_many`, prune, `set_retention_minutes`, `clear` | written by the worker, retention and Clear by the GUI |
| Charts (`gui/charts.py`) | a series of points per interface | `add_point`, `clear` | filled by `_on_snapshot` |
| Application start, theme, logging | presentation and set-up | | |

Threads: the Qt event loop, the worker's `QThread`, the prober's thread. Shared
between them: the request slot, the stop event, the selection's overrides, the
list of enabled interfaces, the prober's results, and the queue of posted
snapshots. Windows itself changes underneath: links come and go, automatic
metrics are recomputed, a VPN may become the preferred path at any time.

### Android application

| Component | State it keeps | Operations |
|---|---|---|
| Network monitor (`networking/NetworkMonitor.kt`, `NetworkLinkReducer.kt`) | links, networks, pending capabilities and properties | `start`, `stop`, the `ConnectivityManager` callbacks |
| Monitoring coordinator (`monitoring/MonitoringCoordinator.kt`, `HealthProbe.kt`) | probe loops, aggregators, health, scores | `start`, `stop`, `reconcileProbes`, samples |
| Selection (`policy/SelectionPolicy.kt`, `networking/NetworkSelector.kt`) | the selected link and since when | `decide`, the collecting job |
| Capability verdict, view model, Compose UI | presentation | |

Two threads matter: `ConnectivityManager` calls the monitor on its own thread, and
everything else, probe loops included, runs as coroutines of `viewModelScope` on
the main thread. `start()` and `stop()` lock against each other, but the
callbacks do not take that lock.

### What is hard, and what correct means

* **Partial failure.** A switch is five commands or more: restore the previous
  target, read the original, plan, apply, verify, perhaps roll back. Each may
  fail, and one may take effect and be reported failed. Correct: the ledger of
  originals is right after every step, and the status is honest.
* **Time of check, time of use.** Each command takes up to eight seconds; links,
  metrics and VPNs change between two of them.
* **Long legal sequences.** Hold-down, streak and guard delay a switch together:
  it must be neither early nor postponed for ever.
* **Re-entrancy.** `stop_monitoring` pumps the event queue while it waits, so any
  handler, itself included, may run inside it.
* **Lost requests and late messages.** The slot holds one request; a snapshot may
  be delivered after the disconnect.
* **Stale results.** The prober works on a list that is seconds old.
* **Differences.** A delta belongs to one interface between two readings: interfaces
  vanish, counters start again at 0, and the user changes the selection in between.
* **Two clocks and two writers.** Records age by a wall clock that may be set back; the
  worker writes them and the user clears them and changes the retention meanwhile.
* **Two flows combined** (Android). The coordinator's jobs see links, health and
  scores that change at different times, conflated; each output must in the end agree
  with its inputs.
* **Callbacks that outlive `stop()`** (Android). One that is under way may write the maps
  and the flow after they were cleared, even into the next session.
* **Numeric edges.** Unknown is neither 0 nor unreachable; the planned metric has
  a floor.

`PROJECT.json` lists each hazard at its line, with the properties that catch it.

## 2. Modules

| Module | Models |
|---|---|
| `Collections` | sums of functions and filtered sequences, for the modules below |
| `SteeringPolicy` | the decision engine as operators on its three fields |
| `PolicySession` | that engine driven by arbitrary health records, with a history of what each tick called for |
| `SteeringController` | the controller and its tick, one step per PowerShell command, against Windows and its faults |
| `SteeringSession` | **abstract**: what a steering session promises, without metrics, ticks or commands |
| `MonitorWorker` | the worker thread on top of the abstract session |
| `MainWindow` | extends `MonitorWorker` with the window: buttons, pumped wait, close |
| `Scoring` | scorer and aggregation as operators |
| `LinkHealth` | extends `Scoring`: selection, discovery, prober rounds, and the health the worker hands to steering |
| `InterfaceSelection` | the rules of the selection as operators |
| `Traffic` | extends it with the traffic half of a tick: counters, deltas, shares, connections and records, against counters that restart or vanish |
| `Dashboard` | extends it with the window's selection, table and chart, the history store and the worker's ticks as they see them |
| `LinkScorer` | Android: window of samples and score as operators |
| `SelectionPolicy` | Android: `decide` as an operator |
| `LinkMonitor` | Android: extends both with callbacks, probe loops, reconciliation, scoring and the selector |
| `MCPolicySession`, `MCSteeringController`, `MCLinkHealth`, `MCTraffic`, `MCDashboard`, `MCLinkMonitor` | instances for TLC |
| `PolicySessionProofs`, `SteeringControllerProofs`, `MainWindowProofs`, `LinkHealthProofs`, `TrafficProofs`, `DashboardProofs`, `LinkMonitorProofs` | theorems about the module of that name |
| `FoldLemmas` | induction, and lemmas about sums, flattened and filtered sequences, for those proofs |

How they compose: `SteeringController` uses `SteeringPolicy` and implements
`SteeringSession` (`ImplementsSession`, with `holder` mapped to the one interface
on record). `MonitorWorker` and `MainWindow` use `SteeringSession` in its place,
so the state of the thread, the stack of waits and the event queue can be checked
without the metrics. `LinkHealth` ends where `SteeringController` begins: its
`Scores` is one of the `HealthMaps` that a tick of the controller reads (a
`HealthValue` of `SteeringPolicy`). `Traffic` and `Dashboard` are the two sides of
the other half of a tick: `Traffic` says what a tick measures and writes, step by step, and
`Dashboard`, which has only the names of the interfaces found, enabled and sampled, says
what becomes of it in the store, on its way to the window, and on the screen. `LinkMonitor` stands alone: the companion shares
no code and no state with the Windows application.

### How the state corresponds to the code

* **Interfaces** are numbers in discovery order, because the code iterates over
  dictionaries in that order and ties are broken by it. `None` is 0.
* **Settings.** `Automatic` is AutomaticMetric Enabled; another value is a manual
  metric. `saved[i] = Unsaved` means no entry in `_saved_settings`.
* **Effective metric** is RouteMetric + InterfaceMetric; the preferred path is any
  cheapest default route (Windows' own order among equals is left open).
* **A tick** is `Observe` (discovery, preferred path, guard), `DecideStep`,
  `Recheck`, `Failback`, `ReadOriginal`, `Plan`, `Apply`, `Verify`, `Rollback`.
  `pc` says which command comes next. `seen`, `active`, `selected`, `target`,
  `original`, `plan` are the locals of the functions on the stack.
* **Commands.** `Outcomes` gives what a mutating command may do: succeed, fail
  without effect, or take effect and be reported failed because `powershell.exe`
  timed out. `PreferredReads`, `Sightings`, `Unread` and `Readable` give what
  queries may return. `Faults` chooses which of these happen in a run.
* **Time.** The policy keeps a wall-clock time and subtracts; the model keeps the
  difference as a countdown (`holdLeft`), aged by `Elapse`. `age` is how long
  ago the tick in progress read its time: hold-down runs from there.
* **`lost`** is a history variable: interfaces left changed although nothing
  records it any more. It grows at four named places only (see 4.2).
* **The window's stack.** `frames` are the activations of `stop_monitoring`, the
  topmost first; only that one makes progress, and only while it pumps can other
  handlers run.
* **Scores** in `Scoring` are counted in sixtieths of a point, so that a mean of
  up to six values stays whole; a quantity is a fraction (sum, number of known
  values), with number 0 for Python's `None`.

* **`Traffic`.** A tick is `Discover` (the list, and the selection resolved once), `Count`
  (the reading, deltas, shares and connections), `Record` and `EndTick`. The history variables
  `moved`, `reset` and `lastRead` say what has really happened to each counter since it was
  last read; `span` is their value when this tick read them. Errors, discards and packets
  are treated by the code exactly as bytes are.
* **`Dashboard`.** Times are ages in intervals of the worker. A tick is `Measure`, which
  also writes the records, and `Emit`, which posts the snapshot; `Render` is
  `_on_snapshot`. `inFlight` remembers how many snapshots were under way when Clear was
  last clicked, and `old` marks them and their points.
* **`LinkMonitor`.** A task of the main thread is one step, because a coroutine
  confined to it is interrupted only where it suspends, and none of the modelled jobs
  suspends within the steps taken here. `ConnectivityManager` (external) calls the
  registered callbacks on one thread of its own, one message at a time: it takes up a message
  (`TellAvailable`, `TellChanged`, `TellProperties`, `TellLost`), which it does for a registered
  callback only, and then the callback runs in steps of its own: the maps (`OnAvailable`,
  `OnChanged`, `OnLost`), the snapshot (`Build`), the flow (`Publish`, `PublishLoss`). These
  steps ask for nothing but where the callback has got to, because the code does not ask either:
  unregistering drops the messages not yet taken up and does not wait for the callback
  under way, so `stop()`, a whole stopped period and a new `start()` may fall between any two of them.
  `call.late` remembers that this has happened. One message may call several
  callbacks about its network, so a late one may go on with another. `stop()` is four steps
  (`Stop`, `ClearKnown`, `ClearCaps`, `ClearFlow`), because the callback thread may run between any two of
  them; meanwhile the main thread does nothing else (`Free`). `told` is what the callbacks registered
  now have been told of each network. Link properties are kept nowhere in the model: no decision
  depends on them, and `onLinkPropertiesChanged` is as far as `refresh()` at once. `due` holds the jobs with something to collect:
  a `StateFlow` wakes them only when its value changes, and conflates what they missed. A
  cancelled probe loop reports nothing more, so a loop is its entry in `probes`.
  `HysteresisNetworkSelector.start()` uses the constructor's `scope` (NetworkSelector.kt 58)
  although it is declared as a plain parameter (42); the model takes what is meant.

Left out of the modelled functions: texts, logging, the reasons shown to the user,
command lines and JSON parsing (each query is modelled by what it may return), and
tables that show the fields of a snapshot as they are.

## 3. Runs

| Run | Question | Bounds |
|---|---|---|
| `policy` | Does the incremental streak confirm exactly what the documentation describes, whatever records come? | 3 interfaces, 3 cycles, scores on both sides of threshold and advantage, all maps of records |
| `steering_safety` | Do the ledger, the failback order, the physical-only rule and the honesty of the status survive every fault at every command, with crashes and restarts? | Ethernet, Wi-Fi, VPN; one change of the environment per tick; all five faults |
| `steering_failover` | Is an unreachable active link left in the end, and does a pin leave a VPN alone that the failback before it has made the preferred path? | a dead Ethernet, a Wi-Fi that comes and goes, a poor mobile adapter, a VPN that is the cheapest; 3 cycles, hold-down of 2; no faults, no change within a tick |
| `main_window` | Do Start, Stop, close and the steering buttons stay right in every nesting? | 2 workers, 2 nested waits, 2 chunks per wait, 2 queued snapshots |
| `link_health` | Is steering handed only health that belongs to enabled interfaces, measured as documented? | one bare or local interface, one that vanishes; one target of each kind, the HTTPS one with probes that may raise |
| `traffic` | Does a tick record the traffic there was, of the interfaces selected, whatever counters do? | an Ethernet that vanishes, restarts and is deselected, with up to 2 received; a VPN with up to 1 each way |
| `dashboard` | Does the store stay bounded, does Clear hold, and does the window in the end show what the user chose? | a VPN adapter, retentions 1 and 2, 1 snapshot queued, the clock set back by one unit |
| `link_monitor` | Do links, probe loops, scores and the selection follow the networks there are, whatever callbacks, stops and configurations interleave? | a network that stays and one that comes and goes, 2 interchangeable configurations, windows of 1 sample, hold-down of 1 unit; any number of sessions |
| `rollback_forgets` | violation: a failed rollback drops the record | restore may fail |
| `repin_overwrites` | violation: the pinned interface is pinned again | no faults |
| `plan_too_high` | violation: the planned metric does not win | a target with a high route metric |
| `stop_abandons` | violation: Stop and Start inside Stop's wait | as `main_window` |

### What the passing runs show

**policy.** `SwitchIffConfirmed`: outside hold-down, `decide` names an
interface exactly when each of the last `MinCycles` ticks since the last switch
called for that same one. The reference (`CalledFor`) is written by rank and shares no
operator with the engine. `HoldDownIsQuiet`: nothing is being confirmed
during hold-down. The bounds are enough because the engine only compares scores:
with scores 0 to 3, advantage 2 and threshold 1 every side of every comparison
occurs, equality included, and with three cycles a streak can be begun, lost to
another candidate, and begun again.

**steering_safety.** `AtMostOneSaved`, `LedgerIsRight`, `OnlyPhysicalTouched`,
`RestoredIsTrue`, `FailbackFirst`, and the refinement `ImplementsSession`. Three
interfaces are needed and enough: a previous target, a new target and a
competitor that must not be touched. Confirmation and hold-down are one unit each,
since `policy` and `steering_failover` look at longer ones, and they only make
switches rarer. All these properties are also proved for every instance (section 4).

**steering_failover.** `FailsOver`: if steering stays enabled and is not enabled
again, the Ethernet stays up but unreachable, the Wi-Fi up and faultless, and no VPN
connects, then the Wi-Fi is preferred in the end and stays so. A further premise is that no
record gets lost on the way: a tick may end between the pin and its verification with the Wi-Fi
gone, and a setting that then nobody restores (`rollback_forgets`) can stay level with the next
pin, so that Windows may choose either. `NoBypass`: a VPN that is preferred
when a pin is applied is still preferred after it. The guard (`controller.py` 205) ends every tick
that *begins* with a VPN preferred, so the property is about the paths past it. While the Wi-Fi is
away the poor mobile adapter is pinned, below the VPN; when the Wi-Fi is back, the guard finds the mobile adapter
preferred and passes, `Failback` gives it its old metric back, and with that the VPN is the
cheapest path. The plan must then be measured against every other competitor, the dead
Ethernet included, and stay above the VPN. That takes four interfaces. Three cycles and two units of hold-down
are the lengths of every delay that `policy` has too.
`NoBypass` is checked with `MaxMoves = 0`: a VPN that connects between the guard and the
pin is bypassed until the next tick, a window of a few seconds that
the code accepts and its documentation does not deny. `NoBypassWhileStill` (section 4)
proves it with that restriction for every instance, and lets commands fail.

**main_window.** `FinishedIsClean`, `ClosedMeansStopped`, `StopReportIsFinal`
and, under fairness, `StopFinishes`, `StopReturns`, `ButtonsSettle`. Two workers
and two nested waits are needed for one wait to see the next worker; a third
level repeats the second. Two chunks make both ends of the countdown occur. Deadlock is
not checked because the program really may end: a closed window.

**link_health.** `NoGhosts`, `InternetDecides`, `OutageIsHarmless`,
`DeselectedFades`, `EnabledIsMeasured`. Interface 1 is not classified physical,
has no gateway and may lose its address; interface 2 is physical, has a gateway
and may vanish. ICMP probes may fail to run, and every target may be silent. A probe of the
HTTPS target may raise, each time if need be (`MayRaise`), as one with an invalid port does at
`probing.py` 277: it is logged and stores nothing (492-494). `EnabledIsMeasured` therefore
promises a result for every Internet target that does not raise, and shows that the one that
does keeps neither the other targets nor the other interface from being measured.

**traffic.** `RecordsAreTrue`: a record never tells of more traffic than there has been
since the reading before, and of exactly that unless the counters restarted. The
baseline is kept for every interface and not only for enabled ones, which is why selecting one again gives
no spike. `NothingMissed` is the converse, `OneSelection` says that everything in a
snapshot belongs to one selection although the user changes it at any step, and `SharesAddUp`
compares the distributions by interface and by type. Two interfaces are needed for a
share; two units received on one of them let a counter restart and reach, or not reach, its old value
again, and one unit each way on the other keeps the directions apart. Reading the counters
or the list may fail, and a worker may be replaced by a new one at any time.

**dashboard.** `HistoryBounded`: the store holds at most one record per unit of the
retention, one for the present and one for each unit the clock was set back, over any
number of sessions. `ClearHolds`: after Clear no more points from before it are shown than there were
snapshots under way. `ViewSettles`, under fairness: once the user has settled
a choice, the row's check mark and the tables agree with it in the end, although older
snapshots render an older selection in between. One interface is enough because rows, series
and records of different interfaces do not depend on each other; a VPN is the interesting kind, since it
must be selected and its row is hidden while it is not. Two retentions make
growing and shrinking occur, and one queued snapshot besides the one being emitted makes an
old one arrive after a change.

**link_monitor.** "Follows in the end" is stated without fairness, as liveness is
too expensive on this many states: whenever a job has *nothing left to do* (`Quiet`), its
output agrees with its inputs, so that only the event loop's next turn stands between a
change and its effect. `LinksFollow`: once the callbacks have told everything, the
networks there are are known and shown, each as it is. `ProbesFollow`: exactly the links with a
known `Network` are probed, with the configuration in force, and no health of another
link is left. `SelectionFollows`: a usable, scored link is selected iff there is one.
`HoldDownSinceSwitch`: hold-down runs from the last switch, not from the last
confirmation.

`OneLeftOver` says how much of an earlier session there can be. A callback that is under way when
`stop()` clears writes the maps, the flow or both afterwards, so that its link is back, while
monitoring is stopped or in the next session, although nobody has been told of it; it may be
shown, known, probed, scored and even selected, and if its network has gone no
`onLost` will ever remove it. Because the callbacks are called one at a time it is the only such link, and the next
`stop()` clears it. No property has an exception for it: `LinksFollow` holds whether the
link left over is one of the networks there are or not, and `ProbesFollow` and `SelectionFollows` treat it
as the link that it is to the coordinator.

Bounds: the Wi-Fi stays valid and its probes fail (57 points once measured, 100 before);
the mobile network comes and goes and its probes succeed unless it is gone. So each is
at times level with the other and at times ahead by more than the margin, and a switch may come from
the margin as well as from the loss of the selected link. The window is one sample
instead of at least three (`ProbeConfig.MIN_WINDOW_SIZE`), because the loops and the selector
only see that scores change; jitter, which needs two samples, is therefore never known in this run.
A network
is "bare" between `onAvailable` and its first capabilities, which is the unusable stage; the
"plain" state (Internet, not validated) adds no other kind of it and is left to larger instances.

### Fairness

* `SteeringController`: the worker's loop keeps ticking while its thread runs
  (`WF(TickStep)`), because every command has a timeout, and time passes
  (`WF(Elapse)`). Nothing is assumed of users, links or faults.
* `MainWindow`: the event loop goes on (`WF` of the wait's own steps and of
  deliveries). That the **worker** goes on is *not* part of the specification: it
  is a premise of the two properties that need it (`WorkerFairness`), since a hung
  worker is the very case `StopReturns` is about.
* `LinkMonitor`, `Traffic`: none; their properties are invariants.
* `Dashboard`: the worker's loop goes on (`WF(Measures)`, `WF(Emit)`), Qt delivers what is
  posted (`WF(Render)`), and time passes (`WF(Elapse)`). That ticks do not fail for ever is
  not assumed but a premise of `ViewSettles`, as is that monitoring is not stopped.
* `LinkHealth`: both threads go on; every query and every probe has a timeout. Nothing is
  assumed of links or users.

### What the violations show

Each is a disagreement between the code and a sentence of its documentation; the
quotations are in `PROJECT.json`.

1. `rollback_forgets`. After a failed verification the saved setting is dropped
   whether or not `restore_setting` succeeded. The target stays pinned, no record is
   left, and the next Disable reports everything restored.
2. `repin_overwrites`. If the pinned interface is chosen again after another became
   preferred, its pinned metric is read as the original and replaces the record.
3. `plan_too_high`. The planned metric is floored at 1, so a target whose default
   route has a high RouteMetric does not win; it is pinned, found not preferred and
   rolled back, tick after tick.
4. `stop_abandons`. The rest of the outer `stop_monitoring` clears `self.worker`
   although a Stop and a Start inside its wait made it a new, running one.

Also seen and not listed as findings, because no sentence of the documentation is
plainly contradicted or the effect passes by itself:

* Losing the last answering endpoint raises no alarm by itself but turns the score to 0 at
  once, while losing a *poor* one may raise the score, because only endpoints that answer
  are averaged; this is what `OutageIsHarmless` states and `aggregation.py` intends.
* The request slot holds one request: Disable and then Enable before the next tick loses
  the Disable, and the refused `enable` publishes `enabled=False` while steering goes on
  (`gui/worker.py` 200-204).
* A callback that outlives `stop()` brings its link back (`OneLeftOver`). The coordinator's
  comment says that it "cleans up state for links that disappear (so a stale score/health entry
  never lingers for a network that no longer exists)" (`MonitoringCoordinator.kt` 38-40). In the model:
  `Start`; `TellAvailable` of the mobile network, `OnAvailable`, `Build`; `Stop`, `ClearKnown`,
  `ClearCaps`, `ClearFlow`; `Publish`, the mobile network disappears, `Start`, `Score`: it
  has a score, and no callback is left to come that would take it away before the next Stop. This is a real
  disagreement; it is recorded here and as a hazard. The window is a few
  instructions wide, and restarting the app's monitoring once more clears it.
* An interface that vanishes and returns between two readings of the prober's list keeps its old
  results (`networking/probing.py` 355-359).
* A deselected interface's series stays in the charts, no longer growing:
  `remove_series` is never called. The repository's `README.md` says that it disappears from all
  seven history charts (722-725). `ViewSettles` is about the row and the tables only.
* "Select physical defaults" turns the classification of the latest snapshot into overrides
  (`monitoring/selection.py` 172-181): pressed after a failed metadata query it deselects
  an Ethernet for good. "Deselect all", likewise, covers the latest snapshot only.
* A snapshot under way when Clear is clicked puts a point back afterwards; `ClearHolds`
  bounds how many.
* A failed tick has no record and no chart point of its own; its traffic is in the delta of the next.
  A failure of psutil itself gives an empty reading, so all baselines are lost and
  that interval is in no record (`RecordsAreTrue` and `NothingMissed` hold in both cases).
* On Android, the policy is asked only when links or scores change, so a challenger that is
  ahead when hold-down ends waits for the next change; and because unknown components are
  excluded, a validated link whose probes all fail scores 57 while one slow success among
  twenty scores 47.

## 4. Proofs

TLAPS checks the theorems below for every number of interfaces, networks, targets, workers
and nested waits, every metric, threshold, window and bound, and every combination of
faults. The only assumptions are the named ones of the modules: `PolicyAssumption`,
`SessionAssumption`, `ControllerAssumption`, `WorkerAssumption`, `WindowAssumption`,
`HealthAssumption`, `TrafficAssumption`, `DashboardAssumption`, `MonitorAssumption`,
`SelectionAssumption` and `ScorerAssumption`. Each says that the constants are of their
kinds, and TLC evaluates each on the runs of its module. One theorem, `NoBypassWhileStill`,
assumes more, because the property does not hold otherwise.

Every invariant and every action property of the passing runs has its theorem.

### 4.1 Theorems

| Module | Theorem | States |
|---|---|---|
| `PolicySessionProofs` | `TypeCorrect` | `Spec => []TypeOK` |
| | `AlwaysConfirmed` | `Spec => []SwitchIffConfirmed` |
| | `HoldDownAlwaysQuiet` | `Spec => []HoldDownIsQuiet` |
| `SteeringControllerProofs` | `TypeCorrect` | `Spec => []TypeOK` |
| | `OneSavedAtMost` | `Spec => []AtMostOneSaved` |
| | `LedgerAlwaysRight` | `Spec => []LedgerIsRight` |
| | `OnlyPhysicalEverTouched` | `Spec => []OnlyPhysicalTouched` |
| | `RestoredAlwaysTrue` | `Spec => []RestoredIsTrue` |
| | `FailbackComesFirst` | `Spec => FailbackFirst` |
| | `ControllerImplementsSession` | `Spec => ImplementsSession` (refinement) |
| | `NoBypassWhileStill` | `Spec => NoBypass` if queries do not fail and nothing changes under a tick |
| `MainWindowProofs` | `TypeCorrect` | `Spec => []TypeOK` |
| | `AlwaysFinishedClean` | `Spec => []FinishedIsClean` |
| | `AlwaysClosedStopped` | `Spec => []ClosedMeansStopped` |
| | `ReportAlwaysFinal` | `Spec => StopReportIsFinal` |
| `LinkHealthProofs` | `TypeCorrect` | `Spec => []TypeOK` |
| | `NeverGhosts` | `Spec => []NoGhosts` |
| | `InternetAlwaysDecides` | `Spec => []InternetDecides` |
| | `OutageAlwaysHarmless` | `Spec => []OutageIsHarmless` |
| `TrafficProofs` | `TypeCorrect` | `Spec => []TypeOK` |
| | `RecordsAlwaysTrue` | `Spec => []RecordsAreTrue` |
| | `NothingEverMissed` | `Spec => []NothingMissed` |
| | `AlwaysOneSelection` | `Spec => []OneSelection` |
| | `SharesAlwaysAddUp` | `Spec => []SharesAddUp` |
| `DashboardProofs` | `TypeCorrect` | `Spec => []TypeOK` |
| | `HistoryAlwaysBounded` | `Spec => []HistoryBounded` |
| | `ClearAlwaysHolds` | `Spec => []ClearHolds` |
| `LinkMonitorProofs` | `TypeCorrect` | `Spec => []TypeOK` |
| | `OneEverLeftOver` | `Spec => []OneLeftOver` |
| | `LinksAlwaysFollow` | `Spec => []LinksFollow` |
| | `ProbesAlwaysFollow` | `Spec => []ProbesFollow` |
| | `SelectionAlwaysFollows` | `Spec => []SelectionFollows` |
| | `HoldDownAlwaysSinceSwitch` | `Spec => []HoldDownSinceSwitch` |

### 4.2 The argument

None of the invariants is inductive alone; each is strengthened by what holds
inside a tick.

* `TypeInv` adds to `TypeOK` that a switch in progress has a target.
* `HeldInv` adds to `AtMostOneSaved` that from the read of the original to the
  rollback (`pc \in Alone`) nothing but the target is on record: `Failback` has
  returned everything else or ended the tick. That is why `Apply` may add a record.
* `LedgerInv` adds to `LedgerIsRight` that the locals agree with the world
  (`LocalsAgree`): until the pin, `original` is the setting the target has; at
  verification and rollback it is what is on record. The four exceptions, the places
  where `lost` grows, are `Rollback` with a failed restore, `Apply` over an older
  record, `Apply` that took effect but was reported failed, and `Start` or `Crash`
  with something on record. Everything else keeps the ledger right, by proof.
* `ReachInv` adds to `OnlyPhysicalTouched` that steering is enabled only when
  elevated, that a tick in progress means enabled, and that a target is physical.
* `HonestInv`: a disabled controller with something on record says not restored.
  Together with the ledger this gives `RestoredIsTrue`.
* The refinement maps `holder` to the interface on record, single by `HeldInv`. Every
  action is mapped to an action of `SteeringSession` or to a stutter
  (`StepImplements`); the mid-tick facts of `ReachInv` say why `Take` is allowed.
* `StillInv` is for `NoBypassWhileStill`, which assumes that queries tell the truth
  (`"read" \notin Faults`) and that Windows stands still during a tick (`MaxMoves = 0`):
  otherwise the guard may have passed on a path that is no longer the active one. Past
  the guard the active path is a physical competitor of the target. `Failback` may since
  have made a VPN the cheapest path, which is the interesting case; then that competitor
  costs more than the VPN, and the plan, at most one below some competitor, does not cost less
  (`PinKeepsForeignPath`). Commands may be refused, time out or be cut off by a crash, and
  the ledger may already be wrong.

The policy: `StreakInv` says what the fields mean in terms of the window (the streak is the
longest run of its candidate at the window's end, as far as the window goes), and
`TargetInv` that the answer is the candidate of a full streak. That a tick keeps this needs
`ReferenceIsBest`: the reference by rank and the loop of `decide()` name the same
interface, since among different interfaces ranks differ.

The window: `SessionInv` (what the abstract session reports, once disabled, agrees with
what it holds), `OwnerInv` (a thread that runs is the window's `worker`, and only the newest
worker can be) and `WaitInv` (an activation past its wait has seen its worker's
thread finish). From these, a finished worker is clean, a closed
window has no running worker, and a wait that ends with the newest worker ends after its thread.

Traffic: `BaselineInv` relates three things for each interface: the baseline, the counter
and the traffic since; it is `count = previous + moved` until the counter restarts, and
`count <= moved` after. Every delta is then right by arithmetic (`DeltaIsTrue`). `RatesInv`
carries this from the reading to the record, and `BlankInv` says that nothing is left of
the tick before. The shares add up by lemmas about sums: a sum does not depend on the
order (`SumSplit`) and is the sum of the sums of its parts (`SumByParts`).

Health: `TodoInv` (what a round has still to probe belongs to interfaces of its own list,
`batch`) is why a probe that returns after the list has changed adds no ghost, and
`ResultsInv` (an interface has results only of targets, and never none) gives the
aggregates their types. `InternetDecides` and `OutageIsHarmless` then hold of
every table of results.

Dashboard: `HistoryBounded` is not inductive, because a shorter retention prunes by age and
the bound counts records. `HistoryInv` says for *every* age `k`, up to the longest retention and
down to minus the steps the clock was set back, that at most `k + 1` records, and one more for each such
step, are that young. Time passing shifts the ages and so makes the room (`ElapseFits`) that the
next record takes up (`RecordFits`), and pruning at any age keeps it (`PruneFits`). That room
is what `Slack` tracks through a tick. `ClearInv` counts together the old points of a chart, the old snapshots in the queue
and the one being emitted; the sum never exceeds `inFlight`, because
each delivery turns one old snapshot into at most one point.

Links: `ToldInv` ties the monitor's maps to what the callbacks were told in this session,
`CallInv` says what a callback of this session is about to do, and `FlowInv` that the
flow shows what they were told, whatever else it shows. A late callback cannot disturb these, by `LateInv`: until it has returned none of the new
session's has been called, so there is nothing told yet to be wrong about. `LeftInv` is the
strengthening of `OneLeftOver`: during `stop()` it counts only what has been cleared already, and
while a late callback is in progress all that is left over is its own link. `LoopInv` and
`ReconciledInv` then give `ProbesFollow`; `LateInv` also says there that a probed link disappears under a late
callback only if that one is an `onLost`. `SelectedInv` and `ClockInv` give the two properties of the
selector, and `StoppedInv` is what `start()` begins with. `DataInv` (every score is that of some snapshot and
some window) gives the types: each component of a score lies within its points for any
window, so their percentage lies within 0 and 100.

The sums, counts and filters (`Collections`) are recursive operators of the community
modules. The induction theorems of the library take an operator as a parameter, which the
provers cannot instantiate, but that the finite subsets of a set are
well-founded does not. `FoldLemmas` derives from it induction over finite sets and numbers
with a *set* in place of the predicate, and from that what the proofs need of these
operators.

### 4.3 Only model-checked

* Liveness (`FailsOver`, `StopFinishes`, `StopReturns`, `ButtonsSettle`, `DeselectedFades`,
  `EnabledIsMeasured`, `ViewSettles`): temporal reasoning with fairness needs ENABLED,
  which is out of the prover's reach.
* `NoBypass` without the hypotheses of its theorem is false, as section 3 explains.
* The four findings are counterexamples, found by TLC.

## 5. Not modelled

* **Wall-clock steps in the policies.** `holdLeft` is a countdown, so a clock that is set
  back while hold-down runs is not covered; listed as a hazard. In `Dashboard` the clock can be set
  back.
* **Rates.** A delta is divided by the time between two readings, with a guard against 0;
  only the deltas are modelled.
* **The gateway's address changing**, several gateways per interface, and the
  exact form of addresses. The join of the prober's thread (`stop()` waits `interval + 5 s`, one HTTPS
  probe may be longer) is harmless: the thread is a daemon that looks at its event next and
  writes only to its own prober.
* **CSV export and the windows of the charts**: they only read.
* **The interval setting** applies to a running worker at once (`main_window.py` 652-654). In
  `Dashboard` the worker's interval is fixed and is the unit of time, so `HistoryBounded` counts
  records of sessions with one interval; a shorter one makes room for more records per unit.
* **Application start, theme, logging**: presentation and set-up.
* **Android**: the traffic job (a reading copied into a flow), the capability verdict, the view
  model and the Compose UI; link properties and the figures of a snapshot that nothing decides by.

## 6. Plan

1. Done: policy, controller, abstract session, worker, window, health, traffic, selection,
   history and charts; the Android monitor, coordinator and selection; theorems for every
   invariant and action property that the runs check.
2. Next: an abstract specification of `LinkMonitor` (a session of links, each probed and
   scored) to refine, as `SteeringSession` is for the controller; and larger instances of it, with windows of
   several samples.
3. A gateway that changes in `LinkHealth`, with `OutageIsHarmless` over its stale rows.
4. The seams between components as theorems: what `LinkHealth` computes is a map that
   `SteeringController` accepts, and what `SteeringPolicy` answers there is what
   `PolicySession` describes.

## 7. Running

```
tlc -workers 2 -config SteeringSafety.cfg MCSteeringController
tlapm SteeringControllerProofs.tla
```

The other runs pair the module and the configuration that `PROJECT.json` names. The largest are
`steering_safety` (850,000 distinct states), `link_monitor` (1.6 million) and `traffic` (1.7
million), a minute or two each, and `link_health` (315,000) and `dashboard` (840,000), two
minutes each because of their liveness.
