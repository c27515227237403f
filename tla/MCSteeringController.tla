------------------------ MODULE MCSteeringController ------------------------
\* Instances of SteeringController: an Ethernet (1), a Wi-Fi (2) and a VPN
\* adapter (3); four interfaces further below.  Scores: 0 is unhealthy, 1 is poor, 3 is faultless.
EXTENDS SteeringController

Reach(s) == [score |-> s, reachable |-> "yes"]
Dead == [score |-> 0, reachable |-> "no"]
Unmeasured == [score |-> Unknown, reachable |-> "unknown"]

MCPhysical == {1, 2}
MCOriginal == <<Automatic, 6, Automatic>>
NoRouteMetric == <<0, 0, 0>>

MCAutoMetrics == <<{3, 5}, {4}, {4}>>
MCLinks == <<{"up", "routed"}, {"absent", "routed"}, {"down", "routed"}>>
VpnStaysUp == <<{"up", "routed"}, {"absent", "routed"}, {"routed"}>>
MCHealthMaps ==
    {<<Dead, Reach(3), Unmeasured>>, <<Reach(3), Reach(1), Reach(3)>>}
MCSelections == {{1, 2, 3}}

\* A stable network with an unreachable Ethernet and a faultless Wi-Fi.
FixedMetrics == <<{3}, {4}, {2}>>
EthernetDead == {<<Dead, Reach(3), Unmeasured>>}
EverySelected == {{1, 2}}

\* An unreachable Ethernet (1), a faultless Wi-Fi (2) that comes and goes, a
\* mobile adapter (3) that is poor, and a VPN (4) cheaper than any of them.
\* While the Wi-Fi is away the mobile adapter is pinned; when it is back the
\* failback of the mobile adapter makes the VPN the preferred path.
FourPhysical == {1, 2, 3}
FourOriginal == <<Automatic, Automatic, 5, Automatic>>
FourRouteMetrics == <<0, 0, 0, 0>>
FourMetrics == <<{3}, {4}, {5}, {2}>>
FourLinks == <<{"up", "routed"}, {"absent", "up", "routed"}, {"up", "routed"}, {"down", "routed"}>>
FourHealth == {<<Dead, Reach(3), Reach(1), Unmeasured>>}
FourSelected == {{1, 2, 3}}

Steady == link[1] = "routed" /\ link[2] = "routed" /\ link[4] = "down"

\* Steering works: if from some time on it stays enabled, nobody enables it
\* again, the Ethernet stays up but unreachable, the Wi-Fi up and faultless,
\* and no VPN connects, then in the end the Wi-Fi is and stays the preferred
\* path, whatever the mobile adapter does.  No record may be lost on the way: a
\* setting that nobody restores (RollbackForgets) may stay level with the pin.
FailsOver ==
    <>[](enabled /\ Steady /\ lost = {}) /\ <>[][~Enable]_vars => <>[](Preferred = {2})

\* A Wi-Fi whose default route was entered by hand has a high route metric.
StaticRoute == <<0, 9, 0>>
=============================================================================
