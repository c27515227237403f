------------------------------ MODULE MCTraffic ------------------------------
\* Instance of Traffic: an Ethernet adapter that may vanish, reset its counters
\* and be deselected, and a VPN that has to be selected.
EXTENDS Traffic

MCTypeOf == [i \in {"eth", "vpn"} |-> IF i = "eth" THEN "ethernet" ELSE "other"]
MCOverrides == [i \in {"eth", "vpn"} |-> IF i = "eth" THEN {TRUE, FALSE} ELSE {TRUE}]
MCMaxCount ==
    [i \in {"eth", "vpn"} |-> IF i = "eth" THEN [rx |-> 2, tx |-> 0] ELSE [rx |-> 1, tx |-> 1]]
=============================================================================
