---------------------------- MODULE MCLinkHealth ----------------------------
\* Instance of LinkHealth: an interface that Windows does not classify as
\* physical (1), without a gateway, that the user has to enable and that may
\* lose its address; and a physical one with a gateway (2) that may vanish
\* and that the user may deselect and select again.
EXTENDS LinkHealth

MCTargetOrder == <<"gw", "dns", "web">>
MCKind == [t \in {"gw", "dns", "web"} |->
              CASE t = "gw" -> "gateway" [] t = "dns" -> "icmp" [] t = "web" -> "https"]

Good == [reach |-> "yes", loss |-> <<0, 1>>, rtt |-> <<10, 1>>, jitter |-> <<2, 1>>]
Lossy == [reach |-> "yes", loss |-> <<50, 1>>, rtt |-> <<250, 1>>, jitter |-> <<40, 1>>]

MCAnswers == [t \in {"gw", "dns", "web"} |-> IF t = "web" THEN {Lossy} ELSE {Good}]
MCLinks == <<{"bare", "local"}, {"gone", "routed"}>>
MCOverrides == <<{TRUE}, {TRUE, FALSE}>>
=============================================================================
