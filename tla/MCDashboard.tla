----------------------------- MODULE MCDashboard -----------------------------
\* Instance of Dashboard: a VPN adapter, which has to be selected and is
\* hidden while it is not.
EXTENDS Dashboard

MCTypeOf == [i \in {"vpn"} |-> "other"]
=============================================================================
