---------------------------- MODULE MCLinkMonitor ----------------------------
\* Instance of LinkMonitor: a Wi-Fi that stays but whose probes fail, and a
\* mobile network that comes and goes and whose probes succeed.  Unmeasured,
\* both score 100; measured, 57 and 100.
EXTENDS LinkMonitor

CONSTANTS wifi, mobile, c1, c2

\* The two configurations differ in nothing but their names.
MCConfigs == {c1, c2}
Symmetry == Permutations(MCConfigs)

MCLink == {wifi, mobile}
MCStates == (wifi :> {"valid"}) @@ (mobile :> {"none", "valid"})
MCSamples == (wifi :> {Failed}) @@ (mobile :> {100})
=============================================================================
