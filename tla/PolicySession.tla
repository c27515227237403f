---------------------------- MODULE PolicySession ----------------------------
(***************************************************************************)
(* The decision engine driven by arbitrary health records: one tick at a   *)
(* time, each followed by the controller reporting a verified switch or    *)
(* nothing.  The incremental streak of SteeringPolicy is compared with the *)
(* window of observations the documentation describes.                     *)
(***************************************************************************)
EXTENDS SteeringPolicy, SequencesExt

CONSTANTS
    Records      \* the candidate health records enumerated

VARIABLES
    policy,      \* the policy's fields
    phase,       \* "idle", or "decided" until the controller has acted
    target,      \* the interface the last decide() chose, or None
    window       \* history: what the last MinCycles ticks since the last
                 \* switch called for, oldest first

vars == <<policy, phase, target, window>>

ASSUME SessionAssumption == Records \subseteq CandidateHealth

CandidateMaps == UNION {[S -> Records] : S \in SUBSET Iface}

(***************************************************************************)
(* Reference: what one observation calls for, by rank.  An interface is    *)
(* worth its score, an interface that cannot carry traffic is worth        *)
(* nothing, and the first of equals is taken.                              *)
(***************************************************************************)
Worth(i, cands) ==
    IF /\ i \in DOMAIN cands
       /\ cands[i].eligible /\ cands[i].route /\ cands[i].reachable = "yes"
    THEN cands[i].score ELSE Unknown

CalledFor(active, cands) ==
    LET rank(i) == Worth(i, cands) * (NIface + 1) - i
        others  == {i \in Iface \ {active} : Worth(i, cands) # Unknown}
        lead    == CHOOSE i \in others : \A j \in others : rank(j) <= rank(i)
        margin  == IF active \in DOMAIN cands THEN cands[active].score ELSE Unknown
        doomed  == \/ active \notin DOMAIN cands
                   \/ cands[active].reachable = "no"
                   \/ margin \in 0..(Unhealthy - 1)
        better  == /\ margin # Unknown
                   /\ Worth(lead, cands) > margin
                   /\ Worth(lead, cands) >= margin + Advantage
    IN  IF others # {} /\ (doomed \/ better) THEN lead ELSE None

LastOf(s, n) == IF Len(s) <= n THEN s ELSE SubSeq(s, Len(s) - n + 1, Len(s))

-----------------------------------------------------------------------------
Init ==
    /\ policy = FreshPolicy
    /\ phase = "idle"
    /\ target = None
    /\ window = <<>>

\* One call of decide().
Tick(active, cands) ==
    /\ phase = "idle"
    /\ \E best \in Iface \cup {None} :
        /\ IsBest(best, active, cands)
        /\ LET d == Decide(policy, best, active, cands)
           IN  policy' = d.policy /\ target' = d.target
    /\ phase' = "decided"
    /\ window' = IF policy.holdLeft > 0 THEN window
                 ELSE LastOf(Append(window, CalledFor(active, cands)), MinCycles)

\* The switch was verified; it took age clock units since the tick began.
Switched(age) ==
    /\ phase = "decided" /\ target # None
    /\ policy' = RecordSwitch(policy, age)
    /\ phase' = "idle" /\ target' = None /\ window' = <<>>

\* No switch was due, or the attempt failed: the policy is not told.
NotSwitched ==
    /\ phase = "decided"
    /\ phase' = "idle" /\ target' = None
    /\ UNCHANGED <<policy, window>>

Elapse ==
    /\ policy.holdLeft > 0
    /\ policy' = Aged(policy)
    /\ UNCHANGED <<phase, target, window>>

\* enable() makes a new policy and disable() resets the old one.
Reset ==
    /\ phase = "idle"
    /\ policy' = FreshPolicy /\ window' = <<>>
    /\ UNCHANGED <<phase, target>>

Next ==
    \/ \E active \in Iface \cup {None}, cands \in CandidateMaps : Tick(active, cands)
    \/ \E age \in 0..HoldDown : Switched(age)
    \/ NotSwitched
    \/ Elapse
    \/ Reset

Spec == Init /\ [][Next]_vars

-----------------------------------------------------------------------------
\* Every variable holds a value of its kind.
TypeOK ==
    /\ policy \in PolicyState
    /\ phase \in {"idle", "decided"}
    /\ target \in Iface \cup {None}
    /\ window \in Seq(Iface \cup {None}) /\ Len(window) <= MinCycles

\* decide() chooses an interface exactly when each of the last MinCycles
\* ticks since the last switch called for that same interface: it neither
\* switches early nor forgets a tick (policy.py, items 3 and 4).
SwitchIffConfirmed ==
    phase = "decided" /\ policy.holdLeft = 0 =>
        \A i \in Iface :
            target = i <=> window = [k \in 1..MinCycles |-> i]

\* During hold-down nothing is being confirmed, so confirmation starts cold
\* when it ends (the comment at policy.py 91-94).
HoldDownIsQuiet ==
    policy.holdLeft > 0 =>
        policy.count = 0 /\ policy.candidate = None /\ window = <<>>
=============================================================================
