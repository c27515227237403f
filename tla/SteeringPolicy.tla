--------------------------- MODULE SteeringPolicy ---------------------------
(***************************************************************************)
(* The decision engine of automatic steering, steering/policy.py, as       *)
(* operators on its three fields.  It performs no I/O: the controller      *)
(* hands it the active interface and one health record per interface.      *)
(*                                                                         *)
(* Interfaces are numbered in discovery order, the order in which the      *)
(* dictionary of candidates is iterated.  The code keeps the wall-clock    *)
(* time of the last switch and subtracts; the model keeps the difference,  *)
(* the units of hold-down still to run, and lets an Elapse step age it.    *)
(***************************************************************************)
EXTENDS Integers

CONSTANTS
    NIface,      \* number of interfaces
    MinCycles,   \* SteeringConfig.min_consecutive_cycles
    Advantage,   \* SteeringConfig.score_advantage_threshold
    HoldDown,    \* SteeringConfig.hold_down_seconds, in clock units
    Unhealthy,   \* SteeringConfig.unhealthy_score_threshold
    MaxScore     \* the score of a faultless link

\* The GUI's spin boxes allow 1..20 cycles and non-negative thresholds.
ASSUME PolicyAssumption ==
    /\ NIface \in Nat
    /\ MinCycles \in Nat \ {0}
    /\ Advantage \in Nat
    /\ HoldDown \in Nat
    /\ Unhealthy \in Nat
    /\ MaxScore \in Nat

Iface == 1..NIface
None == 0            \* Python's None where a name is expected
Unknown == -1        \* a score that was never measured

\* What compute_score can return: unknown, unreachable with score 0, or
\* reachable with any score.
HealthValue ==
    {[score |-> Unknown, reachable |-> "unknown"], [score |-> 0, reachable |-> "no"]}
      \cup {[score |-> s, reachable |-> "yes"] : s \in 0..MaxScore}

\* CandidateHealth, without the name.
CandidateHealth ==
    [score : {Unknown} \cup 0..MaxScore, reachable : {"yes", "no", "unknown"},
     eligible : BOOLEAN, route : BOOLEAN]

PolicyState ==
    [candidate : Iface \cup {None}, count : 0..MinCycles, holdLeft : 0..HoldDown]

\* A policy that has just been created or reset.
FreshPolicy == [candidate |-> None, count |-> 0, holdLeft |-> 0]

NoStreak(p) == [candidate |-> None, count |-> 0, holdLeft |-> p.holdLeft]

\* Mutant: the hold-down grows with the tick's length.
RecordSwitchAdds(p, age) ==
    [candidate |-> None, count |-> 0, holdLeft |-> HoldDown + age]

\* Mutant: the streak outlives the switch.
RecordSwitchKeepsStreak(p, age) ==
    [p EXCEPT !.holdLeft = IF age < HoldDown THEN HoldDown - age ELSE 0]

\* A verified switch: the streak is cleared and the hold-down runs from the
\* time the tick read when it began, age units ago.
RecordSwitch(p, age) ==
    [candidate |-> None, count |-> 0,
     holdLeft |-> IF age < HoldDown THEN HoldDown - age ELSE 0]

\* One clock unit passes.
Aged(p) == [p EXCEPT !.holdLeft = IF @ > 0 THEN @ - 1 ELSE 0]

-----------------------------------------------------------------------------
\* The interfaces decide() may switch to.
Eligible(active, cands) ==
    {i \in DOMAIN cands \ {active} :
        /\ cands[i].eligible
        /\ cands[i].route
        /\ cands[i].reachable = "yes"
        /\ cands[i].score # Unknown}

\* The loop keeps the first candidate with the highest score.
IsBest(best, active, cands) ==
    LET C == Eligible(active, cands)
    IN  IF C = {} THEN best = None
        ELSE /\ best \in C
             /\ \A j \in C : \/ cands[j].score < cands[best].score
                             \/ cands[j].score = cands[best].score /\ best <= j

\* No health record at all counts as confirmed unhealthy; an unknown score
\* of a listed interface does not.
ConfirmedUnhealthy(active, cands) ==
    \/ active \notin DOMAIN cands
    \/ cands[active].reachable = "no"
    \/ cands[active].score # Unknown /\ cands[active].score < Unhealthy

MeetsCondition(best, active, cands) ==
    \/ ConfirmedUnhealthy(active, cands)
    \/ /\ cands[active].score # Unknown
       /\ cands[best].score > cands[active].score
       /\ cands[best].score - cands[active].score >= Advantage

\* Mutant: a change of candidate does not restart the streak.
ExtendedAcrossCandidates(p, best) ==
    [p EXCEPT !.candidate = best, !.count = IF @ < MinCycles THEN @ + 1 ELSE @]

\* A streak longer than MinCycles is only ever compared with MinCycles, so
\* the count stops there.
Extended(p, best) ==
    [candidate |-> best,
     count |-> IF p.candidate # best THEN 1
               ELSE IF p.count < MinCycles THEN p.count + 1 ELSE p.count,
     holdLeft |-> p.holdLeft]

\* decide(): the policy's next state and the interface to switch to, if any.
\* Hold-down comes first and leaves the streak alone.
Decide(p, best, active, cands) ==
    IF p.holdLeft > 0 THEN [policy |-> p, target |-> None]
    ELSE IF best = None \/ ~MeetsCondition(best, active, cands)
         THEN [policy |-> NoStreak(p), target |-> None]
    ELSE LET q == Extended(p, best)
         IN  [policy |-> q, target |-> IF q.count < MinCycles THEN None ELSE best]

\* _phase_of(): the coarse phase kept for logging.
PhaseOf(d) ==
    IF d.policy.holdLeft > 0 THEN "hold_down"
    ELSE IF d.target # None THEN "switching"
    ELSE IF d.policy.count > 0 THEN "confirming"
    ELSE "stable"
=============================================================================
