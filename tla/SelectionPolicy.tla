--------------------------- MODULE SelectionPolicy ---------------------------
(***************************************************************************)
(* Which link the Android companion prefers for its own connections:       *)
(* policy/SelectionPolicy.kt.  SelectionState keeps the time of the        *)
(* decision; here it keeps the clock units of hold-down still to run.      *)
(***************************************************************************)
EXTENDS Integers

CONSTANTS
    Link,        \* the networks there may be
    NoLink,      \* Kotlin's null where a link is expected
    HoldDown,    \* SelectionPolicyConfig.holdDownMs, in clock units
    Margin       \* SelectionPolicyConfig.switchMarginPoints

ASSUME SelectionAssumption ==
    /\ NoLink \notin Link
    /\ HoldDown \in Nat
    /\ Margin \in Nat

Selection == [link : Link \cup {NoLink}, holdLeft : 0..HoldDown]

NoSelection == [link |-> NoLink, holdLeft |-> 0]

\* candidates maps every eligible link to its score.
BestOf(candidates) ==
    {l \in DOMAIN candidates : \A k \in DOMAIN candidates : candidates[k] <= candidates[l]}

Stays(selection, best, candidates) ==
    /\ selection.link \in DOMAIN candidates
    /\ \/ selection.link = best
       \/ selection.holdLeft > 0
       \/ candidates[best] - candidates[selection.link] < Margin

\* Mutant: hold-down starts again whenever the selection is confirmed.
DecideRenews(selection, best, candidates) ==
    IF DOMAIN candidates = {} THEN NoSelection
    ELSE IF Stays(selection, best, candidates)
    THEN [selection EXCEPT !.holdLeft = IF selection.link = best THEN HoldDown ELSE @]
    ELSE [link |-> best, holdLeft |-> HoldDown]

\* decide(), best being the candidate it found first among the best.
Decide(selection, best, candidates) ==
    IF DOMAIN candidates = {} THEN NoSelection
    ELSE IF Stays(selection, best, candidates) THEN selection
    ELSE [link |-> best, holdLeft |-> HoldDown]

\* One clock unit passes.
Aged(selection) ==
    [selection EXCEPT !.holdLeft = IF @ > 0 THEN @ - 1 ELSE 0]
=============================================================================
