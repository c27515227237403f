--------------------------- MODULE MCPolicySession ---------------------------
\* Instance of PolicySession: every kind of record that decide() tells apart,
\* on either side of the unhealthy threshold and of the advantage.
EXTENDS PolicySession

Good(s) == [score |-> s, reachable |-> "yes", eligible |-> TRUE, route |-> TRUE]

MCRecords ==
    {Good(s) : s \in 0..MaxScore} \cup
    {[Good(0) EXCEPT !.reachable = "no"],
     [Good(Unknown) EXCEPT !.reachable = "unknown"],
     [Good(MaxScore) EXCEPT !.eligible = FALSE],
     [Good(MaxScore) EXCEPT !.route = FALSE]}
=============================================================================
