---------------------------- MODULE MCPollSlices ----------------------------
(***************************************************************************)
(* Event histories to check PollSlices on: steady rates, a burst that      *)
(* forces searches to be halved, quiet time between bursts, and seconds    *)
(* that reach the cap on their own.                                        *)
(***************************************************************************)
EXTENDS PollSlices, Sequences

\* The events before each second when rates[t + 1] events carry the index second t.
Before(rates) ==
    LET before[t \in Seconds] == IF t = 0 THEN 0 ELSE before[t - 1] + rates[t] IN before

History(broad, cribl) ==
    [p \in Profiles |-> IF p = "broad" THEN Before(broad) ELSE Before(cribl)]

SteadyRate(r) == [t \in 1 .. MaxClock |-> r]
Burst == [t \in 1 .. MaxClock |-> IF t \in {1, 2, 6} THEN 3 ELSE IF t = 5 THEN 1 ELSE 0]
Wall == [t \in 1 .. MaxClock |-> IF t = 1 THEN 3 ELSE IF t = 2 THEN 4 ELSE 1]

MCLoads == {History(SteadyRate(1), SteadyRate(0)), History(SteadyRate(3), SteadyRate(3)),
            History(Burst, Burst), History(Wall, Wall)}
=============================================================================
