-------------------------- MODULE CollectionCursor --------------------------
(***************************************************************************)
(* What the collection of index time promises, per source and since the    *)
(* last reset of its cursor: the seconds behind the cursor have each been  *)
(* ingested exactly once, from the second the collection began with, and   *)
(* no other second has been ingested.                                      *)
(***************************************************************************)
EXTENDS Integers

CONSTANTS Sources, MaxClock

VARIABLES
    cursor,     \* the next second to collect, or NoCursor
    base,       \* the first second collected since the reset
    count       \* how often each second was ingested since the reset

cursorVars == <<cursor, base, count>>

Seconds == 0 .. MaxClock
NoCursor == -1

Init ==
    /\ cursor = [s \in Sources |-> NoCursor]
    /\ base = [s \in Sources |-> 0]
    /\ count = [s \in Sources |-> [t \in Seconds |-> 0]]

\* The seconds from .. to - 1 are ingested: from the cursor, or from anywhere when
\* there is none.
Collect(s, from, to) ==
    /\ from <= to
    /\ cursor[s] \in {NoCursor, from}
    /\ cursor' = [cursor EXCEPT ![s] = to]
    /\ base' = [base EXCEPT ![s] = IF cursor[s] = NoCursor THEN from ELSE @]
    /\ count' = [count EXCEPT ![s] =
                   [t \in Seconds |-> IF from <= t /\ t < to
                                      THEN count[s][t] + 1 ELSE count[s][t]]]

Reset(s) ==
    /\ cursor' = [cursor EXCEPT ![s] = NoCursor]
    /\ base' = [base EXCEPT ![s] = 0]
    /\ count' = [count EXCEPT ![s] = [t \in Seconds |-> 0]]

Next == \E s \in Sources :
            \/ Reset(s)
            \/ \E from, to \in Seconds : Collect(s, from, to)

Spec == Init /\ [][Next]_cursorVars

\* Nothing behind the cursor is missing, nothing is ingested twice, and nothing
\* beyond the cursor has been ingested.
ExactlyOnce ==
    \A s \in Sources : \A t \in Seconds :
        count[s][t] = IF cursor[s] # NoCursor /\ base[s] <= t /\ t < cursor[s] THEN 1 ELSE 0
=============================================================================
