---------------------------- MODULE DetectorDays ----------------------------
(* What the detectors of deepsnout/engine.py have in common: now, the days, *)
(* and the settings that say which days are the reference.                  *)
EXTENDS Integers

CONSTANTS
    Day,        \* the length of a day
    Baseline,   \* baseline_days
    Minimum     \* minimum_days

VARIABLE clock

DayOf(t) == t \div Day
=============================================================================
