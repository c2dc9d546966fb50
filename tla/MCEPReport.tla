----------------------------- MODULE MCEPReport -----------------------------
(* Instances of EPReport for TLC: half-second ticks.                        *)
EXTENDS EPReport

\* Report intervals of one second, one and a half, and two.
AllIntervals == {2, 3, 4}
=============================================================================
