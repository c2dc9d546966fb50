------------------------------- MODULE MCEPData -------------------------------
EXTENDS EPData
Seconds3 == 1..3
SmallLimits == 0..2
===============================================================================
