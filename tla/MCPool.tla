------------------------------- MODULE MCPool -------------------------------
EXTENDS PoolProps, TLC

CONSTANTS o1, n1  \* a run of the earlier release, and one of the later

Runs2 == {o1, n1}
RunsNew == {n1}
New1 == {n1}
=============================================================================
