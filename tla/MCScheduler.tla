---------------------------- MODULE MCScheduler ----------------------------
EXTENDS SchedulerProperties, TLC
Symmetry == Permutations(Requests)
=============================================================================
