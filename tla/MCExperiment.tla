---------------------------- MODULE MCExperiment ----------------------------
EXTENDS Experiment

TwoPolicies == <<"single", "timed">>

\* Two attempts at one output, and one at another, on the same port.
SharedPath == [a \in Attempts |-> IF a = 3 THEN "other.json" ELSE "report.json"]
=============================================================================
