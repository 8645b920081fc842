---------------------------- MODULE MCExperiment ----------------------------
EXTENDS Experiment

MCN == [k \in Kinds |-> IF k = "themes" THEN 4 ELSE 1]
=============================================================================
