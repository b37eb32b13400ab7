-------------------------- MODULE MCExperimentAudit --------------------------
\* Two comparisons, room for one and a half of them.
EXTENDS ExperimentAudit

FirstRun == {<<1, 1>>}
SomeRuns == {<<1, 2>>, <<2, 1>>}
=============================================================================
