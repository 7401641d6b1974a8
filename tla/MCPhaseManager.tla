--------------------------- MODULE MCPhaseManager ---------------------------
\* The instance that TLC checks: the failures callers report, and unreliable
\* checkpoints and lineage writes.
EXTENDS PhaseManager

MCReported == {"code", "unknown"}
=============================================================================
