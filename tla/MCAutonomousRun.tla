-------------------------- MODULE MCAutonomousRun --------------------------
(* One objective in a workspace of two digests.                            *)
EXTENDS AutonomousRun

CONSTANTS t1, d0, d1

MCOps == (1 .. MaxCalls) \X (0 .. MaxAttempts)

=============================================================================
