-------------------------- MODULE MCDurableLedger --------------------------
(* One task and one operation, recorded by two processes.                  *)
EXTENDS DurableLedger

CONSTANTS t1, o1, d1, d2

MCEvents ==
  {CursorDispatched(t1, o1, d1, NoDigest), ExecutionCommitted(t1, o1, d2)}

(* The two processes are interchangeable.                                  *)
Interchangeable == Permutations(Stores)

=============================================================================
