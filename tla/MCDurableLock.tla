--------------------------- MODULE MCDurableLock ---------------------------
(* Two handles in one process and one in another.                          *)
EXTENDS DurableLock

CONSTANTS p, q, h1, h2, h3

MCProcOf == [h \in {h1, h2, h3} |-> IF h = h3 THEN q ELSE p]

=============================================================================
