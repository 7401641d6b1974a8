------------------------- MODULE MCIdempotentRunner -------------------------
(* Two tasks with one operation each, the second planned from where the    *)
(* first ends, and a digest nobody plans for.                              *)
EXTENDS IdempotentRunner

CONSTANTS t1, t2, o1, o2, d0, d1, d2

MCTaskOf == o1 :> t1 @@ o2 :> t2
MCPre    == o1 :> d0 @@ o2 :> d1
MCPost   == o1 :> d1 @@ o2 :> d2

=============================================================================
