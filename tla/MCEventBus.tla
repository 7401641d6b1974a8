----------------------------- MODULE MCEventBus -----------------------------
(* An instance of EventBus: a subscription to everything, named "all", or    *)
(* else to the control type.                                                 *)
EXTENDS EventBus

MCTypes    == {"task", "tick"}
MCControl  == {"task"}
Mixed      == [s \in Subs |-> IF s = "all" THEN AllTypes ELSE "task"]
SameHandler == [s \in Subs |-> "h"]
=============================================================================
