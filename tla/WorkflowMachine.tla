------------------------- MODULE WorkflowMachine -------------------------
(***************************************************************************)
(* The lifecycle of a workflow, internal/core/workflow/machine.go: where   *)
(* an event leads from a state, what guards it, and the checkpoint that    *)
(* has to exist before a mutation may start.  A pure module: the machine   *)
(* itself is a variable of its owner, PhaseManager.                        *)
(*                                                                         *)
(* A request carries a context: whether there is a plan, whether the       *)
(* capabilities are granted, the class of a failure, and (a fact of the    *)
(* world, not of the code) whether a checkpoint can be made.  A rollback   *)
(* to the checkpoint, on a failure of class "scope", changes the workspace *)
(* and not the machine; no caller reports that class.                      *)
(***************************************************************************)

Parking == "awaiting_authorization"

WorkflowStates ==
    {"idle", "investigating", "planning", "building", "reviewing", "repairing",
     "verified", "failed", Parking}

Executable(s) == s \in {"building", "repairing"}

\* The edges that lead forward.
Moves == {<<"idle", "investigate", "investigating">>,
          <<"idle", "plan", "planning">>,
          <<"investigating", "plan", "planning">>,
          <<"planning", "build", "building">>,
          <<"building", "review", "reviewing">>,
          <<"reviewing", "verification-passed", "verified">>,
          <<"repairing", "build", "building">>,
          <<Parking, "build", "building">>}

FailureClasses == {"code", "environment", "test", "scope", "unknown"}

failureTarget == [code |-> "repairing", environment |-> "investigating",
                  test |-> "planning", scope |-> "planning",
                  unknown |-> "failed"]

FailsFrom == {"building", "reviewing", "repairing", Parking}

\* A plan is asked for on the way from planning only: a repair and a parked run
\* are resumed on their capabilities.
Guard(s, event, ctx) ==
    event = "build" => ctx.caps /\ (s = "planning" => ctx.plan)

\* Where the event leads; nowhere when it is refused.
lookup(s, event, ctx) ==
    CASE event \in {"user-interrupt", "reset"} -> {"idle"}
      [] event = "await-authorization" -> {Parking}
      [] event = "failure-identified" ->
            {failureTarget[ctx.class] : f \in FailsFrom \cap {s}}
      [] OTHER ->
            {m[3] : m \in {m \in Moves :
                              m[1] = s /\ m[2] = event /\ Guard(s, event, ctx)}}

SendEvent(s, event, ctx) ==
    LET admitted == {t \in lookup(s, event, ctx) :
                        Executable(t) /\ t # s => ctx.checkpoint}
    IN  IF admitted = {}
        THEN [state |-> s, ok |-> FALSE]
        ELSE [state |-> CHOOSE t \in admitted : TRUE, ok |-> TRUE]
=============================================================================
