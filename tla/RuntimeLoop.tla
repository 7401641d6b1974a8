---------------------------- MODULE RuntimeLoop ----------------------------
(***************************************************************************)
(* The bounded state machine of one autonomous run                         *)
(* (internal/autonomy/runtime_loop.go): every method of RuntimeLoop as an  *)
(* operator from the loop before to the loop after.  It holds no lock and  *)
(* no state of its own; its callers say who may call it when.              *)
(*                                                                         *)
(* Attempts and execution steps are counted by the same statement, so one  *)
(* bound, the smaller of the two, stands for both.  Of the tokens only     *)
(* whether they are overspent is kept.                                     *)
(***************************************************************************)
EXTENDS Integers

CONSTANTS
  MaxAttempts,            \* the smaller of MaxAttempts and MaxExecutionSteps
  MaxRecoveryCycles,
  MaxIdenticalDecisions

ASSUME LoopAssumption ==
  /\ MaxAttempts \in Nat \ {0}
  /\ MaxRecoveryCycles \in Nat \ {0}
  /\ MaxIdenticalDecisions \in Nat \ {0}

LoopStates ==
  {"idle", "observing", "deciding", "executing", "verifying", "interpreting",
   "recovering", "awaiting_human", "completed", "unsubstantiated", "aborted"}
LoopActions ==
  {"continue", "retry", "repair", "complete", "unsubstantiate", "ask_human", "abort"}
ExecutionBound == {"continue", "retry", "repair"}

Loops ==
  [state: LoopStates, attempts: Nat, cycles: Nat, identical: Nat,
   last: LoopActions \union {"none"}, overspent: BOOLEAN, held: BOOLEAN]

NewLoop ==
  [state |-> "idle", attempts |-> 0, cycles |-> 0, identical |-> 0,
   last |-> "none", overspent |-> FALSE, held |-> FALSE]

Over(loop)    == loop.state \in {"completed", "unsubstantiated", "aborted"}
Waiting(loop) == loop.state = "awaiting_human"

-----------------------------------------------------------------------------
(* Bounds.                                                                 *)

\* Mutant: the attempts are not a bound.
MutantViolated(loop) == loop.identical > MaxIdenticalDecisions \/ loop.overspent

(* violation: some bound is crossed.                                       *)
Violated(loop) ==
  \/ loop.attempts >= MaxAttempts
  \/ loop.identical > MaxIdenticalDecisions
  \/ loop.overspent

(* recordUsage.                                                            *)
Used(loop, a) ==
  [loop EXCEPT !.last = a,
               !.identical = CASE a \notin ExecutionBound -> 0
                               [] a \in ExecutionBound /\ a = loop.last -> @ + 1
                               [] OTHER -> 1]

(* legalFrom.                                                              *)
Legal(state, a) ==
  \/ state \in {"deciding", "interpreting"}
  \/ state = "recovering" /\ a \in ExecutionBound \union {"ask_human", "abort"}
  \/ state = "awaiting_human" /\ a = "abort"

-----------------------------------------------------------------------------
(* Step.                                                                   *)

Successor ==
  [a \in LoopActions |->
     CASE a \in {"continue", "retry"} -> "executing"
       [] a = "repair"                -> "recovering"
       [] a = "complete"              -> "completed"
       [] a = "unsubstantiate"        -> "unsubstantiated"
       [] a = "ask_human"             -> "awaiting_human"
       [] a = "abort"                 -> "aborted"]

(* applyDecision; "patch" is whether the decision names a held patch.      *)
Decided(loop, a, patch) ==
  [Used(loop, a) EXCEPT !.state  = Successor[a],
                        !.cycles = IF a = "repair" THEN @ + 1 ELSE @,
                        !.held   = IF a = "ask_human" THEN patch ELSE @]

Spent(loop, a) ==
  \/ a = "repair" /\ loop.cycles >= MaxRecoveryCycles
  \/ a \in ExecutionBound /\ Violated(loop)

(* Step returns an error and changes nothing.                              *)
StepRefused(loop, a, cancelled) ==
  Over(loop) \/ (~cancelled /\ ~Spent(loop, a) /\ ~Legal(loop.state, a))

Aborted(loop) == [loop EXCEPT !.state = "aborted"]

Stepped(loop, a, cancelled, patch) ==
  LET next == Decided(loop, a, patch) IN
  IF cancelled \/ Spent(loop, a) THEN Aborted(loop)
  ELSE IF a \in ExecutionBound /\ Violated(next) THEN Aborted(next) ELSE next

-----------------------------------------------------------------------------
(* The other methods; each leaves a loop it does not apply to as it is,    *)
(* except Abort, which ends any loop, one that is over included.           *)

When(loop, state, next) == IF loop.state = state THEN next ELSE loop

Started(loop)  == When(loop, "idle", [loop EXCEPT !.state = "observing"])
Observed(loop) == When(loop, "observing", [loop EXCEPT !.state = "deciding"])

(* ConsumeExecution and ConsumeVerification.                               *)
Consumed(loop, over) ==
  When(loop, "executing",
       [loop EXCEPT !.state = "interpreting", !.attempts = @ + 1, !.overspent = @ \/ over])

Parked(loop, patch) ==
  IF Over(loop) THEN loop ELSE [loop EXCEPT !.state = "awaiting_human", !.held = patch]
Released(loop) ==
  When(loop, "awaiting_human", [loop EXCEPT !.state = "observing", !.held = FALSE])

=============================================================================
