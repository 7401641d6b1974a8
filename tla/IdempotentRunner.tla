-------------------------- MODULE IdempotentRunner --------------------------
(***************************************************************************)
(* Operations run under cursors: RuntimeEngine.ExecuteProposal (engine.go) *)
(* reconciles what an earlier process left behind, and the gateway's       *)
(* executor (scopeguard/gateway.go) runs the operation through             *)
(* IdempotentRunner.Run (durable/cursor.go) over the ledger of             *)
(* DurableLedger.  The worktree is one digest; other programs may change   *)
(* it at any moment, and the process may die at any moment.                *)
(***************************************************************************)
EXTENDS DurableLedger

CONSTANTS
  TaskOf,     \* the task of each operation
  Pre, Post,  \* the digests an operation is planned from and to
  MaxForeign, \* bound on the changes other programs make to the tree
  MaxCalls    \* bound on the proposals executed

ASSUME RunnerAssumption ==
  /\ TaskOf \in [Ops -> Tasks]
  /\ Pre \in [Ops -> Digests]
  /\ Post \in [Ops -> Digests]
  /\ MaxForeign \in Nat
  /\ MaxCalls \in Nat

VARIABLES
  tree,     \* the digest of the worktree
  call,     \* per process, the proposal it is executing
  todo,     \* per process, the tasks ReconcileAll has not come to yet
  effects,  \* per operation, how often its effect changed the tree
  licences, \* per operation, how often it was allowed to
  seen,     \* operations that finished, or were found finished
  foreign,  \* changes made by other programs so far
  calls     \* proposals so far

runVars == <<tree, call, todo, effects, licences, seen, foreign, calls>>
vars == <<ledgerVars, runVars>>

-----------------------------------------------------------------------------
Idle == [pc |-> "idle", op |-> NoOp, live |-> FALSE, pre |-> NoDigest, post |-> NoDigest]

Init ==
  /\ LedgerInit
  /\ tree \in Digests
  /\ call = [s \in Stores |-> Idle]
  /\ todo = [s \in Stores |-> {}]
  /\ effects = [o \in Ops |-> 0]
  /\ licences = [o \in Ops |-> IF Pre[o] = tree THEN 1 ELSE 0]
  /\ seen = {}
  /\ foreign = 0
  /\ calls = 0

Goto(s, pc) == call' = [call EXCEPT ![s].pc = pc]
Return(s)   == call' = [call EXCEPT ![s] = Idle]

(* The tree becomes d; an operation whose precondition comes about may run *)
(* (once more).                                                            *)
TreeBecomes(d) ==
  /\ tree' = d
  /\ licences' = [o \in Ops |-> licences[o] + (IF Pre[o] = d /\ tree # d THEN 1 ELSE 0)]

SameTree == UNCHANGED <<tree, licences>>

(* Record event e; on success go to pc, on any error return.               *)
Recording(s, e, pc) ==
  \E note, outcome \in Outcomes :
    /\ Record(s, e, note, outcome)
    /\ IF outcome = "synced" THEN Goto(s, pc) ELSE Return(s)

-----------------------------------------------------------------------------
(* ExecuteProposal begins.  A live call (ExecuteAuthorized) takes whatever *)
(* the tree is now for its precondition and names no postcondition; a      *)
(* planned one names both.                                                 *)

Pending(state) == state.cursor.status \in {"PENDING", "DISPATCHED"}

Propose(s, o, live) ==
  /\ store[s].up
  /\ call[s].pc = "idle"
  /\ calls < MaxCalls
  /\ calls' = calls + 1
  /\ call' = [call EXCEPT ![s] = [pc |-> "reconcile", op |-> o, live |-> live,
                                  pre |-> Pre[o],
                                  post |-> IF live THEN NoDigest ELSE Post[o]]]
  /\ todo' = [todo EXCEPT ![s] = {t \in Tasks : Pending(store[s].tasks[t])}]
  /\ UNCHANGED <<ledgerVars, tree, effects, licences, seen, foreign>>

(* ReconcileAll, one task at a time in no fixed order.  A commit and a     *)
(* conflict are recorded; a safe retry changes the cursor in memory only.  *)
ReconcileTask(s, t) ==
  LET cursor   == store[s].tasks[t].cursor
      decision == Reconcile(cursor, tree)
  IN /\ call[s].pc = "reconcile"
     /\ t \in todo[s]
     /\ todo' = [todo EXCEPT ![s] = @ \ {t}]
     /\ \/ /\ decision = "ALREADY_COMMITTED"
           /\ Recording(s, ExecutionCommitted(t, cursor.op, NoDigest), "reconcile")
           /\ seen' = seen \union (IF tree = cursor.post THEN {cursor.op} ELSE {})
        \/ /\ decision = "CONFLICT"
           /\ Recording(s, TargetConflict(t, cursor.op), "reconcile")
           /\ UNCHANGED seen
        \/ /\ decision = "SAFE_RETRY"
           /\ store' = [store EXCEPT ![s].tasks[t].cursor.status = "PENDING",
                                     ![s].exact = @ /\ cursor.status = "PENDING"]
           /\ UNCHANGED <<ledger, staleLock, faults, call, seen>>
     /\ SameTree
     /\ UNCHANGED <<effects, foreign, calls>>

\* Mutant: a reconciliation that stops half-way is taken for a finished one.
MutantAfterFailure(s) == Goto(s, "reconcile")

AfterFailure(s) == Return(s)

(* The digest of a task's scope cannot be computed: ReconcileAll returns,  *)
(* whatever it had not come to.                                            *)
ReconcileFails(s) ==
  /\ call[s].pc = "reconcile"
  /\ todo[s] # {}
  /\ AfterFailure(s)
  /\ todo' = [todo EXCEPT ![s] = {}]
  /\ UNCHANGED <<ledgerVars, tree, effects, licences, seen, foreign, calls>>

-----------------------------------------------------------------------------
(* IdempotentRunner.Run.                                                   *)

Settled(s) ==
  LET cursor == store[s].tasks[TaskOf[call[s].op]].cursor
  IN cursor.op = call[s].op /\ cursor.status = "COMMITTED"

\* Mutant: the fast path is left out and the precondition is not compared.
MutantNextStep(s, pre, d) == IF d = pre \/ d = call[s].post THEN "dispatch" ELSE "conflict"

(* Where Run goes with the digest it read.                                 *)
NextStep(s, pre, d) ==
  CASE d = call[s].post /\ Settled(s) -> "verify"
    [] d = call[s].post /\ ~Settled(s) -> "redispatch"
    [] OTHER -> IF d = pre THEN "dispatch" ELSE "conflict"

ReadDigest(s) ==
  LET pre == IF call[s].live THEN tree ELSE call[s].pre IN
  /\ call[s].pc = "reconcile"
  /\ todo[s] = {}
  /\ call' = [call EXCEPT ![s].pre = pre, ![s].pc = NextStep(s, pre, tree)]
  /\ seen' = seen \union (IF tree = call[s].post THEN {call[s].op} ELSE {})
  /\ licences' = [licences EXCEPT ![call[s].op] = @ + (IF call[s].live THEN 1 ELSE 0)]
  /\ UNCHANGED <<ledgerVars, tree, todo, effects, foreign, calls>>

(* What a process that stands at a recording step is about to record.      *)
Intended(s) ==
  LET o == call[s].op
      t == TaskOf[o]
  IN CASE call[s].pc \in {"dispatch", "redispatch"} ->
            {CursorDispatched(t, o, call[s].pre, call[s].post)}
       [] call[s].pc = "commit"   -> {ExecutionCommitted(t, o, NoDigest)}
       [] call[s].pc = "conflict" -> {TargetConflict(t, o)}
       [] call[s].pc = "verify"   -> {VerificationResult(t, o, ok) : ok \in BOOLEAN}
       [] OTHER -> {}

Following(pc) ==
  CASE pc = "dispatch"   -> "effect"
    [] pc = "redispatch" -> "commit"
    [] pc = "commit"     -> "verify"
    [] OTHER             -> "return"

(* DispatchCursor, CommitExecution, RecordConflict and RecordVerification. *)
(* An error of the first two ends the call; the last two end it anyway.    *)
RecordStep(s) ==
  /\ \E e \in Intended(s), note, outcome \in Outcomes :
       /\ Record(s, e, note, outcome)
       /\ IF outcome = "synced" /\ Following(call[s].pc) # "return"
          THEN Goto(s, Following(call[s].pc)) ELSE Return(s)
  /\ SameTree
  /\ UNCHANGED <<todo, effects, seen, foreign, calls>>

(* The effect runs: to its end, to an error half-way, or to an error       *)
(* before it touched anything.                                             *)
Effect(s) ==
  LET o == call[s].op IN
  /\ call[s].pc = "effect"
  /\ \/ /\ TreeBecomes(Post[o])
        /\ Goto(s, "commit")
        /\ effects' = [effects EXCEPT ![o] = @ + 1]
        /\ seen' = seen \union {o}
     \/ /\ \E d \in Digests \ {tree} : TreeBecomes(d)
        /\ Return(s)
        /\ effects' = [effects EXCEPT ![o] = @ + 1]
        /\ UNCHANGED seen
     \/ /\ SameTree
        /\ Return(s)
        /\ UNCHANGED <<effects, seen>>
  /\ UNCHANGED <<ledgerVars, todo, foreign, calls>>

-----------------------------------------------------------------------------
(* The world around: restarts, deaths and other programs.                  *)

Restart(s) ==
  /\ \E note \in Outcomes : Open(s, note)
  /\ UNCHANGED runVars

Forget(s) ==
  /\ call' = [call EXCEPT ![s] = Idle]
  /\ todo' = [todo EXCEPT ![s] = {}]

(* A process dies between two steps, inside an append, or inside an effect *)
(* that it leaves half done.                                               *)
Die(s) ==
  /\ Crash(s)
  /\ Forget(s)
  /\ \/ SameTree /\ UNCHANGED effects
     \/ /\ call[s].pc = "effect"
        /\ \E d \in Digests \ {tree} : TreeBecomes(d)
        /\ effects' = [effects EXCEPT ![call[s].op] = @ + 1]
  /\ UNCHANGED <<seen, foreign, calls>>

DieInAppend(s) ==
  /\ \E e \in Intended(s), outcome \in Outcomes : DieRecording(s, e, outcome)
  /\ Forget(s)
  /\ SameTree
  /\ UNCHANGED <<effects, seen, foreign, calls>>

ForeignChange ==
  /\ foreign < MaxForeign
  /\ foreign' = foreign + 1
  /\ \E d \in Digests \ {tree} : TreeBecomes(d)
  /\ UNCHANGED <<ledgerVars, call, todo, effects, seen, calls>>

Next ==
  \/ \E s \in Stores :
       \/ \E o \in Ops, live \in BOOLEAN : Propose(s, o, live)
       \/ \E t \in Tasks : ReconcileTask(s, t)
       \/ ReconcileFails(s) \/ ReadDigest(s) \/ RecordStep(s) \/ Effect(s)
       \/ Restart(s) \/ Die(s) \/ DieInAppend(s)
  \/ ForeignChange

Spec == Init /\ [][Next]_vars

-----------------------------------------------------------------------------
(* Properties.                                                             *)

(* An operation changes the tree at most once for every time the tree came *)
(* to be what the operation starts from (or a live call took the tree for  *)
(* that): no crash, lost answer or retry makes it run over its own result. *)
EffectsAreLicensed == \A o \in Ops : effects[o] <= licences[o]

(* A commit marker that a replay reads back belongs to an operation that   *)
(* ran to its end, or whose end was found in the tree.                     *)
CommitsAreEarned ==
  \A i \in DOMAIN ledger.lines :
    LET line == ledger.lines[i] IN
    line.sound /\ line.event.type = "EXECUTION_COMMITTED" => line.event.op \in seen

(* No effect starts while an operation of another task, interrupted        *)
(* earlier, has not been reconciled with the tree.                         *)
EffectsWaitForReconciliation ==
  \A s \in Stores :
    call[s].pc = "effect" =>
      \A t \in Tasks \ {TaskOf[call[s].op]} :
        store[s].tasks[t].cursor.status # "DISPATCHED"

=============================================================================
