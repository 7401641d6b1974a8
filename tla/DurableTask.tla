---------------------------- MODULE DurableTask ----------------------------
(***************************************************************************)
(* One durable task: the events the journal records about it and the state *)
(* a replay folds them into (internal/runtime/durable, store.go and        *)
(* types.go).  Shared by the ledger and by the driver that writes to it.   *)
(***************************************************************************)
EXTENDS Integers, Sequences, FiniteSets, SequencesExt

CONSTANTS
  Tasks,     \* task identities
  Ops,       \* operation identities
  NoOp,      \* the empty operation id
  Digests,   \* worktree digests
  NoDigest   \* the empty digest

ASSUME TaskAssumption ==
  /\ NoOp \notin Ops
  /\ NoDigest \notin Digests

-----------------------------------------------------------------------------
(* Events, by the fields the fold reads.                                   *)

Event(t, type) ==
  [task |-> t, type |-> type, op |-> NoOp, pre |-> NoDigest,
   post |-> NoDigest, ok |-> FALSE, over |-> FALSE]

TaskCreated(t)           == Event(t, "TASK_CREATED")
CheckpointCreated(t)     == Event(t, "CHECKPOINT_CREATED")
FailureClassified(t)     == Event(t, "FAILURE_CLASSIFIED")
WorkerHandoff(t)         == Event(t, "WORKER_HANDOFF")
TaskPaused(t)            == Event(t, "TASK_PAUSED")
AuditLineage(t)          == Event(t, "PHASE_TRANSITION")
LockReclaimed(t)         == Event(t, "STALE_LOCK_RECLAIMED")
TargetConflict(t, op)    == [Event(t, "TARGET_CONFLICT") EXCEPT !.op = op]
CursorDispatched(t, op, pre, post) ==
  [Event(t, "CURSOR_DISPATCHED") EXCEPT !.op = op, !.pre = pre, !.post = post]
ExecutionCommitted(t, op, post) ==
  [Event(t, "EXECUTION_COMMITTED") EXCEPT !.op = op, !.post = post]
VerificationResult(t, op, ok) ==
  [Event(t, "VERIFICATION_RESULT") EXCEPT !.op = op, !.ok = ok]
TerminalResult(t, op, ok) ==
  [VerificationResult(t, op, ok) EXCEPT !.over = TRUE]

-----------------------------------------------------------------------------
(* The materialised view: one task state per identity.                     *)

NoCursor == [op |-> NoOp, status |-> "NONE", pre |-> NoDigest, post |-> NoDigest]
Absent   == [status |-> "ABSENT", cursor |-> NoCursor]

Cursors ==
  [op: Ops \union {NoOp}, status: {"NONE", "PENDING", "DISPATCHED", "COMMITTED", "CONFLICT"},
   pre: Digests \union {NoDigest}, post: Digests \union {NoDigest}]
TaskStates ==
  [status: {"ABSENT", "CREATED", "RUNNING", "PAUSED", "INTERRUPTED", "RE_PLAN",
            "COMPLETED", "FAILED"},
   cursor: Cursors]

HasCursor(state) == state.cursor.status # "NONE"
Terminal(state)  == state.status \in {"COMPLETED", "FAILED"}

(* ensureTask: an event of an unknown task brings it up as RUNNING.        *)
Ensured(state) ==
  IF state.status = "ABSENT" THEN [state EXCEPT !.status = "RUNNING"] ELSE state

(* The commit marker counts only for the operation the cursor is on.       *)
Committed(state, e) ==
  IF HasCursor(state) /\ e.op \in {NoOp, state.cursor.op}
  THEN [state EXCEPT !.cursor.status = "COMMITTED",
                     !.cursor.post = IF e.post = NoDigest THEN @ ELSE e.post]
  ELSE state

Verified(state, e) ==
  [state EXCEPT !.cursor = IF e.ok THEN NoCursor ELSE @,
                !.status = CASE e.over /\ e.ok  -> "COMPLETED"
                             [] e.over /\ ~e.ok -> "FAILED"
                             [] OTHER           -> @]

(* apply, as far as the task of the event goes.                            *)
Folded(state, e) ==
  LET s == Ensured(state) IN
  CASE e.type = "TASK_CREATED"        ->
         IF state.status = "ABSENT" THEN [state EXCEPT !.status = "CREATED"] ELSE state
    [] e.type = "CURSOR_DISPATCHED"   ->
         [status |-> "RUNNING",
          cursor |-> [op |-> e.op, status |-> "DISPATCHED", pre |-> e.pre, post |-> e.post]]
    [] e.type = "EXECUTION_COMMITTED" -> Committed(s, e)
    [] e.type = "VERIFICATION_RESULT" -> Verified(s, e)
    [] e.type = "CHECKPOINT_CREATED"  ->
         [s EXCEPT !.status = IF @ = "CREATED" THEN "RUNNING" ELSE @]
    [] e.type = "TARGET_CONFLICT"     ->
         [status |-> "RE_PLAN",
          cursor |-> IF HasCursor(s) THEN [s.cursor EXCEPT !.status = "CONFLICT"] ELSE NoCursor]
    [] e.type = "FAILURE_CLASSIFIED"  ->
         [s EXCEPT !.status = IF @ = "RUNNING" THEN "INTERRUPTED" ELSE @]
    [] e.type = "WORKER_HANDOFF"      ->
         [s EXCEPT !.status = IF @ = "INTERRUPTED" THEN "RUNNING" ELSE @]
    [] e.type = "TASK_PAUSED"         -> [s EXCEPT !.status = "PAUSED"]
    [] e.type = "PHASE_TRANSITION"    -> s
    [] OTHER                          -> state

Applied(tasks, e) == [tasks EXCEPT ![e.task] = Folded(@, e)]

-----------------------------------------------------------------------------
(* What the surviving digests say of an operation.                         *)

\* Mutant: what is neither before nor after is taken for done.
MutantReconcile(cursor, d) == IF d = cursor.pre THEN "SAFE_RETRY" ELSE "ALREADY_COMMITTED"

(* Reconcile: the postcondition wins over the precondition.                *)
Reconcile(cursor, d) ==
  CASE d = cursor.post -> "ALREADY_COMMITTED"
    [] d # cursor.post /\ d = cursor.pre -> "SAFE_RETRY"
    [] OTHER -> "CONFLICT"

(* InspectCursors, which changes nothing: the marker of a commit is        *)
(* believed unless the tree has left the digest recorded with it.          *)
Inspection(state, d) ==
  LET cursor == state.cursor IN
  CASE cursor.status = "NONE" -> "UNKNOWN"
    [] cursor.status = "COMMITTED" ->
         IF cursor.post \in {NoDigest, d} THEN "ALREADY_COMMITTED" ELSE "CONFLICT"
    [] cursor.status = "CONFLICT" -> "CONFLICT"
    [] OTHER -> Reconcile(cursor, d)

-----------------------------------------------------------------------------
(* STALE_LOCK_RECLAIMED may carry no task; the fold does not look at it.   *)
AnyTask == CHOOSE t \in Tasks : TRUE

EventSet ==
  [task: Tasks,
   type: {"TASK_CREATED", "CURSOR_DISPATCHED", "EXECUTION_COMMITTED",
          "VERIFICATION_RESULT", "CHECKPOINT_CREATED", "TARGET_CONFLICT",
          "FAILURE_CLASSIFIED", "WORKER_HANDOFF", "TASK_PAUSED",
          "PHASE_TRANSITION", "STALE_LOCK_RECLAIMED"},
   op: Ops \union {NoOp}, pre: Digests \union {NoDigest},
   post: Digests \union {NoDigest}, ok: BOOLEAN, over: BOOLEAN]

=============================================================================
