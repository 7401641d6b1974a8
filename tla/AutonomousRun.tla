--------------------------- MODULE AutonomousRun ---------------------------
(***************************************************************************)
(* The autonomy driver (internal/runtime/autonomy/driver.go) and what it   *)
(* writes to the durable task of its objective (ledger.go).                *)
(*                                                                         *)
(* Every Run and every Resume is a call of its own that drives the shared  *)
(* loop in its own goroutine; calls are numbered as the driver's runID     *)
(* numbers them.  The operator's Abort runs in yet another goroutine and   *)
(* the driver holds no lock, so a new Run may begin while an aborted call  *)
(* is still on its way out.  A step here is what a call does between two   *)
(* points at which it waits: the executor, a gate that observes the        *)
(* workspace, the context barrier and the writes to the journal.           *)
(* The process may die between any two steps; the task and the tree stay.  *)
(***************************************************************************)
EXTENDS DurableTask, RuntimeLoop

CONSTANTS
  MaxCalls,   \* bound on the calls of one process
  MaxFaults   \* bound on aborts, cancellations, deaths and lost journal writes

ASSUME DriverAssumption ==
  /\ MaxCalls \in Nat
  /\ MaxFaults \in Nat
  /\ (1 .. MaxCalls) \X (0 .. MaxAttempts) \subseteq Ops
  /\ Digests # {}   \* the workspace has one

VARIABLES
  task,       \* the durable task of the objective
  tree,       \* the digest of the workspace
  loop,       \* the driver's RuntimeLoop
  driver,     \* the driver's other fields
  call,       \* per call, where it stands
  cancelled,  \* the calls whose context is cancelled
  operator,   \* "idle", or "aborting" in the middle of an Abort
  earned,     \* operations whose effect reached the tree or was proven
  proven,     \* the last decision was a completion the authority proved
  overlap,    \* a Run has begun while an earlier call was on its way out
  used        \* aborts, deaths and lost writes so far

vars == <<task, tree, loop, driver, call, cancelled, operator, earned, proven,
          overlap, used>>

Calls == 1 .. MaxCalls
Outcomes ==
  {"none", "changed", "unchanged", "pending", "clarify", "rejected", "failed",
   "infeasible", "drift", "error"}

-----------------------------------------------------------------------------
NewDriver ==
  [runID |-> 0, request |-> 0, obs |-> "none", pendingOp |-> NoOp, committedOp |-> NoOp,
   lastState |-> "none", ready |-> FALSE, staged |-> FALSE, gated |-> FALSE]
NotCalled ==
  [pc |-> "none", op |-> NoOp, outcome |-> "none", decision |-> "none", late |-> 0]

Init ==
  /\ task = Absent
  /\ tree = CHOOSE d \in Digests : TRUE
  /\ loop = NewLoop
  /\ driver = NewDriver
  /\ call = [c \in Calls |-> NotCalled]
  /\ cancelled = {}
  /\ operator = "idle"
  /\ earned = {}
  /\ proven = FALSE
  /\ overlap = FALSE
  /\ used = [aborts |-> 0, crashes |-> 0, lost |-> 0]

(* The steps of a call that leave the tree, the ghosts and the operator be.*)
Elsewhere == UNCHANGED <<tree, cancelled, operator, earned, proven, overlap>>

Active(c) == call[c].pc \notin {"none", "done"}

\* Mutant: the loop is stepped with a context that nobody cancels.
MutantStops(c) == FALSE

(* The context the call was given, and hands on, is over.                  *)
Stops(c) == c \in cancelled

Goto(c, pc) ==
  call' = [call EXCEPT ![c] = [NotCalled EXCEPT !.pc = pc, !.late = call[c].late]]
Finish(c) == Goto(c, "done")

\* Mutant: the operation is numbered by the attempt that is still to come.
MutantOperationOf(d, l) == <<d.request, l.attempts + 1>>

(* ledgerOperationID: the Run's request and the loop's attempt counter.    *)
OperationOf(d, l) == <<d.request, l.attempts>>

(* ledgerPendingOp, or the current operation where none is latched.        *)
LatchedOp(d, l) == IF d.pendingOp = NoOp THEN OperationOf(d, l) ELSE d.pendingOp

-----------------------------------------------------------------------------
(* The journal.  A write that fails is reported and the loop goes on.      *)

Spend(what) ==
  /\ used.aborts + used.crashes + used.lost < MaxFaults
  /\ used' = [used EXCEPT ![what] = @ + 1]

(* Record the events in their order, all of them or, the disk being full,  *)
(* none.                                                                   *)
Records(ok, events) ==
  /\ IF ok THEN UNCHANGED used ELSE events # <<>> /\ Spend("lost")
  /\ task' = IF ok THEN FoldLeft(Folded, task, events) ELSE task

NoRecord == UNCHANGED <<task, used>>
If(cond, events) == IF cond THEN events ELSE <<>>

EndState(l) == IF Over(l) \/ Waiting(l) THEN l.state ELSE "none"

Ending(d, l) ==
  LET op == OperationOf(d, l) IN
  CASE l.state = "completed" -> <<TerminalResult(AnyTask, op, TRUE)>>
    [] l.state = "awaiting_human" -> <<TaskPaused(AnyTask)>>
    [] OTHER -> <<FailureClassified(AnyTask), TerminalResult(AnyTask, op, FALSE)>>

(* ledgerTerminal, which term() calls: an end and a park are written once, *)
(* a state equal to the last one written is not written again.             *)
TermEvents(d, l) ==
  If(d.ready /\ EndState(l) \notin {"none", d.lastState}, Ending(d, l))
Termed(d, l) ==
  IF d.ready /\ EndState(l) # "none" THEN [d EXCEPT !.lastState = EndState(l)] ELSE d

(* "return d.term()" with the loop l and the driver d, after the events.   *)
ReturnTerm(c, d, l, before) ==
  /\ loop' = l
  /\ driver' = Termed(d, l)
  /\ Finish(c)
  /\ \E ok \in BOOLEAN : Records(ok, before \o TermEvents(d, l))

(* Returns that go around term(): terminateAbort, and plain errors.        *)
ReturnBare(c, d, l) ==
  /\ loop' = l
  /\ driver' = d
  /\ Finish(c)

Continue(c, d, l, pc) ==
  /\ loop' = l
  /\ driver' = d
  /\ Goto(c, pc)

-----------------------------------------------------------------------------
(* Run.                                                                    *)

(* ledgerBeginRun: an open task is continued, any other is created anew.   *)
BeginEvents == If(task.status = "ABSENT" \/ Terminal(task), <<TaskCreated(AnyTask)>>)

(* A new Run is refused while the loop is neither fresh nor over.  It may  *)
(* fail to bind its contract before the task is opened, be refused after,  *)
(* park for a clarification, or go on.                                     *)
Run(c) ==
  LET fresh == [NewDriver EXCEPT !.runID = c, !.request = c]
      begun == Started(NewLoop)
      bound(ok) == [fresh EXCEPT !.ready = ok \/ BeginEvents = <<>>]
  IN /\ c = driver.runID + 1
     /\ loop.state = "idle" \/ Over(loop)
     /\ UNCHANGED <<tree, cancelled, operator, earned, proven>>
     /\ overlap' = (overlap \/ \E b \in Calls : Active(b))
     /\ \/ /\ ReturnBare(c, [fresh EXCEPT !.ready = driver.ready,
                                          !.lastState = driver.lastState,
                                          !.pendingOp = driver.pendingOp,
                                          !.committedOp = driver.committedOp],
                         Aborted(begun))
           /\ NoRecord
        \/ \E ok \in BOOLEAN :
             /\ Records(ok, BeginEvents)
             /\ \/ ReturnBare(c, bound(ok), Aborted(begun))
                \/ Continue(c, bound(ok), begun, "observe")
                \/ Continue(c, bound(ok), Parked(begun, FALSE), "return")

(* What is left of a call that only has to write how it ends.              *)
ReturnFrom(c) ==
  /\ call[c].pc = "return"
  /\ ReturnTerm(c, driver, loop, <<>>)
  /\ Elsewhere

-----------------------------------------------------------------------------
(* observeAndRun, before its loop: the context barriers, the observation   *)
(* and the admission gate.                                                 *)
Observe(c) ==
  LET l == Observed(loop) IN
  /\ call[c].pc = "observe"
  /\ Elsewhere
  /\ \/ ReturnTerm(c, driver, IF Waiting(l) THEN l ELSE Parked(l, FALSE), <<>>)
     \/ /\ ReturnBare(c, driver, Aborted(l))
        /\ NoRecord
     \/ /\ loop.state # "observing"
        /\ ReturnTerm(c, driver, loop, <<>>)
     \/ /\ loop.state = "observing"
        /\ Continue(c, driver, l, "head")
        /\ NoRecord

Route ==
  [s \in LoopStates |->
     CASE s \in {"deciding", "interpreting"} -> "decide"
       [] s = "executing"                    -> "prepare"
       [] s = "recovering"                   -> "repair"
       [] OTHER                              -> "return"]

(* The head of the loop: a checkpoint, the late-result guard, the          *)
(* cancellation gate.                                                      *)
LoopHead(c) ==
  LET checkpoint == If(driver.ready, <<CheckpointCreated(AnyTask)>>) IN
  /\ call[c].pc = "head"
  /\ Elsewhere
  /\ \/ /\ Over(loop)
        /\ ReturnTerm(c, driver, loop, <<>>)
     \/ /\ ~Over(loop)
        /\ driver.runID # c
        /\ ReturnTerm(c, driver, loop, checkpoint)
     \/ /\ ~Over(loop)
        /\ driver.runID = c
        /\ \E ok \in BOOLEAN : Records(ok, checkpoint)
        /\ \/ Stops(c)  /\ ReturnBare(c, [driver EXCEPT !.staged = FALSE], Aborted(loop))
           \/ ~Stops(c) /\ Continue(c, driver, loop, Route[loop.state])

-----------------------------------------------------------------------------
(* Deciding.  The matrix proposes by the outcome alone; of what it weighs  *)
(* among failures only the vocabulary is kept.                             *)
Proposed(obs) ==
  CASE obs = "none"                      -> {"continue"}
    [] obs \in {"changed", "unchanged"}  -> {"complete"}
    [] obs \in {"pending", "clarify"}    -> {"ask_human"}
    [] obs = "rejected"                  -> {"abort"}
    [] OTHER -> {"continue", "repair", "ask_human", "abort", "unsubstantiate"}

(* An objective nothing substantiates yet may go on where no human has     *)
(* decided, a refused completion or a failure alike.                       *)
Routed(a, gated) ==
  {a} \union (IF a = "unsubstantiate" /\ ~gated THEN {"continue", "repair"} ELSE {})

\* Mutant: a claim the authority refused stays a completion.
MutantRefused(gated) == {"complete", "abort", "ask_human", "unsubstantiate"}

(* What becomes of a completion the authority refuses.                     *)
Refused(gated) == {"abort", "ask_human"} \union Routed("unsubstantiate", gated)

Decide(c) ==
  /\ call[c].pc = "decide"
  /\ \E a \in Proposed(driver.obs) :
       \/ /\ a = "complete"
          /\ call' = [call EXCEPT ![c].pc = "gate", ![c].decision = a]
          /\ driver' = [driver EXCEPT !.staged = TRUE]
          /\ earned' = earned \union {LatchedOp(driver, loop)}
          /\ proven' = TRUE
       \/ /\ \E b \in IF a = "complete" THEN Refused(driver.gated)
                                     ELSE Routed(a, driver.gated) :
               call' = [call EXCEPT ![c].pc = "gate", ![c].decision = b]
          /\ driver' = [driver EXCEPT !.staged = FALSE]
          /\ proven' = FALSE
          /\ UNCHANGED earned
  /\ UNCHANGED <<task, tree, loop, cancelled, operator, overlap, used>>

(* The behavioural gate may take a completion back; a completion that is   *)
(* left commits what was staged, and the loop steps.                       *)
Gate(c) ==
  /\ call[c].pc = "gate"
  /\ Elsewhere
  /\ \E a \in IF call[c].decision = "complete"
              THEN {"complete", "ask_human", "unsubstantiate"} ELSE {call[c].decision} :
       LET op      == LatchedOp(driver, loop)
           commits == /\ driver.staged /\ a = "complete"
                      /\ driver.ready /\ driver.committedOp # op
           patch   == driver.obs = "pending"
           stops   == Stops(c)
       IN \E ok \in BOOLEAN :
            LET d == [driver EXCEPT !.staged = FALSE,
                                    !.committedOp = IF commits /\ ok THEN op ELSE @]
            IN /\ Records(ok, If(commits, <<ExecutionCommitted(AnyTask, op, NoDigest)>>))
               /\ \/ StepRefused(loop, a, stops)  /\ ReturnBare(c, d, loop)
                  \/ ~StepRefused(loop, a, stops) /\ Continue(c, d, Stepped(loop, a, stops, patch), "head")

-----------------------------------------------------------------------------
(* Executing.                                                              *)

(* ledgerMutationPrepared; a digest that cannot be computed writes nothing *)
(* and is one of the lost writes.                                          *)
Prepare(c) ==
  /\ call[c].pc = "prepare"
  /\ Elsewhere
  /\ \/ /\ ReturnBare(c, driver, Aborted(loop))
        /\ NoRecord
     \/ \E ok \in BOOLEAN :
          LET op == OperationOf(driver, loop) IN
          /\ Records(ok, If(driver.ready, <<CursorDispatched(AnyTask, op, tree, NoDigest)>>))
          /\ driver' = [driver EXCEPT !.pendingOp = IF driver.ready /\ ok THEN op ELSE @]
          /\ call' = [call EXCEPT ![c].pc = "execute", ![c].op = op]
          /\ UNCHANGED loop

(* The executor: a change that earned, a refusal, a failure that may have  *)
(* touched the tree, or no answer at all.                                  *)
Execute(c) ==
  /\ call[c].pc = "execute"
  /\ \E outcome \in Outcomes \ {"none"} :
       /\ call' = [call EXCEPT ![c].pc = "result", ![c].outcome = outcome,
                               ![c].late = @ + (IF c \in cancelled THEN 1 ELSE 0)]
       /\ \/ /\ outcome \in {"changed", "failed"}
             /\ tree' \in Digests \ {tree}
             /\ earned' = earned \union {call[c].op}
          \/ /\ outcome # "changed"
             /\ UNCHANGED <<tree, earned>>
  /\ UNCHANGED <<task, loop, driver, cancelled, operator, proven, overlap, used>>

\* Mutant: any answer counts as a mutation that landed.
MutantShowsCommit(outcome) == outcome # "error"

(* mutationObservedCommitted.                                              *)
ShowsCommit(outcome) == outcome = "changed"

\* Mutant: an error of the executor is tried again.
MutantAfterError(c) == Goto(c, "head")

AfterError(c) == Finish(c)

(* The result of an execution: the late-result guard, the commit marker    *)
(* with the digest observed now, and the verdicts of the control plane,    *)
(* which are not executions.                                               *)
Result(c) ==
  LET outcome == call[c].outcome
      op      == LatchedOp(driver, loop)
      commits == driver.ready /\ ShowsCommit(outcome) /\ driver.committedOp # op
      stops   == Stops(c)
  IN /\ call[c].pc = "result"
     /\ Elsewhere
     /\ \/ /\ driver.runID # c
           /\ ReturnTerm(c, driver, loop, <<>>)
        \/ /\ driver.runID = c
           /\ outcome = "error"
           /\ AfterError(c)
           /\ UNCHANGED <<loop, driver>>
           /\ NoRecord
        \/ /\ driver.runID = c
           /\ outcome # "error"
           /\ \E ok \in BOOLEAN :
                LET d == [driver EXCEPT !.obs = outcome,
                                        !.committedOp = IF commits /\ ok THEN op ELSE @]
                IN /\ Records(ok, If(commits, <<ExecutionCommitted(AnyTask, op, tree)>>))
                   /\ \/ /\ outcome = "infeasible"
                         /\ Continue(c, d, IF stops THEN loop ELSE Parked(loop, FALSE), "return")
                      \/ /\ outcome = "drift"
                         /\ IF StepRefused(loop, "abort", stops) THEN ReturnBare(c, d, loop)
                            ELSE Continue(c, d, Stepped(loop, "abort", stops, FALSE), "head")
                      \/ /\ outcome \notin {"infeasible", "drift"}
                         /\ Continue(c, d, loop, "consume")

(* ConsumeExecution, ConsumeVerification and ledgerObserved; then a breach *)
(* of the output budget ends the run and an ambiguous anchor parks it.     *)
Consume(c) ==
  /\ call[c].pc = "consume"
  /\ Elsewhere
  /\ \E over, passed, ok \in BOOLEAN :
       LET l        == Consumed(loop, over)
           observed == If(driver.ready,
                          <<VerificationResult(AnyTask, OperationOf(driver, l), passed)>>)
       IN /\ passed => driver.obs # "failed"
          /\ \/ /\ Records(ok, observed)
                /\ Continue(c, driver, l, "head")
             \/ /\ driver.obs = "failed"
                /\ Records(ok, observed)
                /\ ReturnBare(c, driver, Aborted(l))
             \/ /\ driver.obs = "failed"
                /\ Records(ok, observed)
                /\ Continue(c, driver, Parked(l, FALSE), "return")

(* Recovering: a new request, a halt that parks, or an error.              *)
Repair(c) ==
  LET stops == Stops(c) IN
  /\ call[c].pc = "repair"
  /\ Elsewhere
  /\ \/ /\ ReturnBare(c, driver, loop)
        /\ NoRecord
     \/ ReturnTerm(c, [driver EXCEPT !.gated = TRUE], Parked(loop, FALSE), <<>>)
     \/ /\ NoRecord
        /\ IF StepRefused(loop, "continue", stops) THEN ReturnBare(c, driver, loop)
           ELSE Continue(c, driver, Stepped(loop, "continue", stops, FALSE), "head")

-----------------------------------------------------------------------------
(* The human at a boundary.                                                *)

Resumable(c) == Waiting(loop) /\ c = driver.runID + 1

(* The driver and the loop after an answer: call c observes again, or the  *)
(* run is aborted without a record of how it ended and without a number    *)
(* being taken.                                                            *)
Answered(c, d, goesOn) ==
  IF goesOn THEN Continue(c, [d EXCEPT !.gated = TRUE, !.runID = c], Released(loop), "observe")
  ELSE Continue(c, [d EXCEPT !.gated = TRUE], Aborted(Released(loop)), "done")

(* ResumeApprove: the held patch lands and its commit is recorded under    *)
(* the operation that was dispatched; or it fails, and may have touched    *)
(* the tree, or is no longer there; or it changed nothing, was stopped and *)
(* rolled back, or met other ground than it was made for, and the loop     *)
(* decides on that without a record.  The patch is applied in one step.    *)
Approve(c) ==
  LET op      == LatchedOp(driver, loop)
      commits == driver.ready /\ driver.committedOp # op
  IN /\ Resumable(c)
     /\ loop.held
     /\ UNCHANGED <<cancelled, operator, proven, overlap>>
     /\ \/ /\ tree' \in Digests \ {tree}
           /\ earned' = earned \union {op}
           /\ \E ok \in BOOLEAN :
                /\ Records(ok, If(commits, <<ExecutionCommitted(AnyTask, op, tree')>>))
                /\ Answered(c, [driver EXCEPT !.obs = "changed",
                                   !.committedOp = IF commits /\ ok THEN op ELSE @], TRUE)
        \/ /\ Answered(c, driver, FALSE)
           /\ NoRecord
           /\ \/ UNCHANGED <<tree, earned>>
              \/ tree' \in Digests \ {tree} /\ earned' = earned \union {op}
        \/ \E outcome \in {"unchanged", "rejected", "failed"} :
             /\ Answered(c, [driver EXCEPT !.obs = outcome], TRUE)
             /\ NoRecord
             /\ \/ UNCHANGED <<tree, earned>>
                \/ /\ outcome = "rejected"
                   /\ tree' \in Digests \ {tree}
                   /\ earned' = earned \union {op}

(* ResumeReject, and a rejection with nothing left to reject.              *)
Reject(c) ==
  /\ Resumable(c)
  /\ loop.held
  /\ \/ Answered(c, [driver EXCEPT !.obs = "rejected"], TRUE)
     \/ Answered(c, driver, FALSE)
  /\ NoRecord
  /\ Elsewhere

(* ResumeClarify and ResumeWithProposal: go on with a new scope, or cancel.*)
Clarify(c) ==
  /\ Resumable(c)
  /\ \E goesOn \in BOOLEAN : Answered(c, [driver EXCEPT !.obs = "none"], goesOn)
  /\ NoRecord
  /\ Elsewhere

-----------------------------------------------------------------------------
(* The operator and the end of the process.                                *)

(* Abort looks whether the loop is over and cancels the Run's context; it  *)
(* ends the loop, whatever has become of it, in a second step.             *)
BeginAbort ==
  /\ operator = "idle"
  /\ loop.state # "idle" /\ ~Over(loop)
  /\ Spend("aborts")
  /\ cancelled' = cancelled \union {driver.request}
  /\ driver' = [driver EXCEPT !.staged = FALSE]
  /\ operator' = "aborting"
  /\ UNCHANGED <<task, tree, loop, call, earned, proven, overlap>>

EndAbort ==
  /\ operator = "aborting"
  /\ loop' = Aborted(loop)
  /\ operator' = "idle"
  /\ UNCHANGED <<task, tree, driver, call, cancelled, earned, proven, overlap, used>>

(* An Abort that finds the loop over already, and Termination: the end is  *)
(* written if it has not been.                                             *)
Termination ==
  /\ driver' = Termed(driver, loop)
  /\ \E ok \in BOOLEAN : Records(ok, TermEvents(driver, loop))
  /\ UNCHANGED <<tree, loop, call, cancelled, operator, earned, proven, overlap>>

(* The context the caller passed in is cancelled.                          *)
Cancel(c) ==
  /\ Active(c)
  /\ c \notin cancelled
  /\ Spend("aborts")
  /\ cancelled' = cancelled \union {c}
  /\ UNCHANGED <<task, tree, loop, driver, call, operator, earned, proven, overlap>>

Crash ==
  /\ Spend("crashes")
  /\ loop' = NewLoop
  /\ driver' = NewDriver
  /\ call' = [c \in Calls |-> NotCalled]
  /\ cancelled' = {}
  /\ operator' = "idle"
  /\ UNCHANGED <<task, tree, earned, proven, overlap>>

Advance(c) ==
  \/ ReturnFrom(c) \/ Observe(c) \/ LoopHead(c) \/ Decide(c) \/ Gate(c) \/ Prepare(c)
  \/ Execute(c) \/ Result(c) \/ Consume(c) \/ Repair(c)

Next ==
  \/ \E c \in Calls :
       \/ Run(c) \/ Advance(c)
       \/ Approve(c) \/ Reject(c) \/ Clarify(c) \/ Cancel(c)
  \/ BeginAbort \/ EndAbort \/ Termination \/ Crash

(* A call that can go on does: the executor, the gates and the journal     *)
(* answer, with an error if need be.  Nothing else is owed.                *)
Spec == Init /\ [][Next]_vars /\ \A c \in Calls : WF_vars(Advance(c))

-----------------------------------------------------------------------------
(* Properties.                                                             *)

TypeOK ==
  /\ task \in TaskStates
  /\ tree \in Digests
  /\ loop \in Loops
  /\ driver \in [runID: 0 .. MaxCalls, request: 0 .. MaxCalls, obs: Outcomes,
                 pendingOp: Ops \union {NoOp}, committedOp: Ops \union {NoOp},
                 lastState: LoopStates \union {"none"}, ready: BOOLEAN,
                 staged: BOOLEAN, gated: BOOLEAN]
  /\ call \in [Calls -> [pc: {"none", "return", "observe", "head", "decide", "gate", "prepare",
                              "execute", "result", "consume", "repair", "done"},
                         op: Ops \union {NoOp}, outcome: Outcomes, decision: LoopActions \union {"none"}, late: Nat]]
  /\ cancelled \subseteq Calls
  /\ operator \in {"idle", "aborting"}
  /\ earned \subseteq Ops /\ proven \in BOOLEAN /\ overlap \in BOOLEAN
  /\ used \in [{"aborts", "crashes", "lost"} -> 0 .. MaxFaults]

(* No execution and no recovery is begun that a bound forbids, whoever     *)
(* steps the loop, resumes and superseded calls included.                  *)
WithinBounds ==
  /\ loop.attempts <= MaxAttempts
  /\ loop.cycles <= MaxRecoveryCycles
  /\ loop.state = "executing" => loop.attempts < MaxAttempts

(* A task becomes COMPLETED in the journal only by a run whose last word   *)
(* the authority proved, whatever was aborted, resumed or restarted in     *)
(* between, as long as no Run began while an aborted call was on its way.  *)
CompletedIsProven ==
  [][task'.status = "COMPLETED" /\ task.status # "COMPLETED" /\ ~overlap => proven]_vars

(* What a restart would be told is already committed did reach the tree or *)
(* was proven, under the operation it is told of, as long as no Run began  *)
(* while an aborted call was still on its way out.                         *)
CommittedIsTrue ==
  used.lost = 0 /\ ~overlap /\ ~Terminal(task) /\ Inspection(task, tree) = "ALREADY_COMMITTED" =>
    task.cursor.op \in earned

(* A run that is parked at a human boundary is unfinished work to the next *)
(* process, a second park and a task that had ended before included.       *)
ParkedIsRemembered ==
  /\ Waiting(loop) /\ driver.ready /\ used.lost = 0
  /\ \A c \in Calls : ~Active(c)
  => ~Terminal(task)

(* What the driver leaves in the journal is true when a restart reads it.  *)
RecordsAreTrue == CommittedIsTrue /\ ParkedIsRemembered

(* Once its context is cancelled a call begins at most the one execution   *)
(* it was already on its way to.                                           *)
AtMostOneLateExecution == \A c \in Calls : call[c].late <= 1

(* Every call comes back: to an end, to a park, or with an error.          *)
RunsReturn == \A c \in Calls : Active(c) ~> ~Active(c)

-----------------------------------------------------------------------------
(* Claims of the code's comments.                                          *)

(* "Every return path funnels through here, so this is the single point at *)
(* which "how did the run end" is written to the journal" (driver.go):     *)
(* when every call is back and the loop is over, so is a task that has     *)
(* begun to execute.                                                       *)
EndedRunsAreRecorded ==
  /\ used.lost = 0 /\ used.crashes = 0
  /\ Over(loop) /\ driver.ready /\ operator = "idle" /\ HasCursor(task)
  /\ \A c \in Calls : ~Active(c)
  => Terminal(task)

=============================================================================
