---------------------------- MODULE KernelEngine ----------------------------
(***************************************************************************)
(* The Engine of runtime/kernel: Open admits one request, Run executes its *)
(* program step by step (engine.go, dispatch.go), and every transition is  *)
(* an event that emit first reduces into the authoritative state, under    *)
(* the mutex, and only then, after the unlock, appends to the event log.   *)
(*                                                                         *)
(* Callers are the goroutines that call Run on one engine.  The            *)
(* environment cancels the engine (Cancel), cancels a caller's context,    *)
(* and edits the workspace behind the engine's back.  An action is the     *)
(* code between two points where another goroutine, or another process,    *)
(* can be seen to interfere: a lock, an emission, a system call.           *)
(***************************************************************************)
EXTENDS FilesystemCapability, FiniteSets

CONSTANTS
  Callers,     \* goroutines that call Run
  Requests,    \* what Open may be called with
  Registered,  \* the capabilities in the registry
  MaxEdits     \* bound on the edits other processes make to the workspace

\* The shape every request has, valid or not; a write names its content.
RequestShape(r) ==
  /\ r.verifier \in Verifiers
  /\ r.spec.targets \in Seq(Targets)
  /\ r.spec.program \in Seq([id : STRING, cap : STRING,
                             target : Targets \cup {None}, content : Contents \cup {None}])
  /\ \A step \in StepsOf(r.spec) : step.cap = "file.write" => step.content \in Contents
  /\ r.spec.budget \in [steps : Int, bytes : Int, perCap : Int]

ASSUME EngineAssumption ==
  /\ Registered \subseteq Capabilities
  /\ MaxEdits \in Nat
  /\ \A r \in Requests : RequestShape(r)

VARIABLES
  x,          \* the admitted request, or NoRequest
  admission,  \* the class of the last admission refusal (admissionErr)
  st,         \* the authoritative state
  log,        \* the event log
  run,        \* where each caller is in Run
  cancelled,  \* Engine.cancelled
  done,       \* per caller: its context is cancelled
  ws,         \* the workspace
  edits,      \* edits other processes have made
  effects,    \* history: what the engine's own invocations changed on disk
  calm        \* history: no edit since the last verification.started

vars == <<x, admission, st, log, run, cancelled, done, ws, edits, effects, calm>>

NoRequest == [verifier |-> None]
NoEvent   == EventOf(None)

\* pc, the current step, the block being returned, the observation in hand,
\* the target under verification, the verdict, the event that is reduced but
\* not yet logged, and the outcome of the Result Run returns.
Idle == [pc |-> "idle", step |-> 1, block |-> None, obs |-> Failed,
         target |-> 1, verdict |-> None, outbox |-> NoEvent, result |-> None]

Init ==
  /\ x = NoRequest
  /\ admission = None
  /\ st = InitialState
  /\ log = <<>>
  /\ run = [c \in Callers |-> Idle]
  /\ cancelled = FALSE
  /\ done = [c \in Callers |-> FALSE]
  /\ ws \in Workspaces
  /\ edits = 0
  /\ effects = {}
  /\ calm = TRUE

Program == x.spec.program
StepOf(c) == Program[run[c].step]
At(c, pc) == run[c].pc = pc /\ run[c].outbox = NoEvent

Goto(c, pc) == run' = [run EXCEPT ![c].pc = pc]
\* runStep or verify returns a block of this class.
Stop(c, class) == run' = [run EXCEPT ![c].pc = "stopped", ![c].block = class]

\* Mutant: the event is stamped with the revision before the reduction.
MutantStamped(e) == [e EXCEPT !.revision = st.revision]
Stamped(e) == [e EXCEPT !.revision = st.revision + 1]

\* emit: reduce under the mutex; the event waits in the outbox for its append.
Emit(c, e, r) ==
  /\ Accepts(x, st, e)
  /\ st' = Reduced(x, st, e)
  /\ run' = [run EXCEPT ![c] = [r EXCEPT !.outbox = Stamped(e)]]

\* emit refused: the state is unchanged and the caller goes on as r says.
Refused(c, e, r) ==
  /\ ~Accepts(x, st, e)
  /\ run' = [run EXCEPT ![c] = r]
  /\ UNCHANGED st

EmitOr(c, e, accepted, refused) == Emit(c, e, accepted) \/ Refused(c, e, refused)

At1(r, pc) == [r EXCEPT !.pc = pc]
Blocked(r, class) == [r EXCEPT !.pc = "stopped", !.block = class]

ForStep(kind, step) == [EventOf(kind) EXCEPT !.step = step.id, !.cap = step.cap]

\* blockStep: record step.blocked and return the block; if even that is
\* refused the error has no class and Run calls it an execution failure.
BlockStep(c, class) ==
  EmitOr(c, [ForStep("step.blocked", StepOf(c)) EXCEPT !.class = class],
         Blocked(run[c], class), Blocked(run[c], "EXECUTION_FAILURE"))

(***************************************************************************)
(* Open: the checks come before the look whether an execution is held.     *)
(***************************************************************************)
Open(req) ==
  /\ LET refusal == AdmissionRefusal(req, Registered)
     IN  \/ refusal # None /\ admission' = refusal /\ UNCHANGED <<x, st>>
         \/ /\ refusal = None /\ x = NoRequest
            /\ x' = req /\ st' = InitialState /\ admission' = None
  /\ UNCHANGED <<log, run, cancelled, done, ws, edits, effects, calm>>

(***************************************************************************)
(* Run and runStep.                                                        *)
(***************************************************************************)
Enter(c) ==
  /\ At(c, "idle")
  /\ IF x # NoRequest /\ st.status = "ADMITTED"
     THEN Goto(c, "start")
     ELSE run' = [run EXCEPT ![c].pc = "done", ![c].result = OutcomeForClass(admission)]
  /\ UNCHANGED <<x, admission, st, log, cancelled, done, ws, edits, effects, calm>>

Start(c) ==
  /\ At(c, "start")
  /\ EmitOr(c, EventOf("execution.started"), At1(run[c], "check"),
            [run[c] EXCEPT !.pc = "fail", !.block = "INVALID_SPEC"])
  /\ UNCHANGED <<x, admission, log, cancelled, done, ws, edits, effects, calm>>

\* The top of the loop in Run and of runStep.
Check(c) ==
  /\ At(c, "check")
  /\ IF run[c].step > Len(Program) THEN Goto(c, "verify")
     ELSE IF cancelled THEN Stop(c, "CANCELLED")
     ELSE IF done[c] THEN Stop(c, "INTERRUPTED")
     ELSE Goto(c, "dispatch")
  /\ UNCHANGED <<x, admission, st, log, cancelled, done, ws, edits, effects, calm>>

\* Budget, grant, authorizer and registry, in that order.
DispatchRefusal(step) ==
  IF ~Allows(x.spec.budget, st, step.cap) THEN "BUDGET_EXHAUSTED"
  ELSE IF ~GrantAuthorizes(x.grant, step, TargetsOf(x.spec)) \/ ~AuthorizerAllows(x.grant, step)
       THEN "AUTHORIZATION_FAILURE"
  ELSE IF step.cap \notin Registered THEN "CAPABILITY_UNAVAILABLE"
  ELSE None

Dispatch(c) ==
  LET step == StepOf(c)
      refusal == DispatchRefusal(step)
  IN
  /\ At(c, "dispatch")
  /\ \/ refusal # None /\ BlockStep(c, refusal)
     \/ refusal = None /\ \E class \in GateRefusals(step) : BlockStep(c, class)
     \/ refusal = None /\ EmitOr(c, ForStep("step.started", step), At1(run[c], "invoke"),
                                 Blocked(run[c], "EXECUTION_FAILURE"))
  /\ UNCHANGED <<x, admission, log, cancelled, done, ws, edits, effects, calm>>

Effect(step, before) == [cap |-> step.cap, target |-> step.target, before |-> before]

Invoke(c) ==
  /\ At(c, "invoke")
  /\ \E out \in Invocations(StepOf(c), ws, done[c]) :
       /\ ws' = out.ws
       /\ run' = [run EXCEPT ![c].pc = "evaluate", ![c].obs = out.obs]
       /\ effects' = effects \cup
            IF out.ws = ws THEN {} ELSE {Effect(StepOf(c), ws[StepOf(c).target])}
  /\ UNCHANGED <<x, admission, st, log, cancelled, done, edits, calm>>

\* The same, with another process recreating what file.delete removed.
InvokeRecreated(c) ==
  /\ At(c, "invoke")
  /\ edits < MaxEdits
  /\ \E out \in Recreations(StepOf(c), ws, done[c]) :
       /\ ws' = out.ws
       /\ run' = [run EXCEPT ![c].pc = "evaluate", ![c].obs = out.obs]
  /\ edits' = edits + 1
  /\ calm' = FALSE
  /\ effects' = effects \cup {Effect(StepOf(c), ws[StepOf(c).target])}
  /\ UNCHANGED <<x, admission, st, log, cancelled, done>>

\* providerAxisFor an observation that was trusted.
ProviderAxis(obs) ==
  IF \E f \in obs.facts : f.kind = "COMMAND_TRUNCATED" THEN "TRUNCATED" ELSE "DONE"

Records(step, obs) ==
  {[kind |-> f.kind, step |-> step.id, cap |-> step.cap, target |-> f.target,
    bytes |-> f.bytes, verdict |-> obs.verdict, revision |-> 0] : f \in obs.facts}

Untrusted(obs) == obs.verdict \in {"FAIL", "UNKNOWN"}

\* The class of a stop that a finished context explains.
\* Mutant: every finished context is a cancellation.
MutantStopClass == "CANCELLED"
StopClass == IF cancelled THEN "CANCELLED" ELSE "INTERRUPTED"

\* The class of an error under a live context is read off the error itself.
classForCapabilityError(obs) ==
  CASE obs.cause = "CANCELED"          -> "CANCELLED"
    [] obs.cause = "DEADLINE_EXCEEDED" -> "INTERRUPTED"
    [] OTHER                           -> "CAPABILITY_FAILURE"

\* After Invoke: error, output budget, verdict, and only then capability.invoked.
Evaluate(c) ==
  LET step == StepOf(c)
      obs  == run[c].obs
      overrun == obs.output > 0 /\ ~AllowsOutput(x.spec.budget, st, obs.output)
  IN
  /\ At(c, "evaluate")
  /\ \/ /\ obs.error
        /\ Stop(c, IF done[c] THEN StopClass ELSE classForCapabilityError(obs))
        /\ UNCHANGED st
     \/ ~obs.error /\ overrun /\ BlockStep(c, "BUDGET_EXHAUSTED")
     \/ /\ ~obs.error /\ ~overrun /\ Untrusted(obs)
        /\ Stop(c, "CAPABILITY_FAILURE")
        /\ UNCHANGED st
     \/ /\ ~obs.error /\ ~overrun /\ ~Untrusted(obs)
        /\ EmitOr(c, [ForStep("capability.invoked", step) EXCEPT
                        !.axis = ProviderAxis(obs), !.bytes = obs.charged,
                        !.evidence = Records(step, obs)],
                  At1(run[c], "evidence"), Blocked(run[c], "EXECUTION_FAILURE"))
  /\ UNCHANGED <<x, admission, log, cancelled, done, ws, edits, effects, calm>>

Evidence(c) ==
  LET records == Records(StepOf(c), run[c].obs)
  IN
  /\ At(c, "evidence")
  /\ \/ records = {} /\ Goto(c, "mutation") /\ UNCHANGED st
     \/ /\ records # {}
        /\ EmitOr(c, [ForStep("evidence.produced", StepOf(c)) EXCEPT !.evidence = records],
                  At1(run[c], "mutation"), Blocked(run[c], "EXECUTION_FAILURE"))
  /\ UNCHANGED <<x, admission, log, cancelled, done, ws, edits, effects, calm>>

Mutated(step, records) == \E rec \in records : MutatingKind(rec.kind)

\* projectAxes: the boundary events are derived from the evidence.
ProjectMutation(c) ==
  LET records == Records(StepOf(c), run[c].obs)
      mutated == Mutated(StepOf(c), records)
  IN
  /\ At(c, "mutation")
  /\ \/ ~mutated /\ Goto(c, "artifact") /\ UNCHANGED st
     \/ /\ mutated
        /\ EmitOr(c, [ForStep("mutation.applied", StepOf(c)) EXCEPT !.evidence = records],
                  At1(run[c], "artifact"), Blocked(run[c], "MUTATION_FAILURE"))
  /\ UNCHANGED <<x, admission, log, cancelled, done, ws, edits, effects, calm>>

ProjectArtifact(c) ==
  LET records  == Records(StepOf(c), run[c].obs)
      produced == /\ Succeeded(run[c].obs.verdict)
                  /\ \E rec \in records : rec.kind = "RESPONSE_PRODUCED"
  IN
  /\ At(c, "artifact")
  /\ \/ ~produced /\ Goto(c, "next") /\ UNCHANGED st
     \/ /\ produced
        /\ EmitOr(c, [ForStep("artifact.produced", StepOf(c)) EXCEPT !.evidence = records],
                  At1(run[c], "next"), Blocked(run[c], "ARTIFACT_FAILURE"))
  /\ UNCHANGED <<x, admission, log, cancelled, done, ws, edits, effects, calm>>

\* The context check after a step; cancellation alone is not looked at here.
NextStep(c) ==
  /\ At(c, "next")
  /\ IF done[c]
     THEN run' = [run EXCEPT ![c].pc = "fail", ![c].block = StopClass]
     ELSE run' = [run EXCEPT ![c].pc = "check", ![c].step = @ + 1]
  /\ UNCHANGED <<x, admission, st, log, cancelled, done, ws, edits, effects, calm>>

(***************************************************************************)
(* verify, and the verifier bound to the engine.                           *)
(***************************************************************************)
\* Mutant: a verifier that is not bound has nothing to check.
MutantNothingToCheck == ~x.spec.reqVerify \/ x.verifier = "none"
NothingToCheck == ~x.spec.reqVerify

Verify(c) ==
  /\ At(c, "verify")
  /\ \/ /\ NothingToCheck
        /\ EmitOr(c, EventOf("verification.skipped"), At1(run[c], "settle"),
                  Blocked(run[c], "VERIFICATION_FAILURE"))
        /\ UNCHANGED calm
     \/ /\ ~NothingToCheck /\ x.verifier = "none"
        /\ Stop(c, "VERIFICATION_FAILURE")
        /\ UNCHANGED <<st, calm>>
     \/ /\ ~NothingToCheck /\ x.verifier # "none"
        /\ EmitOr(c, EventOf("verification.started"), At1(run[c], "judge"),
                  Blocked(run[c], "VERIFICATION_FAILURE"))
        /\ calm' = TRUE
  /\ UNCHANGED <<x, admission, log, cancelled, done, ws, edits, effects>>

Concludes(c, verdict) == run' = [run EXCEPT ![c].pc = "verdict", ![c].verdict = verdict]

\* One target per step: the verifier reads the workspace target by target.
JudgeTarget(c) ==
  LET sp == x.spec
      k  == run[c].target
  IN
  /\ At(c, "judge")
  /\ IF NotApplicable(x.verifier, sp) THEN Concludes(c, "NOT_APPLICABLE")
     ELSE IF k > Len(sp.targets) THEN Concludes(c, "PASS")
     ELSE IF done[c] THEN Concludes(c, "WITHDRAWN")
     ELSE \E j \in Judgements(x.verifier, sp, st.evidence, ws, sp.targets[k]) :
            IF j = "OK" THEN run' = [run EXCEPT ![c].target = @ + 1] ELSE Concludes(c, j)
  /\ UNCHANGED <<x, admission, st, log, cancelled, done, ws, edits, effects, calm>>

\* WITHDRAWN and ERROR are the verifier's error returns.
Conclude(c) ==
  LET v    == run[c].verdict
      kind == CASE v = "PASS" -> "verification.passed"
                [] v = "NOT_APPLICABLE" -> "verification.skipped"
                [] OTHER -> "verification.failed"
      good == v \in {"PASS", "NOT_APPLICABLE"}
  IN
  /\ At(c, "verdict")
  /\ EmitOr(c, EventOf(kind),
            IF good THEN At1(run[c], "settle") ELSE Blocked(run[c], "VERIFICATION_FAILURE"),
            Blocked(run[c], "VERIFICATION_FAILURE"))
  /\ UNCHANGED <<x, admission, log, cancelled, done, ws, edits, effects, calm>>

(***************************************************************************)
(* Settling.                                                               *)
(***************************************************************************)
\* A block came back from runStep or verify: a cancellation overrides it.
Stopped(c) ==
  /\ At(c, "stopped")
  /\ run' = [run EXCEPT ![c].pc = "fail",
                        ![c].block = IF cancelled THEN "CANCELLED" ELSE @]
  /\ UNCHANGED <<x, admission, st, log, cancelled, done, ws, edits, effects, calm>>

\* Mutant: a cancelled run returns without settling.
MutantFail(c) ==
  /\ At(c, "fail")
  /\ Goto(c, IF cancelled THEN "done" ELSE "failing")
  /\ UNCHANGED <<x, admission, st, log, cancelled, done, ws, edits, effects, calm>>

\* settleFailure looks whether the execution is settled already ...
Fail(c) ==
  /\ At(c, "fail")
  /\ Goto(c, IF st.status = "SETTLED" THEN "settle" ELSE "failing")
  /\ UNCHANGED <<x, admission, st, log, cancelled, done, ws, edits, effects, calm>>

\* ... and emits execution.failed; when that is refused it still returns.
Failing(c) ==
  /\ At(c, "failing")
  /\ EmitOr(c, [EventOf("execution.failed") EXCEPT !.class = run[c].block],
            At1(run[c], "return"),
            [run[c] EXCEPT !.pc = "done", !.result = OutcomeForClass(run[c].block)])
  /\ UNCHANGED <<x, admission, log, cancelled, done, ws, edits, effects, calm>>

Settle(c) ==
  /\ At(c, "settle")
  /\ EmitOr(c, EventOf("execution.finished"),
            At1(run[c], "return"),
            [run[c] EXCEPT !.pc = "done", !.result = "UNSUBSTANTIATED"])
  /\ UNCHANGED <<x, admission, log, cancelled, done, ws, edits, effects, calm>>

Return(c) ==
  /\ At(c, "return")
  /\ run' = [run EXCEPT ![c].pc = "done", ![c].result = st.terminal.outcome]
  /\ UNCHANGED <<x, admission, st, log, cancelled, done, ws, edits, effects, calm>>

\* The second half of emit: the append, outside the engine's mutex.
AppendEvent(c) ==
  /\ run[c].outbox # NoEvent
  /\ log' = Append(log, run[c].outbox)
  /\ run' = [run EXCEPT ![c].outbox = NoEvent]
  /\ UNCHANGED <<x, admission, st, cancelled, done, ws, edits, effects, calm>>

(***************************************************************************)
(* The environment.                                                        *)
(***************************************************************************)
Cancel ==
  /\ ~cancelled
  /\ cancelled' = TRUE
  /\ UNCHANGED <<x, admission, st, log, run, done, ws, edits, effects, calm>>

Withdraw(c) ==
  /\ ~done[c]
  /\ done' = [done EXCEPT ![c] = TRUE]
  /\ UNCHANGED <<x, admission, st, log, run, cancelled, ws, edits, effects, calm>>

Edit(t, content) ==
  /\ edits < MaxEdits
  /\ ws[t] # content
  /\ ws' = [ws EXCEPT ![t] = content]
  /\ edits' = edits + 1
  /\ calm' = FALSE
  /\ UNCHANGED <<x, admission, st, log, run, cancelled, done, effects>>

Work(c) ==
  \/ Enter(c) \/ Start(c) \/ Check(c) \/ Dispatch(c) \/ Invoke(c)
  \/ InvokeRecreated(c) \/ Evaluate(c)
  \/ Evidence(c) \/ ProjectMutation(c) \/ ProjectArtifact(c) \/ NextStep(c)
  \/ Verify(c) \/ JudgeTarget(c) \/ Conclude(c)
  \/ Stopped(c) \/ Fail(c) \/ Failing(c) \/ Settle(c) \/ Return(c) \/ AppendEvent(c)

Environment ==
  \/ Cancel
  \/ \E c \in Callers : Withdraw(c)
  \/ \E t \in Targets, content \in Contents \cup {NoFile} : Edit(t, content)

Next ==
  \/ \E req \in Requests : Open(req)
  \/ \E c \in Callers : Work(c)
  \/ Environment

Spec == Init /\ [][Next]_vars

\* Every call the engine makes (a capability, the verifier) returns, and the
\* goroutines are scheduled.
FairSpec == Spec /\ \A c \in Callers : WF_vars(Work(c))

(***************************************************************************)
(* Properties.                                                             *)
(***************************************************************************)
PCs == {"idle", "start", "check", "dispatch", "invoke", "evaluate", "evidence",
        "mutation", "artifact", "next", "verify", "judge", "verdict", "stopped",
        "fail", "failing", "settle", "return", "done"}

Runs ==
  [pc : PCs, step : Nat \ {0}, block : FailureClasses \cup {None}, obs : Observations,
   target : Nat \ {0}, verdict : {None, "PASS", "NOT_APPLICABLE", "FAIL", "ERROR", "WITHDRAWN"},
   outbox : Events, result : Outcomes \cup {None}]

Effects == [cap : STRING, target : Targets, before : Contents \cup {NoFile}]

\* Every variable keeps its type.
TypeOK ==
  /\ x \in Requests \cup {NoRequest}
  /\ admission \in FailureClasses \cup {None}
  /\ st \in States
  /\ log \in Seq(Events)
  /\ run \in [Callers -> Runs]
  /\ cancelled \in BOOLEAN
  /\ done \in [Callers -> BOOLEAN]
  /\ ws \in Workspaces
  /\ edits \in 0..MaxEdits
  /\ effects \subseteq Effects
  /\ calm \in BOOLEAN

Settled == st.status = "SETTLED"
InLog(kind) == {i \in DOMAIN log : log[i].kind = kind}
Quiet   == \A c \in Callers : run[c].outbox = NoEvent

\* The events emitted so far: logged, or reduced and waiting for the append.
Emitted == {log[i] : i \in DOMAIN log}
             \cup {run[c].outbox : c \in {d \in Callers : run[d].outbox # NoEvent}}

\* State first, log second: with any number of callers the emitted events, put
\* in the order of the revisions they were stamped with, are exactly one per
\* revision and fold to the authoritative state (emit, reduce and Fold agree).
EventsExplainState ==
  LET at(n) == {e \in Emitted : e.revision = n}
  IN  /\ \A n \in 1..st.revision : \E e \in at(n) : at(n) = {e}
      /\ Emitted = UNION {at(n) : n \in 1..st.revision}
      /\ x # NoRequest =>
           Fold(x, [n \in 1..st.revision |-> CHOOSE e \in at(n) : TRUE]) = st

\* A step of the program is dispatched at most once, in program order, even
\* when Run is called twice: only one caller gets past execution.started.
StepsDispatchedOnceInOrder ==
  LET dispatched == {e \in Emitted : e.kind = "step.started"}
  IN  \A d, e \in dispatched :
        /\ d.step = e.step => d = e
        /\ d.revision < e.revision => StepIndex(x.spec, d.step) < StepIndex(x.spec, e.step)

\* The declared bounds hold for the steps dispatched, charged or not: a failed
\* invocation is never charged, and only the stop that follows it keeps the
\* bound (allows, capability.invoked and the returns of runStep between them).
DispatchWithinBudget ==
  x # NoRequest =>
    LET b == x.spec.budget
        started(caps) == {i \in InLog("step.started") : log[i].cap \in caps}
    IN  /\ b.steps > 0 => Cardinality(started(Capabilities)) <= b.steps
        /\ b.perCap > 0 =>
             \A cap \in Capabilities : Cardinality(started({cap})) <= b.perCap

\* No authorization, no effect: whatever the engine changed on disk, the grant
\* permits the capability and names the target (Open, Grant.Authorize and the
\* authorizer, against every program and any number of callers).
EffectsAreGranted ==
  \A e \in effects : e.cap \in x.grant.caps /\ e.target \in x.grant.targets

\* An OBSERVE or ANSWER execution leaves the workspace alone (Spec.Validate
\* refuses the mutating step, and nothing but a step reaches the disk).
ReadOnlyContractsAreReadOnly ==
  effects # {} => ~ForbidsMutation(x.spec.kind)

\* Run returns PROVEN only for an execution that settled PROVEN, with nothing
\* unmet and nothing refuting it; and a required check was really made: the
\* verdict comes after a verification.started that follows all the evidence,
\* or the bound verifier had declared the contract out of its scope.
ProvenIsEarned ==
  \A c \in Callers : run[c].result = "PROVEN" =>
    /\ Settled /\ st.terminal.outcome = "PROVEN"
    /\ Unmet(x.spec, st) = {} /\ ~Refuted(st)
    /\ x.spec.reqVerify =>
         \E i \in InLog("verification.started") :
           /\ \A j \in InLog("evidence.produced") : j < i
           /\ \/ \E j \in InLog("verification.passed") : i < j
              \/ NotApplicable(x.verifier, x.spec)

\* An execution that ran to its end has recorded every change it made: an
\* effect without evidence (an over-budget write, a removal that could not be
\* confirmed) never reaches adjudication, it stops the run instead.
AdjudicatedEffectsAreRecorded ==
  InLog("execution.finished") # {} =>
    \A e \in effects : \E rec \in st.evidence :
      MutatingKind(rec.kind) /\ rec.target = e.target /\ rec.cap = e.cap

\* Neither kind of verdict comes without what it rests on: PROVEN is earned,
\* and a program that ran to its end left no change unrecorded.
VerdictsAreBacked == ProvenIsEarned /\ AdjudicatedEffectsAreRecorded

\* The boundary events are backed: before mutation.applied the log holds an
\* evidence.produced of the same step with a mutating record, and before
\* artifact.produced one with a response.
BoundariesAreBacked ==
  \A e \in Emitted : e.kind \in {"mutation.applied", "artifact.produced"} =>
    \E d \in Emitted :
      /\ d.kind = "evidence.produced" /\ d.step = e.step /\ d.revision < e.revision
      /\ \E rec \in d.evidence :
           IF e.kind = "mutation.applied" THEN MutatingKind(rec.kind)
           ELSE rec.kind = "RESPONSE_PRODUCED"

\* What the log tells is what happened: it accounts for the state, and every
\* boundary it reports crossed has its evidence before it.
LogIsTheRecord == EventsExplainState /\ BoundariesAreBacked

\* An invocation of command.run ended with an error of this cause.
CommandEnded(cause) ==
  \E c \in Callers : /\ run[c].obs.error /\ run[c].obs.cause = cause
                     /\ StepOf(c).cap = "command.run"

\* A stop is attributed to whoever asked for it: CANCELLED is never reported
\* unless Cancel was called, nor INTERRUPTED unless a caller's context ended.
\* The one exception is what classForCapabilityError makes of a command that
\* was cancelled, or timed out, in a context of its own: no capability of the
\* repository reports that, one bound to command.run may.
StopsAreAttributed ==
  \A o \in {st.terminal.outcome} \cup {run[c].result : c \in Callers} :
    /\ o = "CANCELLED"   => cancelled \/ CommandEnded("CANCELED")
    /\ o = "INTERRUPTED" => \/ \E c \in Callers : done[c]
                           \/ CommandEnded("DEADLINE_EXCEEDED")

\* A settled execution is final: no late result, second Run, Cancel or Open
\* changes the state after the verdict (reduce refuses every event first).
SettledIsFinal == [][Settled => UNCHANGED st]_vars

\* Every Run returns, however it is cancelled, interrupted or refused, and a
\* started execution is settled: none is left RUNNING with nobody in Run.
RunsReturn == \A c \in Callers : run[c].pc = "start" ~> run[c].pc = "done"
StartedSettles == st.status = "RUNNING" ~> Settled
RunsEnd == RunsReturn /\ StartedSettles
=============================================================================
