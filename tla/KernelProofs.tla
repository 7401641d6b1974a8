----------------------------- MODULE KernelProofs -----------------------------
(***************************************************************************)
(* Theorems about KernelEngine and KernelBridge, for every value of their  *)
(* constants, each part on the ones before it.                             *)
(*                                                                         *)
(* 1. One inductive invariant, IInv: the types, where each caller is, and  *)
(*    what the authorizer allowed before a step reaches the disk.  First   *)
(*    which values the capabilities yield, then one lemma per action, then *)
(*    the theorems on types, grants and the final state.                   *)
(* 2. Every step of the engine summarised once (StepIs): a caller emits an *)
(*    event, moves on in silence, or appends what it emitted.  The events  *)
(*    emitted, in the order of their revisions, fold to the authoritative  *)
(*    state, with the evidence of every boundary they cross; one runner    *)
(*    dispatches each step once, in order, within the bounds; a verdict    *)
(*    has what it claims behind it.                                        *)
(* 3. Who stopped an execution: a cancellation, a context that ended, or a *)
(*    budget the program does not fit.                                     *)
(* 4. The executions of the bridge: their bounds are never what stops them.*)
(* 5. The evidence against the disk: what an invocation reports is true of *)
(*    the disk it ran on, the evidence is a trace of the program, and what *)
(*    it calls deleted or created was.                                     *)
(* 6. The verdict against the disk, and the report of what was written.    *)
(***************************************************************************)
EXTENDS KernelBridge, KernelReducerProofs, SequenceTheorems

\* A fact a capability reports has the shape of an evidence fact.
LEMMA FactType ==
  ASSUME NEW kind \in EvidenceKinds, NEW t \in STRING, NEW n \in Nat
  PROVE  Fact(kind, t, n) \in [kind : EvidenceKinds, target : STRING, bytes : Nat]
BY DEF Fact

\* What the capabilities build from such facts is an observation.
LEMMA ObservationType ==
  ASSUME NEW verdict \in Verdicts,
         NEW facts \in SUBSET [kind : EvidenceKinds, target : STRING, bytes : Nat],
         NEW output \in Nat, NEW charged \in Nat
  PROVE  Observation(verdict, facts, output, charged) \in Observations
BY DEF Observation, Observations, Causes

\* So are the failures: a FAIL verdict without evidence, and an error of any
\* cause.
LEMMA FailedType ==
  /\ Failed \in Observations /\ InvokeErr \in Observations
  /\ \A cause \in Causes : ErrorOf(cause) \in Observations
<1> DEFINE F == [kind : EvidenceKinds, target : STRING, bytes : Nat]
<1>1. "FAIL" \in Verdicts /\ None \in Causes BY DEF Verdicts, Causes
<1>2. {} \in SUBSET F /\ 0 \in Nat OBVIOUS
<1>3. Failed \in Observations BY <1>1, <1>2, ObservationType DEF Failed
<1>4. ASSUME NEW cause \in Causes PROVE ErrorOf(cause) \in Observations
  <2>1. ErrorOf(cause) = [error |-> TRUE, cause |-> cause, verdict |-> "FAIL",
                          facts |-> {}, output |-> 0, charged |-> 0]
    BY DEF ErrorOf
  <2>2. Observations = [error : BOOLEAN, cause : Causes, verdict : Verdicts, output : Nat,
                        charged : Nat, facts : SUBSET F]
    BY DEF Observations, F
  <2> HIDE DEF F
  <2> QED BY <1>1, <1>2, <1>4, <2>1, <2>2
<1> QED BY <1>1, <1>3, <1>4 DEF InvokeErr

\* The outcomes of the capabilities are observations, for any step whose
\* target is a path and any workspace.
LEMMA OutcomeTypes ==
  ASSUME NEW t \in Targets, NEW w \in Workspaces
  PROVE  /\ SizeOf(w, t) \in Nat /\ Clip(SizeOf(w, t)) \in Nat
         /\ ReadObservation(w, t) \in Observations
         /\ Search(w, t) \subseteq Observations
         /\ Exists(w, t) \in Observations
         /\ \A c \in Contents : Written(t, c) \in Observations
         /\ Removed(w, t) \in Observations
         /\ \A v \in Verdicts : Absent(v, t) \in Observations
<1>1. t \in STRING BY FilesystemAssumption
<1>2. SizeOf(w, t) \in Nat BY FilesystemAssumption DEF SizeOf, Present, Workspaces
<1>3. Clip(SizeOf(w, t)) \in Nat BY <1>2, FilesystemAssumption DEF Clip
<1>4. "PASS" \in Verdicts /\ 0 \in Nat BY DEF Verdicts
<1>5. \A v \in Verdicts : Absent(v, t) \in Observations
  <2> TAKE v \in Verdicts
  <2>1. Fact("FILE_ABSENT", t, 0) \in [kind : EvidenceKinds, target : STRING, bytes : Nat]
    BY <1>1, FactType DEF EvidenceKinds
  <2> QED BY <2>1, <1>4, ObservationType DEF Absent
<1>6. \A kind \in {"FILE_READ", "FILE_PRESENT", "FILE_DELETED", "FILE_WRITTEN", "FILE_ABSENT"} : \A n \in Nat :
         Fact(kind, t, n) \in [kind : EvidenceKinds, target : STRING, bytes : Nat]
  BY <1>1, FactType DEF EvidenceKinds
<1>7. ReadObservation(w, t) \in Observations
  BY <1>3, <1>4, <1>5, <1>6, ObservationType DEF ReadObservation
<1>8. Search(w, t) \subseteq Observations
  BY <1>2, <1>4, <1>5, <1>6, ObservationType DEF Search
<1>9. Exists(w, t) \in Observations
  BY <1>2, <1>4, <1>5, <1>6, ObservationType DEF Exists
<1>10. Removed(w, t) \in Observations
  BY <1>2, <1>4, <1>6, ObservationType DEF Removed
<1>11. \A c \in Contents : Written(t, c) \in Observations
  <2> TAKE c \in Contents
  <2>1. Bytes[c] \in Nat /\ 2 * Bytes[c] \in Nat BY FilesystemAssumption
  <2> QED BY <2>1, <1>4, <1>6, ObservationType DEF Written
<1> QED BY <1>2, <1>3, <1>5, <1>7, <1>8, <1>9, <1>10, <1>11

\* Everything a command.run may report is an observation.
LEMMA CommandRunType ==
  ASSUME NEW t \in STRING
  PROVE  CommandRun(t) \subseteq Observations
<1> DEFINE F == [kind : EvidenceKinds, target : STRING, bytes : Nat]
           ran == Fact("COMMAND_RUN", t, 1)
           answered == Fact("RESPONSE_PRODUCED", t, 0)
           cut == Fact("COMMAND_TRUNCATED", t, 0)
           choices == {{}, {ran}, {ran, answered}, {ran, cut}}
<1>1. ran \in F /\ answered \in F /\ cut \in F BY FactType DEF EvidenceKinds
<1>2. "PASS" \in Verdicts /\ 1 \in Nat BY DEF Verdicts
<1>3. CommandRun(t) = {Observation("PASS", facts, 1, 1) : facts \in choices}
                        \cup {ErrorOf(cause) : cause \in Causes}
  BY DEF CommandRun
<1>4. \A facts \in choices : facts \in SUBSET F
  <2> HIDE DEF F, ran, answered, cut
  <2> QED BY <1>1
<1>5. \A facts \in SUBSET F : Observation("PASS", facts, 1, 1) \in Observations
  BY <1>2, ObservationType
<1> HIDE DEF F, choices
<1> QED BY <1>3, <1>4, <1>5, FailedType

\* Everything workspace.discover may report is an observation.
LEMMA DiscoverType == \A d : Discover(d) \subseteq Observations
<1> TAKE d
<1>1. None \in STRING /\ 1 \in Nat BY NoneAssumption
<1>2. "WORKSPACE_OBSERVED" \in EvidenceKinds BY DEF EvidenceKinds
<1>3. Fact("WORKSPACE_OBSERVED", None, 1) \in [kind : EvidenceKinds, target : STRING, bytes : Nat]
  BY <1>1, <1>2, FactType
<1>4. "PASS" \in Verdicts BY DEF Verdicts
<1>5. Observation("PASS", {Fact("WORKSPACE_OBSERVED", None, 1)}, 1, 1) \in Observations
  BY <1>1, <1>3, <1>4, ObservationType
<1> QED BY <1>5, FailedType DEF Discover

---------------------------------------------------------------------------

\* A step of an admitted program, as RequestShape has it.
StepShape(step) ==
  /\ step \in [id : STRING, cap : STRING, target : Targets \cup {None},
               content : Contents \cup {None}]
  /\ step.cap = "file.write" => step.content \in Contents

\* What one invocation may leave behind: a workspace, an observation, and no
\* change but by a write or a removal of a named target.
GoodStep(step, w, out) ==
  /\ out.ws \in Workspaces
  /\ out.obs \in Observations
  /\ out.ws # w => step.cap \in {"file.write", "file.delete"} /\ step.target \in Targets

\* An invocation that only reports leaves the workspace alone.
LEMMA SameType ==
  ASSUME NEW step, NEW w \in Workspaces, NEW O \in SUBSET Observations,
         NEW out \in Same(w, O)
  PROVE  GoodStep(step, w, out)
<1>1. PICK obs \in O : out = Step(w, obs) BY DEF Same
<1>2. out.ws = w /\ out.obs = obs BY <1>1 DEF Step
<1> QED BY <1>2 DEF GoodStep

\* A write or a removal of a named target leaves a workspace behind.
LEMMA ChangeType ==
  ASSUME NEW step, StepShape(step), step.cap \in {"file.write", "file.delete"},
         step.target # None, NEW w \in Workspaces, NEW c \in Contents \cup {NoFile},
         NEW obs \in Observations
  PROVE  GoodStep(step, w, Step([w EXCEPT ![step.target] = c], obs))
<1>1. step.target \in Targets BY DEF StepShape
<1>2. [w EXCEPT ![step.target] = c] \in Workspaces BY <1>1 DEF Workspaces
<1> QED BY <1>1, <1>2 DEF GoodStep, Step

\* Invoke, for every capability: a workspace, an observation, and no change
\* but by a write or a removal of a target.
LEMMA InvocationType ==
  ASSUME NEW step, StepShape(step), NEW w \in Workspaces, NEW d,
         step.cap \in Capabilities, NEW out \in Invocations(step, w, d)
  PROVE  GoodStep(step, w, out)
<1> DEFINE t == step.target
           faulty == IF Faults THEN {Failed, InvokeErr} ELSE {}
<1>1. faulty \subseteq Observations BY FailedType
<1>2. {InvokeErr} \subseteq Observations BY FailedType
<1>3. CASE Resolves(step) /\ t = None
  BY <1>3, <1>2, SameType DEF Invocations
<1> DEFINE ended == {ErrorOf(cause) : cause \in Causes \ {None}}
<1>7. ended \subseteq Observations BY FailedType
<1>4. CASE step.cap = "workspace.discover"
  <2>1. out \in Same(w, Discover(d)) BY <1>4 DEF Invocations, Resolves
  <2> QED BY <2>1, DiscoverType, SameType
<1>5. CASE step.cap = "command.run"
  <2>1. out \in Same(w, CommandRun(t) \cup faulty) BY <1>5 DEF Invocations, Resolves
  <2>2. t \in STRING BY NoneAssumption, FilesystemAssumption DEF StepShape
  <2>3. CommandRun(t) \cup faulty \subseteq Observations BY <2>2, <1>1, CommandRunType
  <2> QED BY <2>1, <2>3, SameType
<1>6. CASE Resolves(step) /\ t # None
  <2>1. t \in Targets BY <1>6 DEF StepShape
  <2>2. CASE step.cap = "file.read"
    <3>1. out \in Same(w, {ReadObservation(w, t)} \cup faulty) BY <1>6, <2>2 DEF Invocations
    <3>2. {ReadObservation(w, t)} \cup faulty \subseteq Observations
      BY <2>1, <1>1, OutcomeTypes
    <3> QED BY <3>1, <3>2, SameType
  <2>3. CASE step.cap = "file.search"
    <3>1. out \in Same(w, Search(w, t) \cup faulty) BY <1>6, <2>3 DEF Invocations
    <3>2. Search(w, t) \cup faulty \subseteq Observations BY <2>1, <1>1, OutcomeTypes
    <3> QED BY <3>1, <3>2, SameType
  <2>4. CASE step.cap = "file.exists"
    <3>1. out \in Same(w, {Exists(w, t)} \cup faulty) BY <1>6, <2>4 DEF Invocations
    <3>2. {Exists(w, t)} \cup faulty \subseteq Observations BY <2>1, <1>1, OutcomeTypes
    <3> QED BY <3>1, <3>2, SameType
  <2>5. CASE step.cap = "file.write"
    <3>1. \/ out \in Same(w, ended) \/ out \in Same(w, faulty)
          \/ out = Step([w EXCEPT ![t] = step.content], Written(t, step.content))
      BY <1>6, <2>5 DEF Invocations, Withdrawn
    <3>2. step.content \in Contents BY <2>5 DEF StepShape
    <3>3. Written(t, step.content) \in Observations BY <2>1, <3>2, OutcomeTypes
    <3>4. GoodStep(step, w, Step([w EXCEPT ![t] = step.content], Written(t, step.content)))
      BY <1>6, <2>5, <3>2, <3>3, ChangeType
    <3> QED BY <3>1, <3>4, <1>1, <1>7, SameType
  <2>6. CASE step.cap = "file.delete"
    <3>1. \/ out \in Same(w, ended) \/ out \in Same(w, faulty)
          \/ out \in Same(w, {Absent("NO_OP", t)})
          \/ \E obs \in {Removed(w, t)} \cup Confirmations :
               out = Step([w EXCEPT ![t] = NoFile], obs)
      BY <1>6, <2>6 DEF Invocations, Withdrawn
    <3>2. {Absent("NO_OP", t)} \subseteq Observations
      <4>1. "NO_OP" \in Verdicts BY DEF Verdicts
      <4> QED BY <4>1, <2>1, OutcomeTypes
    <3>3. {Removed(w, t)} \cup Confirmations \subseteq Observations
      BY <2>1, OutcomeTypes, FailedType DEF Confirmations
    <3>4. \A obs \in Observations : GoodStep(step, w, Step([w EXCEPT ![t] = NoFile], obs))
      BY <1>6, <2>6, ChangeType
    <3> QED BY <3>1, <3>2, <3>3, <3>4, <1>1, <1>7, SameType
  <2> QED BY <1>6, <2>2, <2>3, <2>4, <2>5, <2>6 DEF Resolves
<1> QED BY <1>3, <1>4, <1>5, <1>6 DEF Capabilities, Resolves

\* The same when another process recreates what file.delete removed.
LEMMA RecreationType ==
  ASSUME NEW step, StepShape(step), NEW w \in Workspaces, NEW d,
         NEW out \in Recreations(step, w, d)
  PROVE  GoodStep(step, w, out) /\ step.cap = "file.delete" /\ step.target \in Targets
<1>1. step.cap = "file.delete" /\ step.target # None BY DEF Recreations
<1>2. PICK c \in Contents : out = Step([w EXCEPT ![step.target] = c], Failed)
  BY DEF Recreations
<1>3. step.target \in Targets BY <1>1 DEF StepShape
<1> QED BY <1>1, <1>2, <1>3, ChangeType, FailedType

---------------------------------------------------------------------------

\* The records of an observation, stamped with their step, are evidence.
LEMMA RecordsType ==
  ASSUME NEW step, StepShape(step), NEW obs \in Observations
  PROVE  Records(step, obs) \in SUBSET EvidenceRecords
<1> SUFFICES ASSUME NEW f \in obs.facts
             PROVE  [kind |-> f.kind, step |-> step.id, cap |-> step.cap, target |-> f.target,
                     bytes |-> f.bytes, verdict |-> obs.verdict, revision |-> 0]
                      \in EvidenceRecords
  BY DEF Records
<1>1. f \in [kind : EvidenceKinds, target : STRING, bytes : Nat] BY DEF Observations
<1>2. step.id \in STRING /\ step.cap \in STRING BY DEF StepShape
<1>3. obs.verdict \in Verdicts BY DEF Observations
<1>4. 0 \in Nat OBVIOUS
<1> QED BY <1>1, <1>2, <1>3, <1>4 DEF EvidenceRecords

\* The events the engine constructs are events.
LEMMA EventType ==
  ASSUME NEW kind \in EventKinds \cup {None}
  PROVE  /\ EventOf(kind) \in Events
         /\ \A class \in FailureClasses : [EventOf(kind) EXCEPT !.class = class] \in Events
         /\ \A step : StepShape(step) =>
              /\ ForStep(kind, step) \in Events
              /\ \A class \in FailureClasses :
                   [ForStep(kind, step) EXCEPT !.class = class] \in Events
              /\ \A E \in SUBSET EvidenceRecords :
                   /\ [ForStep(kind, step) EXCEPT !.evidence = E] \in Events
                   /\ \A axis \in ProviderAxes, n \in Nat :
                        [ForStep(kind, step) EXCEPT !.axis = axis, !.bytes = n, !.evidence = E]
                          \in Events
<1>1. EventOf(kind) \in Events BY NoneAssumption DEF EventOf, Events
<1>2. ASSUME NEW step, StepShape(step) PROVE ForStep(kind, step) \in Events
  <2>1. step.id \in STRING /\ step.cap \in STRING BY <1>2 DEF StepShape
  <2> QED BY <1>1, <2>1 DEF ForStep, Events
<1> QED BY <1>1, <1>2 DEF Events

\* An admitted request is not the absence of one, and its program is made of
\* steps of the right shape.
LEMMA AdmittedShape ==
  ASSUME x \in Requests
  PROVE  /\ x # NoRequest
         /\ \E T : x.spec.program \in Seq(T)
         /\ \A i \in DOMAIN Program : StepShape(Program[i])
<1>1. RequestShape(x) BY EngineAssumption
<1>2. x # NoRequest
  <2>1. x.verifier \in Verifiers BY <1>1 DEF RequestShape
  <2>2. NoRequest.verifier = None BY DEF NoRequest
  <2>3. None \notin Verifiers BY DEF None, Verifiers
  <2> QED BY <2>1, <2>2, <2>3
<1> DEFINE T == [id : STRING, cap : STRING, target : Targets \cup {None},
                 content : Contents \cup {None}]
<1>3. x.spec.program \in Seq(T) BY <1>1 DEF RequestShape
<1>4. ASSUME NEW i \in DOMAIN Program PROVE StepShape(Program[i])
  <2>1. Program[i] \in T
    <3> HIDE DEF T
    <3> QED BY <1>3 DEF Program
  <2>2. Program[i] \in StepsOf(x.spec) BY DEF Program, StepsOf
  <2> QED BY <1>1, <2>1, <2>2 DEF RequestShape, StepShape
<1> QED BY <1>2, <1>3, <1>4

---------------------------------------------------------------------------
(***************************************************************************)
(* The inductive invariant.  A caller between Enter and its return works   *)
(* on an admitted request; where it speaks of a step, the program has it;  *)
(* the authorizer has allowed the step a caller is about to invoke; and    *)
(* nobody judges without a verifier.                                       *)
(***************************************************************************)
StepPCs == {"dispatch", "invoke", "evaluate", "evidence", "mutation", "artifact", "next"}

RunOK(r) ==
  /\ r \in Runs
  /\ r.pc \notin {"idle", "done"} => x \in Requests
  /\ r.pc \in StepPCs => r.step \in DOMAIN Program
  /\ r.pc = "invoke" => AuthorizerAllows(x.grant, Program[r.step])
  /\ r.pc = "judge" => x.verifier # "none"

Placed   == \A c \in Callers : RunOK(run[c])
Admitted == x # NoRequest => AdmissionRefusal(x, Registered) = None
Blank    == x = NoRequest => st = InitialState /\ effects = {}

IInv == /\ TypeOK /\ Placed /\ Admitted /\ Blank
        /\ EffectsAreGranted /\ ReadOnlyContractsAreReadOnly

\* A caller at work may move on to any point but invoke, which needs the
\* authorizer, and judge, which needs a verifier.
LEMMA MoveOK ==
  ASSUME NEW r, RunOK(r), r.pc \notin {"idle", "done"}, NEW pc \in PCs, pc # "invoke",
         pc \in StepPCs => r.pc \in StepPCs, pc = "judge" => x.verifier # "none"
  PROVE  RunOK(At1(r, pc))
<1>1. At1(r, pc) \in Runs BY DEF RunOK, Runs, At1
<1>2. At1(r, pc).pc = pc /\ At1(r, pc).step = r.step BY DEF RunOK, Runs, At1
<1> QED BY <1>1, <1>2 DEF RunOK

\* A caller at work may be stopped with any class of failure.
LEMMA BlockOK ==
  ASSUME NEW r, RunOK(r), r.pc \notin {"idle", "done"}, NEW class \in FailureClasses,
         NEW pc \in {"stopped", "fail"}
  PROVE  /\ RunOK([r EXCEPT !.pc = pc, !.block = class])
         /\ RunOK(Blocked(r, class))
<1>1. ASSUME NEW p \in {"stopped", "fail"}
      PROVE  RunOK([r EXCEPT !.pc = p, !.block = class])
  <2> DEFINE q == [r EXCEPT !.pc = p, !.block = class]
  <2>1. q \in Runs BY DEF RunOK, Runs, PCs
  <2>2. q.pc = p BY DEF RunOK, Runs
  <2> HIDE DEF q
  <2>3. RunOK(q) BY <2>1, <2>2 DEF RunOK, StepPCs
  <2> QED BY <2>3 DEF q
<1> QED BY <1>1 DEF Blocked

\* A step of one caller that leaves the request, the workspace and the history
\* alone keeps the invariant, if it leaves the caller well placed.
LEMMA LocalStep ==
  ASSUME IInv, NEW c \in Callers, NEW r, RunOK(r), run' = [run EXCEPT ![c] = r],
         UNCHANGED <<x, admission, ws, edits, effects>>,
         st' \in States, x = NoRequest => st' = st,
         log' \in Seq(Events), cancelled' \in BOOLEAN, done' \in [Callers -> BOOLEAN],
         calm' \in BOOLEAN
  PROVE  IInv'
<1>1. r \in Runs BY DEF RunOK
<1>2. TypeOK' BY <1>1 DEF IInv, TypeOK
<1>3. Placed'
  <2> SUFFICES ASSUME NEW d \in Callers PROVE RunOK(run[d])' BY DEF Placed
  <2>1. run'[d] = IF d = c THEN r ELSE run[d] BY DEF IInv, TypeOK
  <2>2. RunOK(run[d]) BY DEF IInv, Placed
  <2>3. RunOK(run'[d]) BY <2>1, <2>2
  <2> QED BY <2>3 DEF RunOK, Program
<1>4. Admitted' /\ Blank' BY DEF IInv, Admitted, Blank
<1>5. EffectsAreGranted' /\ ReadOnlyContractsAreReadOnly'
  BY DEF IInv, EffectsAreGranted, ReadOnlyContractsAreReadOnly
<1> QED BY <1>2, <1>3, <1>4, <1>5 DEF IInv

\* An emission keeps the invariant, whether reduce accepts the event or not.
LEMMA EmitStep ==
  ASSUME IInv, x \in Requests, NEW c \in Callers, NEW e \in Events,
         NEW a, NEW b, RunOK(a), RunOK(b), EmitOr(c, e, a, b),
         UNCHANGED <<x, admission, log, cancelled, done, ws, edits, effects>>,
         calm' \in BOOLEAN
  PROVE  IInv'
<1>1. x # NoRequest BY AdmittedShape
<1>2. st \in States /\ log \in Seq(Events) /\ cancelled \in BOOLEAN
        /\ done \in [Callers -> BOOLEAN]
  BY DEF IInv, TypeOK
<1>3. CASE Emit(c, e, a)
  <2>1. PICK T : x.spec.program \in Seq(T) BY AdmittedShape
  <2>2. st' \in States BY <1>2, <1>3, <2>1, ReducedType DEF Emit
  <2> DEFINE r == [a EXCEPT !.outbox = Stamped(e)]
  <2>3. st.revision + 1 \in Nat BY <1>2 DEF States
  <2>4. Stamped(e) \in Events BY <2>3 DEF Stamped, Events
  <2>5. r \in Runs BY <2>4 DEF RunOK, Runs
  <2>6. r.pc = a.pc /\ r.step = a.step BY DEF RunOK, Runs
  <2> HIDE DEF r
  <2>7. RunOK(r) BY <2>5, <2>6 DEF RunOK
  <2>8. run' = [run EXCEPT ![c] = r] BY <1>3 DEF Emit, r
  <2> QED BY <1>1, <1>2, <2>2, <2>7, <2>8, LocalStep
<1>4. CASE Refused(c, e, b)
  <2>1. run' = [run EXCEPT ![c] = b] /\ st' = st BY <1>4 DEF Refused
  <2> QED BY <1>1, <1>2, <2>1, LocalStep
<1> QED BY <1>3, <1>4 DEF EmitOr

---------------------------------------------------------------------------

\* The invariant holds initially.
LEMMA InitOK == Init => IInv
<1> SUFFICES ASSUME Init PROVE IInv OBVIOUS
<1>1. InitialState \in States
  <2>1. [k \in Capabilities |-> 0] \in [Capabilities -> Nat] OBVIOUS
  <2>2. NoTerminal \in [outcome : Outcomes \cup {None}, class : FailureClasses \cup {None},
                        revision : Nat]
    BY DEF NoTerminal
  <2> QED BY <2>1, <2>2 DEF InitialState, States, Statuses, ProviderAxes
<1>2. NoEvent \in Events BY EventType DEF NoEvent
<1>3. Idle \in Runs
  <2>1. "idle" \in PCs BY DEF PCs
  <2> QED BY <2>1, <1>2, FailedType DEF Idle, Runs
<1>4. TypeOK
  <2>1. log \in Seq(Events) BY DEF Init
  <2>2. edits \in 0..MaxEdits BY EngineAssumption DEF Init
  <2>3. admission \in FailureClasses \cup {None} /\ x \in Requests \cup {NoRequest} BY DEF Init
  <2>4. run \in [Callers -> Runs] BY <1>3 DEF Init
  <2>5. cancelled \in BOOLEAN /\ calm \in BOOLEAN /\ done \in [Callers -> BOOLEAN]
    BY DEF Init
  <2>6. st \in States /\ ws \in Workspaces /\ effects \subseteq Effects BY <1>1 DEF Init
  <2> QED BY <2>1, <2>2, <2>3, <2>4, <2>5, <2>6 DEF TypeOK
<1>5. Placed
  <2> SUFFICES ASSUME NEW c \in Callers PROVE RunOK(run[c]) BY DEF Placed
  <2>1. run[c] = Idle BY DEF Init
  <2>2. Idle.pc = "idle" BY DEF Idle
  <2> QED BY <2>1, <2>2, <1>3 DEF RunOK, StepPCs
<1>6. Admitted /\ Blank BY DEF Init, Admitted, Blank
<1>7. EffectsAreGranted /\ ReadOnlyContractsAreReadOnly
  BY DEF Init, EffectsAreGranted, ReadOnlyContractsAreReadOnly
<1> QED BY <1>4, <1>5, <1>6, <1>7 DEF IInv

\* What is known of a caller at work.
LEMMA AtWork ==
  ASSUME IInv, NEW c \in Callers, run[c].pc \notin {"idle", "done"}
  PROVE  /\ x \in Requests /\ x # NoRequest
         /\ RunOK(run[c]) /\ run[c] \in Runs
         /\ run[c].pc \in StepPCs =>
              /\ StepShape(StepOf(c))
              /\ StepOf(c).cap \in Capabilities
              /\ MutatingCap(StepOf(c).cap) => ~ForbidsMutation(x.spec.kind)
         /\ run[c].pc = "invoke" => AuthorizerAllows(x.grant, StepOf(c))
<1>1. RunOK(run[c]) BY DEF IInv, Placed
<1>2. x \in Requests /\ x # NoRequest BY <1>1, AdmittedShape DEF RunOK
<1>3. ValidSpec(x.spec, Registered) BY <1>2 DEF IInv, Admitted, AdmissionRefusal, None
<1>4. ASSUME run[c].pc \in StepPCs
      PROVE  /\ StepShape(StepOf(c)) /\ StepOf(c).cap \in Capabilities
             /\ MutatingCap(StepOf(c).cap) => ~ForbidsMutation(x.spec.kind)
  <2>1. run[c].step \in DOMAIN Program BY <1>1, <1>4 DEF RunOK
  <2>2. StepOf(c) \in StepsOf(x.spec) BY <2>1 DEF StepOf, StepsOf, Program
  <2>3. StepShape(StepOf(c)) BY <1>2, <2>1, AdmittedShape DEF StepOf
  <2> QED BY <1>3, <2>2, <2>3 DEF ValidSpec
<1>5. run[c].pc = "invoke" => AuthorizerAllows(x.grant, StepOf(c)) BY <1>1 DEF RunOK, StepOf
<1>6. run[c] \in Runs BY <1>1 DEF RunOK
<1> QED BY <1>1, <1>2, <1>4, <1>5, <1>6

\* Goto and Stop replace the run record of one caller.
LEMMA GotoIs ==
  ASSUME IInv, NEW c \in Callers, NEW pc, NEW class
  PROVE  /\ Goto(c, pc) => run' = [run EXCEPT ![c] = At1(run[c], pc)]
         /\ Stop(c, class) => run' = [run EXCEPT ![c] = Blocked(run[c], class)]
BY DEF IInv, TypeOK, Goto, Stop, At1, Blocked

\* A step that only moves one caller, and changes nothing else but calm.
LEMMA MoveStep ==
  ASSUME IInv, NEW c \in Callers, NEW r, RunOK(r), run' = [run EXCEPT ![c] = r],
         UNCHANGED <<x, admission, st, log, cancelled, done, ws, edits, effects>>,
         calm' \in BOOLEAN
  PROVE  IInv'
<1>1. st \in States /\ log \in Seq(Events) /\ cancelled \in BOOLEAN
        /\ done \in [Callers -> BOOLEAN]
  BY DEF IInv, TypeOK
<1> QED BY <1>1, LocalStep

\* A caller moving on, with no event, keeps the invariant.
LEMMA GotoStep ==
  ASSUME IInv, NEW c \in Callers, run[c].pc \notin {"idle", "done"}, NEW pc \in PCs,
         pc # "invoke", pc \in StepPCs => run[c].pc \in StepPCs,
         pc = "judge" => x.verifier # "none", Goto(c, pc),
         UNCHANGED <<x, admission, st, log, cancelled, done, ws, edits, effects>>,
         calm' \in BOOLEAN
  PROVE  IInv'
BY AtWork, GotoIs, MoveOK, MoveStep

\* So does a caller that stops with a class.
LEMMA StopStep ==
  ASSUME IInv, NEW c \in Callers, run[c].pc \notin {"idle", "done"},
         NEW class \in FailureClasses, Stop(c, class),
         UNCHANGED <<x, admission, st, log, cancelled, done, ws, edits, effects>>,
         calm' \in BOOLEAN
  PROVE  IInv'
<1>1. RunOK(run[c]) BY AtWork
<1>2. RunOK(Blocked(run[c], class)) BY <1>1, BlockOK
<1> QED BY <1>2, GotoIs, MoveStep

\* An emission that moves the caller to pc, or stops it with the given class.
LEMMA EmitOrBlock ==
  ASSUME IInv, NEW c \in Callers, run[c].pc \notin {"idle", "done"}, NEW e \in Events,
         NEW pc \in PCs, pc # "invoke", pc \in StepPCs => run[c].pc \in StepPCs,
         pc = "judge" => x.verifier # "none",
         NEW class \in FailureClasses,
         EmitOr(c, e, At1(run[c], pc), Blocked(run[c], class)),
         UNCHANGED <<x, admission, log, cancelled, done, ws, edits, effects>>,
         calm' \in BOOLEAN
  PROVE  IInv'
<1>1. x \in Requests /\ RunOK(run[c]) BY AtWork
<1>2. RunOK(At1(run[c], pc)) BY <1>1, MoveOK
<1>3. RunOK(Blocked(run[c], class)) BY <1>1, BlockOK
<1> QED BY <1>1, <1>2, <1>3, EmitStep

\* blockStep keeps the invariant, with every class of refusal.
LEMMA BlockStepOK ==
  ASSUME IInv, NEW c \in Callers, run[c].pc \in StepPCs, NEW class \in FailureClasses,
         BlockStep(c, class),
         UNCHANGED <<x, admission, log, cancelled, done, ws, edits, effects, calm>>
  PROVE  IInv'
<1>1. run[c].pc \notin {"idle", "done"} BY DEF StepPCs
<1>2. x \in Requests /\ RunOK(run[c]) /\ StepShape(StepOf(c)) BY <1>1, AtWork
<1> DEFINE e == [ForStep("step.blocked", StepOf(c)) EXCEPT !.class = class]
<1>3. "step.blocked" \in EventKinds BY DEF EventKinds
<1>4. e \in Events BY <1>2, <1>3, EventType
<1>5. "EXECUTION_FAILURE" \in FailureClasses BY DEF FailureClasses
<1>6. RunOK(Blocked(run[c], class)) /\ RunOK(Blocked(run[c], "EXECUTION_FAILURE"))
  BY <1>1, <1>2, <1>5, BlockOK
<1>7. EmitOr(c, e, Blocked(run[c], class), Blocked(run[c], "EXECUTION_FAILURE"))
  BY DEF BlockStep
<1>8. calm' \in BOOLEAN BY DEF IInv, TypeOK
<1> HIDE DEF e
<1> QED BY <1>2, <1>4, <1>6, <1>7, <1>8, EmitStep

---------------------------------------------------------------------------

\* The history variable calm is a truth value (what MoveStep and its like ask).
LEMMA CalmType == IInv => calm \in BOOLEAN
BY DEF IInv, TypeOK

\* Admission: the checks passed, and nothing was done under an earlier request.
LEMMA OpenOK == ASSUME IInv, NEW req \in Requests, Open(req) PROVE IInv'
<1>1. run' = run /\ ws' = ws /\ effects' = effects BY DEF Open
<1>2. CASE AdmissionRefusal(req, Registered) # None /\ UNCHANGED <<x, st>>
           /\ admission' = AdmissionRefusal(req, Registered)
  <2>1. AdmissionRefusal(req, Registered) \in FailureClasses
    BY <1>2 DEF AdmissionRefusal, FailureClasses
  <2>2. TypeOK' BY <1>2, <2>1 DEF IInv, TypeOK, Open
  <2>3. Placed' BY <1>1, <1>2 DEF IInv, Placed, RunOK, Program
  <2> QED BY <1>1, <1>2, <2>2, <2>3
          DEF IInv, Admitted, Blank, EffectsAreGranted, ReadOnlyContractsAreReadOnly
<1>3. CASE AdmissionRefusal(req, Registered) = None /\ x = NoRequest
           /\ x' = req /\ st' = InitialState /\ admission' = None
  <2>1. st = InitialState /\ effects = {} BY <1>3 DEF IInv, Blank
  <2>2. TypeOK' BY <1>3, <2>1 DEF IInv, TypeOK, Open
  <2>3. Placed'
    <3> SUFFICES ASSUME NEW c \in Callers PROVE RunOK(run[c])' BY DEF Placed
    <3>1. RunOK(run[c]) BY DEF IInv, Placed
    <3>2. run[c].pc \in {"idle", "done"} BY <1>3, <3>1, AdmittedShape DEF RunOK
    <3> QED BY <1>1, <3>1, <3>2 DEF RunOK, StepPCs
  <2>4. effects' = {} BY <1>1, <2>1
  <2>5. EffectsAreGranted' /\ ReadOnlyContractsAreReadOnly'
    BY <2>4 DEF EffectsAreGranted, ReadOnlyContractsAreReadOnly
  <2>6. Admitted' /\ Blank' BY <1>3, <2>4 DEF Admitted, Blank
  <2> QED BY <2>2, <2>3, <2>5, <2>6 DEF IInv
<1> QED BY <1>2, <1>3 DEF Open

\* Run, on the way in: only an admitted, unstarted execution is worked on.
LEMMA EnterOK == ASSUME IInv, NEW c \in Callers, Enter(c) PROVE IInv'
<1>1. run[c].pc = "idle" /\ RunOK(run[c]) /\ run[c] \in Runs BY DEF Enter, At, IInv, Placed, RunOK
<1>2. CASE x # NoRequest /\ Goto(c, "start")
  <2>1. At1(run[c], "start") \in Runs BY <1>1 DEF Runs, PCs, At1
  <2>2. At1(run[c], "start").pc = "start" BY <1>1 DEF Runs, At1
  <2>3. x \in Requests BY <1>2 DEF IInv, TypeOK
  <2>4. RunOK(At1(run[c], "start")) BY <2>1, <2>2, <2>3 DEF RunOK, StepPCs
  <2> QED BY <1>2, <2>4, GotoIs, MoveStep, CalmType DEF Enter
<1>3. CASE run' = [run EXCEPT ![c].pc = "done", ![c].result = OutcomeForClass(admission)]
  <2> DEFINE r == [run[c] EXCEPT !.pc = "done", !.result = OutcomeForClass(admission)]
  <2>1. OutcomeForClass(admission) \in Outcomes BY DEF OutcomeForClass, Outcomes
  <2>2. r \in Runs /\ r.pc = "done" BY <1>1, <2>1 DEF Runs, PCs
  <2>3. run' = [run EXCEPT ![c] = r] BY <1>3 DEF IInv, TypeOK
  <2> HIDE DEF r
  <2>4. RunOK(r) BY <2>2 DEF RunOK, StepPCs
  <2> QED BY <2>3, <2>4, MoveStep, CalmType DEF Enter
<1> QED BY <1>2, <1>3 DEF Enter

\* Run emits execution.started.
LEMMA StartOK == ASSUME IInv, NEW c \in Callers, Start(c) PROVE IInv'
<1>1. run[c].pc = "start" BY DEF Start, At
<1>2. x \in Requests /\ RunOK(run[c]) BY <1>1, AtWork
<1>3. "check" \in PCs /\ "check" \notin StepPCs BY DEF PCs, StepPCs
<1>4. "INVALID_SPEC" \in FailureClasses BY DEF FailureClasses
<1>5. EventOf("execution.started") \in Events BY EventType DEF EventKinds
<1>6. RunOK(At1(run[c], "check")) BY <1>1, <1>2, <1>3, MoveOK
<1>7. RunOK([run[c] EXCEPT !.pc = "fail", !.block = "INVALID_SPEC"])
  BY <1>1, <1>2, <1>4, BlockOK
<1> QED BY <1>2, <1>5, <1>6, <1>7, EmitStep, CalmType DEF Start

\* The top of the loop: past it the current step is one of the program.
LEMMA CheckOK == ASSUME IInv, NEW c \in Callers, Check(c) PROVE IInv'
<1>1. run[c].pc = "check" BY DEF Check, At
<1>2. RunOK(run[c]) /\ run[c] \in Runs /\ x \in Requests BY <1>1, AtWork
<1>3. {"CANCELLED", "INTERRUPTED"} \subseteq FailureClasses BY DEF FailureClasses
<1>4. CASE Goto(c, "verify")
  <2>1. "verify" \in PCs /\ "verify" \notin StepPCs BY DEF PCs, StepPCs
  <2> QED BY <1>1, <1>4, <2>1, GotoStep, CalmType DEF Check
<1>5. CASE Stop(c, "CANCELLED") \/ Stop(c, "INTERRUPTED")
  BY <1>1, <1>3, <1>5, StopStep, CalmType DEF Check
<1>6. CASE ~(run[c].step > Len(Program)) /\ Goto(c, "dispatch")
  <2>1. PICK T : x.spec.program \in Seq(T) BY <1>2, AdmittedShape
  <2>2. run[c].step \in Nat \ {0} BY <1>2 DEF Runs
  <2>3. run[c].step \in DOMAIN Program BY <1>6, <2>1, <2>2 DEF Program
  <2>4. At1(run[c], "dispatch") \in Runs BY <1>2 DEF Runs, PCs, At1
  <2>5. At1(run[c], "dispatch").pc = "dispatch" /\ At1(run[c], "dispatch").step = run[c].step
    BY <1>2 DEF Runs, At1
  <2>6. RunOK(At1(run[c], "dispatch")) BY <1>2, <2>3, <2>4, <2>5 DEF RunOK
  <2> QED BY <1>6, <2>6, GotoIs, MoveStep, CalmType DEF Check
<1> QED BY <1>4, <1>5, <1>6 DEF Check

\* runStep up to step.started: past it the authorizer has allowed the step.
LEMMA DispatchOK == ASSUME IInv, NEW c \in Callers, Dispatch(c) PROVE IInv'
<1> DEFINE step == StepOf(c)
<1>1. run[c].pc = "dispatch" /\ run[c].pc \in StepPCs BY DEF Dispatch, At, StepPCs
<1>2. x \in Requests /\ RunOK(run[c]) /\ run[c] \in Runs /\ StepShape(step) BY <1>1, AtWork
<1>3. UNCHANGED <<x, admission, log, cancelled, done, ws, edits, effects, calm>>
  BY DEF Dispatch
<1>4. "EXECUTION_FAILURE" \in FailureClasses BY DEF FailureClasses
<1>5. CASE DispatchRefusal(step) # None /\ BlockStep(c, DispatchRefusal(step))
  <2>1. DispatchRefusal(step) \in FailureClasses BY <1>5 DEF DispatchRefusal, FailureClasses
  <2> QED BY <1>1, <1>3, <1>5, <2>1, BlockStepOK
<1>6. CASE \E class \in GateRefusals(step) : BlockStep(c, class)
  <2>1. GateRefusals(step) \subseteq FailureClasses BY DEF GateRefusals, FailureClasses
  <2> QED BY <1>1, <1>3, <1>6, <2>1, BlockStepOK
<1>7. CASE DispatchRefusal(step) = None
           /\ EmitOr(c, ForStep("step.started", step), At1(run[c], "invoke"),
                     Blocked(run[c], "EXECUTION_FAILURE"))
  <2>1. AuthorizerAllows(x.grant, step) BY <1>7 DEF DispatchRefusal, None
  <2>2. At1(run[c], "invoke") \in Runs BY <1>2 DEF Runs, PCs, At1
  <2>3. At1(run[c], "invoke").pc = "invoke" /\ At1(run[c], "invoke").step = run[c].step
    BY <1>2 DEF Runs, At1
  <2>4. RunOK(At1(run[c], "invoke")) BY <1>1, <1>2, <2>1, <2>2, <2>3 DEF RunOK, StepOf
  <2>5. RunOK(Blocked(run[c], "EXECUTION_FAILURE")) BY <1>1, <1>2, <1>4, BlockOK
  <2>6. ForStep("step.started", step) \in Events BY <1>2, EventType DEF EventKinds
  <2> HIDE DEF step
  <2> QED BY <1>2, <1>3, <1>7, <2>4, <2>5, <2>6, EmitStep, CalmType
<1> QED BY <1>5, <1>6, <1>7 DEF Dispatch

\* The two actions that touch the disk: the authorizer has allowed the step, so
\* a change is to a target the grant names, by a capability it permits, under a
\* contract that does not forbid mutation.
LEMMA DiskStep ==
  ASSUME IInv, NEW c \in Callers, run[c].pc = "invoke", NEW out, NEW recorded,
         GoodStep(StepOf(c), ws, out), ws' = out.ws,
         run' = [run EXCEPT ![c].pc = "evaluate", ![c].obs = out.obs],
         recorded => StepOf(c).cap \in {"file.write", "file.delete"}
                     /\ StepOf(c).target \in Targets,
         effects' = effects \cup
           (IF recorded THEN {Effect(StepOf(c), ws[StepOf(c).target])} ELSE {}),
         UNCHANGED <<x, admission, st, log, cancelled, done>>,
         edits' \in 0..MaxEdits, calm' \in BOOLEAN
  PROVE  IInv'
<1> DEFINE step == StepOf(c)
           new == Effect(step, ws[step.target])
           r == [run[c] EXCEPT !.pc = "evaluate", !.obs = out.obs]
<1>1. /\ x \in Requests /\ x # NoRequest /\ RunOK(run[c]) /\ run[c] \in Runs
      /\ StepShape(step) /\ (MutatingCap(step.cap) => ~ForbidsMutation(x.spec.kind))
      /\ AuthorizerAllows(x.grant, step)
  BY AtWork DEF StepPCs
<1>2. r \in Runs /\ r.pc = "evaluate" /\ r.step = run[c].step BY <1>1 DEF Runs, PCs, GoodStep
<1>3. run' = [run EXCEPT ![c] = r] BY DEF IInv, TypeOK
<1>4. run[c].step \in DOMAIN Program BY <1>1 DEF RunOK, StepPCs
<1>5. RunOK(r)
  <2> HIDE DEF r
  <2> QED BY <1>1, <1>2, <1>4 DEF RunOK
<1> HIDE DEF r
<1>6. recorded => new \in Effects
  <2>1. SUFFICES ASSUME recorded PROVE new \in Effects OBVIOUS
  <2>2. step.target \in Targets /\ step.cap \in STRING BY <1>1, <2>1 DEF StepShape
  <2>3. ws[step.target] \in Contents \cup {NoFile} BY <2>2 DEF IInv, TypeOK, Workspaces
  <2> QED BY <2>2, <2>3 DEF Effect, Effects
<1>7. recorded => new.cap \in x.grant.caps /\ new.target \in x.grant.targets
  <2>1. SUFFICES ASSUME recorded
                 PROVE new.cap \in x.grant.caps /\ new.target \in x.grant.targets
    OBVIOUS
  <2>2. new.cap = step.cap /\ new.target = step.target BY DEF Effect
  <2>3. step.target # None BY <2>1, FilesystemAssumption
  <2>4. step.cap \in x.grant.caps BY <1>1 DEF AuthorizerAllows, GrantAuthorizes, Permits
  <2>5. step.target \in x.grant.targets
    BY <1>1, <2>3 DEF AuthorizerAllows, GrantAuthorizes, Covers
  <2> QED BY <2>2, <2>4, <2>5
<1>8. recorded => ~ForbidsMutation(x.spec.kind) BY <1>1 DEF MutatingCap
<1>9. effects' = effects \cup (IF recorded THEN {new} ELSE {}) OBVIOUS
<1> HIDE DEF new
<1>10. TypeOK'
  <2>1. effects' \subseteq Effects BY <1>6, <1>9 DEF IInv, TypeOK
  <2>2. run' \in [Callers -> Runs] BY <1>2, <1>3 DEF IInv, TypeOK, r
  <2>3. ws' \in Workspaces BY DEF GoodStep
  <2> QED BY <2>1, <2>2, <2>3 DEF IInv, TypeOK
<1>11. Placed'
  <2> SUFFICES ASSUME NEW d \in Callers PROVE RunOK(run[d])' BY DEF Placed
  <2>1. run'[d] = IF d = c THEN r ELSE run[d] BY <1>3 DEF IInv, TypeOK
  <2>2. RunOK(run[d]) BY DEF IInv, Placed
  <2>3. RunOK(run'[d]) BY <1>5, <2>1, <2>2
  <2> QED BY <2>3 DEF RunOK, Program
<1>12. EffectsAreGranted' BY <1>7, <1>9 DEF IInv, EffectsAreGranted
<1>13. ReadOnlyContractsAreReadOnly' BY <1>8, <1>9 DEF IInv, ReadOnlyContractsAreReadOnly
<1>14. Admitted' /\ Blank' BY <1>1 DEF IInv, Admitted, Blank
<1> QED BY <1>10, <1>11, <1>12, <1>13, <1>14 DEF IInv

\* Invoke of an allowed step.
LEMMA InvokeOK == ASSUME IInv, NEW c \in Callers, Invoke(c) PROVE IInv'
<1>1. run[c].pc = "invoke" BY DEF Invoke, At
<1>2. StepShape(StepOf(c)) /\ StepOf(c).cap \in Capabilities BY <1>1, AtWork DEF StepPCs
<1>3. ws \in Workspaces BY DEF IInv, TypeOK
<1>4. PICK out \in Invocations(StepOf(c), ws, done[c]) :
        /\ ws' = out.ws
        /\ run' = [run EXCEPT ![c].pc = "evaluate", ![c].obs = out.obs]
        /\ effects' = effects \cup
             IF out.ws = ws THEN {} ELSE {Effect(StepOf(c), ws[StepOf(c).target])}
  BY DEF Invoke
<1>5. GoodStep(StepOf(c), ws, out) BY <1>2, <1>3, InvocationType
<1> DEFINE recorded == out.ws # ws
<1>6. recorded => StepOf(c).cap \in {"file.write", "file.delete"} /\ StepOf(c).target \in Targets
  BY <1>5 DEF GoodStep
<1>7. effects' = effects \cup
        (IF recorded THEN {Effect(StepOf(c), ws[StepOf(c).target])} ELSE {})
  BY <1>4
<1>8. UNCHANGED <<x, admission, st, log, cancelled, done>> /\ edits' \in 0..MaxEdits
        /\ calm' \in BOOLEAN
  BY DEF Invoke, IInv, TypeOK
<1> HIDE DEF recorded
<1> QED BY <1>1, <1>4, <1>5, <1>6, <1>7, <1>8, DiskStep

\* Invoke of an allowed removal that another process undoes.
LEMMA InvokeRecreatedOK == ASSUME IInv, NEW c \in Callers, InvokeRecreated(c) PROVE IInv'
<1>1. run[c].pc = "invoke" BY DEF InvokeRecreated, At
<1>2. StepShape(StepOf(c)) BY <1>1, AtWork DEF StepPCs
<1>3. ws \in Workspaces BY DEF IInv, TypeOK
<1>4. PICK out \in Recreations(StepOf(c), ws, done[c]) :
        /\ ws' = out.ws
        /\ run' = [run EXCEPT ![c].pc = "evaluate", ![c].obs = out.obs]
  BY DEF InvokeRecreated
<1>5. GoodStep(StepOf(c), ws, out) /\ StepOf(c).cap = "file.delete"
        /\ StepOf(c).target \in Targets
  BY <1>2, <1>3, RecreationType
<1>6. effects' = effects \cup
        (IF TRUE THEN {Effect(StepOf(c), ws[StepOf(c).target])} ELSE {})
  BY DEF InvokeRecreated
<1>7. edits' \in 0..MaxEdits
  BY EngineAssumption DEF InvokeRecreated, IInv, TypeOK
<1>8. UNCHANGED <<x, admission, st, log, cancelled, done>> /\ calm' \in BOOLEAN
  BY DEF InvokeRecreated
<1> QED BY <1>1, <1>4, <1>5, <1>6, <1>7, <1>8, DiskStep

\* A finished context is explained by a class of failure.
LEMMA StopClassType == StopClass \in FailureClasses
BY DEF StopClass, FailureClasses

\* So is the error of a capability under a live context.
LEMMA ErrorClassType == \A obs : classForCapabilityError(obs) \in FailureClasses
BY DEF classForCapabilityError, FailureClasses

\* runStep after Invoke: error, output bound, verdict, capability.invoked.
LEMMA EvaluateOK == ASSUME IInv, NEW c \in Callers, Evaluate(c) PROVE IInv'
<1> DEFINE step == StepOf(c)
           obs == run[c].obs
<1>1. run[c].pc = "evaluate" /\ run[c].pc \in StepPCs /\ run[c].pc \notin {"idle", "done"}
  BY DEF Evaluate, At, StepPCs
<1>2. x \in Requests /\ run[c] \in Runs /\ StepShape(step) BY <1>1, AtWork
<1>3. obs \in Observations /\ obs.charged \in Nat BY <1>2 DEF Runs, Observations
<1>4. UNCHANGED <<x, admission, log, cancelled, done, ws, edits, effects, calm>>
        /\ calm' \in BOOLEAN
  BY CalmType DEF Evaluate
<1>5. {"CAPABILITY_FAILURE", "BUDGET_EXHAUSTED", "EXECUTION_FAILURE"} \subseteq FailureClasses
  BY DEF FailureClasses
<1>6. CASE /\ Stop(c, IF done[c] THEN StopClass ELSE classForCapabilityError(obs))
           /\ UNCHANGED st
  <2> DEFINE k == IF done[c] THEN StopClass ELSE classForCapabilityError(obs)
  <2>1. k \in FailureClasses BY StopClassType, ErrorClassType
  <2>2. Stop(c, k) BY <1>6
  <2> HIDE DEF k
  <2> QED BY <1>1, <1>4, <1>6, <2>1, <2>2, StopStep
<1>7. CASE BlockStep(c, "BUDGET_EXHAUSTED")
  BY <1>1, <1>4, <1>5, <1>7, BlockStepOK
<1>8. CASE Stop(c, "CAPABILITY_FAILURE") /\ UNCHANGED st
  BY <1>1, <1>4, <1>5, <1>8, StopStep
<1>9. CASE EmitOr(c, [ForStep("capability.invoked", step) EXCEPT
                        !.axis = ProviderAxis(obs), !.bytes = obs.charged,
                        !.evidence = Records(step, obs)],
                  At1(run[c], "evidence"), Blocked(run[c], "EXECUTION_FAILURE"))
  <2>1. ProviderAxis(obs) \in ProviderAxes BY DEF ProviderAxis, ProviderAxes
  <2>2. Records(step, obs) \in SUBSET EvidenceRecords BY <1>2, <1>3, RecordsType
  <2>3. "capability.invoked" \in EventKinds BY DEF EventKinds
  <2>4. [ForStep("capability.invoked", step) EXCEPT !.axis = ProviderAxis(obs),
           !.bytes = obs.charged, !.evidence = Records(step, obs)] \in Events
    BY <1>2, <1>3, <2>1, <2>2, <2>3, EventType
  <2>5. "evidence" \in PCs BY DEF PCs
  <2> HIDE DEF step, obs
  <2> QED BY <1>1, <1>4, <1>5, <1>9, <2>4, <2>5, EmitOrBlock
<1> QED BY <1>6, <1>7, <1>8, <1>9 DEF Evaluate

\* runStep emits evidence.produced.
LEMMA EvidenceOK == ASSUME IInv, NEW c \in Callers, Evidence(c) PROVE IInv'
<1> DEFINE records == Records(StepOf(c), run[c].obs)
           e == [ForStep("evidence.produced", StepOf(c)) EXCEPT !.evidence = records]
<1>1. run[c].pc = "evidence" /\ run[c].pc \in StepPCs /\ run[c].pc \notin {"idle", "done"}
  BY DEF Evidence, At, StepPCs
<1>2. run[c] \in Runs /\ StepShape(StepOf(c)) BY <1>1, AtWork
<1>3. run[c].obs \in Observations BY <1>2 DEF Runs
<1>4. UNCHANGED <<x, admission, log, cancelled, done, ws, edits, effects, calm>>
        /\ calm' \in BOOLEAN
  BY CalmType DEF Evidence
<1>5. "mutation" \in PCs /\ "EXECUTION_FAILURE" \in FailureClasses BY DEF PCs, FailureClasses
<1>6. CASE Goto(c, "mutation") /\ UNCHANGED st BY <1>1, <1>4, <1>5, <1>6, GotoStep
<1>7. CASE EmitOr(c, e, At1(run[c], "mutation"), Blocked(run[c], "EXECUTION_FAILURE"))
  <2>1. e \in Events BY <1>2, <1>3, RecordsType, EventType DEF EventKinds
  <2> HIDE DEF e
  <2> QED BY <1>1, <1>4, <1>5, <1>7, <2>1, EmitOrBlock
<1> QED BY <1>6, <1>7 DEF Evidence

\* projectAxes emits mutation.applied.
LEMMA ProjectMutationOK == ASSUME IInv, NEW c \in Callers, ProjectMutation(c) PROVE IInv'
<1> DEFINE records == Records(StepOf(c), run[c].obs)
           e == [ForStep("mutation.applied", StepOf(c)) EXCEPT !.evidence = records]
<1>1. run[c].pc = "mutation" /\ run[c].pc \in StepPCs /\ run[c].pc \notin {"idle", "done"}
  BY DEF ProjectMutation, At, StepPCs
<1>2. run[c] \in Runs /\ StepShape(StepOf(c)) BY <1>1, AtWork
<1>3. run[c].obs \in Observations BY <1>2 DEF Runs
<1>4. UNCHANGED <<x, admission, log, cancelled, done, ws, edits, effects, calm>>
        /\ calm' \in BOOLEAN
  BY CalmType DEF ProjectMutation
<1>5. "artifact" \in PCs /\ "MUTATION_FAILURE" \in FailureClasses BY DEF PCs, FailureClasses
<1>6. CASE Goto(c, "artifact") /\ UNCHANGED st BY <1>1, <1>4, <1>5, <1>6, GotoStep
<1>7. CASE EmitOr(c, e, At1(run[c], "artifact"), Blocked(run[c], "MUTATION_FAILURE"))
  <2>1. e \in Events BY <1>2, <1>3, RecordsType, EventType DEF EventKinds
  <2> HIDE DEF e
  <2> QED BY <1>1, <1>4, <1>5, <1>7, <2>1, EmitOrBlock
<1> QED BY <1>6, <1>7 DEF ProjectMutation

\* projectAxes emits artifact.produced.
LEMMA ProjectArtifactOK == ASSUME IInv, NEW c \in Callers, ProjectArtifact(c) PROVE IInv'
<1> DEFINE records == Records(StepOf(c), run[c].obs)
           e == [ForStep("artifact.produced", StepOf(c)) EXCEPT !.evidence = records]
<1>1. run[c].pc = "artifact" /\ run[c].pc \in StepPCs /\ run[c].pc \notin {"idle", "done"}
  BY DEF ProjectArtifact, At, StepPCs
<1>2. run[c] \in Runs /\ StepShape(StepOf(c)) BY <1>1, AtWork
<1>3. run[c].obs \in Observations BY <1>2 DEF Runs
<1>4. UNCHANGED <<x, admission, log, cancelled, done, ws, edits, effects, calm>>
        /\ calm' \in BOOLEAN
  BY CalmType DEF ProjectArtifact
<1>5. "next" \in PCs /\ "ARTIFACT_FAILURE" \in FailureClasses BY DEF PCs, FailureClasses
<1>6. CASE Goto(c, "next") /\ UNCHANGED st BY <1>1, <1>4, <1>5, <1>6, GotoStep
<1>7. CASE EmitOr(c, e, At1(run[c], "next"), Blocked(run[c], "ARTIFACT_FAILURE"))
  <2>1. e \in Events BY <1>2, <1>3, RecordsType, EventType DEF EventKinds
  <2> HIDE DEF e
  <2> QED BY <1>1, <1>4, <1>5, <1>7, <2>1, EmitOrBlock
<1> QED BY <1>6, <1>7 DEF ProjectArtifact

\* Run looks at the context after a step.
LEMMA NextStepOK == ASSUME IInv, NEW c \in Callers, NextStep(c) PROVE IInv'
<1>1. run[c].pc = "next" BY DEF NextStep, At
<1>2. RunOK(run[c]) /\ run[c] \in Runs /\ x \in Requests BY <1>1, AtWork
<1>3. CASE run' = [run EXCEPT ![c].pc = "fail", ![c].block = StopClass]
  <2> DEFINE r == [run[c] EXCEPT !.pc = "fail", !.block = StopClass]
  <2>1. RunOK(r) BY <1>1, <1>2, StopClassType, BlockOK
  <2>2. run' = [run EXCEPT ![c] = r] BY <1>3 DEF IInv, TypeOK
  <2> HIDE DEF r
  <2> QED BY <2>1, <2>2, MoveStep, CalmType DEF NextStep
<1>4. CASE run' = [run EXCEPT ![c].pc = "check", ![c].step = @ + 1]
  <2> DEFINE r == [run[c] EXCEPT !.pc = "check", !.step = run[c].step + 1]
  <2>1. run[c].step + 1 \in Nat \ {0} BY <1>2 DEF Runs
  <2>2. r \in Runs /\ r.pc = "check" BY <1>2, <2>1 DEF Runs, PCs
  <2>3. run' = [run EXCEPT ![c] = r] BY <1>4 DEF IInv, TypeOK
  <2> HIDE DEF r
  <2>4. RunOK(r) BY <1>2, <2>2 DEF RunOK, StepPCs
  <2> QED BY <2>3, <2>4, MoveStep, CalmType DEF NextStep
<1> QED BY <1>3, <1>4 DEF NextStep

\* verify, up to the call of the verifier: it is made only with one bound.
LEMMA VerifyOK == ASSUME IInv, NEW c \in Callers, Verify(c) PROVE IInv'
<1>1. run[c].pc = "verify" BY DEF Verify, At
<1>2. UNCHANGED <<x, admission, log, cancelled, done, ws, edits, effects>> BY DEF Verify
<1>3. "VERIFICATION_FAILURE" \in FailureClasses BY DEF FailureClasses
<1>4. {"settle", "judge"} \subseteq PCs /\ "settle" \notin StepPCs /\ "judge" \notin StepPCs
  BY DEF PCs, StepPCs
<1>5. EventOf("verification.skipped") \in Events /\ EventOf("verification.started") \in Events
  BY EventType DEF EventKinds
<1>6. calm' \in BOOLEAN BY CalmType DEF Verify
<1>7. CASE EmitOr(c, EventOf("verification.skipped"), At1(run[c], "settle"),
                  Blocked(run[c], "VERIFICATION_FAILURE"))
  BY <1>1, <1>2, <1>3, <1>4, <1>5, <1>6, <1>7, EmitOrBlock
<1>8. CASE Stop(c, "VERIFICATION_FAILURE") /\ UNCHANGED <<st, calm>>
  BY <1>1, <1>2, <1>3, <1>6, <1>8, StopStep
<1>9. CASE /\ x.verifier # "none"
           /\ EmitOr(c, EventOf("verification.started"), At1(run[c], "judge"),
                     Blocked(run[c], "VERIFICATION_FAILURE"))
  BY <1>1, <1>2, <1>3, <1>4, <1>5, <1>6, <1>9, EmitOrBlock
<1> QED BY <1>7, <1>8, <1>9 DEF Verify

\* A bound verifier answers OK, FAIL or ERROR.
LEMMA JudgementsType ==
  ASSUME NEW v \in Verifiers, v # "none", NEW sp, NEW E, NEW w, NEW t
  PROVE  Judgements(v, sp, E, w, t) \subseteq {"OK", "FAIL", "ERROR"}
<1>1. \A p \in BOOLEAN : JudgeWorkspace(sp, p) \in {"OK", "FAIL"} BY DEF JudgeWorkspace
<1>2. Present(w, t) \in BOOLEAN BY DEF Present
<1>3. Judge(v, sp, E, w, t) \in {"OK", "FAIL"}
  <2>1. JudgeWorkspace(sp, Present(w, t)) \in {"OK", "FAIL"} BY DEF JudgeWorkspace
  <2>2. JudgeAgreement(E, w, t) \in {"OK", "FAIL"} BY DEF JudgeAgreement
  <2>3. JudgeContent(sp, E, w, t) \in {"OK", "FAIL"} BY DEF JudgeContent
  <2>4. JudgeAbsence(E, w, t) \in {"OK", "FAIL"} BY DEF JudgeAbsence
  <2>5. JudgeRead(E, w, t) \in {"OK", "FAIL"} BY DEF JudgeRead
  <2> QED BY <2>1, <2>2, <2>3, <2>4, <2>5 DEF Judge, Verifiers
<1> QED BY <1>1, <1>3 DEF Judgements

\* The verifier walks the targets.
LEMMA JudgeTargetOK == ASSUME IInv, NEW c \in Callers, JudgeTarget(c) PROVE IInv'
<1>1. run[c].pc = "judge" BY DEF JudgeTarget, At
<1>2. RunOK(run[c]) /\ run[c] \in Runs /\ x \in Requests BY <1>1, AtWork
<1>3. x.verifier \in Verifiers /\ x.verifier # "none"
  BY <1>1, <1>2, EngineAssumption DEF RequestShape, RunOK
<1>4. UNCHANGED <<x, admission, st, log, cancelled, done, ws, edits, effects>> /\ calm' \in BOOLEAN
  BY CalmType DEF JudgeTarget
<1>5. ASSUME NEW v \in {"PASS", "NOT_APPLICABLE", "FAIL", "ERROR", "WITHDRAWN"}, Concludes(c, v)
      PROVE  IInv'
  <2> DEFINE r == [run[c] EXCEPT !.pc = "verdict", !.verdict = v]
  <2>1. r \in Runs /\ r.pc = "verdict" BY <1>2, <1>5 DEF Runs, PCs
  <2>2. run' = [run EXCEPT ![c] = r] BY <1>5 DEF IInv, TypeOK, Concludes
  <2> HIDE DEF r
  <2>3. RunOK(r) BY <1>2, <2>1 DEF RunOK, StepPCs
  <2> QED BY <1>4, <2>2, <2>3, MoveStep
<1>6. CASE run' = [run EXCEPT ![c].target = @ + 1]
  <2> DEFINE r == [run[c] EXCEPT !.target = run[c].target + 1]
  <2>1. run[c].target + 1 \in Nat \ {0} BY <1>2 DEF Runs
  <2>2. r \in Runs /\ r.pc = "judge" BY <1>1, <1>2, <2>1 DEF Runs
  <2>3. run' = [run EXCEPT ![c] = r] BY <1>6 DEF IInv, TypeOK
  <2> HIDE DEF r
  <2>4. RunOK(r) BY <1>2, <1>3, <2>2 DEF RunOK, StepPCs
  <2> QED BY <1>4, <2>3, <2>4, MoveStep
<1>7. ASSUME NEW j \in Judgements(x.verifier, x.spec, st.evidence, ws,
                                 x.spec.targets[run[c].target]),
             IF j = "OK" THEN run' = [run EXCEPT ![c].target = @ + 1] ELSE Concludes(c, j)
      PROVE  IInv'
  <2>1. j \in {"OK", "FAIL", "ERROR"} BY <1>3, JudgementsType
  <2> QED BY <1>5, <1>6, <1>7, <2>1
<1> QED BY <1>5, <1>7 DEF JudgeTarget

\* verify emits the verdict.
LEMMA ConcludeOK == ASSUME IInv, NEW c \in Callers, Conclude(c) PROVE IInv'
<1> DEFINE v == run[c].verdict
           kind == CASE v = "PASS" -> "verification.passed"
                     [] v = "NOT_APPLICABLE" -> "verification.skipped"
                     [] OTHER -> "verification.failed"
<1>1. run[c].pc = "verdict" BY DEF Conclude, At
<1>2. x \in Requests /\ RunOK(run[c]) BY <1>1, AtWork
<1>3. kind \in EventKinds BY DEF EventKinds
<1>4. EventOf(kind) \in Events BY <1>3, EventType
<1>5. "settle" \in PCs /\ "settle" \notin StepPCs /\ "VERIFICATION_FAILURE" \in FailureClasses
  BY DEF PCs, StepPCs, FailureClasses
<1>6. RunOK(At1(run[c], "settle")) BY <1>1, <1>2, <1>5, MoveOK
<1>7. RunOK(Blocked(run[c], "VERIFICATION_FAILURE")) BY <1>1, <1>2, <1>5, BlockOK
<1> DEFINE a == IF v \in {"PASS", "NOT_APPLICABLE"} THEN At1(run[c], "settle")
                ELSE Blocked(run[c], "VERIFICATION_FAILURE")
<1>8. RunOK(a) BY <1>6, <1>7
<1>9. EmitOr(c, EventOf(kind), a, Blocked(run[c], "VERIFICATION_FAILURE"))
  BY DEF Conclude
<1>10. UNCHANGED <<x, admission, log, cancelled, done, ws, edits, effects>> /\ calm' \in BOOLEAN
  BY CalmType DEF Conclude
<1> HIDE DEF a, kind
<1> QED BY <1>2, <1>4, <1>7, <1>8, <1>9, <1>10, EmitStep

\* Run receives a block from runStep or verify.
LEMMA StoppedOK == ASSUME IInv, NEW c \in Callers, Stopped(c) PROVE IInv'
<1>1. run[c].pc = "stopped" BY DEF Stopped, At
<1>2. RunOK(run[c]) /\ run[c] \in Runs /\ x \in Requests BY <1>1, AtWork
<1> DEFINE r == [run[c] EXCEPT !.pc = "fail",
                               !.block = IF cancelled THEN "CANCELLED" ELSE run[c].block]
<1>3. r \in Runs /\ r.pc = "fail" BY <1>2 DEF Runs, PCs, FailureClasses
<1>4. run' = [run EXCEPT ![c] = r] BY DEF Stopped, IInv, TypeOK
<1> HIDE DEF r
<1>5. RunOK(r) BY <1>2, <1>3 DEF RunOK, StepPCs
<1> QED BY <1>4, <1>5, MoveStep, CalmType DEF Stopped

\* settleFailure looks whether the execution is settled.
LEMMA FailOK == ASSUME IInv, NEW c \in Callers, Fail(c) PROVE IInv'
<1>1. run[c].pc = "fail" BY DEF Fail, At
<1>2. {"settle", "failing"} \subseteq PCs /\ {"settle", "failing"} \cap StepPCs = {}
  BY DEF PCs, StepPCs
<1>3. Goto(c, "settle") \/ Goto(c, "failing") BY DEF Fail
<1> QED BY <1>1, <1>2, <1>3, GotoStep, CalmType DEF Fail

\* The two settling actions: emit and return, or give up with a result.
LEMMA SettlingStep ==
  ASSUME IInv, NEW c \in Callers, run[c].pc \notin {"idle", "done"}, NEW e \in Events,
         NEW result \in Outcomes,
         EmitOr(c, e, At1(run[c], "return"),
                [run[c] EXCEPT !.pc = "done", !.result = result]),
         UNCHANGED <<x, admission, log, cancelled, done, ws, edits, effects, calm>>
  PROVE  IInv'
<1> DEFINE r == [run[c] EXCEPT !.pc = "done", !.result = result]
<1>1. x \in Requests /\ RunOK(run[c]) /\ run[c] \in Runs BY AtWork
<1>2. "return" \in PCs /\ "return" \notin StepPCs BY DEF PCs, StepPCs
<1>3. RunOK(At1(run[c], "return")) BY <1>1, <1>2, MoveOK
<1>4. r \in Runs /\ r.pc = "done" BY <1>1 DEF Runs, PCs
<1> HIDE DEF r
<1>5. RunOK(r) BY <1>4 DEF RunOK, StepPCs
<1> QED BY <1>1, <1>3, <1>5, EmitStep, CalmType DEF r

\* settleFailure emits execution.failed.
LEMMA FailingOK == ASSUME IInv, NEW c \in Callers, Failing(c) PROVE IInv'
<1>1. run[c].pc = "failing" BY DEF Failing, At
<1>2. run[c].block \in FailureClasses \cup {None} BY <1>1, AtWork DEF Runs
<1>3. EventOf("execution.failed") \in Events BY EventType DEF EventKinds
<1>4. [EventOf("execution.failed") EXCEPT !.class = run[c].block] \in Events
  BY <1>2, <1>3 DEF Events
<1>5. OutcomeForClass(run[c].block) \in Outcomes BY DEF OutcomeForClass, Outcomes
<1> QED BY <1>1, <1>4, <1>5, SettlingStep DEF Failing

\* settle emits execution.finished.
LEMMA SettleOK == ASSUME IInv, NEW c \in Callers, Settle(c) PROVE IInv'
<1>1. run[c].pc = "settle" BY DEF Settle, At
<1>2. EventOf("execution.finished") \in Events BY EventType DEF EventKinds
<1>3. "UNSUBSTANTIATED" \in Outcomes BY DEF Outcomes
<1> QED BY <1>1, <1>2, <1>3, SettlingStep DEF Settle

\* Run returns the outcome of the terminal state.
LEMMA ReturnOK == ASSUME IInv, NEW c \in Callers, Return(c) PROVE IInv'
<1>1. run[c].pc = "return" BY DEF Return, At
<1>2. RunOK(run[c]) /\ run[c] \in Runs BY <1>1, AtWork
<1>3. st.terminal.outcome \in Outcomes \cup {None} BY DEF IInv, TypeOK, States
<1> DEFINE r == [run[c] EXCEPT !.pc = "done", !.result = st.terminal.outcome]
<1>4. r \in Runs /\ r.pc = "done" BY <1>2, <1>3 DEF Runs, PCs
<1>5. run' = [run EXCEPT ![c] = r] BY DEF Return, IInv, TypeOK
<1> HIDE DEF r
<1>6. RunOK(r) BY <1>4 DEF RunOK, StepPCs
<1> QED BY <1>5, <1>6, MoveStep, CalmType DEF Return

\* emit appends the event to the log, after the unlock.
LEMMA AppendEventOK == ASSUME IInv, NEW c \in Callers, AppendEvent(c) PROVE IInv'
<1>1. RunOK(run[c]) /\ run[c] \in Runs BY DEF IInv, Placed, RunOK
<1> DEFINE r == [run[c] EXCEPT !.outbox = NoEvent]
<1>2. NoEvent \in Events BY EventType DEF NoEvent
<1>3. r \in Runs /\ r.pc = run[c].pc /\ r.step = run[c].step BY <1>1, <1>2 DEF Runs
<1>4. run' = [run EXCEPT ![c] = r] BY DEF AppendEvent, IInv, TypeOK
<1>5. run[c].outbox \in Events /\ log \in Seq(Events) BY <1>1 DEF Runs, IInv, TypeOK
<1>6. log' \in Seq(Events) BY <1>5 DEF AppendEvent
<1> HIDE DEF r
<1>7. RunOK(r) BY <1>1, <1>3 DEF RunOK
<1>8. st' \in States /\ st' = st /\ cancelled' \in BOOLEAN /\ done' \in [Callers -> BOOLEAN]
        /\ calm' \in BOOLEAN
  BY DEF AppendEvent, IInv, TypeOK
<1> QED BY <1>4, <1>6, <1>7, <1>8, LocalStep DEF AppendEvent

\* Cancellation, withdrawn contexts and foreign edits keep the invariant.
LEMMA EnvironmentOK == ASSUME IInv, Environment PROVE IInv'
<1>1. ASSUME Cancel PROVE IInv'
  <2>1. TypeOK' BY <1>1 DEF IInv, TypeOK, Cancel
  <2>2. UNCHANGED <<x, admission, st, run, effects>> BY <1>1 DEF Cancel
  <2> QED BY <2>1, <2>2 DEF IInv, Placed, RunOK, Program, Admitted, Blank,
                             EffectsAreGranted, ReadOnlyContractsAreReadOnly
<1>2. ASSUME NEW c \in Callers, Withdraw(c) PROVE IInv'
  <2>1. TypeOK' BY <1>2 DEF IInv, TypeOK, Withdraw
  <2>2. UNCHANGED <<x, admission, st, run, effects>> BY <1>2 DEF Withdraw
  <2> QED BY <2>1, <2>2 DEF IInv, Placed, RunOK, Program, Admitted, Blank,
                             EffectsAreGranted, ReadOnlyContractsAreReadOnly
<1>3. ASSUME NEW t \in Targets, NEW content \in Contents \cup {NoFile}, Edit(t, content)
      PROVE  IInv'
  <2>1. ws' \in Workspaces BY <1>3 DEF IInv, TypeOK, Edit, Workspaces
  <2>2. edits' \in 0..MaxEdits BY <1>3, EngineAssumption DEF IInv, TypeOK, Edit
  <2>3. UNCHANGED <<x, admission, st, log, run, cancelled, done, effects>> /\ calm' = FALSE
    BY <1>3 DEF Edit
  <2>4. TypeOK' BY <2>1, <2>2, <2>3 DEF IInv, TypeOK
  <2> QED BY <2>3, <2>4 DEF IInv, Placed, RunOK, Program, Admitted, Blank,
                             EffectsAreGranted, ReadOnlyContractsAreReadOnly
<1> QED BY <1>1, <1>2, <1>3 DEF Environment

\* Every step preserves the invariant, one case per action.
LEMMA NextOK == IInv /\ [Next]_vars => IInv'
<1> SUFFICES ASSUME IInv, [Next]_vars PROVE IInv' OBVIOUS
<1>1. ASSUME NEW c \in Callers, Work(c) PROVE IInv'
  BY <1>1, EnterOK, StartOK, CheckOK, DispatchOK, InvokeOK, InvokeRecreatedOK, EvaluateOK,
     EvidenceOK, ProjectMutationOK, ProjectArtifactOK, NextStepOK, VerifyOK, JudgeTargetOK,
     ConcludeOK, StoppedOK, FailOK, FailingOK, SettleOK, ReturnOK, AppendEventOK DEF Work
<1>2. CASE UNCHANGED vars
  BY <1>2 DEF vars, IInv, TypeOK, Placed, RunOK, Program, Admitted, Blank,
              EffectsAreGranted, ReadOnlyContractsAreReadOnly
<1> QED BY <1>1, <1>2, OpenOK, EnvironmentOK DEF Next

---------------------------------------------------------------------------

\* The inductive invariant holds in every reachable state of the engine, for
\* any callers, requests, registry, workspace and bound on foreign edits.
THEOREM Invariance == Spec => []IInv
<1> QED BY InitOK, NextOK, PTL DEF Spec

\* Every variable of the engine keeps its type: whatever reduce accepts leaves
\* a state of the four axes, and whatever a capability of the repository
\* reports is an observation the loop of runStep can take.
THEOREM TypeCorrect == Spec => []TypeOK
<1>1. IInv => TypeOK BY DEF IInv
<1> QED BY <1>1, Invariance, PTL

\* No authorization, no effect: whatever an execution changes on disk, by any
\* program that Open admits and any number of goroutines in Run, its grant
\* permits the capability and names the target.
THEOREM EffectsGranted == Spec => []EffectsAreGranted
<1>1. IInv => EffectsAreGranted BY DEF IInv
<1> QED BY <1>1, Invariance, PTL

\* An admitted OBSERVE or ANSWER contract never changes the workspace, with
\* any program, grant, registry and faults.
THEOREM ReadOnly == Spec => []ReadOnlyContractsAreReadOnly
<1>1. IInv => ReadOnlyContractsAreReadOnly BY DEF IInv
<1> QED BY <1>1, Invariance, PTL

\* A settled execution is final: no action of any caller, of Open, of Cancel or
\* of another process changes the authoritative state after its verdict.
THEOREM SettledFinal == Spec => SettledIsFinal
<1>1. IInv /\ [Next]_vars => [Settled => UNCHANGED st]_vars
  <2> SUFFICES ASSUME IInv, Next, Settled PROVE UNCHANGED st OBVIOUS
  <2>1. ASSUME NEW c, NEW e, NEW a, NEW b, EmitOr(c, e, a, b) PROVE UNCHANGED st
    BY <2>1 DEF EmitOr, Emit, Refused, Accepts, Unsettled, Settled
  <2>2. ASSUME NEW req \in Requests, Open(req) PROVE UNCHANGED st
    <3>1. x # NoRequest BY DEF IInv, Blank, Settled, InitialState
    <3> QED BY <2>2, <3>1 DEF Open
  <2>3. ASSUME NEW c \in Callers, Work(c) PROVE UNCHANGED st
    <3>1. \A class : BlockStep(c, class) => UNCHANGED st BY <2>1 DEF BlockStep
    <3>2. CASE Enter(c) \/ Check(c) \/ Invoke(c) \/ InvokeRecreated(c) \/ NextStep(c)
               \/ JudgeTarget(c) \/ Stopped(c) \/ Fail(c) \/ Return(c) \/ AppendEvent(c)
      BY <3>2 DEF Enter, Check, Invoke, InvokeRecreated, NextStep, JudgeTarget, Stopped,
                  Fail, Return, AppendEvent
    <3>3. CASE Start(c) \/ Conclude(c) \/ Failing(c) \/ Settle(c)
      BY <2>1, <3>3 DEF Start, Conclude, Failing, Settle
    <3>4. CASE Dispatch(c) BY <2>1, <3>1, <3>4 DEF Dispatch
    <3>5. CASE Evaluate(c) BY <2>1, <3>1, <3>5 DEF Evaluate
    <3>6. CASE Evidence(c) \/ ProjectMutation(c) \/ ProjectArtifact(c)
      BY <2>1, <3>6 DEF Evidence, ProjectMutation, ProjectArtifact
    <3>7. CASE Verify(c) BY <2>1, <3>7 DEF Verify
    <3> QED BY <2>3, <3>2, <3>3, <3>4, <3>5, <3>6, <3>7 DEF Work
  <2>4. CASE Environment BY <2>4 DEF Environment, Cancel, Withdraw, Edit
  <2> QED BY <2>2, <2>3, <2>4 DEF Next
<1> QED BY <1>1, Invariance, PTL DEF Spec, SettledIsFinal

-----------------------------------------------------------------------------

(***************************************************************************)
(* The emissions: what caller c emits where it is, and the run record an   *)
(* accepted emission leaves behind.                                        *)
(***************************************************************************)
RecordsOf(c) == Records(StepOf(c), run[c].obs)

EmitsStart(c, e, a) ==
  /\ run[c].pc = "start"
  /\ e = EventOf("execution.started") /\ a = At1(run[c], "check")

EmitsDispatch(c, e, a) ==
  /\ run[c].pc = "dispatch" /\ DispatchRefusal(StepOf(c)) = None
  /\ e = ForStep("step.started", StepOf(c)) /\ a = At1(run[c], "invoke")

EmitsBlock(c, e, a) ==
  /\ run[c].pc \in {"dispatch", "evaluate"}
  /\ \E class \in FailureClasses :
       /\ e = [ForStep("step.blocked", StepOf(c)) EXCEPT !.class = class]
       /\ a = Blocked(run[c], class)

EmitsInvoked(c, e, a) ==
  /\ run[c].pc = "evaluate" /\ ~run[c].obs.error /\ ~Untrusted(run[c].obs)
  /\ e = [ForStep("capability.invoked", StepOf(c)) EXCEPT
            !.axis = ProviderAxis(run[c].obs), !.bytes = run[c].obs.charged,
            !.evidence = RecordsOf(c)]
  /\ a = At1(run[c], "evidence")

EmitsEvidence(c, e, a) ==
  /\ run[c].pc = "evidence" /\ RecordsOf(c) # {}
  /\ e = [ForStep("evidence.produced", StepOf(c)) EXCEPT !.evidence = RecordsOf(c)]
  /\ a = At1(run[c], "mutation")

EmitsBoundary(c, e, a) ==
  \/ /\ run[c].pc = "mutation" /\ \E rec \in RecordsOf(c) : MutatingKind(rec.kind)
     /\ e = [ForStep("mutation.applied", StepOf(c)) EXCEPT !.evidence = RecordsOf(c)]
     /\ a = At1(run[c], "artifact")
  \/ /\ run[c].pc = "artifact" /\ \E rec \in RecordsOf(c) : rec.kind = "RESPONSE_PRODUCED"
     /\ e = [ForStep("artifact.produced", StepOf(c)) EXCEPT !.evidence = RecordsOf(c)]
     /\ a = At1(run[c], "next")

EmitsCheck(c, e, a) ==
  \/ /\ run[c].pc = "verify" /\ ~x.spec.reqVerify
     /\ e = EventOf("verification.skipped") /\ a = At1(run[c], "settle")
  \/ /\ run[c].pc = "verify"
     /\ e = EventOf("verification.started") /\ a = At1(run[c], "judge")

EmitsVerdict(c, e, a) ==
  \/ /\ run[c].pc = "verdict" /\ run[c].verdict = "PASS"
     /\ e = EventOf("verification.passed") /\ a = At1(run[c], "settle")
  \/ /\ run[c].pc = "verdict" /\ run[c].verdict = "NOT_APPLICABLE"
     /\ e = EventOf("verification.skipped") /\ a = At1(run[c], "settle")
  \/ /\ run[c].pc = "verdict"
     /\ e = EventOf("verification.failed") /\ a = Blocked(run[c], "VERIFICATION_FAILURE")

EmitsEnd(c, e, a) ==
  \/ /\ run[c].pc = "failing" /\ a = At1(run[c], "return")
     /\ e = [EventOf("execution.failed") EXCEPT !.class = run[c].block]
  \/ /\ run[c].pc = "settle" /\ a = At1(run[c], "return")
     /\ e = EventOf("execution.finished")

Emission(c, e, a) ==
  \/ EmitsStart(c, e, a) \/ EmitsDispatch(c, e, a) \/ EmitsBlock(c, e, a)
  \/ EmitsInvoked(c, e, a) \/ EmitsEvidence(c, e, a) \/ EmitsBoundary(c, e, a)
  \/ EmitsCheck(c, e, a) \/ EmitsVerdict(c, e, a) \/ EmitsEnd(c, e, a)

(***************************************************************************)
(* The silent moves: what becomes of the run record of a caller that emits *)
(* nothing, because there is nothing to emit or because it was refused.    *)
(***************************************************************************)
\* A caller goes on with the program.
Advances(c, r) ==
  \/ run[c].pc = "idle" /\ r = At1(run[c], "start")
  \/ run[c].pc = "check" /\ r = At1(run[c], "verify")
  \/ run[c].pc = "check" /\ run[c].step <= Len(Program) /\ r = At1(run[c], "dispatch")
  \/ run[c].pc = "evidence" /\ RecordsOf(c) = {} /\ r = At1(run[c], "mutation")
  \/ run[c].pc = "mutation" /\ r = At1(run[c], "artifact")
  \/ run[c].pc = "artifact" /\ r = At1(run[c], "next")
  \/ run[c].pc = "next" /\ r = [run[c] EXCEPT !.pc = "check", !.step = run[c].step + 1]

\* A caller looks at a target, or has its verdict.
Judges(c, r) ==
  \/ run[c].pc = "judge" /\ r = [run[c] EXCEPT !.target = run[c].target + 1]
  \/ /\ run[c].pc = "judge"
     /\ \E v \in {"PASS", "NOT_APPLICABLE", "FAIL", "ERROR", "WITHDRAWN"} :
          /\ v = "NOT_APPLICABLE" => NotApplicable(x.verifier, x.spec)
          /\ r = [run[c] EXCEPT !.pc = "verdict", !.verdict = v]

\* A caller stops: it will settle the execution, if nobody did, and return.
Stops(c, r) ==
  \/ \E class \in FailureClasses \cup {None}, pc \in {"stopped", "fail"} :
       r = [run[c] EXCEPT !.pc = pc, !.block = class]
  \/ run[c].pc = "fail" /\ r = At1(run[c], "failing")
  \/ run[c].pc = "fail" /\ Settled /\ r = At1(run[c], "settle")

\* A caller returns.
Returns(c, r) ==
  \E o \in Outcomes \cup {None} :
    /\ r = [run[c] EXCEPT !.pc = "done", !.result = o]
    /\ o = "PROVEN" => run[c].pc = "return" /\ st.terminal.outcome = "PROVEN"

\* A change of the disk is reported: by a fact, or by a verdict nobody trusts.
Reported(step, obs) ==
  \/ Untrusted(obs)
  \/ \E f \in obs.facts : MutatingKind(f.kind) /\ f.target = step.target

\* A caller invokes the capability of its step.
Invokes(c, r) ==
  /\ run[c].pc = "invoke"
  /\ \E obs \in Observations :
       /\ r = [run[c] EXCEPT !.pc = "evaluate", !.obs = obs]
       /\ \/ effects' = effects
          \/ /\ Reported(StepOf(c), obs)
             /\ effects' = effects \cup {Effect(StepOf(c), ws[StepOf(c).target])}

Moves(c, r) ==
  \/ Invokes(c, r)
  \/ (Advances(c, r) \/ Judges(c, r) \/ Stops(c, r) \/ Returns(c, r)) /\ UNCHANGED effects

(***************************************************************************)
(* The summary of a step.                                                  *)
(***************************************************************************)
EmissionStep ==
  \E c \in Callers, e \in Events, a \in Runs :
    /\ run[c].outbox = NoEvent /\ a.outbox = NoEvent /\ x \in Requests
    /\ Emission(c, e, a) /\ Emit(c, e, a)
    /\ UNCHANGED <<x, log, effects>>

SilentStep ==
  \E c \in Callers, r \in Runs :
    /\ run[c].outbox = NoEvent /\ r.outbox = NoEvent
    /\ Moves(c, r) /\ run' = [run EXCEPT ![c] = r]
    /\ UNCHANGED <<x, st, log>>

AppendStep == \E c \in Callers : AppendEvent(c)

AdmissionStep ==
  /\ x = NoRequest /\ x' \in Requests /\ st' = InitialState
  /\ UNCHANGED <<log, run, effects>>

IdleStep == UNCHANGED <<x, st, log, run, effects>>

StepIs == EmissionStep \/ SilentStep \/ AppendStep \/ AdmissionStep \/ IdleStep

\* What an update of a run record changes, and that it leaves a run record.
LEMMA RunUpdates ==
  ASSUME NEW r \in Runs
  PROVE  /\ \A pc \in PCs : At1(r, pc) \in Runs /\ At1(r, pc).outbox = r.outbox
         /\ \A pc \in PCs, class \in FailureClasses \cup {None} :
              /\ [r EXCEPT !.pc = pc, !.block = class] \in Runs
              /\ [r EXCEPT !.pc = pc, !.block = class].outbox = r.outbox
         /\ \A class \in FailureClasses :
              Blocked(r, class) \in Runs /\ Blocked(r, class).outbox = r.outbox
         /\ \A o \in Outcomes \cup {None} :
              /\ [r EXCEPT !.pc = "done", !.result = o] \in Runs
              /\ [r EXCEPT !.pc = "done", !.result = o].outbox = r.outbox
         /\ \A obs \in Observations :
              /\ [r EXCEPT !.pc = "evaluate", !.obs = obs] \in Runs
              /\ [r EXCEPT !.pc = "evaluate", !.obs = obs].outbox = r.outbox
         /\ /\ [r EXCEPT !.pc = "check", !.step = r.step + 1] \in Runs
            /\ [r EXCEPT !.pc = "check", !.step = r.step + 1].outbox = r.outbox
         /\ /\ [r EXCEPT !.target = r.target + 1] \in Runs
            /\ [r EXCEPT !.target = r.target + 1].outbox = r.outbox
         /\ \A v \in {"PASS", "NOT_APPLICABLE", "FAIL", "ERROR", "WITHDRAWN"} :
              /\ [r EXCEPT !.pc = "verdict", !.verdict = v] \in Runs
              /\ [r EXCEPT !.pc = "verdict", !.verdict = v].outbox = r.outbox
<1>1. r.step + 1 \in Nat \ {0} /\ r.target + 1 \in Nat \ {0} BY DEF Runs
<1>2. {"done", "evaluate", "check", "verdict"} \subseteq PCs BY DEF PCs
<1>3. \A pc \in PCs : At1(r, pc) \in Runs /\ At1(r, pc).outbox = r.outbox BY DEF Runs, At1
<1>4. \A pc \in PCs, class \in FailureClasses \cup {None} :
        /\ [r EXCEPT !.pc = pc, !.block = class] \in Runs
        /\ [r EXCEPT !.pc = pc, !.block = class].outbox = r.outbox
  BY DEF Runs
<1>10. \A class \in FailureClasses :
         Blocked(r, class) \in Runs /\ Blocked(r, class).outbox = r.outbox
  BY DEF Runs, PCs, Blocked
<1>5. \A o \in Outcomes \cup {None} :
        /\ [r EXCEPT !.pc = "done", !.result = o] \in Runs
        /\ [r EXCEPT !.pc = "done", !.result = o].outbox = r.outbox
  BY <1>2 DEF Runs
<1>6. \A obs \in Observations :
        /\ [r EXCEPT !.pc = "evaluate", !.obs = obs] \in Runs
        /\ [r EXCEPT !.pc = "evaluate", !.obs = obs].outbox = r.outbox
  BY <1>2 DEF Runs
<1>7. /\ [r EXCEPT !.pc = "check", !.step = r.step + 1] \in Runs
      /\ [r EXCEPT !.pc = "check", !.step = r.step + 1].outbox = r.outbox
  BY <1>1, <1>2 DEF Runs
<1>8. /\ [r EXCEPT !.target = r.target + 1] \in Runs
      /\ [r EXCEPT !.target = r.target + 1].outbox = r.outbox
  BY <1>1 DEF Runs
<1>9. \A v \in {"PASS", "NOT_APPLICABLE", "FAIL", "ERROR", "WITHDRAWN"} :
        /\ [r EXCEPT !.pc = "verdict", !.verdict = v] \in Runs
        /\ [r EXCEPT !.pc = "verdict", !.verdict = v].outbox = r.outbox
  BY <1>2 DEF Runs
<1> QED BY <1>3, <1>4, <1>5, <1>6, <1>7, <1>8, <1>9, <1>10

\* An emission of the table, or the silent move of a caller that was refused.
LEMMA EmitIs ==
  ASSUME IInv, NEW c \in Callers, At(c, run[c].pc), run[c].pc \notin {"idle", "done"},
         NEW e \in Events, NEW a \in Runs, NEW b \in Runs,
         a.outbox = NoEvent, b.outbox = NoEvent, Emission(c, e, a),
         Advances(c, b) \/ Judges(c, b) \/ Stops(c, b) \/ Returns(c, b),
         EmitOr(c, e, a, b), UNCHANGED <<x, log, effects>>
  PROVE  StepIs
<1>1. x \in Requests BY AtWork
<1>2. run[c].outbox = NoEvent BY DEF At
<1>3. CASE Emit(c, e, a) BY <1>1, <1>2, <1>3 DEF EmissionStep, StepIs
<1>4. CASE Refused(c, e, b)
  <2>1. Moves(c, b) BY DEF Moves
  <2> QED BY <1>2, <1>4, <2>1 DEF Refused, SilentStep, StepIs
<1> QED BY <1>3, <1>4 DEF EmitOr

\* A silent move.
LEMMA MoveIs ==
  ASSUME IInv, NEW c \in Callers, At(c, run[c].pc), NEW r \in Runs, r.outbox = NoEvent,
         Advances(c, r) \/ Judges(c, r) \/ Stops(c, r) \/ Returns(c, r),
         run' = [run EXCEPT ![c] = r], UNCHANGED <<x, st, log, effects>>
  PROVE  StepIs
<1>1. run[c].outbox = NoEvent BY DEF At
<1>2. Moves(c, r) BY DEF Moves
<1> QED BY <1>1, <1>2 DEF SilentStep, StepIs

\* A caller that goes on without an event.
LEMMA GoIs ==
  ASSUME IInv, NEW c \in Callers, At(c, run[c].pc), NEW pc \in PCs,
         Advances(c, At1(run[c], pc)) \/ Stops(c, At1(run[c], pc)), Goto(c, pc),
         UNCHANGED <<x, st, log, effects>>
  PROVE  StepIs
<1> DEFINE r == At1(run[c], pc)
<1>1. run[c].outbox = NoEvent /\ run[c] \in Runs BY DEF At, IInv, TypeOK
<1>2. r \in Runs /\ r.outbox = NoEvent BY <1>1, RunUpdates
<1>3. run' = [run EXCEPT ![c] = r] BY GotoIs
<1> HIDE DEF r
<1> QED BY <1>2, <1>3, MoveIs DEF r

\* A caller that stops without an event.
LEMMA StopIs ==
  ASSUME IInv, NEW c \in Callers, At(c, run[c].pc), NEW class \in FailureClasses,
         Stop(c, class), UNCHANGED <<x, st, log, effects>>
  PROVE  StepIs
<1> DEFINE r == Blocked(run[c], class)
<1>1. run[c].outbox = NoEvent /\ run[c] \in Runs BY DEF At, IInv, TypeOK
<1>2. r \in Runs /\ r.outbox = NoEvent BY <1>1, RunUpdates
<1>3. Stops(c, r) BY DEF Stops, Blocked
<1>4. run' = [run EXCEPT ![c] = r] BY GotoIs
<1> HIDE DEF r
<1> QED BY <1>2, <1>3, <1>4, MoveIs

\* blockStep: the block is emitted, or else returned without its event.
LEMMA BlockIs ==
  ASSUME IInv, NEW c \in Callers, At(c, run[c].pc), run[c].pc \in {"dispatch", "evaluate"},
         NEW class \in FailureClasses, BlockStep(c, class), UNCHANGED <<x, log, effects>>
  PROVE  StepIs
<1> DEFINE e == [ForStep("step.blocked", StepOf(c)) EXCEPT !.class = class]
           a == Blocked(run[c], class)
           b == Blocked(run[c], "EXECUTION_FAILURE")
<1>1. run[c] \in Runs /\ StepShape(StepOf(c)) /\ run[c].outbox = NoEvent
  BY AtWork DEF StepPCs, At
<1>2. e \in Events BY <1>1, EventType DEF EventKinds
<1>3. "EXECUTION_FAILURE" \in FailureClasses /\ "stopped" \in PCs BY DEF FailureClasses, PCs
<1>4. a \in Runs /\ b \in Runs /\ a.outbox = NoEvent /\ b.outbox = NoEvent
  BY <1>1, <1>3, RunUpdates
<1>5. Emission(c, e, a) BY DEF Emission, EmitsBlock
<1>6. Stops(c, b) BY <1>3 DEF Stops, Blocked
<1>7. EmitOr(c, e, a, b) BY DEF BlockStep
<1> HIDE DEF e, a, b
<1> QED BY <1>2, <1>4, <1>5, <1>6, <1>7, EmitIs

\* Run on the way in, execution.started, and the top of the loop.
LEMMA EnterIs == ASSUME IInv, NEW c \in Callers, Enter(c) PROVE StepIs
<1>1. At(c, run[c].pc) /\ run[c].pc = "idle" /\ run[c].outbox = NoEvent /\ run[c] \in Runs
        /\ UNCHANGED <<x, st, log, effects>>
  BY DEF Enter, At, IInv, TypeOK
<1>2. CASE Goto(c, "start")
  <2>1. "start" \in PCs BY DEF PCs
  <2>2. Advances(c, At1(run[c], "start")) BY <1>1 DEF Advances
  <2> QED BY <1>1, <1>2, <2>1, <2>2, GoIs
<1>3. CASE run' = [run EXCEPT ![c].pc = "done", ![c].result = OutcomeForClass(admission)]
  <2> DEFINE o == OutcomeForClass(admission)
             r == [run[c] EXCEPT !.pc = "done", !.result = o]
  <2>1. o \in Outcomes /\ o # "PROVEN" BY DEF OutcomeForClass, Outcomes
  <2>2. r \in Runs /\ r.outbox = NoEvent BY <1>1, <2>1, RunUpdates
  <2>3. Returns(c, r) BY <2>1 DEF Returns
  <2>4. run' = [run EXCEPT ![c] = r] BY <1>3 DEF IInv, TypeOK
  <2> HIDE DEF r
  <2> QED BY <1>1, <2>2, <2>3, <2>4, MoveIs
<1> QED BY <1>2, <1>3 DEF Enter

\* Start emits execution.started, or is refused and fails.
LEMMA StartIs == ASSUME IInv, NEW c \in Callers, Start(c) PROVE StepIs
<1> DEFINE e == EventOf("execution.started")
           a == At1(run[c], "check")
           b == [run[c] EXCEPT !.pc = "fail", !.block = "INVALID_SPEC"]
<1>1. At(c, run[c].pc) /\ run[c].pc = "start" /\ run[c].outbox = NoEvent /\ run[c] \in Runs
        /\ UNCHANGED <<x, log, effects>>
  BY DEF Start, At, IInv, TypeOK
<1>2. "check" \in PCs /\ "fail" \in PCs /\ "INVALID_SPEC" \in FailureClasses
  BY DEF PCs, FailureClasses
<1>3. e \in Events BY EventType DEF EventKinds
<1>4. a \in Runs /\ b \in Runs /\ a.outbox = NoEvent /\ b.outbox = NoEvent
  <2>1. a \in Runs /\ a.outbox = NoEvent BY <1>1, <1>2, RunUpdates
  <2>2. b \in Runs /\ b.outbox = NoEvent BY <1>1, <1>2 DEF Runs
  <2> QED BY <2>1, <2>2
<1>5. Emission(c, e, a) BY <1>1 DEF Emission, EmitsStart
<1>6. Stops(c, b) BY <1>2 DEF Stops
<1>7. EmitOr(c, e, a, b) BY DEF Start
<1> HIDE DEF e, a, b
<1> QED BY <1>1, <1>3, <1>4, <1>5, <1>6, <1>7, EmitIs

\* Check goes on, or stops.
LEMMA CheckIs == ASSUME IInv, NEW c \in Callers, Check(c) PROVE StepIs
<1>1. At(c, run[c].pc) /\ run[c].pc = "check" /\ run[c].outbox = NoEvent /\ run[c] \in Runs
        /\ UNCHANGED <<x, st, log, effects>>
  BY DEF Check, At, IInv, TypeOK
<1>2. {"verify", "dispatch"} \subseteq PCs /\ {"CANCELLED", "INTERRUPTED"} \subseteq FailureClasses
  BY DEF PCs, FailureClasses
<1>3. CASE Goto(c, "verify")
  <2>1. Advances(c, At1(run[c], "verify")) BY <1>1 DEF Advances
  <2> QED BY <1>1, <1>2, <1>3, <2>1, GoIs
<1>4. CASE ~(run[c].step > Len(Program)) /\ Goto(c, "dispatch")
  <2>2. x \in Requests /\ run[c].step \in Nat BY <1>1, AtWork DEF Runs
  <2>3. PICK T : Program \in Seq(T) BY <2>2, AdmittedShape DEF Program
  <2>4. run[c].step <= Len(Program) BY <1>4, <2>2, <2>3
  <2>5. Advances(c, At1(run[c], "dispatch")) BY <1>1, <2>4 DEF Advances
  <2> QED BY <1>1, <1>2, <1>4, <2>5, GoIs
<1>5. CASE Stop(c, "CANCELLED") \/ Stop(c, "INTERRUPTED") BY <1>1, <1>2, <1>5, StopIs
<1> QED BY <1>2, <1>3, <1>4, <1>5 DEF Check

\* runStep.
LEMMA DispatchIs == ASSUME IInv, NEW c \in Callers, Dispatch(c) PROVE StepIs
<1> DEFINE e == ForStep("step.started", StepOf(c))
           a == At1(run[c], "invoke")
           b == Blocked(run[c], "EXECUTION_FAILURE")
<1>1. At(c, run[c].pc) /\ run[c].pc = "dispatch" /\ run[c].outbox = NoEvent /\ run[c] \in Runs
        /\ UNCHANGED <<x, log, effects>>
  BY DEF Dispatch, At, IInv, TypeOK
<1>2. StepShape(StepOf(c)) BY <1>1, AtWork DEF StepPCs
<1>3. CASE DispatchRefusal(StepOf(c)) # None /\ BlockStep(c, DispatchRefusal(StepOf(c)))
  <2>1. DispatchRefusal(StepOf(c)) \in FailureClasses
    BY <1>3 DEF DispatchRefusal, FailureClasses
  <2> QED BY <1>1, <1>3, <2>1, BlockIs
<1>4. CASE \E class \in GateRefusals(StepOf(c)) : BlockStep(c, class)
  <2>1. GateRefusals(StepOf(c)) \subseteq FailureClasses BY DEF GateRefusals, FailureClasses
  <2> QED BY <1>1, <1>4, <2>1, BlockIs
<1>5. CASE DispatchRefusal(StepOf(c)) = None /\ EmitOr(c, e, a, b)
  <2>1. e \in Events BY <1>2, EventType DEF EventKinds
  <2>2. "EXECUTION_FAILURE" \in FailureClasses /\ "invoke" \in PCs BY DEF FailureClasses, PCs
  <2>3. a \in Runs /\ b \in Runs /\ a.outbox = NoEvent /\ b.outbox = NoEvent
    BY <1>1, <2>2, RunUpdates
  <2>4. Emission(c, e, a) BY <1>1, <1>5 DEF Emission, EmitsDispatch
  <2>5. Stops(c, b) BY <2>2 DEF Stops, Blocked
  <2> HIDE DEF e, a, b
  <2> QED BY <1>1, <1>5, <2>1, <2>3, <2>4, <2>5, EmitIs
<1> QED BY <1>3, <1>4, <1>5 DEF Dispatch

\* A change an invocation makes on the disk is reported by its observation.
LEMMA ChangesAreReported ==
  ASSUME NEW step, StepShape(step), step.cap \in Capabilities, NEW w \in Workspaces, NEW d,
         NEW out, out \in Invocations(step, w, d), out.ws # w
  PROVE  Reported(step, out.obs)
<1> DEFINE t == step.target
           faulty == IF Faults THEN {Failed, InvokeErr} ELSE {}
<1>1. ASSUME NEW O, out \in Same(w, O) PROVE FALSE BY <1>1 DEF Same, Step
<1>2. \/ step.cap = "file.write" /\ t # None
           /\ out = Step([w EXCEPT ![t] = step.content], Written(t, step.content))
      \/ /\ step.cap = "file.delete" /\ t # None
         /\ \E obs \in {Removed(w, t)} \cup Confirmations :
              out = Step([w EXCEPT ![t] = NoFile], obs)
  BY <1>1 DEF Invocations, Withdrawn, Resolves, Capabilities
<1>3. CASE out = Step([w EXCEPT ![t] = step.content], Written(t, step.content))
  <2>1. out.obs = Written(t, step.content) BY <1>3 DEF Step
  <2>2. Fact("FILE_WRITTEN", t, Bytes[step.content]) \in out.obs.facts
    BY <2>1 DEF Written, Observation
  <2>3. Fact("FILE_WRITTEN", t, Bytes[step.content]).kind = "FILE_WRITTEN"
        /\ Fact("FILE_WRITTEN", t, Bytes[step.content]).target = t
    BY DEF Fact
  <2> QED BY <2>2, <2>3 DEF Reported, MutatingKind
<1>4. ASSUME NEW obs \in {Removed(w, t)} \cup Confirmations,
             out = Step([w EXCEPT ![t] = NoFile], obs)
      PROVE  Reported(step, out.obs)
  <2>1. out.obs = obs BY <1>4 DEF Step
  <2>2. CASE obs = Failed
    <3>1. out.obs.verdict = "FAIL" BY <2>1, <2>2 DEF Failed, Observation
    <3> QED BY <3>1 DEF Reported, Untrusted
  <2>3. CASE obs = Removed(w, t)
    <3>1. Fact("FILE_DELETED", t, SizeOf(w, t)) \in out.obs.facts
      BY <2>1, <2>3 DEF Removed, Observation
    <3>2. Fact("FILE_DELETED", t, SizeOf(w, t)).kind = "FILE_DELETED"
          /\ Fact("FILE_DELETED", t, SizeOf(w, t)).target = t
      BY DEF Fact
    <3> QED BY <3>1, <3>2 DEF Reported, MutatingKind
  <2> QED BY <1>4, <2>2, <2>3 DEF Confirmations
<1> QED BY <1>2, <1>3, <1>4

\* The two actions that touch the disk.
LEMMA DiskIs ==
  ASSUME IInv, NEW c \in Callers, At(c, "invoke"), NEW obs \in Observations,
         run' = [run EXCEPT ![c].pc = "evaluate", ![c].obs = obs],
         \/ effects' = effects
         \/ /\ Reported(StepOf(c), obs)
            /\ effects' = effects \cup {Effect(StepOf(c), ws[StepOf(c).target])},
         UNCHANGED <<x, st, log>>
  PROVE  StepIs
<1> DEFINE r == [run[c] EXCEPT !.pc = "evaluate", !.obs = obs]
<1>1. run[c] \in Runs /\ run[c].outbox = NoEvent /\ run[c].pc = "invoke"
  BY DEF At, IInv, TypeOK
<1>2. r \in Runs /\ r.outbox = NoEvent BY <1>1, RunUpdates
<1>3. run' = [run EXCEPT ![c] = r] BY DEF IInv, TypeOK
<1>4. Moves(c, r) BY <1>1 DEF Moves, Invokes
<1> HIDE DEF r
<1> QED BY <1>1, <1>2, <1>3, <1>4 DEF SilentStep, StepIs

\* Invoke is a silent move that may change the disk.
LEMMA InvokeIs == ASSUME IInv, NEW c \in Callers, Invoke(c) PROVE StepIs
<1>1. At(c, "invoke") /\ run[c].pc = "invoke" /\ UNCHANGED <<x, st, log>> BY DEF Invoke, At
<1>2. StepShape(StepOf(c)) /\ StepOf(c).cap \in Capabilities BY <1>1, AtWork DEF StepPCs
<1>3. ws \in Workspaces BY DEF IInv, TypeOK
<1>4. PICK out \in Invocations(StepOf(c), ws, done[c]) :
        /\ run' = [run EXCEPT ![c].pc = "evaluate", ![c].obs = out.obs]
        /\ effects' = effects \cup
             IF out.ws = ws THEN {} ELSE {Effect(StepOf(c), ws[StepOf(c).target])}
  BY DEF Invoke
<1>5. out.obs \in Observations BY <1>2, <1>3, InvocationType DEF GoodStep
<1>6. out.ws # ws => Reported(StepOf(c), out.obs) BY <1>2, <1>3, ChangesAreReported
<1> QED BY <1>1, <1>4, <1>5, <1>6, DiskIs

\* So is the invocation whose removal another process undoes.
LEMMA InvokeRecreatedIs == ASSUME IInv, NEW c \in Callers, InvokeRecreated(c) PROVE StepIs
<1>1. At(c, "invoke") /\ UNCHANGED <<x, st, log>> BY DEF InvokeRecreated
<1>2. PICK out \in Recreations(StepOf(c), ws, done[c]) :
        run' = [run EXCEPT ![c].pc = "evaluate", ![c].obs = out.obs]
  BY DEF InvokeRecreated
<1>3. out.obs = Failed BY DEF Recreations, Step
<1>4. Failed \in Observations BY FailedType
<1>5. Failed.verdict = "FAIL" BY DEF Failed, Observation
<1>6. Reported(StepOf(c), Failed) BY <1>5 DEF Reported, Untrusted
<1>7. effects' = effects \cup {Effect(StepOf(c), ws[StepOf(c).target])}
  BY DEF InvokeRecreated
<1> QED BY <1>1, <1>2, <1>3, <1>4, <1>6, <1>7, DiskIs

\* An emission that lets the caller go on to pc, or stops it when refused.
LEMMA EmitOrBlockIs ==
  ASSUME IInv, NEW c \in Callers, At(c, run[c].pc), run[c].pc \notin {"idle", "done"},
         NEW e \in Events, NEW pc \in PCs, NEW class \in FailureClasses,
         Emission(c, e, At1(run[c], pc)),
         EmitOr(c, e, At1(run[c], pc), Blocked(run[c], class)), UNCHANGED <<x, log, effects>>
  PROVE  StepIs
<1> DEFINE a == At1(run[c], pc)
           b == Blocked(run[c], class)
<1>1. run[c] \in Runs /\ run[c].outbox = NoEvent BY DEF At, IInv, TypeOK
<1>2. a \in Runs /\ a.outbox = NoEvent BY <1>1, RunUpdates
<1>3. b \in Runs /\ b.outbox = NoEvent BY <1>1, RunUpdates
<1>4. Stops(c, b) BY DEF Stops, Blocked
<1>5. EmitOr(c, e, a, b) /\ Emission(c, e, a) OBVIOUS
<1> HIDE DEF a, b
<1> QED BY <1>2, <1>3, <1>4, <1>5, EmitIs

\* Evaluate emits capability.invoked or step.blocked, or stops.
LEMMA EvaluateIs == ASSUME IInv, NEW c \in Callers, Evaluate(c) PROVE StepIs
<1> DEFINE e == [ForStep("capability.invoked", StepOf(c)) EXCEPT
                   !.axis = ProviderAxis(run[c].obs), !.bytes = run[c].obs.charged,
                   !.evidence = RecordsOf(c)]
<1>1. At(c, run[c].pc) /\ run[c].pc = "evaluate" /\ UNCHANGED <<x, log, effects>>
  BY DEF Evaluate, At
<1>2. run[c] \in Runs /\ StepShape(StepOf(c)) BY <1>1, AtWork DEF StepPCs
<1>3. {"CAPABILITY_FAILURE", "BUDGET_EXHAUSTED", "EXECUTION_FAILURE", "CANCELLED", "INTERRUPTED"}
        \subseteq FailureClasses
  BY DEF FailureClasses
<1>4. ASSUME NEW class \in FailureClasses, Stop(c, class), UNCHANGED st PROVE StepIs
  BY <1>1, <1>4, StopIs
<1>5. CASE BlockStep(c, "BUDGET_EXHAUSTED") BY <1>1, <1>3, <1>5, BlockIs
<1>6. CASE ~run[c].obs.error /\ ~Untrusted(run[c].obs)
           /\ EmitOr(c, e, At1(run[c], "evidence"), Blocked(run[c], "EXECUTION_FAILURE"))
  <2>1. run[c].obs \in Observations /\ run[c].obs.charged \in Nat
    BY <1>2 DEF Runs, Observations
  <2>2. RecordsOf(c) \in SUBSET EvidenceRecords BY <1>2, <2>1, RecordsType DEF RecordsOf
  <2>3. ProviderAxis(run[c].obs) \in ProviderAxes BY DEF ProviderAxis, ProviderAxes
  <2>4. "capability.invoked" \in EventKinds BY DEF EventKinds
  <2>5. e \in Events BY <1>2, <2>1, <2>2, <2>3, <2>4, EventType
  <2>6. Emission(c, e, At1(run[c], "evidence")) BY <1>1, <1>6 DEF Emission, EmitsInvoked
  <2>7. "evidence" \in PCs BY DEF PCs
  <2> HIDE DEF e
  <2> QED BY <1>1, <1>3, <1>6, <2>5, <2>6, <2>7, EmitOrBlockIs
<1>7. (IF done[c] THEN StopClass ELSE classForCapabilityError(run[c].obs)) \in FailureClasses
  BY StopClassType, ErrorClassType
<1> QED BY <1>3, <1>4, <1>5, <1>6, <1>7 DEF Evaluate, RecordsOf

\* Evidence emits what was observed, if anything was.
LEMMA EvidenceIs == ASSUME IInv, NEW c \in Callers, Evidence(c) PROVE StepIs
<1> DEFINE e == [ForStep("evidence.produced", StepOf(c)) EXCEPT !.evidence = RecordsOf(c)]
<1>1. At(c, run[c].pc) /\ run[c].pc = "evidence" /\ UNCHANGED <<x, log, effects>>
  BY DEF Evidence, At
<1>2. run[c] \in Runs /\ StepShape(StepOf(c)) /\ run[c].obs \in Observations
  BY <1>1, AtWork DEF StepPCs, Runs
<1>3. "mutation" \in PCs /\ "EXECUTION_FAILURE" \in FailureClasses BY DEF PCs, FailureClasses
<1>4. CASE RecordsOf(c) = {} /\ Goto(c, "mutation") /\ UNCHANGED st
  <2>1. Advances(c, At1(run[c], "mutation")) BY <1>1, <1>4 DEF Advances
  <2> QED BY <1>1, <1>3, <1>4, <2>1, GoIs
<1>5. CASE RecordsOf(c) # {}
           /\ EmitOr(c, e, At1(run[c], "mutation"), Blocked(run[c], "EXECUTION_FAILURE"))
  <2>1. e \in Events BY <1>2, RecordsType, EventType DEF EventKinds, RecordsOf
  <2>2. Emission(c, e, At1(run[c], "mutation")) BY <1>1, <1>5 DEF Emission, EmitsEvidence
  <2> HIDE DEF e
  <2> QED BY <1>1, <1>3, <1>5, <2>1, <2>2, EmitOrBlockIs
<1> QED BY <1>4, <1>5 DEF Evidence, RecordsOf

\* The mutation boundary is emitted for a mutating record only.
LEMMA ProjectMutationIs == ASSUME IInv, NEW c \in Callers, ProjectMutation(c) PROVE StepIs
<1> DEFINE e == [ForStep("mutation.applied", StepOf(c)) EXCEPT !.evidence = RecordsOf(c)]
<1>1. At(c, run[c].pc) /\ run[c].pc = "mutation" /\ UNCHANGED <<x, log, effects>>
  BY DEF ProjectMutation, At
<1>2. run[c] \in Runs /\ StepShape(StepOf(c)) /\ run[c].obs \in Observations
  BY <1>1, AtWork DEF StepPCs, Runs
<1>3. "artifact" \in PCs /\ "MUTATION_FAILURE" \in FailureClasses BY DEF PCs, FailureClasses
<1>4. CASE Goto(c, "artifact") /\ UNCHANGED st
  <2>1. Advances(c, At1(run[c], "artifact")) BY <1>1 DEF Advances
  <2> QED BY <1>1, <1>3, <1>4, <2>1, GoIs
<1>5. CASE (\E rec \in RecordsOf(c) : MutatingKind(rec.kind))
           /\ EmitOr(c, e, At1(run[c], "artifact"), Blocked(run[c], "MUTATION_FAILURE"))
  <2>1. e \in Events BY <1>2, RecordsType, EventType DEF EventKinds, RecordsOf
  <2>2. Emission(c, e, At1(run[c], "artifact")) BY <1>1, <1>5 DEF Emission, EmitsBoundary
  <2> HIDE DEF e
  <2> QED BY <1>1, <1>3, <1>5, <2>1, <2>2, EmitOrBlockIs
<1> QED BY <1>4, <1>5 DEF ProjectMutation, RecordsOf, Mutated

\* The artifact boundary is emitted for a response only.
LEMMA ProjectArtifactIs == ASSUME IInv, NEW c \in Callers, ProjectArtifact(c) PROVE StepIs
<1> DEFINE e == [ForStep("artifact.produced", StepOf(c)) EXCEPT !.evidence = RecordsOf(c)]
<1>1. At(c, run[c].pc) /\ run[c].pc = "artifact" /\ UNCHANGED <<x, log, effects>>
  BY DEF ProjectArtifact, At
<1>2. run[c] \in Runs /\ StepShape(StepOf(c)) /\ run[c].obs \in Observations
  BY <1>1, AtWork DEF StepPCs, Runs
<1>3. "next" \in PCs /\ "ARTIFACT_FAILURE" \in FailureClasses BY DEF PCs, FailureClasses
<1>4. CASE Goto(c, "next") /\ UNCHANGED st
  <2>1. Advances(c, At1(run[c], "next")) BY <1>1 DEF Advances
  <2> QED BY <1>1, <1>3, <1>4, <2>1, GoIs
<1>5. CASE (\E rec \in RecordsOf(c) : rec.kind = "RESPONSE_PRODUCED")
           /\ EmitOr(c, e, At1(run[c], "next"), Blocked(run[c], "ARTIFACT_FAILURE"))
  <2>1. e \in Events BY <1>2, RecordsType, EventType DEF EventKinds, RecordsOf
  <2>2. Emission(c, e, At1(run[c], "next")) BY <1>1, <1>5 DEF Emission, EmitsBoundary
  <2> HIDE DEF e
  <2> QED BY <1>1, <1>3, <1>5, <2>1, <2>2, EmitOrBlockIs
<1> QED BY <1>4, <1>5 DEF ProjectArtifact, RecordsOf

\* NextStep goes to the next step, or fails.
LEMMA NextStepIs == ASSUME IInv, NEW c \in Callers, NextStep(c) PROVE StepIs
<1>1. At(c, run[c].pc) /\ run[c].pc = "next" /\ run[c].outbox = NoEvent /\ run[c] \in Runs
        /\ UNCHANGED <<x, st, log, effects>>
  BY DEF NextStep, At, IInv, TypeOK
<1>2. CASE run' = [run EXCEPT ![c].pc = "fail", ![c].block = StopClass]
  <2> DEFINE r == [run[c] EXCEPT !.pc = "fail", !.block = StopClass]
  <2>1. r \in Runs /\ r.outbox = NoEvent BY <1>1, StopClassType DEF Runs, PCs
  <2>2. Stops(c, r) BY StopClassType DEF Stops
  <2>3. run' = [run EXCEPT ![c] = r] BY <1>2 DEF IInv, TypeOK
  <2> HIDE DEF r
  <2> QED BY <1>1, <2>1, <2>2, <2>3, MoveIs
<1>3. CASE run' = [run EXCEPT ![c].pc = "check", ![c].step = @ + 1]
  <2> DEFINE r == [run[c] EXCEPT !.pc = "check", !.step = run[c].step + 1]
  <2>1. r \in Runs /\ r.outbox = NoEvent BY <1>1, RunUpdates
  <2>2. Advances(c, r) BY <1>1 DEF Advances
  <2>3. run' = [run EXCEPT ![c] = r] BY <1>3 DEF IInv, TypeOK
  <2> HIDE DEF r
  <2> QED BY <1>1, <2>1, <2>2, <2>3, MoveIs
<1> QED BY <1>2, <1>3 DEF NextStep

\* The verification.
LEMMA VerifyIs == ASSUME IInv, NEW c \in Callers, Verify(c) PROVE StepIs
<1>1. At(c, run[c].pc) /\ run[c].pc = "verify" /\ UNCHANGED <<x, log, effects>>
  BY DEF Verify, At
<1>2. {"settle", "judge"} \subseteq PCs /\ "VERIFICATION_FAILURE" \in FailureClasses
  BY DEF PCs, FailureClasses
<1>3. EventOf("verification.skipped") \in Events /\ EventOf("verification.started") \in Events
  BY EventType DEF EventKinds
<1>4. CASE ~x.spec.reqVerify
           /\ EmitOr(c, EventOf("verification.skipped"), At1(run[c], "settle"),
                     Blocked(run[c], "VERIFICATION_FAILURE"))
  <2>1. Emission(c, EventOf("verification.skipped"), At1(run[c], "settle"))
    BY <1>1, <1>4 DEF Emission, EmitsCheck
  <2> QED BY <1>1, <1>2, <1>3, <1>4, <2>1, EmitOrBlockIs
<1>5. CASE Stop(c, "VERIFICATION_FAILURE") /\ UNCHANGED st BY <1>1, <1>2, <1>5, StopIs
<1>6. CASE EmitOr(c, EventOf("verification.started"), At1(run[c], "judge"),
                  Blocked(run[c], "VERIFICATION_FAILURE"))
  <2>1. Emission(c, EventOf("verification.started"), At1(run[c], "judge"))
    BY <1>1 DEF Emission, EmitsCheck
  <2> QED BY <1>1, <1>2, <1>3, <1>6, <2>1, EmitOrBlockIs
<1> QED BY <1>4, <1>5, <1>6 DEF Verify, NothingToCheck

\* A look at a target is silent.
LEMMA JudgeTargetIs == ASSUME IInv, NEW c \in Callers, JudgeTarget(c) PROVE StepIs
<1>1. At(c, run[c].pc) /\ run[c].pc = "judge" /\ run[c].outbox = NoEvent /\ run[c] \in Runs
        /\ UNCHANGED <<x, st, log, effects>>
  BY DEF JudgeTarget, At, IInv, TypeOK
<1>2. ASSUME NEW v \in {"PASS", "NOT_APPLICABLE", "FAIL", "ERROR", "WITHDRAWN"},
             v = "NOT_APPLICABLE" => NotApplicable(x.verifier, x.spec), Concludes(c, v)
      PROVE  StepIs
  <2> DEFINE r == [run[c] EXCEPT !.pc = "verdict", !.verdict = v]
  <2>1. r \in Runs /\ r.outbox = NoEvent BY <1>1, RunUpdates
  <2>2. Judges(c, r) BY <1>1, <1>2 DEF Judges
  <2>3. run' = [run EXCEPT ![c] = r] BY <1>2 DEF IInv, TypeOK, Concludes
  <2> HIDE DEF r
  <2> QED BY <1>1, <2>1, <2>2, <2>3, MoveIs
<1>3. CASE run' = [run EXCEPT ![c].target = @ + 1]
  <2> DEFINE r == [run[c] EXCEPT !.target = run[c].target + 1]
  <2>1. r \in Runs /\ r.outbox = NoEvent BY <1>1, RunUpdates
  <2>2. Judges(c, r) BY <1>1 DEF Judges
  <2>3. run' = [run EXCEPT ![c] = r] BY <1>3 DEF IInv, TypeOK
  <2> HIDE DEF r
  <2> QED BY <1>1, <2>1, <2>2, <2>3, MoveIs
<1>4. x.verifier \in Verifiers /\ x.verifier # "none"
  <2>1. x \in Requests /\ RunOK(run[c]) BY <1>1, AtWork
  <2> QED BY <1>1, <2>1, EngineAssumption DEF RequestShape, RunOK
<1>5. ASSUME NEW j \in Judgements(x.verifier, x.spec, st.evidence, ws,
                                 x.spec.targets[run[c].target]),
             IF j = "OK" THEN run' = [run EXCEPT ![c].target = @ + 1] ELSE Concludes(c, j)
      PROVE  StepIs
  <2>1. j \in {"OK", "FAIL", "ERROR"} BY <1>4, JudgementsType
  <2> QED BY <1>2, <1>3, <1>5, <2>1
<1> QED BY <1>2, <1>5 DEF JudgeTarget

\* Conclude emits the verdict.
LEMMA ConcludeIs == ASSUME IInv, NEW c \in Callers, Conclude(c) PROVE StepIs
<1> DEFINE v == run[c].verdict
           b == Blocked(run[c], "VERIFICATION_FAILURE")
<1>1. At(c, run[c].pc) /\ run[c].pc = "verdict" /\ run[c].outbox = NoEvent /\ run[c] \in Runs
        /\ UNCHANGED <<x, log, effects>>
  BY DEF Conclude, At, IInv, TypeOK
<1>2. "settle" \in PCs /\ "VERIFICATION_FAILURE" \in FailureClasses BY DEF PCs, FailureClasses
<1>3. /\ EventOf("verification.passed") \in Events /\ EventOf("verification.skipped") \in Events
      /\ EventOf("verification.failed") \in Events
  BY EventType DEF EventKinds
<1>4. CASE v = "PASS"
  <2>1. EmitOr(c, EventOf("verification.passed"), At1(run[c], "settle"), b)
    BY <1>4 DEF Conclude
  <2>2. Emission(c, EventOf("verification.passed"), At1(run[c], "settle"))
    BY <1>1, <1>4 DEF Emission, EmitsVerdict
  <2> QED BY <1>1, <1>2, <1>3, <2>1, <2>2, EmitOrBlockIs
<1>5. CASE v = "NOT_APPLICABLE"
  <2>1. EmitOr(c, EventOf("verification.skipped"), At1(run[c], "settle"), b)
    BY <1>5 DEF Conclude
  <2>2. Emission(c, EventOf("verification.skipped"), At1(run[c], "settle"))
    BY <1>1, <1>5 DEF Emission, EmitsVerdict
  <2> QED BY <1>1, <1>2, <1>3, <2>1, <2>2, EmitOrBlockIs
<1>6. CASE v \notin {"PASS", "NOT_APPLICABLE"}
  <2>1. EmitOr(c, EventOf("verification.failed"), b, b) BY <1>6 DEF Conclude
  <2>2. Emission(c, EventOf("verification.failed"), b) BY <1>1 DEF Emission, EmitsVerdict
  <2>3. b \in Runs /\ b.outbox = NoEvent BY <1>1, <1>2, RunUpdates
  <2>4. Stops(c, b) BY <1>2 DEF Stops, Blocked
  <2> HIDE DEF b
  <2> QED BY <1>1, <1>3, <2>1, <2>2, <2>3, <2>4, EmitIs
<1> QED BY <1>4, <1>5, <1>6

\* Settling and returning.
LEMMA StoppedIs == ASSUME IInv, NEW c \in Callers, Stopped(c) PROVE StepIs
<1> DEFINE class == IF cancelled THEN "CANCELLED" ELSE run[c].block
           r == [run[c] EXCEPT !.pc = "fail", !.block = class]
<1>1. At(c, run[c].pc) /\ run[c].outbox = NoEvent /\ run[c] \in Runs
        /\ UNCHANGED <<x, st, log, effects>>
  BY DEF Stopped, At, IInv, TypeOK
<1>2. class \in FailureClasses \cup {None} BY <1>1 DEF Runs, FailureClasses
<1>3. r \in Runs /\ r.outbox = NoEvent BY <1>1, <1>2 DEF Runs, PCs
<1>4. Stops(c, r) BY <1>2 DEF Stops
<1>5. run' = [run EXCEPT ![c] = r] BY DEF Stopped, IInv, TypeOK
<1> HIDE DEF r
<1> QED BY <1>1, <1>3, <1>4, <1>5, MoveIs

\* Fail looks whether the execution is settled.
LEMMA FailIs == ASSUME IInv, NEW c \in Callers, Fail(c) PROVE StepIs
<1>1. At(c, run[c].pc) /\ run[c].pc = "fail" /\ UNCHANGED <<x, st, log, effects>>
  BY DEF Fail, At
<1>2. {"settle", "failing"} \subseteq PCs BY DEF PCs
<1>3. Stops(c, At1(run[c], "failing")) BY <1>1 DEF Stops
<1>4. Settled => Stops(c, At1(run[c], "settle")) BY <1>1 DEF Stops
<1>5. CASE Settled /\ Goto(c, "settle") BY <1>1, <1>2, <1>4, <1>5, GoIs
<1>6. CASE Goto(c, "failing") BY <1>1, <1>2, <1>3, <1>6, GoIs
<1> QED BY <1>5, <1>6 DEF Fail, Settled

\* The two settling emissions, and the result Run returns when they are refused.
LEMMA EndIs ==
  ASSUME IInv, NEW c \in Callers, At(c, run[c].pc), run[c].pc \notin {"idle", "done"},
         NEW e \in Events, EmitsEnd(c, e, At1(run[c], "return")),
         NEW o \in Outcomes, o # "PROVEN",
         EmitOr(c, e, At1(run[c], "return"), [run[c] EXCEPT !.pc = "done", !.result = o]),
         UNCHANGED <<x, log, effects>>
  PROVE  StepIs
<1> DEFINE a == At1(run[c], "return")
           b == [run[c] EXCEPT !.pc = "done", !.result = o]
<1>1. run[c] \in Runs /\ run[c].outbox = NoEvent BY DEF At, IInv, TypeOK
<1>2. "return" \in PCs BY DEF PCs
<1>3. a \in Runs /\ a.outbox = NoEvent BY <1>1, <1>2, RunUpdates
<1>4. b \in Runs /\ b.outbox = NoEvent BY <1>1, RunUpdates
<1>5. Returns(c, b) BY DEF Returns
<1>6. EmitOr(c, e, a, b) /\ Emission(c, e, a) BY DEF Emission
<1> HIDE DEF a, b
<1> QED BY <1>3, <1>4, <1>5, <1>6, EmitIs

\* Failing emits execution.failed.
LEMMA FailingIs == ASSUME IInv, NEW c \in Callers, Failing(c) PROVE StepIs
<1> DEFINE e == [EventOf("execution.failed") EXCEPT !.class = run[c].block]
           o == OutcomeForClass(run[c].block)
<1>1. At(c, run[c].pc) /\ run[c].pc = "failing" /\ UNCHANGED <<x, log, effects>>
  BY DEF Failing, At
<1>2. run[c].block \in FailureClasses \cup {None} BY <1>1, AtWork DEF Runs
<1>3. EventOf("execution.failed") \in Events BY EventType DEF EventKinds
<1>4. e \in Events BY <1>2, <1>3 DEF Events
<1>5. o \in Outcomes /\ o # "PROVEN" BY DEF OutcomeForClass, Outcomes
<1>6. EmitsEnd(c, e, At1(run[c], "return")) BY <1>1 DEF EmitsEnd
<1>7. EmitOr(c, e, At1(run[c], "return"), [run[c] EXCEPT !.pc = "done", !.result = o])
  BY DEF Failing
<1> HIDE DEF e, o
<1> QED BY <1>1, <1>4, <1>5, <1>6, <1>7, EndIs

\* Settle emits execution.finished.
LEMMA SettleIs == ASSUME IInv, NEW c \in Callers, Settle(c) PROVE StepIs
<1>1. At(c, run[c].pc) /\ run[c].pc = "settle" /\ UNCHANGED <<x, log, effects>>
  BY DEF Settle, At
<1>2. EventOf("execution.finished") \in Events BY EventType DEF EventKinds
<1>3. "UNSUBSTANTIATED" \in Outcomes BY DEF Outcomes
<1>4. EmitsEnd(c, EventOf("execution.finished"), At1(run[c], "return")) BY <1>1 DEF EmitsEnd
<1> QED BY <1>1, <1>2, <1>3, <1>4, EndIs DEF Settle

\* Return hands out the outcome.
LEMMA ReturnIs == ASSUME IInv, NEW c \in Callers, Return(c) PROVE StepIs
<1> DEFINE o == st.terminal.outcome
           r == [run[c] EXCEPT !.pc = "done", !.result = o]
<1>1. At(c, run[c].pc) /\ run[c].pc = "return" /\ run[c].outbox = NoEvent /\ run[c] \in Runs
        /\ UNCHANGED <<x, st, log, effects>>
  BY DEF Return, At, IInv, TypeOK
<1>2. o \in Outcomes \cup {None} BY DEF IInv, TypeOK, States
<1>3. r \in Runs /\ r.outbox = NoEvent BY <1>1, <1>2, RunUpdates
<1>4. Returns(c, r) BY <1>1, <1>2 DEF Returns
<1>5. run' = [run EXCEPT ![c] = r] BY DEF Return, IInv, TypeOK
<1> HIDE DEF r
<1> QED BY <1>1, <1>3, <1>4, <1>5, MoveIs

\* The summary of every step: an emission, a silent move, an append, an
\* admission, or a step of the environment that the record does not see.
LEMMA NextIs == IInv /\ [Next]_vars => StepIs
<1> SUFFICES ASSUME IInv, [Next]_vars PROVE StepIs OBVIOUS
<1>1. ASSUME NEW c \in Callers, Work(c) PROVE StepIs
  BY <1>1, EnterIs, StartIs, CheckIs, DispatchIs, InvokeIs, InvokeRecreatedIs, EvaluateIs,
     EvidenceIs, ProjectMutationIs, ProjectArtifactIs, NextStepIs, VerifyIs, JudgeTargetIs,
     ConcludeIs, StoppedIs, FailIs, FailingIs, SettleIs, ReturnIs DEF Work, AppendStep, StepIs
<1>2. ASSUME NEW req \in Requests, Open(req) PROVE StepIs
  BY <1>2 DEF Open, AdmissionStep, IdleStep, StepIs
<1>3. CASE Environment BY <1>3 DEF Environment, Cancel, Withdraw, Edit, IdleStep, StepIs
<1>4. CASE UNCHANGED vars BY <1>4 DEF vars, IdleStep, StepIs
<1> QED BY <1>1, <1>2, <1>3, <1>4 DEF Next

---------------------------------------------------------------------------

\* The emitted events, one by one: in the log or in an outbox.
LEMMA EmittedIs ==
  \A e : e \in Emitted <=> \/ \E i \in DOMAIN log : log[i] = e
                           \/ \E c \in Callers : run[c].outbox = e /\ e # NoEvent
BY DEF Emitted

\* What was emitted are events.
LEMMA EmittedType == IInv => Emitted \subseteq Events
BY ElementOfSeq DEF IInv, TypeOK, Emitted, Runs

\* What each emission says.
LEMMA EmissionsAre ==
  ASSUME NEW c, NEW e, NEW a
  PROVE  /\ EmitsStart(c, e, a) => e.kind = "execution.started"
         /\ EmitsDispatch(c, e, a) => /\ e.kind = "step.started" /\ e.step = StepOf(c).id
                                      /\ e.cap = StepOf(c).cap
         /\ EmitsBlock(c, e, a) => e.kind = "step.blocked" /\ e.step = StepOf(c).id
         /\ EmitsInvoked(c, e, a) =>
              /\ e.kind = "capability.invoked" /\ e.step = StepOf(c).id
              /\ e.evidence = RecordsOf(c)
         /\ EmitsEvidence(c, e, a) =>
              /\ e.kind = "evidence.produced" /\ e.step = StepOf(c).id
              /\ e.evidence = RecordsOf(c)
         /\ EmitsBoundary(c, e, a) =>
              /\ e.step = StepOf(c).id /\ e.evidence = RecordsOf(c)
              /\ \/ /\ e.kind = "mutation.applied" /\ run[c].pc = "mutation"
                    /\ \E rec \in RecordsOf(c) : MutatingKind(rec.kind)
                 \/ /\ e.kind = "artifact.produced" /\ run[c].pc = "artifact"
                    /\ \E rec \in RecordsOf(c) : rec.kind = "RESPONSE_PRODUCED"
         /\ EmitsCheck(c, e, a) => e.kind \in {"verification.skipped", "verification.started"}
         /\ EmitsVerdict(c, e, a) =>
              e.kind \in {"verification.passed", "verification.skipped", "verification.failed"}
         /\ EmitsEnd(c, e, a) => e.kind \in {"execution.failed", "execution.finished"}
<1>1. EmitsStart(c, e, a) => e.kind = "execution.started" BY DEF EmitsStart, EventOf
<1>2. EmitsDispatch(c, e, a) => e.kind = "step.started" /\ e.step = StepOf(c).id
                                /\ e.cap = StepOf(c).cap
  BY DEF EmitsDispatch, ForStep, EventOf
<1>3. EmitsBlock(c, e, a) => e.kind = "step.blocked" /\ e.step = StepOf(c).id
  BY DEF EmitsBlock, ForStep, EventOf
<1>4. EmitsInvoked(c, e, a) => e.kind = "capability.invoked" /\ e.step = StepOf(c).id
                               /\ e.evidence = RecordsOf(c)
  BY DEF EmitsInvoked, ForStep, EventOf
<1>5. EmitsEvidence(c, e, a) => e.kind = "evidence.produced" /\ e.step = StepOf(c).id
                                /\ e.evidence = RecordsOf(c)
  BY DEF EmitsEvidence, ForStep, EventOf
<1>6. EmitsBoundary(c, e, a) =>
              /\ e.step = StepOf(c).id /\ e.evidence = RecordsOf(c)
              /\ \/ /\ e.kind = "mutation.applied" /\ run[c].pc = "mutation"
                    /\ \E rec \in RecordsOf(c) : MutatingKind(rec.kind)
                 \/ /\ e.kind = "artifact.produced" /\ run[c].pc = "artifact"
                    /\ \E rec \in RecordsOf(c) : rec.kind = "RESPONSE_PRODUCED"
  <2> DEFINE R == RecordsOf(c)
             f(kind) == [ForStep(kind, StepOf(c)) EXCEPT !.evidence = R]
  <2>1. \A kind : f(kind).kind = kind /\ f(kind).step = StepOf(c).id /\ f(kind).evidence = R
    BY DEF ForStep, EventOf
  <2> HIDE DEF R
  <2>2. EmitsBoundary(c, e, a) =>
           \/ /\ e = f("mutation.applied") /\ run[c].pc = "mutation"
              /\ \E rec \in R : MutatingKind(rec.kind)
           \/ /\ e = f("artifact.produced") /\ run[c].pc = "artifact"
              /\ \E rec \in R : rec.kind = "RESPONSE_PRODUCED"
    BY DEF EmitsBoundary, R
  <2> HIDE DEF f
  <2> QED BY <2>1, <2>2 DEF R
<1>7. EmitsCheck(c, e, a) => e.kind \in {"verification.skipped", "verification.started"}
  BY DEF EmitsCheck, EventOf
<1>8. EmitsVerdict(c, e, a) =>
              e.kind \in {"verification.passed", "verification.skipped", "verification.failed"}
  BY DEF EmitsVerdict, EventOf
<1>9. EmitsEnd(c, e, a) => e.kind \in {"execution.failed", "execution.finished"}
  BY DEF EmitsEnd, EventOf
<1> QED BY <1>1, <1>2, <1>3, <1>4, <1>5, <1>6, <1>7, <1>8, <1>9

\* A stamped event differs from the event in its revision only.
LEMMA StampedIs ==
  ASSUME st \in States, NEW e \in Events
  PROVE  /\ Stamped(e) \in Events /\ Stamped(e) # NoEvent
         /\ Stamped(e).revision = st.revision + 1
         /\ Stamped(e).kind = e.kind /\ Stamped(e).step = e.step /\ Stamped(e).cap = e.cap
         /\ Stamped(e).axis = e.axis /\ Stamped(e).evidence = e.evidence
         /\ Stamped(e).bytes = e.bytes /\ Stamped(e).class = e.class
<1>1. st.revision + 1 \in Nat /\ st.revision + 1 # 0 BY DEF States
<1>2. NoEvent.revision = 0 BY DEF NoEvent, EventOf
<1>3. Stamped(e).revision = st.revision + 1 BY DEF Stamped, Events
<1>4. Stamped(e) \in Events BY <1>1 DEF Stamped, Events
<1>5. /\ Stamped(e).kind = e.kind /\ Stamped(e).step = e.step /\ Stamped(e).cap = e.cap
      /\ Stamped(e).axis = e.axis /\ Stamped(e).evidence = e.evidence
      /\ Stamped(e).bytes = e.bytes /\ Stamped(e).class = e.class
  BY DEF Stamped, Events
<1> QED BY <1>1, <1>2, <1>3, <1>4, <1>5

\* An emission adds the stamped event to the events emitted.
LEMMA EmissionAdds ==
  ASSUME IInv, NEW c \in Callers, NEW e \in Events, NEW a \in Runs,
         run[c].outbox = NoEvent, Emit(c, e, a), UNCHANGED log
  PROVE  Emitted' = Emitted \cup {Stamped(e)}
<1> DEFINE r == [a EXCEPT !.outbox = Stamped(e)]
<1>1. r.outbox = Stamped(e) BY DEF Runs
<1>2. run' = [run EXCEPT ![c] = r] /\ log' = log BY DEF Emit
<1>3. Stamped(e) # NoEvent BY StampedIs DEF IInv, TypeOK
<1> HIDE DEF r
<1>4. \A d \in Callers : run'[d] = IF d = c THEN r ELSE run[d] BY <1>2 DEF IInv, TypeOK
<1>5. \A f : f \in Emitted' <=> \/ \E i \in DOMAIN log : log[i] = f
                               \/ \E d \in Callers : run'[d].outbox = f /\ f # NoEvent
  BY <1>2 DEF Emitted
<1> QED BY <1>1, <1>3, <1>4, <1>5, EmittedIs

\* A silent move and an append leave the events emitted as they are.
LEMMA SilenceKeeps ==
  ASSUME IInv, NEW c \in Callers, NEW r \in Runs, r.outbox = run[c].outbox,
         run' = [run EXCEPT ![c] = r], UNCHANGED log
  PROVE  Emitted' = Emitted
<1>1. \A d \in Callers : run'[d].outbox = run[d].outbox BY DEF IInv, TypeOK
<1> QED BY <1>1 DEF Emitted

\* An append moves an event from its outbox to the log.
LEMMA AppendKeeps ==
  ASSUME IInv, NEW c \in Callers, AppendEvent(c)
  PROVE  Emitted' = Emitted
<1> DEFINE e == run[c].outbox
           r == [run[c] EXCEPT !.outbox = NoEvent]
<1>1. e # NoEvent /\ log' = Append(log, e) /\ log \in Seq(Events) /\ e \in Events
  BY DEF AppendEvent, IInv, TypeOK, Runs
<1>2. r.outbox = NoEvent BY DEF IInv, TypeOK, Runs
<1>3. run' = [run EXCEPT ![c] = r] BY DEF AppendEvent, IInv, TypeOK
<1>4. \A d \in Callers : run'[d] = IF d = c THEN r ELSE run[d] BY <1>3 DEF IInv, TypeOK
<1>5. \A f : (\E i \in DOMAIN log' : log'[i] = f) <=> (f = e \/ \E i \in DOMAIN log : log[i] = f)
  <2>1. DOMAIN log = 1..Len(log) /\ Len(log) \in Nat BY <1>1
  <2>2. DOMAIN log' = 1..Len(log)+1 /\ log'[Len(log)+1] = e
        /\ \A i \in 1..Len(log) : log'[i] = log[i]
    BY <1>1
  <2>3. Len(log) + 1 \in 1..Len(log)+1 /\ 1..Len(log)+1 = 1..Len(log) \cup {Len(log)+1}
    BY <2>1
  <2> HIDE DEF e
  <2> QED BY <2>1, <2>2, <2>3
<1> HIDE DEF r
<1>6. \A f : f \in Emitted' <=> \/ \E i \in DOMAIN log' : log'[i] = f
                               \/ \E d \in Callers : run'[d].outbox = f /\ f # NoEvent
  BY DEF Emitted
<1>7. ASSUME NEW f PROVE f \in Emitted' <=> f \in Emitted
  <2>1. (\E d \in Callers : run'[d].outbox = f /\ f # NoEvent)
          => \E d \in Callers : run[d].outbox = f /\ f # NoEvent
    BY <1>2, <1>4
  <2>2. (\E d \in Callers : run[d].outbox = f /\ f # NoEvent)
          => f = e \/ \E d \in Callers : run'[d].outbox = f /\ f # NoEvent
    BY <1>4
  <2>3. f = e => \E d \in Callers : run[d].outbox = f /\ f # NoEvent BY <1>1
  <2> HIDE DEF e
  <2> QED BY <1>5, <1>6, <2>1, <2>2, <2>3, EmittedIs
<1> QED BY <1>7

---------------------------------------------------------------------------
(***************************************************************************)
(* The record: the emitted events are numbered by the revisions they were  *)
(* stamped with, one event a revision; replaying them in that order gives  *)
(* the state (Fold is a recursive function: that a replay exists, and that *)
(* all end in the state, is carried from revision to revision); and a      *)
(* caller about to report a boundary has emitted the evidence for it.      *)
(***************************************************************************)
\* E holds one event of each revision from 1 to n, and no other.
NumberedTo(E, n) ==
  /\ \A e \in E : e.revision \in 1..n
  /\ \A d, e \in E : d.revision = e.revision => d = e
  /\ \A i \in 1..n : \E e \in E : e.revision = i

EventsOf(E, i) == {e \in E : e.revision = i}
HistoryOf(E, n) == [i \in 1..n |-> CHOOSE e \in EventsOf(E, i) : TRUE]

Numbered == NumberedTo(Emitted, st.revision)
History  == HistoryOf(Emitted, st.revision)

Explained == x # NoRequest => ReplayEndsIn(x, History, st)

EvidenceInHand ==
  \A c \in Callers : run[c].pc \in {"mutation", "artifact"} /\ RecordsOf(c) # {} =>
    \E d \in Emitted : /\ d.kind = "evidence.produced" /\ d.step = StepOf(c).id
                       /\ d.evidence = RecordsOf(c)

RecordInv == Numbered /\ Explained /\ EvidenceInHand /\ BoundariesAreBacked

\* A history is a sequence of as many events as there are revisions.
LEMMA HistoryIs ==
  ASSUME NEW E, NEW n \in Nat, NumberedTo(E, n)
  PROVE  /\ Len(HistoryOf(E, n)) = n
         /\ \A i \in 1..n : EventsOf(E, i) = {HistoryOf(E, n)[i]}
<1> DEFINE h == HistoryOf(E, n)
<1>1. \A i \in 1..n : EventsOf(E, i) # {} BY DEF NumberedTo, EventsOf
<1>2. \A i \in 1..n : h[i] \in EventsOf(E, i) BY <1>1 DEF HistoryOf
<1>3. \A i \in 1..n : EventsOf(E, i) = {h[i]} BY <1>2 DEF EventsOf, NumberedTo
<1>4. h \in [1..n -> E] BY <1>2 DEF HistoryOf, EventsOf
<1>5. h \in Seq(E) BY <1>4, SeqDef
<1>6. DOMAIN h = 1..Len(h) /\ Len(h) \in Nat BY <1>5
<1>7. DOMAIN h = 1..n BY DEF HistoryOf
<1> HIDE DEF h
<1>8. Len(h) = n
  <2> DEFINE m == Len(h)
  <2>3. m \in Nat /\ 1..m = 1..n BY <1>6, <1>7
  <2> HIDE DEF m
  <2>4. m = n
    <3>1. CASE m < n
      <4>1. n \in 1..n /\ n \notin 1..m BY <2>3, <3>1
      <4> QED BY <2>3, <4>1
    <3>2. CASE n < m
      <4>1. m \in 1..m /\ m \notin 1..n BY <2>3, <3>2
      <4> QED BY <2>3, <4>1
    <3> QED BY <2>3, <3>1, <3>2
  <2> QED BY <2>4 DEF m
<1> QED BY <1>3, <1>8 DEF h

\* One event more, with the next number.
LEMMA NumberedStep ==
  ASSUME NEW E, NEW n \in Nat, NumberedTo(E, n), NEW e, e.revision = n + 1
  PROVE  /\ NumberedTo(E \cup {e}, n + 1)
         /\ \A i \in 1..n : HistoryOf(E \cup {e}, n + 1)[i] = HistoryOf(E, n)[i]
         /\ HistoryOf(E \cup {e}, n + 1)[n + 1] = e
<1>1. 1..(n + 1) = 1..n \cup {n + 1} /\ n + 1 \notin 1..n OBVIOUS
<1>2. NumberedTo(E \cup {e}, n + 1) BY <1>1 DEF NumberedTo
<1>3. ASSUME NEW i \in 1..n PROVE EventsOf(E \cup {e}, i) = EventsOf(E, i)
  <2>1. e.revision # i BY <1>1
  <2> QED BY <2>1 DEF EventsOf
<1>4. EventsOf(E \cup {e}, n + 1) = {e}
  <2>1. \A d \in E : d.revision # n + 1 BY <1>1 DEF NumberedTo
  <2>2. \A d : d \in EventsOf(E \cup {e}, n + 1) <=> d = e BY <2>1 DEF EventsOf
  <2> QED BY <2>2
<1>5. \A i \in 1..n : HistoryOf(E \cup {e}, n + 1)[i] = HistoryOf(E, n)[i]
  <2> SUFFICES ASSUME NEW i \in 1..n
               PROVE  HistoryOf(E \cup {e}, n + 1)[i] = HistoryOf(E, n)[i]
    OBVIOUS
  <2>1. i \in 1..(n + 1) BY <1>1
  <2>2. HistoryOf(E \cup {e}, n + 1)[i] = CHOOSE d \in EventsOf(E \cup {e}, i) : TRUE
    BY <2>1 DEF HistoryOf
  <2>3. HistoryOf(E, n)[i] = CHOOSE d \in EventsOf(E, i) : TRUE BY DEF HistoryOf
  <2> QED BY <1>3, <2>2, <2>3
<1>6. HistoryOf(E \cup {e}, n + 1)[n + 1] = e BY <1>1, <1>4 DEF HistoryOf
<1> QED BY <1>2, <1>5, <1>6

\* The record after an emission: one event more, replayed to the new state.
LEMMA EmissionExplained ==
  ASSUME IInv, Numbered, Explained, NEW c \in Callers, NEW e \in Events, NEW a \in Runs,
         run[c].outbox = NoEvent, x \in Requests, Emit(c, e, a), UNCHANGED <<x, log>>
  PROVE  Numbered' /\ Explained'
<1> DEFINE n == st.revision
           q == Stamped(e)
           g == HistoryOf(Emitted \cup {q}, n + 1)
<1>1. n \in Nat /\ st \in States /\ st.status # "REJECTED"
  BY DEF IInv, TypeOK, States, Statuses
<1>2. Accepts(x, st, e) /\ st' = Reduced(x, st, e) BY DEF Emit
<1>3. st'.revision = n + 1 BY <1>1, <1>2, RevisionOf
<1>4. Emitted' = Emitted \cup {q} BY EmissionAdds
<1>5. q.revision = n + 1 BY <1>1, StampedIs
<1>6. /\ NumberedTo(Emitted \cup {q}, n + 1)
      /\ \A i \in 1..n : g[i] = History[i]
      /\ g[n + 1] = q
  BY <1>1, <1>5, NumberedStep DEF Numbered, History
<1>7. Len(History) = n BY <1>1, HistoryIs DEF Numbered, History
<1>8. Len(g) = n + 1
  <2>1. n + 1 \in Nat BY <1>1
  <2> HIDE DEF q, n
  <2> QED BY <2>1, <1>6, HistoryIs
<1>9. ReplayEndsIn(x, History, st) BY AdmittedShape DEF Explained
<1>10. Applied(x, st, q) = st'
  <2>1. Follows(st, q) BY <1>5 DEF Follows
  <2> DEFINE m == n + 1
  <2>2. m \in Nat /\ q = [e EXCEPT !.revision = m] BY <1>1 DEF Stamped
  <2> HIDE DEF m, q
  <2>3. Accepts(x, st, q) = Accepts(x, st, e) /\ Reduced(x, st, q) = Reduced(x, st, e)
    BY <1>1, <2>2, StampIsIdle
  <2> QED BY <1>1, <1>2, <2>1, <2>3 DEF Applied
<1>11. ReplayEndsIn(x, g, st')
  <2> HIDE DEF n, g, q
  <2> QED BY <1>1, <1>6, <1>7, <1>8, <1>9, <1>10, ReplayStep
<1>12. Numbered' BY <1>3, <1>4, <1>6 DEF Numbered
<1>13. History' = g BY <1>3, <1>4 DEF History
<1> HIDE DEF g
<1> QED BY <1>11, <1>12, <1>13 DEF Explained

\* Admission begins an empty record.
LEMMA AdmissionExplained ==
  ASSUME IInv, Numbered, Explained, AdmissionStep
  PROVE  Numbered' /\ Explained' /\ Emitted = {} /\ Emitted' = {}
<1>1. st = InitialState /\ st' = InitialState /\ st.revision = 0
  BY DEF AdmissionStep, IInv, Blank, InitialState
<1>2. Emitted' = Emitted BY DEF AdmissionStep, Emitted
<1>3. 1..0 = {} OBVIOUS
<1>4. Emitted = {} BY <1>1, <1>3 DEF Numbered, NumberedTo
<1>5. Numbered' BY <1>1, <1>2 DEF Numbered
<1> DEFINE h == HistoryOf({}, 0)
<1>6. History' = h BY <1>1, <1>2, <1>4 DEF History
<1>7. Len(h) = 0
  <2>1. NumberedTo({}, 0) BY <1>1, <1>4 DEF Numbered
  <2> HIDE DEF h
  <2> QED BY <2>1, HistoryIs DEF h
<1>8. ReplayEndsIn(x', h, InitialState)
  <2> HIDE DEF h
  <2> DEFINE f == [i \in 0..0 |-> InitialState]
  <2>1. 0..0 = {0} OBVIOUS
  <2>2. Replays(x', h, f) BY <1>7, <2>1 DEF Replays
  <2>3. \A k : Replays(x', h, k) => k[0] = InitialState BY <1>7, <2>1 DEF Replays
  <2> HIDE DEF f
  <2> QED BY <1>7, <2>2, <2>3 DEF ReplayEndsIn
<1> HIDE DEF h
<1> QED BY <1>1, <1>2, <1>4, <1>5, <1>6, <1>8 DEF Explained

\* The evidence in hand and the backing of the boundaries, after an emission.
LEMMA EmissionBacked ==
  ASSUME IInv, Numbered, EvidenceInHand, BoundariesAreBacked,
         NEW c \in Callers, NEW e \in Events, NEW a \in Runs,
         run[c].outbox = NoEvent, x \in Requests, Emission(c, e, a), Emit(c, e, a),
         UNCHANGED <<x, log>>
  PROVE  EvidenceInHand' /\ BoundariesAreBacked'
<1> DEFINE q == Stamped(e)
           r == [a EXCEPT !.outbox = q]
<1>1. st.revision \in Nat /\ st \in States BY DEF IInv, TypeOK, States
<1>2. q.kind = e.kind /\ q.step = e.step /\ q.evidence = e.evidence
        /\ q.revision = st.revision + 1
  BY <1>1, StampedIs
<1>3. Emitted' = Emitted \cup {q} BY EmissionAdds
<1>4. r.pc = a.pc /\ r.step = a.step /\ r.obs = a.obs BY DEF Runs
<1>5. run' = [run EXCEPT ![c] = r] BY DEF Emit
<1> HIDE DEF q, r
<1>6. run'[c] = r /\ \A d \in Callers : d # c => run'[d] = run[d] BY <1>5 DEF IInv, TypeOK
<1>7. a.step = run[c].step /\ a.obs = run[c].obs
  <2>1. run[c] \in Runs BY DEF IInv, TypeOK
  <2>2. \A pc : At1(run[c], pc).step = run[c].step /\ At1(run[c], pc).obs = run[c].obs
    BY <2>1 DEF At1, Runs
  <2>3. \A class : Blocked(run[c], class).step = run[c].step
                  /\ Blocked(run[c], class).obs = run[c].obs
    BY <2>1 DEF Blocked, Runs
  <2> QED BY <2>2, <2>3 DEF Emission, EmitsStart, EmitsDispatch, EmitsBlock, EmitsInvoked,
             EmitsEvidence, EmitsBoundary, EmitsCheck, EmitsVerdict, EmitsEnd
<1>8. RecordsOf(c)' = RecordsOf(c) /\ StepOf(c)' = StepOf(c)
  BY <1>4, <1>6, <1>7 DEF RecordsOf, StepOf, Program
<1>9. \A d \in Callers : d # c => RecordsOf(d)' = RecordsOf(d) /\ StepOf(d)' = StepOf(d)
  BY <1>6 DEF RecordsOf, StepOf, Program
<1>10. ASSUME a.pc \in {"mutation", "artifact"}
       PROVE  \/ q.kind = "evidence.produced" /\ q.step = StepOf(c).id
                  /\ q.evidence = RecordsOf(c)
              \/ run[c].pc \in {"mutation", "artifact"}
  <2>1. run[c] \in Runs BY DEF IInv, TypeOK
  <2>2. \A pc : At1(run[c], pc).pc = pc BY <2>1 DEF At1, Runs
  <2>3. \A class : Blocked(run[c], class).pc = "stopped" BY <2>1 DEF Blocked, Runs
  <2>4. EmitsEvidence(c, e, a) \/ EmitsBoundary(c, e, a)
    BY <1>10, <2>2, <2>3 DEF Emission, EmitsStart, EmitsDispatch, EmitsBlock, EmitsInvoked,
       EmitsCheck, EmitsVerdict, EmitsEnd
  <2>5. CASE EmitsEvidence(c, e, a)
    BY <1>2, <2>5 DEF EmitsEvidence, ForStep, EventOf
  <2> QED BY <2>4, <2>5 DEF EmitsBoundary
<1>11. EvidenceInHand'
  <2> SUFFICES ASSUME NEW d \in Callers, run'[d].pc \in {"mutation", "artifact"},
                      RecordsOf(d)' # {}
               PROVE  \E f \in Emitted' : /\ f.kind = "evidence.produced"
                                          /\ f.step = StepOf(d).id'
                                          /\ f.evidence = RecordsOf(d)'
    BY DEF EvidenceInHand
  <2>1. CASE d = c BY <1>3, <1>4, <1>6, <1>8, <1>10, <2>1 DEF EvidenceInHand
  <2>2. CASE d # c BY <1>3, <1>6, <1>9, <2>2 DEF EvidenceInHand
  <2> QED BY <2>1, <2>2
<1>12. ASSUME e.kind \in {"mutation.applied", "artifact.produced"}
       PROVE  \E d \in Emitted :
                /\ d.kind = "evidence.produced" /\ d.step = e.step
                /\ \E rec \in d.evidence :
                     IF e.kind = "mutation.applied" THEN MutatingKind(rec.kind)
                     ELSE rec.kind = "RESPONSE_PRODUCED"
  <2>1. /\ e.step = StepOf(c).id
        /\ \/ /\ e.kind = "mutation.applied" /\ run[c].pc = "mutation"
              /\ \E rec \in RecordsOf(c) : MutatingKind(rec.kind)
           \/ /\ e.kind = "artifact.produced" /\ run[c].pc = "artifact"
              /\ \E rec \in RecordsOf(c) : rec.kind = "RESPONSE_PRODUCED"
    BY <1>12, EmissionsAre DEF Emission
  <2>2. PICK d \in Emitted : d.kind = "evidence.produced" /\ d.step = StepOf(c).id
                            /\ d.evidence = RecordsOf(c)
    BY <2>1 DEF EvidenceInHand
  <2> QED BY <2>1, <2>2
<1>13. BoundariesAreBacked'
  <2> SUFFICES ASSUME NEW f \in Emitted', f.kind \in {"mutation.applied", "artifact.produced"}
               PROVE  \E d \in Emitted' :
                        /\ d.kind = "evidence.produced" /\ d.step = f.step
                        /\ d.revision < f.revision
                        /\ \E rec \in d.evidence :
                             IF f.kind = "mutation.applied" THEN MutatingKind(rec.kind)
                             ELSE rec.kind = "RESPONSE_PRODUCED"
    BY DEF BoundariesAreBacked
  <2>1. CASE f \in Emitted BY <1>3, <2>1 DEF BoundariesAreBacked
  <2>2. CASE f = q
    <3>1. \A d \in Emitted : d.revision < q.revision
      BY <1>1, <1>2 DEF Numbered, NumberedTo
    <3> QED BY <1>2, <1>3, <1>12, <2>2, <3>1
  <2> QED BY <1>3, <2>1, <2>2
<1> QED BY <1>11, <1>13

\* The same after a silent move.
LEMMA SilenceBacked ==
  ASSUME IInv, EvidenceInHand, BoundariesAreBacked, NEW c \in Callers, NEW r \in Runs,
         r.outbox = run[c].outbox, Moves(c, r), run' = [run EXCEPT ![c] = r], UNCHANGED <<x, log>>
  PROVE  EvidenceInHand' /\ BoundariesAreBacked'
<1>1. Emitted' = Emitted BY SilenceKeeps
<1>2. run'[c] = r /\ \A d \in Callers : d # c => run'[d] = run[d] BY DEF IInv, TypeOK
<1>3. run[c] \in Runs BY DEF IInv, TypeOK
<1>4. ASSUME r.pc \in {"mutation", "artifact"}
      PROVE  /\ r.step = run[c].step /\ r.obs = run[c].obs
             /\ RecordsOf(c) = {} \/ run[c].pc \in {"mutation", "artifact"}
  BY <1>3, <1>4 DEF Moves, Advances, Judges, Stops, Returns, Invokes, At1, Runs
<1>5. \A d \in Callers : d # c => RecordsOf(d)' = RecordsOf(d) /\ StepOf(d)' = StepOf(d)
  BY <1>2 DEF RecordsOf, StepOf, Program
<1>6. EvidenceInHand'
  <2> SUFFICES ASSUME NEW d \in Callers, run'[d].pc \in {"mutation", "artifact"},
                      RecordsOf(d)' # {}
               PROVE  \E f \in Emitted' : /\ f.kind = "evidence.produced"
                                          /\ f.step = StepOf(d).id'
                                          /\ f.evidence = RecordsOf(d)'
    BY DEF EvidenceInHand
  <2>1. CASE d = c
    <3>1. RecordsOf(c)' = RecordsOf(c) /\ StepOf(c)' = StepOf(c)
      BY <1>2, <1>4, <2>1 DEF RecordsOf, StepOf, Program
    <3> QED BY <1>1, <1>2, <1>4, <2>1, <3>1 DEF EvidenceInHand
  <2>2. CASE d # c BY <1>1, <1>2, <1>5, <2>2 DEF EvidenceInHand
  <2> QED BY <2>1, <2>2
<1>7. BoundariesAreBacked' BY <1>1 DEF BoundariesAreBacked
<1> QED BY <1>6, <1>7

\* At first there is nothing to tell.
LEMMA InitRecord == Init => RecordInv
<1> SUFFICES ASSUME Init PROVE RecordInv OBVIOUS
<1>1. log = <<>> /\ st.revision = 0 /\ 1..0 = {} /\ x = NoRequest BY DEF Init, InitialState
<1>2. \A c \in Callers : run[c].outbox = NoEvent /\ run[c].pc = "idle" BY DEF Init, Idle
<1>3. Emitted = {} BY <1>1, <1>2 DEF Emitted
<1>4. Numbered BY <1>1, <1>3 DEF Numbered, NumberedTo
<1>5. EvidenceInHand /\ BoundariesAreBacked BY <1>2, <1>3 DEF EvidenceInHand, BoundariesAreBacked
<1> QED BY <1>1, <1>4, <1>5 DEF RecordInv, Explained

\* A step that emits nothing and leaves the request and the state alone.
LEMMA SilenceExplained ==
  ASSUME Numbered, Explained, Emitted' = Emitted, UNCHANGED <<x, st>>
  PROVE  Numbered' /\ Explained'
BY DEF Numbered, Explained, History

\* An append, an admission and a step of the environment move no caller on.
LEMMA StandingBacked ==
  ASSUME EvidenceInHand, BoundariesAreBacked, Emitted' = Emitted, x' = x \/ Emitted = {},
         \A c \in Callers : /\ run'[c].pc = run[c].pc /\ run'[c].step = run[c].step
                            /\ run'[c].obs = run[c].obs
  PROVE  EvidenceInHand' /\ BoundariesAreBacked'
<1>1. BoundariesAreBacked' BY DEF BoundariesAreBacked
<1>2. CASE x' = x
  <2>1. \A c \in Callers : RecordsOf(c)' = RecordsOf(c) /\ StepOf(c)' = StepOf(c)
    BY <1>2 DEF RecordsOf, StepOf, Program
  <2> QED BY <1>1, <2>1 DEF EvidenceInHand
<1>3. CASE Emitted = {}
  <2>1. \A c \in Callers : RecordsOf(c) = {} <=> run[c].obs.facts = {}
    BY DEF RecordsOf, Records
  <2>2. \A c \in Callers : RecordsOf(c)' = {} <=> run'[c].obs.facts = {}
    BY DEF RecordsOf, Records
  <2> QED BY <1>1, <1>3, <2>1, <2>2 DEF EvidenceInHand
<1> QED BY <1>2, <1>3

\* Every step keeps the record.
LEMMA RecordStep == IInv /\ RecordInv /\ [Next]_vars => RecordInv'
<1> SUFFICES ASSUME IInv, RecordInv, [Next]_vars PROVE RecordInv' OBVIOUS
<1> USE DEF RecordInv
<1>1. CASE EmissionStep
  <2>1. PICK c \in Callers, e \in Events, a \in Runs :
          /\ run[c].outbox = NoEvent /\ a.outbox = NoEvent /\ x \in Requests
          /\ Emission(c, e, a) /\ Emit(c, e, a) /\ UNCHANGED <<x, log, effects>>
    BY <1>1 DEF EmissionStep
  <2> QED BY <2>1, EmissionExplained, EmissionBacked
<1>2. CASE SilentStep
  <2>1. PICK c \in Callers, r \in Runs :
          /\ run[c].outbox = NoEvent /\ r.outbox = NoEvent
          /\ Moves(c, r) /\ run' = [run EXCEPT ![c] = r] /\ UNCHANGED <<x, st, log>>
    BY <1>2 DEF SilentStep
  <2>2. Emitted' = Emitted BY <2>1, SilenceKeeps
  <2> QED BY <2>1, <2>2, SilenceBacked, SilenceExplained
<1>3. CASE AppendStep
  <2>1. PICK c \in Callers : AppendEvent(c) BY <1>3 DEF AppendStep
  <2>2. Emitted' = Emitted BY <2>1, AppendKeeps
  <2>3. UNCHANGED <<x, st>> /\ run' = [run EXCEPT ![c].outbox = NoEvent] BY <2>1 DEF AppendEvent
  <2>4. \A d \in Callers : /\ run'[d].pc = run[d].pc /\ run'[d].step = run[d].step
                           /\ run'[d].obs = run[d].obs
    BY <2>3 DEF IInv, TypeOK, Runs
  <2> QED BY <2>2, <2>3, <2>4, StandingBacked, SilenceExplained
<1>4. CASE AdmissionStep
  <2>1. Numbered' /\ Explained' /\ Emitted = {} /\ Emitted' = {} BY <1>4, AdmissionExplained
  <2>2. run' = run BY <1>4 DEF AdmissionStep
  <2> QED BY <2>1, <2>2, StandingBacked
<1>5. CASE IdleStep
  <2>1. UNCHANGED <<x, st, log, run>> BY <1>5 DEF IdleStep
  <2>2. Emitted' = Emitted BY <2>1 DEF Emitted
  <2> QED BY <2>1, <2>2, StandingBacked, SilenceExplained
<1> QED BY <1>1, <1>2, <1>3, <1>4, <1>5, NextIs DEF StepIs

\* The record is kept: emit stamps one event per revision, the stamps order a
\* history that replays to the state, and no boundary precedes its evidence.
THEOREM RecordKept == Spec => []RecordInv
<1>1. Init => RecordInv BY InitRecord
<1>2. IInv /\ RecordInv /\ [Next]_vars => RecordInv' BY RecordStep
<1> QED BY <1>1, <1>2, Invariance, PTL DEF Spec

\* What the log tells is what happened (LogIsTheRecord).
LEMMA RecordIsTrue == IInv /\ RecordInv => LogIsTheRecord
<1> SUFFICES ASSUME IInv, RecordInv PROVE LogIsTheRecord OBVIOUS
<1> DEFINE n == st.revision
           at(i) == {e \in Emitted : e.revision = i}
<1>1. n \in Nat /\ NumberedTo(Emitted, n) BY DEF IInv, TypeOK, States, RecordInv, Numbered
<1>2. \A i \in 1..n : at(i) = {History[i]}
  BY <1>1, HistoryIs DEF History, EventsOf
<1>3. \A i \in 1..n : \E e \in at(i) : at(i) = {e} BY <1>2
<1>4. Emitted = UNION {at(i) : i \in 1..n} BY <1>1 DEF NumberedTo
<1>5. [i \in 1..n |-> CHOOSE e \in at(i) : TRUE] = History BY DEF History, HistoryOf, EventsOf
<1>6. x # NoRequest => Fold(x, History) = st BY FoldIs DEF RecordInv, Explained
<1>7. EventsExplainState BY <1>3, <1>4, <1>5, <1>6 DEF EventsExplainState
<1> QED BY <1>7 DEF LogIsTheRecord, RecordInv

\* What the log and the outboxes hold folds to the authoritative state, and
\* every boundary in it has its evidence before it, for any callers and requests.
THEOREM LogKept == Spec => []LogIsTheRecord
<1> QED BY RecordKept, Invariance, RecordIsTrue, PTL

-----------------------------------------------------------------------------
(***************************************************************************)
(* One runner.  Whatever number of callers enters Run, at most one is past *)
(* execution.started, and from that follow the two results of this section: *)
(* each step is dispatched once and in program order, and the declared     *)
(* bounds hold for the steps dispatched.  The invariants are stated on the *)
(* events emitted, logged or not, and read off the log at the end.         *)
(***************************************************************************)

ActivePCs == {"check", "dispatch", "invoke", "evaluate", "evidence", "mutation",
              "artifact", "next", "verify", "judge", "verdict"}
Active(c) == run[c].pc \in ActivePCs

Started == {e \in Emitted : e.kind = "step.started"}

\* Nobody runs, and nothing has been done, before execution.started; one after.
OneRunner ==
  /\ \A c, d \in Callers : Active(c) /\ Active(d) => c = d
  /\ st.status = "ADMITTED" =>
       (\A c \in Callers : ~Active(c)) /\ Started = {} /\ effects = {}

(***************************************************************************)
(* The order of dispatch: what was dispatched lies behind the runner.      *)
(***************************************************************************)
Index(e) == StepIndex(x.spec, e.step)

InOrder ==
  /\ \A e \in Started : \E i \in DOMAIN Program : Program[i].id = e.step
  /\ \A d, e \in Started : d.revision < e.revision => Index(d) < Index(e)
  /\ \A c \in Callers : Active(c) => \A e \in Started :
       /\ Index(e) < run[c].step
       /\ run[c].pc \in {"check", "dispatch"} => Index(e) < run[c].step - 1

(***************************************************************************)
(* The budget: the runner is ahead of its account by one step at most.     *)
(***************************************************************************)
Dispatches(caps) == {e.revision : e \in {d \in Started : d.cap \in caps}}
Spent(caps) == Cardinality(Dispatches(caps))

Owes(c, caps) ==
  IF run[c].pc \in {"invoke", "evaluate"} /\ StepOf(c).cap \in caps THEN 1 ELSE 0

WithinBudget ==
  /\ \A c \in Callers : Active(c) =>
       /\ Spent(Capabilities) <= st.steps + Owes(c, Capabilities)
       /\ \A cap \in Capabilities : Spent({cap}) <= st.perCap[cap] + Owes(c, {cap})
  /\ x # NoRequest =>
       /\ x.spec.budget.steps > 0 => Spent(Capabilities) <= x.spec.budget.steps
       /\ x.spec.budget.perCap > 0 =>
            \A cap \in Capabilities : Spent({cap}) <= x.spec.budget.perCap

\* Every event is appended once.
LogOnce ==
  /\ \A i, j \in DOMAIN log : log[i] = log[j] => i = j
  /\ \A c \in Callers, i \in DOMAIN log : run[c].outbox # log[i]
  /\ \A c, d \in Callers : run[c].outbox = run[d].outbox => c = d \/ run[c].outbox = NoEvent

---------------------------------------------------------------------------
(***************************************************************************)
(* The step summary once more, in the terms these invariants need: where   *)
(* the caller goes, and what becomes of the state.                         *)
(***************************************************************************)
\* From which point of Run which event is emitted, and where it leads.
Hop(from, kind, to) ==
  \/ from = "start" /\ kind = "execution.started" /\ to = "check"
  \/ from = "dispatch" /\ kind = "step.started" /\ to = "invoke"
  \/ from \in {"dispatch", "evaluate"} /\ kind = "step.blocked" /\ to = "stopped"
  \/ from = "evaluate" /\ kind = "capability.invoked" /\ to = "evidence"
  \/ from = "evidence" /\ kind = "evidence.produced" /\ to = "mutation"
  \/ from = "mutation" /\ kind = "mutation.applied" /\ to = "artifact"
  \/ from = "artifact" /\ kind = "artifact.produced" /\ to = "next"
  \/ from = "verify" /\ kind = "verification.skipped" /\ to = "settle"
  \/ from = "verify" /\ kind = "verification.started" /\ to = "judge"
  \/ from = "verdict" /\ kind \in {"verification.passed", "verification.skipped"} /\ to = "settle"
  \/ from = "verdict" /\ kind = "verification.failed" /\ to = "stopped"
  \/ from = "failing" /\ kind = "execution.failed" /\ to = "return"
  \/ from = "settle" /\ kind = "execution.finished" /\ to = "return"

\* A caller emits e: what changes.
Emits(c, e) ==
  /\ x \in Requests /\ e \in Events
  /\ run[c].outbox = NoEvent /\ run'[c].outbox = Stamped(e)
  /\ Hop(run[c].pc, e.kind, run'[c].pc)
  /\ run'[c].step = run[c].step /\ run'[c].obs = run[c].obs
  /\ run'[c].verdict = run[c].verdict /\ run'[c].result = run[c].result
  /\ \A d \in Callers : d # c => run'[d] = run[d]
  /\ Emitted' = Emitted \cup {Stamped(e)}
  /\ Accepts(x, st, e) /\ st' = Reduced(x, st, e)
  /\ UNCHANGED <<x, log, effects>>
  /\ \E a \in Runs : Emission(c, e, a)

\* A caller moves in silence: what changes.
Passes(c) ==
  /\ run[c].outbox = NoEvent /\ run'[c].outbox = NoEvent
  /\ Moves(c, run'[c])
  /\ \A d \in Callers : d # c => run'[d] = run[d]
  /\ Emitted' = Emitted
  /\ UNCHANGED <<x, st, log>>

\* Nobody moves: an append, an admission, a step of the environment.
Stands ==
  /\ \A c \in Callers :
       /\ run'[c].pc = run[c].pc /\ run'[c].step = run[c].step /\ run'[c].obs = run[c].obs
       /\ run'[c].verdict = run[c].verdict /\ run'[c].result = run[c].result
  /\ Emitted' = Emitted
  /\ UNCHANGED effects
  /\ \/ UNCHANGED <<x, st>> /\ \/ UNCHANGED <<log, run>>
                               \/ \E c \in Callers : AppendEvent(c)
     \/ /\ x = NoRequest /\ x' \in Requests /\ st' = st /\ st = InitialState
        /\ Emitted = {} /\ UNCHANGED <<log, run>>

\* Where an emission leads, and what of the run record it leaves alone.
LEMMA EmissionGoes ==
  ASSUME IInv, NEW c \in Callers, NEW e \in Events, NEW a \in Runs, Emission(c, e, a)
  PROVE  /\ Hop(run[c].pc, e.kind, a.pc)
         /\ a.step = run[c].step /\ a.obs = run[c].obs
         /\ a.verdict = run[c].verdict /\ a.result = run[c].result
<1>1. run[c] \in Runs BY DEF IInv, TypeOK
<1>2. \A pc : /\ At1(run[c], pc).pc = pc
              /\ At1(run[c], pc).step = run[c].step /\ At1(run[c], pc).obs = run[c].obs
              /\ At1(run[c], pc).verdict = run[c].verdict
              /\ At1(run[c], pc).result = run[c].result
  BY <1>1 DEF At1, Runs
<1>3. \A class : /\ Blocked(run[c], class).pc = "stopped"
                 /\ Blocked(run[c], class).step = run[c].step
                 /\ Blocked(run[c], class).obs = run[c].obs
                 /\ Blocked(run[c], class).verdict = run[c].verdict
                 /\ Blocked(run[c], class).result = run[c].result
  BY <1>1 DEF Blocked, Runs
<1>4. /\ a.step = run[c].step /\ a.obs = run[c].obs
      /\ a.verdict = run[c].verdict /\ a.result = run[c].result
  BY <1>2, <1>3 DEF Emission, EmitsStart, EmitsDispatch, EmitsBlock, EmitsInvoked,
     EmitsEvidence, EmitsBoundary, EmitsCheck, EmitsVerdict, EmitsEnd
<1>5. Hop(run[c].pc, e.kind, a.pc)
  <2>1. CASE EmitsStart(c, e, a) BY <1>2, <2>1, EmissionsAre DEF EmitsStart, Hop
  <2>2. CASE EmitsDispatch(c, e, a) BY <1>2, <2>2, EmissionsAre DEF EmitsDispatch, Hop
  <2>3. CASE EmitsBlock(c, e, a)
    <3>1. e.kind = "step.blocked" BY <2>3, EmissionsAre
    <3>2. run[c].pc \in {"dispatch", "evaluate"} /\ a.pc = "stopped"
      BY <1>3, <2>3 DEF EmitsBlock
    <3> QED BY <3>1, <3>2 DEF Hop
  <2>4. CASE EmitsInvoked(c, e, a) BY <1>2, <2>4, EmissionsAre DEF EmitsInvoked, Hop
  <2>5. CASE EmitsEvidence(c, e, a) BY <1>2, <2>5, EmissionsAre DEF EmitsEvidence, Hop
  <2>6. CASE EmitsBoundary(c, e, a)
    <3>1. \/ e.kind = "mutation.applied" /\ run[c].pc = "mutation"
          \/ e.kind = "artifact.produced" /\ run[c].pc = "artifact"
      BY <2>6, EmissionsAre
    <3>2. \/ run[c].pc = "mutation" /\ a.pc = "artifact"
          \/ run[c].pc = "artifact" /\ a.pc = "next"
      BY <1>2, <2>6 DEF EmitsBoundary
    <3> QED BY <3>1, <3>2 DEF Hop
  <2>7. CASE EmitsCheck(c, e, a) BY <1>2, <2>7 DEF EmitsCheck, EventOf, Hop
  <2>8. CASE EmitsVerdict(c, e, a) BY <1>2, <1>3, <2>8 DEF EmitsVerdict, EventOf, Hop
  <2>9. CASE EmitsEnd(c, e, a) BY <1>2, <2>9 DEF EmitsEnd, EventOf, Hop
  <2> QED BY <2>1, <2>2, <2>3, <2>4, <2>5, <2>6, <2>7, <2>8, <2>9 DEF Emission
<1> QED BY <1>4, <1>5

\* Every step is one of the three.
LEMMA StepSorts ==
  ASSUME IInv, Numbered, Explained, [Next]_vars
  PROVE  \/ \E c \in Callers, e \in Events : Emits(c, e)
         \/ \E c \in Callers : Passes(c)
         \/ Stands
<1>1. CASE EmissionStep
  <2>1. PICK c \in Callers, e \in Events, a \in Runs :
          /\ run[c].outbox = NoEvent /\ a.outbox = NoEvent /\ x \in Requests
          /\ Emission(c, e, a) /\ Emit(c, e, a) /\ UNCHANGED <<x, log, effects>>
    BY <1>1 DEF EmissionStep
  <2> DEFINE r == [a EXCEPT !.outbox = Stamped(e)]
  <2>2. /\ r.outbox = Stamped(e) /\ r.pc = a.pc /\ r.step = a.step /\ r.obs = a.obs
        /\ r.verdict = a.verdict /\ r.result = a.result
    BY DEF Runs
  <2>3. run' = [run EXCEPT ![c] = r] /\ Accepts(x, st, e) /\ st' = Reduced(x, st, e)
    BY <2>1 DEF Emit
  <2> HIDE DEF r
  <2>4. run'[c] = r /\ \A d \in Callers : d # c => run'[d] = run[d]
    BY <2>3 DEF IInv, TypeOK
  <2>5. Emitted' = Emitted \cup {Stamped(e)} BY <2>1, EmissionAdds
  <2>6. /\ Hop(run[c].pc, e.kind, a.pc) /\ a.step = run[c].step /\ a.obs = run[c].obs
        /\ a.verdict = run[c].verdict /\ a.result = run[c].result
    BY <2>1, EmissionGoes
  <2>7. Emits(c, e) BY <2>1, <2>2, <2>3, <2>4, <2>5, <2>6 DEF Emits
  <2> QED BY <2>7
<1>2. CASE SilentStep
  <2>1. PICK c \in Callers, r \in Runs :
          /\ run[c].outbox = NoEvent /\ r.outbox = NoEvent
          /\ Moves(c, r) /\ run' = [run EXCEPT ![c] = r] /\ UNCHANGED <<x, st, log>>
    BY <1>2 DEF SilentStep
  <2>2. Emitted' = Emitted BY <2>1, SilenceKeeps
  <2>3. run'[c] = r /\ \A d \in Callers : d # c => run'[d] = run[d]
    BY <2>1 DEF IInv, TypeOK
  <2>4. Passes(c) BY <2>1, <2>2, <2>3 DEF Passes
  <2> QED BY <2>4
<1>3. CASE AppendStep
  <2>1. PICK c \in Callers : AppendEvent(c) BY <1>3 DEF AppendStep
  <2>2. Emitted' = Emitted BY <2>1, AppendKeeps
  <2>3. UNCHANGED <<x, st, effects>> /\ run' = [run EXCEPT ![c].outbox = NoEvent]
    BY <2>1 DEF AppendEvent
  <2>4. \A d \in Callers :
          /\ run'[d].pc = run[d].pc /\ run'[d].step = run[d].step /\ run'[d].obs = run[d].obs
          /\ run'[d].verdict = run[d].verdict /\ run'[d].result = run[d].result
    BY <2>3 DEF IInv, TypeOK, Runs
  <2> QED BY <2>1, <2>2, <2>3, <2>4 DEF Stands
<1>4. CASE AdmissionStep
  <2>1. Emitted = {} /\ Emitted' = {} BY <1>4, AdmissionExplained
  <2>2. st = InitialState BY <1>4 DEF AdmissionStep, IInv, Blank
  <2> QED BY <1>4, <2>1, <2>2 DEF AdmissionStep, Stands
<1>5. CASE IdleStep
  <2>1. UNCHANGED <<x, st, log, run, effects>> BY <1>5 DEF IdleStep
  <2>2. Emitted' = Emitted BY <2>1 DEF Emitted
  <2> QED BY <2>1, <2>2 DEF Stands
<1> QED BY <1>1, <1>2, <1>3, <1>4, <1>5, NextIs DEF StepIs

\* Where a silent move leaves a caller that is still running: it was running.
LEMMA PassesOn ==
  ASSUME IInv, NEW c \in Callers, Passes(c)
  PROVE  /\ run'[c].pc \in ActivePCs =>
              \/ /\ run'[c].step = run[c].step
                 /\ \/ run[c].pc = "check" /\ run'[c].pc \in {"verify", "dispatch"}
                    \/ run[c].pc = "evidence" /\ run'[c].pc = "mutation" /\ RecordsOf(c) = {}
                    \/ run[c].pc = "mutation" /\ run'[c].pc = "artifact"
                    \/ run[c].pc = "artifact" /\ run'[c].pc = "next"
                    \/ run[c].pc = "judge" /\ run'[c].pc \in {"judge", "verdict"}
                    \/ run[c].pc = "invoke" /\ run'[c].pc = "evaluate"
              \/ run[c].pc = "next" /\ run'[c].pc = "check" /\ run'[c].step = run[c].step + 1
         /\ run'[c].pc = "settle" => Settled
         /\ run[c].pc # "invoke" => effects' = effects
         /\ run'[c].pc = "evaluate" => run[c].pc = "invoke"
         /\ run'[c].pc = "evidence" => FALSE
         /\ run[c].pc = "invoke" => Invokes(c, run'[c]) \/ effects' = effects
<1>1. run[c] \in Runs BY DEF IInv, TypeOK
<1> DEFINE r == run'[c]
<1>2. Moves(c, r) /\ UNCHANGED st BY DEF Passes
<1> HIDE DEF r
<1>3. CASE Invokes(c, r)
  <2>1. r.pc = "evaluate" /\ r.step = run[c].step /\ run[c].pc = "invoke"
    BY <1>1, <1>3 DEF Invokes, Runs
  <2> QED BY <1>3, <2>1 DEF r, ActivePCs
<1>4. CASE Advances(c, r) /\ effects' = effects
  <2>1. \A pc : At1(run[c], pc).pc = pc /\ At1(run[c], pc).step = run[c].step
    BY <1>1 DEF At1, Runs
  <2> DEFINE m == [run[c] EXCEPT !.pc = "check", !.step = run[c].step + 1]
  <2>2. m.pc = "check" /\ m.step = run[c].step + 1 BY <1>1 DEF Runs
  <2>4. \/ run[c].pc = "idle" /\ r = At1(run[c], "start")
        \/ run[c].pc = "check" /\ r = At1(run[c], "verify")
        \/ run[c].pc = "check" /\ r = At1(run[c], "dispatch")
        \/ run[c].pc = "evidence" /\ RecordsOf(c) = {} /\ r = At1(run[c], "mutation")
        \/ run[c].pc = "mutation" /\ r = At1(run[c], "artifact")
        \/ run[c].pc = "artifact" /\ r = At1(run[c], "next")
        \/ run[c].pc = "next" /\ r = m
    BY <1>4 DEF Advances
  <2> HIDE DEF m
  <2>3. \/ run[c].pc = "idle" /\ r.pc = "start"
        \/ run[c].pc = "check" /\ r.pc \in {"verify", "dispatch"} /\ r.step = run[c].step
        \/ run[c].pc = "evidence" /\ RecordsOf(c) = {} /\ r.pc = "mutation" /\ r.step = run[c].step
        \/ run[c].pc = "mutation" /\ r.pc = "artifact" /\ r.step = run[c].step
        \/ run[c].pc = "artifact" /\ r.pc = "next" /\ r.step = run[c].step
        \/ run[c].pc = "next" /\ r.pc = "check" /\ r.step = run[c].step + 1
    BY <2>1, <2>2, <2>4
  <2> QED BY <1>4, <2>3 DEF r, ActivePCs
<1>5. CASE Judges(c, r) /\ effects' = effects
  <2>1. run[c].pc = "judge" /\ r.pc \in {"judge", "verdict"} /\ r.step = run[c].step
    BY <1>1, <1>5 DEF Judges, Runs
  <2> QED BY <1>5, <2>1 DEF r, ActivePCs
<1>6. CASE Stops(c, r) /\ effects' = effects
  <2>1. \/ r.pc \in {"stopped", "fail"} \/ r.pc = "failing"
        \/ r.pc = "settle" /\ Settled
    BY <1>1, <1>6 DEF Stops, At1, Runs
  <2> QED BY <1>6, <2>1 DEF r, ActivePCs
<1>7. CASE Returns(c, r) /\ effects' = effects
  <2>1. r.pc = "done" BY <1>1, <1>7 DEF Returns, Runs
  <2> QED BY <1>7, <2>1 DEF r, ActivePCs
<1> QED BY <1>2, <1>3, <1>4, <1>5, <1>6, <1>7 DEF Moves

\* What reduce does to the parts of the state the invariants speak of.
Changes(r, s, e, n) ==
  /\ s.status # "SETTLED"
  /\ e.kind = "execution.started" => s.status = "ADMITTED"
  /\ n.status = IF e.kind = "execution.started" THEN "RUNNING"
                ELSE IF e.kind \in {"execution.failed", "execution.finished"}
                     THEN "SETTLED" ELSE s.status
  /\ e.kind # "capability.invoked" => n.steps = s.steps /\ n.perCap = s.perCap
  /\ e.kind # "evidence.produced" => n.evidence = s.evidence
  /\ e.kind \notin {"execution.failed", "execution.finished"} => n.terminal = s.terminal
  /\ e.kind \in {"execution.failed", "execution.finished"} =>
       /\ n.terminal = Verdict(r, s, e) /\ n.evidence = s.evidence
       /\ n.mutation = s.mutation /\ n.verify = s.verify

\* Changes is what reduce does to an event that Run emits.
LEMMA ReducedIs ==
  ASSUME NEW r, NEW s \in States, NEW e, Accepts(r, s, e), NEW n, n = Reduced(r, s, e),
         NEW from, NEW to, Hop(from, e.kind, to)
  PROVE  Changes(r, s, e, n)
<1> DEFINE next == [s EXCEPT !.revision = @ + 1]
<1>1. /\ next.status = s.status /\ next.steps = s.steps /\ next.perCap = s.perCap
      /\ next.evidence = s.evidence /\ next.terminal = s.terminal
      /\ next.mutation = s.mutation /\ next.verify = s.verify
  BY DEF States
<1>2. DOMAIN next = DOMAIN s /\ {"status", "steps", "perCap", "evidence", "terminal",
                                 "mutation", "verify"} \subseteq DOMAIN s
  BY DEF States
<1>3. s.status # "SETTLED" /\ (e.kind = "execution.started" => s.status = "ADMITTED")
  BY DEF Accepts, Unsettled, MayStart
<1> HIDE DEF next
<1>4. e.kind = "execution.started" => n = [next EXCEPT !.status = "RUNNING"]
  BY DEF Reduced, next
<1>5. e.kind = "evidence.produced" => n.status = s.status /\ n.steps = s.steps
        /\ n.perCap = s.perCap /\ n.terminal = s.terminal
  BY <1>1, <1>2 DEF Reduced, next
<1>6. e.kind = "capability.invoked" =>
        n.status = s.status /\ n.evidence = s.evidence /\ n.terminal = s.terminal
  BY DEF Reduced, Charge, States
<1>7. e.kind \in {"execution.failed", "execution.finished"} =>
        n = [next EXCEPT !.status = "SETTLED", !.terminal = Verdict(r, s, e)]
  BY DEF Reduced, next
<1>8. e.kind \in {"step.started", "step.blocked", "mutation.applied", "artifact.produced",
                  "verification.started", "verification.passed", "verification.failed",
                  "verification.skipped"} =>
        /\ n.status = next.status /\ n.steps = next.steps /\ n.perCap = next.perCap
        /\ n.evidence = next.evidence /\ n.terminal = next.terminal
  BY <1>2 DEF Reduced, CheckStarted, next
<1>9. e.kind = "execution.started" => /\ n.status = "RUNNING" /\ n.steps = s.steps
        /\ n.perCap = s.perCap /\ n.evidence = s.evidence /\ n.terminal = s.terminal
  BY <1>1, <1>2, <1>4
<1>10. e.kind \in {"execution.failed", "execution.finished"} =>
        /\ n.status = "SETTLED" /\ n.steps = s.steps /\ n.perCap = s.perCap
        /\ n.terminal = Verdict(r, s, e) /\ n.evidence = s.evidence
        /\ n.mutation = s.mutation /\ n.verify = s.verify
  BY <1>1, <1>2, <1>7
<1>11. e.kind \in {"execution.started", "step.started", "step.blocked", "capability.invoked",
                   "evidence.produced", "mutation.applied", "artifact.produced",
                   "verification.started", "verification.passed", "verification.failed",
                   "verification.skipped", "execution.failed", "execution.finished"}
  BY DEF Hop
<1> QED BY <1>1, <1>3, <1>5, <1>6, <1>8, <1>9, <1>10, <1>11 DEF Changes

---------------------------------------------------------------------------

\* A program of an admitted request names each step once.
LEMMA IndexIs ==
  ASSUME IInv, x \in Requests, NEW i \in DOMAIN Program
  PROVE  /\ StepIndex(x.spec, Program[i].id) = i - 1
         /\ StepAt(x.spec, Program[i].id) = Program[i]
         /\ i \in Nat \ {0}
<1>1. ValidSpec(x.spec, Registered) BY AdmittedShape DEF IInv, Admitted, AdmissionRefusal, None
<1>2. \A k, j \in DOMAIN x.spec.program :
        x.spec.program[k].id = x.spec.program[j].id => k = j
  BY <1>1 DEF ValidSpec
<1>3. (CHOOSE j \in DOMAIN x.spec.program : x.spec.program[j].id = Program[i].id) = i
  BY <1>2 DEF Program
<1>4. PICK T : Program \in Seq(T) BY AdmittedShape DEF Program
<1>5. DOMAIN Program = 1..Len(Program) /\ Len(Program) \in Nat BY <1>4
<1>6. i \in Nat \ {0} BY <1>5
<1>7. StepIndex(x.spec, Program[i].id) = i - 1 BY <1>3 DEF StepIndex
<1>8. StepAt(x.spec, Program[i].id) = Program[i] BY <1>3 DEF StepAt, Program
<1> QED BY <1>6, <1>7, <1>8

\* Nothing is dispatched by an event of another kind.
LEMMA StartedIs ==
  ASSUME IInv, NEW e \in Events, Emitted' = Emitted \cup {Stamped(e)}
  PROVE  /\ e.kind # "step.started" => Started' = Started
         /\ e.kind = "step.started" => Started' = Started \cup {Stamped(e)}
<1>1. Stamped(e).kind = e.kind BY StampedIs DEF IInv, TypeOK
<1>2. \A d : d \in Started' <=> d \in Emitted' /\ d.kind = "step.started" BY DEF Started
<1>3. \A d : d \in Started <=> d \in Emitted /\ d.kind = "step.started" BY DEF Started
<1> QED BY <1>1, <1>2, <1>3

\* Who runs after an emission ran before, or execution.started is that emission.
LEMMA RunnerAfterEmission ==
  ASSUME IInv, OneRunner, NEW c \in Callers, NEW e, Emits(c, e)
  PROVE  /\ \A d \in Callers : run'[d].pc \in ActivePCs =>
              Active(d) \/ (d = c /\ st.status = "ADMITTED" /\ run'[c].pc = "check")
         /\ st'.status # "ADMITTED"
         /\ e.kind \notin {"execution.started", "execution.failed", "execution.finished"} =>
              Active(c) /\ \A d \in Callers : Active(d) => d = c
<1>1. /\ Accepts(x, st, e) /\ st \in States /\ st' = Reduced(x, st, e)
      /\ Hop(run[c].pc, e.kind, run'[c].pc)
      /\ \A d \in Callers : d # c => run'[d] = run[d]
  BY DEF Emits, IInv, TypeOK
<1>2. /\ e.kind = "execution.started" => st.status = "ADMITTED"
      /\ st'.status = IF e.kind = "execution.started" THEN "RUNNING"
                      ELSE IF e.kind \in {"execution.failed", "execution.finished"}
                           THEN "SETTLED" ELSE st.status
  <2>1. Changes(x, st, e, st') BY <1>1, ReducedIs
  <2> QED BY <2>1 DEF Changes
<1>3. \/ /\ e.kind = "execution.started" /\ run'[c].pc = "check"
      \/ /\ e.kind \in {"execution.failed", "execution.finished"} /\ run'[c].pc = "return"
      \/ /\ e.kind \notin {"execution.started", "execution.failed", "execution.finished"}
         /\ Active(c)
  BY <1>1 DEF Hop, Active, ActivePCs
<1>4. "return" \notin ActivePCs BY DEF ActivePCs
<1>5. st'.status # "ADMITTED" BY <1>2, <1>3 DEF OneRunner
<1>6. \A d \in Callers : d # c /\ run'[d].pc \in ActivePCs => Active(d) BY <1>1 DEF Active
<1> QED BY <1>2, <1>3, <1>4, <1>5, <1>6 DEF OneRunner

\* Every step leaves at most one runner.
LEMMA RunnerStep ==
  ASSUME IInv, Numbered, Explained, OneRunner, [Next]_vars
  PROVE  OneRunner'
<1>1. ASSUME NEW c \in Callers, NEW e \in Events, Emits(c, e) PROVE OneRunner'
  BY <1>1, RunnerAfterEmission DEF OneRunner, Active
<1>2. ASSUME NEW c \in Callers, Passes(c) PROVE OneRunner'
  <2>1. /\ \A d \in Callers : d # c => run'[d] = run[d]
        /\ UNCHANGED st /\ Started' = Started
    BY <1>2 DEF Passes, Started
  <2>2. run'[c].pc \in ActivePCs => Active(c) BY <1>2, PassesOn DEF Active, ActivePCs
  <2>3. ~Active(c) => effects' = effects
    <3>1. "invoke" \in ActivePCs BY DEF ActivePCs
    <3> QED BY <1>2, <3>1, PassesOn DEF Active
  <2>4. \A d \in Callers : Active(d)' => Active(d) BY <2>1, <2>2 DEF Active
  <2> QED BY <2>1, <2>3, <2>4 DEF OneRunner
<1>3. CASE Stands
  <2>1. /\ \A d \in Callers : run'[d].pc = run[d].pc
        /\ UNCHANGED <<st, effects>> /\ Started' = Started
    BY <1>3 DEF Stands, Started
  <2> QED BY <2>1 DEF OneRunner, Active
<1> QED BY <1>1, <1>2, <1>3, StepSorts

---------------------------------------------------------------------------

\* An index of a dispatched step is that of a step of the program.
LEMMA IndexType ==
  ASSUME IInv, InOrder, x \in Requests
  PROVE  \A e \in Started : Index(e) \in Nat
BY IndexIs DEF InOrder, Index

\* Every step keeps the order of dispatch.
LEMMA OrderStep ==
  ASSUME IInv, Numbered, Explained, OneRunner, InOrder, [Next]_vars
  PROVE  InOrder'
<1>1. ASSUME NEW c \in Callers, NEW e \in Events, Emits(c, e) PROVE InOrder'
  <2>1. /\ x \in Requests /\ UNCHANGED x /\ Hop(run[c].pc, e.kind, run'[c].pc)
        /\ Emitted' = Emitted \cup {Stamped(e)} /\ run'[c].step = run[c].step
        /\ \A d \in Callers : d # c => run'[d] = run[d]
    BY <1>1 DEF Emits
  <2>2. \A d : Index(d)' = Index(d) BY <2>1 DEF Index
  <2>3. \A d \in Callers : run'[d].pc \in ActivePCs =>
          Active(d) \/ (d = c /\ st.status = "ADMITTED" /\ run'[c].pc = "check")
    BY <1>1, RunnerAfterEmission
  <2>4. CASE e.kind # "step.started"
    <3>1. Started' = Started BY <2>1, <2>4, StartedIs
    <3>2. ASSUME NEW d \in Callers, run'[d].pc \in ActivePCs, NEW f \in Started
          PROVE  /\ Index(f) < run'[d].step
                 /\ run'[d].pc \in {"check", "dispatch"} => Index(f) < run'[d].step - 1
      <4>1. Active(d) BY <2>3, <3>2 DEF OneRunner
      <4>2. run'[c].pc \in {"check", "dispatch"} => run[c].pc = "start" BY <2>1 DEF Hop
      <4>3. ~(d = c /\ run[c].pc = "start") BY <4>1 DEF Active, ActivePCs
      <4> QED BY <2>1, <4>1, <4>2, <4>3 DEF InOrder
    <3> QED BY <2>1, <2>2, <3>1, <3>2 DEF InOrder, Active, Program
  <2>5. CASE e.kind = "step.started"
    <3> DEFINE q == Stamped(e)
    <3>1. Started' = Started \cup {q} BY <2>1, <2>5, StartedIs
    <3>2. run[c].pc = "dispatch" /\ run'[c].pc = "invoke" BY <2>1, <2>5 DEF Hop
    <3>3. q.step = StepOf(c).id /\ q.revision = st.revision + 1 /\ st.revision \in Nat
      <4>1. PICK a \in Runs : Emission(c, e, a) BY <1>1 DEF Emits
      <4>2. e.step = StepOf(c).id BY <2>5, <4>1, EmissionsAre DEF Emission
      <4> QED BY <4>2, StampedIs DEF IInv, TypeOK, States
    <3>4. run[c].step \in DOMAIN Program /\ run[c].step \in Nat
      BY <3>2 DEF IInv, Placed, RunOK, StepPCs, Runs
    <3>5. Index(q) = run[c].step - 1 BY <2>1, <3>3, <3>4, IndexIs DEF Index, StepOf
    <3> HIDE DEF q
    <3>6. \A f \in Started : /\ f.revision < q.revision /\ f.revision \in Nat
                             /\ Index(f) < Index(q) /\ Index(f) \in Nat
      <4> SUFFICES ASSUME NEW f \in Started
                   PROVE  /\ f.revision < q.revision /\ f.revision \in Nat
                          /\ Index(f) < Index(q) /\ Index(f) \in Nat
        OBVIOUS
      <4>1. f.revision \in 1..st.revision BY DEF Started, Numbered, NumberedTo
      <4>2. Index(f) < run[c].step - 1 BY <3>2 DEF InOrder, Active, ActivePCs
      <4>3. Index(f) \in Nat BY <2>1, IndexType
      <4> QED BY <3>3, <3>5, <4>1, <4>2, <4>3
    <3>7. \A f \in Started' : \E i \in DOMAIN Program : Program[i].id = f.step
      BY <3>1, <3>3, <3>4 DEF InOrder, StepOf
    <3>8. \A d, f \in Started' : d.revision < f.revision => Index(d) < Index(f)
      <4>1. q.revision \in Nat BY <3>3
      <4> QED BY <3>1, <3>6, <4>1 DEF InOrder
    <3>9. ASSUME NEW d \in Callers, run'[d].pc \in ActivePCs, NEW f \in Started'
          PROVE  /\ Index(f) < run'[d].step
                 /\ run'[d].pc \in {"check", "dispatch"} => Index(f) < run'[d].step - 1
      <4>1. d = c
        BY <1>1, <2>5, <3>2, <3>9, RunnerAfterEmission
      <4>2. Index(f) <= Index(q) /\ Index(f) \in Int BY <3>1, <3>4, <3>5, <3>6
      <4> QED BY <2>1, <3>2, <3>4, <3>5, <4>1, <4>2
    <3>10. Program' = Program BY <2>1 DEF Program
    <3> QED BY <2>2, <3>7, <3>8, <3>9, <3>10 DEF InOrder, Active
  <2> QED BY <2>4, <2>5
<1>2. ASSUME NEW c \in Callers, Passes(c) PROVE InOrder'
  <2>1. /\ \A d \in Callers : d # c => run'[d] = run[d]
        /\ UNCHANGED x /\ Started' = Started /\ Program' = Program
        /\ \A d : Index(d)' = Index(d)
    BY <1>2 DEF Passes, Started, Program, Index
  <2>2. ASSUME run'[c].pc \in ActivePCs, NEW f \in Started
        PROVE  /\ Index(f) < run'[c].step
               /\ run'[c].pc \in {"check", "dispatch"} => Index(f) < run'[c].step - 1
    <3>1. run[c] \in Runs /\ Active(c)
      BY <1>2, <2>2, PassesOn DEF IInv, TypeOK, Active, ActivePCs
    <3>2. run[c].step \in Nat BY <3>1 DEF Runs
    <3>3. Index(f) \in Nat
      <4>1. x \in Requests BY <3>1, AtWork DEF Active, ActivePCs
      <4> QED BY <4>1, IndexType
    <3>4. CASE run[c].pc = "next" /\ run'[c].pc = "check" /\ run'[c].step = run[c].step + 1
      <4>1. Index(f) < run[c].step BY <3>1 DEF InOrder
      <4> QED BY <3>2, <3>3, <3>4, <4>1
    <3>5. CASE /\ run'[c].step = run[c].step
               /\ run'[c].pc \in {"check", "dispatch"} => run[c].pc = "check"
      BY <3>1, <3>5 DEF InOrder
    <3> QED BY <1>2, <2>2, <3>4, <3>5, PassesOn
  <2> QED BY <2>1, <2>2 DEF InOrder, Active
<1>3. CASE Stands
  <2>1. /\ \A d \in Callers : run'[d].pc = run[d].pc /\ run'[d].step = run[d].step
        /\ Started' = Started
        /\ x' = x \/ Emitted = {}
    BY <1>3 DEF Stands, Started
  <2>2. CASE x' = x
    <3>1. Program' = Program /\ \A d : Index(d)' = Index(d) BY <2>2 DEF Program, Index
    <3> QED BY <2>1, <3>1 DEF InOrder, Active
  <2>3. CASE Emitted = {}
    <3>1. Started' = {} BY <2>1, <2>3 DEF Started
    <3> QED BY <3>1 DEF InOrder
  <2> QED BY <2>1, <2>2, <2>3
<1> QED BY <1>1, <1>2, <1>3, StepSorts

---------------------------------------------------------------------------

\* No event in the log is the absence of one.
LEMMA LoggedIs ==
  ASSUME IInv, Numbered
  PROVE  /\ \A i \in DOMAIN log : log[i] \in Emitted /\ log[i] # NoEvent
         /\ \A c \in Callers : run[c].outbox # NoEvent => run[c].outbox \in Emitted
         /\ \A e \in Emitted : e.revision \in 1..st.revision /\ e.revision # st.revision + 1
         /\ st.revision \in Nat
<1>1. st.revision \in Nat BY DEF IInv, TypeOK, States
<1>2. \A e \in Emitted : e.revision \in 1..st.revision /\ e.revision # st.revision + 1
  BY <1>1 DEF Numbered, NumberedTo
<1>3. NoEvent.revision = 0 BY DEF NoEvent, EventOf
<1>4. \A e \in Emitted : e # NoEvent BY <1>1, <1>2, <1>3
<1>5. \A i \in DOMAIN log : log[i] \in Emitted BY EmittedIs
<1>6. \A c \in Callers : run[c].outbox # NoEvent => run[c].outbox \in Emitted BY EmittedIs
<1> QED BY <1>1, <1>2, <1>4, <1>5, <1>6

\* What an append does to the log.
LEMMA AppendIs ==
  ASSUME IInv, NEW c \in Callers, AppendEvent(c)
  PROVE  /\ Len(log) \in Nat /\ DOMAIN log = 1..Len(log) /\ DOMAIN log' = 1..(Len(log) + 1)
         /\ log'[Len(log) + 1] = run[c].outbox /\ run[c].outbox # NoEvent
         /\ \A i \in DOMAIN log : log'[i] = log[i] /\ i \in DOMAIN log'
         /\ \A i \in DOMAIN log' : i \in DOMAIN log \/ i = Len(log) + 1
         /\ run'[c].outbox = NoEvent
         /\ \A d \in Callers : d # c => run'[d] = run[d]
<1>1. log \in Seq(Events) /\ run[c] \in Runs /\ run[c].outbox \in Events
  BY DEF IInv, TypeOK, Runs
<1>2. log' = Append(log, run[c].outbox) /\ run[c].outbox # NoEvent BY DEF AppendEvent
<1>3. run' = [run EXCEPT ![c].outbox = NoEvent] BY DEF AppendEvent
<1>4. run'[c].outbox = NoEvent /\ \A d \in Callers : d # c => run'[d] = run[d]
  BY <1>1, <1>3 DEF IInv, TypeOK, Runs
<1> DEFINE o == run[c].outbox
<1> HIDE DEF o
<1>5. log' = Append(log, o) /\ o \in Events BY <1>1, <1>2 DEF o
<1>6. /\ Len(log) \in Nat /\ DOMAIN log = 1..Len(log) /\ DOMAIN log' = 1..(Len(log) + 1)
      /\ log'[Len(log) + 1] = o
      /\ \A i \in DOMAIN log : log'[i] = log[i]
  BY <1>1, <1>5
<1>7. /\ \A i \in DOMAIN log : i \in DOMAIN log'
      /\ \A i \in DOMAIN log' : i \in DOMAIN log \/ i = Len(log) + 1
  BY <1>6
<1> QED BY <1>2, <1>4, <1>6, <1>7 DEF o

\* Every step appends an event once.
LEMMA OnceStep ==
  ASSUME IInv, Numbered, Explained, LogOnce, [Next]_vars
  PROVE  LogOnce'
<1>1. ASSUME NEW c \in Callers, NEW e \in Events, Emits(c, e) PROVE LogOnce'
  <2> DEFINE q == Stamped(e)
  <2>1. /\ log' = log /\ run'[c].outbox = q /\ run[c].outbox = NoEvent
        /\ \A d \in Callers : d # c => run'[d] = run[d]
    BY <1>1 DEF Emits
  <2>2. q.revision = st.revision + 1 BY StampedIs DEF IInv, TypeOK
  <2> HIDE DEF q
  <2>3. q \notin Emitted BY <2>2, LoggedIs
  <2>4. /\ \A i \in DOMAIN log : log[i] # q
        /\ \A d \in Callers : run[d].outbox # NoEvent => run[d].outbox # q
    BY <2>3, LoggedIs
  <2>5. \A d \in Callers, i \in DOMAIN log' : run'[d].outbox # log'[i]
    <3> SUFFICES ASSUME NEW d \in Callers, NEW i \in DOMAIN log
                 PROVE  run'[d].outbox # log[i]
      BY <2>1
    <3>1. CASE d = c BY <2>1, <2>4, <3>1
    <3>2. CASE d # c BY <2>1, <3>2 DEF LogOnce
    <3> QED BY <3>1, <3>2
  <2>6. \A d, f \in Callers :
          run'[d].outbox = run'[f].outbox => d = f \/ run'[d].outbox = NoEvent
    <3> SUFFICES ASSUME NEW d \in Callers, NEW f \in Callers, d # f,
                        run'[d].outbox = run'[f].outbox
                 PROVE  run'[d].outbox = NoEvent
      OBVIOUS
    <3>1. CASE d = c
      <4>1. run'[f] = run[f] /\ run[f].outbox = q BY <2>1, <3>1
      <4> QED BY <2>4, <4>1, <3>1, <2>1
    <3>2. CASE f = c
      <4>1. run'[d] = run[d] /\ run[d].outbox = q BY <2>1, <3>2
      <4> QED BY <2>4, <4>1
    <3>3. CASE d # c /\ f # c BY <2>1, <3>3 DEF LogOnce
    <3> QED BY <3>1, <3>2, <3>3
  <2>7. \A i, j \in DOMAIN log' : log'[i] = log'[j] => i = j BY <2>1 DEF LogOnce
  <2> QED BY <2>5, <2>6, <2>7 DEF LogOnce
<1>2. ASSUME NEW c \in Callers, Passes(c) PROVE LogOnce'
  <2>1. log' = log /\ \A d \in Callers : run'[d].outbox = run[d].outbox
    BY <1>2 DEF Passes
  <2> QED BY <2>1 DEF LogOnce
<1>3. CASE Stands
  <2>1. CASE UNCHANGED <<log, run>> BY <2>1 DEF LogOnce
  <2>2. ASSUME NEW c \in Callers, AppendEvent(c) PROVE LogOnce'
    <3> DEFINE n == Len(log) + 1
    <3>1. /\ log'[n] = run[c].outbox /\ run[c].outbox # NoEvent
          /\ \A i \in DOMAIN log : log'[i] = log[i]
          /\ \A i \in DOMAIN log' : i \in DOMAIN log \/ i = n
          /\ run'[c].outbox = NoEvent
          /\ \A d \in Callers : d # c => run'[d] = run[d]
      BY <2>2, AppendIs
    <3> HIDE DEF n
    <3>2. \A i, j \in DOMAIN log' : log'[i] = log'[j] => i = j BY <3>1 DEF LogOnce
    <3>3. ASSUME NEW d \in Callers, NEW i \in DOMAIN log' PROVE run'[d].outbox # log'[i]
      <4>1. CASE d = c BY <3>1, <4>1, LoggedIs
      <4>2. CASE d # c BY <3>1, <4>2 DEF LogOnce
      <4> QED BY <4>1, <4>2
    <3>4. \A d, f \in Callers :
            run'[d].outbox = run'[f].outbox => d = f \/ run'[d].outbox = NoEvent
      BY <3>1 DEF LogOnce
    <3> QED BY <3>2, <3>3, <3>4 DEF LogOnce
  <2> QED BY <1>3, <2>1, <2>2 DEF Stands
<1> QED BY <1>1, <1>2, <1>3, StepSorts

---------------------------------------------------------------------------

\* The dispatches counted are finitely many; one dispatch more is one more.
LEMMA DispatchesAre ==
  ASSUME IInv, Numbered, NEW caps
  PROVE  /\ IsFiniteSet(Dispatches(caps)) /\ Spent(caps) \in Nat
         /\ st.revision + 1 \notin Dispatches(caps)
         /\ Started = {} => Spent(caps) = 0
<1>1. Dispatches(caps) \subseteq 1..st.revision /\ st.revision \in Nat
        /\ st.revision + 1 \notin Dispatches(caps)
  BY LoggedIs DEF Dispatches, Started
<1>2. IsFiniteSet(Dispatches(caps))
  <2> DEFINE n == st.revision
             D == Dispatches(caps)
  <2>1. 1 \in Int /\ n \in Int /\ D \subseteq 1..n BY <1>1
  <2> HIDE DEF n, D
  <2>2. IsFiniteSet(1..n) BY <2>1, FS_Interval
  <2>3. IsFiniteSet(D) BY <2>1, <2>2, FS_Subset
  <2> QED BY <2>3 DEF D
<1>3. Spent(caps) \in Nat BY <1>2, FS_CardinalityType DEF Spent
<1>4. Started = {} => Dispatches(caps) = {} BY DEF Dispatches
<1> QED BY <1>1, <1>2, <1>3, <1>4, FS_EmptySet DEF Spent

\* What a dispatch adds to the count of a set of capabilities.
LEMMA DispatchCounts ==
  ASSUME IInv, Numbered, NEW e \in Events, e.kind = "step.started",
         Emitted' = Emitted \cup {Stamped(e)}, NEW caps
  PROVE  Spent(caps)' = IF e.cap \in caps THEN Spent(caps) + 1 ELSE Spent(caps)
<1> DEFINE q == Stamped(e)
<1>1. Started' = Started \cup {q} BY StartedIs
<1>2. q.revision = st.revision + 1 /\ q.cap = e.cap BY StampedIs DEF IInv, TypeOK
<1> HIDE DEF q
<1>3. \A n : n \in Dispatches(caps)' <=> n \in Dispatches(caps) \/ (e.cap \in caps /\ n = q.revision)
  BY <1>1, <1>2 DEF Dispatches
<1>4. CASE e.cap \in caps
  <2>1. Dispatches(caps)' = Dispatches(caps) \cup {q.revision} BY <1>3, <1>4
  <2> DEFINE D == Dispatches(caps)
             n == q.revision
  <2>2. D' = D \cup {n} BY <2>1
  <2>3. IsFiniteSet(D) /\ n \notin D BY <1>2, DispatchesAre
  <2>4. Spent(caps)' = Cardinality(D') /\ Spent(caps) = Cardinality(D) BY DEF Spent
  <2> HIDE DEF D, n
  <2>5. Cardinality(D \cup {n}) = Cardinality(D) + 1 BY <2>3, FS_AddElement
  <2>6. Cardinality(D') = Cardinality(D) + 1 BY <2>2, <2>5
  <2> QED BY <1>4, <2>4, <2>6
<1>5. CASE e.cap \notin caps
  <2>1. Dispatches(caps)' = Dispatches(caps) BY <1>3, <1>5
  <2> QED BY <1>5, <2>1 DEF Spent
<1> QED BY <1>4, <1>5

\* The bounds of a request are integers, and so are the counts of the state.
LEMMA CountsType ==
  ASSUME IInv
  PROVE  /\ st.steps \in Nat /\ \A cap \in Capabilities : st.perCap[cap] \in Nat
         /\ x \in Requests => x.spec.budget.steps \in Int /\ x.spec.budget.perCap \in Int
BY EngineAssumption DEF IInv, TypeOK, States, RequestShape

\* A step is only dispatched with room in the budget.
LEMMA DispatchHasRoom ==
  ASSUME NEW c \in Callers, NEW e, Emits(c, e), e.kind = "step.started"
  PROVE  Allows(x.spec.budget, st, StepOf(c).cap) /\ e.cap = StepOf(c).cap
<1>1. PICK a \in Runs : Emission(c, e, a) BY DEF Emits
<1>2. EmitsDispatch(c, e, a) BY <1>1, EmissionsAre DEF Emission
<1>3. DispatchRefusal(StepOf(c)) = None /\ e.cap = StepOf(c).cap
  BY <1>2, EmissionsAre DEF EmitsDispatch
<1> QED BY <1>3 DEF DispatchRefusal, None

\* capability.invoked charges the step it names.
LEMMA InvokedCharges ==
  ASSUME NEW r, NEW s \in States, NEW e, e.kind = "capability.invoked",
         NEW n, n = Reduced(r, s, e), NEW k, k = StepAt(r.spec, e.step).cap, k \in Capabilities
  PROVE  /\ n.steps = s.steps + 1
         /\ \A cap \in Capabilities :
              n.perCap[cap] = IF cap = k THEN s.perCap[cap] + 1 ELSE s.perCap[cap]
<1> DEFINE next == [s EXCEPT !.revision = @ + 1]
           m    == Charge(next, k, e.bytes)
<1>1. next.steps = s.steps /\ next.perCap = s.perCap
        /\ {"steps", "perCap", "bytes", "provider"} \subseteq DOMAIN next
  BY DEF States
<1>2. n = [m EXCEPT !.provider = IF e.axis \in {None, "INVOKED"} THEN @ ELSE e.axis]
  BY DEF Reduced
<1> HIDE DEF next
<1>3. m.steps = s.steps + 1 /\ m.perCap = [s.perCap EXCEPT ![k] = @ + 1]
  BY <1>1 DEF Charge
<1> HIDE DEF m
<1>4. n.steps = s.steps + 1 /\ n.perCap = [s.perCap EXCEPT ![k] = @ + 1] BY <1>2, <1>3
<1>5. s.perCap \in [Capabilities -> Nat] BY DEF States
<1> QED BY <1>4, <1>5

\* The counts of the runner, and the bounds, when nothing was dispatched before.
LEMMA NothingSpent ==
  ASSUME IInv, Numbered, Started = {}, NEW caps
  PROVE  Spent(caps) = 0
BY DispatchesAre

\* Every step keeps the account and the bounds.
LEMMA BudgetStep ==
  ASSUME IInv, Numbered, Explained, OneRunner, WithinBudget, [Next]_vars, IInv', Numbered'
  PROVE  WithinBudget'
<1>1. ASSUME NEW c \in Callers, NEW e \in Events, Emits(c, e) PROVE WithinBudget'
  <2> DEFINE b == x.spec.budget
  <2>1. /\ x \in Requests /\ UNCHANGED x /\ Hop(run[c].pc, e.kind, run'[c].pc)
        /\ Emitted' = Emitted \cup {Stamped(e)} /\ run'[c].step = run[c].step
        /\ Accepts(x, st, e) /\ st' = Reduced(x, st, e)
        /\ \A d \in Callers : d # c => run'[d] = run[d]
    BY <1>1 DEF Emits
  <2>2. Changes(x, st, e, st') BY <2>1, ReducedIs DEF IInv, TypeOK
  <2>3. x # NoRequest BY <2>1, AdmittedShape
  <2>4. \A d \in Callers : run'[d].pc \in ActivePCs =>
          Active(d) \/ (d = c /\ st.status = "ADMITTED" /\ run'[c].pc = "check")
    BY <1>1, RunnerAfterEmission
  <2>5. /\ \A d \in Callers : d # c => StepOf(d)' = StepOf(d)
        /\ StepOf(c)' = StepOf(c)
    BY <2>1 DEF StepOf, Program
  <2>6. \A d \in Callers : \A caps : d # c => Owes(d, caps)' = Owes(d, caps)
    BY <2>1, <2>5 DEF Owes
  <2>7. CASE e.kind \notin {"step.started", "capability.invoked"}
    <3>1. \A caps : Spent(caps)' = Spent(caps)
      <4>1. Started' = Started BY <2>1, <2>7, StartedIs
      <4> QED BY <4>1 DEF Spent, Dispatches
    <3>2. st'.steps = st.steps /\ st'.perCap = st.perCap BY <2>2, <2>7 DEF Changes
    <3>3. ASSUME NEW d \in Callers, run'[d].pc \in ActivePCs, NEW caps
          PROVE  \/ Spent(caps) = 0
                 \/ Active(d) /\ Owes(d, caps) = Owes(d, caps)'
      <4>1. CASE st.status = "ADMITTED" BY <4>1, NothingSpent DEF OneRunner
      <4>2. CASE Active(d) /\ d # c BY <2>6, <4>2
      <4>3. CASE Active(d) /\ d = c
        <5>1. run[c].pc \notin {"invoke", "evaluate"} /\ run'[c].pc \notin {"invoke", "evaluate"}
          BY <2>1, <2>7, <3>3, <4>3 DEF Hop, ActivePCs
        <5> QED BY <4>3, <5>1 DEF Owes
      <4> QED BY <2>4, <3>3, <4>1, <4>2, <4>3
    <3>4. \A d \in Callers : \A caps : Owes(d, caps)' \in {0, 1} BY DEF Owes
    <3>5. ASSUME NEW d \in Callers, run'[d].pc \in ActivePCs
          PROVE  /\ Spent(Capabilities) <= st.steps + Owes(d, Capabilities)'
                 /\ \A cap \in Capabilities :
                      Spent({cap}) <= st.perCap[cap] + Owes(d, {cap})'
      <4>1. Spent(Capabilities) <= st.steps + Owes(d, Capabilities)'
        BY <3>3, <3>4, <3>5, CountsType DEF WithinBudget
      <4>2. ASSUME NEW cap \in Capabilities
            PROVE  Spent({cap}) <= st.perCap[cap] + Owes(d, {cap})'
        BY <3>3, <3>4, <3>5, CountsType DEF WithinBudget
      <4> QED BY <4>1, <4>2
    <3> QED BY <2>1, <2>3, <3>1, <3>2, <3>5 DEF WithinBudget, Active
  <2>8. CASE e.kind = "step.started"
    <3>1. run[c].pc = "dispatch" /\ run'[c].pc = "invoke" BY <2>1, <2>8 DEF Hop
    <3>2. StepOf(c).cap \in Capabilities BY <3>1, AtWork DEF StepPCs
    <3>3. Allows(b, st, StepOf(c).cap) /\ e.cap = StepOf(c).cap BY <1>1, <2>8, DispatchHasRoom
    <3>4. \A caps : Spent(caps)' = IF StepOf(c).cap \in caps THEN Spent(caps) + 1 ELSE Spent(caps)
      BY <2>1, <2>8, <3>3, DispatchCounts
    <3>5. \A caps : Spent(caps) \in Nat BY DispatchesAre
    <3>6. \A caps : Owes(c, caps) = 0 BY <3>1 DEF Owes
    <3>7. \A caps : Owes(c, caps)' = IF StepOf(c).cap \in caps THEN 1 ELSE 0
      BY <2>5, <3>1 DEF Owes
    <3>8. st'.steps = st.steps /\ st'.perCap = st.perCap BY <2>2, <2>8 DEF Changes
    <3>9. /\ Spent(Capabilities) <= st.steps
          /\ \A cap \in Capabilities : Spent({cap}) <= st.perCap[cap]
      BY <3>1, <3>6, CountsType DEF WithinBudget, Active, ActivePCs
    <3>10. \A d \in Callers : run'[d].pc \in ActivePCs => d = c
      BY <1>1, <2>8, <3>1, RunnerAfterEmission
    <3>11. /\ Spent(Capabilities)' <= st.steps + Owes(c, Capabilities)'
           /\ \A cap \in Capabilities : Spent({cap})' <= st.perCap[cap] + Owes(c, {cap})'
      BY <3>2, <3>4, <3>5, <3>7, <3>9, CountsType
    <3>12. b.steps > 0 => Spent(Capabilities)' <= b.steps
      BY <2>1, <3>2, <3>3, <3>4, <3>5, <3>9, CountsType DEF Allows
    <3>13. b.perCap > 0 => \A cap \in Capabilities : Spent({cap})' <= b.perCap
      <4> SUFFICES ASSUME b.perCap > 0, NEW cap \in Capabilities PROVE Spent({cap})' <= b.perCap
        OBVIOUS
      <4>1. CASE cap = StepOf(c).cap
        BY <2>1, <3>3, <3>4, <3>5, <3>9, <4>1, CountsType DEF Allows
      <4>2. CASE cap # StepOf(c).cap
        <5>1. Spent({cap})' = Spent({cap}) BY <3>4, <4>2
        <5> QED BY <2>3, <5>1 DEF WithinBudget
      <4> QED BY <4>1, <4>2
    <3> QED BY <2>1, <3>8, <3>10, <3>11, <3>12, <3>13 DEF WithinBudget, Active
  <2>9. CASE e.kind = "capability.invoked"
    <3>1. run[c].pc = "evaluate" /\ run'[c].pc = "evidence" BY <2>1, <2>9 DEF Hop
    <3>2. StepOf(c).cap \in Capabilities /\ run[c].step \in DOMAIN Program
      BY <3>1, AtWork DEF StepPCs, RunOK
    <3>3. e.step = StepOf(c).id
      <4>1. PICK a \in Runs : Emission(c, e, a) BY <1>1 DEF Emits
      <4> QED BY <2>9, <4>1, EmissionsAre DEF Emission
    <3>4. StepAt(x.spec, e.step).cap = StepOf(c).cap BY <2>1, <3>2, <3>3, IndexIs DEF StepOf
    <3>5. /\ st'.steps = st.steps + 1
          /\ \A cap \in Capabilities :
               st'.perCap[cap] = IF cap = StepOf(c).cap THEN st.perCap[cap] + 1
                                 ELSE st.perCap[cap]
      <4> DEFINE k == StepOf(c).cap
                 n == st'
      <4>1. st \in States /\ n = Reduced(x, st, e) /\ k = StepAt(x.spec, e.step).cap
            /\ k \in Capabilities
        BY <2>1, <3>2, <3>4 DEF IInv, TypeOK
      <4> HIDE DEF k, n
      <4>2. /\ n.steps = st.steps + 1
            /\ \A cap \in Capabilities :
                 n.perCap[cap] = IF cap = k THEN st.perCap[cap] + 1 ELSE st.perCap[cap]
        BY <2>9, <4>1, InvokedCharges
      <4> QED BY <4>2 DEF k, n
    <3>6. \A caps : Spent(caps)' = Spent(caps) /\ Spent(caps) \in Nat
      <4>1. Started' = Started BY <2>1, <2>9, StartedIs
      <4> QED BY <4>1, DispatchesAre DEF Spent, Dispatches
    <3>7. \A caps : Owes(c, caps)' = 0 BY <3>1 DEF Owes
    <3>8. \A caps : Owes(c, caps) = IF StepOf(c).cap \in caps THEN 1 ELSE 0 BY <3>1 DEF Owes
    <3>9. /\ Spent(Capabilities) <= st.steps + Owes(c, Capabilities)
          /\ \A cap \in Capabilities : Spent({cap}) <= st.perCap[cap] + Owes(c, {cap})
      BY <3>1 DEF WithinBudget, Active, ActivePCs
    <3>10. \A d \in Callers : run'[d].pc \in ActivePCs => d = c
      BY <1>1, <2>9, <3>1, RunnerAfterEmission
    <3>11. Spent(Capabilities)' <= st'.steps + Owes(c, Capabilities)'
      BY <3>2, <3>5, <3>6, <3>7, <3>8, <3>9, CountsType
    <3>12. ASSUME NEW cap \in Capabilities
           PROVE  Spent({cap})' <= st'.perCap[cap] + Owes(c, {cap})'
      <4>1. Spent({cap})' = Spent({cap}) /\ Owes(c, {cap})' = 0 /\ st.perCap[cap] \in Nat
            /\ Spent({cap}) \in Nat
        BY <3>6, <3>7, CountsType
      <4>2. Spent({cap}) <= st.perCap[cap] + Owes(c, {cap}) BY <3>9
      <4>3. CASE cap = StepOf(c).cap
        <5>1. Owes(c, {cap}) = 1 BY <3>8, <4>3
        <5> QED BY <3>5, <4>1, <4>2, <4>3, <5>1
      <4>4. CASE cap # StepOf(c).cap
        <5>1. Owes(c, {cap}) = 0 BY <3>8, <4>4
        <5> QED BY <3>5, <4>1, <4>2, <4>4, <5>1
      <4> QED BY <4>3, <4>4
    <3> QED BY <2>1, <2>3, <3>6, <3>10, <3>11, <3>12 DEF WithinBudget, Active
  <2> QED BY <2>7, <2>8, <2>9
<1>2. ASSUME NEW c \in Callers, Passes(c) PROVE WithinBudget'
  <2>1. /\ \A d \in Callers : d # c => run'[d] = run[d]
        /\ UNCHANGED <<x, st>> /\ \A caps : Spent(caps)' = Spent(caps)
    BY <1>2 DEF Passes, Spent, Dispatches, Started
  <2>2. ASSUME NEW d \in Callers, run'[d].pc \in ActivePCs
        PROVE  Active(d) /\ \A caps : Owes(d, caps)' = Owes(d, caps)
    <3>1. CASE d # c BY <2>1, <2>2, <3>1 DEF Active, Owes, StepOf, Program
    <3>2. CASE d = c
      <4>1. \/ run[c].pc = "invoke" /\ run'[c].pc = "evaluate" /\ run'[c].step = run[c].step
            \/ /\ Active(c) /\ run[c].pc \notin {"invoke", "evaluate"}
               /\ run'[c].pc \notin {"invoke", "evaluate"}
        BY <1>2, <2>2, <3>2, PassesOn DEF Active, ActivePCs
      <4> QED BY <2>1, <3>2, <4>1 DEF Active, ActivePCs, Owes, StepOf, Program
    <3> QED BY <3>1, <3>2
  <2> QED BY <2>1, <2>2 DEF WithinBudget, Active
<1>3. CASE Stands
  <2>1. /\ \A d \in Callers : run'[d].pc = run[d].pc /\ run'[d].step = run[d].step
        /\ st' = st /\ Started' = Started
        /\ x' = x \/ (Emitted = {} /\ x' \in Requests)
    BY <1>3 DEF Stands, Started
  <2>2. \A caps : Spent(caps)' = Spent(caps) BY <2>1 DEF Spent, Dispatches
  <2>3. CASE x' = x
    <3>1. \A d \in Callers : \A caps : Owes(d, caps)' = Owes(d, caps)
      BY <2>1, <2>3 DEF Owes, StepOf, Program
    <3> QED BY <2>1, <2>2, <2>3, <3>1 DEF WithinBudget, Active
  <2>4. CASE Emitted = {} /\ x' \in Requests
    <3>1. Started = {} BY <2>4 DEF Started
    <3>2. \A caps : Spent(caps)' = 0 BY <2>2, <3>1, NothingSpent
    <3>3. \A d \in Callers : \A caps : Owes(d, caps)' \in {0, 1} BY DEF Owes
    <3>4. x'.spec.budget.steps \in Int /\ x'.spec.budget.perCap \in Int
      BY <2>4, EngineAssumption DEF RequestShape
    <3> QED BY <2>1, <3>2, <3>3, <3>4, CountsType DEF WithinBudget
  <2> QED BY <2>1, <2>3, <2>4
<1> QED BY <1>1, <1>2, <1>3, StepSorts

---------------------------------------------------------------------------

DispatchInv == OneRunner /\ InOrder /\ WithinBudget /\ LogOnce

\* At first nothing is dispatched.
LEMMA InitDispatch == Init => DispatchInv
<1> SUFFICES ASSUME Init PROVE DispatchInv OBVIOUS
<1>1. log = <<>> /\ x = NoRequest /\ effects = {} BY DEF Init
<1>2. \A c \in Callers : run[c].outbox = NoEvent /\ run[c].pc = "idle" BY DEF Init, Idle
<1>3. Emitted = {} /\ Started = {} BY <1>1, <1>2 DEF Emitted, Started
<1>4. \A c \in Callers : ~Active(c) BY <1>2 DEF Active, ActivePCs
<1>5. OneRunner BY <1>1, <1>3, <1>4 DEF OneRunner
<1>6. InOrder BY <1>3 DEF InOrder
<1>7. WithinBudget BY <1>1, <1>4 DEF WithinBudget
<1>8. LogOnce BY <1>1, <1>2 DEF LogOnce
<1> QED BY <1>5, <1>6, <1>7, <1>8 DEF DispatchInv

\* Every step keeps the invariants of dispatch.
LEMMA DispatchStep ==
  IInv /\ RecordInv /\ DispatchInv /\ [Next]_vars /\ IInv' /\ RecordInv' => DispatchInv'
BY RunnerStep, OrderStep, BudgetStep, OnceStep DEF DispatchInv, RecordInv

\* One caller runs the program, in order, within the bounds, and every event is
\* appended once.
THEOREM Dispatched == Spec => []DispatchInv
<1>1. Init => DispatchInv BY InitDispatch
<1>2. IInv /\ RecordInv /\ DispatchInv /\ [Next]_vars /\ IInv' /\ RecordInv' => DispatchInv'
  BY DispatchStep
<1> QED BY <1>1, <1>2, Invariance, RecordKept, PTL DEF Spec

\* Nothing is emitted before a request is admitted.
LEMMA EmittedMeansAdmitted == IInv /\ Numbered /\ Emitted # {} => x \in Requests
<1> SUFFICES ASSUME IInv, Numbered, x = NoRequest PROVE Emitted = {}
  BY DEF IInv, TypeOK
<1>1. st.revision = 0 /\ 1..0 = {} BY DEF IInv, Blank, InitialState
<1> QED BY <1>1 DEF Numbered, NumberedTo

\* Steps are dispatched once, in program order (StepsDispatchedOnceInOrder).
LEMMA OrderIsKept == IInv /\ RecordInv /\ DispatchInv => StepsDispatchedOnceInOrder
<1> SUFFICES ASSUME IInv, RecordInv, DispatchInv, NEW d \in Started, NEW e \in Started
             PROVE  /\ d.step = e.step => d = e
                    /\ d.revision < e.revision =>
                         StepIndex(x.spec, d.step) < StepIndex(x.spec, e.step)
  BY DEF StepsDispatchedOnceInOrder, Started
<1>1. Numbered /\ InOrder BY DEF RecordInv, DispatchInv
<1>2. d \in Emitted /\ e \in Emitted BY DEF Started
<1>3. x \in Requests BY <1>1, <1>2, EmittedMeansAdmitted
<1>4. Index(d) \in Nat /\ Index(e) \in Nat BY <1>1, <1>3, IndexType
<1>5. d.revision \in Nat /\ e.revision \in Nat BY <1>1, <1>2, LoggedIs
<1>6. d.revision < e.revision => Index(d) < Index(e) BY <1>1 DEF InOrder
<1>7. e.revision < d.revision => Index(e) < Index(d) BY <1>1 DEF InOrder
<1>8. ASSUME d.step = e.step PROVE d = e
  <2>1. Index(d) = Index(e) BY <1>8 DEF Index
  <2>2. d.revision = e.revision BY <1>4, <1>5, <1>6, <1>7, <2>1
  <2> QED BY <1>1, <1>2, <2>2 DEF Numbered, NumberedTo
<1> QED BY <1>6, <1>8 DEF Index

\* Each step of the program is dispatched at most once, in program order, for any
\* program and any number of callers that race into Run.
THEOREM StepsInOrder == Spec => []StepsDispatchedOnceInOrder
<1> QED BY Invariance, RecordKept, Dispatched, OrderIsKept, PTL

\* A logged dispatch is a dispatch: as many in the log, at most, as were made.
LEMMA LoggedDispatches ==
  ASSUME IInv, Numbered, LogOnce, NEW caps
  PROVE  Cardinality({i \in InLog("step.started") : log[i].cap \in caps}) <= Spent(caps)
<1> DEFINE S == {i \in InLog("step.started") : log[i].cap \in caps}
           T == Dispatches(caps)
           f == [i \in S |-> log[i].revision]
<1>1. \A i \in S : /\ i \in DOMAIN log /\ log[i] \in Emitted
                   /\ log[i].kind = "step.started" /\ log[i].cap \in caps
  BY LoggedIs DEF InLog
<1>2. \A i \in S : f[i] = log[i].revision OBVIOUS
<1>3. \A i \in S : log[i].revision \in T BY <1>1 DEF Dispatches, Started
<1>4. f \in [S -> T] BY <1>3
<1>5. ASSUME NEW i \in S, NEW j \in S, f[i] = f[j] PROVE i = j
  <2>1. log[i].revision = log[j].revision BY <1>2, <1>5
  <2>2. log[i] = log[j] BY <1>1, <2>1 DEF Numbered, NumberedTo
  <2> QED BY <1>1, <2>2 DEF LogOnce
<1>6. IsFiniteSet(T) BY DispatchesAre
<1> HIDE DEF S, T, f
<1>7. f \in Injection(S, T) BY <1>4, <1>5 DEF Injection, IsInjective
<1>8. Cardinality(S) <= Cardinality(T) BY <1>6, <1>7, FS_Injection
<1> QED BY <1>8 DEF S, T, Spent

\* The declared bounds hold for the steps dispatched (DispatchWithinBudget).
LEMMA BoundsAreKept == IInv /\ RecordInv /\ DispatchInv => DispatchWithinBudget
<1> SUFFICES ASSUME IInv, RecordInv, DispatchInv, x # NoRequest PROVE DispatchWithinBudget
  BY DEF DispatchWithinBudget
<1> DEFINE b == x.spec.budget
           N(caps) == Cardinality({i \in InLog("step.started") : log[i].cap \in caps})
<1>1. Numbered /\ LogOnce /\ WithinBudget BY DEF RecordInv, DispatchInv
<1>2. x \in Requests BY DEF IInv, TypeOK
<1>3. b.steps \in Int /\ b.perCap \in Int BY <1>2, CountsType
<1>4. \A caps : N(caps) <= Spent(caps) /\ Spent(caps) \in Nat /\ N(caps) \in Nat
  <2> SUFFICES ASSUME NEW caps PROVE N(caps) <= Spent(caps) /\ Spent(caps) \in Nat /\ N(caps) \in Nat
    OBVIOUS
  <2>1. N(caps) <= Spent(caps) /\ Spent(caps) \in Nat BY <1>1, LoggedDispatches, DispatchesAre
  <2>2. N(caps) \in Nat
    <3> DEFINE S == {i \in InLog("step.started") : log[i].cap \in caps}
               m == Len(log)
    <3>1. log \in Seq(Events) BY DEF IInv, TypeOK
    <3>2. DOMAIN log = 1..m /\ m \in Int /\ 1 \in Int BY <3>1
    <3>3. S \subseteq 1..m BY <3>2 DEF InLog
    <3> HIDE DEF S, m
    <3>4. IsFiniteSet(1..m) BY <3>2, FS_Interval
    <3>5. IsFiniteSet(S) BY <3>3, <3>4, FS_Subset
    <3>6. Cardinality(S) \in Nat BY <3>5, FS_CardinalityType
    <3> QED BY <3>6 DEF S
  <2> QED BY <2>1, <2>2
<1>5. /\ b.steps > 0 => Spent(Capabilities) <= b.steps
      /\ b.perCap > 0 => \A cap \in Capabilities : Spent({cap}) <= b.perCap
  BY <1>1 DEF WithinBudget
<1>6. /\ b.steps > 0 => N(Capabilities) <= b.steps
      /\ b.perCap > 0 => \A cap \in Capabilities : N({cap}) <= b.perCap
  <2> HIDE DEF N, b
  <2> QED BY <1>3, <1>4, <1>5
<1> QED BY <1>6 DEF DispatchWithinBudget

\* The declared bounds hold for the steps dispatched, whatever fails after the
\* dispatch and whoever else runs.
THEOREM BudgetKept == Spec => []DispatchWithinBudget
<1> QED BY Invariance, RecordKept, Dispatched, BoundsAreKept, PTL

-----------------------------------------------------------------------------
(***************************************************************************)
(* Neither kind of verdict comes without what it rests on.  An execution   *)
(* that finishes has recorded every change it made: the runner gets past   *)
(* its evidence only with the change recorded, and finishes only after.    *)
(* One that settles PROVEN has met its contract, and where a check was     *)
(* required the log shows it made, after the last of the evidence.         *)
(***************************************************************************)

(***************************************************************************)
(* The effects: only the runner, between the invocation and the evidence,  *)
(* has changed something the evidence does not record yet.                 *)
(***************************************************************************)
RecordedIn(e, records) ==
  \E rec \in records : MutatingKind(rec.kind) /\ rec.target = e.target /\ rec.cap = e.cap

Recorded == \A e \in effects : RecordedIn(e, st.evidence)
NoRunner == \A c \in Callers : ~Active(c)

EffectsRecorded ==
  /\ \A c \in Callers : Active(c) => \A e \in effects :
       \/ RecordedIn(e, st.evidence)
       \/ /\ run[c].pc = "evaluate" /\ Reported(StepOf(c), run[c].obs)
          /\ e.target = StepOf(c).target /\ e.cap = StepOf(c).cap
       \/ run[c].pc = "evidence" /\ RecordedIn(e, RecordsOf(c))
  /\ \A c \in Callers : run[c].pc = "settle" =>
       Settled \/ (st.status # "ADMITTED" /\ NoRunner /\ Recorded)
  /\ (\E e \in Emitted : e.kind = "execution.finished") => Settled /\ NoRunner /\ Recorded

(***************************************************************************)
(* The verdict: a required check begins after the last evidence, and ends. *)
(***************************************************************************)
BegunAt(i) == i \in InLog("verification.started") /\ \A j \in InLog("evidence.produced") : j < i

CheckBegun == \E i \in InLog("verification.started") : BegunAt(i)
CheckMade ==
  \E i \in InLog("verification.started") :
    /\ BegunAt(i)
    /\ \/ \E j \in InLog("verification.passed") : i < j
       \/ NotApplicable(x.verifier, x.spec)

Outboxes ==
  \A c \in Callers :
    /\ run[c].outbox.kind = "evidence.produced" => run[c].pc = "mutation"
    /\ run[c].pc = "judge" /\ run[c].outbox # NoEvent =>
         run[c].outbox.kind = "verification.started"
    /\ run[c].pc = "verdict" => run[c].outbox = NoEvent

Earned ==
  /\ Outboxes
  /\ \A c \in Callers :
       /\ run[c].pc \in {"judge", "verdict"} /\ run[c].outbox = NoEvent => CheckBegun
       /\ run[c].pc = "verdict" /\ run[c].verdict = "NOT_APPLICABLE" =>
            NotApplicable(x.verifier, x.spec)
       /\ run[c].pc = "settle" /\ ~Settled /\ x.spec.reqVerify =>
            CheckMade \/ (CheckBegun /\ run[c].outbox.kind = "verification.passed")
       /\ run[c].result = "PROVEN" => st.terminal.outcome = "PROVEN"
  /\ st.terminal.outcome = "PROVEN" =>
       /\ Settled /\ NoRunner /\ Unmet(x.spec, st) = {} /\ ~Refuted(st)
       /\ x.spec.reqVerify => CheckMade
---------------------------------------------------------------------------

\* Evidence is only ever added, and evidence.produced adds what it carries.
LEMMA EvidenceGrows ==
  ASSUME IInv, NEW c \in Callers, NEW e \in Events, Emits(c, e)
  PROVE  \A f : /\ RecordedIn(f, st.evidence) => RecordedIn(f, st'.evidence)
                /\ e.kind = "evidence.produced" /\ RecordedIn(f, e.evidence) =>
                     RecordedIn(f, st'.evidence)
<1>1. /\ st \in States /\ Accepts(x, st, e) /\ st' = Reduced(x, st, e)
      /\ Hop(run[c].pc, e.kind, run'[c].pc)
  BY DEF Emits, IInv, TypeOK
<1>2. Changes(x, st, e, st') BY <1>1, ReducedIs
<1>3. CASE e.kind # "evidence.produced"
  <2>1. st'.evidence = st.evidence BY <1>2, <1>3 DEF Changes
  <2> QED BY <1>3, <2>1
<1>4. CASE e.kind = "evidence.produced"
  <2> DEFINE next == [st EXCEPT !.revision = @ + 1]
             new  == {[rec EXCEPT !.revision = st.revision + 1] : rec \in e.evidence}
  <2>1. next.evidence = st.evidence /\ "evidence" \in DOMAIN next BY <1>1 DEF States
  <2>2. st' = [next EXCEPT !.evidence = @ \cup new] BY <1>1, <1>4 DEF Reduced
  <2> HIDE DEF next, new
  <2>3. st'.evidence = st.evidence \cup new BY <2>1, <2>2
  <2>4. ASSUME NEW rec \in e.evidence
        PROVE  \E m \in new : m.kind = rec.kind /\ m.target = rec.target /\ m.cap = rec.cap
    <3>1. rec \in EvidenceRecords BY DEF Events
    <3> DEFINE m == [rec EXCEPT !.revision = st.revision + 1]
    <3>2. m \in new BY DEF new
    <3>3. m.kind = rec.kind /\ m.target = rec.target /\ m.cap = rec.cap
      BY <3>1 DEF EvidenceRecords
    <3> QED BY <3>2, <3>3
  <2> QED BY <2>3, <2>4 DEF RecordedIn
<1> QED BY <1>3, <1>4

\* A trusted observation of a change yields a record of it.
LEMMA TrustedIsRecorded ==
  ASSUME NEW c \in Callers, NEW e, NEW a, EmitsInvoked(c, e, a), NEW f,
         Reported(StepOf(c), run[c].obs), f.target = StepOf(c).target, f.cap = StepOf(c).cap
  PROVE  RecordedIn(f, RecordsOf(c))
<1>1. PICK g \in run[c].obs.facts : MutatingKind(g.kind) /\ g.target = StepOf(c).target
  BY DEF EmitsInvoked, Reported
<1> DEFINE rec == [kind |-> g.kind, step |-> StepOf(c).id, cap |-> StepOf(c).cap,
                   target |-> g.target, bytes |-> g.bytes,
                   verdict |-> run[c].obs.verdict, revision |-> 0]
<1>2. rec \in RecordsOf(c) BY DEF RecordsOf, Records
<1>3. rec.kind = g.kind /\ rec.target = g.target /\ rec.cap = StepOf(c).cap OBVIOUS
<1> QED BY <1>1, <1>2, <1>3 DEF RecordedIn

\* Every step keeps the effects accounted for.
LEMMA EffectsStep ==
  ASSUME IInv, Numbered, Explained, OneRunner, EffectsRecorded, [Next]_vars
  PROVE  EffectsRecorded'
<1>1. ASSUME NEW c \in Callers, NEW e \in Events, Emits(c, e) PROVE EffectsRecorded'
  <2> DEFINE q == Stamped(e)
  <2>1. /\ UNCHANGED <<x, effects>> /\ Hop(run[c].pc, e.kind, run'[c].pc)
        /\ Emitted' = Emitted \cup {q}
        /\ run'[c].step = run[c].step /\ run'[c].obs = run[c].obs
        /\ Accepts(x, st, e) /\ st' = Reduced(x, st, e)
        /\ \A d \in Callers : d # c => run'[d] = run[d]
    BY <1>1 DEF Emits
  <2>2. Changes(x, st, e, st') BY <2>1, ReducedIs DEF IInv, TypeOK
  <2>3. ~Settled BY <2>2 DEF Changes, Settled
  <2>4. /\ \A d \in Callers : run'[d].pc \in ActivePCs =>
              Active(d) \/ (d = c /\ st.status = "ADMITTED" /\ run'[c].pc = "check")
        /\ st'.status # "ADMITTED"
    BY <1>1, RunnerAfterEmission
  <2>5. \A d \in Callers : StepOf(d)' = StepOf(d) /\ RecordsOf(d)' = RecordsOf(d)
    BY <2>1 DEF StepOf, RecordsOf, Program
  <2>6. q.kind = e.kind BY StampedIs DEF IInv, TypeOK
  <2> HIDE DEF q
  <2>7. \A f : RecordedIn(f, st.evidence) => RecordedIn(f, st'.evidence)
    BY <1>1, EvidenceGrows
  <2>8. ASSUME NEW d \in Callers, run'[d].pc \in ActivePCs, NEW f \in effects
        PROVE  \/ RecordedIn(f, st'.evidence)
               \/ /\ run'[d].pc = "evaluate" /\ Reported(StepOf(d), run'[d].obs)
                  /\ f.target = StepOf(d).target /\ f.cap = StepOf(d).cap
               \/ run'[d].pc = "evidence" /\ RecordedIn(f, RecordsOf(d))
    <3>1. Active(d) BY <2>4, <2>8 DEF OneRunner
    <3>2. CASE d # c BY <2>1, <2>7, <3>1, <3>2 DEF EffectsRecorded
    <3>3. CASE d = c /\ run[c].pc = "evaluate"
      <4>1. e.kind = "capability.invoked" /\ run'[c].pc = "evidence"
        BY <2>1, <2>8, <3>3 DEF Hop, ActivePCs
      <4>2. PICK a \in Runs : Emission(c, e, a) BY <1>1 DEF Emits
      <4>3. EmitsInvoked(c, e, a) BY <4>1, <4>2, EmissionsAre DEF Emission
      <4>4. \/ RecordedIn(f, st.evidence)
            \/ /\ Reported(StepOf(c), run[c].obs)
               /\ f.target = StepOf(c).target /\ f.cap = StepOf(c).cap
        BY <3>1, <3>3 DEF EffectsRecorded
      <4> QED BY <2>7, <3>3, <4>1, <4>3, <4>4, TrustedIsRecorded
    <3>4. CASE d = c /\ run[c].pc = "evidence"
      <4>1. e.kind = "evidence.produced" BY <2>1, <3>4 DEF Hop
      <4>2. PICK a \in Runs : Emission(c, e, a) BY <1>1 DEF Emits
      <4>3. e.evidence = RecordsOf(c) BY <4>1, <4>2, EmissionsAre DEF Emission
      <4>4. RecordedIn(f, st.evidence) \/ RecordedIn(f, e.evidence)
        BY <3>1, <3>4, <4>3 DEF EffectsRecorded
      <4> QED BY <1>1, <4>1, <4>4, EvidenceGrows
    <3>5. CASE d = c /\ run[c].pc \notin {"evaluate", "evidence"}
      BY <2>7, <3>1, <3>5 DEF EffectsRecorded
    <3> QED BY <3>2, <3>3, <3>4, <3>5
  <2>9. NoRunner /\ st.status # "ADMITTED" => NoRunner'
    BY <2>4 DEF NoRunner, Active
  <2>10. Recorded => Recorded' BY <2>1, <2>7 DEF Recorded
  <2>11. ASSUME NEW d \in Callers, run'[d].pc = "settle"
         PROVE  st'.status # "ADMITTED" /\ NoRunner' /\ Recorded'
    <3>1. CASE d # c
      <4>1. st.status # "ADMITTED" /\ NoRunner /\ Recorded
        BY <2>1, <2>3, <2>11, <3>1 DEF EffectsRecorded
      <4> QED BY <2>4, <2>9, <2>10, <4>1
    <3>2. CASE d = c
      <4>1. run[c].pc \in {"verify", "verdict"} /\ Active(c)
        BY <2>1, <2>11, <3>2 DEF Hop, Active, ActivePCs
      <4>2. Recorded BY <4>1 DEF EffectsRecorded, Recorded
      <4>3. \A k \in Callers : run'[k].pc \notin ActivePCs
        BY <2>4, <2>11, <3>2, <4>1 DEF OneRunner, ActivePCs
      <4> QED BY <2>4, <2>10, <4>2, <4>3 DEF NoRunner, Active
    <3> QED BY <3>1, <3>2
  <2>12. ASSUME NEW f \in Emitted', f.kind = "execution.finished"
         PROVE  Settled' /\ NoRunner' /\ Recorded'
    <3>1. f = q /\ e.kind = "execution.finished"
      BY <2>1, <2>3, <2>6, <2>12 DEF EffectsRecorded
    <3>2. run[c].pc = "settle" BY <2>1, <3>1 DEF Hop
    <3>3. st.status # "ADMITTED" /\ NoRunner /\ Recorded
      BY <2>3, <3>2 DEF EffectsRecorded
    <3>4. Settled' BY <2>2, <3>1 DEF Changes, Settled
    <3> QED BY <2>9, <2>10, <3>3, <3>4
  <2> QED BY <2>1, <2>5, <2>8, <2>11, <2>12 DEF EffectsRecorded, Active
<1>2. ASSUME NEW c \in Callers, Passes(c) PROVE EffectsRecorded'
  <2>1. /\ UNCHANGED <<x, st>> /\ Emitted' = Emitted /\ Settled' = Settled
        /\ \A d \in Callers : d # c => run'[d] = run[d]
    BY <1>2 DEF Passes, Settled
  <2>2. run'[c].pc \in ActivePCs => Active(c) BY <1>2, PassesOn DEF Active, ActivePCs
  <2>3. ~Active(c) => effects' = effects
    <3>1. "invoke" \in ActivePCs BY DEF ActivePCs
    <3> QED BY <1>2, <3>1, PassesOn DEF Active
  <2>4. NoRunner => NoRunner' /\ effects' = effects
    BY <2>1, <2>2, <2>3 DEF NoRunner, Active
  <2>5. NoRunner /\ Recorded => NoRunner' /\ Recorded' BY <2>1, <2>4 DEF Recorded
  <2>6. \A d \in Callers : d # c => StepOf(d)' = StepOf(d) /\ RecordsOf(d)' = RecordsOf(d)
    BY <2>1 DEF StepOf, RecordsOf, Program
  <2>7. ASSUME NEW d \in Callers, run'[d].pc \in ActivePCs, NEW f \in effects'
        PROVE  \/ RecordedIn(f, st.evidence)
               \/ /\ run'[d].pc = "evaluate" /\ Reported(StepOf(d)', run'[d].obs)
                  /\ f.target = StepOf(d)'.target /\ f.cap = StepOf(d)'.cap
               \/ run'[d].pc = "evidence" /\ RecordedIn(f, RecordsOf(d)')
    <3>1. CASE d # c
      <4>1. Active(d) /\ ~Active(c) BY <2>1, <2>7, <3>1 DEF Active, OneRunner
      <4>2. f \in effects BY <2>3, <2>7, <4>1
      <4> QED BY <2>1, <2>6, <3>1, <4>1, <4>2 DEF EffectsRecorded
    <3>2. CASE d = c /\ run[c].pc = "invoke"
      <4>1. Active(c) BY <3>2 DEF Active, ActivePCs
      <4>2. \A g \in effects : RecordedIn(g, st.evidence) BY <3>2, <4>1 DEF EffectsRecorded
      <4>3. CASE f \in effects BY <4>2, <4>3
      <4>4. CASE f \notin effects
        <5>1. Invokes(c, run'[c]) BY <1>2, <2>7, <3>2, <4>4, PassesOn
        <5>2. PICK obs \in Observations :
                 /\ run'[c] = [run[c] EXCEPT !.pc = "evaluate", !.obs = obs]
                 /\ \/ effects' = effects
                    \/ /\ Reported(StepOf(c), obs)
                       /\ effects' = effects \cup {Effect(StepOf(c), ws[StepOf(c).target])}
          BY <5>1 DEF Invokes
        <5>3. run'[c].pc = "evaluate" /\ run'[c].obs = obs /\ run'[c].step = run[c].step
          BY <5>2 DEF IInv, TypeOK, Runs
        <5>4. Reported(StepOf(c), obs) /\ f = Effect(StepOf(c), ws[StepOf(c).target])
          BY <2>7, <4>4, <5>2
        <5>5. f.target = StepOf(c).target /\ f.cap = StepOf(c).cap BY <5>4 DEF Effect
        <5>6. StepOf(c)' = StepOf(c) BY <2>1, <5>3 DEF StepOf, Program
        <5> QED BY <3>2, <5>3, <5>4, <5>5, <5>6
      <4> QED BY <4>3, <4>4
    <3>3. CASE d = c /\ run[c].pc # "invoke"
      <4>1. effects' = effects /\ Active(c) BY <1>2, <2>2, <2>7, <3>3, PassesOn
      <4>2. run[c].pc # "evaluate" /\ (run[c].pc = "evidence" => RecordsOf(c) = {})
        BY <1>2, <2>7, <3>3, PassesOn DEF ActivePCs
      <4>3. \A g : ~RecordedIn(g, {}) BY DEF RecordedIn
      <4> QED BY <2>7, <4>1, <4>2, <4>3 DEF EffectsRecorded
    <3> QED BY <3>1, <3>2, <3>3
  <2>8. ASSUME NEW d \in Callers, run'[d].pc = "settle"
        PROVE  Settled \/ (st.status # "ADMITTED" /\ NoRunner' /\ Recorded')
    <3>1. CASE d = c BY <1>2, <2>8, <3>1, PassesOn
    <3>2. CASE d # c BY <2>1, <2>5, <2>8, <3>2 DEF EffectsRecorded
    <3> QED BY <3>1, <3>2
  <2>9. (\E f \in Emitted' : f.kind = "execution.finished") => Settled /\ NoRunner' /\ Recorded'
    BY <2>1, <2>5 DEF EffectsRecorded
  <2> QED BY <2>1, <2>7, <2>8, <2>9 DEF EffectsRecorded, Active
<1>3. CASE Stands
  <2>1. /\ \A d \in Callers : /\ run'[d].pc = run[d].pc /\ run'[d].step = run[d].step
                              /\ run'[d].obs = run[d].obs
        /\ UNCHANGED <<st, effects>> /\ Emitted' = Emitted /\ Settled' = Settled
        /\ x' = x \/ st.status = "ADMITTED"
    BY <1>3 DEF Stands, Settled, InitialState
  <2>2. NoRunner' = NoRunner /\ Recorded' = Recorded BY <2>1 DEF NoRunner, Active, Recorded
  <2>3. CASE x' = x
    <3>1. \A d \in Callers : StepOf(d)' = StepOf(d) /\ RecordsOf(d)' = RecordsOf(d)
      BY <2>1, <2>3 DEF StepOf, RecordsOf, Program
    <3> QED BY <2>1, <2>2, <3>1 DEF EffectsRecorded, Active
  <2>4. CASE st.status = "ADMITTED"
    <3>1. \A d \in Callers : ~Active(d)' BY <2>1, <2>4 DEF OneRunner, Active
    <3> QED BY <2>1, <2>2, <3>1 DEF EffectsRecorded
  <2> QED BY <2>1, <2>3, <2>4
<1> QED BY <1>1, <1>2, <1>3, StepSorts

---------------------------------------------------------------------------

\* The adjudication looks at the evidence, the mutation and the verification.
LEMMA AdjudicatedOn ==
  ASSUME NEW sp, NEW s, NEW n, n.evidence = s.evidence, n.mutation = s.mutation,
         n.verify = s.verify
  PROVE  Unmet(sp, n) = Unmet(sp, s) /\ Refuted(n) = Refuted(s)
<1>1. \A kind : Has(n, kind) = Has(s, kind) BY DEF Has
<1>2. \A kinds, t : Observed(n, kinds, t) = Observed(s, kinds, t) BY DEF Observed
<1>3. \A kinds : EveryTarget(sp, n, kinds) = EveryTarget(sp, s, kinds) BY <1>2 DEF EveryTarget
<1>4. \A clause \in Clauses : Met(sp, n, clause) = Met(sp, s, clause)
  BY <1>1, <1>3 DEF Met, Clauses
<1>5. Unmet(sp, n) = Unmet(sp, s) BY <1>4 DEF Unmet
<1>6. Refuted(n) = Refuted(s) BY DEF Refuted
<1> QED BY <1>5, <1>6

\* What is in the log stays in it, and what comes after evidence stays after it
\* unless it is evidence that is appended.
LEMMA AppendKeepsCheck ==
  ASSUME IInv, NEW c \in Callers, AppendEvent(c), run[c].outbox.kind # "evidence.produced"
  PROVE  /\ \A i : BegunAt(i) => BegunAt(i)' /\ i \in InLog("verification.started")'
         /\ CheckBegun => CheckBegun'
         /\ CheckMade => CheckMade'
<1> DEFINE n == Len(log) + 1
<1>1. /\ log'[n] = run[c].outbox
      /\ \A i \in DOMAIN log : log'[i] = log[i] /\ i \in DOMAIN log'
      /\ \A i \in DOMAIN log' : i \in DOMAIN log \/ i = n
  BY AppendIs
<1> HIDE DEF n
<1>2. \A kind, i : i \in InLog(kind) => i \in InLog(kind)' BY <1>1 DEF InLog
<1>3. \A j : j \in InLog("evidence.produced")' => j \in InLog("evidence.produced")
  BY <1>1 DEF InLog
<1>4. \A i : BegunAt(i) => BegunAt(i)' /\ i \in InLog("verification.started")'
  BY <1>2, <1>3 DEF BegunAt
<1>5. CheckBegun => CheckBegun' BY <1>4 DEF CheckBegun
<1>6. x' = x BY DEF AppendEvent
<1>7. CheckMade => CheckMade' BY <1>2, <1>4, <1>6 DEF CheckMade
<1> QED BY <1>4, <1>5, <1>7

\* What a silent move leaves of a verdict and of a result.
LEMMA PassesResult ==
  ASSUME IInv, NEW c \in Callers, Passes(c)
  PROVE  /\ run'[c].pc = "verdict" /\ run'[c].verdict = "NOT_APPLICABLE" =>
              NotApplicable(x.verifier, x.spec)
         /\ run'[c].result = run[c].result
              \/ (run'[c].result = "PROVEN" => st.terminal.outcome = "PROVEN")
<1>1. run[c] \in Runs BY DEF IInv, TypeOK
<1> DEFINE r == run'[c]
<1>2. Moves(c, r) BY DEF Passes
<1> HIDE DEF r
<1>3. CASE Invokes(c, r)
  <2>1. r.pc = "evaluate" /\ r.result = run[c].result BY <1>1, <1>3 DEF Invokes, Runs
  <2> QED BY <2>1 DEF r
<1>4. CASE Advances(c, r)
  <2>1. \A pc : At1(run[c], pc).pc = pc /\ At1(run[c], pc).result = run[c].result
    BY <1>1 DEF At1, Runs
  <2> DEFINE m == [run[c] EXCEPT !.pc = "check", !.step = run[c].step + 1]
  <2>2. m.pc = "check" /\ m.result = run[c].result BY <1>1 DEF Runs
  <2>3. r = m \/ \E pc \in PCs \ {"verdict"} : r = At1(run[c], pc)
    BY <1>4 DEF Advances, PCs
  <2> HIDE DEF m
  <2> QED BY <2>1, <2>2, <2>3 DEF r
<1>5. CASE Judges(c, r)
  <2>1. CASE r = [run[c] EXCEPT !.target = run[c].target + 1] /\ run[c].pc = "judge"
    <3>1. r.pc = "judge" /\ r.result = run[c].result BY <1>1, <2>1 DEF Runs
    <3> QED BY <3>1 DEF r
  <2>2. ASSUME NEW v, v = "NOT_APPLICABLE" => NotApplicable(x.verifier, x.spec),
               r = [run[c] EXCEPT !.pc = "verdict", !.verdict = v]
        PROVE  /\ r.verdict = "NOT_APPLICABLE" => NotApplicable(x.verifier, x.spec)
               /\ r.result = run[c].result
    <3>1. r.verdict = v /\ r.result = run[c].result BY <1>1, <2>2 DEF Runs
    <3> QED BY <2>2, <3>1
  <2> QED BY <1>5, <2>1, <2>2 DEF Judges, r
<1>6. CASE Stops(c, r)
  <2>1. r.pc # "verdict" /\ r.result = run[c].result BY <1>1, <1>6 DEF Stops, At1, Runs
  <2> QED BY <2>1 DEF r
<1>7. CASE Returns(c, r)
  <2>1. PICK o \in Outcomes \cup {None} :
          /\ r = [run[c] EXCEPT !.pc = "done", !.result = o]
          /\ o = "PROVEN" => st.terminal.outcome = "PROVEN"
    BY <1>7 DEF Returns
  <2>2. r.pc = "done" /\ r.result = o BY <1>1, <2>1 DEF Runs
  <2> QED BY <2>1, <2>2 DEF r
<1> QED BY <1>2, <1>3, <1>4, <1>5, <1>6, <1>7 DEF Moves

\* A check skipped without a verdict is one nobody required.
LEMMA SkippedIs ==
  ASSUME NEW c \in Callers, NEW e, Emits(c, e), run'[c].pc = "settle"
  PROVE  \/ run[c].pc = "verify" /\ ~x.spec.reqVerify
         \/ run[c].pc = "verdict" /\ e.kind = "verification.passed"
         \/ run[c].pc = "verdict" /\ run[c].verdict = "NOT_APPLICABLE"
<1>1. PICK a \in Runs : Emission(c, e, a) BY DEF Emits
<1>2. \/ run[c].pc = "verify" /\ e.kind = "verification.skipped"
      \/ /\ run[c].pc = "verdict"
         /\ e.kind \in {"verification.passed", "verification.skipped"}
  BY DEF Emits, Hop
<1>3. CASE run[c].pc = "verify" /\ e.kind = "verification.skipped"
  <2>1. EmitsCheck(c, e, a)
    BY <1>1, <1>3 DEF Emission, EmitsStart, EmitsDispatch, EmitsBlock, EmitsInvoked,
       EmitsEvidence, EmitsBoundary, EmitsVerdict, EmitsEnd
  <2>2. e # EventOf("verification.started") BY <1>3 DEF EventOf
  <2> QED BY <1>3, <2>1, <2>2 DEF EmitsCheck
<1>4. CASE run[c].pc = "verdict" /\ e.kind = "verification.skipped"
  <2>1. EmitsVerdict(c, e, a)
    BY <1>1, <1>4 DEF Emission, EmitsStart, EmitsDispatch, EmitsBlock, EmitsInvoked,
       EmitsEvidence, EmitsBoundary, EmitsCheck, EmitsEnd
  <2>2. e # EventOf("verification.passed") /\ e # EventOf("verification.failed")
    BY <1>4 DEF EventOf
  <2> QED BY <1>4, <2>1, <2>2 DEF EmitsVerdict
<1> QED BY <1>2, <1>3, <1>4

\* No emission is a verdict PROVEN but that of an execution that finishes with
\* nothing unmet and nothing refuting it.
LEMMA ProvenIs ==
  ASSUME IInv, NEW c \in Callers, NEW e \in Events, Emits(c, e), Earned,
         st'.terminal.outcome = "PROVEN"
  PROVE  /\ e.kind = "execution.finished" /\ Settled'
         /\ Unmet(x.spec, st') = {} /\ ~Refuted(st')
<1>1. /\ st \in States /\ Accepts(x, st, e) /\ st' = Reduced(x, st, e)
      /\ Hop(run[c].pc, e.kind, run'[c].pc)
  BY DEF Emits, IInv, TypeOK
<1>2. Changes(x, st, e, st') BY <1>1, ReducedIs
<1>3. st.terminal.outcome # "PROVEN" BY <1>2 DEF Earned, Changes, Settled
<1>4. e.kind \in {"execution.failed", "execution.finished"} BY <1>2, <1>3 DEF Changes
<1>5. /\ st'.terminal = Verdict(x, st, e) /\ st'.status = "SETTLED"
      /\ st'.evidence = st.evidence /\ st'.mutation = st.mutation /\ st'.verify = st.verify
  BY <1>2, <1>4 DEF Changes
<1>6. e.kind # "execution.failed"
  <2>1. OutcomeForClass(e.class) # "PROVEN" BY DEF OutcomeForClass
  <2> QED BY <1>5, <2>1 DEF Verdict
<1>7. Adjudicate(x.spec, st) = "PROVEN" BY <1>5, <1>6 DEF Verdict
<1>8. Unmet(x.spec, st) = {} /\ ~Refuted(st) BY <1>7 DEF Adjudicate
<1>9. Unmet(x.spec, st') = {} /\ ~Refuted(st')
  <2> DEFINE n == st'
  <2>1. n.evidence = st.evidence /\ n.mutation = st.mutation /\ n.verify = st.verify BY <1>5
  <2> HIDE DEF n
  <2>2. Unmet(x.spec, n) = Unmet(x.spec, st) /\ Refuted(n) = Refuted(st)
    BY <2>1, AdjudicatedOn
  <2> QED BY <1>8, <2>2 DEF n
<1> QED BY <1>4, <1>5, <1>6, <1>9 DEF Settled

\* An emission keeps the verdict earned.
LEMMA EarnedAfterEmission ==
  ASSUME IInv, OneRunner, EffectsRecorded, Earned, NEW c \in Callers, NEW e \in Events,
         Emits(c, e)
  PROVE  Earned'
<1> DEFINE q == Stamped(e)
<1>1. /\ UNCHANGED <<x, log>> /\ Hop(run[c].pc, e.kind, run'[c].pc)
      /\ run[c].outbox = NoEvent /\ run'[c].outbox = q
      /\ run'[c].verdict = run[c].verdict /\ run'[c].result = run[c].result
      /\ Accepts(x, st, e) /\ st' = Reduced(x, st, e)
      /\ \A d \in Callers : d # c => run'[d] = run[d]
  BY DEF Emits
<1>2. Changes(x, st, e, st') BY <1>1, ReducedIs DEF IInv, TypeOK
<1>3. ~Settled /\ st.terminal.outcome # "PROVEN" BY <1>2 DEF Changes, Settled, Earned
<1>4. q.kind = e.kind /\ q # NoEvent BY StampedIs DEF IInv, TypeOK
<1> HIDE DEF q
<1>5. CheckBegun' = CheckBegun /\ CheckMade' = CheckMade
  BY <1>1 DEF CheckBegun, CheckMade, BegunAt, InLog
<1>6. Outboxes'
  <2> SUFFICES ASSUME NEW d \in Callers
               PROVE  /\ run'[d].outbox.kind = "evidence.produced" => run'[d].pc = "mutation"
                      /\ run'[d].pc = "judge" /\ run'[d].outbox # NoEvent =>
                           run'[d].outbox.kind = "verification.started"
                      /\ run'[d].pc = "verdict" => run'[d].outbox = NoEvent
    BY DEF Outboxes
  <2>1. CASE d = c BY <1>1, <1>4, <2>1 DEF Hop
  <2>2. CASE d # c BY <1>1, <2>2 DEF Earned, Outboxes
  <2> QED BY <2>1, <2>2
<1>7. ASSUME NEW d \in Callers
      PROVE  /\ run'[d].pc \in {"judge", "verdict"} /\ run'[d].outbox = NoEvent => CheckBegun
             /\ run'[d].pc = "verdict" /\ run'[d].verdict = "NOT_APPLICABLE" =>
                  NotApplicable(x.verifier, x.spec)
             /\ run'[d].pc = "settle" /\ x.spec.reqVerify =>
                  CheckMade \/ (CheckBegun /\ run'[d].outbox.kind = "verification.passed")
             /\ run'[d].result # "PROVEN"
  <2>1. run'[d].result # "PROVEN" BY <1>1, <1>3 DEF Earned
  <2>2. CASE d # c BY <1>1, <1>3, <2>1, <2>2 DEF Earned
  <2>3. CASE d = c
    <3>1. ~(run'[c].pc \in {"judge", "verdict"} /\ run'[c].outbox = NoEvent)
      BY <1>1, <1>4
    <3>2. run'[c].pc # "verdict" BY <1>1 DEF Hop
    <3>3. ASSUME run'[c].pc = "settle", x.spec.reqVerify
          PROVE  CheckMade \/ (CheckBegun /\ q.kind = "verification.passed")
      <4>1. run[c].pc = "verdict"
            /\ (e.kind = "verification.passed" \/ run[c].verdict = "NOT_APPLICABLE")
        BY <3>3, SkippedIs
      <4>2. CheckBegun BY <1>1, <4>1 DEF Earned
      <4>3. CASE e.kind = "verification.passed" BY <1>4, <4>2, <4>3
      <4>4. CASE run[c].verdict = "NOT_APPLICABLE"
        <5>1. NotApplicable(x.verifier, x.spec) BY <4>1, <4>4 DEF Earned
        <5> QED BY <4>2, <5>1 DEF CheckBegun, CheckMade
      <4> QED BY <4>1, <4>3, <4>4
    <3> QED BY <1>1, <2>1, <2>3, <3>1, <3>2, <3>3
  <2> QED BY <2>2, <2>3
<1>8. ASSUME st'.terminal.outcome = "PROVEN"
      PROVE  /\ Settled' /\ NoRunner' /\ Unmet(x.spec, st') = {} /\ ~Refuted(st')
             /\ x.spec.reqVerify => CheckMade
  <2>1. e.kind = "execution.finished" /\ Settled' /\ Unmet(x.spec, st') = {} /\ ~Refuted(st')
    BY <1>8, ProvenIs
  <2>2. run[c].pc = "settle" BY <1>1, <2>1 DEF Hop
  <2>3. st.status # "ADMITTED" /\ NoRunner BY <1>3, <2>2 DEF EffectsRecorded
  <2>4. NoRunner' BY <2>3, RunnerAfterEmission DEF NoRunner, Active
  <2>5. NoEvent.kind # "verification.passed" BY DEF NoEvent, EventOf, None
  <2>6. x.spec.reqVerify => CheckMade BY <1>1, <1>3, <2>2, <2>5 DEF Earned
  <2> QED BY <2>1, <2>4, <2>6
<1> QED BY <1>1, <1>5, <1>6, <1>7, <1>8 DEF Earned

\* So does a silent move.
LEMMA EarnedAfterSilence ==
  ASSUME IInv, OneRunner, EffectsRecorded, Earned, NEW c \in Callers, Passes(c)
  PROVE  Earned'
<1>1. /\ UNCHANGED <<x, st, log>> /\ run[c].outbox = NoEvent /\ run'[c].outbox = NoEvent
      /\ \A d \in Callers : d # c => run'[d] = run[d]
  BY DEF Passes
<1>2. CheckBegun' = CheckBegun /\ CheckMade' = CheckMade /\ Settled' = Settled
  BY <1>1 DEF CheckBegun, CheckMade, BegunAt, InLog, Settled
<1>3. NoEvent.kind # "evidence.produced" BY DEF NoEvent, EventOf, None
<1>4. Outboxes' BY <1>1, <1>3 DEF Earned, Outboxes
<1>5. run'[c].pc \in {"judge", "verdict"} => run[c].pc = "judge"
  BY PassesOn DEF ActivePCs
<1>6. run'[c].pc = "settle" => Settled BY PassesOn
<1>7. run'[c].pc = "verdict" /\ run'[c].verdict = "NOT_APPLICABLE" =>
        NotApplicable(x.verifier, x.spec)
  BY PassesResult
<1>8. run'[c].result = "PROVEN" => st.terminal.outcome = "PROVEN" BY PassesResult DEF Earned
<1>9. NoRunner => NoRunner'
  <2>1. run'[c].pc \in ActivePCs => Active(c) BY PassesOn DEF Active, ActivePCs
  <2> QED BY <1>1, <2>1 DEF NoRunner, Active
<1>10. ASSUME NEW d \in Callers
       PROVE  /\ run'[d].pc \in {"judge", "verdict"} /\ run'[d].outbox = NoEvent => CheckBegun
              /\ run'[d].pc = "verdict" /\ run'[d].verdict = "NOT_APPLICABLE" =>
                   NotApplicable(x.verifier, x.spec)
              /\ run'[d].pc = "settle" /\ ~Settled /\ x.spec.reqVerify =>
                   CheckMade \/ (CheckBegun /\ run'[d].outbox.kind = "verification.passed")
              /\ run'[d].result = "PROVEN" => st.terminal.outcome = "PROVEN"
  <2>1. CASE d = c BY <1>1, <1>5, <1>6, <1>7, <1>8, <2>1 DEF Earned
  <2>2. CASE d # c BY <1>1, <2>2 DEF Earned
  <2> QED BY <2>1, <2>2
<1>11. st.terminal.outcome = "PROVEN" =>
         /\ Settled /\ NoRunner' /\ Unmet(x.spec, st) = {} /\ ~Refuted(st)
         /\ x.spec.reqVerify => CheckMade
  BY <1>9 DEF Earned
<1> QED BY <1>1, <1>2, <1>4, <1>10, <1>11 DEF Earned

\* So does an append.
LEMMA EarnedAfterAppend ==
  ASSUME IInv, OneRunner, EffectsRecorded, Earned, NEW c \in Callers, AppendEvent(c),
         \A d \in Callers : /\ run'[d].pc = run[d].pc /\ run'[d].verdict = run[d].verdict
                            /\ run'[d].result = run[d].result
  PROVE  Earned'
<1> DEFINE o == run[c].outbox
           n == Len(log) + 1
<1>1. /\ log'[n] = o /\ o # NoEvent
      /\ \A i \in DOMAIN log : log'[i] = log[i] /\ i \in DOMAIN log'
      /\ \A i \in DOMAIN log' : i \in DOMAIN log \/ i = n
      /\ run'[c].outbox = NoEvent
      /\ \A d \in Callers : d # c => run'[d] = run[d]
      /\ UNCHANGED <<x, st>> /\ Settled' = Settled
  BY AppendIs DEF AppendEvent, Settled
<1>2. /\ n \in DOMAIN log' /\ \A i \in DOMAIN log : i < n /\ i \in Nat
  <2>1. Len(log) \in Nat /\ DOMAIN log = 1..Len(log) /\ DOMAIN log' = 1..(Len(log) + 1)
    BY AppendIs
  <2> QED BY <2>1
<1> HIDE DEF n
<1>3. NoRunner' = NoRunner BY DEF NoRunner, Active
<1>4. o.kind = "evidence.produced" => run[c].pc = "mutation" /\ Active(c)
  BY DEF Earned, Outboxes, Active, ActivePCs
<1>5. o.kind # "evidence.produced" =>
        /\ \A i : BegunAt(i) => BegunAt(i)' /\ i \in InLog("verification.started")'
        /\ CheckBegun => CheckBegun'
        /\ CheckMade => CheckMade'
  BY AppendKeepsCheck
<1>6. NoEvent.kind \notin {"evidence.produced", "verification.passed"}
  BY DEF NoEvent, EventOf, None
<1>7. Outboxes' BY <1>1, <1>6 DEF Earned, Outboxes
<1>8. ASSUME NEW d \in Callers, run'[d].pc \in {"judge", "verdict"}, run'[d].outbox = NoEvent
      PROVE  CheckBegun'
  <2>1. Active(d) /\ run[d].pc \in {"judge", "verdict"} BY <1>8 DEF Active, ActivePCs
  <2>2. CASE d # c
    <3>1. o.kind # "evidence.produced" BY <1>4, <2>1, <2>2 DEF OneRunner
    <3> QED BY <1>1, <1>5, <1>8, <2>1, <2>2, <3>1 DEF Earned
  <2>3. CASE d = c
    <3>1. o.kind = "verification.started" BY <1>1, <2>1, <2>3 DEF Earned, Outboxes
    <3>2. n \in InLog("verification.started")' BY <1>1, <1>2, <3>1 DEF InLog
    <3>3. \A j \in InLog("evidence.produced")' : j < n BY <1>1, <1>2, <3>1 DEF InLog
    <3> QED BY <3>2, <3>3 DEF CheckBegun, BegunAt
  <2> QED BY <2>2, <2>3
<1>9. ASSUME NEW d \in Callers, run'[d].pc = "settle", ~Settled, x.spec.reqVerify
      PROVE  CheckMade' \/ (CheckBegun' /\ run'[d].outbox.kind = "verification.passed")
  <2>1. o.kind # "evidence.produced" BY <1>4, <1>9 DEF EffectsRecorded, NoRunner
  <2>2. CheckMade \/ (CheckBegun /\ run[d].outbox.kind = "verification.passed")
    BY <1>9 DEF Earned
  <2>3. CASE CheckMade \/ d # c BY <1>1, <1>5, <2>1, <2>2, <2>3
  <2>4. CASE CheckBegun /\ o.kind = "verification.passed"
    <3>1. PICK i \in InLog("verification.started") : BegunAt(i) BY <2>4 DEF CheckBegun
    <3>2. i \in InLog("verification.started")' /\ BegunAt(i)' BY <1>5, <2>4, <3>1
    <3>3. n \in InLog("verification.passed")' BY <1>1, <1>2, <2>4 DEF InLog
    <3>4. i < n BY <1>2, <3>1 DEF InLog
    <3> QED BY <3>2, <3>3, <3>4 DEF CheckMade
  <2> QED BY <2>2, <2>3, <2>4
<1>10. st.terminal.outcome = "PROVEN" =>
         /\ Settled /\ NoRunner /\ Unmet(x.spec, st) = {} /\ ~Refuted(st)
         /\ x.spec.reqVerify => CheckMade'
  <2>1. NoRunner => o.kind # "evidence.produced" BY <1>4 DEF NoRunner
  <2> QED BY <1>5, <2>1 DEF Earned
<1>11. \A d \in Callers :
         /\ run'[d].pc = "verdict" /\ run'[d].verdict = "NOT_APPLICABLE" =>
              NotApplicable(x.verifier, x.spec)
         /\ run'[d].result = "PROVEN" => st.terminal.outcome = "PROVEN"
  BY DEF Earned
<1> QED BY <1>1, <1>3, <1>7, <1>8, <1>9, <1>10, <1>11 DEF Earned

\* Every step keeps the verdict earned.
LEMMA EarnedStep ==
  ASSUME IInv, Numbered, Explained, OneRunner, EffectsRecorded, Earned, [Next]_vars
  PROVE  Earned'
<1>1. CASE Stands
  <2>1. /\ \A d \in Callers : /\ run'[d].pc = run[d].pc /\ run'[d].verdict = run[d].verdict
                              /\ run'[d].result = run[d].result
        /\ st' = st
    BY <1>1 DEF Stands
  <2>2. CASE UNCHANGED <<x, st, log, run>>
    <3>1. /\ CheckBegun' = CheckBegun /\ CheckMade' = CheckMade /\ Settled' = Settled
          /\ NoRunner' = NoRunner /\ Outboxes' = Outboxes
      BY <2>2 DEF CheckBegun, CheckMade, BegunAt, InLog, Settled, NoRunner, Active, Outboxes
    <3> QED BY <2>2, <3>1 DEF Earned
  <2>3. ASSUME NEW c \in Callers, AppendEvent(c) PROVE Earned'
    BY <2>1, <2>3, EarnedAfterAppend
  <2>4. CASE st = InitialState /\ UNCHANGED <<log, run>>
    <3>1. st.status = "ADMITTED" /\ st.terminal.outcome = None /\ None # "PROVEN" /\ ~Settled
      BY <2>4 DEF InitialState, NoTerminal, None, Settled
    <3>2. \A d \in Callers : run[d].pc \notin {"judge", "verdict", "settle"}
      BY <3>1 DEF OneRunner, EffectsRecorded, Active, ActivePCs
    <3>3. Outboxes' BY <2>4 DEF Earned, Outboxes
    <3> QED BY <2>1, <2>4, <3>1, <3>2, <3>3 DEF Earned
  <2> QED BY <1>1, <2>2, <2>3, <2>4 DEF Stands
<1> QED BY <1>1, EarnedAfterEmission, EarnedAfterSilence, StepSorts

---------------------------------------------------------------------------

VerdictInv == EffectsRecorded /\ Earned

\* At first there is no verdict.
LEMMA InitVerdict == Init => VerdictInv
<1> SUFFICES ASSUME Init PROVE VerdictInv OBVIOUS
<1>1. log = <<>> /\ st.terminal.outcome = None /\ None # "PROVEN"
  BY DEF Init, InitialState, NoTerminal, None
<1>2. \A c \in Callers : /\ run[c].outbox = NoEvent /\ run[c].pc = "idle"
                         /\ run[c].result = None
  BY DEF Init, Idle
<1>3. Emitted = {} BY <1>1, <1>2 DEF Emitted
<1>4. NoEvent.kind # "evidence.produced" BY DEF NoEvent, EventOf, None
<1>5. EffectsRecorded BY <1>2, <1>3 DEF EffectsRecorded, Active, ActivePCs
<1>6. Earned BY <1>1, <1>2, <1>4 DEF Earned, Outboxes
<1> QED BY <1>5, <1>6 DEF VerdictInv

\* Every step keeps the invariants of the verdict.
LEMMA VerdictStep ==
  IInv /\ RecordInv /\ DispatchInv /\ VerdictInv /\ [Next]_vars => VerdictInv'
BY EffectsStep, EarnedStep DEF VerdictInv, DispatchInv, RecordInv

\* Every change is on its way into the evidence, or stops the run; a required
\* check is begun after the last evidence and ended before PROVEN.
THEOREM VerdictKept == Spec => []VerdictInv
<1>1. Init => VerdictInv BY InitVerdict
<1>2. IInv /\ RecordInv /\ DispatchInv /\ VerdictInv /\ [Next]_vars => VerdictInv'
  BY VerdictStep
<1> QED BY <1>1, <1>2, Invariance, RecordKept, Dispatched, PTL DEF Spec

\* Neither kind of verdict comes without what it rests on (VerdictsAreBacked).
LEMMA VerdictsRest == VerdictInv => VerdictsAreBacked
<1> SUFFICES ASSUME VerdictInv PROVE VerdictsAreBacked OBVIOUS
<1>1. ProvenIsEarned
  <2> SUFFICES ASSUME NEW c \in Callers, run[c].result = "PROVEN"
               PROVE  /\ Settled /\ st.terminal.outcome = "PROVEN"
                      /\ Unmet(x.spec, st) = {} /\ ~Refuted(st)
                      /\ x.spec.reqVerify =>
                           \E i \in InLog("verification.started") :
                             /\ \A j \in InLog("evidence.produced") : j < i
                             /\ \/ \E j \in InLog("verification.passed") : i < j
                                \/ NotApplicable(x.verifier, x.spec)
    BY DEF ProvenIsEarned
  <2>1. st.terminal.outcome = "PROVEN" BY DEF VerdictInv, Earned
  <2>2. /\ Settled /\ Unmet(x.spec, st) = {} /\ ~Refuted(st)
        /\ x.spec.reqVerify => CheckMade
    BY <2>1 DEF VerdictInv, Earned
  <2> QED BY <2>1, <2>2 DEF CheckMade, BegunAt
<1>2. AdjudicatedEffectsAreRecorded
  <2> SUFFICES ASSUME NEW i \in InLog("execution.finished"), NEW f \in effects
               PROVE  RecordedIn(f, st.evidence)
    BY DEF AdjudicatedEffectsAreRecorded, RecordedIn
  <2>1. log[i] \in Emitted /\ log[i].kind = "execution.finished" BY EmittedIs DEF InLog
  <2> QED BY <2>1 DEF VerdictInv, EffectsRecorded, Recorded
<1> QED BY <1>1, <1>2 DEF VerdictsAreBacked

\* PROVEN is earned and an adjudicated execution left no effect unrecorded, for
\* any requests, verifiers, faults and interference.
THEOREM VerdictsBacked == Spec => []VerdictsAreBacked
<1> QED BY VerdictKept, VerdictsRest, PTL

-----------------------------------------------------------------------------
(***************************************************************************)
(* The account is not ahead of the program: what was charged are steps     *)
(* that lie behind the runner.  So a budget that fits the program is never *)
(* what refuses a step.                                                    *)
(***************************************************************************)
UsesOf(sp, n, cap) == {i \in DOMAIN sp.program : i <= n /\ sp.program[i].cap = cap}

\* Every step of the program has room in its budget, and no output is bounded.
Fits(sp) ==
  /\ sp.budget.bytes = 0
  /\ sp.budget.steps > 0 => Len(sp.program) <= sp.budget.steps
  /\ sp.budget.perCap > 0 => \A cap \in Capabilities :
       Cardinality(UsesOf(sp, Len(sp.program), cap)) <= sp.budget.perCap

WorkPCs == {"check", "dispatch", "invoke", "evaluate", "evidence", "mutation", "artifact", "next"}

\* The steps a caller has behind it, as far as they may be charged.
Passed(c) ==
  IF run[c].pc \in {"check", "dispatch", "invoke", "evaluate"} THEN run[c].step - 1 ELSE run[c].step

Charged ==
  /\ st.status = "ADMITTED" => st.steps = 0 /\ \A cap \in Capabilities : st.perCap[cap] = 0
  /\ \A c \in Callers : run[c].pc \in WorkPCs =>
       /\ st.steps <= Passed(c)
       /\ \A cap \in Capabilities :
            st.perCap[cap] <= Cardinality(UsesOf(x.spec, Passed(c), cap))

\* The uses of a capability are counted, and a step more is one more at most.
LEMMA UsesAre ==
  ASSUME NEW sp, NEW T, sp.program \in Seq(T), NEW n \in Int, NEW cap
  PROVE  /\ IsFiniteSet(UsesOf(sp, n, cap)) /\ Cardinality(UsesOf(sp, n, cap)) \in Nat
         /\ \A m \in Int : n <= m =>
              Cardinality(UsesOf(sp, n, cap)) <= Cardinality(UsesOf(sp, m, cap))
         /\ \A m \in DOMAIN sp.program : n < m /\ sp.program[m].cap = cap =>
              Cardinality(UsesOf(sp, n, cap)) + 1 <= Cardinality(UsesOf(sp, m, cap))
<1> DEFINE N == Len(sp.program)
<1>1. N \in Nat /\ DOMAIN sp.program = 1..N OBVIOUS
<1>2. IsFiniteSet(1..N) BY <1>1, FS_Interval
<1>3. ASSUME NEW k \in Int
      PROVE  IsFiniteSet(UsesOf(sp, k, cap)) /\ Cardinality(UsesOf(sp, k, cap)) \in Nat
  <2>1. UsesOf(sp, k, cap) \subseteq 1..N BY <1>1 DEF UsesOf
  <2> QED BY <1>2, <2>1, FS_Subset, FS_CardinalityType
<1>4. ASSUME NEW m \in Int, n <= m
      PROVE  Cardinality(UsesOf(sp, n, cap)) <= Cardinality(UsesOf(sp, m, cap))
  <2>1. UsesOf(sp, n, cap) \subseteq UsesOf(sp, m, cap) BY <1>1, <1>4 DEF UsesOf
  <2> QED BY <1>3, <2>1, FS_Subset
<1>5. ASSUME NEW m \in DOMAIN sp.program, n < m, sp.program[m].cap = cap
      PROVE  Cardinality(UsesOf(sp, n, cap)) + 1 <= Cardinality(UsesOf(sp, m, cap))
  <2> DEFINE A == UsesOf(sp, n, cap)
  <2>1. m \in Int /\ A \cup {m} \subseteq UsesOf(sp, m, cap) /\ m \notin A
    BY <1>1, <1>5 DEF UsesOf
  <2>2. IsFiniteSet(A) /\ Cardinality(A) \in Nat BY <1>3
  <2> HIDE DEF A
  <2>3. Cardinality(A \cup {m}) = Cardinality(A) + 1 BY <2>1, <2>2, FS_AddElement
  <2>4. Cardinality(A \cup {m}) <= Cardinality(UsesOf(sp, m, cap)) BY <1>3, <2>1, FS_Subset
  <2> QED BY <2>3, <2>4 DEF A
<1> QED BY <1>3, <1>4, <1>5

\* The steps behind a caller are a number of them.
LEMMA PassedType ==
  ASSUME IInv, NEW c \in Callers
  PROVE  Passed(c) \in Nat /\ run[c].step \in Nat \ {0}
BY DEF IInv, TypeOK, Runs, Passed

\* Every step keeps the account behind the runner.
LEMMA ChargedStep ==
  ASSUME IInv, Numbered, Explained, OneRunner, Charged, [Next]_vars, IInv'
  PROVE  Charged'
<1>1. ASSUME NEW c \in Callers, NEW e \in Events, Emits(c, e) PROVE Charged'
  <2>1. /\ x \in Requests /\ UNCHANGED x /\ Hop(run[c].pc, e.kind, run'[c].pc)
        /\ run'[c].step = run[c].step
        /\ Accepts(x, st, e) /\ st' = Reduced(x, st, e)
        /\ \A d \in Callers : d # c => run'[d] = run[d]
    BY <1>1 DEF Emits
  <2>2. Changes(x, st, e, st') BY <2>1, ReducedIs DEF IInv, TypeOK
  <2>3. PICK T : x.spec.program \in Seq(T) BY <2>1, AdmittedShape
  <2>4. /\ \A d \in Callers : run'[d].pc \in WorkPCs =>
             run[d].pc \in WorkPCs \/ (d = c /\ st.status = "ADMITTED")
        /\ st'.status # "ADMITTED"
    <3>1. \A d \in Callers : d # c => run'[d].pc = run[d].pc BY <2>1
    <3>2. run'[c].pc \in WorkPCs => run[c].pc \in WorkPCs \/ e.kind = "execution.started"
      BY <2>1 DEF Hop, WorkPCs
    <3>3. e.kind = "execution.started" => st.status = "ADMITTED" BY <2>2 DEF Changes
    <3> QED BY <1>1, <3>1, <3>2, <3>3, RunnerAfterEmission
  <2>5. CASE e.kind # "capability.invoked"
    <3>1. st'.steps = st.steps /\ st'.perCap = st.perCap BY <2>2, <2>5 DEF Changes
    <3>2. ASSUME NEW d \in Callers, run'[d].pc \in WorkPCs
          PROVE  /\ st.steps <= Passed(d)'
                 /\ \A cap \in Capabilities :
                      st.perCap[cap] <= Cardinality(UsesOf(x.spec, Passed(d)', cap))
      <4>1. Passed(d)' \in Nat BY PassedType DEF IInv, TypeOK, Runs, Passed
      <4>2. CASE st.status = "ADMITTED"
        <5>1. st.steps = 0 /\ \A cap \in Capabilities : st.perCap[cap] = 0
          BY <4>2 DEF Charged
        <5>2. \A cap \in Capabilities : Cardinality(UsesOf(x.spec, Passed(d)', cap)) \in Nat
          BY <2>3, <4>1, UsesAre
        <5> QED BY <4>1, <5>1, <5>2
      <4>3. CASE run[d].pc \in WorkPCs
        <5>1. Passed(d)' = Passed(d)
          <6>1. CASE d # c BY <2>1, <6>1 DEF Passed
          <6>2. CASE d = c
            <7>1. \/ run[c].pc = "dispatch" /\ run'[c].pc = "invoke"
                  \/ run[c].pc \in {"evidence", "mutation", "artifact"}
                     /\ run'[c].pc \in {"mutation", "artifact", "next"}
              BY <2>1, <2>5, <3>2, <4>3, <6>2 DEF Hop, WorkPCs
            <7> QED BY <2>1, <6>2, <7>1 DEF Passed
          <6> QED BY <6>1, <6>2
        <5> QED BY <4>3, <5>1 DEF Charged
      <4> QED BY <2>4, <3>2, <4>2, <4>3
    <3> QED BY <2>1, <2>4, <3>1, <3>2 DEF Charged
  <2>6. CASE e.kind = "capability.invoked"
    <3>1. run[c].pc = "evaluate" /\ run'[c].pc = "evidence" BY <2>1, <2>6 DEF Hop
    <3>2. StepOf(c).cap \in Capabilities /\ run[c].step \in DOMAIN Program
      BY <3>1, AtWork DEF StepPCs, RunOK
    <3>3. e.step = StepOf(c).id
      <4>1. PICK a \in Runs : Emission(c, e, a) BY <1>1 DEF Emits
      <4> QED BY <2>6, <4>1, EmissionsAre DEF Emission
    <3>4. StepAt(x.spec, e.step).cap = StepOf(c).cap BY <2>1, <3>2, <3>3, IndexIs DEF StepOf
    <3> DEFINE k == StepOf(c).cap
               n == run[c].step - 1
    <3>5. /\ st'.steps = st.steps + 1
          /\ \A cap \in Capabilities :
               st'.perCap[cap] = IF cap = k THEN st.perCap[cap] + 1 ELSE st.perCap[cap]
      <4> DEFINE m == st'
      <4>1. st \in States /\ m = Reduced(x, st, e) /\ k = StepAt(x.spec, e.step).cap
            /\ k \in Capabilities
        BY <2>1, <3>2, <3>4 DEF IInv, TypeOK
      <4> HIDE DEF k, m
      <4>2. /\ m.steps = st.steps + 1
            /\ \A cap \in Capabilities :
                 m.perCap[cap] = IF cap = k THEN st.perCap[cap] + 1 ELSE st.perCap[cap]
        BY <2>6, <4>1, InvokedCharges
      <4> QED BY <4>2 DEF m
    <3>6. Passed(c) = n /\ Passed(c)' = run[c].step /\ n \in Nat /\ run[c].step \in Nat
      BY <2>1, <3>1, PassedType DEF Passed
    <3>7. \A d \in Callers : run'[d].pc \in WorkPCs => d = c
      <4>1. Active(c) /\ \A d \in Callers : Active(d) => d = c
        BY <1>1, <2>6, RunnerAfterEmission
      <4> QED BY <2>1, <4>1 DEF Active, ActivePCs, WorkPCs
    <3>8. /\ st.steps <= n
          /\ \A cap \in Capabilities : st.perCap[cap] <= Cardinality(UsesOf(x.spec, n, cap))
      BY <3>1, <3>6 DEF Charged, WorkPCs
    <3>9. st'.steps <= run[c].step BY <3>5, <3>6, <3>8, CountsType
    <3>10. ASSUME NEW cap \in Capabilities
           PROVE  st'.perCap[cap] <= Cardinality(UsesOf(x.spec, run[c].step, cap))
      <4> DEFINE a == Cardinality(UsesOf(x.spec, n, cap))
                 b == Cardinality(UsesOf(x.spec, run[c].step, cap))
      <4>1. a \in Nat /\ b \in Nat /\ a <= b BY <2>3, <3>6, UsesAre
      <4>2. k = cap => a + 1 <= b
        <5>1. SUFFICES ASSUME k = cap PROVE a + 1 <= b OBVIOUS
        <5>2. run[c].step \in DOMAIN x.spec.program /\ n < run[c].step /\ n \in Int
              /\ x.spec.program[run[c].step].cap = cap
          BY <3>2, <3>6, <5>1 DEF Program, StepOf
        <5> QED BY <2>3, <5>2, UsesAre
      <4>3. st.perCap[cap] <= a /\ st.perCap[cap] \in Nat BY <3>8, CountsType
      <4> HIDE DEF a, b, k
      <4>4. st'.perCap[cap] <= b BY <3>5, <4>1, <4>2, <4>3
      <4> QED BY <4>4 DEF b
    <3> QED BY <2>1, <2>4, <3>6, <3>7, <3>9, <3>10 DEF Charged
  <2> QED BY <2>5, <2>6
<1>2. ASSUME NEW c \in Callers, Passes(c) PROVE Charged'
  <2>1. UNCHANGED <<x, st>> /\ \A d \in Callers : d # c => run'[d] = run[d]
    BY <1>2 DEF Passes
  <2>2. run'[c].pc \in WorkPCs => run[c].pc \in WorkPCs /\ Passed(c)' = Passed(c)
    <3>1. SUFFICES ASSUME run'[c].pc \in WorkPCs
                   PROVE  run[c].pc \in WorkPCs /\ Passed(c)' = Passed(c)
      OBVIOUS
    <3>2. \/ /\ run'[c].step = run[c].step
             /\ \/ run[c].pc = "check" /\ run'[c].pc = "dispatch"
                \/ run[c].pc \in {"evidence", "mutation", "artifact"}
                   /\ run'[c].pc \in {"mutation", "artifact", "next"}
                \/ run[c].pc = "invoke" /\ run'[c].pc = "evaluate"
          \/ run[c].pc = "next" /\ run'[c].pc = "check" /\ run'[c].step = run[c].step + 1
      BY <1>2, <3>1, PassesOn DEF WorkPCs, ActivePCs
    <3> QED BY <3>2, PassedType DEF Passed, WorkPCs
  <2>3. ASSUME NEW d \in Callers, run'[d].pc \in WorkPCs
        PROVE  run[d].pc \in WorkPCs /\ Passed(d)' = Passed(d)
    <3>1. CASE d = c BY <2>2, <2>3, <3>1
    <3>2. CASE d # c BY <2>1, <2>3, <3>2 DEF Passed
    <3> QED BY <3>1, <3>2
  <2> QED BY <2>1, <2>3 DEF Charged
<1>3. CASE Stands
  <2>1. /\ \A d \in Callers : run'[d].pc = run[d].pc /\ Passed(d)' = Passed(d)
        /\ st' = st
    BY <1>3 DEF Stands, Passed
  <2>2. x' = x \/ st.status = "ADMITTED"
    BY <1>3 DEF Stands, InitialState
  <2>3. CASE x' = x BY <2>1, <2>3 DEF Charged
  <2>4. CASE st.status = "ADMITTED"
    <3>1. \A d \in Callers : run'[d].pc \notin WorkPCs
      BY <2>1, <2>4 DEF OneRunner, Active, ActivePCs, WorkPCs
    <3> QED BY <2>1, <3>1 DEF Charged
  <2> QED BY <2>2, <2>3, <2>4
<1> QED BY <1>1, <1>2, <1>3, StepSorts

\* At first nothing is charged.
LEMMA ChargedInit == Init => Charged
<1> SUFFICES ASSUME Init PROVE Charged OBVIOUS
<1>1. st.steps = 0 /\ \A cap \in Capabilities : st.perCap[cap] = 0 BY DEF Init, InitialState
<1>2. \A c \in Callers : run[c].pc = "idle" BY DEF Init, Idle
<1> QED BY <1>1, <1>2 DEF Charged, WorkPCs

\* A program within its budget finds room at every dispatch.
LEMMA RoomForAll ==
  ASSUME IInv, Charged, NEW c \in Callers, run[c].pc = "dispatch", Fits(x.spec)
  PROVE  Allows(x.spec.budget, st, StepOf(c).cap)
<1>1. /\ x \in Requests /\ StepOf(c).cap \in Capabilities /\ run[c].step \in DOMAIN Program
  BY AtWork DEF StepPCs, RunOK
<1>2. PICK T : x.spec.program \in Seq(T) BY <1>1, AdmittedShape
<1> DEFINE n == run[c].step - 1
           N == Len(x.spec.program)
           k == StepOf(c).cap
<1>3. n \in Nat /\ N \in Nat /\ run[c].step \in 1..N /\ n < run[c].step /\ Passed(c) = n
  BY <1>1, <1>2, PassedType DEF Program, Passed
<1>4. st.steps <= n /\ st.perCap[k] <= Cardinality(UsesOf(x.spec, n, k))
  BY <1>1, <1>3 DEF Charged, WorkPCs
<1>5. x.spec.budget.steps > 0 => st.steps < x.spec.budget.steps
  BY <1>1, <1>3, <1>4, CountsType DEF Fits
<1>6. x.spec.budget.perCap > 0 => st.perCap[k] < x.spec.budget.perCap
  <2> DEFINE a == Cardinality(UsesOf(x.spec, n, k))
             b == Cardinality(UsesOf(x.spec, run[c].step, k))
             d == Cardinality(UsesOf(x.spec, N, k))
  <2>1. run[c].step \in DOMAIN x.spec.program /\ x.spec.program[run[c].step].cap = k
    BY <1>1 DEF Program, StepOf
  <2>2. a \in Nat /\ a + 1 <= b BY <1>2, <1>3, <2>1, UsesAre
  <2>3. b \in Nat /\ d \in Nat /\ b <= d BY <1>2, <1>3, UsesAre
  <2>4. x.spec.budget.perCap > 0 => d <= x.spec.budget.perCap BY <1>1 DEF Fits
  <2>5. st.perCap[k] \in Nat /\ x.spec.budget.perCap \in Int BY <1>1, CountsType
  <2> HIDE DEF a, b, d, k
  <2> QED BY <1>4, <2>2, <2>3, <2>4, <2>5 DEF a
<1> QED BY <1>5, <1>6 DEF Allows

-----------------------------------------------------------------------------
(***************************************************************************)
(* Who stopped the execution: no outcome CANCELLED without a Cancel, none  *)
(* INTERRUPTED without a context that ended, wherever the stop was noticed *)
(* (the loop, a failed invocation, the context check after a step, or the  *)
(* override of a block in Run) and however it was reported; unless a       *)
(* command failed with the end of a context of its own.                    *)
(***************************************************************************)

\* The classes that the kernel assigns on grounds of its own.
OwnClasses == FailureClasses \ {"CANCELLED", "INTERRUPTED", "BUDGET_EXHAUSTED"}

\* The program may ask for more than its budget has.
Exceeding == x # NoRequest /\ ~Fits(x.spec)

\* A class or an outcome that somebody asked for, or a command reported.
Legit(k) ==
  /\ k = "CANCELLED" => cancelled \/ CommandEnded("CANCELED")
  /\ k = "INTERRUPTED" => (\E c \in Callers : done[c]) \/ CommandEnded("DEADLINE_EXCEEDED")
  /\ k = "BUDGET_EXHAUSTED" => Exceeding

\* Where a caller may be whose invocation returned an error.
Outgoing == {"evaluate", "stopped", "fail", "failing", "settle", "return", "done"}

\* The record r may follow c's: an error stays in hand with the step that
\* returned it, its caller only goes out, and the error carries the end of a
\* context only if c's context has ended or a command returned it.
MayFollow(c, r) ==
  /\ run[c].obs.error => r.obs = run[c].obs /\ r.step = run[c].step
  /\ r.obs.error => /\ x # NoRequest /\ r.pc \in Outgoing /\ r.step \in DOMAIN Program
                    /\ r.obs.cause # None =>
                         done[c] \/ Program[r.step].cap = "command.run"

LegitRun(c, r) == Legit(r.block) /\ Legit(r.result) /\ MayFollow(c, r)

\* Every class on its way to an outcome is legitimate already.
SInv == /\ Legit(admission) /\ Legit(st.terminal.outcome)
        /\ \A c \in Callers : LegitRun(c, run[c])

\* The outcome of a class is CANCELLED or INTERRUPTED only for that class.
LEMMA LegitOutcome == \A k : Legit(k) => Legit(OutcomeForClass(k))
BY DEF Legit, OutcomeForClass

\* A record that keeps the observation is legitimate if its class and result
\* are and, with an error in hand, it only goes out.
LEMMA LegitUpdate ==
  ASSUME SInv, NEW c \in Callers, NEW r, Legit(r.block), Legit(r.result),
         r.obs = run[c].obs,
         run[c].obs.error => r.step = run[c].step /\ r.pc \in Outgoing
  PROVE  LegitRun(c, r)
BY DEF SInv, LegitRun, MayFollow

\* No error is in hand anywhere else.
LEMMA NoError ==
  ASSUME SInv, NEW c \in Callers, run[c].pc \notin Outgoing
  PROVE  ~run[c].obs.error
BY DEF SInv, LegitRun, MayFollow

\* A step of one caller keeps SInv if its own class and result are legitimate.
LEMMA LegitStep ==
  ASSUME IInv, SInv, NEW c \in Callers, NEW r, LegitRun(c, r), run' = [run EXCEPT ![c] = r],
         UNCHANGED <<x, admission, cancelled, done>>, Legit(st'.terminal.outcome)
  PROVE  SInv'
<1>1. \A d \in Callers : run'[d] = IF d = c THEN r ELSE run[d] BY DEF IInv, TypeOK
<1>2. ASSUME NEW k, CommandEnded(k) PROVE CommandEnded(k)'
  <2>1. PICK d \in Callers : /\ run[d].obs.error /\ run[d].obs.cause = k
                             /\ StepOf(d).cap = "command.run"
    BY <1>2 DEF CommandEnded
  <2>2. run'[d].obs = run[d].obs /\ run'[d].step = run[d].step
    BY <1>1, <2>1 DEF LegitRun, MayFollow
  <2>3. StepOf(d)' = StepOf(d) BY <2>2 DEF StepOf, Program
  <2> QED BY <2>1, <2>2, <2>3 DEF CommandEnded
<1>3. \A k : Legit(k) => Legit(k)' BY <1>2 DEF Legit, Exceeding
<1>4. ASSUME NEW d \in Callers PROVE MayFollow(d, run[d])'
  <2>1. CASE d = c
    <3>1. MayFollow(c, r) BY DEF LegitRun
    <3>2. run'[d] = r BY <1>1, <2>1
    <3> QED BY <2>1, <3>1, <3>2 DEF MayFollow, Program
  <2>2. CASE d # c
    <3>1. MayFollow(d, run[d]) BY DEF SInv, LegitRun
    <3>2. run'[d] = run[d] BY <1>1, <2>2
    <3> QED BY <3>1, <3>2 DEF MayFollow, Program
  <2> QED BY <2>1, <2>2
<1>5. ASSUME NEW d \in Callers PROVE LegitRun(d, run[d])'
  <2>1. Legit(run'[d].block) /\ Legit(run'[d].result) BY <1>1 DEF SInv, LegitRun
  <2> QED BY <1>3, <1>4, <2>1 DEF LegitRun, Legit
<1>6. Legit(admission)' /\ Legit(st.terminal.outcome)' BY <1>3 DEF SInv, Legit
<1> QED BY <1>5, <1>6 DEF SInv

\* So does an emission, if the class a failure carries is.
LEMMA LegitEmit ==
  ASSUME IInv, SInv, NEW c \in Callers, NEW e, NEW a, NEW b, LegitRun(c, a), LegitRun(c, b),
         a \in Runs, EmitOr(c, e, a, b),
         e.kind = "execution.failed" => Legit(e.class),
         UNCHANGED <<x, admission, cancelled, done>>
  PROVE  SInv'
<1>1. st \in States BY DEF IInv, TypeOK
<1>2. CASE Emit(c, e, a)
  <2> DEFINE r == [a EXCEPT !.outbox = Stamped(e)]
  <2>1. /\ r.block = a.block /\ r.result = a.result /\ r.obs = a.obs
        /\ r.step = a.step /\ r.pc = a.pc
    BY DEF Runs
  <2> HIDE DEF r
  <2>2. LegitRun(c, r) BY <2>1 DEF LegitRun, MayFollow
  <2>3. Legit(st'.terminal.outcome)
    <3>1. CASE st'.terminal = st.terminal BY <3>1 DEF SInv
    <3>2. CASE /\ e.kind \in {"execution.failed", "execution.finished"}
               /\ st'.terminal = Verdict(x, st, e)
      <4>1. CASE e.kind = "execution.failed"
        <5>1. st'.terminal.outcome = OutcomeForClass(e.class) BY <3>2, <4>1 DEF Verdict
        <5> QED BY <4>1, <5>1, LegitOutcome
      <4>2. CASE e.kind = "execution.finished"
        <5>1. st'.terminal.outcome = Adjudicate(x.spec, st) BY <3>2, <4>2 DEF Verdict
        <5> QED BY <5>1 DEF Adjudicate, Legit
      <4> QED BY <3>2, <4>1, <4>2
    <3> QED BY <1>1, <1>2, <3>1, <3>2, TerminalOf DEF Emit
  <2>4. run' = [run EXCEPT ![c] = r] BY <1>2 DEF Emit, r
  <2> QED BY <2>2, <2>3, <2>4, LegitStep
<1>3. CASE Refused(c, e, b)
  <2>1. run' = [run EXCEPT ![c] = b] /\ st' = st BY <1>3 DEF Refused
  <2>2. Legit(st'.terminal.outcome) BY <2>1 DEF SInv
  <2> QED BY <2>1, <2>2, LegitStep
<1> QED BY <1>2, <1>3 DEF EmitOr

\* Moving on and stopping, as operations on the run record.
LEMMA LegitMoves ==
  ASSUME IInv, SInv, NEW c \in Callers
  PROVE  /\ run[c] \in Runs /\ LegitRun(c, run[c])
         /\ \A pc \in PCs : /\ At1(run[c], pc) \in Runs
                            /\ pc \in Outgoing \/ ~run[c].obs.error =>
                                 LegitRun(c, At1(run[c], pc))
         /\ \A k \in FailureClasses : Legit(k) =>
              /\ Blocked(run[c], k) \in Runs /\ LegitRun(c, Blocked(run[c], k))
              /\ LegitRun(c, [run[c] EXCEPT !.pc = "fail", !.block = k])
<1>1. run[c] \in Runs /\ LegitRun(c, run[c]) BY DEF IInv, TypeOK, SInv
<1>2. ASSUME NEW pc \in PCs
      PROVE  /\ At1(run[c], pc) \in Runs
             /\ pc \in Outgoing \/ ~run[c].obs.error => LegitRun(c, At1(run[c], pc))
  <2> DEFINE r == At1(run[c], pc)
  <2>1. r \in Runs BY <1>1 DEF At1, Runs
  <2>2. /\ r.block = run[c].block /\ r.result = run[c].result /\ r.obs = run[c].obs
        /\ r.step = run[c].step /\ r.pc = pc
    BY <1>1 DEF At1, Runs
  <2>3. Legit(run[c].block) /\ Legit(run[c].result) BY <1>1 DEF LegitRun
  <2> HIDE DEF r
  <2>4. pc \in Outgoing \/ ~run[c].obs.error => LegitRun(c, r) BY <2>2, <2>3, LegitUpdate
  <2> QED BY <2>1, <2>4 DEF r
<1>3. ASSUME NEW k \in FailureClasses, Legit(k), NEW pc \in {"stopped", "fail"}
      PROVE  /\ [run[c] EXCEPT !.pc = pc, !.block = k] \in Runs
             /\ LegitRun(c, [run[c] EXCEPT !.pc = pc, !.block = k])
  <2> DEFINE r == [run[c] EXCEPT !.pc = pc, !.block = k]
  <2>1. r \in Runs BY <1>1 DEF Runs, PCs
  <2>2. /\ r.block = k /\ r.result = run[c].result /\ r.obs = run[c].obs
        /\ r.step = run[c].step /\ r.pc \in Outgoing
    BY <1>1 DEF Runs, Outgoing
  <2>3. Legit(run[c].result) BY <1>1 DEF LegitRun
  <2> HIDE DEF r
  <2>4. LegitRun(c, r) BY <1>3, <2>2, <2>3, LegitUpdate
  <2> QED BY <2>1, <2>4 DEF r
<1> QED BY <1>1, <1>2, <1>3 DEF Blocked

---------------------------------------------------------------------------

\* The classes nobody has to ask for.
LEMMA LegitClasses ==
  /\ \A k \in OwnClasses : Legit(k)
  /\ Legit(None) /\ Legit("FAILED") /\ Legit("UNSUBSTANTIATED")
  /\ OwnClasses \subseteq FailureClasses
BY DEF Legit, None, OwnClasses

\* A caller moving on with no event.
LEMMA LegitGoto ==
  ASSUME IInv, SInv, NEW c \in Callers, NEW pc \in PCs, Goto(c, pc),
         pc \in Outgoing \/ ~run[c].obs.error,
         UNCHANGED <<x, admission, st, cancelled, done>>
  PROVE  SInv'
<1>1. LegitRun(c, At1(run[c], pc)) BY LegitMoves
<1>2. Legit(st'.terminal.outcome) BY DEF SInv
<1> QED BY <1>1, <1>2, GotoIs, LegitStep

\* A caller stopping with no event.
LEMMA LegitStop ==
  ASSUME IInv, SInv, NEW c \in Callers, NEW k \in FailureClasses, Legit(k), Stop(c, k),
         UNCHANGED <<x, admission, st, cancelled, done>>
  PROVE  SInv'
<1>1. LegitRun(c, Blocked(run[c], k)) BY LegitMoves
<1>2. Legit(st'.terminal.outcome) BY DEF SInv
<1> QED BY <1>1, <1>2, GotoIs, LegitStep

\* Emit an event that is not a failure; go on, or stop for a class of the kernel's.
LEMMA LegitEmitOrBlock ==
  ASSUME IInv, SInv, NEW c \in Callers, NEW e, e.kind # "execution.failed",
         NEW pc \in PCs, pc \in Outgoing \/ ~run[c].obs.error, NEW k \in OwnClasses,
         EmitOr(c, e, At1(run[c], pc), Blocked(run[c], k)),
         UNCHANGED <<x, admission, cancelled, done>>
  PROVE  SInv'
<1>1. LegitRun(c, At1(run[c], pc)) /\ At1(run[c], pc) \in Runs BY LegitMoves
<1>2. LegitRun(c, Blocked(run[c], k)) BY LegitClasses, LegitMoves
<1> QED BY <1>1, <1>2, LegitEmit

\* A step refused for a legitimate class.
LEMMA LegitBlockStep ==
  ASSUME IInv, SInv, NEW c \in Callers,
         NEW k \in FailureClasses, Legit(k), BlockStep(c, k),
         UNCHANGED <<x, admission, cancelled, done>>
  PROVE  SInv'
<1> DEFINE e == [ForStep("step.blocked", StepOf(c)) EXCEPT !.class = k]
<1>1. e.kind # "execution.failed" BY DEF ForStep, EventOf
<1>2. "EXECUTION_FAILURE" \in OwnClasses BY DEF FailureClasses, OwnClasses
<1>3. LegitRun(c, Blocked(run[c], k)) /\ Blocked(run[c], k) \in Runs
        /\ LegitRun(c, Blocked(run[c], "EXECUTION_FAILURE"))
  BY <1>2, LegitClasses, LegitMoves
<1>4. EmitOr(c, e, Blocked(run[c], k), Blocked(run[c], "EXECUTION_FAILURE")) BY DEF BlockStep
<1> HIDE DEF e
<1> QED BY <1>1, <1>3, <1>4, LegitEmit

\* Nobody has stopped anything at the start.
LEMMA SInitOK == Init => SInv
<1> SUFFICES ASSUME Init PROVE SInv OBVIOUS
<1>1. admission = None /\ st.terminal.outcome = None BY DEF Init, InitialState, NoTerminal
<1>2. ASSUME NEW c \in Callers PROVE LegitRun(c, run[c])
  <2>1. run[c] = Idle BY DEF Init
  <2>2. Idle.block = None /\ Idle.result = None /\ Idle.obs = Failed BY DEF Idle
  <2>3. ~Failed.error BY DEF Failed, Observation
  <2> QED BY <2>1, <2>2, <2>3, LegitClasses DEF LegitRun, MayFollow
<1> QED BY <1>1, <1>2, LegitClasses DEF SInv

\* Open, the head of Run and the history of the environment.
LEMMA SOpenOK == ASSUME IInv, SInv, NEW req \in Requests, Open(req) PROVE SInv'
<1>1. admission' \in {"INVALID_SPEC", "AUTHORIZATION_FAILURE", None}
  BY DEF Open, AdmissionRefusal
<1>2. Legit(admission') BY <1>1 DEF Legit, None
<1>3. st' = st \/ st'.terminal.outcome = None BY DEF Open, InitialState, NoTerminal
<1>4. Legit(st'.terminal.outcome) BY <1>3, LegitClasses DEF SInv
<1>5. UNCHANGED <<run, cancelled, done>> /\ (x' = x \/ x = NoRequest) BY DEF Open
<1>6. Exceeding => Exceeding' BY <1>5 DEF Exceeding
<1>7. (\E c \in Callers : run[c].obs.error) => x' = x
  BY <1>5 DEF SInv, LegitRun, MayFollow
<1>8. \A k : CommandEnded(k) => CommandEnded(k)'
  BY <1>5, <1>7 DEF CommandEnded, StepOf, Program
<1>9. \A k : Legit(k) => Legit(k)' BY <1>5, <1>6, <1>8 DEF Legit
<1>10. ASSUME NEW c \in Callers PROVE LegitRun(c, run[c])'
  <2>1. LegitRun(c, run[c]) BY DEF SInv
  <2>2. MayFollow(c, run[c])' BY <1>5, <1>7, <2>1 DEF LegitRun, MayFollow, Program
  <2> QED BY <1>5, <1>9, <2>1, <2>2 DEF LegitRun, Legit
<1> QED BY <1>2, <1>4, <1>5, <1>9, <1>10 DEF SInv, Legit

\* A Cancel or an ended context only makes more stops legitimate.
LEMMA SEnvironmentOK == ASSUME IInv, SInv, Environment PROVE SInv'
<1>1. UNCHANGED <<x, admission, st, run>> BY DEF Environment, Cancel, Withdraw, Edit
<1>2. cancelled => cancelled' BY DEF Environment, Cancel, Withdraw, Edit
<1>3. \A c \in Callers : done[c] => done'[c]
  BY DEF Environment, Cancel, Withdraw, Edit, IInv, TypeOK
<1>4. \A k : CommandEnded(k) => CommandEnded(k)' BY <1>1 DEF CommandEnded, StepOf, Program
<1>5. \A k : Legit(k) => Legit(k)' BY <1>1, <1>2, <1>3, <1>4 DEF Legit, Exceeding
<1>6. ASSUME NEW c \in Callers PROVE LegitRun(c, run[c])'
  <2>1. LegitRun(c, run[c]) BY DEF SInv
  <2>2. MayFollow(c, run[c])' BY <1>1, <1>3, <2>1 DEF LegitRun, MayFollow, Program
  <2> QED BY <1>1, <1>5, <2>1, <2>2 DEF LegitRun, Legit
<1> QED BY <1>1, <1>5, <1>6 DEF SInv, Legit

---------------------------------------------------------------------------

\* The head of Run.
LEMMA SEnterOK == ASSUME IInv, SInv, NEW c \in Callers, Enter(c) PROVE SInv'
<1>1. UNCHANGED <<x, admission, st, cancelled, done>> BY DEF Enter
<1>4. ~run[c].obs.error BY NoError DEF Enter, At, Outgoing
<1>2. CASE Goto(c, "start") BY <1>1, <1>2, <1>4, LegitGoto DEF PCs
<1>3. CASE run' = [run EXCEPT ![c].pc = "done", ![c].result = OutcomeForClass(admission)]
  <2> DEFINE r == [run[c] EXCEPT !.pc = "done", !.result = OutcomeForClass(admission)]
  <2>1. run[c] \in Runs /\ Legit(run[c].block) BY LegitMoves DEF LegitRun
  <2>2. r.block = run[c].block /\ r.result = OutcomeForClass(admission) /\ r.obs = run[c].obs
    BY <2>1 DEF Runs
  <2>3. Legit(OutcomeForClass(admission)) BY LegitOutcome DEF SInv
  <2>4. run' = [run EXCEPT ![c] = r] BY <1>3 DEF IInv, TypeOK
  <2> HIDE DEF r
  <2>5. LegitRun(c, r) BY <1>4, <2>1, <2>2, <2>3, LegitUpdate
  <2>6. Legit(st'.terminal.outcome) BY <1>1 DEF SInv
  <2> QED BY <1>1, <2>4, <2>5, <2>6, LegitStep
<1> QED BY <1>2, <1>3 DEF Enter

\* Run emits execution.started; a refusal fails with the kernel's own class.
LEMMA SStartOK == ASSUME IInv, SInv, NEW c \in Callers, Start(c) PROVE SInv'
<1> DEFINE b == [run[c] EXCEPT !.pc = "fail", !.block = "INVALID_SPEC"]
<1>1. EventOf("execution.started").kind # "execution.failed" BY DEF EventOf
<1>5. ~run[c].obs.error BY NoError DEF Start, At, Outgoing
<1>2. At1(run[c], "check") \in Runs /\ LegitRun(c, At1(run[c], "check"))
  BY <1>5, LegitMoves DEF PCs
<1>3. LegitRun(c, b) BY LegitMoves, LegitClasses DEF FailureClasses, OwnClasses
<1>4. EmitOr(c, EventOf("execution.started"), At1(run[c], "check"), b) BY DEF Start
<1> HIDE DEF b
<1> QED BY <1>1, <1>2, <1>3, <1>4, LegitEmit DEF Start

\* The top of the loop: each flag is read before it is reported.
LEMMA SCheckOK == ASSUME IInv, SInv, NEW c \in Callers, Check(c) PROVE SInv'
<1>1. UNCHANGED <<x, admission, st, cancelled, done>> BY DEF Check
<1>5. ~run[c].obs.error BY NoError DEF Check, At, Outgoing
<1>2. CASE Goto(c, "verify") \/ Goto(c, "dispatch") BY <1>1, <1>2, <1>5, LegitGoto DEF PCs
<1>3. CASE cancelled /\ Stop(c, "CANCELLED")
  <2>1. Legit("CANCELLED") BY <1>3 DEF Legit
  <2> QED BY <1>1, <1>3, <2>1, LegitStop DEF FailureClasses, OwnClasses
<1>4. CASE done[c] /\ Stop(c, "INTERRUPTED")
  <2>1. Legit("INTERRUPTED") BY <1>4 DEF Legit
  <2> QED BY <1>1, <1>4, <2>1, LegitStop DEF FailureClasses, OwnClasses
<1> QED BY <1>2, <1>3, <1>4 DEF Check

\* Every refusal of a dispatch has a class of the kernel's own, or the budget
\* does not fit the program.
LEMMA SDispatchOK == ASSUME IInv, Charged, SInv, NEW c \in Callers, Dispatch(c) PROVE SInv'
<1> DEFINE step == StepOf(c)
<1>1. UNCHANGED <<x, admission, cancelled, done>> BY DEF Dispatch
<1>2. CASE DispatchRefusal(step) # None /\ BlockStep(c, DispatchRefusal(step))
  <2> DEFINE k == DispatchRefusal(step)
  <2>1. k \in FailureClasses /\ (k = "BUDGET_EXHAUSTED" \/ k \in OwnClasses)
    BY <1>2 DEF DispatchRefusal, FailureClasses, OwnClasses
  <2>2. k = "BUDGET_EXHAUSTED" => Exceeding
    <3>1. k = "BUDGET_EXHAUSTED" => ~Allows(x.spec.budget, st, step.cap)
      BY DEF DispatchRefusal, None
    <3>2. run[c].pc = "dispatch" BY DEF Dispatch, At
    <3>3. x # NoRequest BY <3>2, AtWork
    <3> QED BY <3>1, <3>2, <3>3, RoomForAll DEF Exceeding
  <2>3. Legit(k) BY <2>1, <2>2, LegitClasses DEF Legit
  <2> HIDE DEF k
  <2>4. BlockStep(c, k) BY <1>2 DEF k
  <2> QED BY <1>1, <2>1, <2>3, <2>4, LegitBlockStep
<1>3. CASE \E k \in GateRefusals(step) : BlockStep(c, k)
  <2>1. GateRefusals(step) \subseteq OwnClasses BY DEF GateRefusals, FailureClasses, OwnClasses
  <2> QED BY <1>1, <1>3, <2>1, LegitClasses, LegitBlockStep DEF OwnClasses
<1>4. CASE EmitOr(c, ForStep("step.started", step), At1(run[c], "invoke"),
                  Blocked(run[c], "EXECUTION_FAILURE"))
  <2>1. ForStep("step.started", step).kind # "execution.failed" BY DEF ForStep, EventOf
  <2>2. "EXECUTION_FAILURE" \in OwnClasses /\ "invoke" \in PCs BY DEF FailureClasses, OwnClasses, PCs
  <2>3. ~run[c].obs.error BY NoError DEF Dispatch, At, Outgoing
  <2> HIDE DEF step
  <2> QED BY <1>1, <1>4, <2>1, <2>2, <2>3, LegitEmitOrBlock
<1> QED BY <1>2, <1>3, <1>4 DEF Dispatch

\* Only a command returns the end of a context while its caller's goes on.
LEMMA CauseOfError ==
  ASSUME NEW step, step.cap \in Capabilities, NEW w, NEW d,
         NEW out \in Invocations(step, w, d), out.obs.error, out.obs.cause # None
  PROVE  d \/ step.cap = "command.run"
<1> SUFFICES ASSUME ~d, step.cap # "command.run" PROVE FALSE OBVIOUS
<1> DEFINE t == step.target
           faulty == IF Faults THEN {Failed, InvokeErr} ELSE {}
           Quiet_(obs) == ~obs.error \/ obs.cause = None
<1>1. \A verdict, facts, m, n : ~Observation(verdict, facts, m, n).error BY DEF Observation
<1>2. ~Failed.error /\ InvokeErr.cause = None BY <1>1 DEF Failed, InvokeErr, ErrorOf
<1>3. \A obs \in faulty \cup {Failed, InvokeErr} : Quiet_(obs) BY <1>2
<1>4. \A O : out \in Same(w, O) => out.obs \in O BY DEF Same, Step
<1>5. \A v, obs : Step(v, obs).obs = obs BY DEF Step
<1>6. ~Quiet_(out.obs) OBVIOUS
<1>7. \A obs \in Discover(d) : Quiet_(obs) BY <1>1, <1>2 DEF Discover
<1>8. \A v : Quiet_(Absent(v, t)) BY <1>1 DEF Absent
<1>9. /\ Quiet_(ReadObservation(w, t)) /\ Quiet_(Exists(w, t)) /\ Quiet_(Removed(w, t))
      /\ Quiet_(Written(t, step.content)) /\ \A obs \in Search(w, t) : Quiet_(obs)
      /\ \A obs \in Confirmations : Quiet_(obs)
  BY <1>1, <1>2, <1>8
     DEF ReadObservation, Exists, Removed, Written, Search, Confirmations
<1>10. \/ out \in Same(w, {InvokeErr}) \/ out \in Same(w, Discover(d))
       \/ out \in Same(w, {ReadObservation(w, t)} \cup faulty)
       \/ out \in Same(w, Search(w, t) \cup faulty)
       \/ out \in Same(w, {Exists(w, t)} \cup faulty)
       \/ out \in Same(w, faulty) \/ out \in Same(w, {Absent("NO_OP", t)})
       \/ out = Step([w EXCEPT ![t] = step.content], Written(t, step.content))
       \/ \E obs \in {Removed(w, t)} \cup Confirmations :
            out = Step([w EXCEPT ![t] = NoFile], obs)
  BY DEF Invocations, Capabilities
<1> HIDE DEF Quiet_, faulty, t
<1> QED BY <1>3, <1>4, <1>5, <1>6, <1>7, <1>8, <1>9, <1>10

\* An invocation is no stop.
LEMMA SInvokeOK ==
  ASSUME IInv, SInv, NEW c \in Callers, Invoke(c) \/ InvokeRecreated(c) PROVE SInv'
<1>1. run[c].pc = "invoke" BY DEF Invoke, InvokeRecreated, At
<1>2. UNCHANGED <<x, admission, st, cancelled, done>> BY DEF Invoke, InvokeRecreated
<1>3. x # NoRequest /\ StepOf(c).cap \in Capabilities /\ run[c].step \in DOMAIN Program
  BY <1>1, AtWork DEF StepPCs, RunOK
<1>4. PICK obs : /\ run' = [run EXCEPT ![c].pc = "evaluate", ![c].obs = obs]
                 /\ obs.error /\ obs.cause # None => done[c] \/ StepOf(c).cap = "command.run"
  <2>1. CASE Invoke(c)
    <3>1. PICK out \in Invocations(StepOf(c), ws, done[c]) :
            run' = [run EXCEPT ![c].pc = "evaluate", ![c].obs = out.obs]
      BY <2>1 DEF Invoke
    <3>2. out.obs.error /\ out.obs.cause # None => done[c] \/ StepOf(c).cap = "command.run"
      BY <1>3, CauseOfError
    <3> QED BY <3>1, <3>2
  <2>2. CASE InvokeRecreated(c)
    <3>1. PICK out \in Recreations(StepOf(c), ws, done[c]) :
            run' = [run EXCEPT ![c].pc = "evaluate", ![c].obs = out.obs]
      BY <2>2 DEF InvokeRecreated
    <3>2. ~out.obs.error BY DEF Recreations, Step, Failed, Observation
    <3> QED BY <3>1, <3>2
  <2> QED BY <2>1, <2>2
<1> DEFINE r == [run[c] EXCEPT !.pc = "evaluate", !.obs = obs]
<1>5. run[c] \in Runs /\ LegitRun(c, run[c]) /\ ~run[c].obs.error
  BY <1>1, LegitMoves, NoError DEF Outgoing
<1>6. /\ r.block = run[c].block /\ r.result = run[c].result /\ r.obs = obs
      /\ r.step = run[c].step /\ r.pc \in Outgoing
  BY <1>5 DEF Runs, Outgoing
<1>7. run' = [run EXCEPT ![c] = r] BY <1>4 DEF IInv, TypeOK
<1> HIDE DEF r
<1>8. LegitRun(c, r) BY <1>3, <1>4, <1>5, <1>6 DEF LegitRun, MayFollow, StepOf
<1>9. Legit(st'.terminal.outcome) BY <1>2 DEF SInv
<1> QED BY <1>2, <1>7, <1>8, <1>9, LegitStep

\* A failed invocation under an ended context is a stop somebody asked for.
LEMMA LegitStopClass ==
  ASSUME NEW c \in Callers, done[c] PROVE Legit(StopClass)
BY DEF Legit, StopClass

\* Under a live context its class is the kernel's own, or a command's doing.
LEMMA LegitErrorClass ==
  ASSUME SInv, NEW c \in Callers, run[c].obs.error, ~done[c]
  PROVE  Legit(classForCapabilityError(run[c].obs))
<1>1. run[c].obs.cause # None => CommandEnded(run[c].obs.cause)
  BY DEF SInv, LegitRun, MayFollow, CommandEnded, StepOf
<1>2. "CANCELED" # None /\ "DEADLINE_EXCEEDED" # None BY DEF None
<1> QED BY <1>1, <1>2 DEF classForCapabilityError, Legit

\* runStep after Invoke.
LEMMA SEvaluateOK == ASSUME IInv, SInv, NEW c \in Callers, Evaluate(c) PROVE SInv'
<1> DEFINE e == [ForStep("capability.invoked", StepOf(c)) EXCEPT
                   !.axis = ProviderAxis(run[c].obs), !.bytes = run[c].obs.charged,
                   !.evidence = Records(StepOf(c), run[c].obs)]
<1>1. UNCHANGED <<x, admission, cancelled, done>> BY DEF Evaluate
<1>2. {"CAPABILITY_FAILURE", "EXECUTION_FAILURE"} \subseteq OwnClasses
  BY DEF FailureClasses, OwnClasses
<1>3. CASE /\ run[c].obs.error /\ UNCHANGED st
           /\ Stop(c, IF done[c] THEN StopClass ELSE classForCapabilityError(run[c].obs))
  <2>1. CASE done[c] BY <1>1, <1>3, <2>1, LegitStopClass, StopClassType, LegitStop
  <2>2. CASE ~done[c]
    <3> DEFINE k == classForCapabilityError(run[c].obs)
    <3>1. k \in FailureClasses /\ Legit(k) BY <1>3, <2>2, ErrorClassType, LegitErrorClass
    <3>2. Stop(c, k) BY <1>3, <2>2
    <3> HIDE DEF k
    <3> QED BY <1>1, <1>3, <3>1, <3>2, LegitStop
  <2> QED BY <2>1, <2>2
<1>4. CASE /\ ~AllowsOutput(x.spec.budget, st, run[c].obs.output)
           /\ BlockStep(c, "BUDGET_EXHAUSTED")
  <2>1. run[c].pc = "evaluate" BY DEF Evaluate, At
  <2>2. x # NoRequest BY <2>1, AtWork
  <2>3. x.spec.budget.bytes > 0 BY <1>4 DEF AllowsOutput
  <2>4. Exceeding BY <2>2, <2>3 DEF Exceeding, Fits
  <2>5. Legit("BUDGET_EXHAUSTED") /\ "BUDGET_EXHAUSTED" \in FailureClasses
    BY <2>4 DEF Legit, FailureClasses
  <2> QED BY <1>1, <1>4, <2>5, LegitBlockStep
<1>5. CASE Stop(c, "CAPABILITY_FAILURE") /\ UNCHANGED st
  BY <1>1, <1>2, <1>5, LegitClasses, LegitStop
<1>6. CASE /\ EmitOr(c, e, At1(run[c], "evidence"), Blocked(run[c], "EXECUTION_FAILURE"))
           /\ ~run[c].obs.error
  <2>1. e.kind # "execution.failed" BY DEF ForStep, EventOf
  <2>2. "evidence" \in PCs BY DEF PCs
  <2> HIDE DEF e
  <2> QED BY <1>1, <1>2, <1>6, <2>1, <2>2, LegitEmitOrBlock
<1> QED BY <1>3, <1>4, <1>5, <1>6 DEF Evaluate

\* The three boundary events of a step.
LEMMA SProjectOK ==
  ASSUME IInv, SInv, NEW c \in Callers,
         Evidence(c) \/ ProjectMutation(c) \/ ProjectArtifact(c)
  PROVE  SInv'
<1> DEFINE e(kind) == [ForStep(kind, StepOf(c)) EXCEPT
                         !.evidence = Records(StepOf(c), run[c].obs)]
<1>1. UNCHANGED <<x, admission, cancelled, done>> BY DEF Evidence, ProjectMutation, ProjectArtifact
<1>2. {"EXECUTION_FAILURE", "MUTATION_FAILURE", "ARTIFACT_FAILURE"} \subseteq OwnClasses
        /\ {"mutation", "artifact", "next"} \subseteq PCs
  BY DEF FailureClasses, OwnClasses, PCs
<1>3. \A kind : e(kind).kind = kind BY DEF ForStep, EventOf
<1>6. ~run[c].obs.error
  BY NoError DEF Evidence, ProjectMutation, ProjectArtifact, At, Outgoing
<1>4. \/ Goto(c, "mutation") /\ UNCHANGED st
      \/ EmitOr(c, e("evidence.produced"), At1(run[c], "mutation"),
                Blocked(run[c], "EXECUTION_FAILURE"))
      \/ Goto(c, "artifact") /\ UNCHANGED st
      \/ EmitOr(c, e("mutation.applied"), At1(run[c], "artifact"),
                Blocked(run[c], "MUTATION_FAILURE"))
      \/ Goto(c, "next") /\ UNCHANGED st
      \/ EmitOr(c, e("artifact.produced"), At1(run[c], "next"),
                Blocked(run[c], "ARTIFACT_FAILURE"))
  BY DEF Evidence, ProjectMutation, ProjectArtifact
<1> HIDE DEF e
<1>5. e("evidence.produced").kind # "execution.failed"
        /\ e("mutation.applied").kind # "execution.failed"
        /\ e("artifact.produced").kind # "execution.failed"
  BY <1>3
<1> QED BY <1>1, <1>2, <1>4, <1>5, <1>6, LegitGoto, LegitEmitOrBlock

\* The context check after a step.
LEMMA SNextStepOK == ASSUME IInv, SInv, NEW c \in Callers, NextStep(c) PROVE SInv'
<1>1. UNCHANGED <<x, admission, st, cancelled, done>> BY DEF NextStep
<1>2. run[c] \in Runs /\ LegitRun(c, run[c]) BY LegitMoves
<1>6. ~run[c].obs.error BY NoError DEF NextStep, At, Outgoing
<1>3. Legit(st'.terminal.outcome) BY <1>1 DEF SInv
<1>4. CASE done[c] /\ run' = [run EXCEPT ![c].pc = "fail", ![c].block = StopClass]
  <2> DEFINE r == [run[c] EXCEPT !.pc = "fail", !.block = StopClass]
  <2>1. LegitRun(c, r) BY <1>4, StopClassType, LegitStopClass, LegitMoves
  <2>2. run' = [run EXCEPT ![c] = r] BY <1>4 DEF IInv, TypeOK
  <2> HIDE DEF r
  <2> QED BY <1>1, <1>3, <2>1, <2>2, LegitStep
<1>5. CASE run' = [run EXCEPT ![c].pc = "check", ![c].step = @ + 1]
  <2> DEFINE r == [run[c] EXCEPT !.pc = "check", !.step = run[c].step + 1]
  <2>1. r.block = run[c].block /\ r.result = run[c].result /\ r.obs = run[c].obs
    BY <1>2 DEF Runs
  <2>2. run' = [run EXCEPT ![c] = r] BY <1>5 DEF IInv, TypeOK
  <2>4. Legit(run[c].block) /\ Legit(run[c].result) BY <1>2 DEF LegitRun
  <2> HIDE DEF r
  <2>3. LegitRun(c, r) BY <1>6, <2>1, <2>4, LegitUpdate
  <2> QED BY <1>1, <1>3, <2>2, <2>3, LegitStep
<1> QED BY <1>4, <1>5 DEF NextStep

\* verify and the verifier: their blocks have a class of the kernel's own.
LEMMA SVerifyOK ==
  ASSUME IInv, SInv, NEW c \in Callers, Verify(c) \/ Conclude(c) PROVE SInv'
<1> DEFINE own == OwnClasses
<1>1. UNCHANGED <<x, admission, cancelled, done>> BY DEF Verify, Conclude
<1>2. "VERIFICATION_FAILURE" \in OwnClasses /\ {"settle", "judge"} \subseteq PCs
  BY DEF FailureClasses, OwnClasses, PCs
<1>3. CASE Stop(c, "VERIFICATION_FAILURE") /\ UNCHANGED st
  BY <1>1, <1>2, <1>3, LegitClasses, LegitStop
<1>7. ~run[c].obs.error BY NoError DEF Verify, Conclude, At, Outgoing
<1>4. ASSUME NEW kind, kind # "execution.failed", NEW pc \in PCs,
             EmitOr(c, EventOf(kind), At1(run[c], pc), Blocked(run[c], "VERIFICATION_FAILURE"))
      PROVE  SInv'
  <2>1. EventOf(kind).kind # "execution.failed" BY <1>4 DEF EventOf
  <2> QED BY <1>1, <1>2, <1>4, <1>7, <2>1, LegitEmitOrBlock
<1>5. CASE Verify(c) BY <1>2, <1>3, <1>4, <1>5 DEF Verify
<1>6. CASE Conclude(c)
  <2> DEFINE v == run[c].verdict
             b == Blocked(run[c], "VERIFICATION_FAILURE")
             kind == CASE v = "PASS" -> "verification.passed"
                       [] v = "NOT_APPLICABLE" -> "verification.skipped"
                       [] OTHER -> "verification.failed"
             a == IF v \in {"PASS", "NOT_APPLICABLE"} THEN At1(run[c], "settle") ELSE b
  <2>1. EventOf(kind).kind # "execution.failed" BY DEF EventOf
  <2>2. LegitRun(c, b) /\ b \in Runs BY <1>2, LegitClasses, LegitMoves
  <2>3. LegitRun(c, a) /\ a \in Runs BY <1>2, <1>7, <2>2, LegitMoves
  <2>4. EmitOr(c, EventOf(kind), a, b) BY <1>6 DEF Conclude
  <2> HIDE DEF a, b, kind
  <2> QED BY <1>1, <2>1, <2>2, <2>3, <2>4, LegitEmit
<1> QED BY <1>5, <1>6

\* The verifier's walk, the return, and the append of an event.
LEMMA SQuietOK ==
  ASSUME IInv, SInv, NEW c \in Callers,
         JudgeTarget(c) \/ Return(c) \/ AppendEvent(c) \/ Fail(c)
  PROVE  SInv'
<1>1. UNCHANGED <<x, admission, st, cancelled, done>>
  BY DEF JudgeTarget, Return, AppendEvent, Fail
<1>2. run[c] \in Runs /\ LegitRun(c, run[c]) /\ Legit(st.terminal.outcome)
  BY LegitMoves DEF SInv
<1>3. ASSUME NEW r, r.block = run[c].block, r.result \in {run[c].result, st.terminal.outcome},
             r.obs = run[c].obs, r.step = run[c].step,
             r.pc \in {run[c].pc} \cup Outgoing \/ ~run[c].obs.error,
             run' = [run EXCEPT ![c] = r]
      PROVE  SInv'
  <2>1. Legit(r.block) /\ Legit(r.result) BY <1>2, <1>3 DEF LegitRun
  <2>2. run[c].obs.error => r.pc \in Outgoing BY <1>3, NoError
  <2>3. LegitRun(c, r) BY <1>3, <2>1, <2>2, LegitUpdate
  <2> QED BY <1>1, <1>2, <1>3, <2>3, LegitStep
<1>4. CASE JudgeTarget(c)
  <2>3. ~run[c].obs.error BY <1>4, NoError DEF JudgeTarget, At, Outgoing
  <2>1. ASSUME NEW v, Concludes(c, v) PROVE SInv'
    <3> DEFINE r == [run[c] EXCEPT !.pc = "verdict", !.verdict = v]
    <3>1. /\ r.block = run[c].block /\ r.result = run[c].result /\ r.obs = run[c].obs
          /\ r.step = run[c].step
      BY <1>2 DEF Runs
    <3>2. run' = [run EXCEPT ![c] = r] BY <2>1 DEF Concludes, IInv, TypeOK
    <3> HIDE DEF r
    <3> QED BY <1>3, <2>3, <3>1, <3>2
  <2>2. CASE run' = [run EXCEPT ![c].target = @ + 1]
    <3> DEFINE r == [run[c] EXCEPT !.target = run[c].target + 1]
    <3>1. /\ r.block = run[c].block /\ r.result = run[c].result /\ r.obs = run[c].obs
          /\ r.step = run[c].step
      BY <1>2 DEF Runs
    <3>2. run' = [run EXCEPT ![c] = r] BY <2>2 DEF IInv, TypeOK
    <3> HIDE DEF r
    <3> QED BY <1>3, <2>3, <3>1, <3>2
  <2> QED BY <1>4, <2>1, <2>2 DEF JudgeTarget
<1>5. CASE Return(c)
  <2> DEFINE r == [run[c] EXCEPT !.pc = "done", !.result = st.terminal.outcome]
  <2>1. /\ r.block = run[c].block /\ r.result = st.terminal.outcome /\ r.obs = run[c].obs
        /\ r.step = run[c].step /\ r.pc \in Outgoing
    BY <1>2 DEF Runs, Outgoing
  <2>2. run' = [run EXCEPT ![c] = r] BY <1>5 DEF Return, IInv, TypeOK
  <2> HIDE DEF r
  <2> QED BY <1>3, <2>1, <2>2
<1>6. CASE AppendEvent(c)
  <2> DEFINE r == [run[c] EXCEPT !.outbox = NoEvent]
  <2>1. /\ r.block = run[c].block /\ r.result = run[c].result /\ r.obs = run[c].obs
        /\ r.step = run[c].step /\ r.pc = run[c].pc
    BY <1>2 DEF Runs
  <2>2. run' = [run EXCEPT ![c] = r] BY <1>6 DEF AppendEvent, IInv, TypeOK
  <2> HIDE DEF r
  <2> QED BY <1>3, <2>1, <2>2
<1>7. CASE Fail(c)
  <2>1. Goto(c, "settle") \/ Goto(c, "failing") BY <1>7 DEF Fail
  <2> QED BY <1>1, <2>1, LegitGoto DEF PCs, Outgoing
<1> QED BY <1>4, <1>5, <1>6, <1>7

\* Run overrides a block by the cancellation it sees.
LEMMA SStoppedOK == ASSUME IInv, SInv, NEW c \in Callers, Stopped(c) PROVE SInv'
<1> DEFINE k == IF cancelled THEN "CANCELLED" ELSE run[c].block
           r == [run[c] EXCEPT !.pc = "fail", !.block = k]
<1>1. run[c] \in Runs /\ LegitRun(c, run[c]) /\ Legit(st.terminal.outcome)
  BY LegitMoves DEF SInv
<1>2. Legit(k) /\ Legit(run[c].result) BY <1>1 DEF Legit, LegitRun
<1>3. /\ r.block = k /\ r.result = run[c].result /\ r.obs = run[c].obs
      /\ r.step = run[c].step /\ r.pc \in Outgoing
  BY <1>1 DEF Runs, Outgoing
<1>4. run' = [run EXCEPT ![c] = r] BY DEF Stopped, IInv, TypeOK
<1> HIDE DEF k, r
<1>5. LegitRun(c, r) BY <1>2, <1>3, LegitUpdate
<1>6. UNCHANGED <<x, admission, st, cancelled, done>> BY DEF Stopped
<1> QED BY <1>1, <1>4, <1>5, <1>6, LegitStep

\* The two settling emissions; a refused one returns the class's own outcome.
LEMMA SSettlingOK ==
  ASSUME IInv, SInv, NEW c \in Callers, Failing(c) \/ Settle(c) PROVE SInv'
<1>1. run[c] \in Runs /\ LegitRun(c, run[c]) BY LegitMoves
<1>2. At1(run[c], "return") \in Runs /\ LegitRun(c, At1(run[c], "return"))
  BY LegitMoves DEF PCs, Outgoing
<1>3. UNCHANGED <<x, admission, cancelled, done>> BY DEF Failing, Settle
<1>4. ASSUME NEW o, Legit(o) PROVE LegitRun(c, [run[c] EXCEPT !.pc = "done", !.result = o])
  <2> DEFINE r == [run[c] EXCEPT !.pc = "done", !.result = o]
  <2>1. /\ r.block = run[c].block /\ r.result = o /\ r.obs = run[c].obs
        /\ r.step = run[c].step /\ r.pc \in Outgoing
    BY <1>1 DEF Runs, Outgoing
  <2>3. Legit(run[c].block) BY <1>1 DEF LegitRun
  <2> HIDE DEF r
  <2>2. LegitRun(c, r) BY <1>4, <2>1, <2>3, LegitUpdate
  <2> QED BY <2>2 DEF r
<1>5. CASE Failing(c)
  <2> DEFINE e == [EventOf("execution.failed") EXCEPT !.class = run[c].block]
             o == OutcomeForClass(run[c].block)
  <2>1. e.class = run[c].block BY DEF EventOf
  <2>2. Legit(run[c].block) BY <1>1 DEF LegitRun
  <2>3. LegitRun(c, [run[c] EXCEPT !.pc = "done", !.result = o]) BY <1>4, <2>2, LegitOutcome
  <2>4. EmitOr(c, e, At1(run[c], "return"), [run[c] EXCEPT !.pc = "done", !.result = o])
    BY <1>5 DEF Failing
  <2> HIDE DEF e, o
  <2> QED BY <1>2, <1>3, <2>1, <2>2, <2>3, <2>4, LegitEmit
<1>6. CASE Settle(c)
  <2>1. EventOf("execution.finished").kind # "execution.failed" BY DEF EventOf
  <2>2. LegitRun(c, [run[c] EXCEPT !.pc = "done", !.result = "UNSUBSTANTIATED"])
    BY <1>4, LegitClasses
  <2> QED BY <1>2, <1>3, <1>6, <2>1, <2>2, LegitEmit DEF Settle
<1> QED BY <1>5, <1>6

\* Every step keeps every stop attributed.
LEMMA SNextOK == IInv /\ Charged /\ SInv /\ [Next]_vars => SInv'
<1> SUFFICES ASSUME IInv, Charged, SInv, [Next]_vars PROVE SInv' OBVIOUS
<1>1. ASSUME NEW c \in Callers, Work(c) PROVE SInv'
  BY <1>1, SEnterOK, SStartOK, SCheckOK, SDispatchOK, SInvokeOK, SEvaluateOK, SProjectOK,
     SNextStepOK, SVerifyOK, SQuietOK, SStoppedOK, SSettlingOK DEF Work
<1>2. CASE UNCHANGED vars
  BY <1>2 DEF vars, SInv, LegitRun, MayFollow, Legit, Exceeding, CommandEnded, StepOf, Program
<1> QED BY <1>1, <1>2, SOpenOK, SEnvironmentOK DEF Next

\* The account and the stops, in every reachable state.
LEMMA StopsKept == Spec => [](Charged /\ SInv)
<1>1. Init => Charged /\ SInv BY ChargedInit, SInitOK
<1>2. /\ IInv /\ IInv' /\ RecordInv /\ DispatchInv /\ Charged /\ SInv /\ [Next]_vars
      => Charged' /\ SInv'
  BY ChargedStep, SNextOK DEF RecordInv, DispatchInv
<1> QED BY <1>1, <1>2, Invariance, RecordKept, Dispatched, PTL DEF Spec

\* A stop is attributed to whoever asked for it, in the verdict and in every
\* result of Run: CANCELLED is never reported unless Cancel was called, nor
\* INTERRUPTED unless the context of some caller had ended, or command.run
\* failed with the end of a context of its own (classForCapabilityError).
THEOREM StopsAttributed == Spec => []StopsAreAttributed
<1>1. IInv /\ SInv => StopsAreAttributed BY DEF SInv, LegitRun, Legit, StopsAreAttributed
<1> QED BY <1>1, StopsKept, Invariance, PTL

\* The outcome o was asked for: by a Cancel, or by the end of a context.
AskedFor(o) ==
  /\ o = "CANCELLED"   => cancelled
  /\ o = "INTERRUPTED" => \E c \in Callers : done[c]

\* Over the repository's own capabilities, none of which is a command.run, every
\* stop was asked for: neither the verdict nor any result of Run is CANCELLED
\* without a Cancel, or INTERRUPTED without an ended context.
THEOREM OwnStopsAreAskedFor ==
  ASSUME "command.run" \notin Registered
  PROVE  Spec => [](AskedFor(st.terminal.outcome) /\ \A c \in Callers : AskedFor(run[c].result))
<1>1. ASSUME IInv, SInv, NEW k PROVE ~CommandEnded(k)
  <2> SUFFICES ASSUME NEW c \in Callers, run[c].obs.error, StepOf(c).cap = "command.run"
               PROVE  FALSE
    BY DEF CommandEnded
  <2>1. x # NoRequest /\ run[c].step \in DOMAIN Program
    BY <1>1 DEF SInv, LegitRun, MayFollow
  <2>2. ValidSpec(x.spec, Registered)
    BY <1>1, <2>1 DEF IInv, Admitted, AdmissionRefusal, None
  <2>3. StepOf(c) \in StepsOf(x.spec) BY <2>1 DEF StepOf, Program, StepsOf
  <2> QED BY <2>2, <2>3 DEF ValidSpec
<1>2. IInv /\ SInv =>
        AskedFor(st.terminal.outcome) /\ \A c \in Callers : AskedFor(run[c].result)
  BY <1>1 DEF SInv, LegitRun, Legit, AskedFor
<1> QED BY <1>2, StopsKept, Invariance, PTL

\* BUDGET_EXHAUSTED is never the outcome of a request whose program has room in
\* its budget: the account runs ahead of no step, whatever fails, and however
\* many callers race (the account is charged once, by the runner).
THEOREM BudgetIsRefused ==
  Spec => [](st.terminal.outcome = "BUDGET_EXHAUSTED" => Exceeding)
<1>1. SInv => (st.terminal.outcome = "BUDGET_EXHAUSTED" => Exceeding) BY DEF SInv, Legit
<1> QED BY <1>1, StopsKept, PTL

-----------------------------------------------------------------------------
(***************************************************************************)
(* The executions of the four entry points, over any targets and contents. *)
(***************************************************************************)
WriteSets == Seq([target : Targets, content : Contents, contract : STRING])

EntryPoints ==
  Observes(Seq(Targets)) \cup ReadFiles(Seq(Targets)) \cup Deletes(Seq(Targets))
    \cup Applies(WriteSets)

\* The program of a set of writes is observation and write in turn.
InTurn(sp, w) ==
  \A k \in 1..(2 * Len(w)) :
    /\ (k + 1) \div 2 \in DOMAIN w
    /\ sp.program[k].target = w[(k + 1) \div 2].target
    /\ sp.program[k].cap = IF k % 2 = 1 THEN "file.exists" ELSE "file.write"

\* What mutationSpec makes of a prepared set of writes.
LEMMA MutationProgram ==
  ASSUME NEW w \in WriteSets, Prepared(w), NEW sp, sp = mutationSpec(w)
  PROVE  /\ Len(sp.program) = 2 * Len(w) /\ DOMAIN sp.program = 1..(2 * Len(w))
         /\ InTurn(sp, w)
         /\ sp.budget = Budget(2 * Len(w), Len(w))
         /\ sp.kind = w[1].contract /\ sp.reqVerify
         /\ sp.targets = [i \in DOMAIN w |-> w[i].target]
<1> DEFINE F == [k \in 1..(2 * Len(w)) |->
                   LET i == (k + 1) \div 2 IN
                   IF k % 2 = 1 THEN StepFor(Named("pre-", i), "file.exists", w[i].target)
                   ELSE [StepFor(Named("write-", i), "file.write", w[i].target)
                           EXCEPT !.content = w[i].content]]
<1>1. Len(w) \in Nat /\ DOMAIN w = 1..Len(w) BY DEF WriteSets
<1>2. sp.program = F BY DEF mutationSpec, SpecOf
<1>3. ASSUME NEW k \in 1..(2 * Len(w))
      PROVE  /\ (k + 1) \div 2 \in DOMAIN w
             /\ F[k].target = w[(k + 1) \div 2].target
             /\ F[k].cap = IF k % 2 = 1 THEN "file.exists" ELSE "file.write"
  <2>1. (k + 1) \div 2 \in 1..Len(w) BY <1>1
  <2>2. F[k] = IF k % 2 = 1
               THEN StepFor(Named("pre-", (k + 1) \div 2), "file.exists", w[(k + 1) \div 2].target)
               ELSE [StepFor(Named("write-", (k + 1) \div 2), "file.write", w[(k + 1) \div 2].target)
                       EXCEPT !.content = w[(k + 1) \div 2].content]
    OBVIOUS
  <2> HIDE DEF F
  <2>3. CASE k % 2 = 1 BY <1>1, <2>1, <2>2, <2>3 DEF StepFor
  <2>4. CASE k % 2 # 1 BY <1>1, <2>1, <2>2, <2>4 DEF StepFor
  <2> QED BY <2>3, <2>4
<1>4. DOMAIN F = 1..(2 * Len(w)) OBVIOUS
<1>5. Len(F) = 2 * Len(w) BY <1>1
<1> HIDE DEF F
<1>6. /\ sp.budget = Budget(2 * Len(w), Len(w)) /\ sp.kind = w[1].contract /\ sp.reqVerify
      /\ sp.targets = [i \in DOMAIN w |-> w[i].target]
  BY DEF mutationSpec, SpecOf
<1> QED BY <1>2, <1>3, <1>4, <1>5, <1>6 DEF InTurn

\* The first n numbers are n.
LEMMA UpTo == \A n \in Nat : IsFiniteSet(1..n) /\ Cardinality(1..n) = n
<1> TAKE n \in Nat
<1> QED BY FS_Interval

\* Half of the steps of such a program are observations, half are writes.
LEMMA HalfOfEach ==
  ASSUME NEW n \in Nat, NEW b \in {0, 1}
  PROVE  LET S == {k \in 1..(2 * n) : k % 2 = b}
         IN  IsFiniteSet(S) /\ Cardinality(S) <= n
<1> DEFINE S == {k \in 1..(2 * n) : k % 2 = b}
           f == [k \in S |-> (k + 1) \div 2]
<1>1. \A k \in S : (k + 1) \div 2 \in 1..n OBVIOUS
<1>2. f \in [S -> 1..n] BY <1>1
<1>3. \A k, j \in S : (k + 1) \div 2 = (j + 1) \div 2 => k = j OBVIOUS
<1>4. f \in Injection(S, 1..n) BY <1>2, <1>3 DEF Injection, IsInjective
<1>5. IsFiniteSet(1..n) /\ Cardinality(1..n) = n BY FS_Interval
<1> HIDE DEF S, f
<1>6. IsFiniteSet(S) /\ Cardinality(S) <= Cardinality(1..n)
  BY <1>4, <1>5, FS_Injection
<1> QED BY <1>5, <1>6 DEF S

\* What the four entry points have in common: something to check it by, which
\* applies, no bound on the output, and room for every step.
EntryShape(r) ==
  /\ r.verifier \in {"agreement", "read", "absence", "content"}
  /\ r.spec.reqVerify /\ ~NotApplicable(r.verifier, r.spec)
  /\ Fits(r.spec)
  /\ \A i \in DOMAIN r.spec.program :
       /\ r.verifier = "agreement" => r.spec.program[i].cap = "file.exists"
       /\ r.verifier = "read"      => r.spec.program[i].cap = "file.read"
       /\ r.verifier = "absence"   => r.spec.program[i].cap = "file.delete"
       /\ r.verifier = "content"   => r.spec.program[i].cap \in {"file.exists", "file.write"}
  /\ r.verifier = "content" =>
       \A i, j \in DOMAIN r.spec.program :
         /\ r.spec.program[i].cap = "file.exists" /\ r.spec.program[j].cap = "file.write"
         /\ r.spec.program[i].target = r.spec.program[j].target
         => i < j

\* A program that uses one capability, once for every target, fits.
LEMMA PlainFits ==
  ASSUME NEW ts \in Seq(Targets), NEW sp, DOMAIN sp.program = DOMAIN ts,
         Len(sp.program) = Len(ts), NEW n \in Int, Len(ts) <= n,
         NEW m, m \in {0, Len(ts)}, sp.budget = Budget(n, m)
  PROVE  Fits(sp)
<1>1. Len(ts) \in Nat /\ DOMAIN ts = 1..Len(ts) OBVIOUS
<1>2. sp.budget.bytes = 0 /\ sp.budget.steps = n /\ sp.budget.perCap = m BY DEF Budget
<1>3. ASSUME NEW cap PROVE Cardinality(UsesOf(sp, Len(sp.program), cap)) <= Len(ts)
  <2>1. UsesOf(sp, Len(sp.program), cap) \subseteq 1..Len(ts) BY <1>1 DEF UsesOf
  <2>2. IsFiniteSet(1..Len(ts)) /\ Cardinality(1..Len(ts)) = Len(ts) BY <1>1, UpTo
  <2>3. Cardinality(UsesOf(sp, Len(sp.program), cap)) <= Cardinality(1..Len(ts))
    BY <2>1, <2>2, FS_Subset
  <2> QED BY <2>2, <2>3
<1>4. \A cap \in Capabilities : Cardinality(UsesOf(sp, Len(sp.program), cap)) <= Len(ts) BY <1>3
<1>5. sp.budget.perCap > 0 => sp.budget.perCap = Len(ts)
  <2>1. CASE m = 0 BY <1>2, <2>1
  <2>2. CASE m = Len(ts) BY <1>2, <2>2
  <2> QED BY <2>1, <2>2
<1> QED BY <1>1, <1>2, <1>4, <1>5 DEF Fits

\* A program of observations and writes fits its budget.
LEMMA MutationFits ==
  ASSUME NEW w \in WriteSets, Prepared(w), NEW sp, sp = mutationSpec(w)
  PROVE  Fits(sp)
<1> DEFINE N == 2 * Len(w)
<1>1. Len(w) \in Nat /\ N \in Nat BY DEF WriteSets
<1>2. /\ Len(sp.program) = N /\ DOMAIN sp.program = 1..N
      /\ sp.budget = Budget(N, Len(w))
  BY MutationProgram
<1>6. \A k \in 1..N :
        sp.program[k].cap = IF k % 2 = 1 THEN "file.exists" ELSE "file.write"
  <2>1. InTurn(sp, w) BY MutationProgram
  <2> QED BY <2>1 DEF InTurn
<1>4. sp.budget.bytes = 0 /\ sp.budget.steps = N /\ sp.budget.perCap = Len(w)
  BY <1>2 DEF Budget
<1>3. ASSUME NEW cap PROVE Cardinality(UsesOf(sp, Len(sp.program), cap)) <= Len(w)
  <2> DEFINE S(b) == {k \in 1..N : k % 2 = b}
             U == UsesOf(sp, Len(sp.program), cap)
  <2>1. \A b \in {0, 1} : IsFiniteSet(S(b)) /\ Cardinality(S(b)) <= Len(w)
    BY <1>1, HalfOfEach
  <2>2. \A k \in 1..N : k % 2 \in {0, 1} BY <1>1
  <2>3. \E b \in {0, 1} : U \subseteq S(b)
    <3>1. CASE cap = "file.exists"
      <4>1. U \subseteq S(1) BY <1>1, <1>2, <1>6, <3>1 DEF UsesOf
      <4> QED BY <4>1
    <3>2. CASE cap # "file.exists"
      <4>1. U \subseteq S(0) BY <1>1, <1>2, <1>6, <2>2, <3>2 DEF UsesOf
      <4> QED BY <4>1
    <3> QED BY <3>1, <3>2
  <2> HIDE DEF S, U
  <2>4. PICK b \in {0, 1} : U \subseteq S(b) BY <2>3
  <2>5. /\ IsFiniteSet(S(b)) /\ Cardinality(S(b)) <= Len(w) /\ Cardinality(S(b)) \in Nat
        /\ Cardinality(U) \in Nat /\ Cardinality(U) <= Cardinality(S(b))
    BY <2>1, <2>4, FS_Subset, FS_CardinalityType
  <2>6. Cardinality(U) <= Len(w) BY <1>1, <2>5
  <2> QED BY <2>6 DEF U
<1>5. \A cap \in Capabilities : Cardinality(UsesOf(sp, Len(sp.program), cap)) <= Len(w) BY <1>3
<1> HIDE DEF N
<1> QED BY <1>1, <1>2, <1>4, <1>5 DEF Fits

\* The spec of a program of one capability over its targets.
LEMMA PlainShape ==
  ASSUME NEW ts \in Seq(Targets), ts # <<>>, NEW n \in Int, Len(ts) <= n, NEW m \in {0, Len(ts)},
         NEW pre, NEW cap, NEW kind, NEW r,
         r.spec = SpecOf(kind, ts, [i \in DOMAIN ts |-> StepFor(Named(pre, i), cap, ts[i])],
                         Budget(n, m)),
         \/ r.verifier = "agreement" /\ cap = "file.exists" /\ kind = "OBSERVE"
         \/ r.verifier = "read" /\ cap = "file.read" /\ kind = "OBSERVE"
         \/ r.verifier = "absence" /\ cap = "file.delete" /\ kind = "DELETE"
  PROVE  EntryShape(r)
<1> DEFINE P == [i \in DOMAIN ts |-> StepFor(Named(pre, i), cap, ts[i])]
<1>1. /\ r.spec.program = P /\ r.spec.budget = Budget(n, m) /\ r.spec.kind = kind
      /\ r.spec.targets = ts /\ r.spec.reqVerify
  BY DEF SpecOf
<1>2. DOMAIN P = DOMAIN ts /\ \A i \in DOMAIN ts : P[i].cap = cap BY DEF StepFor
<1>3. Len(P) = Len(ts) OBVIOUS
<1> HIDE DEF P
<1>4. Fits(r.spec) BY <1>1, <1>2, <1>3, PlainFits
<1>5. ~NotApplicable(r.verifier, r.spec) BY <1>1 DEF NotApplicable
<1> QED BY <1>1, <1>2, <1>4, <1>5 DEF EntryShape

\* Every execution of the bridge has that shape.
LEMMA EntriesAre == \A r \in EntryPoints : r \in Requests => EntryShape(r)
<1> SUFFICES ASSUME NEW r \in EntryPoints, r \in Requests PROVE EntryShape(r) OBVIOUS
<1>0. \A sp, caps, v : Bound(sp, caps, v).spec = sp /\ Bound(sp, caps, v).verifier = v BY DEF Bound
<1>b. r.spec.budget.steps \in Int /\ r.spec.budget.perCap \in Int
  BY EngineAssumption DEF RequestShape
<1>1. CASE r \in Observes(Seq(Targets))
  <2>1. PICK ts \in Seq(Targets) : /\ Bounded(ts, MaxObservedTargets)
                                   /\ r = Bound(observationSpec(ts), {"file.exists"}, "agreement")
    BY <1>1 DEF Observes
  <2>2. r.spec = observationSpec(ts) /\ r.verifier = "agreement" BY <1>0, <2>1
  <2>3. MaxObservedTargets \in Int BY <1>b, <2>2 DEF observationSpec, SpecOf, Budget
  <2> QED BY <2>1, <2>2, <2>3, PlainShape DEF Bounded, observationSpec
<1>2. CASE r \in ReadFiles(Seq(Targets))
  <2>1. PICK ts \in Seq(Targets) : /\ Bounded(ts, MaxObservedTargets)
                                   /\ r = Bound(readSpec(ts), {"file.read"}, "read")
    BY <1>2 DEF ReadFiles
  <2>2. r.spec = readSpec(ts) /\ r.verifier = "read" BY <1>0, <2>1
  <2>3. MaxObservedTargets \in Int BY <1>b, <2>2 DEF readSpec, SpecOf, Budget
  <2> QED BY <2>1, <2>2, <2>3, PlainShape DEF Bounded, readSpec
<1>3. CASE r \in Deletes(Seq(Targets))
  <2>1. PICK ts \in Seq(Targets) : /\ Bounded(ts, MaxAppliedTargets)
                                   /\ r = Bound(deletionSpec(ts), {"file.delete"}, "absence")
    BY <1>3 DEF Deletes
  <2>2. r.spec = deletionSpec(ts) /\ r.verifier = "absence" BY <1>0, <2>1
  <2>3. Len(ts) \in Int /\ Len(ts) <= Len(ts) OBVIOUS
  <2> QED BY <2>1, <2>2, <2>3, PlainShape DEF Bounded, deletionSpec
<1>4. CASE r \in Applies(WriteSets)
  <2>1. PICK w \in WriteSets :
          /\ Prepared(w)
          /\ r = Bound(mutationSpec(w), {"file.exists", "file.write"}, "content")
    BY <1>4 DEF Applies
  <2>2. r.spec = mutationSpec(w) /\ r.verifier = "content" BY <1>0, <2>1
  <2>3. Len(w) \in Nat \ {0} /\ DOMAIN w = 1..Len(w) BY <2>1 DEF WriteSets, Prepared
  <2> DEFINE N == 2 * Len(w)
             h(k) == (k + 1) \div 2
  <2>4. /\ DOMAIN r.spec.program = 1..N
        /\ \A k \in 1..N :
              /\ h(k) \in DOMAIN w
              /\ r.spec.program[k].target = w[h(k)].target
              /\ r.spec.program[k].cap = IF k % 2 = 1 THEN "file.exists" ELSE "file.write"
        /\ r.spec.kind = w[1].contract /\ r.spec.reqVerify
        /\ r.spec.targets = [i \in DOMAIN w |-> w[i].target]
    <3>1. /\ DOMAIN r.spec.program = 1..N /\ InTurn(r.spec, w)
          /\ r.spec.kind = w[1].contract /\ r.spec.reqVerify
          /\ r.spec.targets = [i \in DOMAIN w |-> w[i].target]
      BY <2>1, <2>2, MutationProgram
    <3> QED BY <3>1 DEF InTurn
  <2>5. w[1].contract \in {"CREATE", "PATCH"} BY <2>1, <2>3 DEF Prepared
  <2>6. r.spec.targets # <<>> BY <2>3, <2>4
  <2>7. ~NotApplicable(r.verifier, r.spec)
    BY <2>2, <2>4, <2>5, <2>6 DEF NotApplicable, RequiresMutation
  <2>8. Fits(r.spec) BY <2>1, <2>2, MutationFits
  <2>9. ASSUME NEW i \in 1..N, NEW j \in 1..N, i % 2 = 1, j % 2 # 1,
               r.spec.program[i].target = r.spec.program[j].target
        PROVE  i < j
    <3>1. h(i) \in DOMAIN w /\ h(j) \in DOMAIN w /\ w[h(i)].target = w[h(j)].target
      BY <2>4, <2>9
    <3>2. h(i) = h(j) BY <2>1, <3>1 DEF Prepared
    <3> QED BY <2>3, <2>9, <3>2
  <2> HIDE DEF N, h
  <2> QED BY <2>2, <2>4, <2>7, <2>8, <2>9 DEF EntryShape
<1> QED BY <1>1, <1>2, <1>3, <1>4 DEF EntryPoints

-----------------------------------------------------------------------------
\* The bounds written into the specs of the four entry points are never what
\* stops an execution: they fit the programs they are derived from, whatever
\* the targets and contents and however many callers run them.
THEOREM BridgeBoundsFit ==
  ASSUME Requests \subseteq EntryPoints
  PROVE  Spec => []BoundsFitTheProgram
<1>1. IInv /\ SInv => BoundsFitTheProgram
  <2> SUFFICES ASSUME IInv, SInv, st.terminal.outcome = "BUDGET_EXHAUSTED" PROVE FALSE
    BY DEF BoundsFitTheProgram
  <2>1. x # NoRequest /\ ~Fits(x.spec) BY DEF SInv, Legit, Exceeding
  <2>2. x \in Requests BY <2>1 DEF IInv, TypeOK
  <2> QED BY <2>1, <2>2, EntriesAre DEF EntryShape
<1> QED BY <1>1, StopsKept, Invariance, PTL

-----------------------------------------------------------------------------
(***************************************************************************)
(* What an invocation reports, against the disk it ran on.                 *)
(***************************************************************************)
FileKinds == {"FILE_READ", "FILE_PRESENT", "FILE_ABSENT", "FILE_WRITTEN", "FILE_DELETED"}

\* Each kind of fact comes from capabilities of its own, about their target.
Speaks(step, f) ==
  /\ f.kind \in FileKinds => f.target = step.target /\ step.target \in Targets
  /\ f.kind = "FILE_READ"    => step.cap \in {"file.read", "file.search"}
  /\ f.kind = "FILE_PRESENT" => step.cap \in {"file.exists", "file.write"}
  /\ f.kind = "FILE_ABSENT"  =>
       step.cap \in {"file.read", "file.search", "file.exists", "file.delete"}
  /\ f.kind = "FILE_WRITTEN" => step.cap = "file.write"
  /\ f.kind = "FILE_DELETED" => step.cap = "file.delete"

\* An observation is about its step; a look says one thing, and what was
\* written is present.
Said(step, obs) ==
  /\ \A f \in obs.facts : Speaks(step, f)
  /\ step.cap \in {"file.exists", "file.read"} => \A f, g \in obs.facts : f = g
  /\ \A f \in obs.facts : f.kind = "FILE_WRITTEN" =>
       \E g \in obs.facts : g.kind = "FILE_PRESENT" /\ g.target = f.target

\* The disk changes only at the target, by a write or a removal; a write is
\* reported and trusted; what is reported removed or absent was there, or not.
Saw(step, w, v, obs) ==
  /\ Said(step, obs)
  /\ \A t \in Targets : t # step.target => v[t] = w[t]
  /\ step.cap # "file.write" => \A t \in Targets : w[t] = NoFile => v[t] = NoFile
  /\ step.cap = "file.write" /\ v # w =>
       /\ ~obs.error /\ ~Untrusted(obs)
       /\ \E f \in obs.facts : f.kind = "FILE_WRITTEN" /\ f.target = step.target
  /\ \A f \in obs.facts :
       /\ f.kind = "FILE_DELETED" => w[step.target] # NoFile /\ v # w
       /\ f.kind = "FILE_ABSENT" /\ step.cap = "file.exists" => w[step.target] = NoFile
       /\ f.kind = "FILE_WRITTEN" => v[step.target] # NoFile

\* Facts that say nothing of files, or nothing at all.
LEMMA SilentSaid ==
  ASSUME NEW step, NEW w, NEW obs,
         \A f \in obs.facts : f.kind \in {"WORKSPACE_OBSERVED", "COMMAND_RUN",
                                          "RESPONSE_PRODUCED", "COMMAND_TRUNCATED"},
         step.cap \in {"file.exists", "file.read"} => obs.facts = {}
  PROVE  Saw(step, w, w, obs)
<1>1. \A f \in obs.facts : f.kind \notin FileKinds BY DEF FileKinds
<1>2. \A f \in obs.facts : Speaks(step, f) BY <1>1 DEF Speaks, FileKinds
<1> QED BY <1>1, <1>2 DEF Saw, Said, FileKinds

\* One fact about the target, by a capability that does not change it.
LEMMA LookSaid ==
  ASSUME NEW step, step.target \in Targets, NEW w, NEW obs, NEW f, obs.facts = {f},
         f.target = step.target,
         \/ f.kind = "FILE_READ" /\ step.cap \in {"file.read", "file.search"}
         \/ f.kind = "FILE_PRESENT" /\ step.cap = "file.exists"
         \/ /\ f.kind = "FILE_ABSENT" /\ w[step.target] = NoFile
            /\ step.cap \in {"file.read", "file.search", "file.exists", "file.delete"}
  PROVE  Saw(step, w, w, obs)
<1>1. Speaks(step, f) BY DEF Speaks, FileKinds
<1> QED BY <1>1 DEF Saw, Said

\* A write reports what it wrote.
LEMMA WriteSaid ==
  ASSUME NEW step, step.target \in Targets, step.cap = "file.write",
         step.content \in Contents, NEW w \in Workspaces
  PROVE  Saw(step, w, [w EXCEPT ![step.target] = step.content],
             Written(step.target, step.content))
<1> DEFINE t == step.target
           n == Bytes[step.content]
           obs == Written(t, step.content)
           v == [w EXCEPT ![t] = step.content]
<1>1. /\ obs.facts = {Fact("FILE_WRITTEN", t, n), Fact("FILE_PRESENT", t, n)}
      /\ obs.error = FALSE /\ obs.verdict = "PASS"
  BY DEF Written, Observation
<1>2. \A k, m : Fact(k, t, m).kind = k /\ Fact(k, t, m).target = t BY DEF Fact
<1>3. /\ v[t] = step.content /\ \A u \in Targets : u # t => v[u] = w[u]
      /\ step.content # NoFile
  BY FilesystemAssumption DEF Workspaces
<1> HIDE DEF n, obs, v
<1>4. \A f \in obs.facts : Speaks(step, f) /\ f.kind \in {"FILE_WRITTEN", "FILE_PRESENT"}
  BY <1>1, <1>2 DEF Speaks, FileKinds
<1>5. \A f \in obs.facts : f.kind = "FILE_WRITTEN" =>
        \E g \in obs.facts : g.kind = "FILE_PRESENT" /\ g.target = f.target
  BY <1>1, <1>2
<1>6. Said(step, obs) BY <1>4, <1>5 DEF Said
<1>7. ~obs.error /\ ~Untrusted(obs) BY <1>1 DEF Untrusted
<1>8. \E f \in obs.facts : f.kind = "FILE_WRITTEN" /\ f.target = t BY <1>1, <1>2
<1>9. Saw(step, w, v, obs) BY <1>3, <1>4, <1>6, <1>7, <1>8 DEF Saw
<1> QED BY <1>9 DEF obs, v

\* A removal, reported in full or not confirmed.
LEMMA RemovalSaid ==
  ASSUME NEW step, step.target \in Targets, step.cap = "file.delete",
         NEW w \in Workspaces, w[step.target] # NoFile,
         NEW obs \in {Removed(w, step.target), Failed}
  PROVE  Saw(step, w, [w EXCEPT ![step.target] = NoFile], obs)
<1> DEFINE t == step.target
           n == SizeOf(w, t)
           v == [w EXCEPT ![t] = NoFile]
<1>1. obs.facts \subseteq {Fact("FILE_DELETED", t, n), Fact("FILE_ABSENT", t, 0)}
  BY DEF Removed, Failed, Observation
<1>2. \A k, m : Fact(k, t, m).kind = k /\ Fact(k, t, m).target = t BY DEF Fact
<1>3. v[t] = NoFile /\ \A u \in Targets : u # t => v[u] = w[u] BY DEF Workspaces
<1> HIDE DEF n, v
<1>4. \A f \in obs.facts : Speaks(step, f) /\ f.kind \in {"FILE_DELETED", "FILE_ABSENT"}
  BY <1>1, <1>2 DEF Speaks, FileKinds
<1>5. Said(step, obs) BY <1>4 DEF Said
<1>6. v # w BY <1>3
<1>7. \A u \in Targets : w[u] = NoFile => v[u] = NoFile BY <1>3
<1>8. Saw(step, w, v, obs) BY <1>3, <1>4, <1>5, <1>6, <1>7 DEF Saw
<1> QED BY <1>8 DEF v

\* Whatever an invocation returns is true of the disk before and after it.
LEMMA InvocationSaw ==
  ASSUME NEW step, StepShape(step), NEW w \in Workspaces, NEW d,
         step.cap \in Capabilities, NEW out \in Invocations(step, w, d)
  PROVE  Saw(step, w, out.ws, out.obs)
<1> DEFINE t == step.target
           faulty == IF Faults THEN {Failed, InvokeErr} ELSE {}
<1>1. \A O : out \in Same(w, O) => out.ws = w /\ out.obs \in O BY DEF Same, Step
<1>2. /\ \A obs \in {Failed, InvokeErr} : Saw(step, w, w, obs)
      /\ \A cause : Saw(step, w, w, ErrorOf(cause))
  <2>1. Failed.facts = {} /\ InvokeErr.facts = {} /\ \A cause : ErrorOf(cause).facts = {}
    BY DEF Failed, InvokeErr, ErrorOf, Observation
  <2> QED BY <2>1, SilentSaid
<1>3. \A obs \in faulty : Saw(step, w, w, obs) BY <1>2
<1>4. \A verdict, facts, m, n : Observation(verdict, facts, m, n).facts = facts BY DEF Observation
<1>5. \A k, u, m : Fact(k, u, m).kind = k /\ Fact(k, u, m).target = u BY DEF Fact
<1>6. CASE Resolves(step) /\ t = None
  <2>1. out \in Same(w, {InvokeErr}) BY <1>6 DEF Invocations
  <2> QED BY <1>1, <1>2, <2>1
<1>7. CASE step.cap = "workspace.discover"
  <2>1. out \in Same(w, Discover(d)) BY <1>7 DEF Invocations, Resolves
  <2>2. out.ws = w /\ out.obs \in Discover(d) BY <1>1, <2>1
  <2>3. out.obs = Failed \/ out.obs.facts = {Fact("WORKSPACE_OBSERVED", None, 1)}
    BY <1>4, <2>2 DEF Discover
  <2> QED BY <1>2, <1>5, <1>7, <2>2, <2>3, SilentSaid
<1>8. CASE step.cap = "command.run"
  <2>1. out \in Same(w, CommandRun(t) \cup faulty) BY <1>8 DEF Invocations, Resolves
  <2>2. out.ws = w /\ out.obs \in CommandRun(t) \cup faulty BY <1>1, <2>1
  <2>3. CASE /\ out.obs \in CommandRun(t)
             /\ \A cause \in Causes : out.obs # ErrorOf(cause)
    <3>1. out.obs.facts \subseteq {Fact("COMMAND_RUN", t, 1), Fact("RESPONSE_PRODUCED", t, 0),
                                   Fact("COMMAND_TRUNCATED", t, 0)}
      BY <1>4, <2>3 DEF CommandRun
    <3> QED BY <1>5, <1>8, <2>2, <3>1, SilentSaid
  <2> QED BY <1>2, <1>3, <2>2, <2>3
<1>9. CASE Resolves(step) /\ t # None
  <2>1. t \in Targets BY <1>9 DEF StepShape
  <2> DEFINE ended == {ErrorOf(cause) : cause \in Causes \ {None}}
  <2>9. \A obs \in ended : Saw(step, w, w, obs) BY <1>2
  <2>2. ASSUME ~Present(w, t), NEW v,
               step.cap \in {"file.read", "file.search", "file.exists", "file.delete"}
        PROVE  Saw(step, w, w, Absent(v, t))
    BY <1>4, <1>5, <2>1, <2>2, LookSaid DEF Absent, Present
  <2>3. ASSUME NEW n, NEW m, NEW l, step.cap \in {"file.read", "file.search"}
        PROVE  Saw(step, w, w, Observation("PASS", {Fact("FILE_READ", t, n)}, m, l))
    BY <1>4, <1>5, <2>1, <2>3, LookSaid
  <2>4. CASE step.cap = "file.read"
    <3>1. out \in Same(w, {ReadObservation(w, t)} \cup faulty) BY <1>9, <2>4 DEF Invocations
    <3>2. Saw(step, w, w, ReadObservation(w, t)) BY <2>2, <2>3, <2>4 DEF ReadObservation
    <3> QED BY <1>1, <1>3, <3>1, <3>2
  <2>5. CASE step.cap = "file.search"
    <3>1. out \in Same(w, Search(w, t) \cup faulty) BY <1>9, <2>5 DEF Invocations
    <3>2. \A obs \in Search(w, t) : Saw(step, w, w, obs) BY <2>2, <2>3, <2>5 DEF Search
    <3> QED BY <1>1, <1>3, <3>1, <3>2
  <2>6. CASE step.cap = "file.exists"
    <3>1. out \in Same(w, {Exists(w, t)} \cup faulty) BY <1>9, <2>6 DEF Invocations
    <3>2. Saw(step, w, w, Exists(w, t))
      <4>1. CASE ~Present(w, t) BY <2>2, <2>6, <4>1 DEF Exists
      <4>2. CASE Present(w, t)
        <5>1. Exists(w, t).facts = {Fact("FILE_PRESENT", t, SizeOf(w, t))}
          BY <1>4, <4>2 DEF Exists
        <5> QED BY <1>5, <2>1, <2>6, <5>1, LookSaid
      <4> QED BY <4>1, <4>2
    <3> QED BY <1>1, <1>3, <3>1, <3>2
  <2>7. CASE step.cap = "file.write"
    <3>1. \/ out \in Same(w, ended) \/ out \in Same(w, faulty)
          \/ out = Step([w EXCEPT ![t] = step.content], Written(t, step.content))
      BY <1>9, <2>7 DEF Invocations, Withdrawn
    <3>2. step.content \in Contents BY <2>7 DEF StepShape
    <3>3. Saw(step, w, [w EXCEPT ![t] = step.content], Written(t, step.content))
      BY <2>1, <2>7, <3>2, WriteSaid
    <3>4. \A v, obs : Step(v, obs).ws = v /\ Step(v, obs).obs = obs BY DEF Step
    <3> HIDE DEF ended, faulty
    <3> QED BY <1>1, <1>3, <2>9, <3>1, <3>3, <3>4
  <2>8. CASE step.cap = "file.delete"
    <3>1. \/ out \in Same(w, ended) \/ out \in Same(w, faulty)
          \/ ~Present(w, t) /\ out \in Same(w, {Absent("NO_OP", t)})
          \/ Present(w, t) /\ \E obs \in {Removed(w, t)} \cup Confirmations :
               out = Step([w EXCEPT ![t] = NoFile], obs)
      BY <1>9, <2>8 DEF Invocations, Withdrawn
    <3>2. Present(w, t) => \A obs \in {Removed(w, t)} \cup Confirmations :
            Saw(step, w, [w EXCEPT ![t] = NoFile], obs)
      BY <2>1, <2>8, RemovalSaid DEF Present, Confirmations
    <3>3. \A v, obs : Step(v, obs).ws = v /\ Step(v, obs).obs = obs BY DEF Step
    <3>4. ~Present(w, t) => Saw(step, w, w, Absent("NO_OP", t)) BY <2>2, <2>8
    <3> HIDE DEF faulty, ended
    <3>5. CASE out \in Same(w, ended) BY <1>1, <2>9, <3>5
    <3>6. CASE out \in Same(w, faulty) BY <1>1, <1>3, <3>6
    <3>7. CASE ~Present(w, t) /\ out \in Same(w, {Absent("NO_OP", t)}) BY <1>1, <3>4, <3>7
    <3>8. CASE Present(w, t) /\ \E obs \in {Removed(w, t)} \cup Confirmations :
                 out = Step([w EXCEPT ![t] = NoFile], obs)
      <4> DEFINE v == [w EXCEPT ![t] = NoFile]
      <4>1. PICK obs \in {Removed(w, t)} \cup Confirmations : out = Step(v, obs) BY <3>8
      <4>2. Saw(step, w, v, obs) BY <3>2, <3>8
      <4> HIDE DEF v
      <4> QED BY <3>3, <4>1, <4>2
    <3> QED BY <3>1, <3>5, <3>6, <3>7, <3>8
  <2> QED BY <1>9, <2>4, <2>5, <2>6, <2>7, <2>8 DEF Resolves
<1> QED BY <1>6, <1>7, <1>8, <1>9 DEF Capabilities, Resolves

-----------------------------------------------------------------------------
(***************************************************************************)
(* The step summary for the rest of the variables: who touches the disk,   *)
(* and who judges it.                                                      *)
(***************************************************************************)
Kept(r, s) ==
  /\ s.target = r.target /\ s.verdict = r.verdict
  /\ s.pc \in {"judge", "verdict", "evaluate"} => s.pc = r.pc

\* The step of a caller reaches the disk, alone or with another process.
Touches(c) ==
  /\ run[c].pc = "invoke" /\ run'[c].pc = "evaluate" /\ run'[c].step = run[c].step
  /\ StepShape(StepOf(c))
  /\ run'[c].target = run[c].target /\ run'[c].verdict = run[c].verdict
  /\ \A d \in Callers : d # c => run'[d] = run[d]
  /\ UNCHANGED <<x, st>>
  /\ \/ /\ Saw(StepOf(c), ws, ws', run'[c].obs)
        /\ edits' = edits /\ calm' = calm
        /\ effects' = effects \cup
             (IF ws' = ws THEN {} ELSE {Effect(StepOf(c), ws[StepOf(c).target])})
     \/ /\ run'[c].obs = Failed /\ edits' # 0 /\ ~calm'
        /\ StepOf(c).cap = "file.delete"
        /\ effects' = effects \cup {Effect(StepOf(c), ws[StepOf(c).target])}

Rests ==
  /\ UNCHANGED <<ws, edits, effects, calm>>
  /\ \A c \in Callers : Kept(run[c], run'[c])

Edited ==
  /\ edits' # 0 /\ ~calm'
  /\ UNCHANGED <<x, st, run, effects>>

\* A caller that keeps what Kept says, alone.
LEMMA KeptTo ==
  ASSUME IInv, NEW c \in Callers, NEW r, run' = [run EXCEPT ![c] = r], Kept(run[c], r)
  PROVE  \A d \in Callers : Kept(run[d], run'[d])
<1> TAKE d \in Callers
<1>1. run'[d] = IF d = c THEN r ELSE run[d] BY DEF IInv, TypeOK
<1> QED BY <1>1 DEF Kept

\* The moves of a run record that keep it.
LEMMA KeptMoves ==
  ASSUME NEW r \in Runs
  PROVE  /\ \A pc \in PCs \ {"judge", "verdict", "evaluate"} : Kept(r, At1(r, pc))
         /\ \A class \in FailureClasses : Kept(r, Blocked(r, class))
         /\ \A pc \in PCs \ {"judge", "verdict", "evaluate"}, class \in FailureClasses \cup {None} :
              Kept(r, [r EXCEPT !.pc = pc, !.block = class])
         /\ \A o \in Outcomes \cup {None} : Kept(r, [r EXCEPT !.pc = "done", !.result = o])
<1>1. \A pc \in PCs \ {"judge", "verdict", "evaluate"} : Kept(r, At1(r, pc))
  BY DEF Runs, At1, Kept
<1>2. \A class \in FailureClasses : Kept(r, Blocked(r, class)) BY DEF Runs, Blocked, Kept
<1>3. \A pc \in PCs \ {"judge", "verdict", "evaluate"}, class \in FailureClasses \cup {None} :
        Kept(r, [r EXCEPT !.pc = pc, !.block = class])
  BY DEF Runs, Kept
<1>4. \A o \in Outcomes \cup {None} : Kept(r, [r EXCEPT !.pc = "done", !.result = o])
  BY DEF Runs, Kept
<1> QED BY <1>1, <1>2, <1>3, <1>4

\* An emission keeps it if both its ends do.
LEMMA KeptEmit ==
  ASSUME IInv, NEW c \in Callers, NEW e, NEW a \in Runs, NEW b, Kept(run[c], a), Kept(run[c], b),
         EmitOr(c, e, a, b)
  PROVE  \A d \in Callers : Kept(run[d], run'[d])
<1>1. CASE Emit(c, e, a)
  <2> DEFINE r == [a EXCEPT !.outbox = Stamped(e)]
  <2>1. r.target = a.target /\ r.verdict = a.verdict /\ r.pc = a.pc BY DEF Runs
  <2>2. run' = [run EXCEPT ![c] = r] BY <1>1 DEF Emit
  <2> HIDE DEF r
  <2>3. Kept(run[c], r) BY <2>1 DEF Kept
  <2> QED BY <2>2, <2>3, KeptTo
<1>2. CASE Refused(c, e, b)
  <2>1. run' = [run EXCEPT ![c] = b] BY <1>2 DEF Refused
  <2> QED BY <2>1, KeptTo
<1> QED BY <1>1, <1>2 DEF EmitOr

\* A blocked step keeps it.
LEMMA KeptBlock ==
  ASSUME IInv, NEW c \in Callers, NEW k \in FailureClasses, BlockStep(c, k)
  PROVE  \A d \in Callers : Kept(run[d], run'[d])
<1>1. run[c] \in Runs BY DEF IInv, TypeOK
<1>2. "EXECUTION_FAILURE" \in FailureClasses BY DEF FailureClasses
<1>3. Blocked(run[c], k) \in Runs BY <1>1, RunUpdates
<1> QED BY <1>1, <1>2, <1>3, KeptMoves, KeptEmit DEF BlockStep

\* Goto and Stop keep it.
LEMMA KeptGo ==
  ASSUME IInv, NEW c \in Callers,
         \/ \E pc \in PCs \ {"judge", "verdict", "evaluate"} : Goto(c, pc)
         \/ \E k \in FailureClasses : Stop(c, k)
  PROVE  \A d \in Callers : Kept(run[d], run'[d])
<1>1. run[c] \in Runs BY DEF IInv, TypeOK
<1>2. ASSUME NEW pc \in PCs \ {"judge", "verdict", "evaluate"}, Goto(c, pc)
      PROVE  \A d \in Callers : Kept(run[d], run'[d])
  <2>1. run' = [run EXCEPT ![c] = At1(run[c], pc)] BY <1>2 DEF Goto, At1, IInv, TypeOK
  <2> QED BY <1>1, <2>1, KeptMoves, KeptTo
<1>3. ASSUME NEW k \in FailureClasses, Stop(c, k)
      PROVE  \A d \in Callers : Kept(run[d], run'[d])
  <2>1. run' = [run EXCEPT ![c] = Blocked(run[c], k)] BY <1>3 DEF Stop, Blocked, IInv, TypeOK
  <2> QED BY <1>1, <2>1, KeptMoves, KeptTo
<1> QED BY <1>2, <1>3

\* The quiet actions of a caller.
LEMMA QuietKept ==
  ASSUME IInv, NEW c \in Callers,
         \/ Enter(c) \/ Start(c) \/ Check(c) \/ Dispatch(c) \/ Evaluate(c) \/ Evidence(c)
         \/ ProjectMutation(c) \/ ProjectArtifact(c) \/ NextStep(c) \/ Conclude(c)
         \/ Stopped(c) \/ Fail(c) \/ Failing(c) \/ Settle(c) \/ Return(c) \/ AppendEvent(c)
  PROVE  \A d \in Callers : Kept(run[d], run'[d])
<1>1. run[c] \in Runs BY DEF IInv, TypeOK
<1>2. \A pc \in PCs \ {"judge", "verdict", "evaluate"} :
        Kept(run[c], At1(run[c], pc)) /\ At1(run[c], pc) \in Runs
  BY <1>1, KeptMoves, RunUpdates
<1>3. \A class \in FailureClasses :
        Kept(run[c], Blocked(run[c], class)) /\ Blocked(run[c], class) \in Runs
  BY <1>1, KeptMoves, RunUpdates
<1>4. \A pc \in PCs \ {"judge", "verdict", "evaluate"}, class \in FailureClasses \cup {None} :
        Kept(run[c], [run[c] EXCEPT !.pc = pc, !.block = class])
  BY <1>1, KeptMoves
<1>5. \A o \in Outcomes \cup {None} : Kept(run[c], [run[c] EXCEPT !.pc = "done", !.result = o])
  BY <1>1, KeptMoves
<1>6. {"start", "check", "dispatch", "invoke", "evidence", "mutation", "artifact", "next",
       "verify", "stopped", "fail", "failing", "settle", "return", "done"}
        \subseteq PCs \ {"judge", "verdict", "evaluate"}
  BY DEF PCs
<1>7. {"EXECUTION_FAILURE", "INVALID_SPEC", "CANCELLED", "INTERRUPTED", "BUDGET_EXHAUSTED",
       "CAPABILITY_FAILURE", "MUTATION_FAILURE", "ARTIFACT_FAILURE", "VERIFICATION_FAILURE",
       "AUTHORIZATION_FAILURE", "CAPABILITY_UNAVAILABLE"} \subseteq FailureClasses
  BY DEF FailureClasses
<1>8. CASE Enter(c)
  <2>1. CASE Goto(c, "start") BY <1>6, <2>1, KeptGo
  <2>2. CASE run' = [run EXCEPT ![c].pc = "done", ![c].result = OutcomeForClass(admission)]
    <3> DEFINE r == [run[c] EXCEPT !.pc = "done", !.result = OutcomeForClass(admission)]
    <3>1. run' = [run EXCEPT ![c] = r] BY <2>2 DEF IInv, TypeOK
    <3>2. Kept(run[c], r) BY <1>1 DEF Runs, Kept
    <3> HIDE DEF r
    <3> QED BY <3>1, <3>2, KeptTo
  <2> QED BY <1>8, <2>1, <2>2 DEF Enter
<1>9. CASE Start(c)
  <2>1. Kept(run[c], [run[c] EXCEPT !.pc = "fail", !.block = "INVALID_SPEC"])
    BY <1>4, <1>6, <1>7
  <2> QED BY <1>2, <1>6, <1>9, <2>1, KeptEmit DEF Start
<1>10. CASE Check(c)
  <2>1. \/ Goto(c, "verify") \/ Goto(c, "dispatch") \/ Stop(c, "CANCELLED")
        \/ Stop(c, "INTERRUPTED")
    BY <1>10 DEF Check
  <2> QED BY <1>6, <1>7, <2>1, KeptGo
<1>11. CASE Dispatch(c)
  <2>1. \/ \E k \in FailureClasses : BlockStep(c, k)
        \/ EmitOr(c, ForStep("step.started", StepOf(c)), At1(run[c], "invoke"),
                  Blocked(run[c], "EXECUTION_FAILURE"))
    BY <1>7, <1>11 DEF Dispatch, DispatchRefusal, GateRefusals
  <2> QED BY <1>2, <1>3, <1>6, <1>7, <2>1, KeptBlock, KeptEmit
<1>12. CASE Evaluate(c)
  <2>1. \/ \E k \in FailureClasses : Stop(c, k)
        \/ \E k \in FailureClasses : BlockStep(c, k)
        \/ \E e : EmitOr(c, e, At1(run[c], "evidence"), Blocked(run[c], "EXECUTION_FAILURE"))
    BY <1>7, <1>12, StopClassType, ErrorClassType DEF Evaluate
  <2> QED BY <1>2, <1>3, <1>6, <1>7, <2>1, KeptBlock, KeptEmit, KeptGo
<1>13. CASE Evidence(c)
  <2>1. \/ Goto(c, "mutation")
        \/ \E e : EmitOr(c, e, At1(run[c], "mutation"), Blocked(run[c], "EXECUTION_FAILURE"))
    BY <1>13 DEF Evidence
  <2> QED BY <1>2, <1>3, <1>6, <1>7, <2>1, KeptEmit, KeptGo
<1>14. CASE ProjectMutation(c)
  <2>1. \/ Goto(c, "artifact")
        \/ \E e : EmitOr(c, e, At1(run[c], "artifact"), Blocked(run[c], "MUTATION_FAILURE"))
    BY <1>14 DEF ProjectMutation
  <2> QED BY <1>2, <1>3, <1>6, <1>7, <2>1, KeptEmit, KeptGo
<1>15. CASE ProjectArtifact(c)
  <2>1. \/ Goto(c, "next")
        \/ \E e : EmitOr(c, e, At1(run[c], "next"), Blocked(run[c], "ARTIFACT_FAILURE"))
    BY <1>15 DEF ProjectArtifact
  <2> QED BY <1>2, <1>3, <1>6, <1>7, <2>1, KeptEmit, KeptGo
<1>16. CASE NextStep(c)
  <2>1. CASE run' = [run EXCEPT ![c].pc = "fail", ![c].block = StopClass]
    <3> DEFINE r == [run[c] EXCEPT !.pc = "fail", !.block = StopClass]
    <3>1. run' = [run EXCEPT ![c] = r] BY <2>1 DEF IInv, TypeOK
    <3>2. Kept(run[c], r) BY <1>4, <1>6, StopClassType
    <3> HIDE DEF r
    <3> QED BY <3>1, <3>2, KeptTo
  <2>2. CASE run' = [run EXCEPT ![c].pc = "check", ![c].step = @ + 1]
    <3> DEFINE r == [run[c] EXCEPT !.pc = "check", !.step = run[c].step + 1]
    <3>1. run' = [run EXCEPT ![c] = r] BY <2>2 DEF IInv, TypeOK
    <3>2. Kept(run[c], r) BY <1>1 DEF Runs, Kept
    <3> HIDE DEF r
    <3> QED BY <3>1, <3>2, KeptTo
  <2> QED BY <1>16, <2>1, <2>2 DEF NextStep
<1>17. CASE Conclude(c)
  <2>1. \E e : \/ EmitOr(c, e, At1(run[c], "settle"), Blocked(run[c], "VERIFICATION_FAILURE"))
               \/ EmitOr(c, e, Blocked(run[c], "VERIFICATION_FAILURE"),
                         Blocked(run[c], "VERIFICATION_FAILURE"))
    BY <1>17 DEF Conclude
  <2> QED BY <1>2, <1>3, <1>6, <1>7, <2>1, KeptEmit
<1>18. CASE Stopped(c)
  <2> DEFINE k == IF cancelled THEN "CANCELLED" ELSE run[c].block
             r == [run[c] EXCEPT !.pc = "fail", !.block = k]
  <2>1. run' = [run EXCEPT ![c] = r] BY <1>18 DEF Stopped, IInv, TypeOK
  <2>2. Kept(run[c], r) BY <1>1 DEF Runs, Kept
  <2> HIDE DEF r
  <2> QED BY <2>1, <2>2, KeptTo
<1>19. CASE Fail(c)
  <2>1. Goto(c, "settle") \/ Goto(c, "failing") BY <1>19 DEF Fail
  <2> QED BY <1>6, <2>1, KeptGo
<1>20. CASE Failing(c)
  <2>1. Kept(run[c], [run[c] EXCEPT !.pc = "done", !.result = OutcomeForClass(run[c].block)])
    BY <1>1 DEF Runs, Kept
  <2> QED BY <1>2, <1>6, <1>20, <2>1, KeptEmit DEF Failing
<1>21. CASE Settle(c)
  <2>1. Kept(run[c], [run[c] EXCEPT !.pc = "done", !.result = "UNSUBSTANTIATED"])
    BY <1>1 DEF Runs, Kept
  <2> QED BY <1>2, <1>6, <1>21, <2>1, KeptEmit DEF Settle
<1>22. CASE Return(c)
  <2> DEFINE r == [run[c] EXCEPT !.pc = "done", !.result = st.terminal.outcome]
  <2>1. run' = [run EXCEPT ![c] = r] BY <1>22 DEF Return, IInv, TypeOK
  <2>2. Kept(run[c], r) BY <1>1 DEF Runs, Kept
  <2> HIDE DEF r
  <2> QED BY <2>1, <2>2, KeptTo
<1>23. CASE AppendEvent(c)
  <2> DEFINE r == [run[c] EXCEPT !.outbox = NoEvent]
  <2>1. run' = [run EXCEPT ![c] = r] BY <1>23 DEF AppendEvent, IInv, TypeOK
  <2>2. Kept(run[c], r) BY <1>1 DEF Runs, Kept
  <2> HIDE DEF r
  <2> QED BY <2>1, <2>2, KeptTo
<1> QED BY <1>8, <1>9, <1>10, <1>11, <1>12, <1>13, <1>14, <1>15, <1>16, <1>17, <1>18,
           <1>19, <1>20, <1>21, <1>22, <1>23

\* Invoke reaches the disk.
LEMMA InvokeTouches == ASSUME IInv, NEW c \in Callers, Invoke(c) PROVE Touches(c)
<1>1. /\ run[c].pc = "invoke" /\ UNCHANGED <<x, st>> /\ edits' = edits /\ calm' = calm
      /\ run[c] \in Runs
  BY DEF Invoke, At, IInv, TypeOK
<1>2. StepShape(StepOf(c)) /\ StepOf(c).cap \in Capabilities BY <1>1, AtWork DEF StepPCs
<1>3. ws \in Workspaces BY DEF IInv, TypeOK
<1>4. PICK out \in Invocations(StepOf(c), ws, done[c]) :
        /\ ws' = out.ws
        /\ run' = [run EXCEPT ![c].pc = "evaluate", ![c].obs = out.obs]
        /\ effects' = effects \cup
             IF out.ws = ws THEN {} ELSE {Effect(StepOf(c), ws[StepOf(c).target])}
  BY DEF Invoke
<1>5. Saw(StepOf(c), ws, out.ws, out.obs) BY <1>2, <1>3, InvocationSaw
<1> DEFINE r == [run[c] EXCEPT !.pc = "evaluate", !.obs = out.obs]
<1>6. /\ r.pc = "evaluate" /\ r.obs = out.obs /\ r.step = run[c].step
      /\ r.target = run[c].target /\ r.verdict = run[c].verdict
  BY <1>1 DEF Runs
<1>7. run'[c] = r /\ \A d \in Callers : d # c => run'[d] = run[d] BY <1>4 DEF IInv, TypeOK
<1>8. effects' = effects \cup
        (IF ws' = ws THEN {} ELSE {Effect(StepOf(c), ws[StepOf(c).target])})
  BY <1>4
<1>9. Saw(StepOf(c), ws, ws', r.obs) BY <1>4, <1>5, <1>6
<1> HIDE DEF r
<1> QED BY <1>1, <1>2, <1>6, <1>7, <1>8, <1>9 DEF Touches

\* So does the invocation with another process in between.
LEMMA RecreationTouches == ASSUME IInv, NEW c \in Callers, InvokeRecreated(c) PROVE Touches(c)
<1>1. /\ run[c].pc = "invoke" /\ UNCHANGED <<x, st>> /\ run[c] \in Runs /\ ~calm'
  BY DEF InvokeRecreated, At, IInv, TypeOK
<1>2. StepShape(StepOf(c)) /\ ws \in Workspaces BY <1>1, AtWork DEF StepPCs, IInv, TypeOK
<1>3. PICK out \in Recreations(StepOf(c), ws, done[c]) :
        run' = [run EXCEPT ![c].pc = "evaluate", ![c].obs = out.obs]
  BY DEF InvokeRecreated
<1>4. out.obs = Failed BY DEF Recreations, Step
<1>5. StepOf(c).cap = "file.delete" BY <1>2, RecreationType
<1>6. edits' # 0 BY DEF InvokeRecreated, IInv, TypeOK
<1> DEFINE r == [run[c] EXCEPT !.pc = "evaluate", !.obs = out.obs]
<1>7. /\ r.pc = "evaluate" /\ r.obs = out.obs /\ r.step = run[c].step
      /\ r.target = run[c].target /\ r.verdict = run[c].verdict
  BY <1>1 DEF Runs
<1>8. run'[c] = r /\ \A d \in Callers : d # c => run'[d] = run[d] BY <1>3 DEF IInv, TypeOK
<1>9. effects' = effects \cup {Effect(StepOf(c), ws[StepOf(c).target])}
  BY DEF InvokeRecreated
<1> HIDE DEF r
<1> QED BY <1>1, <1>2, <1>4, <1>5, <1>6, <1>7, <1>8, <1>9 DEF Touches

\* Every step, as far as the disk and its judges see it.
LEMMA WorldIs ==
  ASSUME IInv, [Next]_vars
  PROVE  \/ \E c \in Callers : Touches(c)
         \/ \E c \in Callers : JudgeTarget(c)
         \/ \E c \in Callers : Verify(c)
         \/ Edited
         \/ Rests
<1>1. CASE UNCHANGED vars BY <1>1 DEF vars, Rests, Kept
<1>2. CASE \E req \in Requests : Open(req) BY <1>2 DEF Open, Rests, Kept
<1>3. CASE Environment
  <2>1. CASE Cancel \/ \E c \in Callers : Withdraw(c)
    BY <2>1 DEF Cancel, Withdraw, Rests, Kept
  <2>2. ASSUME NEW t \in Targets, NEW k \in Contents \cup {NoFile}, Edit(t, k)
        PROVE  Edited
    BY <2>2 DEF Edit, Edited, IInv, TypeOK
  <2> QED BY <1>3, <2>1, <2>2 DEF Environment
<1>4. ASSUME NEW c \in Callers, Work(c)
      PROVE  Touches(c) \/ JudgeTarget(c) \/ Verify(c) \/ Rests
  <2>1. CASE Invoke(c) \/ InvokeRecreated(c) BY <2>1, InvokeTouches, RecreationTouches
  <2>2. CASE \/ Enter(c) \/ Start(c) \/ Check(c) \/ Dispatch(c) \/ Evaluate(c) \/ Evidence(c)
             \/ ProjectMutation(c) \/ ProjectArtifact(c) \/ NextStep(c) \/ Conclude(c)
             \/ Stopped(c) \/ Fail(c) \/ Failing(c) \/ Settle(c) \/ Return(c) \/ AppendEvent(c)
    <3>1. UNCHANGED <<ws, edits, effects, calm>>
      BY <2>2 DEF Enter, Start, Check, Dispatch, Evaluate, Evidence, ProjectMutation,
         ProjectArtifact, NextStep, Conclude, Stopped, Fail, Failing, Settle, Return, AppendEvent
    <3> QED BY <2>2, <3>1, QuietKept DEF Rests
  <2> QED BY <1>4, <2>1, <2>2 DEF Work
<1> QED BY <1>1, <1>2, <1>3, <1>4 DEF Next

---------------------------------------------------------------------------

\* The records an emission of evidence adds: one for each fact in hand, with
\* the step that observed it and the revision of the event.
RecordOf(step, obs, f, n) ==
  [kind |-> f.kind, step |-> step.id, cap |-> step.cap, target |-> f.target,
   bytes |-> f.bytes, verdict |-> obs.verdict, revision |-> n]

\* What an emission makes of the evidence.
LEMMA EvidenceBecomes ==
  ASSUME IInv, NEW c \in Callers, NEW e \in Events, Emits(c, e)
  PROVE  /\ e.kind # "evidence.produced" => st'.evidence = st.evidence
         /\ e.kind = "evidence.produced" =>
              /\ run[c].pc = "evidence" /\ run'[c].pc = "mutation"
              /\ st'.evidence = st.evidence \cup
                   {RecordOf(StepOf(c), run[c].obs, f, st.revision + 1) : f \in run[c].obs.facts}
         /\ st'.revision = st.revision + 1
<1>1. /\ st \in States /\ Accepts(x, st, e) /\ st' = Reduced(x, st, e)
      /\ Hop(run[c].pc, e.kind, run'[c].pc)
  BY DEF Emits, IInv, TypeOK
<1>2. Changes(x, st, e, st') BY <1>1, ReducedIs
<1>3. st'.revision = st.revision + 1 BY <1>1, RevisionOf
<1>4. e.kind # "evidence.produced" => st'.evidence = st.evidence BY <1>2 DEF Changes
<1>5. ASSUME e.kind = "evidence.produced"
      PROVE  /\ run[c].pc = "evidence" /\ run'[c].pc = "mutation"
             /\ st'.evidence = st.evidence \cup
                  {RecordOf(StepOf(c), run[c].obs, f, st.revision + 1) : f \in run[c].obs.facts}
  <2>1. run[c].pc = "evidence" /\ run'[c].pc = "mutation" BY <1>1, <1>5 DEF Hop
  <2>2. e.evidence = RecordsOf(c)
    <3>1. PICK a \in Runs : Emission(c, e, a) BY DEF Emits
    <3> QED BY <1>5, <3>1, EmissionsAre DEF Emission
  <2> DEFINE next == [st EXCEPT !.revision = @ + 1]
             n == st.revision + 1
             new  == {[rec EXCEPT !.revision = n] : rec \in e.evidence}
             own  == {RecordOf(StepOf(c), run[c].obs, f, n) : f \in run[c].obs.facts}
  <2>3. next.evidence = st.evidence /\ "evidence" \in DOMAIN next BY <1>1 DEF States
  <2>4. st' = [next EXCEPT !.evidence = @ \cup new] BY <1>1, <1>5 DEF Reduced
  <2>5. \A f : [RecordOf(StepOf(c), run[c].obs, f, 0) EXCEPT !.revision = n]
                = RecordOf(StepOf(c), run[c].obs, f, n)
    BY DEF RecordOf
  <2>6. e.evidence = {RecordOf(StepOf(c), run[c].obs, f, 0) : f \in run[c].obs.facts}
    BY <2>2 DEF RecordsOf, Records, RecordOf
  <2> HIDE DEF n
  <2>7. new = own
    <3>1. ASSUME NEW m \in new PROVE m \in own
      <4>1. PICK rec \in e.evidence : m = [rec EXCEPT !.revision = n] OBVIOUS
      <4>2. PICK f \in run[c].obs.facts : rec = RecordOf(StepOf(c), run[c].obs, f, 0) BY <2>6
      <4>3. m = RecordOf(StepOf(c), run[c].obs, f, n) BY <2>5, <4>1, <4>2
      <4> QED BY <4>3
    <3>2. ASSUME NEW f \in run[c].obs.facts
          PROVE  RecordOf(StepOf(c), run[c].obs, f, n) \in new
      <4>1. RecordOf(StepOf(c), run[c].obs, f, 0) \in e.evidence BY <2>6
      <4> QED BY <2>5, <4>1
    <3> QED BY <3>1, <3>2
  <2> HIDE DEF next, new, own
  <2>8. st'.evidence = st.evidence \cup own BY <2>3, <2>4, <2>7
  <2> QED BY <2>1, <2>8 DEF own, n
<1> QED BY <1>3, <1>4, <1>5

-----------------------------------------------------------------------------
(***************************************************************************)
(* The evidence as a trace: every record was spoken by a step of the       *)
(* program, in the order of the program, each step once.                   *)
(***************************************************************************)
HandPCs == {"evaluate", "evidence"}
EarlyPCs == {"check", "dispatch", "invoke", "evaluate", "evidence"}

Hands == \A c \in Callers : run[c].pc \in HandPCs => Said(StepOf(c), run[c].obs)

Place(r) == StepIndex(x.spec, r.step)

Witnessed ==
  \A r \in st.evidence :
    /\ r.revision \in 1..st.revision
    /\ \E i \in DOMAIN Program :
         r.step = Program[i].id /\ r.cap = Program[i].cap /\ Speaks(Program[i], r)

\* Records of one event are of one step; of a look there is only one.
Together ==
  \A r, q \in st.evidence : r.revision = q.revision =>
    r.step = q.step /\ (r.cap \in {"file.exists", "file.read"} => r = q)

\* What is recorded lies behind the runner.
Sequenced ==
  /\ \A r, q \in st.evidence : r.revision < q.revision => Place(r) < Place(q)
  /\ \A c \in Callers : Active(c) => \A r \in st.evidence :
       /\ Place(r) < run[c].step
       /\ run[c].pc \in EarlyPCs => Place(r) < run[c].step - 1

Siblings ==
  \A r \in st.evidence : r.kind = "FILE_WRITTEN" =>
    \E p \in st.evidence :
      p.kind = "FILE_PRESENT" /\ p.target = r.target /\ p.revision = r.revision
      /\ p.cap = r.cap

TraceInv ==
  /\ Hands /\ Witnessed /\ Together /\ Sequenced /\ Siblings
  /\ st.status = "ADMITTED" => st.evidence = {}

\* The index of a record is a place in the program.
LEMMA PlaceIs ==
  ASSUME IInv, x \in Requests, NEW r, NEW i \in DOMAIN Program, r.step = Program[i].id
  PROVE  Place(r) = i - 1 /\ i \in Nat \ {0}
BY IndexIs DEF Place

\* Every record has a place.
LEMMA PlaceType ==
  ASSUME IInv, Witnessed, x \in Requests, NEW r \in st.evidence
  PROVE  Place(r) \in Nat
<1>1. PICK i \in DOMAIN Program : r.step = Program[i].id BY DEF Witnessed
<1> QED BY <1>1, PlaceIs

\* Who is to be evaluated has just been to the disk.
LEMMA EvaluateFrom ==
  ASSUME IInv, [Next]_vars, NEW c \in Callers, run[c].pc = "invoke", run'[c].pc = "evaluate"
  PROVE  Touches(c)
<1>1. ASSUME NEW d \in Callers, Touches(d) PROVE Touches(c) BY <1>1 DEF Touches
<1>2. ASSUME NEW d \in Callers, JudgeTarget(d) PROVE FALSE
  <2>1. run[d].pc = "judge" BY <1>2 DEF JudgeTarget, At
  <2>2. \A b \in Callers : b # d => run'[b] = run[b]
    BY <1>2 DEF JudgeTarget, Concludes, IInv, TypeOK
  <2> QED BY <2>1, <2>2
<1>3. ASSUME NEW d \in Callers, Verify(d) PROVE FALSE
  <2>1. run[d].pc = "verify" BY <1>3 DEF Verify, At
  <2>2. \A b \in Callers : b # d => run'[b] = run[b]
    BY <1>3 DEF Verify, Stop, EmitOr, Emit, Refused, IInv, TypeOK
  <2> QED BY <2>1, <2>2
<1>4. CASE Edited BY <1>4 DEF Edited
<1>5. CASE Rests BY <1>5 DEF Rests, Kept
<1> QED BY <1>1, <1>2, <1>3, <1>4, <1>5, WorldIs

\* The new records, one for each fact in hand.
LEMMA NewRecords ==
  ASSUME IInv, Hands, NEW c \in Callers, run[c].pc = "evidence", NEW n,
         NEW m \in {RecordOf(StepOf(c), run[c].obs, f, n) : f \in run[c].obs.facts}
  PROVE  /\ m.revision = n /\ m.step = StepOf(c).id /\ m.cap = StepOf(c).cap
         /\ Speaks(StepOf(c), m)
         /\ \E f \in run[c].obs.facts : m.kind = f.kind /\ m.target = f.target
         /\ StepOf(c).cap \in {"file.exists", "file.read"} =>
              \A q \in {RecordOf(StepOf(c), run[c].obs, f, n) : f \in run[c].obs.facts} : q = m
         /\ m.kind = "FILE_WRITTEN" =>
              \E p \in {RecordOf(StepOf(c), run[c].obs, f, n) : f \in run[c].obs.facts} :
                p.kind = "FILE_PRESENT" /\ p.target = m.target
<1>1. Said(StepOf(c), run[c].obs) BY DEF Hands, HandPCs
<1>2. PICK f \in run[c].obs.facts : m = RecordOf(StepOf(c), run[c].obs, f, n) OBVIOUS
<1>3. \A g : LET q == RecordOf(StepOf(c), run[c].obs, g, n) IN
        /\ q.revision = n /\ q.step = StepOf(c).id /\ q.cap = StepOf(c).cap
        /\ q.kind = g.kind /\ q.target = g.target
  BY DEF RecordOf
<1>4. Speaks(StepOf(c), f) BY <1>1 DEF Said
<1>5. Speaks(StepOf(c), m) BY <1>2, <1>3, <1>4 DEF Speaks
<1>6. StepOf(c).cap \in {"file.exists", "file.read"} => \A g \in run[c].obs.facts : g = f
  BY <1>1 DEF Said
<1>7. f.kind = "FILE_WRITTEN" =>
        \E g \in run[c].obs.facts : g.kind = "FILE_PRESENT" /\ g.target = f.target
  BY <1>1 DEF Said
<1> QED BY <1>2, <1>3, <1>5, <1>6, <1>7

\* Evidence is produced: the trace grows at its end.
LEMMA TraceGrows ==
  ASSUME IInv, OneRunner, TraceInv, NEW c \in Callers, NEW e \in Events, Emits(c, e),
         e.kind = "evidence.produced"
  PROVE  TraceInv'
<1> DEFINE n == st.revision + 1
           N == {RecordOf(StepOf(c), run[c].obs, f, n) : f \in run[c].obs.facts}
           k == run[c].step
<1>1. /\ x \in Requests /\ x' = x /\ run'[c].step = k
      /\ \A d \in Callers : d # c => run'[d] = run[d]
  BY DEF Emits
<1>2. /\ run[c].pc = "evidence" /\ run'[c].pc = "mutation"
      /\ st'.evidence = st.evidence \cup N /\ st'.revision = n
  BY EvidenceBecomes
<1>3. st.revision \in Nat /\ k \in Nat \ {0} /\ \A r \in st.evidence : r.revision \in Nat
  BY DEF IInv, TypeOK, States, Runs, EvidenceRecords
<1>4. k \in DOMAIN Program /\ StepOf(c) = Program[k]
  BY <1>2, AtWork DEF StepPCs, RunOK, StepOf
<1>5. \A m \in N : /\ m.revision = n /\ m.step = Program[k].id /\ m.cap = Program[k].cap
                   /\ Speaks(Program[k], m)
                   /\ m.cap \in {"file.exists", "file.read"} => \A q \in N : q = m
                   /\ m.kind = "FILE_WRITTEN" =>
                        \E p \in N : p.kind = "FILE_PRESENT" /\ p.target = m.target
  BY <1>2, <1>4, NewRecords DEF TraceInv
<1>6. \A r : Place(r)' = Place(r) BY <1>1 DEF Place
<1>7. Program' = Program BY <1>1 DEF Program
<1>8. \A m \in N : Place(m) = k - 1 BY <1>1, <1>4, <1>5, PlaceIs
<1>9. \A r \in st.evidence : /\ r.revision <= st.revision /\ Place(r) \in Nat
                             /\ Place(r) < k /\ Place(r) < k - 1
  <2>1. Active(c) BY <1>2 DEF Active, ActivePCs
  <2> QED BY <1>1, <1>2, <2>1, PlaceType DEF TraceInv, Witnessed, Sequenced, EarlyPCs
<1> HIDE DEF n, N, k
<1>10. \A r \in st'.evidence : r \in st.evidence \/ r \in N BY <1>2
<1>11. n = st.revision + 1 BY DEF n
<1>12. Hands'
  <2> SUFFICES ASSUME NEW d \in Callers, run'[d].pc \in HandPCs
               PROVE  Said(StepOf(d)', run'[d].obs)
    BY DEF Hands
  <2>1. d # c BY <1>2 DEF HandPCs
  <2>2. run'[d] = run[d] BY <1>1, <2>1
  <2>3. StepOf(d)' = StepOf(d) BY <1>7, <2>2 DEF StepOf
  <2> QED BY <2>2, <2>3 DEF TraceInv, Hands
<1>13. Witnessed'
  <2>1. \A r \in st.evidence : r.revision \in 1..n
    BY <1>3, <1>11 DEF TraceInv, Witnessed
  <2>2. n \in 1..n BY <1>3, <1>11
  <2>3. \A r \in N : r.revision \in 1..n BY <1>5, <2>2
  <2>4. \A r \in st.evidence : \E i \in DOMAIN Program :
          r.step = Program[i].id /\ r.cap = Program[i].cap /\ Speaks(Program[i], r)
    BY DEF TraceInv, Witnessed
  <2>5. \A r \in N : \E i \in DOMAIN Program :
          r.step = Program[i].id /\ r.cap = Program[i].cap /\ Speaks(Program[i], r)
    BY <1>4, <1>5
  <2> QED BY <1>2, <1>7, <1>10, <2>1, <2>3, <2>4, <2>5 DEF Witnessed
<1>14. Together'
  <2> SUFFICES ASSUME NEW r \in st'.evidence, NEW q \in st'.evidence, r.revision = q.revision
               PROVE  r.step = q.step /\ (r.cap \in {"file.exists", "file.read"} => r = q)
    BY DEF Together
  <2>1. CASE r \in st.evidence /\ q \in st.evidence BY <2>1 DEF TraceInv, Together
  <2>2. CASE r \in N /\ q \in N BY <1>5, <2>2
  <2>3. ~(r \in st.evidence /\ q \in N) BY <1>3, <1>5, <1>9, <1>11
  <2>4. ~(r \in N /\ q \in st.evidence) BY <1>3, <1>5, <1>9, <1>11
  <2> QED BY <1>10, <2>1, <2>2, <2>3, <2>4
<1>15. Sequenced'
  <2>1. ASSUME NEW r \in st'.evidence, NEW q \in st'.evidence, r.revision < q.revision
        PROVE  Place(r) < Place(q)
    <3>1. CASE r \in st.evidence /\ q \in st.evidence BY <2>1, <3>1 DEF TraceInv, Sequenced
    <3>2. CASE r \in st.evidence /\ q \in N BY <1>8, <1>9, <3>2
    <3>3. r \notin N
      <4> SUFFICES ASSUME r \in N PROVE FALSE OBVIOUS
      <4>1. r.revision = n BY <1>5
      <4>2. q.revision <= n /\ q.revision \in Nat BY <1>3, <1>5, <1>9, <1>10, <1>11
      <4> QED BY <1>3, <1>11, <2>1, <4>1, <4>2
    <3> QED BY <1>10, <3>1, <3>2, <3>3
  <2>2. ASSUME NEW d \in Callers, Active(d)' PROVE d = c
    <3>1. Active(c) BY <1>2 DEF Active, ActivePCs
    <3>2. d # c => Active(d) BY <1>1, <2>2 DEF Active
    <3> QED BY <3>1, <3>2 DEF OneRunner
  <2>3. \A r \in st'.evidence : Place(r) < run'[c].step
    BY <1>1, <1>3, <1>8, <1>9, <1>10 DEF k
  <2>4. run'[c].pc \notin EarlyPCs BY <1>2 DEF EarlyPCs
  <2> QED BY <1>6, <2>1, <2>2, <2>3, <2>4 DEF Sequenced
<1>16. Siblings'
  <2>1. \A r \in N : r.kind = "FILE_WRITTEN" =>
          \E p \in N : p.kind = "FILE_PRESENT" /\ p.target = r.target
                       /\ p.revision = r.revision /\ p.cap = r.cap
    BY <1>5
  <2> QED BY <1>2, <1>10, <2>1 DEF TraceInv, Siblings
<1>17. st'.status # "ADMITTED" BY RunnerAfterEmission
<1> QED BY <1>12, <1>13, <1>14, <1>15, <1>16, <1>17 DEF TraceInv

\* Any other step leaves the evidence alone, and the runner goes forward.
LEMMA TraceStays ==
  ASSUME IInv, Witnessed, x \in Requests, x' = x, st'.evidence = st.evidence,
         st.revision \in Nat, st'.revision \in Nat, st.revision <= st'.revision,
         Together, Siblings, Sequenced,
         \A c \in Callers : Active(c)' =>
           \/ st.evidence = {}
           \/ /\ Active(c) /\ run'[c].step = run[c].step
              /\ run'[c].pc \in EarlyPCs => run[c].pc \in EarlyPCs
           \/ Active(c) /\ run'[c].step = run[c].step + 1
  PROVE  Witnessed' /\ Together' /\ Siblings' /\ Sequenced'
<1>1. Program' = Program /\ \A r : Place(r)' = Place(r) BY DEF Program, Place
<1>2. \A r \in st.evidence : r.revision \in 1..st.revision => r.revision \in 1..st'.revision
  OBVIOUS
<1>3. Witnessed' BY <1>1, <1>2 DEF Witnessed
<1>4. Together' /\ Siblings' BY DEF Together, Siblings
<1>5. \A c \in Callers : run[c].step \in Nat BY DEF IInv, TypeOK, Runs
<1>6. \A r \in st.evidence : Place(r) \in Nat BY PlaceType
<1>7. ASSUME NEW c \in Callers, Active(c)', NEW r \in st.evidence
      PROVE  /\ Place(r) < run'[c].step
             /\ run'[c].pc \in EarlyPCs => Place(r) < run'[c].step - 1
  BY <1>5, <1>6, <1>7 DEF Sequenced
<1>8. Sequenced' BY <1>1, <1>7 DEF Sequenced
<1> QED BY <1>3, <1>4, <1>8

\* Every step keeps the evidence a trace.
LEMMA TraceStep ==
  ASSUME IInv, Numbered, Explained, OneRunner, TraceInv, [Next]_vars, IInv'
  PROVE  TraceInv'
<1>0. st.revision \in Nat /\ st'.revision \in Nat BY DEF IInv, TypeOK, States
<1>1. ASSUME NEW c \in Callers, NEW e \in Events, Emits(c, e), e.kind # "evidence.produced"
      PROVE  TraceInv'
  <2>1. /\ x \in Requests /\ x' = x /\ Hop(run[c].pc, e.kind, run'[c].pc)
        /\ run'[c].step = run[c].step /\ run'[c].obs = run[c].obs
        /\ \A d \in Callers : d # c => run'[d] = run[d]
    BY <1>1 DEF Emits
  <2>2. st'.evidence = st.evidence /\ st'.revision = st.revision + 1
    BY <1>1, EvidenceBecomes
  <2>3. Hands'
    <3> SUFFICES ASSUME NEW d \in Callers, run'[d].pc \in HandPCs
                 PROVE  Said(StepOf(d)', run'[d].obs)
      BY DEF Hands
    <3>1. run[d].pc \in HandPCs /\ run'[d].obs = run[d].obs /\ run'[d].step = run[d].step
      BY <2>1 DEF Hop, HandPCs
    <3>2. StepOf(d)' = StepOf(d) BY <2>1, <3>1 DEF StepOf, Program
    <3> QED BY <3>1, <3>2 DEF TraceInv, Hands
  <2>4. ASSUME NEW d \in Callers, Active(d)'
        PROVE  \/ st.evidence = {}
               \/ /\ Active(d) /\ run'[d].step = run[d].step
                  /\ run'[d].pc \in EarlyPCs => run[d].pc \in EarlyPCs
    <3>1. CASE d # c BY <2>1, <2>4, <3>1 DEF Active
    <3>2. CASE d = c
      <4>1. \/ e.kind = "execution.started"
            \/ Active(c) /\ (run'[c].pc \in EarlyPCs => run[c].pc \in EarlyPCs)
        BY <1>1, <2>1, <2>4, <3>2 DEF Hop, Active, ActivePCs, EarlyPCs
      <4>2. e.kind = "execution.started" => st.status = "ADMITTED"
        <5>1. /\ st \in States /\ Accepts(x, st, e) /\ st' = Reduced(x, st, e)
          BY <1>1 DEF Emits, IInv, TypeOK
        <5>2. Changes(x, st, e, st') BY <2>1, <5>1, ReducedIs
        <5> QED BY <5>2 DEF Changes
      <4> QED BY <2>1, <3>2, <4>1, <4>2 DEF TraceInv
    <3> QED BY <3>1, <3>2
  <2>5. Witnessed' /\ Together' /\ Siblings' /\ Sequenced'
    BY <1>0, <2>1, <2>2, <2>4, TraceStays DEF TraceInv
  <2>6. st'.status # "ADMITTED" BY <1>1, RunnerAfterEmission
  <2> QED BY <2>3, <2>5, <2>6 DEF TraceInv
<1>2. ASSUME NEW c \in Callers, Passes(c) PROVE TraceInv'
  <2>1. /\ x' = x /\ st' = st /\ \A d \in Callers : d # c => run'[d] = run[d]
    BY <1>2 DEF Passes
  <2>2. Hands'
    <3> SUFFICES ASSUME NEW d \in Callers, run'[d].pc \in HandPCs
                 PROVE  Said(StepOf(d)', run'[d].obs)
      BY DEF Hands
    <3>1. CASE d # c
      <4>1. StepOf(d)' = StepOf(d) BY <2>1, <3>1 DEF StepOf, Program
      <4> QED BY <2>1, <3>1, <4>1 DEF TraceInv, Hands
    <3>2. CASE d = c
      <4>1. run'[c].pc = "evaluate" /\ run[c].pc = "invoke"
        BY <1>2, <3>2, PassesOn DEF HandPCs
      <4>2. Touches(c) BY <4>1, EvaluateFrom
      <4>3. StepOf(c)' = StepOf(c) BY <2>1, <4>2 DEF Touches, StepOf, Program
      <4>4. Failed.facts = {} BY DEF Failed, Observation
      <4>5. Said(StepOf(c), run'[c].obs)
        <5>1. CASE Saw(StepOf(c), ws, ws', run'[c].obs) BY <5>1 DEF Saw
        <5>2. CASE run'[c].obs = Failed BY <4>4, <5>2 DEF Said
        <5> QED BY <4>2, <5>1, <5>2 DEF Touches
      <4> QED BY <3>2, <4>3, <4>5
    <3> QED BY <3>1, <3>2
  <2>3. ASSUME NEW d \in Callers, Active(d)'
        PROVE  \/ /\ Active(d) /\ run'[d].step = run[d].step
                  /\ run'[d].pc \in EarlyPCs => run[d].pc \in EarlyPCs
               \/ Active(d) /\ run'[d].step = run[d].step + 1
    <3>1. CASE d # c BY <2>1, <2>3, <3>1 DEF Active
    <3>2. CASE d = c BY <1>2, <2>3, <3>2, PassesOn DEF Active, ActivePCs, EarlyPCs
    <3> QED BY <3>1, <3>2
  <2>4. CASE x \in Requests
    <3>1. st.revision <= st'.revision BY <1>0, <2>1
    <3>2. Witnessed' /\ Together' /\ Siblings' /\ Sequenced'
      BY <1>0, <2>1, <2>3, <2>4, <3>1, TraceStays DEF TraceInv
    <3> QED BY <2>1, <2>2, <3>2 DEF TraceInv
  <2>5. CASE x \notin Requests
    <3>1. st.evidence = {} BY <2>5 DEF IInv, TypeOK, Blank, InitialState
    <3> QED BY <2>1, <2>2, <3>1 DEF TraceInv, Witnessed, Together, Siblings, Sequenced
  <2> QED BY <2>4, <2>5
<1>3. CASE Stands
  <2>1. /\ st' = st
        /\ \A d \in Callers : run'[d].pc = run[d].pc /\ run'[d].step = run[d].step
                              /\ run'[d].obs = run[d].obs
    BY <1>3 DEF Stands
  <2>2. CASE x' = x
    <3>1. \A d \in Callers : StepOf(d)' = StepOf(d) BY <2>1, <2>2 DEF StepOf, Program
    <3>2. Hands' BY <2>1, <3>1 DEF TraceInv, Hands
    <3>3. Witnessed' /\ Together' /\ Siblings' /\ Sequenced'
      BY <2>1, <2>2 DEF TraceInv, Witnessed, Together, Siblings, Sequenced, Program, Place, Active
    <3> QED BY <2>1, <3>2, <3>3 DEF TraceInv
  <2>3. CASE x = NoRequest /\ st = InitialState
    <3>1. st.evidence = {} BY <2>3 DEF InitialState
    <3>2. \A d \in Callers : run'[d].pc \notin HandPCs
      BY <2>1, <2>3, AtWork DEF HandPCs
    <3> QED BY <2>1, <3>1, <3>2 DEF TraceInv, Hands, Witnessed, Together, Siblings, Sequenced
  <2> QED BY <1>3, <2>2, <2>3 DEF Stands
<1> QED BY <1>1, <1>2, <1>3, StepSorts, TraceGrows

\* No evidence is a trace.
LEMMA TraceInit == Init => TraceInv
<1> SUFFICES ASSUME Init PROVE TraceInv OBVIOUS
<1>1. st.evidence = {} BY DEF Init, InitialState
<1>2. \A c \in Callers : run[c].pc = "idle" BY DEF Init, Idle
<1> QED BY <1>1, <1>2 DEF TraceInv, Hands, HandPCs, Witnessed, Together, Siblings, Sequenced

-----------------------------------------------------------------------------
(***************************************************************************)
(* The evidence against the disk: a recorded removal was one, and a file   *)
(* found missing before it was written was created, unless somebody else   *)
(* edited the workspace.                                                   *)
(***************************************************************************)
RemovalOf(t) == \E e \in effects : e.cap = "file.delete" /\ e.target = t /\ e.before # NoFile
CreationOf(t) == \E e \in effects : e.cap = "file.write" /\ e.target = t /\ e.before = NoFile

FoundMissing(t) ==
  \E r \in st.evidence : r.kind = "FILE_ABSENT" /\ r.cap = "file.exists" /\ r.target = t

RemovalsHappened ==
  /\ \A r \in st.evidence : r.kind = "FILE_DELETED" => RemovalOf(r.target)
  /\ \A c \in Callers : run[c].pc \in HandPCs =>
       \A f \in run[c].obs.facts : f.kind = "FILE_DELETED" => RemovalOf(f.target)

\* Still missing, or created by this execution.
Accounted(t) == ws[t] = NoFile \/ CreationOf(t)

CreationsHappened ==
  edits = 0 =>
    /\ \A t \in Targets : FoundMissing(t) => Accounted(t)
    /\ \A c \in Callers : run[c].pc \in HandPCs => \A f \in run[c].obs.facts :
         /\ f.kind = "FILE_ABSENT" /\ StepOf(c).cap = "file.exists" => Accounted(f.target)
         /\ f.kind = "FILE_WRITTEN" /\ FoundMissing(f.target) => CreationOf(f.target)
    /\ \A a, w \in st.evidence :
         /\ a.kind = "FILE_ABSENT" /\ a.cap = "file.exists" /\ w.kind = "FILE_WRITTEN"
         /\ a.target = w.target /\ a.revision < w.revision
         => CreationOf(w.target)

DiskInv == RemovalsHappened /\ CreationsHappened

\* A step that neither reaches the disk nor records evidence.
HandsRest ==
  /\ st'.evidence = st.evidence /\ effects' = effects
  /\ UNCHANGED <<ws, edits>> \/ edits' # 0
  /\ \A c \in Callers : run'[c].pc \in HandPCs =>
       run[c].pc \in HandPCs /\ run'[c].obs = run[c].obs /\ StepOf(c)' = StepOf(c)

Records_(c, e) ==
  Emits(c, e) /\ e.kind = "evidence.produced" /\ UNCHANGED <<ws, edits, effects>>

\* Every step, as far as the disk and what was seen of it go.
LEMMA DiskSorts ==
  ASSUME IInv, Numbered, Explained, [Next]_vars
  PROVE  \/ \E c \in Callers : Touches(c)
         \/ \E c \in Callers, e \in Events : Records_(c, e)
         \/ HandsRest
<1> SUFFICES ASSUME ~\E c \in Callers : Touches(c)
             PROVE  (\E c \in Callers, e \in Events : Records_(c, e)) \/ HandsRest
  OBVIOUS
<1>1. /\ effects' = effects /\ (UNCHANGED <<ws, edits>> \/ (edits' # 0 /\ st' = st))
      /\ \A d \in Callers : run'[d].pc = "evaluate" => run[d].pc = "evaluate"
  <2>1. ASSUME NEW c \in Callers, JudgeTarget(c)
        PROVE  /\ UNCHANGED <<ws, edits, effects>>
               /\ \A d \in Callers : run'[d].pc = "evaluate" => run[d].pc = "evaluate"
    <3>1. /\ UNCHANGED <<ws, edits, effects>> /\ run[c].pc = "judge"
          /\ \/ run' = [run EXCEPT ![c].target = @ + 1]
             \/ \E v : run' = [run EXCEPT ![c].pc = "verdict", ![c].verdict = v]
      BY <2>1 DEF JudgeTarget, At, Concludes
    <3>2. run \in [Callers -> Runs] BY DEF IInv, TypeOK
    <3> QED BY <3>1, <3>2 DEF Runs
  <2>2. ASSUME NEW c \in Callers, Verify(c)
        PROVE  /\ UNCHANGED <<ws, edits, effects>>
               /\ \A d \in Callers : run'[d].pc = "evaluate" => run[d].pc = "evaluate"
    <3>1. UNCHANGED <<ws, edits, effects>> BY <2>2 DEF Verify
    <3>2. run'[c].pc # "evaluate"
      <4>1. run \in [Callers -> Runs] BY DEF IInv, TypeOK
      <4>2. \A pc : At1(run[c], pc).pc = pc BY <4>1 DEF At1, Runs
      <4>3. \A k : Blocked(run[c], k).pc = "stopped" BY <4>1 DEF Blocked, Runs
      <4>4. \A r, e : [r EXCEPT !.outbox = Stamped(e)].pc = r.pc OBVIOUS
      <4>5. \/ \E e, a : /\ a \in {At1(run[c], "settle"), At1(run[c], "judge")}
                         /\ EmitOr(c, e, a, Blocked(run[c], "VERIFICATION_FAILURE"))
            \/ Stop(c, "VERIFICATION_FAILURE")
        BY <2>2 DEF Verify
      <4>6. CASE Stop(c, "VERIFICATION_FAILURE") BY <4>1, <4>6 DEF Stop, Runs
      <4>7. ASSUME NEW e, NEW a \in {At1(run[c], "settle"), At1(run[c], "judge")},
                   EmitOr(c, e, a, Blocked(run[c], "VERIFICATION_FAILURE"))
            PROVE  run'[c].pc # "evaluate"
        <5>1. CASE Refused(c, e, Blocked(run[c], "VERIFICATION_FAILURE"))
          BY <4>1, <4>3, <5>1 DEF Refused
        <5>2. CASE Emit(c, e, a)
          <6>1. run'[c] = [a EXCEPT !.outbox = Stamped(e)] BY <4>1, <5>2 DEF Emit
          <6>2. a.pc \in {"settle", "judge"} BY <4>2, <4>7
          <6>3. "pc" \in DOMAIN a BY <4>1, <4>7 DEF At1, Runs
          <6> QED BY <6>1, <6>2, <6>3
        <5> QED BY <4>7, <5>1, <5>2 DEF EmitOr
      <4> QED BY <4>5, <4>6, <4>7
    <3>3. \A d \in Callers : d # c => run'[d] = run[d]
      BY <2>2 DEF Verify, Stop, EmitOr, Emit, Refused, IInv, TypeOK
    <3> QED BY <3>1, <3>2, <3>3
  <2>3. CASE Edited BY <2>3 DEF Edited
  <2>4. CASE Rests BY <2>4 DEF Rests, Kept
  <2> QED BY <2>1, <2>2, <2>3, <2>4, WorldIs
<1>2. ASSUME NEW c \in Callers, NEW e \in Events, Emits(c, e)
      PROVE  Records_(c, e) \/ HandsRest
  <2>1. st'.revision = st.revision + 1 /\ st.revision \in Nat
    BY <1>2, EvidenceBecomes DEF IInv, TypeOK, States
  <2>2. UNCHANGED <<ws, edits, effects>> BY <1>1, <2>1
  <2>3. CASE e.kind # "evidence.produced"
    <3>1. /\ x' = x /\ Hop(run[c].pc, e.kind, run'[c].pc)
          /\ run'[c].step = run[c].step /\ run'[c].obs = run[c].obs
          /\ \A d \in Callers : d # c => run'[d] = run[d]
      BY <1>2 DEF Emits
    <3>2. st'.evidence = st.evidence BY <1>2, <2>3, EvidenceBecomes
    <3>3. ASSUME NEW d \in Callers, run'[d].pc \in HandPCs
          PROVE  run[d].pc \in HandPCs /\ run'[d].obs = run[d].obs /\ StepOf(d)' = StepOf(d)
      <4>1. run[d].pc \in HandPCs /\ run'[d].obs = run[d].obs /\ run'[d].step = run[d].step
        BY <3>1, <3>3 DEF Hop, HandPCs
      <4> QED BY <3>1, <4>1 DEF StepOf, Program
    <3> QED BY <2>2, <3>2, <3>3 DEF HandsRest
  <2> QED BY <1>2, <2>2, <2>3 DEF Records_
<1>3. ASSUME NEW c \in Callers, Passes(c) PROVE HandsRest
  <2>1. x' = x /\ st' = st /\ \A d \in Callers : d # c => run'[d] = run[d]
    BY <1>3 DEF Passes
  <2>2. run'[c].pc \notin HandPCs BY <1>1, <1>3, PassesOn DEF HandPCs
  <2>3. \A d \in Callers : d # c => StepOf(d)' = StepOf(d) BY <2>1 DEF StepOf, Program
  <2> QED BY <1>1, <2>1, <2>2, <2>3 DEF HandsRest
<1>4. CASE Stands
  <2>1. /\ st' = st
        /\ \A d \in Callers : run'[d].pc = run[d].pc /\ run'[d].step = run[d].step
                              /\ run'[d].obs = run[d].obs
    BY <1>4 DEF Stands
  <2>2. CASE x' = x
    <3>1. \A d \in Callers : StepOf(d)' = StepOf(d) BY <2>1, <2>2 DEF StepOf, Program
    <3> QED BY <1>1, <2>1, <3>1 DEF HandsRest
  <2>3. CASE x = NoRequest
    <3>1. \A d \in Callers : run'[d].pc \notin HandPCs
      BY <2>1, <2>3, AtWork DEF HandPCs
    <3> QED BY <1>1, <2>1, <3>1 DEF HandsRest
  <2> QED BY <1>4, <2>2, <2>3 DEF Stands
<1> QED BY <1>2, <1>3, <1>4, StepSorts

\* What an invocation does to a target that is accounted for.
LEMMA TouchAccounts ==
  ASSUME IInv, NEW c \in Callers, Touches(c), edits' = 0
  PROVE  /\ edits = 0 /\ Saw(StepOf(c), ws, ws', run'[c].obs)
         /\ \A t \in Targets : Accounted(t) => Accounted(t)'
<1>1. /\ Saw(StepOf(c), ws, ws', run'[c].obs) /\ edits' = edits
      /\ effects' = effects \cup
           (IF ws' = ws THEN {} ELSE {Effect(StepOf(c), ws[StepOf(c).target])})
  BY DEF Touches
<1>2. \A s, b : Effect(s, b).cap = s.cap /\ Effect(s, b).target = s.target
                /\ Effect(s, b).before = b
  BY DEF Effect
<1>3. ASSUME NEW t \in Targets, Accounted(t) PROVE Accounted(t)'
  <2>1. CASE CreationOf(t) BY <1>1, <2>1 DEF CreationOf, Accounted
  <2>2. CASE ws[t] = NoFile /\ ws'[t] # NoFile
    <3>1. t = StepOf(c).target /\ StepOf(c).cap = "file.write" /\ ws' # ws
      BY <1>1, <2>2 DEF Saw
    <3>2. Effect(StepOf(c), ws[StepOf(c).target]) \in effects' BY <1>1, <3>1
    <3> QED BY <1>2, <2>2, <3>1, <3>2 DEF CreationOf, Accounted
  <2>3. CASE ws'[t] = NoFile BY <2>3 DEF Accounted
  <2> QED BY <1>3, <2>1, <2>2, <2>3 DEF Accounted
<1> QED BY <1>1, <1>3

\* A removal that is reported is an effect of its own.
LEMMA TouchRemoves ==
  ASSUME IInv, NEW c \in Callers, Touches(c), NEW f \in run'[c].obs.facts,
         f.kind = "FILE_DELETED"
  PROVE  RemovalOf(f.target)'
<1>1. Failed.facts = {} BY DEF Failed, Observation
<1>2. /\ Saw(StepOf(c), ws, ws', run'[c].obs)
      /\ effects' = effects \cup
           (IF ws' = ws THEN {} ELSE {Effect(StepOf(c), ws[StepOf(c).target])})
  BY <1>1 DEF Touches
<1>3. ws[StepOf(c).target] # NoFile /\ ws' # ws BY <1>2 DEF Saw
<1>4. StepOf(c).cap = "file.delete" /\ f.target = StepOf(c).target
  BY <1>2 DEF Saw, Said, Speaks, FileKinds
<1>5. Effect(StepOf(c), ws[StepOf(c).target]) \in effects' BY <1>2, <1>3
<1>6. \A s, b : Effect(s, b).cap = s.cap /\ Effect(s, b).target = s.target
                /\ Effect(s, b).before = b
  BY DEF Effect
<1> QED BY <1>3, <1>4, <1>5, <1>6 DEF RemovalOf

\* A history of effects that grows keeps its removals and creations.
LEMMA EffectsKept ==
  ASSUME effects \subseteq effects'
  PROVE  \A t : (RemovalOf(t) => RemovalOf(t)') /\ (CreationOf(t) => CreationOf(t)')
BY DEF RemovalOf, CreationOf

\* Every step keeps the recorded removals real.
LEMMA RemovalsStep ==
  ASSUME IInv, Numbered, Explained, TraceInv, RemovalsHappened, [Next]_vars
  PROVE  RemovalsHappened'
<1>1. ASSUME NEW c \in Callers, Touches(c) PROVE RemovalsHappened'
  <2>1. /\ st' = st /\ effects \subseteq effects'
        /\ \A d \in Callers : d # c => run'[d] = run[d]
    BY <1>1 DEF Touches
  <2>2. \A t : RemovalOf(t) => RemovalOf(t)' BY <2>1, EffectsKept
  <2>3. \A f \in run'[c].obs.facts : f.kind = "FILE_DELETED" => RemovalOf(f.target)'
    BY <1>1, TouchRemoves
  <2> QED BY <2>1, <2>2, <2>3 DEF RemovalsHappened
<1>2. ASSUME NEW c \in Callers, NEW e \in Events, Records_(c, e) PROVE RemovalsHappened'
  <2> DEFINE n == st.revision + 1
             N == {RecordOf(StepOf(c), run[c].obs, f, n) : f \in run[c].obs.facts}
  <2>1. /\ Emits(c, e) /\ effects' = effects /\ \A d \in Callers : d # c => run'[d] = run[d]
    BY <1>2 DEF Records_, Emits
  <2>2. /\ run[c].pc = "evidence" /\ run'[c].pc = "mutation"
        /\ st'.evidence = st.evidence \cup N
    BY <1>2, <2>1, EvidenceBecomes DEF Records_
  <2>3. \A m \in N : \E f \in run[c].obs.facts : m.kind = f.kind /\ m.target = f.target
    BY <2>2, NewRecords DEF TraceInv
  <2> HIDE DEF N
  <2>4. \A t : RemovalOf(t)' = RemovalOf(t) BY <2>1 DEF RemovalOf
  <2>5. \A m \in N : m.kind = "FILE_DELETED" => RemovalOf(m.target)
    BY <2>2, <2>3 DEF RemovalsHappened, HandPCs
  <2> QED BY <2>1, <2>2, <2>4, <2>5 DEF RemovalsHappened, HandPCs
<1>3. CASE HandsRest
  <2>1. \A t : RemovalOf(t)' = RemovalOf(t) BY <1>3 DEF HandsRest, RemovalOf
  <2> QED BY <1>3, <2>1 DEF HandsRest, RemovalsHappened
<1> QED BY <1>1, <1>2, <1>3, DiskSorts

\* Every step keeps what was found missing accounted for.
LEMMA CreationsStep ==
  ASSUME IInv, Numbered, Explained, OneRunner, TraceInv, CreationsHappened, [Next]_vars
  PROVE  CreationsHappened'
<1> SUFFICES ASSUME edits' = 0 PROVE CreationsHappened' BY DEF CreationsHappened
<1>0. \A d \in Callers : run[d].pc \in HandPCs =>
        Said(StepOf(d), run[d].obs)
  BY DEF TraceInv, Hands
<1>a. \A step, obs, f : Said(step, obs) /\ f \in obs.facts /\ f.kind \in FileKinds =>
        f.target = step.target /\ f.target \in Targets
  BY DEF Said, Speaks
<1>1. ASSUME NEW c \in Callers, Touches(c) PROVE CreationsHappened'
  <2>1. /\ st' = st /\ effects \subseteq effects' /\ x' = x
        /\ \A d \in Callers : d # c => run'[d] = run[d]
        /\ run'[c].step = run[c].step
    BY <1>1 DEF Touches
  <2>2. \A t : CreationOf(t) => CreationOf(t)' BY <2>1, EffectsKept
  <2>3. /\ edits = 0 /\ Saw(StepOf(c), ws, ws', run'[c].obs)
        /\ \A t \in Targets : Accounted(t) => Accounted(t)'
    BY <1>1, TouchAccounts
  <2>4. \A t : FoundMissing(t)' = FoundMissing(t) BY <2>1 DEF FoundMissing
  <2>5. \A d \in Callers : StepOf(d)' = StepOf(d) BY <2>1 DEF StepOf, Program
  <2>6. \A t \in Targets : FoundMissing(t) => Accounted(t)'
    BY <2>3 DEF CreationsHappened
  <2>7. ASSUME NEW f \in run'[c].obs.facts
        PROVE  /\ f.kind = "FILE_ABSENT" /\ StepOf(c).cap = "file.exists" => Accounted(f.target)'
               /\ f.kind = "FILE_WRITTEN" /\ FoundMissing(f.target) => CreationOf(f.target)'
    <3>1. f.kind \in FileKinds => f.target = StepOf(c).target /\ f.target \in Targets
      BY <1>a, <2>3 DEF Saw
    <3>2. CASE f.kind = "FILE_ABSENT" /\ StepOf(c).cap = "file.exists"
      <4>1. f.target = StepOf(c).target /\ f.target \in Targets BY <3>1, <3>2 DEF FileKinds
      <4>2. ws[f.target] = NoFile BY <2>3, <3>2, <4>1 DEF Saw
      <4>3. ws'[f.target] = NoFile BY <2>3, <3>2, <4>1, <4>2 DEF Saw
      <4> QED BY <3>2, <4>3 DEF Accounted
    <3>3. CASE f.kind = "FILE_WRITTEN" /\ FoundMissing(f.target)
      <4>1. f.target = StepOf(c).target /\ f.target \in Targets BY <3>1, <3>3 DEF FileKinds
      <4>2. ws'[f.target] # NoFile BY <2>3, <3>3, <4>1 DEF Saw
      <4> QED BY <2>6, <3>3, <4>1, <4>2 DEF Accounted
    <3> QED BY <3>2, <3>3
  <2>8. ASSUME NEW d \in Callers, run'[d].pc \in HandPCs, NEW f \in run'[d].obs.facts
        PROVE  /\ f.kind = "FILE_ABSENT" /\ StepOf(d).cap = "file.exists" => Accounted(f.target)'
               /\ f.kind = "FILE_WRITTEN" /\ FoundMissing(f.target) => CreationOf(f.target)'
    <3>1. CASE d = c BY <2>7, <2>8, <3>1
    <3>2. CASE d # c
      <4>1. run'[d] = run[d] BY <2>1, <3>2
      <4>2. /\ f.kind = "FILE_ABSENT" /\ StepOf(d).cap = "file.exists" => Accounted(f.target)
            /\ f.kind = "FILE_WRITTEN" /\ FoundMissing(f.target) => CreationOf(f.target)
        BY <2>3, <2>8, <4>1 DEF CreationsHappened
      <4>3. f.kind = "FILE_ABSENT" => f.target \in Targets
        BY <1>0, <1>a, <2>8, <4>1 DEF FileKinds
      <4> QED BY <2>2, <2>3, <4>2, <4>3
    <3> QED BY <3>1, <3>2
  <2>9. \A a, w \in st.evidence :
         /\ a.kind = "FILE_ABSENT" /\ a.cap = "file.exists" /\ w.kind = "FILE_WRITTEN"
         /\ a.target = w.target /\ a.revision < w.revision
         => CreationOf(w.target)'
    BY <2>2, <2>3 DEF CreationsHappened
  <2> QED BY <2>1, <2>4, <2>5, <2>6, <2>8, <2>9 DEF CreationsHappened
<1>2. ASSUME NEW c \in Callers, NEW e \in Events, Records_(c, e) PROVE CreationsHappened'
  <2> DEFINE n == st.revision + 1
             N == {RecordOf(StepOf(c), run[c].obs, f, n) : f \in run[c].obs.facts}
  <2>1. /\ Emits(c, e) /\ effects' = effects /\ edits = 0 /\ ws' = ws
        /\ \A d \in Callers : d # c => run'[d] = run[d]
    BY <1>2 DEF Records_, Emits
  <2>2. /\ run[c].pc = "evidence" /\ run'[c].pc = "mutation"
        /\ st'.evidence = st.evidence \cup N
    BY <1>2, <2>1, EvidenceBecomes DEF Records_
  <2>3. \A m \in N : /\ m.revision = n /\ m.cap = StepOf(c).cap
                     /\ \E f \in run[c].obs.facts : m.kind = f.kind /\ m.target = f.target
    BY <2>2, NewRecords DEF TraceInv
  <2>4. n = st.revision + 1 /\ st.revision \in Nat BY DEF IInv, TypeOK, States
  <2> HIDE DEF N, n
  <2>5. \A t : CreationOf(t)' = CreationOf(t) /\ Accounted(t)' = Accounted(t)
    BY <2>1 DEF CreationOf, Accounted
  <2>6. \A d \in Callers : run'[d].pc \notin HandPCs
    <3>1. Active(c) BY <2>2 DEF Active, ActivePCs
    <3>2. ASSUME NEW d \in Callers, run'[d].pc \in HandPCs PROVE FALSE
      <4>1. d # c /\ run'[d] = run[d] BY <2>1, <2>2, <3>2 DEF HandPCs
      <4>2. Active(d) BY <3>2, <4>1 DEF HandPCs, Active, ActivePCs
      <4> QED BY <3>1, <4>1, <4>2 DEF OneRunner
    <3> QED BY <3>2
  <2>7. run[c].pc \in HandPCs BY <2>2 DEF HandPCs
  <2>8. ASSUME NEW t \in Targets, FoundMissing(t)' PROVE Accounted(t)
    <3>1. CASE FoundMissing(t) BY <2>1, <3>1 DEF CreationsHappened
    <3>2. CASE \E m \in N : m.kind = "FILE_ABSENT" /\ m.cap = "file.exists" /\ m.target = t
      BY <2>1, <2>3, <2>7, <3>2 DEF CreationsHappened
    <3> QED BY <2>2, <2>8, <3>1, <3>2 DEF FoundMissing
  <2>9. ASSUME NEW a \in st'.evidence, NEW w \in st'.evidence,
               a.kind = "FILE_ABSENT", a.cap = "file.exists", w.kind = "FILE_WRITTEN",
               a.target = w.target, a.revision < w.revision
        PROVE  CreationOf(w.target)
    <3>1. \A r \in st.evidence : r.revision \in Nat /\ r.revision <= st.revision
      BY <2>4 DEF TraceInv, Witnessed
    <3>2. a \notin N
      <4> SUFFICES ASSUME a \in N PROVE FALSE OBVIOUS
      <4>1. a.revision = n BY <2>3
      <4>2. w.revision <= n /\ w.revision \in Nat BY <2>2, <2>3, <2>4, <3>1
      <4> QED BY <2>4, <2>9, <4>1, <4>2
    <3>3. a \in st.evidence BY <2>2, <3>2
    <3>4. CASE w \in st.evidence BY <2>1, <2>9, <3>3, <3>4 DEF CreationsHappened
    <3>5. CASE w \in N
      <4>1. PICK f \in run[c].obs.facts : w.kind = f.kind /\ w.target = f.target BY <2>3, <3>5
      <4>2. FoundMissing(f.target) BY <2>9, <3>3, <4>1 DEF FoundMissing
      <4> QED BY <2>1, <2>7, <2>9, <4>1, <4>2 DEF CreationsHappened
    <3> QED BY <2>2, <3>4, <3>5
  <2> QED BY <2>5, <2>6, <2>8, <2>9 DEF CreationsHappened
<1>3. CASE HandsRest
  <2>1. ws' = ws /\ edits = 0 /\ st'.evidence = st.evidence /\ effects' = effects
    BY <1>3 DEF HandsRest
  <2>2. \A t : /\ CreationOf(t)' = CreationOf(t) /\ Accounted(t)' = Accounted(t)
               /\ FoundMissing(t)' = FoundMissing(t)
    BY <2>1 DEF CreationOf, Accounted, FoundMissing
  <2> QED BY <1>3, <2>1, <2>2 DEF HandsRest, CreationsHappened
<1> QED BY <1>1, <1>2, <1>3, DiskSorts

\* At first nothing is recorded of the disk.
LEMMA DiskInit == Init => DiskInv
<1> SUFFICES ASSUME Init PROVE DiskInv OBVIOUS
<1>1. st.evidence = {} BY DEF Init, InitialState
<1>2. \A c \in Callers : run[c].pc = "idle" BY DEF Init, Idle
<1> QED BY <1>1, <1>2 DEF DiskInv, RemovalsHappened, CreationsHappened, HandPCs, FoundMissing

\* The evidence is a trace of the program, and tells of removals and creations
\* that happened, for any requests, callers and interference.
THEOREM EvidenceIsATrace == Spec => [](TraceInv /\ DiskInv)
<1>1. Init => TraceInv /\ DiskInv BY TraceInit, DiskInit
<1>2. /\ IInv /\ IInv' /\ RecordInv /\ DispatchInv /\ TraceInv /\ DiskInv /\ [Next]_vars
      => TraceInv' /\ DiskInv'
  BY TraceStep, RemovalsStep, CreationsStep DEF RecordInv, DispatchInv, DiskInv
<1> QED BY <1>1, <1>2, Invariance, RecordKept, Dispatched, PTL DEF Spec

\* What is called deleted was removed by this execution, whoever else touches
\* the workspace: finding nothing to delete never reads as Deleted.
THEOREM DeletionsHappened == Spec => []DeletedIsARemoval
<1>1. DiskInv => DeletedIsARemoval
  BY DEF DiskInv, RemovalsHappened, RemovalOf, DeletedIsARemoval, Deleted, Removed_, About
<1> QED BY <1>1, EvidenceIsATrace, PTL

\* What is called created was not there before the first write of it, unless
\* somebody else edited the workspace.
THEOREM CreationsAreTrue == Spec => []CreatedWhenAlone
<1>1. DiskInv => CreatedWhenAlone
  <2> SUFFICES ASSUME DiskInv, edits = 0, NEW t \in Targets, Created(t) PROVE CreationOf(t)
    BY DEF CreatedWhenAlone, CreationOf
  <2>1. PICK w \in About(t, "FILE_WRITTEN"), a \in About(t, "FILE_ABSENT") :
          a.cap = "file.exists" /\ a.revision < w.revision
    BY DEF Created
  <2> QED BY <2>1 DEF About, DiskInv, CreationsHappened
<1> QED BY <1>1, EvidenceIsATrace, PTL

-----------------------------------------------------------------------------
(***************************************************************************)
(* The verdict against the disk: while nobody edits the workspace after    *)
(* the check began, every target passed over is still as it was judged.    *)
(***************************************************************************)
Good(t) == Judge(x.verifier, x.spec, st.evidence, ws, t) = "OK"
GoodTo(k) == \A i \in DOMAIN x.spec.targets : i < k => Good(x.spec.targets[i])
AllGood == \A i \in DOMAIN x.spec.targets : Good(x.spec.targets[i])

\* The executions of the bridge.
Shaped == x # NoRequest => EntryShape(x)

JudgeInv ==
  /\ st.status = "ADMITTED" => /\ st.verify = "NOT_RUN"
                               /\ \A c \in Callers : run[c].target = 1
  /\ \A c \in Callers : Active(c) =>
       /\ st.verify = "NOT_RUN"
       /\ run[c].pc \notin {"judge", "verdict"} => run[c].target = 1
       /\ run[c].pc = "judge" /\ calm => GoodTo(run[c].target)
       /\ run[c].pc = "verdict" /\ run[c].verdict = "PASS" /\ calm => AllGood
  /\ st.verify # "NOT_APPLICABLE"
  /\ st.verify = "PASSED" /\ calm => AllGood

\* What was judged good stays good while the disk and the evidence stay.
LEMMA GoodKept ==
  ASSUME UNCHANGED <<x, ws>>, st'.evidence = st.evidence
  PROVE  AllGood' = AllGood /\ \A k : GoodTo(k)' = GoodTo(k)
<1>1. \A t : Good(t)' = Good(t) BY DEF Good
<1> QED BY <1>1 DEF AllGood, GoodTo

\* The verifiers of the bridge return OK or FAIL.
LEMMA JudgeSays ==
  ASSUME NEW v \in {"agreement", "content", "absence", "read"}, NEW sp, NEW evidence, NEW w, NEW t
  PROVE  /\ Judge(v, sp, evidence, w, t) \in {"OK", "FAIL"}
         /\ \A j \in Judgements(v, sp, evidence, w, t) :
              j # "PASS" /\ (j = "OK" => Judge(v, sp, evidence, w, t) = "OK")
<1>1. Judge(v, sp, evidence, w, t) \in {"OK", "FAIL"}
  BY DEF Judge, JudgeAgreement, JudgeContent, JudgeAbsence, JudgeRead
<1> QED BY <1>1 DEF Judgements

\* Nobody reaches the disk after the check began, but for other processes.
LEMMA JudgeTouch ==
  ASSUME IInv, OneRunner, JudgeInv, NEW c \in Callers, Touches(c)
  PROVE  JudgeInv'
<1>1. /\ run[c].pc = "invoke" /\ run'[c].pc = "evaluate" /\ run'[c].target = run[c].target
      /\ st' = st /\ \A d \in Callers : d # c => run'[d] = run[d]
  BY DEF Touches
<1>2. Active(c) /\ run[c].target = 1 /\ st.verify = "NOT_RUN"
  BY <1>1 DEF Active, ActivePCs, JudgeInv
<1>3. \A d \in Callers : Active(d)' => d = c
  BY <1>1, <1>2 DEF Active, OneRunner
<1> QED BY <1>1, <1>2, <1>3 DEF JudgeInv

\* A target that is looked at is judged.
LEMMA JudgeLooks ==
  ASSUME IInv, OneRunner, JudgeInv, Shaped, NEW c \in Callers, JudgeTarget(c)
  PROVE  JudgeInv'
<1> DEFINE k == run[c].target
           sp == x.spec
<1>1. run[c].pc = "judge" /\ UNCHANGED <<x, st, ws, calm>> BY DEF JudgeTarget, At
<1>2. x \in Requests /\ EntryShape(x) /\ run[c] \in Runs BY <1>1, AtWork DEF Shaped
<1>3. Active(c) BY <1>1 DEF Active, ActivePCs
<1>4. x.verifier \in {"agreement", "content", "absence", "read"} /\ ~NotApplicable(x.verifier, sp)
  BY <1>2 DEF EntryShape
<1>5. k \in Nat \ {0} BY <1>2 DEF Runs
<1>6. DOMAIN sp.targets = 1..Len(sp.targets) /\ Len(sp.targets) \in Nat
  BY <1>2, EngineAssumption DEF RequestShape
<1>7. run \in [Callers -> Runs] BY DEF IInv, TypeOK
<1>8. \A v : Concludes(c, v) =>
        /\ run'[c].pc = "verdict" /\ run'[c].verdict = v
        /\ \A d \in Callers : d # c => run'[d] = run[d]
  BY <1>7 DEF Concludes, Runs
<1>9. /\ \A d \in Callers : d # c => run'[d] = run[d]
      /\ \/ /\ run'[c].pc = "judge" /\ run'[c].target = k + 1
            /\ k \in DOMAIN sp.targets /\ Good(sp.targets[k])
         \/ /\ run'[c].pc = "verdict"
            /\ run'[c].verdict = "PASS" => k > Len(sp.targets)
  <2>1. CASE k > Len(sp.targets)
    <3>1. Concludes(c, "PASS") BY <1>4, <2>1 DEF JudgeTarget
    <3> QED BY <1>8, <2>1, <3>1
  <2>2. CASE ~(k > Len(sp.targets)) /\ done[c]
    <3>1. Concludes(c, "WITHDRAWN") BY <1>4, <2>2 DEF JudgeTarget
    <3> QED BY <1>8, <3>1
  <2>3. CASE ~(k > Len(sp.targets)) /\ ~done[c]
    <3>1. PICK j \in Judgements(x.verifier, sp, st.evidence, ws, sp.targets[k]) :
            IF j = "OK" THEN run' = [run EXCEPT ![c].target = k + 1] ELSE Concludes(c, j)
      BY <1>4, <2>3 DEF JudgeTarget
    <3>2. j # "PASS" /\ (j = "OK" => Good(sp.targets[k])) BY <1>4, <3>1, JudgeSays DEF Good
    <3>3. CASE j = "OK"
      <4>1. run' = [run EXCEPT ![c].target = k + 1] BY <3>1, <3>3
      <4>2. /\ run'[c].pc = "judge" /\ run'[c].target = k + 1
            /\ \A d \in Callers : d # c => run'[d] = run[d]
        BY <1>1, <1>7, <4>1 DEF Runs
      <4>3. k \in DOMAIN sp.targets BY <1>5, <1>6, <2>3
      <4> QED BY <3>2, <3>3, <4>2, <4>3
    <3>4. CASE j # "OK"
      <4>1. Concludes(c, j) BY <3>1, <3>4
      <4> QED BY <1>8, <3>2, <4>1
    <3> QED BY <3>3, <3>4
  <2> QED BY <2>1, <2>2, <2>3
<1>10. AllGood' = AllGood /\ \A m : GoodTo(m)' = GoodTo(m) BY <1>1, GoodKept
<1>11. calm => GoodTo(k) BY <1>1, <1>3 DEF JudgeInv
<1>12. calm /\ k \in DOMAIN sp.targets /\ Good(sp.targets[k]) => GoodTo(k + 1)
  BY <1>5, <1>6, <1>11 DEF GoodTo
<1>13. calm /\ k > Len(sp.targets) => AllGood
  BY <1>5, <1>6, <1>11 DEF GoodTo, AllGood
<1> HIDE DEF k, sp
<1>14. \A d \in Callers : Active(d)' => d = c
  BY <1>3, <1>9 DEF Active, OneRunner
<1>15. st.status # "ADMITTED" BY <1>3 DEF OneRunner, Active
<1>16. st.verify = "NOT_RUN" BY <1>3 DEF JudgeInv
<1>17. /\ run'[c].pc \in {"judge", "verdict"}
       /\ run'[c].pc = "judge" /\ calm => GoodTo(run'[c].target)
       /\ run'[c].pc = "verdict" /\ run'[c].verdict = "PASS" /\ calm => AllGood
  BY <1>9, <1>12, <1>13
<1> QED BY <1>1, <1>10, <1>14, <1>15, <1>16, <1>17 DEF JudgeInv

\* A check begins with the first target.
LEMMA JudgeBegins ==
  ASSUME IInv, OneRunner, JudgeInv, Shaped, NEW c \in Callers, Verify(c)
  PROVE  JudgeInv'
<1>1. run[c].pc = "verify" /\ UNCHANGED <<x, ws>> BY DEF Verify, At
<1>2. x \in Requests /\ EntryShape(x) /\ run[c] \in Runs BY <1>1, AtWork DEF Shaped
<1>3. Active(c) /\ run[c].target = 1 /\ st.verify = "NOT_RUN" /\ st.status # "ADMITTED"
  BY <1>1 DEF Active, ActivePCs, JudgeInv, OneRunner
<1> DEFINE e == EventOf("verification.started")
           a == At1(run[c], "judge")
           b == Blocked(run[c], "VERIFICATION_FAILURE")
<1>4. EmitOr(c, e, a, b)
  <2>1. x.spec.reqVerify /\ x.verifier # "none" BY <1>2 DEF EntryShape
  <2> QED BY <2>1 DEF Verify, NothingToCheck
<1>5. /\ a.pc = "judge" /\ a.target = 1 /\ b.pc = "stopped" /\ b.target = 1
  BY <1>2, <1>3 DEF At1, Blocked, Runs
<1>6. e.kind = "verification.started" BY DEF EventOf
<1>7. /\ \A d \in Callers : d # c => run'[d] = run[d]
      /\ run'[c].pc \in {"judge", "stopped"} /\ run'[c].target = 1
      /\ st'.verify = "NOT_RUN" /\ st'.status # "ADMITTED"
  <2>1. CASE Emit(c, e, a)
    <3> DEFINE r == [a EXCEPT !.outbox = Stamped(e)]
    <3>1. r.pc = "judge" /\ r.target = 1 BY <1>2, <1>5 DEF At1, Runs
    <3>2. run' = [run EXCEPT ![c] = r] /\ Accepts(x, st, e) /\ st' = Reduced(x, st, e)
      BY <2>1 DEF Emit
    <3> HIDE DEF r, e
    <3>3. AxesMove(x, st, e, st') BY <3>2, AxesAre DEF IInv, TypeOK
    <3>4. st'.verify = "NOT_RUN" BY <1>6, <3>3 DEF AxesMove
    <3>5. Hop("verify", e.kind, "judge") BY <1>6 DEF Hop
    <3>6. Changes(x, st, e, st') BY <3>2, <3>5, ReducedIs DEF IInv, TypeOK
    <3>7. st'.status = st.status BY <1>6, <3>6 DEF Changes
    <3> QED BY <1>3, <3>1, <3>2, <3>4, <3>7 DEF IInv, TypeOK
  <2>2. CASE Refused(c, e, b)
    <3>1. run' = [run EXCEPT ![c] = b] /\ st' = st BY <2>2 DEF Refused
    <3> QED BY <1>3, <1>5, <3>1 DEF IInv, TypeOK
  <2> HIDE DEF e, a, b
  <2> QED BY <1>4, <2>1, <2>2 DEF EmitOr
<1>8. /\ \A i \in DOMAIN x'.spec.targets : ~(i < run'[c].target)
      /\ \A d \in Callers : Active(d)' => d = c
  <2>1. DOMAIN x.spec.targets = 1..Len(x.spec.targets)
    BY <1>2, EngineAssumption DEF RequestShape
  <2>2. \A i \in DOMAIN x'.spec.targets : ~(i < run'[c].target) BY <1>1, <1>7, <2>1
  <2> QED BY <1>3, <1>7, <2>2 DEF Active, OneRunner
<1>9. "stopped" \notin ActivePCs BY DEF ActivePCs
<1> QED BY <1>7, <1>8, <1>9 DEF JudgeInv, GoodTo, Active

\* An emission that leaves the disk alone.
LEMMA JudgeEmission ==
  ASSUME IInv, OneRunner, Earned, JudgeInv, Shaped, Rests,
         NEW c \in Callers, NEW e \in Events, Emits(c, e)
  PROVE  JudgeInv'
<1>1. /\ x \in Requests /\ x' = x /\ ws' = ws /\ calm' = calm
      /\ Hop(run[c].pc, e.kind, run'[c].pc)
      /\ \A d \in Callers : d # c => run'[d] = run[d]
      /\ \A d \in Callers : Kept(run[d], run'[d])
      /\ Accepts(x, st, e) /\ st' = Reduced(x, st, e) /\ st \in States
  BY DEF Emits, Rests, IInv, TypeOK
<1>2. /\ \A d \in Callers : run'[d].pc \in ActivePCs =>
            Active(d) \/ (d = c /\ st.status = "ADMITTED" /\ run'[c].pc = "check")
      /\ st'.status # "ADMITTED"
      /\ e.kind \notin {"execution.started", "execution.failed", "execution.finished"} =>
            Active(c) /\ \A d \in Callers : Active(d) => d = c
  BY RunnerAfterEmission
<1>3. EntryShape(x) BY <1>1, AdmittedShape DEF Shaped
<1>4. \A d \in Callers : run'[d].target = run[d].target BY <1>1 DEF Kept
<1>5. e.kind \in {"evidence.produced", "verification.started", "verification.passed",
                  "verification.failed", "verification.skipped"} =>
        st.verify = "NOT_RUN" /\ \A d \in Callers : Active(d) => d = c
  BY <1>2 DEF JudgeInv
<1>6. /\ st'.verify = CASE e.kind = "verification.passed"  -> "PASSED"
                        [] e.kind = "verification.failed"  -> "FAILED"
                        [] e.kind = "verification.skipped" -> "NOT_APPLICABLE"
                        [] e.kind = "verification.started" -> "NOT_RUN"
                        [] OTHER -> st.verify
      /\ e.kind # "evidence.produced" => st'.evidence = st.evidence
  <2>1. AxesMove(x, st, e, st') BY <1>1, AxesAre
  <2> QED BY <2>1 DEF AxesMove
<1>7. e.kind # "verification.skipped"
  <2> SUFFICES ASSUME e.kind = "verification.skipped" PROVE FALSE OBVIOUS
  <2>1. run'[c].pc = "settle" BY <1>1 DEF Hop
  <2>2. \/ ~x.spec.reqVerify \/ e.kind = "verification.passed"
        \/ run[c].pc = "verdict" /\ run[c].verdict = "NOT_APPLICABLE"
    BY <2>1, SkippedIs
  <2> QED BY <1>3, <2>2 DEF Earned, EntryShape
<1>8. e.kind # "evidence.produced" => AllGood' = AllGood /\ \A k : GoodTo(k)' = GoodTo(k)
  BY <1>1, <1>6, GoodKept
<1>9. \A d \in Callers : run'[d].pc \in ActivePCs =>
        st.verify = "NOT_RUN" /\ (run'[d].pc \notin {"judge", "verdict"} => run[d].target = 1)
  <2> SUFFICES ASSUME NEW d \in Callers, run'[d].pc \in ActivePCs
               PROVE  st.verify = "NOT_RUN"
                      /\ (run'[d].pc \notin {"judge", "verdict"} => run[d].target = 1)
    OBVIOUS
  <2>1. CASE d = c /\ st.status = "ADMITTED" BY <2>1 DEF JudgeInv
  <2>2. CASE Active(d)
    <3>1. run[d].pc \in {"judge", "verdict"} => run'[d].pc \in {"judge", "verdict"}
      <4>1. CASE d # c BY <1>1, <4>1
      <4>2. CASE d = c
        BY <1>1, <2>2, <4>2 DEF Hop, ActivePCs
      <4> QED BY <4>1, <4>2
    <3> QED BY <2>2, <3>1 DEF JudgeInv
  <2> QED BY <1>2, <2>1, <2>2
<1>10. \A d \in Callers : run'[d].pc \in ActivePCs => st'.verify = "NOT_RUN"
  <2>1. ASSUME NEW d \in Callers, run'[d].pc \in ActivePCs,
               e.kind \in {"verification.passed", "verification.failed"}
        PROVE  FALSE
    <3>1. d = c BY <1>2, <2>1 DEF OneRunner
    <3>2. run'[c].pc \in {"settle", "stopped"} BY <1>1, <2>1 DEF Hop
    <3> QED BY <2>1, <3>1, <3>2 DEF ActivePCs
  <2> QED BY <1>6, <1>7, <1>9, <2>1
<1>11. ASSUME NEW d \in Callers, run'[d].pc \in {"judge", "verdict"}
       PROVE  /\ run'[d].pc = "judge" /\ calm => GoodTo(run[d].target)'
              /\ run'[d].pc = "verdict" /\ run'[d].verdict = "PASS" /\ calm => AllGood'
  <2>1. /\ run[d].pc = run'[d].pc /\ run'[d].target = run[d].target
        /\ run'[d].verdict = run[d].verdict
    BY <1>1, <1>11 DEF Kept
  <2>2. Active(d) BY <1>11, <2>1 DEF Active, ActivePCs
  <2>3. e.kind # "evidence.produced"
    <3> SUFFICES ASSUME e.kind = "evidence.produced" PROVE FALSE OBVIOUS
    <3>1. d = c BY <1>2, <2>2
    <3>2. run[c].pc = "evidence" BY <1>1 DEF Hop
    <3> QED BY <1>11, <2>1, <3>1, <3>2
  <2>4. /\ run[d].pc = "judge" /\ calm => GoodTo(run[d].target)
        /\ run[d].pc = "verdict" /\ run[d].verdict = "PASS" /\ calm => AllGood
    BY <2>2 DEF JudgeInv
  <2>5. GoodTo(run[d].target)' = GoodTo(run[d].target)
    <3>1. run'[d].target = run[d].target BY <2>1
    <3>2. st'.evidence = st.evidence BY <1>6, <2>3
    <3> QED BY <1>1, <3>1, <3>2 DEF GoodTo, Good
  <2> QED BY <1>8, <2>1, <2>3, <2>4, <2>5
<1>12. st'.verify # "NOT_APPLICABLE" BY <1>6, <1>7 DEF JudgeInv
<1>13. st'.verify = "PASSED" /\ calm => AllGood'
  <2>1. CASE e.kind = "verification.passed"
    <3>1. PICK a \in Runs : Emission(c, e, a) BY DEF Emits
    <3>2. run[c].pc = "verdict" BY <1>1, <2>1 DEF Hop
    <3>3. EmitsVerdict(c, e, a)
      BY <3>1, <3>2 DEF Emission, EmitsStart, EmitsDispatch, EmitsBlock, EmitsInvoked,
         EmitsEvidence, EmitsBoundary, EmitsCheck, EmitsEnd
    <3>4. e # EventOf("verification.skipped") /\ e # EventOf("verification.failed")
      BY <2>1 DEF EventOf
    <3>5. run[c].verdict = "PASS" BY <3>3, <3>4 DEF EmitsVerdict
    <3>6. Active(c) BY <3>2 DEF Active, ActivePCs
    <3>7. calm => AllGood BY <3>2, <3>5, <3>6 DEF JudgeInv
    <3> QED BY <1>8, <2>1, <3>7
  <2>2. CASE e.kind # "verification.passed" /\ st'.verify = "PASSED"
    <3>1. st.verify = "PASSED" BY <1>6, <2>2
    <3>2. e.kind # "evidence.produced" BY <1>5, <3>1
    <3> QED BY <1>8, <3>1, <3>2 DEF JudgeInv
  <2> QED BY <2>1, <2>2
<1>14. ASSUME NEW d \in Callers, Active(d)'
       PROVE  /\ st'.verify = "NOT_RUN"
              /\ run'[d].pc \notin {"judge", "verdict"} => run'[d].target = 1
  BY <1>4, <1>9, <1>10, <1>14 DEF Active
<1> QED BY <1>1, <1>2, <1>11, <1>12, <1>13, <1>14 DEF JudgeInv

\* A step that changes nothing the verdict is about.
LEMMA JudgeSilence ==
  ASSUME JudgeInv, UNCHANGED <<x, st, ws, calm>>,
         \A d \in Callers : /\ Kept(run[d], run'[d])
                            /\ Active(d)' => /\ Active(d)
                                             /\ run[d].pc \in {"judge", "verdict"} =>
                                                  run'[d].pc \in {"judge", "verdict"}
  PROVE  JudgeInv'
<1>1. AllGood' = AllGood /\ \A k : GoodTo(k)' = GoodTo(k) BY GoodKept
<1>2. \A d \in Callers : run'[d].target = run[d].target BY DEF Kept
<1>3. ASSUME NEW d \in Callers, run'[d].pc \in {"judge", "verdict"}
      PROVE  /\ run[d].pc = run'[d].pc /\ run'[d].verdict = run[d].verdict
             /\ GoodTo(run[d].target)' = GoodTo(run[d].target)
  <2>1. run[d].pc = run'[d].pc /\ run'[d].verdict = run[d].verdict BY <1>3 DEF Kept
  <2>2. GoodTo(run[d].target)' = GoodTo(run[d].target) BY <1>2 DEF GoodTo, Good
  <2> QED BY <2>1, <2>2
<1>4. ASSUME NEW d \in Callers, Active(d)'
      PROVE  /\ st'.verify = "NOT_RUN"
             /\ run'[d].pc \notin {"judge", "verdict"} => run'[d].target = 1
             /\ run'[d].pc = "judge" /\ calm' => GoodTo(run[d].target)'
             /\ run'[d].pc = "verdict" /\ run'[d].verdict = "PASS" /\ calm' => AllGood'
  <2>1. Active(d) /\ (run[d].pc \in {"judge", "verdict"} => run'[d].pc \in {"judge", "verdict"})
    BY <1>4
  <2>2. CASE run'[d].pc \in {"judge", "verdict"} BY <1>1, <1>3, <2>1, <2>2 DEF JudgeInv
  <2>3. CASE run'[d].pc \notin {"judge", "verdict"} BY <1>2, <2>1, <2>3 DEF JudgeInv
  <2> QED BY <2>2, <2>3
<1>5. st'.status = "ADMITTED" => st'.verify = "NOT_RUN" /\ \A d \in Callers : run'[d].target = 1
  BY <1>2 DEF JudgeInv
<1>6. st'.verify # "NOT_APPLICABLE" /\ (st'.verify = "PASSED" /\ calm' => AllGood')
  BY <1>1 DEF JudgeInv
<1> QED BY <1>4, <1>5, <1>6 DEF JudgeInv

\* Every step keeps the judgement.
LEMMA JudgeStep ==
  ASSUME IInv, Numbered, Explained, OneRunner, Earned, JudgeInv, Shaped, [Next]_vars
  PROVE  JudgeInv'
<1>1. CASE Edited
  <2>1. UNCHANGED <<x, st, run>> /\ ~calm' BY <1>1 DEF Edited
  <2> QED BY <2>1 DEF JudgeInv, Active
<1>2. CASE Rests
  <2>1. ws' = ws /\ calm' = calm /\ \A d \in Callers : Kept(run[d], run'[d])
    BY <1>2 DEF Rests
  <2>2. ASSUME NEW c \in Callers, Passes(c) PROVE JudgeInv'
    <3>1. UNCHANGED <<x, st>> /\ \A d \in Callers : d # c => run'[d] = run[d]
      BY <2>2 DEF Passes
    <3>2. ASSUME NEW d \in Callers, Active(d)'
          PROVE  /\ Active(d)
                 /\ run[d].pc \in {"judge", "verdict"} => run'[d].pc \in {"judge", "verdict"}
      <4>1. CASE d # c BY <3>1, <3>2, <4>1 DEF Active
      <4>2. CASE d = c BY <2>2, <3>2, <4>2, PassesOn DEF Active, ActivePCs
      <4> QED BY <4>1, <4>2
    <3> QED BY <2>1, <3>1, <3>2, JudgeSilence
  <2>3. CASE Stands /\ x' = x
    <3>1. st' = st /\ \A d \in Callers : run'[d].pc = run[d].pc BY <2>3 DEF Stands
    <3> QED BY <2>1, <2>3, <3>1, JudgeSilence DEF Active
  <2>4. CASE Stands /\ x' # x
    <3>1. st' = st /\ st = InitialState /\ \A d \in Callers : run'[d].pc = run[d].pc
      BY <2>4 DEF Stands
    <3>2. st.status = "ADMITTED" /\ st.verify = "NOT_RUN" BY <3>1 DEF InitialState
    <3>3. \A d \in Callers : ~Active(d)' /\ run'[d].target = run[d].target
      BY <2>1, <3>1, <3>2 DEF OneRunner, Active, Kept
    <3> QED BY <3>1, <3>2, <3>3 DEF JudgeInv
  <2> QED BY <1>2, <2>2, <2>3, <2>4, StepSorts, JudgeEmission
<1> QED BY <1>1, <1>2, WorldIs, JudgeTouch, JudgeLooks, JudgeBegins

\* At first nothing is judged.
LEMMA JudgeInit == Init => JudgeInv
<1> SUFFICES ASSUME Init PROVE JudgeInv OBVIOUS
<1>1. st.verify = "NOT_RUN" BY DEF Init, InitialState
<1>2. \A c \in Callers : run[c].pc = "idle" /\ run[c].target = 1 BY DEF Init, Idle
<1> QED BY <1>1, <1>2 DEF JudgeInv, Active, ActivePCs

\* Every execution of the entry points has their shape.
LEMMA ShapedIs == ASSUME Requests \subseteq EntryPoints PROVE IInv => Shaped
BY EntriesAre DEF Shaped, IInv, TypeOK

\* While nobody edits the workspace after the check began, a PASSED stands for
\* every target of the contract, judged one by one against the disk.
THEOREM JudgedIsSo == ASSUME Requests \subseteq EntryPoints PROVE Spec => []JudgeInv
<1>1. Init => JudgeInv BY JudgeInit
<1>2. IInv => Shaped BY ShapedIs
<1>3. /\ IInv /\ Shaped /\ RecordInv /\ DispatchInv /\ VerdictInv /\ JudgeInv /\ [Next]_vars
      => JudgeInv'
  BY JudgeStep DEF RecordInv, DispatchInv, VerdictInv
<1> QED BY <1>1, <1>2, <1>3, Invariance, RecordKept, Dispatched, VerdictKept, PTL DEF Spec

-----------------------------------------------------------------------------
(***************************************************************************)
(* The answers, from the trace and the verdict.                            *)
(***************************************************************************)
LEMMA RecordIs ==
  ASSUME IInv, TraceInv, x \in Requests, NEW r \in st.evidence
  PROVE  \E i \in DOMAIN x.spec.program :
           /\ Place(r) = i - 1 /\ i \in Nat
           /\ r.cap = x.spec.program[i].cap
           /\ r.kind \in FileKinds => r.target = x.spec.program[i].target
           /\ r.kind = "FILE_READ"    => r.cap \in {"file.read", "file.search"}
           /\ r.kind = "FILE_PRESENT" => r.cap \in {"file.exists", "file.write"}
           /\ r.kind = "FILE_ABSENT"  =>
                r.cap \in {"file.read", "file.search", "file.exists", "file.delete"}
           /\ r.kind = "FILE_WRITTEN" => r.cap = "file.write"
           /\ r.kind = "FILE_DELETED" => r.cap = "file.delete"
<1>1. PICK i \in DOMAIN Program :
        r.step = Program[i].id /\ r.cap = Program[i].cap /\ Speaks(Program[i], r)
  BY DEF TraceInv, Witnessed
<1>2. Place(r) = i - 1 /\ i \in Nat BY <1>1, PlaceIs
<1> QED BY <1>1, <1>2 DEF Program, Speaks

\* The records of an execution by one capability.
LEMMA RecordsByShape ==
  ASSUME IInv, TraceInv, x \in Requests, EntryShape(x), NEW r \in st.evidence
  PROVE  /\ x.verifier = "agreement" =>
              r.cap = "file.exists" /\ r.kind \notin {"FILE_READ", "FILE_WRITTEN", "FILE_DELETED"}
         /\ x.verifier = "read" =>
              r.cap = "file.read" /\ r.kind \notin {"FILE_PRESENT", "FILE_WRITTEN", "FILE_DELETED"}
         /\ x.verifier = "absence" =>
              r.cap = "file.delete" /\ r.kind \notin {"FILE_READ", "FILE_PRESENT", "FILE_WRITTEN"}
         /\ x.verifier = "content" =>
              /\ r.cap \in {"file.exists", "file.write"}
              /\ r.kind \notin {"FILE_READ", "FILE_DELETED"}
              /\ r.kind = "FILE_ABSENT" => r.cap = "file.exists"
BY RecordIs DEF EntryShape

\* The last look at a target is one record.
LEMMA OneLook ==
  ASSUME IInv, TraceInv, NEW t, NEW kinds, NEW caps, caps \subseteq {"file.exists", "file.read"},
         NEW r \in Latest(st.evidence, t, kinds, caps),
         NEW q \in Latest(st.evidence, t, kinds, caps)
  PROVE  r = q
<1>1. /\ r \in st.evidence /\ q \in st.evidence /\ r.cap \in caps
      /\ q.revision <= r.revision /\ r.revision <= q.revision
  BY DEF Latest
<1>2. r.revision \in Nat /\ q.revision \in Nat BY <1>1 DEF TraceInv, Witnessed
<1>3. r.revision = q.revision BY <1>1, <1>2
<1> QED BY <1>1, <1>3 DEF TraceInv, Together

\* After the write of a target no look found it missing.
LEMMA WriteIsLast ==
  ASSUME IInv, TraceInv, x \in Requests, EntryShape(x), x.verifier = "content",
         NEW t, NEW w \in About(t, "FILE_WRITTEN"), NEW r \in Presence(t)
  PROVE  r.kind # "FILE_ABSENT"
<1> SUFFICES ASSUME r.kind = "FILE_ABSENT" PROVE FALSE OBVIOUS
<1>1. r \in st.evidence /\ r.target = t BY DEF Presence, Latest
<1>2. w \in st.evidence /\ w.kind = "FILE_WRITTEN" /\ w.target = t BY DEF About
<1>3. PICK p \in st.evidence : p.kind = "FILE_PRESENT" /\ p.target = t
                               /\ p.revision = w.revision /\ p.cap = w.cap
  BY <1>2 DEF TraceInv, Siblings
<1>4. PICK i \in DOMAIN x.spec.program :
        /\ Place(r) = i - 1 /\ i \in Nat /\ r.cap = x.spec.program[i].cap
        /\ r.target = x.spec.program[i].target
  BY <1>1, RecordIs DEF FileKinds
<1>5. PICK j \in DOMAIN x.spec.program :
        /\ Place(w) = j - 1 /\ j \in Nat /\ w.cap = x.spec.program[j].cap
        /\ w.target = x.spec.program[j].target /\ w.cap = "file.write"
  BY <1>2, RecordIs DEF FileKinds
<1>6. r.cap = "file.exists" BY <1>1, RecordsByShape
<1>7. i < j BY <1>1, <1>2, <1>4, <1>5, <1>6 DEF EntryShape
<1>8. p.revision <= r.revision
  <2>1. p.kind \in {"FILE_PRESENT", "FILE_READ", "FILE_ABSENT"}
        /\ p.cap \in {"file.read", "file.exists", "file.write", "file.delete"}
    BY <1>3, <1>5
  <2> QED BY <1>3, <2>1 DEF Presence, Latest
<1>9. r.revision \in Nat /\ w.revision \in Nat BY <1>1, <1>2 DEF TraceInv, Witnessed
<1>10. CASE w.revision < r.revision
  <2>1. Place(w) < Place(r) BY <1>1, <1>2, <1>10 DEF TraceInv, Sequenced
  <2> QED BY <1>4, <1>5, <1>7, <2>1
<1>11. CASE w.revision = r.revision
  <2>1. r.step = w.step BY <1>1, <1>2, <1>11 DEF TraceInv, Together
  <2>2. Place(r) = Place(w) BY <2>1 DEF Place
  <2> QED BY <1>4, <1>5, <1>7, <2>2
<1> QED BY <1>3, <1>8, <1>9, <1>10, <1>11

\* What is asked to be written is a content.
LEMMA ExpectedIs ==
  ASSUME x \in Requests, NEW t, NEW k \in Expected(x.spec, t)
  PROVE  k # NoFile
<1>1. PICK i \in DOMAIN x.spec.program :
        x.spec.program[i].cap = "file.write" /\ k = x.spec.program[i].content
  BY DEF Expected
<1>2. x.spec.program[i] \in StepsOf(x.spec) BY DEF StepsOf
<1>3. k \in Contents BY <1>1, <1>2, EngineAssumption DEF RequestShape
<1> QED BY <1>3, FilesystemAssumption

\* A proven execution of the bridge was judged, target by target.
LEMMA ProvenIsGood ==
  ASSUME IInv, Earned, JudgeInv, Shaped, Proven, calm
  PROVE  x \in Requests /\ EntryShape(x) /\ \A t \in TargetsOf(x.spec) : Good(t)
<1>1. x # NoRequest
  <2>1. InitialState.terminal.outcome = None BY DEF InitialState, NoTerminal
  <2>2. None # "PROVEN" BY DEF None
  <2>3. x = NoRequest => st = InitialState BY DEF IInv, Blank
  <2> QED BY <2>1, <2>2, <2>3 DEF Proven
<1>2. x \in Requests /\ EntryShape(x) BY <1>1 DEF IInv, TypeOK, Shaped
<1>3. Unmet(x.spec, st) = {} BY DEF Earned, Proven
<1>4. Satisfied(st.verify)
  <2>1. "verification_satisfied" \in Clauses BY DEF Clauses
  <2>2. Carries(x.spec, "verification_satisfied") BY <1>2 DEF Carries, EntryShape
  <2>3. Met(x.spec, st, "verification_satisfied") BY <1>3, <2>1, <2>2 DEF Unmet
  <2> QED BY <2>3 DEF Met
<1>5. AllGood BY <1>4 DEF Satisfied, JudgeInv
<1> QED BY <1>2, <1>5 DEF AllGood, TargetsOf

\* What is claimed of a target, verifier by verifier.
LEMMA ClaimsAreTrue ==
  ASSUME IInv, TraceInv, Earned, JudgeInv, Shaped
  PROVE  ClaimsMatchDisk
<1> SUFFICES ASSUME Proven, calm, NEW t \in TargetsOf(x.spec)
             PROVE  /\ Wrote(t) => ws[t] \in Expected(x.spec, t)
                    /\ Removed_(t) \/ Vanished(t) => ~Present(ws, t)
                    /\ Exists_(t) => Present(ws, t)
                    /\ Absent_(t) => ~Present(ws, t)
  BY DEF ClaimsMatchDisk, Landed, Deleted, Exists_, Absent_
<1>1. x \in Requests /\ EntryShape(x) /\ Good(t) BY ProvenIsGood
<1>2. \A r \in Presence(t) : r \in st.evidence /\ r.target = t
                             /\ r.kind \in {"FILE_PRESENT", "FILE_READ", "FILE_ABSENT"}
  BY DEF Presence, Latest
<1>3. \A k, r : r \in About(t, k) => r \in st.evidence /\ r.kind = k /\ r.target = t
  BY DEF About
<1>4. CASE x.verifier = "agreement"
  <2>1. \A r \in st.evidence :
          r.cap = "file.exists" /\ r.kind \notin {"FILE_READ", "FILE_WRITTEN", "FILE_DELETED"}
    BY <1>1, <1>4, RecordsByShape
  <2> DEFINE L == Latest(st.evidence, t, {"FILE_PRESENT", "FILE_ABSENT"}, {"file.exists"})
  <2>2. Presence(t) = L BY <2>1 DEF Presence, Latest
  <2>3. \A r, q \in L : r = q BY OneLook
  <2>4. \E r \in L : (r.kind = "FILE_PRESENT") = Present(ws, t)
    BY <1>1, <1>4 DEF Good, Judge, JudgeAgreement
  <2> HIDE DEF L
  <2>5. \A r \in L : (r.kind = "FILE_PRESENT") = Present(ws, t) BY <2>3, <2>4
  <2>6. Exists_(t) => Present(ws, t) BY <1>2, <2>1, <2>2, <2>5 DEF Exists_
  <2>7. Absent_(t) => ~Present(ws, t) BY <2>2, <2>5 DEF Absent_
  <2>8. ~Wrote(t) /\ ~Removed_(t) BY <1>3, <2>1 DEF Wrote, Removed_
  <2>9. ~Vanished(t) BY <1>3, <2>1 DEF Vanished
  <2> QED BY <2>6, <2>7, <2>8, <2>9
<1>5. CASE x.verifier = "read"
  <2>1. \A r \in st.evidence :
          r.cap = "file.read" /\ r.kind \notin {"FILE_PRESENT", "FILE_WRITTEN", "FILE_DELETED"}
    BY <1>1, <1>5, RecordsByShape
  <2> DEFINE L == Latest(st.evidence, t, {"FILE_READ", "FILE_PRESENT", "FILE_ABSENT"},
                         {"file.read", "file.exists"})
  <2>2. Presence(t) = L BY <2>1 DEF Presence, Latest
  <2>3. \A r, q \in L : r = q BY OneLook
  <2>4. \E r \in L : IF Present(ws, t) THEN r.kind # "FILE_ABSENT" ELSE r.kind = "FILE_ABSENT"
    BY <1>1, <1>5 DEF Good, Judge, JudgeRead
  <2> HIDE DEF L
  <2>5. \A r \in L : IF Present(ws, t) THEN r.kind # "FILE_ABSENT" ELSE r.kind = "FILE_ABSENT"
    BY <2>3, <2>4
  <2>6. Exists_(t) => Present(ws, t) BY <2>2, <2>5 DEF Exists_
  <2>7. Absent_(t) => ~Present(ws, t) BY <2>2, <2>5 DEF Absent_
  <2>8. ~Wrote(t) /\ ~Removed_(t) BY <1>3, <2>1 DEF Wrote, Removed_
  <2>9. ~Vanished(t) BY <1>3, <2>1 DEF Vanished
  <2> QED BY <2>6, <2>7, <2>8, <2>9
<1>6. CASE x.verifier = "absence"
  <2>1. \A r \in st.evidence :
          r.cap = "file.delete" /\ r.kind \notin {"FILE_READ", "FILE_PRESENT", "FILE_WRITTEN"}
    BY <1>1, <1>6, RecordsByShape
  <2>2. ~Present(ws, t) BY <1>1, <1>6 DEF Good, Judge, JudgeAbsence
  <2>3. ~Wrote(t) BY <1>3, <2>1 DEF Wrote
  <2>4. ~Exists_(t) BY <1>2, <2>1 DEF Exists_
  <2> QED BY <2>2, <2>3, <2>4
<1>7. CASE x.verifier = "content"
  <2>1. \A r \in st.evidence :
          /\ r.cap \in {"file.exists", "file.write"} /\ r.kind \notin {"FILE_READ", "FILE_DELETED"}
          /\ r.kind = "FILE_ABSENT" => r.cap = "file.exists"
    BY <1>1, <1>7, RecordsByShape
  <2>2. Wrote(t) /\ ws[t] \in Expected(x.spec, t)
    BY <1>1, <1>7 DEF Good, Judge, JudgeContent, Wrote, About
  <2>3. Present(ws, t) BY <1>1, <2>2, ExpectedIs DEF Present
  <2>4. ~Removed_(t) BY <1>3, <2>1 DEF Removed_
  <2>5. ~Vanished(t) BY <1>3, <2>1 DEF Vanished
  <2>6. ~Absent_(t)
    <3>1. PICK w : w \in About(t, "FILE_WRITTEN") BY <2>2 DEF Wrote
    <3>2. \A r \in Presence(t) : r.kind # "FILE_ABSENT" BY <1>1, <1>7, <3>1, WriteIsLast
    <3> QED BY <3>2 DEF Absent_
  <2> QED BY <2>2, <2>3, <2>4, <2>5, <2>6
<1> QED BY <1>1, <1>4, <1>5, <1>6, <1>7 DEF EntryShape

\* What a settled execution of the four entry points claims about its
\* destinations is what the disk holds, unless another process edited it after
\* the check began, for any targets, contents, callers and faults.
THEOREM ClaimsMatch ==
  ASSUME Requests \subseteq EntryPoints PROVE Spec => []ClaimsMatchDisk
<1>1. IInv => Shaped BY ShapedIs
<1>2. IInv /\ Shaped /\ TraceInv /\ DiskInv /\ VerdictInv /\ JudgeInv => ClaimsMatchDisk
  BY ClaimsAreTrue DEF VerdictInv
<1> QED BY <1>1, <1>2, Invariance, VerdictKept, EvidenceIsATrace, JudgedIsSo, PTL

-----------------------------------------------------------------------------
(***************************************************************************)
(* The report of a write.  The bridge gives every execution an engine of   *)
(* its own and calls Run once: a second caller could settle the execution  *)
(* between the write and its record.                                       *)
(***************************************************************************)
Alone == \A c, d \in Callers : c = d

\* Nobody settles an execution that is still at work.
RunningOn == \A c \in Callers : Active(c) => st.status = "RUNNING"

\* A write that is done, trusted, and about to be recorded.
InHand(c, t) ==
  /\ run[c].pc \in HandPCs /\ ~run[c].obs.error /\ ~Untrusted(run[c].obs)
  /\ \E f \in run[c].obs.facts : f.kind = "FILE_WRITTEN" /\ f.target = t

WritesTold ==
  \A e \in effects : e.cap = "file.write" =>
    Wrote(e.target) \/ \E c \in Callers : InHand(c, e.target)

ReportInv == RunningOn /\ WritesTold

\* With one caller the execution runs as long as the caller is at work.
LEMMA RunningStep ==
  ASSUME Alone, IInv, Numbered, Explained, RunningOn, [Next]_vars
  PROVE  RunningOn'
<1>1. ASSUME NEW c \in Callers, NEW e \in Events, Emits(c, e) PROVE RunningOn'
  <2>1. /\ st \in States /\ Accepts(x, st, e) /\ st' = Reduced(x, st, e)
        /\ Hop(run[c].pc, e.kind, run'[c].pc)
    BY <1>1 DEF Emits, IInv, TypeOK
  <2>2. st'.status = IF e.kind = "execution.started" THEN "RUNNING"
                     ELSE IF e.kind \in {"execution.failed", "execution.finished"}
                          THEN "SETTLED" ELSE st.status
    <3>1. Changes(x, st, e, st') BY <2>1, ReducedIs
    <3> QED BY <3>1 DEF Changes
  <2>3. run'[c].pc \in ActivePCs =>
          \/ e.kind = "execution.started"
          \/ Active(c) /\ e.kind \notin {"execution.failed", "execution.finished"}
    BY <2>1 DEF Hop, Active, ActivePCs
  <2>4. \A d \in Callers : d = c BY DEF Alone
  <2> QED BY <2>2, <2>3, <2>4 DEF RunningOn, Active
<1>2. ASSUME NEW c \in Callers, Passes(c) PROVE RunningOn'
  <2>1. st' = st /\ \A d \in Callers : d = c BY <1>2 DEF Passes, Alone
  <2>2. run'[c].pc \in ActivePCs => Active(c) BY <1>2, PassesOn DEF Active, ActivePCs
  <2> QED BY <2>1, <2>2 DEF RunningOn, Active
<1>3. CASE Stands
  <2>1. st' = st /\ \A d \in Callers : run'[d].pc = run[d].pc BY <1>3 DEF Stands
  <2> QED BY <2>1 DEF RunningOn, Active
<1> QED BY <1>1, <1>2, <1>3, StepSorts

\* What is in hand after a write is valid evidence of it.
LEMMA HandIsValid ==
  ASSUME IInv, TraceInv, NEW c \in Callers, NEW t, InHand(c, t)
  PROVE  /\ x \in Requests /\ run[c] \in Runs /\ StepOf(c).cap = "file.write"
         /\ Declared(x.spec, StepOf(c).id)
         /\ Records(StepOf(c), run[c].obs) # {}
         /\ \A rec \in Records(StepOf(c), run[c].obs) : ValidRecord(x.spec, rec)
<1>1. /\ x \in Requests /\ run[c] \in Runs /\ RunOK(run[c])
      /\ run[c].pc \in StepPCs
  BY AtWork DEF InHand, HandPCs, StepPCs
<1>2. run[c].step \in DOMAIN Program /\ StepOf(c) = Program[run[c].step]
  BY <1>1 DEF RunOK, StepOf
<1>3. Declared(x.spec, StepOf(c).id) BY <1>2 DEF Declared, Program
<1>4. StepAt(x.spec, StepOf(c).id) = StepOf(c) BY <1>1, <1>2, IndexIs
<1>5. Said(StepOf(c), run[c].obs) BY DEF TraceInv, Hands, InHand
<1>6. StepOf(c).cap = "file.write" BY <1>5 DEF Said, Speaks, InHand
<1>7. PICK f \in run[c].obs.facts : f.kind = "FILE_WRITTEN" BY DEF InHand
<1>8. Records(StepOf(c), run[c].obs) # {} BY <1>7 DEF Records
<1>9. run[c].obs \in Observations BY <1>1 DEF Runs
<1>10. ASSUME NEW rec \in Records(StepOf(c), run[c].obs) PROVE ValidRecord(x.spec, rec)
  <2>1. PICK g \in run[c].obs.facts :
          rec = [kind |-> g.kind, step |-> StepOf(c).id, cap |-> StepOf(c).cap,
                 target |-> g.target, bytes |-> g.bytes, verdict |-> run[c].obs.verdict,
                 revision |-> 0]
    BY DEF Records
  <2>2. /\ rec.kind = g.kind /\ rec.step = StepOf(c).id /\ rec.cap = StepOf(c).cap
        /\ rec.verdict = run[c].obs.verdict
    BY <2>1
  <2>3. g.kind \in EvidenceKinds /\ run[c].obs.verdict \in Verdicts
    BY <1>9 DEF Observations
  <2>4. MutatingCap(rec.cap) BY <1>6, <2>2 DEF MutatingCap
  <2> QED BY <1>3, <1>4, <2>2, <2>3, <2>4 DEF ValidRecord
<1> QED BY <1>1, <1>3, <1>6, <1>8, <1>10

\* A trusted write goes from its invocation into the evidence: no bound stops
\* it, and no event that carries it is refused.
LEMMA EvaluateTells ==
  ASSUME IInv, TraceInv, Shaped, RunningOn, NEW c \in Callers, NEW t, InHand(c, t), Evaluate(c)
  PROVE  InHand(c, t)'
<1> DEFINE step == StepOf(c)
           obs == run[c].obs
           e == [ForStep("capability.invoked", step) EXCEPT
                   !.axis = ProviderAxis(obs), !.bytes = obs.charged,
                   !.evidence = Records(step, obs)]
<1>1. /\ x \in Requests /\ run[c] \in Runs /\ Declared(x.spec, step.id) BY HandIsValid
<1>2. st.status = "RUNNING" BY DEF RunningOn, InHand, HandPCs, Active, ActivePCs
<1>3. AllowsOutput(x.spec.budget, st, obs.output)
  <2>1. x # NoRequest BY AtWork DEF InHand, HandPCs
  <2>2. x.spec.budget.bytes = 0 BY <2>1 DEF Shaped, EntryShape, Fits
  <2> QED BY <2>2 DEF AllowsOutput
<1>4. EmitOr(c, e, At1(run[c], "evidence"), Blocked(run[c], "EXECUTION_FAILURE"))
  BY <1>3 DEF Evaluate, InHand
<1>5. /\ e.kind = "capability.invoked" /\ e.step = step.id /\ e.axis = ProviderAxis(obs)
  BY DEF ForStep, EventOf
<1> HIDE DEF e
<1>6. e.axis \in {None, "INVOKED", "DONE", "TRUNCATED", "FAILED"} BY <1>5 DEF ProviderAxis
<1>7. Accepts(x, st, e) BY <1>1, <1>2, <1>5, <1>6 DEF Accepts, Unsettled
<1>8. run' = [run EXCEPT ![c] = [At1(run[c], "evidence") EXCEPT !.outbox = Stamped(e)]]
  BY <1>4, <1>7 DEF EmitOr, Emit, Refused
<1> DEFINE r == [At1(run[c], "evidence") EXCEPT !.outbox = Stamped(e)]
<1>9. r.pc = "evidence" /\ r.obs = obs BY <1>1 DEF At1, Runs
<1> HIDE DEF r
<1>10. run'[c] = r BY <1>8 DEF r, IInv, TypeOK
<1> QED BY <1>9, <1>10 DEF InHand, HandPCs

\* The records of a write in hand are accepted.
LEMMA EvidenceTells ==
  ASSUME IInv, Numbered, Explained, TraceInv, RunningOn, Alone, NEW c \in Callers, NEW t,
         InHand(c, t), Evidence(c), [Next]_vars
  PROVE  Wrote(t)'
<1> DEFINE R == Records(StepOf(c), run[c].obs)
           e == [ForStep("evidence.produced", StepOf(c)) EXCEPT !.evidence = R]
<1>1. /\ x \in Requests /\ run[c] \in Runs /\ R # {}
      /\ \A rec \in R : ValidRecord(x.spec, rec)
  BY HandIsValid
<1>2. st.status = "RUNNING" BY DEF RunningOn, InHand, HandPCs, Active, ActivePCs
<1>3. EmitOr(c, e, At1(run[c], "mutation"), Blocked(run[c], "EXECUTION_FAILURE"))
  BY <1>1 DEF Evidence
<1>4. e.kind = "evidence.produced" /\ e.evidence = R BY DEF ForStep, EventOf
<1> HIDE DEF e, R
<1>5. Accepts(x, st, e) BY <1>1, <1>2, <1>4 DEF Accepts, Unsettled
<1>6. /\ run' = [run EXCEPT ![c] = [At1(run[c], "mutation") EXCEPT !.outbox = Stamped(e)]]
      /\ run[c].pc = "evidence"
  BY <1>3, <1>5 DEF EmitOr, Emit, Refused, Evidence, At
<1> DEFINE r == [At1(run[c], "mutation") EXCEPT !.outbox = Stamped(e)]
<1>7. r.pc = "mutation" /\ r.outbox = Stamped(e) BY <1>1 DEF At1, Runs
<1> HIDE DEF r
<1>8. run'[c] = r BY <1>6 DEF r, IInv, TypeOK
<1>9. ~Stands BY <1>6, <1>7, <1>8 DEF Stands
<1>10. ASSUME NEW d \in Callers, Passes(d) PROVE FALSE
  <2>1. d = c BY DEF Alone
  <2>2. Stamped(e) = NoEvent BY <1>7, <1>8, <1>10, <2>1 DEF Passes
  <2>3. e \in Events
    <3>1. StepShape(StepOf(c)) BY AtWork, <1>6 DEF StepPCs
    <3>2. R \subseteq EvidenceRecords
      BY <1>1, <3>1, RecordsType DEF R, Runs
    <3>3. "evidence.produced" \in EventKinds BY DEF EventKinds
    <3> QED BY <3>1, <3>2, <3>3, EventType DEF e
  <2> QED BY <2>2, <2>3, StampedIs DEF IInv, TypeOK
<1>11. PICK d \in Callers, g \in Events : Emits(d, g) BY <1>9, <1>10, StepSorts
<1>12. d = c BY DEF Alone
<1>13. g.kind = "evidence.produced" BY <1>6, <1>11, <1>12 DEF Emits, Hop
<1>14. st'.evidence = st.evidence \cup
         {RecordOf(StepOf(c), run[c].obs, f, st.revision + 1) : f \in run[c].obs.facts}
  BY <1>11, <1>12, <1>13, EvidenceBecomes
<1>15. PICK f \in run[c].obs.facts : f.kind = "FILE_WRITTEN" /\ f.target = t BY DEF InHand
<1> DEFINE m == RecordOf(StepOf(c), run[c].obs, f, st.revision + 1)
<1>16. m.kind = "FILE_WRITTEN" /\ m.target = t BY <1>15 DEF RecordOf
<1>17. m \in st'.evidence BY <1>14
<1> HIDE DEF m
<1> QED BY <1>16, <1>17 DEF Wrote, About

\* Whatever happens, a write in hand stays in hand or is recorded.
LEMMA HandTells ==
  ASSUME IInv, Numbered, Explained, TraceInv, Shaped, RunningOn, Alone, [Next]_vars,
         NEW c \in Callers, NEW t, InHand(c, t)
  PROVE  InHand(c, t)' \/ Wrote(t)'
<1>1. x # NoRequest /\ run[c].pc \in {"evaluate", "evidence"} BY AtWork DEF InHand, HandPCs
<1>2. CASE run' = run BY <1>2 DEF InHand
<1>3. ASSUME NEW d \in Callers, Work(d) PROVE InHand(c, t)' \/ Wrote(t)'
  <2>1. d = c BY DEF Alone
  <2>2. CASE Evaluate(c) BY <2>2, EvaluateTells
  <2>3. CASE Evidence(c) BY <2>3, EvidenceTells
  <2>4. CASE AppendEvent(c)
    <3>1. run'[c] = [run[c] EXCEPT !.outbox = NoEvent] BY <2>4 DEF AppendEvent, IInv, TypeOK
    <3>2. run'[c].pc = run[c].pc /\ run'[c].obs = run[c].obs
      BY <3>1 DEF IInv, TypeOK, Runs
    <3> QED BY <3>2 DEF InHand
  <2>5. \/ Evaluate(c) \/ Evidence(c) \/ AppendEvent(c)
    BY <1>1, <1>3, <2>1 DEF Work, At, Enter, Start, Check, Dispatch, Invoke, InvokeRecreated,
       ProjectMutation, ProjectArtifact, NextStep, Verify, JudgeTarget, Conclude, Stopped, Fail,
       Failing, Settle, Return
  <2> QED BY <2>2, <2>3, <2>4, <2>5
<1>4. CASE Environment BY <1>2, <1>4 DEF Environment, Cancel, Withdraw, Edit
<1>5. CASE \E req \in Requests : Open(req) BY <1>2, <1>5 DEF Open
<1>6. CASE UNCHANGED vars BY <1>2, <1>6 DEF vars
<1> QED BY <1>3, <1>4, <1>5, <1>6 DEF Next

\* Every step keeps the writes told.
LEMMA ToldStep ==
  ASSUME IInv, Numbered, Explained, TraceInv, Shaped, RunningOn, WritesTold, Alone, [Next]_vars
  PROVE  WritesTold'
<1>1. ASSUME NEW e \in effects, e.cap = "file.write"
      PROVE  Wrote(e.target)' \/ \E c \in Callers : InHand(c, e.target)'
  <2>1. CASE Wrote(e.target)
    <3>1. st.evidence \subseteq st'.evidence
      <4>1. ASSUME NEW c \in Callers, Touches(c) PROVE st'.evidence = st.evidence
        BY <4>1 DEF Touches
      <4>2. ASSUME NEW c \in Callers, NEW g \in Events, Records_(c, g)
            PROVE  st.evidence \subseteq st'.evidence
        BY <4>2, EvidenceBecomes DEF Records_
      <4>3. CASE HandsRest BY <4>3 DEF HandsRest
      <4> QED BY <4>1, <4>2, <4>3, DiskSorts
    <3> QED BY <2>1, <3>1 DEF Wrote, About
  <2>2. CASE \E c \in Callers : InHand(c, e.target) BY <2>2, HandTells
  <2> QED BY <1>1, <2>1, <2>2 DEF WritesTold
<1>2. ASSUME NEW e \in effects', e \notin effects, e.cap = "file.write"
      PROVE  \E c \in Callers : InHand(c, e.target)'
  <2>1. PICK c \in Callers : Touches(c) BY <1>2, DiskSorts DEF Records_, HandsRest
  <2>2. \A s, b : Effect(s, b).cap = s.cap /\ Effect(s, b).target = s.target BY DEF Effect
  <2>3. /\ e = Effect(StepOf(c), ws[StepOf(c).target])
        /\ \/ Saw(StepOf(c), ws, ws', run'[c].obs) /\ ws' # ws
           \/ StepOf(c).cap = "file.delete"
    BY <1>2, <2>1 DEF Touches
  <2>4. StepOf(c).cap = "file.write" /\ e.target = StepOf(c).target BY <1>2, <2>2, <2>3
  <2>5. Saw(StepOf(c), ws, ws', run'[c].obs) /\ ws' # ws BY <2>3, <2>4
  <2>6. /\ ~run'[c].obs.error /\ ~Untrusted(run'[c].obs)
        /\ \E f \in run'[c].obs.facts : f.kind = "FILE_WRITTEN" /\ f.target = e.target
    BY <2>4, <2>5 DEF Saw
  <2>7. run'[c].pc = "evaluate" BY <2>1 DEF Touches
  <2> QED BY <2>6, <2>7 DEF InHand, HandPCs
<1> QED BY <1>1, <1>2 DEF WritesTold

\* At first nothing is written.
LEMMA ReportInit == Init => ReportInv
<1> SUFFICES ASSUME Init PROVE ReportInv OBVIOUS
<1>1. effects = {} /\ \A c \in Callers : run[c].pc = "idle" BY DEF Init, Idle
<1> QED BY <1>1 DEF ReportInv, RunningOn, WritesTold, Active, ActivePCs

\* Bytes that reached the disk are reported by Wrote once the execution of one
\* caller has settled, proven or not, cancelled, failed or out of luck.
THEOREM WritesReported ==
  ASSUME Requests \subseteq EntryPoints, Alone PROVE Spec => []WritesAreReported
<1>1. IInv => Shaped BY ShapedIs
<1>2. /\ IInv /\ Shaped /\ RecordInv /\ TraceInv /\ DiskInv /\ ReportInv /\ [Next]_vars
      => ReportInv'
  BY RunningStep, ToldStep DEF RecordInv, ReportInv
<1>3. ReportInv => WritesAreReported
  <2> SUFFICES ASSUME ReportInv, Settled, NEW e \in effects, e.cap = "file.write"
               PROVE  Wrote(e.target)
    BY DEF WritesAreReported
  <2>1. \A c \in Callers : ~Active(c) BY DEF ReportInv, RunningOn, Settled
  <2>2. \A c \in Callers : ~InHand(c, e.target)
    BY <2>1 DEF InHand, HandPCs, Active, ActivePCs
  <2> QED BY <2>2 DEF ReportInv, WritesTold
<1> QED BY <1>1, <1>2, <1>3, ReportInit, Invariance, RecordKept, EvidenceIsATrace, PTL DEF Spec

\* The answers of the four entry points are true, for any targets, contents,
\* bounds and faults, and whatever other processes do: what they claim of a
\* destination holds of the disk, what they call deleted or created they deleted
\* or created, and what they wrote they report.
THEOREM AnswersTrue ==
  ASSUME Requests \subseteq EntryPoints, Alone PROVE Spec => []AnswersAreTrue
<1>1. /\ ClaimsMatchDisk /\ DeletedIsARemoval /\ WritesAreReported /\ CreatedWhenAlone
      => AnswersAreTrue
  BY DEF AnswersAreTrue
<1>2. Spec => []ClaimsMatchDisk BY ClaimsMatch
<1>3. Spec => []WritesAreReported BY WritesReported
<1> QED BY <1>1, <1>2, <1>3, DeletionsHappened, CreationsAreTrue, PTL
=============================================================================
