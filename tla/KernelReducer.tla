--------------------------- MODULE KernelReducer ---------------------------
(***************************************************************************)
(* The pure part of runtime/kernel: the closed vocabularies, the budget    *)
(* arithmetic, the admission rules, the adjudication of terminal truth and *)
(* the reducer  reduce(State, Event) -> State  with the fold that replays  *)
(* an event log.  Nothing here is a state machine.                         *)
(*                                                                         *)
(* A request x is what Open receives: [spec, grant, verifier].  A spec is  *)
(*   [kind, targets, reqVerify, reqObs, program, budget]                   *)
(* with targets and program sequences, and a step is                       *)
(*   [id, cap, target, content].                                           *)
(* The evidence log is kept as a set of records stamped with the revision  *)
(* that admitted them: the kernel only ever asks whether a record exists,  *)
(* and the revision keeps the order for the readers that need it.          *)
(***************************************************************************)
EXTENDS Integers, Sequences

\* No target, no step, no capability, no class, no axis: the empty string.
None == ""
ASSUME NoneAssumption == None \in STRING

Capabilities == {"workspace.discover", "file.read", "file.search", "file.exists",
                 "file.write", "file.delete", "command.run"}
\* Mutant: the vocabulary forgets that a write mutates.
MutantMutatingCap(c) == c \in {"file.delete", "command.run"}
MutatingCap(c) == c \in {"file.write", "file.delete", "command.run"}
ObservingCap(c) ==
  c \in {"workspace.discover", "file.read", "file.search", "file.exists", "command.run"}

EvidenceKinds == {"WORKSPACE_OBSERVED", "FILE_READ", "FILE_ABSENT", "FILE_PRESENT",
                  "FILE_WRITTEN", "FILE_DELETED", "COMMAND_RUN", "COMMAND_TRUNCATED",
                  "RESPONSE_PRODUCED"}
MutatingKind(k) == k \in {"FILE_WRITTEN", "FILE_DELETED"}

Verdicts == {"PASS", "FAIL", "NOT_APPLICABLE", "NO_OP", "UNKNOWN"}
Succeeded(v) == v \in {"PASS", "NO_OP"}

FailureClasses == {"INVALID_SPEC", "AUTHORIZATION_FAILURE", "CAPABILITY_UNAVAILABLE",
                   "CAPABILITY_FAILURE", "PROVIDER_FAILURE", "EXECUTION_FAILURE",
                   "ARTIFACT_FAILURE", "MUTATION_FAILURE", "VERIFICATION_FAILURE",
                   "BUDGET_EXHAUSTED", "CANCELLED", "INTERRUPTED", "UNSUBSTANTIATED"}

Outcomes == {"PROVEN", "UNSUBSTANTIATED", "FAILED", "REQUIRES_AUTHORIZATION",
             "BUDGET_EXHAUSTED", "CANCELLED", "INTERRUPTED"}

ContractKinds == {"CREATE", "PATCH", "DELETE", "OBSERVE", "ANSWER"}
RequiresMutation(kind) == kind \in {"CREATE", "PATCH", "DELETE"}
ForbidsMutation(kind) == kind \in {"OBSERVE", "ANSWER"}

TargetsOf(sp) == {sp.targets[i] : i \in DOMAIN sp.targets}
StepsOf(sp)   == {sp.program[i] : i \in DOMAIN sp.program}

(***************************************************************************)
(* Admission: Budget.Validate, Spec.Validate and Grant.                    *)
(***************************************************************************)
ValidBudget(b) == b.steps >= 0 /\ b.bytes >= 0 /\ b.perCap >= 0

ValidSpec(sp, registered) ==
  /\ sp.kind \in ContractKinds
  /\ sp.program # <<>>
  /\ \A i, j \in DOMAIN sp.program : sp.program[i].id = sp.program[j].id => i = j
  /\ \A step \in StepsOf(sp) :
       /\ step.id # None
       /\ step.cap \in Capabilities \cap registered
       /\ ~(ForbidsMutation(sp.kind) /\ MutatingCap(step.cap))
       /\ (MutatingCap(step.cap) /\ step.target # None /\ sp.targets # <<>>)
            => step.target \in TargetsOf(sp)
  /\ RequiresMutation(sp.kind) =>
       (\E step \in StepsOf(sp) : MutatingCap(step.cap)) /\ sp.targets # <<>>
  /\ sp.reqObs => \E step \in StepsOf(sp) : ObservingCap(step.cap)

\* Mutant: any known capability is permitted.
MutantPermits(g, cap) == cap \in Capabilities
Permits(g, cap) == cap \in Capabilities /\ cap \in g.caps

\* A step with no target asks for no destination; an empty grant target set
\* falls back on the contract targets the caller passes.
Covers(g, target, contractTargets) ==
  \/ target = None
  \/ target \in (IF g.targets = {} THEN contractTargets ELSE g.targets)

\* Grant.Authorize.
GrantAuthorizes(g, step, contractTargets) ==
  /\ g.named
  /\ Permits(g, step.cap)
  /\ ~(MutatingCap(step.cap) /\ step.target = None)
  /\ Covers(g, step.target, contractTargets)

\* DefaultAuthorizer.Authorize: the grant's own targets, not the contract's.
AuthorizerAllows(g, step) == GrantAuthorizes(g, step, g.targets)

\* The checks of Engine.Open, in their order; the class of the first refusal.
\* A step whose capability is not registered has a class of its own in the code
\* (CAPABILITY_UNAVAILABLE); both classes settle as FAILED and share one here.
AdmissionRefusal(x, registered) ==
  IF ~ValidBudget(x.spec.budget) \/ ~ValidSpec(x.spec, registered) THEN "INVALID_SPEC"
  ELSE IF ~x.grant.named THEN "AUTHORIZATION_FAILURE"
  ELSE IF \E step \in StepsOf(x.spec) :
            \/ ~Permits(x.grant, step.cap)
            \/ ~Covers(x.grant, step.target, TargetsOf(x.spec))
       THEN "AUTHORIZATION_FAILURE"
  ELSE None

(***************************************************************************)
(* Budget accounting.  A zero bound declares no bound.                     *)
(***************************************************************************)
Charge(s, cap, bytes) ==
  [s EXCEPT !.steps = @ + 1, !.perCap[cap] = @ + 1, !.bytes = @ + bytes]

\* Mutant: the bound is compared with <= on both counts.
MutantAllows(b, s, cap) ==
  /\ b.steps > 0 => s.steps <= b.steps
  /\ b.perCap > 0 => s.perCap[cap] <= b.perCap

Allows(b, s, cap) ==
  /\ b.steps > 0 => s.steps < b.steps
  /\ b.perCap > 0 => s.perCap[cap] < b.perCap

AllowsOutput(b, s, bytes) == b.bytes > 0 => s.bytes + bytes <= b.bytes

(***************************************************************************)
(* The evidence queries and adjudication.                                  *)
(***************************************************************************)
Has(s, kind) == \E rec \in s.evidence : rec.kind = kind
Observed(s, kinds, t) ==
  t # None /\ \E rec \in s.evidence : rec.kind \in kinds /\ rec.target = t
MutatedTargets(s) ==
  {rec.target : rec \in {r \in s.evidence : MutatingKind(r.kind) /\ r.target # None}}

Satisfied(verify) == verify \in {"PASSED", "NOT_APPLICABLE"}

EveryTarget(sp, s, kinds) ==
  sp.targets # <<>> /\ \A t \in TargetsOf(sp) : Observed(s, kinds, t)

Clauses == {"response_produced", "workspace_observed", "targets_observed",
            "target_written", "target_exists", "target_delta_applied",
            "mutation_applied", "target_absent", "verification_satisfied"}

\* contractClauses: the obligations the contract carries.
Carries(sp, clause) ==
  CASE clause = "response_produced"      -> sp.kind = "ANSWER"
    [] clause = "workspace_observed"     -> sp.reqObs
    [] clause = "targets_observed"       -> sp.kind = "OBSERVE"
    [] clause = "target_written"         -> sp.kind = "CREATE"
    [] clause = "target_exists"          -> sp.kind = "CREATE"
    [] clause = "target_delta_applied"   -> sp.kind = "PATCH"
    [] clause = "mutation_applied"       -> sp.kind = "DELETE"
    [] clause = "target_absent"          -> sp.kind = "DELETE"
    [] clause = "verification_satisfied" -> sp.reqVerify

\* ... and when the evidence meets each of them.
Met(sp, s, clause) ==
  CASE clause = "response_produced"      -> Has(s, "RESPONSE_PRODUCED")
    [] clause = "workspace_observed"     -> Has(s, "WORKSPACE_OBSERVED")
    [] clause = "targets_observed"       ->
         EveryTarget(sp, s, {"FILE_PRESENT", "FILE_READ", "FILE_ABSENT", "WORKSPACE_OBSERVED"})
    [] clause = "target_written"         -> EveryTarget(sp, s, {"FILE_WRITTEN"})
    [] clause = "target_exists"          -> EveryTarget(sp, s, {"FILE_PRESENT", "FILE_READ"})
    [] clause = "target_delta_applied"   -> EveryTarget(sp, s, {"FILE_WRITTEN"})
    [] clause = "mutation_applied"       -> s.mutation = "APPLIED"
    [] clause = "target_absent"          -> EveryTarget(sp, s, {"FILE_ABSENT"})
    [] clause = "verification_satisfied" -> Satisfied(s.verify)

Unmet(sp, s) == {c \in Clauses : Carries(sp, c) /\ ~Met(sp, s, c)}

Refuted(s) == s.mutation = "ROLLED_BACK" \/ s.verify = "FAILED"

\* Mutant: adjudication asks only for the clauses.
MutantAdjudicate(sp, s) == IF Unmet(sp, s) # {} THEN "UNSUBSTANTIATED" ELSE "PROVEN"

Adjudicate(sp, s) ==
  IF Refuted(s) THEN "FAILED"
  ELSE IF Unmet(sp, s) # {} THEN "UNSUBSTANTIATED"
  ELSE "PROVEN"

OutcomeForClass(class) ==
  CASE class = "AUTHORIZATION_FAILURE" -> "REQUIRES_AUTHORIZATION"
    [] class = "BUDGET_EXHAUSTED"      -> "BUDGET_EXHAUSTED"
    [] class = "CANCELLED"             -> "CANCELLED"
    [] class = "INTERRUPTED"           -> "INTERRUPTED"
    [] class = None                    -> "UNSUBSTANTIATED"
    [] OTHER                           -> "FAILED"

(***************************************************************************)
(* Events and the reducer.  The field bytes of an event stands for the sum *)
(* of the Bytes of the evidence it carries (outputBytesOf).                *)
(***************************************************************************)
NoTerminal == [outcome |-> None, class |-> None, revision |-> 0]

InitialState ==
  [revision |-> 0, status |-> "ADMITTED", cursor |-> 0,
   steps |-> 0, perCap |-> [c \in Capabilities |-> 0], bytes |-> 0,
   provider |-> "UNTOUCHED", artifact |-> "NONE", mutation |-> "NONE",
   verify |-> "NOT_RUN", verifyStarted |-> FALSE,
   evidence |-> {}, terminal |-> NoTerminal]

EventKinds ==
  {"execution.started", "step.started", "capability.invoked", "provider.started",
   "provider.finished", "evidence.produced", "artifact.produced", "mutation.applied",
   "mutation.rolled_back", "verification.started", "verification.passed",
   "verification.failed", "verification.skipped", "step.blocked", "execution.suspended",
   "execution.resumed", "execution.failed", "execution.finished"}

ProviderAxes == {"UNTOUCHED", "INVOKED", "DONE", "TRUNCATED", "FAILED"}

Statuses == {"ADMITTED", "RUNNING", "SUSPENDED", "SETTLED"}

EvidenceRecords ==
  [kind : EvidenceKinds, step : STRING, cap : STRING, target : STRING,
   bytes : Nat, verdict : Verdicts, revision : Nat]

States ==
  [revision : Nat, status : Statuses, cursor : Nat,
   steps : Nat, perCap : [Capabilities -> Nat], bytes : Nat,
   provider : ProviderAxes,
   artifact : {"NONE", "PRODUCED"}, mutation : {"NONE", "APPLIED", "ROLLED_BACK"},
   verify : {"NOT_RUN", "PASSED", "FAILED", "NOT_APPLICABLE"}, verifyStarted : BOOLEAN,
   evidence : SUBSET EvidenceRecords,
   terminal : [outcome : Outcomes \cup {None}, class : FailureClasses \cup {None},
               revision : Nat]]

Events ==
  [kind : EventKinds \cup {None}, step : STRING, cap : STRING,
   axis : ProviderAxes \cup {None}, evidence : SUBSET EvidenceRecords, bytes : Nat,
   class : FailureClasses \cup {None}, revision : Nat]

EventOf(kind) ==
  [kind |-> kind, step |-> None, cap |-> None, axis |-> None,
   evidence |-> {}, bytes |-> 0, class |-> None, revision |-> 0]

Declared(sp, id) == \E i \in DOMAIN sp.program : sp.program[i].id = id
StepAt(sp, id)    == sp.program[CHOOSE i \in DOMAIN sp.program : sp.program[i].id = id]
\* Mutant: an index that starts at minus one.
MutantStepIndex(sp, id) == (CHOOSE i \in DOMAIN sp.program : sp.program[i].id = id) - 2
StepIndex(sp, id) == (CHOOSE i \in DOMAIN sp.program : sp.program[i].id = id) - 1

\* The record checks of evidence.produced.
ValidRecord(sp, rec) ==
  /\ Declared(sp, rec.step)
  /\ rec.kind \in EvidenceKinds
  /\ rec.cap = StepAt(sp, rec.step).cap
  /\ MutatingKind(rec.kind) => MutatingCap(rec.cap)
  /\ rec.verdict \in Verdicts

RunningOnly == {"step.started", "capability.invoked", "evidence.produced",
                "artifact.produced", "mutation.applied", "mutation.rolled_back",
                "verification.started", "verification.passed", "verification.failed",
                "verification.skipped", "execution.suspended"}

\* Mutant: the settled state takes events.
MutantUnsettled(s) == s.status # "REJECTED"
Unsettled(s) == s.status # "SETTLED"

\* Mutant: a running execution can be started again.
MutantMayStart(s) == s.status \in {"ADMITTED", "RUNNING"}
MayStart(s) == s.status = "ADMITTED"

\* When reduce accepts e in state s; a refused event leaves the state alone.
Accepts(x, s, e) ==
  /\ Unsettled(s)
  /\ e.kind \in RunningOnly => s.status = "RUNNING"
  /\ CASE e.kind = "execution.started"  -> MayStart(s)
       [] e.kind = "step.started"       ->
            Declared(x.spec, e.step) /\ e.cap = StepAt(x.spec, e.step).cap
       [] e.kind = "capability.invoked" ->
            /\ Declared(x.spec, e.step)
            /\ e.axis \in {None, "INVOKED", "DONE", "TRUNCATED", "FAILED"}
       [] e.kind = "evidence.produced"  ->
            e.evidence # {} /\ \A rec \in e.evidence : ValidRecord(x.spec, rec)
       [] e.kind = "artifact.produced"  -> Has(s, "RESPONSE_PRODUCED") \/ e.evidence # {}
       [] e.kind = "mutation.applied"   -> MutatedTargets(s) # {} \/ e.evidence # {}
       [] e.kind \in {"mutation.rolled_back", "verification.started",
                      "verification.skipped", "execution.suspended"} -> TRUE
       [] e.kind \in {"verification.passed", "verification.failed"} -> s.verifyStarted
       [] e.kind = "step.blocked"       ->
            e.class \in FailureClasses /\ (e.step # None => Declared(x.spec, e.step))
       [] e.kind = "execution.resumed"  -> s.status = "SUSPENDED"
       [] e.kind = "execution.failed"   -> e.class \in FailureClasses
       [] e.kind = "execution.finished" -> s.status # "ADMITTED"
       [] OTHER -> FALSE

\* execution.failed takes the outcome of its class; execution.finished is
\* adjudicated from the evidence alone.
Verdict(x, s, e) ==
  LET o == IF e.kind = "execution.failed"
           THEN OutcomeForClass(e.class) ELSE Adjudicate(x.spec, s)
  IN  [outcome |-> o,
       class |-> IF e.kind = "execution.failed" THEN e.class
                 ELSE IF o = "PROVEN" THEN None ELSE "UNSUBSTANTIATED",
       revision |-> s.revision + 1]

\* A check begins: the axis is reset.
CheckStarted(next) == [next EXCEPT !.verify = "NOT_RUN", !.verifyStarted = TRUE]

\* The state an accepted event produces.
Reduced(x, s, e) ==
  LET next == [s EXCEPT !.revision = @ + 1]
  IN CASE e.kind \in {"execution.started", "execution.resumed"} ->
            [next EXCEPT !.status = "RUNNING"]
       [] e.kind = "step.started" ->
            [next EXCEPT !.cursor = StepIndex(x.spec, e.step), !.provider = "INVOKED"]
       [] e.kind = "capability.invoked" ->
            [Charge(next, StepAt(x.spec, e.step).cap, e.bytes)
               EXCEPT !.provider = IF e.axis \in {None, "INVOKED"} THEN @ ELSE e.axis]
       [] e.kind = "evidence.produced" ->
            [next EXCEPT !.evidence =
               @ \cup {[rec EXCEPT !.revision = s.revision + 1] : rec \in e.evidence}]
       [] e.kind = "artifact.produced"    -> [next EXCEPT !.artifact = "PRODUCED"]
       [] e.kind = "mutation.applied"     -> [next EXCEPT !.mutation = "APPLIED"]
       [] e.kind = "mutation.rolled_back" -> [next EXCEPT !.mutation = "ROLLED_BACK"]
       [] e.kind = "verification.started" -> CheckStarted(next)
       [] e.kind = "verification.passed"  -> [next EXCEPT !.verify = "PASSED"]
       [] e.kind = "verification.failed"  -> [next EXCEPT !.verify = "FAILED"]
       [] e.kind = "verification.skipped" -> [next EXCEPT !.verify = "NOT_APPLICABLE"]
       [] e.kind = "step.blocked" ->
            IF e.step = None THEN next
            ELSE [next EXCEPT !.cursor = StepIndex(x.spec, e.step)]
       [] e.kind = "execution.suspended"  -> [next EXCEPT !.status = "SUSPENDED"]
       [] e.kind \in {"execution.failed", "execution.finished"} ->
            [next EXCEPT !.status = "SETTLED", !.terminal = Verdict(x, s, e)]
       [] OTHER -> next

(***************************************************************************)
(* Fold: replay a log from the admitted state.  The result of a rejected   *)
(* log is Rejected: an event that does not apply, or a revision that is    *)
(* not the next one.                                                       *)
(***************************************************************************)
Rejected == [InitialState EXCEPT !.status = "REJECTED"]

\* Mutant: gaps in the revisions are not noticed.
MutantFollows(s, e) == e.revision >= 0
Follows(s, e) == e.revision \in {0, s.revision + 1}

Fold(x, events) ==
  LET after[i \in 0..Len(events)] ==
        IF i = 0 THEN InitialState
        ELSE LET s == after[i - 1]
                 e == events[i]
             IN  IF /\ s.status # "REJECTED"
                    /\ Follows(s, e)
                    /\ Accepts(x, s, e)
                 THEN Reduced(x, s, e) ELSE Rejected
  IN  after[Len(events)]
=============================================================================
