----------------------------- MODULE KernelFold -----------------------------
(***************************************************************************)
(* The reducer against an arbitrary producer.  KernelEngine only emits the *)
(* events its own control flow constructs; Fold and reduce are exported to *)
(* whoever holds a log, so here any event of an alphabet may be offered in *)
(* any order, and what reduce accepts is logged.  This reaches the parts   *)
(* of reduce the engine never exercises: suspension, rollback, a check     *)
(* restarted, events about steps that were never started.                  *)
(***************************************************************************)
EXTENDS KernelReducer

CONSTANTS
  Requests,   \* the admitted requests
  Alphabet,   \* the events a producer may offer
  MaxEvents   \* bound on the length of the log

ASSUME FoldAssumption ==
  /\ \A r \in Requests : /\ r.spec.program \in Seq(StepsOf(r.spec))
                         /\ AdmissionRefusal(r, Capabilities) = None
  /\ Alphabet \subseteq Events
  /\ MaxEvents \in Nat

VARIABLES
  x,    \* the request of the execution
  s,    \* the state
  log   \* the events accepted so far, stamped

Init == x \in Requests /\ s = InitialState /\ log = <<>>

Stamped(e) == [e EXCEPT !.revision = s.revision + 1]

Offer(e) ==
  /\ Len(log) < MaxEvents
  /\ Accepts(x, s, e)
  /\ s' = Reduced(x, s, e)
  /\ log' = Append(log, Stamped(e))
  /\ UNCHANGED x

Next == \E e \in Alphabet : Offer(e)

Spec == Init /\ [][Next]_<<x, s, log>>

(***************************************************************************)
(* Properties.                                                             *)
(***************************************************************************)
TypeOK == x \in Requests /\ s \in States /\ log \in Seq(Events)

Before(i)     == SubSeq(log, 1, i - 1)
Without(i)    == Before(i) \o SubSeq(log, i + 1, Len(log))
Twice(i)      == Before(i) \o <<log[i]>> \o SubSeq(log, i, Len(log))
Exchanged(i)  == [log EXCEPT ![i] = log[i + 1], ![i + 1] = log[i]]
Refuses(events) == Fold(x, events).status = "REJECTED"

\* Fold rebuilds the state from its log, and from no damaged copy of it: a
\* record lost before the end, repeated, or exchanged with the next one makes
\* the fold fail (the revision check of Fold and the refusals of reduce).
DamagedLogsAreRefused ==
  /\ Fold(x, log) = s
  /\ \A i \in DOMAIN log :
       /\ Refuses(Twice(i))
       /\ i < Len(log) => Refuses(Without(i)) /\ Refuses(Exchanged(i))

\* Every record of a mutation names a step that may mutate; a contract that
\* forbids mutation therefore has none, whatever a producer offers.
MutationsComeFromMutatingSteps ==
  \A rec \in s.evidence : MutatingKind(rec.kind) =>
    /\ \E step \in StepsOf(x.spec) : step.id = rec.step /\ MutatingCap(step.cap)
    /\ ~ForbidsMutation(x.spec.kind)

Logged(kind) == {i \in DOMAIN log : log[i].kind = kind}

\* The verdict on the verify axis is that of a check that was started: after
\* a restart the axis is NOT_RUN until a new verdict, so a stale pass can
\* never satisfy a contract.
VerdictsFollowTheirCheck ==
  s.verify \in {"PASSED", "FAILED"} =>
    \E i \in Logged("verification.started"), j \in Logged("verification.passed")
                                                   \cup Logged("verification.failed") :
      i < j /\ \A k \in Logged("verification.started") : k < j

\* A rollback or a failed check is never outvoted: it keeps the outcome from
\* being PROVEN unless the same boundary was crossed, or checked, again.
RefutationsStand ==
  s.terminal.outcome = "PROVEN" =>
    /\ \A i \in Logged("mutation.rolled_back") : \E j \in Logged("mutation.applied") : i < j
    /\ \A i \in Logged("verification.failed") :
         \E j \in Logged("verification.passed") \cup Logged("verification.skipped")
                    \cup Logged("verification.started") : i < j

\* Whatever a producer offers, an accepted history is one an execution could
\* have: mutations from mutating steps, verdicts after their checks, and no
\* refutation outvoted.
AcceptedHistoriesAreSound ==
  MutationsComeFromMutatingSteps /\ VerdictsFollowTheirCheck /\ RefutationsStand
=============================================================================
