---------------------------- MODULE KernelBridge ----------------------------
(***************************************************************************)
(* internal/kernelbridge: the executions the rest of the program asks the  *)
(* kernel for.  Observe, Apply, Delete and ReadFiles each build one spec,  *)
(* one grant naming exactly its destinations, and one verifier, run them   *)
(* on an engine of their own, and answer questions from the evidence.      *)
(***************************************************************************)
EXTENDS KernelEngine, TLC

CONSTANTS
  MaxObservedTargets,  \* bound of one observation or read
  MaxAppliedTargets    \* bound of one write or delete set

RangeOf(s) == {s[i] : i \in DOMAIN s}
Named(prefix, i) == prefix \o ToString(i)
StepFor(id, cap, t) == [id |-> id, cap |-> cap, target |-> t, content |-> None]
\* Mutant: one step short.
MutantBudget(steps, perCap) == [steps |-> steps - 1, bytes |-> 0, perCap |-> perCap]
Budget(steps, perCap) == [steps |-> steps, bytes |-> 0, perCap |-> perCap]
SpecOf(kind, targets, program, budget) ==
  [kind |-> kind, targets |-> targets, reqVerify |-> TRUE, reqObs |-> FALSE,
   program |-> program, budget |-> budget]
GrantOf(caps, targets) == [named |-> TRUE, caps |-> caps, targets |-> RangeOf(targets)]
Bound(sp, caps, verifier) ==
  [spec |-> sp, grant |-> GrantOf(caps, sp.targets), verifier |-> verifier]

observationSpec(targets) ==
  SpecOf("OBSERVE", targets,
         [i \in DOMAIN targets |-> StepFor(Named("exists-", i), "file.exists", targets[i])],
         Budget(MaxObservedTargets, 0))

readSpec(targets) ==
  SpecOf("OBSERVE", targets,
         [i \in DOMAIN targets |-> StepFor(Named("read-", i), "file.read", targets[i])],
         Budget(MaxObservedTargets, Len(targets)))

deletionSpec(targets) ==
  SpecOf("DELETE", targets,
         [i \in DOMAIN targets |-> StepFor(Named("delete-", i), "file.delete", targets[i])],
         Budget(Len(targets), Len(targets)))

\* Each destination is observed, then written.
mutationSpec(writes) ==
  SpecOf(writes[1].contract, [i \in DOMAIN writes |-> writes[i].target],
         [k \in 1..(2 * Len(writes)) |->
            LET i == (k + 1) \div 2 IN
            IF k % 2 = 1 THEN StepFor(Named("pre-", i), "file.exists", writes[i].target)
            ELSE [StepFor(Named("write-", i), "file.write", writes[i].target)
                    EXCEPT !.content = writes[i].content]],
         Budget(2 * Len(writes), Len(writes)))

\* prepareWrites: one write per destination, one contract for the whole set.
Prepared(writes) ==
  /\ writes # <<>> /\ Len(writes) <= MaxAppliedTargets
  /\ \A i, j \in DOMAIN writes :
       /\ writes[i].target = writes[j].target => i = j
       /\ writes[i].contract = writes[j].contract
       /\ writes[i].contract \in {"CREATE", "PATCH"}

\* The executions reached from the four entry points, for canonical targets.
Bounded(targets, max) == targets # <<>> /\ Len(targets) <= max
Observes(T) == {Bound(observationSpec(t), {"file.exists"}, "agreement") :
                  t \in {s \in T : Bounded(s, MaxObservedTargets)}}
ReadFiles(T) == {Bound(readSpec(t), {"file.read"}, "read") :
                  t \in {s \in T : Bounded(s, MaxObservedTargets)}}
Deletes(T)  == {Bound(deletionSpec(t), {"file.delete"}, "absence") :
                  t \in {s \in T : Bounded(s, MaxAppliedTargets)}}
Applies(W)  == {Bound(mutationSpec(w), {"file.exists", "file.write"}, "content") :
                  w \in {v \in W : Prepared(v)}}

(***************************************************************************)
(* The answers, read from the evidence and the verdict.                    *)
(***************************************************************************)
Proven  == st.terminal.outcome = "PROVEN"
About(t, kind) == {r \in st.evidence : r.target = t /\ r.kind = kind}

Wrote(t)   == About(t, "FILE_WRITTEN") # {}
Landed(t)  == Proven /\ Wrote(t)
Removed_(t) == About(t, "FILE_DELETED") # {}
Deleted(t) == Proven /\ Removed_(t)
Created(t) ==
  \E w \in About(t, "FILE_WRITTEN"), a \in About(t, "FILE_ABSENT") :
    /\ \A v \in About(t, "FILE_WRITTEN") : w.revision <= v.revision
    /\ a.cap = "file.exists" /\ a.revision < w.revision
Vanished(t) ==
  ~Deleted(t) /\ \E r \in About(t, "FILE_ABSENT") : r.cap = "file.delete"

\* collect: the last record of a capability that observes one target wins.
Presence(t) ==
  Latest(st.evidence, t, {"FILE_PRESENT", "FILE_READ", "FILE_ABSENT"},
         {"file.read", "file.exists", "file.write", "file.delete"})
Exists_(t) == Proven /\ \E r \in Presence(t) : r.kind # "FILE_ABSENT"
Absent_(t) == Proven /\ \E r \in Presence(t) : r.kind = "FILE_ABSENT"

(***************************************************************************)
(* Properties.                                                             *)
(***************************************************************************)
\* What a settled execution claims about its destinations is what the disk
\* holds, unless another process edited it after the check began: a landed
\* write left the asked content, a deleted or vanished target is gone, and
\* presence and absence are the disk's own.  An edit before the check, between
\* the steps, must not get past the verifier.
ClaimsMatchDisk ==
  Settled /\ calm => \A t \in TargetsOf(x.spec) :
    /\ Landed(t) => ws[t] \in Expected(x.spec, t)
    /\ Deleted(t) \/ (Proven /\ Vanished(t)) => ~Present(ws, t)
    /\ Exists_(t) => Present(ws, t)
    /\ Absent_(t) => ~Present(ws, t)

\* A claimed deletion is a removal this execution made, whoever else touches
\* the workspace: finding nothing to delete never reads as Deleted.
DeletedIsARemoval ==
  \A t \in Targets : Deleted(t) =>
    \E e \in effects : e.cap = "file.delete" /\ e.target = t /\ e.before # NoFile

\* Bytes that reached the disk are reported by Wrote once the execution has
\* settled, proven or not: the enclosing transaction rolls back on it.
WritesAreReported ==
  Settled => \A e \in effects : e.cap = "file.write" => Wrote(e.target)

\* The bounds written into the specs are never what stops an execution: they
\* fit the program they are derived from.
BoundsFitTheProgram == st.terminal.outcome # "BUDGET_EXHAUSTED"

\* Created is only said of a file that was not there before the write.  Holds
\* while nobody else edits the workspace.
CreatedWhenAlone ==
  edits = 0 => \A t \in Targets : Created(t) =>
    \E e \in effects : e.cap = "file.write" /\ e.target = t /\ e.before = NoFile

\* The answers of the four entry points are true: what they claim of a
\* destination holds of the disk, what they call deleted or created they deleted
\* or created, and what they wrote they report.
AnswersAreTrue ==
  ClaimsMatchDisk /\ DeletedIsARemoval /\ WritesAreReported /\ CreatedWhenAlone
=============================================================================
