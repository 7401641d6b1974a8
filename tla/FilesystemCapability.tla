------------------------ MODULE FilesystemCapability ------------------------
(***************************************************************************)
(* runtime/capabilities/filesystem: what Invoke of each capability may do  *)
(* to the workspace and may report, and the verifiers that the runtime's   *)
(* callers bind to the kernel.                                             *)
(*                                                                         *)
(* The workspace maps every target to the content it holds, or to NoFile.  *)
(* A content is a value; Bytes gives its size.  Paths, permissions, walks  *)
(* and temporary files are abstracted: a write is the rename that commits  *)
(* it.  With Faults a system call may also fail, which leaves the          *)
(* workspace alone.                                                        *)
(***************************************************************************)
EXTENDS KernelReducer

CONSTANTS
  Targets,     \* the workspace-relative paths
  Contents,    \* the contents a file may hold
  Bytes,       \* the size of each content
  NoFile,      \* the target does not exist
  MaxRead,     \* WithMaxReadBytes: the bound of one read, 0 for none
  Faults       \* BOOLEAN: whether system calls may fail

ASSUME FilesystemAssumption ==
  /\ Targets \subseteq STRING /\ None \notin Targets
  /\ NoFile \notin Contents
  /\ Bytes \in [Contents -> Nat]
  /\ MaxRead \in Nat
  /\ Faults \in BOOLEAN

Workspaces == [Targets -> Contents \cup {NoFile}]

Present(ws, t) == ws[t] # NoFile
SizeOf(ws, t)  == IF Present(ws, t) THEN Bytes[ws[t]] ELSE 0
Clip(n)        == IF MaxRead > 0 /\ n > MaxRead THEN MaxRead ELSE n

Fact(kind, t, n) == [kind |-> kind, target |-> t, bytes |-> n]

\* What errors.Is finds in an error: the end of some context, or neither.
Causes == {None, "CANCELED", "DEADLINE_EXCEEDED"}

Observations ==
  [error : BOOLEAN, cause : Causes, verdict : Verdicts, output : Nat, charged : Nat,
   facts : SUBSET [kind : EvidenceKinds, target : STRING, bytes : Nat]]

\* What Invoke returns: an error, or an observation.  output is OutputBytes,
\* charged is the sum of the Bytes of the facts.
Observation(verdict, facts, output, charged) ==
  [error |-> FALSE, cause |-> None, verdict |-> verdict, facts |-> facts,
   output |-> output, charged |-> charged]
ErrorOf(cause) ==
  [error |-> TRUE, cause |-> cause, verdict |-> "FAIL", facts |-> {},
   output |-> 0, charged |-> 0]
Failed    == Observation("FAIL", {}, 0, 0)
InvokeErr == ErrorOf(None)
Absent(verdict, t) == Observation(verdict, {Fact("FILE_ABSENT", t, 0)}, 0, 0)

ReadObservation(ws, t) ==
  IF ~Present(ws, t) THEN Absent("PASS", t)
  ELSE LET n == Clip(SizeOf(ws, t))
       IN  Observation("PASS", {Fact("FILE_READ", t, n)}, n, n)

\* The count of entries is data no property depends on.
Discover(done) ==
  IF done THEN {Failed}
  ELSE {Observation("PASS", {Fact("WORKSPACE_OBSERVED", None, 1)}, 1, 1)}

\* A search reads the whole file; it reports no output when nothing matched.
Search(ws, t) ==
  IF ~Present(ws, t) THEN {Absent("PASS", t)}
  ELSE LET n == SizeOf(ws, t)
       IN  {Observation("PASS", {Fact("FILE_READ", t, n)}, out, n) : out \in {0, n}}

Exists(ws, t) ==
  IF ~Present(ws, t) THEN Absent("PASS", t)
  ELSE LET n == SizeOf(ws, t)
       IN  Observation("PASS", {Fact("FILE_PRESENT", t, n)}, n, n)

\* Both facts of a write carry the size, so a write is charged twice its output.
Written(t, c) ==
  Observation("PASS", {Fact("FILE_WRITTEN", t, Bytes[c]), Fact("FILE_PRESENT", t, Bytes[c])},
              Bytes[c], 2 * Bytes[c])

Removed(ws, t) ==
  Observation("PASS", {Fact("FILE_DELETED", t, SizeOf(ws, t)), Fact("FILE_ABSENT", t, 0)},
              SizeOf(ws, t), SizeOf(ws, t))

\* command.run has no implementation in the repository: any capability bound
\* to it may deliver everything, or a prefix it reports as truncated, or fail
\* with any error, that of a context of its own (a timeout of the command)
\* included.
CommandRun(t) ==
  {Observation("PASS", facts, 1, 1) :
     facts \in {{},
                {Fact("COMMAND_RUN", t, 1)},
                {Fact("COMMAND_RUN", t, 1), Fact("RESPONSE_PRODUCED", t, 0)},
                {Fact("COMMAND_RUN", t, 1), Fact("COMMAND_TRUNCATED", t, 0)}}}
    \cup {ErrorOf(cause) : cause \in Causes}

Step(ws, obs) == [ws |-> ws, obs |-> obs]
Same(ws, observations) == {Step(ws, obs) : obs \in observations}

\* A mutating capability starts with ctx.Err(), whose error it returns.
Withdrawn(ws) == Same(ws, {ErrorOf(cause) : cause \in Causes \ {None}})

\* The capabilities that resolve their target; resolve refuses an empty one.
Resolves(step) ==
  step.cap \in {"file.read", "file.search", "file.exists", "file.write", "file.delete"}

\* file.delete looks again after the removal; when that look fails it reports
\* FAIL, with no evidence, for a removal that happened.
Confirmations == IF Faults THEN {Failed} ELSE {}

(***************************************************************************)
(* The outcomes of invoking step in workspace ws; done says that the       *)
(* context is already cancelled.                                           *)
(***************************************************************************)
Invocations(step, ws, done) ==
  LET t == step.target
      faulty == IF Faults THEN {Failed, InvokeErr} ELSE {}
  IN IF Resolves(step) /\ t = None THEN Same(ws, {InvokeErr})
     ELSE
     CASE step.cap = "workspace.discover" -> Same(ws, Discover(done))
       [] step.cap = "file.read"   -> Same(ws, {ReadObservation(ws, t)} \cup faulty)
       [] step.cap = "file.search" -> Same(ws, Search(ws, t) \cup faulty)
       [] step.cap = "file.exists" -> Same(ws, {Exists(ws, t)} \cup faulty)
       [] step.cap = "command.run" -> Same(ws, CommandRun(t) \cup faulty)
       [] step.cap = "file.write"  ->
            IF done THEN Withdrawn(ws)
            ELSE Same(ws, faulty)
                 \cup {Step([ws EXCEPT ![t] = step.content], Written(t, step.content))}
       [] step.cap = "file.delete" ->
            IF done THEN Withdrawn(ws)
            ELSE Same(ws, faulty)
                 \cup IF ~Present(ws, t) THEN Same(ws, {Absent("NO_OP", t)})
                      ELSE {Step([ws EXCEPT ![t] = NoFile], obs) :
                              obs \in {Removed(ws, t)} \cup Confirmations}

\* ... and another process may have recreated the file before that look.
Recreations(step, ws, done) ==
  IF step.cap = "file.delete" /\ step.target # None /\ ~done /\ Present(ws, step.target)
  THEN {Step([ws EXCEPT ![step.target] = c], Failed) : c \in Contents}
  ELSE {}

\* Authorize of the capability itself, after the grant: a mutating capability
\* requires a target (which the grant already demanded) and a path that
\* resolves inside the root, which is the part that may fail.  The gate of a
\* capability bound to command.run is taken to refuse as these do.
GateRefusals(step) ==
  IF Faults /\ step.cap \in {"file.write", "file.delete", "command.run"}
  THEN {"AUTHORIZATION_FAILURE", "CAPABILITY_FAILURE"} ELSE {}

(***************************************************************************)
(* The verifiers.  Each walks the contract's targets; Judge is its verdict *)
(* on one target, from the recorded evidence and a fresh look at the       *)
(* workspace: "OK" to go on, "FAIL", or "ERROR".                           *)
(***************************************************************************)
Verifiers == {"none", "workspace", "agreement", "content", "absence", "read"}

\* NotApplicable before any target is examined.
NotApplicable(v, sp) ==
  \/ sp.targets = <<>>
  \/ v \in {"agreement", "read"} /\ sp.kind # "OBSERVE"
  \/ v = "content" /\ ~RequiresMutation(sp.kind)
  \/ v = "absence" /\ sp.kind # "DELETE"

\* The last record of a target wins: recordedPresence and recordedReads.
Latest(evidence, t, kinds, caps) ==
  LET about == {r \in evidence : r.target = t /\ r.kind \in kinds /\ r.cap \in caps}
  IN  {r \in about : \A q \in about : q.revision <= r.revision}

\* The content the request asked to be on t: the last write the program makes.
Expected(sp, t) ==
  LET writes == {i \in DOMAIN sp.program :
                   sp.program[i].cap = "file.write" /\ sp.program[i].target = t}
  IN  {sp.program[i].content : i \in {j \in writes : \A k \in writes : k <= j}}

JudgeWorkspace(sp, present) ==
  IF present = (sp.kind = "DELETE") THEN "FAIL" ELSE "OK"

JudgeAgreement(evidence, ws, t) ==
  LET last == Latest(evidence, t, {"FILE_PRESENT", "FILE_ABSENT"}, {"file.exists"})
  IN  IF \E r \in last : (r.kind = "FILE_PRESENT") = Present(ws, t) THEN "OK" ELSE "FAIL"

\* Mutant: the record of a write is taken for the content.
MutantJudgeContent(sp, evidence, ws, t) ==
  IF \E r \in evidence : r.kind = "FILE_WRITTEN" /\ r.target = t THEN "OK" ELSE "FAIL"

JudgeContent(sp, evidence, ws, t) ==
  IF /\ \E r \in evidence : r.kind = "FILE_WRITTEN" /\ r.target = t
     /\ ws[t] \in Expected(sp, t)
  THEN "OK" ELSE "FAIL"

\* recordedAbsence: one absence record suffices, whatever came after it.
JudgeAbsence(evidence, ws, t) ==
  IF /\ \E r \in evidence : /\ r.kind = "FILE_ABSENT" /\ r.target = t
                            /\ r.cap \in {"file.delete", "file.exists"}
     /\ ~Present(ws, t)
  THEN "OK" ELSE "FAIL"

JudgeRead(evidence, ws, t) ==
  LET last == Latest(evidence, t, {"FILE_READ", "FILE_PRESENT", "FILE_ABSENT"},
                     {"file.read", "file.exists"})
  IN  IF \E r \in last :
           IF Present(ws, t)
           THEN r.kind # "FILE_ABSENT" /\ SizeOf(ws, t) =
                  (IF r.kind = "FILE_READ" THEN r.bytes ELSE 0)
           ELSE r.kind = "FILE_ABSENT"
      THEN "OK" ELSE "FAIL"

Judge(v, sp, evidence, ws, t) ==
  CASE v = "workspace" -> JudgeWorkspace(sp, Present(ws, t))
    [] v = "agreement" -> JudgeAgreement(evidence, ws, t)
    [] v = "content"   -> JudgeContent(sp, evidence, ws, t)
    [] v = "absence"   -> JudgeAbsence(evidence, ws, t)
    [] v = "read"      -> JudgeRead(evidence, ws, t)

\* The workspace verifier asks file.exists, whose failed stat carries no fact
\* and so reads as "not present"; the others report the failure.
Judgements(v, sp, evidence, ws, t) ==
  {Judge(v, sp, evidence, ws, t)}
    \cup (IF Faults THEN {"ERROR"} ELSE {})
    \cup (IF Faults /\ v = "workspace" THEN {JudgeWorkspace(sp, FALSE)} ELSE {})
=============================================================================
