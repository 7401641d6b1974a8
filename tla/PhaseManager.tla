--------------------------- MODULE PhaseManager ---------------------------
(***************************************************************************)
(* The phase manager, internal/runtime/orchestrator/manager.go: a logical  *)
(* phase (`current') over the shared workflow machine (`state'), and the   *)
(* plan that authorizes the hop from planning to building.                 *)
(*                                                                         *)
(* Every operation holds the manager's mutex for its whole length, so it   *)
(* is one action; inside it, the machine moves event by event and may stop *)
(* half-way.  An operation is a chain of operators on a position, the pair *)
(* of the two, each of which says where it ended and whether it succeeded. *)
(* A hop is written to the durable lineage before `current' moves; the     *)
(* write and the checkpoint before a build may each fail.                  *)
(***************************************************************************)
EXTENDS WorkflowMachine, SequencesExt

CONSTANTS
  Reported,   \* the classes of failures that callers report
  Unreliable  \* whether a checkpoint or a lineage write may fail

ASSUME PhaseAssumption ==
  /\ Reported \subseteq FailureClasses
  /\ Unreliable \in BOOLEAN

VARIABLES
  state,    \* the workflow machine
  current,  \* the logical phase
  plan,     \* the bound plan: "none", or "bare" or "capable" of granting
  last      \* history: the operation that ended last and how

vars == <<state, current, plan, last>>

Phases == {"idle", "ask", "investigate", "plan", "build", "review"}
Plans == {"none", "bare", "capable"}

-----------------------------------------------------------------------------
\* Phases and states.

workflowStateFor ==
  [idle |-> "idle", ask |-> "idle", investigate |-> "investigating",
   plan |-> "planning", build |-> "building", review |-> "reviewing"]

\* A parked run has no phase of its own.
phaseForWorkflowState ==
  [s \in WorkflowStates \ {Parking} |->
     CASE s = "idle" -> "ask"
       [] s = "investigating" -> "investigate"
       [] s = "planning" -> "plan"
       [] s = "reviewing" -> "review"
       [] OTHER -> "build"]

Edges ==
  {<<"idle", "ask">>, <<"idle", "investigate">>, <<"idle", "plan">>,
   <<"ask", "investigate">>, <<"ask", "plan">>,
   <<"investigate", "plan">>, <<"investigate", "ask">>,
   <<"plan", "build">>, <<"plan", "ask">>, <<"plan", "investigate">>,
   <<"build", "review">>, <<"build", "ask">>,
   <<"review", "build">>, <<"review", "ask">>}

authorizeContext(ctx) ==
  [ctx EXCEPT !.plan = @ \/ plan # "none", !.caps = @ \/ plan = "capable"]

-----------------------------------------------------------------------------
\* Driving the machine to a phase.

\* Mutant: the search may take a path through a park.
Mutantedge ==
  {m \in Moves : m[1] # "repairing"}
    \cup {<<s, "reset", "idle">> : s \in WorkflowStates \ {"repairing"}}
    \cup {<<s, "await-authorization", Parking>> : s \in WorkflowStates}

\* What the search for a path sees: no guards, no parking, no way on from a
\* repair.
edge ==
  {m \in Moves : m[1] # "repairing"}
    \cup {<<s, "reset", "idle">> : s \in WorkflowStates \ {"repairing"}}

\* The walks of the machine, of no more events than the longest path there is:
\* an event or none, twice that, and four.
Joined(first, second) ==
  {[from |-> w[1].from, path |-> w[1].path \o w[2].path, at |-> w[2].at] :
     w \in {w \in first \X second : w[1].at = w[2].from}}
Steps ==
  {[from |-> m[1], path |-> <<m[2]>>, at |-> m[3]] : m \in edge}
    \cup {[from |-> s, path |-> <<>>, at |-> s] : s \in WorkflowStates}
Pairs == Joined(Steps, Steps)
Walks == Joined(Pairs, Pairs)

\* The shortest path between two states, if there is one.
smPath ==
  [from, want \in WorkflowStates |->
     LET paths == {w.path : w \in {w \in Walks : w.from = from /\ w.at = want}}
     IN  {p \in paths : \A q \in paths : Len(p) <= Len(q)}]

\* The events are sent until one is refused.
Driven(s, path, ctx) ==
  FoldLeft(LAMBDA m, e : IF m.ok THEN SendEvent(m.state, e, ctx) ELSE m,
           [state |-> s, ok |-> TRUE], path)

\* driveSM: along the shortest path, through a reset when there is none.
driveSM(s, target, ctx) ==
  LET along(start) == Driven(start, CHOOSE p \in smPath[start, target] : TRUE, ctx)
  IN  along(IF smPath[s, target] = {} THEN "idle" ELSE s)

-----------------------------------------------------------------------------
\* The parts of an operation, on a position [state, current].

Parked(p) == p.state = Parking
At(p, s) == [p EXCEPT !.state = s]
Succeeds(p) == [pos |-> p, ok |-> TRUE, edge |-> FALSE]
Refused(p) == [pos |-> p, ok |-> FALSE, edge |-> FALSE]

reanchor(p) ==
  IF Parked(p) THEN p
  ELSE [p EXCEPT !.current = phaseForWorkflowState[p.state]]

\* reconcileLocked: the machine is brought to the phase that is asked for,
\* before anybody asks whether the hop is allowed.
reconcile(p, next, ctx) ==
  LET met(m) == IF m.ok THEN Succeeds(reanchor(At(p, m.state)))
                ELSE Refused(At(p, m.state))
  IN  IF p.state = workflowStateFor[next] \/ Parked(p) THEN Succeeds(p)
      ELSE met(driveSM(p.state, workflowStateFor[next], authorizeContext(ctx)))

\* rewindLocked: back to a state through a reset; no parked run is rewound.
rewind(p, before, ctx) ==
  LET back == driveSM("idle", workflowStateFor[phaseForWorkflowState[before]],
                      authorizeContext(ctx))
  IN  reanchor(IF p.state = before THEN p ELSE At(p, back.state))

\* A parked run goes on building when its capabilities allow it.
Resumed(p, ctx) ==
  LET to(m) == IF m.ok THEN Succeeds(reanchor(At(p, m.state))) ELSE Refused(p)
  IN  to(SendEvent(p.state, "build", authorizeContext(ctx)))

\* driveAtomicLocked: the machine alone, put back when an event is refused.  A
\* parked run is resumed to build and is otherwise left alone.
driveAtomic(p, next, ctx) ==
  LET to(m) == IF m.ok THEN Succeeds(At(p, m.state))
               ELSE Refused(rewind(At(p, m.state), p.state, ctx))
  IN  CASE Parked(p) -> IF next = "build" THEN Resumed(p, ctx) ELSE Refused(p)
        [] p.state = workflowStateFor[next] -> Succeeds(p)
        [] OTHER -> to(driveSM(p.state, workflowStateFor[next], ctx))

\* The hop is recorded, and only then taken; a resumed run has been taken to its
\* phase already, and no record is made of that.
commit(p, driven, next, ctx, recorded) ==
  IF recorded \/ driven.current = next
  THEN Succeeds([driven EXCEPT !.current = next])
  ELSE Refused(IF driven.state = p.state THEN driven
               ELSE rewind(driven, p.state, ctx))

\* The machine is driven, and the phase follows it when it arrives.
Taken(p, next, ctx, recorded) ==
  LET after(r) == IF r.ok THEN commit(p, r.pos, next, ctx, recorded) ELSE r
  IN  after(driveAtomic(p, next, authorizeContext(ctx)))

\* Mutant: a hop to the phase that is current is taken for done.
MutantTransition(p, next, ctx, recorded) ==
  CASE p.current = next -> Succeeds(p)
    [] <<p.current, next>> \notin Edges -> [Refused(p) EXCEPT !.edge = TRUE]
    [] OTHER -> Taken(p, next, ctx, recorded)

Transition(p, next, ctx, recorded) ==
  LET from(met) ==
        CASE ~met.ok \/ met.pos.current = next -> met
          [] <<met.pos.current, next>> \notin Edges ->
               [Refused(met.pos) EXCEPT !.edge = TRUE]
          [] OTHER -> Taken(met.pos, next, ctx, recorded)
  IN  from(reconcile(p, next, ctx))

\* The wish of the user: any hop, from idle, but never over a parked run.
Force(p, next, ctx, recorded) ==
  IF p.current = next THEN reconcile(p, next, ctx)
  ELSE Taken(IF Parked(p) THEN p ELSE At(p, "idle"), next, ctx, recorded)

ResumeParkedRun(p, ctx) ==
  IF Parked(p) THEN Resumed(p, ctx) ELSE Refused(p)

\* The machine is reset first, whatever becomes of the record.
ResetToAsk(p, recorded) ==
  IF p.current = "ask" \/ recorded
  THEN Succeeds([state |-> "idle", current |-> "ask"])
  ELSE Refused(At(p, "idle"))

\* What the user interface does before it lets a build mutate anything: resume
\* a parked run, else ask for the hop, else insist on it; and then look.
transitionToBuilding(p, ctx, recorded) ==
  LET insist(asked) == IF asked.edge THEN Force(asked.pos, "build", ctx, recorded)
                       ELSE asked
      look(ended)   == [ended EXCEPT !.ok = @ /\ Executable(ended.pos.state)]
  IN  CASE Executable(p.state) -> Succeeds(p)
        [] Parked(p) -> look(ResumeParkedRun(p, ctx))
        [] OTHER -> look(insist(Transition(p, "build", ctx, recorded)))

-----------------------------------------------------------------------------
\* The operations.

Position == [state |-> state, current |-> current]
Holds == IF Unreliable THEN BOOLEAN ELSE {TRUE}
Contexts ==
  [plan : BOOLEAN, caps : BOOLEAN, class : {"unknown"}, checkpoint : Holds]
Failures == [plan : {FALSE}, caps : {FALSE}, class : Reported, checkpoint : Holds]

Ends(op, phase, ctx, r) ==
  /\ state' = r.pos.state
  /\ current' = r.pos.current
  /\ last' = [op |-> op, phase |-> phase, ok |-> r.ok,
              plan |-> authorizeContext(ctx).plan,
              caps |-> authorizeContext(ctx).caps]
  /\ UNCHANGED plan

Init ==
  /\ state = "idle"
  /\ current = "idle"
  /\ plan = "none"
  /\ last = [op |-> "none", phase |-> "idle", ok |-> TRUE,
             plan |-> FALSE, caps |-> FALSE]

Hop(next, ctx, recorded) ==
  \/ Ends("transition", next, ctx, Transition(Position, next, ctx, recorded))
  \/ Ends("force", next, ctx, Force(Position, next, ctx, recorded))

Build(ctx, recorded) ==
  \/ Ends("build", "build", ctx, transitionToBuilding(Position, ctx, recorded))
  \/ Ends("resume", "build", ctx, ResumeParkedRun(Position, ctx))

Unwind(ctx, recorded) == Ends("reset", "ask", ctx, ResetToAsk(Position, recorded))

\* ParkAtAuthorization, and the marks of the approval gate that park as well.
Park(ctx) ==
  Ends("park", current, ctx, Succeeds(At(Position, Parking)))

Fail(ctx) ==
  LET failed == SendEvent(state, "failure-identified", ctx)
  IN  Ends("fail", current, ctx,
           IF failed.ok THEN Succeeds(At(Position, failed.state))
           ELSE Refused(Position))

\* A human decision or a fast path binds a plan; a rejection or an abort drops
\* it.
Authorize(bound) ==
  /\ plan' = bound
  /\ last' = [last EXCEPT !.op = "plan"]
  /\ UNCHANGED <<state, current>>

Next ==
  \/ \E ctx \in Contexts, recorded \in Holds :
       \/ \E next \in Phases : Hop(next, ctx, recorded)
       \/ Build(ctx, recorded)
       \/ Unwind(ctx, recorded)
       \/ Park(ctx)
  \/ \E ctx \in Failures : Fail(ctx)
  \/ \E bound \in Plans : Authorize(bound)

Spec == Init /\ [][Next]_vars

-----------------------------------------------------------------------------
\* Properties.

\* The phase names the place where the machine is.
Agree ==
  \/ state = Parking
  \/ workflowStateFor[current] = workflowStateFor[phaseForWorkflowState[state]]

\* A hop that reports success has taken place: the machine reads the state of
\* the phase, unless a run stays parked, and phase and machine agree; so they do
\* after a resume and a reset.  This is the defect the comments of Transition
\* and ResetToAsk report as repaired: "got idle immediately after a transition
\* that had reported success".
HopsAreReal ==
  [][last'.ok =>
       /\ last'.op \in {"transition", "force"} =>
            state' \in {workflowStateFor[last'.phase], Parking}
       /\ last'.op \in {"transition", "force", "resume", "reset"} => Agree']_vars

\* The machine enters building only with granted capabilities, and with a plan
\* unless it resumes a parked run: also when it is driven there through resets
\* and detours.
BuildingIsLicensed ==
  [][state' = "building" /\ state # "building" =>
       last'.caps /\ (last'.plan \/ state = Parking)]_vars

\* A refused operation never leaves the machine able to mutate where it was not.
RefusalsGrantNothing ==
  [][~last'.ok /\ Executable(state') => Executable(state)]_vars

\* A run parked for a human leaves the park by a request to build, a reset or a
\* failure; no other hop, wish or search for a path takes it out.
ParksAreDecided ==
  [][state = Parking /\ state' # Parking =>
       \/ last'.op \in {"build", "resume", "reset", "fail"}
       \/ last'.op \in {"transition", "force"} /\ last'.phase = "build"]_vars

\* Whoever may mutate was licensed to: the three together.
MutationIsLicensed ==
  /\ BuildingIsLicensed
  /\ RefusalsGrantNothing
  /\ ParksAreDecided
=============================================================================
