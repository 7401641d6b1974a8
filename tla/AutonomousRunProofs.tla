------------------------ MODULE AutonomousRunProofs ------------------------
(***************************************************************************)
(* Theorems about AutonomousRun, for every value of its constants: the     *)
(* loop keeps its bounds whoever steps it, a call whose context is         *)
(* cancelled begins at most one more execution, what the driver leaves in  *)
(* the journal is true when a restart reads it, and the task is completed  *)
(* only by a completion that was proven.                                   *)
(***************************************************************************)
EXTENDS AutonomousRun, DurableTaskProofs

\* A loop, typed, and the bounds it keeps.
LoopIn(l) ==
  /\ l \in Loops
  /\ l.attempts <= MaxAttempts
  /\ l.cycles <= MaxRecoveryCycles
  /\ l.state = "executing" => l.attempts < MaxAttempts

-----------------------------------------------------------------------------
\* The methods of the loop, one lemma each.

\* A fresh loop is within its bounds.
LEMMA NewWithin == LoopIn(NewLoop)
  BY LoopAssumption DEF LoopIn, NewLoop, Loops, LoopStates, LoopActions

\* So is one that is started, observed, parked, released or aborted.
LEMMA MovedWithin ==
  ASSUME NEW l, LoopIn(l), NEW patch \in BOOLEAN
  PROVE  /\ LoopIn(Started(l))
         /\ LoopIn(Observed(l))
         /\ LoopIn(Parked(l, patch))
         /\ LoopIn(Released(l))
         /\ LoopIn(Aborted(l))
  BY DEF LoopIn, Loops, LoopStates, Started, Observed, Parked, Released, Aborted,
         When, Over

\* An execution is counted only in the state that the bound guards.
LEMMA ConsumedWithin ==
  ASSUME NEW l, LoopIn(l), NEW over \in BOOLEAN
  PROVE  LoopIn(Consumed(l, over))
<1>1. CASE l.state # "executing"
  BY <1>1 DEF Consumed, When
<1>2. CASE l.state = "executing"
  <2>1. PICK b \in BOOLEAN : b = (l.overspent \/ over)
    BY DEF LoopIn, Loops
  <2> DEFINE more == l.attempts + 1
             n == [l EXCEPT !.state = "interpreting", !.attempts = more,
                            !.overspent = b]
  <2>2. Consumed(l, over) = n
    BY <1>2, <2>1 DEF Consumed, When
  <2>3. l.attempts \in Nat /\ l.attempts + 1 <= MaxAttempts
    BY <1>2, LoopAssumption DEF LoopIn, Loops
  <2>4. n.attempts = more /\ n.cycles = l.cycles /\ n.state = "interpreting"
    BY DEF LoopIn, Loops
  <2>6. b \in BOOLEAN /\ more \in Nat
    BY <2>3
  <2> HIDE DEF more
  <2>5. n \in Loops
    BY <2>6 DEF LoopIn, Loops, LoopStates
  <2> QED BY <2>2, <2>3, <2>4, <2>5 DEF LoopIn, more
<1> QED BY <1>1, <1>2

\* Step: it goes on only below the bounds, before and after the decision.
LEMMA SteppedWithin ==
  ASSUME NEW l, LoopIn(l), NEW a \in LoopActions, NEW stops \in BOOLEAN,
         NEW patch \in BOOLEAN
  PROVE  LoopIn(Stepped(l, a, stops, patch))
<1> DEFINE d == Decided(l, a, patch)
<1> DEFINE k == CASE a \notin ExecutionBound -> 0
                  [] a \in ExecutionBound /\ a = l.last -> l.identical + 1
                  [] OTHER -> 1
<1>1. k \in Nat
  BY DEF LoopIn, Loops
<1>2. Successor[a] \in LoopStates
  BY DEF Successor, LoopActions, LoopStates
<1> HIDE DEF k
<1> DEFINE u == [l EXCEPT !.last = a, !.identical = k]
<1>7. Used(l, a) = u
  BY DEF Used, k
<1>8. u \in Loops /\ u.attempts = l.attempts /\ u.cycles = l.cycles /\ u.held = l.held
  BY <1>1 DEF LoopIn, Loops
<1> HIDE DEF u
<1> DEFINE cycles == IF a = "repair" THEN l.cycles + 1 ELSE l.cycles
           held == IF a = "ask_human" THEN patch ELSE l.held
<1>9. cycles \in Nat /\ held \in BOOLEAN
  BY DEF LoopIn, Loops
<1>10. d = [u EXCEPT !.state = Successor[a], !.cycles = cycles, !.held = held]
  BY <1>7, <1>8 DEF Decided
<1> HIDE DEF cycles, held
<1>3. d \in Loops /\ d.attempts = l.attempts /\ d.state = Successor[a]
      /\ d.cycles = cycles
  BY <1>2, <1>8, <1>9, <1>10 DEF Loops
<1> USE DEF cycles
<1> HIDE DEF d
<1>4. CASE stops \/ Spent(l, a)
  BY <1>4, MovedWithin, patch \in BOOLEAN DEF Stepped
<1>5. CASE ~stops /\ ~Spent(l, a) /\ a \in ExecutionBound /\ Violated(d)
  <2>1. Stepped(l, a, stops, patch) = Aborted(d)
    BY <1>5 DEF Stepped, d
  <2>2. d.cycles <= MaxRecoveryCycles
    BY <1>3, <1>5, LoopAssumption DEF Spent, LoopIn, Loops
  <2> QED BY <2>1, <2>2, <1>3 DEF Aborted, LoopIn, Loops, LoopStates
<1>6. CASE ~stops /\ ~Spent(l, a) /\ ~(a \in ExecutionBound /\ Violated(d))
  <2>1. Stepped(l, a, stops, patch) = d
    BY <1>6 DEF Stepped, d
  <2>2. d.cycles <= MaxRecoveryCycles
    BY <1>3, <1>6, LoopAssumption DEF Spent, LoopIn, Loops
  <2>3. d.state = "executing" => a \in ExecutionBound
    BY <1>3 DEF Successor, LoopActions, ExecutionBound
  <2>4. d.state = "executing" => d.attempts < MaxAttempts
    BY <2>3, <1>3, <1>6, LoopAssumption DEF Violated, LoopIn, Loops
  <2> QED BY <2>1, <2>2, <2>4, <1>3 DEF LoopIn
<1> QED BY <1>4, <1>5, <1>6

-----------------------------------------------------------------------------
\* The inductive invariant.

AnyOp == Ops \union {NoOp} \union (Nat \X Nat)

Drivers ==
  [runID: 0 .. MaxCalls, request: 0 .. MaxCalls, obs: Outcomes, pendingOp: AnyOp,
   committedOp: AnyOp, lastState: LoopStates \union {"none"}, ready: BOOLEAN,
   staged: BOOLEAN, gated: BOOLEAN]

PCs == {"none", "return", "observe", "head", "decide", "gate", "prepare",
        "execute", "result", "consume", "repair", "done"}

CallRecords ==
  [pc: PCs, op: AnyOp, outcome: Outcomes, decision: LoopActions \union {"none"},
   late: Nat]

\* Where a call may still be on its way to an execution.
Going == {"observe", "decide", "gate", "prepare", "execute", "repair"}

\* Calls are numbered from runID: who is active, or cancelled, has a number.
Numbered ==
  /\ driver.request <= driver.runID
  /\ cancelled \subseteq 0 .. driver.runID
  /\ \A c \in Calls : Active(c) => c <= driver.runID

\* Only a cancelled call has executed late, and then it is past the point where
\* it could begin another execution without passing the head of the loop.
LateOnce ==
  \A c \in Calls :
    /\ c \notin cancelled => call[c].late = 0
    /\ call[c].late <= 1
    /\ call[c].late = 1 => call[c].pc \notin Going

\* What stands before the gate is a decision.
Decisive == \A c \in Calls : call[c].pc = "gate" => call[c].decision \in LoopActions

IInv ==
  /\ LoopIn(loop)
  /\ driver \in Drivers
  /\ call \in [Calls -> CallRecords]
  /\ Numbered
  /\ LateOnce
  /\ Decisive

-----------------------------------------------------------------------------
\* Moving one call.

\* Goto touches one call and keeps its count of late executions.
LEMMA GotoOne ==
  ASSUME call \in [Calls -> CallRecords], NEW c \in Calls, NEW pc \in PCs,
         Goto(c, pc)
  PROVE  /\ call' \in [Calls -> CallRecords]
         /\ call'[c].pc = pc /\ call'[c].late = call[c].late
         /\ \A b \in Calls \ {c} : call'[b] = call[b]
<1> DEFINE r == [NotCalled EXCEPT !.pc = pc, !.late = call[c].late]
<1>1. call[c].late \in Nat
  BY DEF CallRecords
<1>2. r \in CallRecords /\ r.pc = pc /\ r.late = call[c].late
  BY <1>1 DEF CallRecords, NotCalled, AnyOp, Outcomes
<1>3. call' = [call EXCEPT ![c] = r]
  BY DEF Goto
<1> QED BY <1>2, <1>3

\* A call that moves on, or ends, keeps the invariant if its place is one that
\* its cancellation allows.
LEMMA MoveOn ==
  ASSUME IInv, NEW c \in Calls, NEW pc \in PCs \ {"gate"}, Goto(c, pc),
         NEW d \in Drivers, NEW l, driver' = d, loop' = l, LoopIn(l),
         d.runID >= driver.runID, d.request <= d.runID,
         cancelled' = cancelled,
         pc # "done" => c <= d.runID,
         call[c].late = 1 => pc \notin Going
  PROVE  IInv'
<1>1. /\ call' \in [Calls -> CallRecords]
      /\ call'[c].pc = pc /\ call'[c].late = call[c].late
      /\ \A b \in Calls \ {c} : call'[b] = call[b]
  BY GotoOne DEF IInv
<1>2. driver.runID \in Nat /\ d.runID \in Nat
  BY DEF IInv, Drivers
<1>3. Numbered'
  <2>1. driver'.request <= driver'.runID
    OBVIOUS
  <2>2. cancelled' \subseteq 0 .. driver'.runID
    BY <1>2 DEF IInv, Numbered
  <2>3. ASSUME NEW b \in Calls, Active(b)' PROVE b <= driver'.runID
    <3>1. CASE b = c
      BY <3>1, <2>3, <1>1 DEF Active
    <3>2. CASE b # c
      <4>1. Active(b)
        BY <3>2, <2>3, <1>1 DEF Active
      <4>2. b \in Int /\ b <= driver.runID
        BY <4>1 DEF IInv, Numbered, Calls
      <4> QED BY <4>2, <1>2
    <3> QED BY <3>1, <3>2
  <2> QED BY <2>1, <2>2, <2>3 DEF Numbered
<1>4. LateOnce'
  BY <1>1 DEF IInv, LateOnce
<1>5. Decisive'
  BY <1>1 DEF IInv, Decisive
<1> QED BY <1>1, <1>3, <1>4, <1>5 DEF IInv

\* What a return writes into the driver.
LEMMA TermedDriver ==
  ASSUME NEW d \in Drivers, NEW l, LoopIn(l)
  PROVE  Termed(d, l) \in Drivers /\ Termed(d, l).runID = d.runID
         /\ Termed(d, l).request = d.request
<1>1. EndState(l) \in LoopStates \union {"none"}
  BY DEF EndState, LoopIn, Loops
<1> QED BY <1>1 DEF Termed, Drivers

\* A return, with a record or without.
LEMMA Returns ==
  ASSUME IInv, NEW c \in Calls, NEW d \in Drivers, NEW l, LoopIn(l), NEW before,
         d.runID = driver.runID, d.request = driver.request,
         ReturnTerm(c, d, l, before) \/ ReturnBare(c, d, l), cancelled' = cancelled
  PROVE  IInv'
<1>1. Goto(c, "done") /\ loop' = l /\ driver' \in {d, Termed(d, l)}
  BY DEF ReturnTerm, ReturnBare, Finish
<1>2. driver' \in Drivers /\ driver'.runID = driver.runID /\ driver'.request = driver.request
  BY <1>1, TermedDriver
<1>3. "done" \in PCs \ {"gate"} /\ "done" \notin Going
  BY DEF PCs, Going
<1>4. driver.runID \in Nat /\ driver.request <= driver.runID
  BY DEF IInv, Numbered, Drivers
<1> QED BY <1>1, <1>2, <1>3, <1>4, MoveOn

\* A call that goes on, in the run it is in.
LEMMA Continues ==
  ASSUME IInv, NEW c \in Calls, Active(c), NEW d \in Drivers, NEW l, LoopIn(l),
         d.runID = driver.runID, d.request = driver.request,
         NEW pc \in PCs \ {"gate"}, Continue(c, d, l, pc), cancelled' = cancelled,
         call[c].late = 1 => pc \notin Going
  PROVE  IInv'
<1>1. Goto(c, pc) /\ loop' = l /\ driver' = d
  BY DEF Continue
<1>2. driver.runID \in Nat /\ driver.request <= driver.runID /\ c <= driver.runID
  BY DEF IInv, Numbered, Drivers
<1> QED BY <1>1, <1>2, MoveOn

\* Operations are numbered by request and attempt, or latched.
LEMMA OpsTyped ==
  ASSUME NEW d \in Drivers, NEW l, LoopIn(l)
  PROVE  OperationOf(d, l) \in AnyOp /\ LatchedOp(d, l) \in AnyOp
<1>1. d.request \in Nat /\ l.attempts \in Nat /\ d.pendingOp \in AnyOp
  BY DriverAssumption DEF Drivers, LoopIn, Loops
<1> QED BY <1>1 DEF OperationOf, LatchedOp, AnyOp

\* A fresh driver, and a driver one of whose fields is written.
LEMMA FreshDriver ==
  ASSUME NEW c \in Calls
  PROVE  LET d == [NewDriver EXCEPT !.runID = c, !.request = c]
         IN  d \in Drivers /\ d.runID = c /\ d.request = c
<1>1. c \in 0 .. MaxCalls
  BY DriverAssumption DEF Calls
<1> QED BY <1>1 DEF Drivers, NewDriver, AnyOp, Outcomes

LEMMA WrittenDriver ==
  ASSUME NEW d \in Drivers, NEW b \in BOOLEAN, NEW op \in AnyOp, NEW o \in Outcomes
  PROVE  /\ LET e == [d EXCEPT !.ready = b] IN
              e \in Drivers /\ e.runID = d.runID /\ e.request = d.request
         /\ LET e == [d EXCEPT !.staged = b] IN
              e \in Drivers /\ e.runID = d.runID /\ e.request = d.request
         /\ LET e == [d EXCEPT !.gated = b] IN
              e \in Drivers /\ e.runID = d.runID /\ e.request = d.request
         /\ LET e == [d EXCEPT !.pendingOp = op] IN
              e \in Drivers /\ e.runID = d.runID /\ e.request = d.request
         /\ LET e == [d EXCEPT !.obs = o] IN
              e \in Drivers /\ e.runID = d.runID /\ e.request = d.request
         /\ LET e == [d EXCEPT !.staged = b, !.committedOp = op] IN
              e \in Drivers /\ e.runID = d.runID /\ e.request = d.request
  BY DEF Drivers

-----------------------------------------------------------------------------
\* The steps of a call.

LEMMA RunKeeps ==
  ASSUME IInv, NEW c \in Calls, Run(c)
  PROVE  IInv'
<1> DEFINE fresh == [NewDriver EXCEPT !.runID = c, !.request = c]
           begun == Started(NewLoop)
           full == [fresh EXCEPT !.ready = driver.ready,
                                 !.lastState = driver.lastState,
                                 !.pendingOp = driver.pendingOp,
                                 !.committedOp = driver.committedOp]
           bound(ok) == [fresh EXCEPT !.ready = ok \/ BeginEvents = <<>>]
<1>1. fresh \in Drivers /\ fresh.runID = c /\ fresh.request = c
  BY FreshDriver
<1>2. LoopIn(begun) /\ LoopIn(Aborted(begun)) /\ LoopIn(Parked(begun, FALSE))
  BY NewWithin, MovedWithin
<1>3. /\ c = driver.runID + 1
      /\ cancelled' = cancelled
      /\ \/ ReturnBare(c, full, Aborted(begun))
         \/ \E ok \in BOOLEAN :
              \/ ReturnBare(c, bound(ok), Aborted(begun))
              \/ Continue(c, bound(ok), begun, "observe")
              \/ Continue(c, bound(ok), Parked(begun, FALSE), "return")
  BY DEF Run
<1> HIDE DEF fresh, begun
<1>4. driver \in Drivers /\ driver.runID \in Nat
  BY DEF IInv, Drivers
<1>5. c \notin cancelled /\ call[c].late = 0 /\ c \in Nat
  BY <1>3, <1>4 DEF IInv, Numbered, LateOnce, Calls
<1>6. full \in Drivers /\ full.runID = c /\ full.request = c
  BY <1>1, <1>4 DEF Drivers
<1>7. \A ok \in BOOLEAN :
        bound(ok) \in Drivers /\ bound(ok).runID = c /\ bound(ok).request = c
  <2> TAKE ok \in BOOLEAN
  <2>1. PICK b \in BOOLEAN : b = (ok \/ BeginEvents = <<>>)
    OBVIOUS
  <2> DEFINE e == [fresh EXCEPT !.ready = b]
  <2>2. bound(ok) = e
    BY <2>1
  <2>3. e \in Drivers /\ e.runID = c /\ e.request = c
    BY <1>1, WrittenDriver DEF AnyOp, Outcomes
  <2> QED BY <2>2, <2>3
<1> HIDE DEF full, bound
<1>8. PICK pc \in {"done", "observe", "return"},
           l \in {begun, Aborted(begun), Parked(begun, FALSE)}, d \in Drivers :
        Goto(c, pc) /\ driver' = d /\ loop' = l /\ d.runID = c /\ d.request = c
  BY <1>3, <1>6, <1>7 DEF ReturnBare, Continue, Finish
<1>9. LoopIn(l) /\ pc \in PCs \ {"gate"}
  BY <1>2, <1>8 DEF PCs
<1> QED BY <1>3, <1>4, <1>5, <1>8, <1>9, MoveOn

\* What every step of a call starts from.
LEMMA Standing ==
  ASSUME IInv, NEW c \in Calls
  PROVE  /\ driver \in Drivers /\ LoopIn(loop)
         /\ driver.runID \in Nat /\ driver.request <= driver.runID
         /\ call[c] \in CallRecords
         /\ call[c].late \in Nat /\ call[c].late <= 1
         /\ call[c].pc \in Going \/ c \notin cancelled => call[c].late = 0
         /\ Stops(c) \in BOOLEAN
<1>1. driver \in Drivers /\ LoopIn(loop) /\ call[c] \in CallRecords
  BY DEF IInv
<1>2. driver.runID \in Nat /\ driver.request <= driver.runID
  BY <1>1 DEF IInv, Drivers, Numbered
<1>3. call[c].late \in Nat
  BY <1>1 DEF CallRecords
<1>4. /\ call[c].late <= 1
      /\ call[c].pc \in Going \/ c \notin cancelled => call[c].late = 0
  BY <1>3 DEF IInv, LateOnce
<1>5. Stops(c) \in BOOLEAN
  BY DEF Stops
<1> QED BY <1>1, <1>2, <1>3, <1>4, <1>5

LEMMA ReturnFromKeeps ==
  ASSUME IInv, NEW c \in Calls, ReturnFrom(c)
  PROVE  IInv'
  BY Standing, Returns DEF ReturnFrom, Elsewhere

LEMMA ObserveKeeps ==
  ASSUME IInv, NEW c \in Calls, Observe(c)
  PROVE  IInv'
<1> DEFINE l == Observed(loop)
           parked == IF Waiting(l) THEN l ELSE Parked(l, FALSE)
<1>1. LoopIn(loop) /\ LoopIn(l)
  BY Standing, MovedWithin
<1>2. LoopIn(parked) /\ LoopIn(Aborted(l))
  BY <1>1, MovedWithin
<1>3. /\ Active(c) /\ cancelled' = cancelled
      /\ \/ ReturnTerm(c, driver, parked, <<>>)
         \/ ReturnBare(c, driver, Aborted(l))
         \/ ReturnTerm(c, driver, loop, <<>>)
         \/ Continue(c, driver, l, "head")
  BY DEF Observe, Elsewhere, Active
<1> HIDE DEF l, parked
<1>4. "head" \in PCs \ {"gate"} /\ "head" \notin Going
  BY DEF PCs, Going
<1> QED BY <1>1, <1>2, <1>3, <1>4, Standing, Returns, Continues

LEMMA LoopHeadKeeps ==
  ASSUME IInv, NEW c \in Calls, LoopHead(c)
  PROVE  IInv'
<1> DEFINE d == [driver EXCEPT !.staged = FALSE]
           checkpoint == If(driver.ready, <<CheckpointCreated(AnyTask)>>)
<1>1. LoopIn(loop) /\ LoopIn(Aborted(loop)) /\ driver \in Drivers
  BY Standing, MovedWithin
<1>2. d \in Drivers /\ d.runID = driver.runID /\ d.request = driver.request
  BY <1>1, WrittenDriver DEF AnyOp, Outcomes
<1>3. /\ Active(c) /\ cancelled' = cancelled
      /\ \/ ReturnTerm(c, driver, loop, <<>>)
         \/ ReturnTerm(c, driver, loop, checkpoint)
         \/ ReturnBare(c, d, Aborted(loop))
         \/ c \notin cancelled /\ Continue(c, driver, loop, Route[loop.state])
  BY DEF LoopHead, Elsewhere, Active, Stops
<1> HIDE DEF d, checkpoint
<1>4. Route[loop.state] \in PCs \ {"gate"}
  BY <1>1 DEF LoopIn, Loops, LoopStates, Route, PCs
<1>5. CASE c \notin cancelled /\ Continue(c, driver, loop, Route[loop.state])
  BY <1>1, <1>3, <1>4, <1>5, Standing, Continues
<1> QED BY <1>1, <1>2, <1>3, <1>5, Returns

\* The steps that write one call without moving it through Goto.
Writes(c, r) == call' = [call EXCEPT ![c] = r]

LEMMA WroteCall ==
  ASSUME IInv, NEW c \in Calls, Active(c), NEW r \in CallRecords,
         Writes(c, r),
         driver' \in Drivers, driver'.runID = driver.runID,
         driver'.request = driver.request,
         loop' = loop, cancelled' = cancelled,
         r.pc = "gate" => r.decision \in LoopActions,
         c \notin cancelled => r.late = 0,
         r.late <= 1,
         r.late = 1 => r.pc \notin Going
  PROVE  IInv'
<1> USE DEF IInv
<1>1. call' \in [Calls -> CallRecords] /\ call'[c] = r
      /\ \A b \in Calls \ {c} : call'[b] = call[b]
  BY DEF Writes
<1>2. Numbered'
  <2>1. ASSUME NEW b \in Calls, Active(b)' PROVE Active(b)
    BY <2>1, <1>1 DEF Active
  <2> QED BY <2>1 DEF Numbered
<1>3. LateOnce' /\ Decisive'
  BY <1>1 DEF LateOnce, Decisive
<1>4. LoopIn(loop)'
  BY DEF LoopIn
<1> QED BY <1>1, <1>2, <1>3, <1>4

LEMMA DecideKeeps ==
  ASSUME IInv, NEW c \in Calls, Decide(c)
  PROVE  IInv'
<1>1. PICK b \in LoopActions, staged \in BOOLEAN :
        /\ call' = [call EXCEPT ![c].pc = "gate", ![c].decision = b]
        /\ driver' = [driver EXCEPT !.staged = staged]
  BY DEF Decide, Proposed, Refused, Routed, LoopActions
<1>2. call[c].pc = "decide" /\ loop' = loop /\ cancelled' = cancelled
  BY DEF Decide
<1> DEFINE r == [call[c] EXCEPT !.pc = "gate", !.decision = b]
<1>3. call[c] \in CallRecords /\ call[c].late = 0 /\ driver \in Drivers
  BY <1>2, Standing DEF Going
<1>4. r \in CallRecords /\ r.late = 0 /\ r.pc = "gate" /\ r.decision = b
  BY <1>3 DEF CallRecords, PCs
<1>5. Writes(c, r)
  BY <1>1 DEF Writes
<1>6. driver' \in Drivers /\ driver'.runID = driver.runID
      /\ driver'.request = driver.request
  BY <1>1, <1>3, WrittenDriver DEF AnyOp, Outcomes
<1>7. Active(c)
  BY <1>2 DEF Active
<1> HIDE DEF r
<1> QED BY <1>2, <1>4, <1>5, <1>6, <1>7, WroteCall

LEMMA GateKeeps ==
  ASSUME IInv, NEW c \in Calls, Gate(c)
  PROVE  IInv'
<1>1. PICK a \in (IF call[c].decision = "complete"
                  THEN {"complete", "ask_human", "unsubstantiate"}
                  ELSE {call[c].decision}),
           ok \in BOOLEAN, commits \in BOOLEAN, patch \in BOOLEAN :
        LET d == [driver EXCEPT !.staged = FALSE,
                                !.committedOp = IF commits /\ ok THEN LatchedOp(driver, loop) ELSE @]
        IN  \/ ReturnBare(c, d, loop)
            \/ Continue(c, d, Stepped(loop, a, Stops(c), patch), "head")
  BY DEF Gate, Drivers, Stops
<1> DEFINE op == IF commits /\ ok THEN LatchedOp(driver, loop) ELSE driver.committedOp
           d == [driver EXCEPT !.staged = FALSE, !.committedOp = op]
           l == Stepped(loop, a, Stops(c), patch)
<1>2. Active(c) /\ call[c].pc = "gate" /\ cancelled' = cancelled
  BY DEF Gate, Elsewhere, Active
<1>3. a \in LoopActions
  BY <1>1, <1>2 DEF IInv, Decisive, LoopActions
<1>4. LoopIn(l) /\ LoopIn(loop)
  BY <1>3, Standing, SteppedWithin
<1>5. op \in AnyOp
  BY Standing, OpsTyped DEF Drivers
<1>6. ReturnBare(c, d, loop) \/ Continue(c, d, l, "head")
  BY <1>1
<1> HIDE DEF op, l
<1>7. d \in Drivers /\ d.runID = driver.runID /\ d.request = driver.request
  BY <1>5, Standing, WrittenDriver DEF Outcomes
<1> HIDE DEF d
<1>8. "head" \in PCs \ {"gate"} /\ "head" \notin Going
  BY DEF PCs, Going
<1> QED BY <1>2, <1>4, <1>6, <1>7, <1>8, Returns, Continues

LEMMA PrepareKeeps ==
  ASSUME IInv, NEW c \in Calls, Prepare(c)
  PROVE  IInv'
<1>1. Active(c) /\ call[c].pc = "prepare" /\ cancelled' = cancelled
  BY DEF Prepare, Elsewhere, Active
<1>2. CASE ReturnBare(c, driver, Aborted(loop))
  BY <1>1, <1>2, Standing, MovedWithin, Returns
<1>3. ASSUME NEW ok \in BOOLEAN, UNCHANGED loop,
             driver' = [driver EXCEPT !.pendingOp =
                          IF driver.ready /\ ok THEN OperationOf(driver, loop) ELSE @],
             call' = [call EXCEPT ![c].pc = "execute", ![c].op = OperationOf(driver, loop)]
      PROVE  IInv'
  <2> DEFINE op == OperationOf(driver, loop)
             pending == IF driver.ready /\ ok THEN op ELSE driver.pendingOp
             r == [call[c] EXCEPT !.pc = "execute", !.op = op]
  <2>1. op \in AnyOp /\ pending \in AnyOp
    BY Standing, OpsTyped DEF Drivers
  <2>2. call[c] \in CallRecords /\ call[c].late = 0
    BY <1>1, Standing DEF Going
  <2>3. Writes(c, r) /\ driver' = [driver EXCEPT !.pendingOp = pending]
    BY <1>3 DEF Writes
  <2> HIDE DEF op, pending
  <2>4. r \in CallRecords /\ r.late = 0 /\ r.pc = "execute"
    BY <2>1, <2>2 DEF CallRecords, PCs
  <2>5. driver' \in Drivers /\ driver'.runID = driver.runID
        /\ driver'.request = driver.request
    BY <2>1, <2>3, Standing, WrittenDriver DEF Outcomes
  <2> HIDE DEF r
  <2> QED BY <1>1, <1>3, <2>3, <2>4, <2>5, WroteCall
<1> QED BY <1>2, <1>3 DEF Prepare

\* The one step that may execute late: it is on its way from a head that was
\* passed before the cancellation, and leaves for the head.
LEMMA ExecuteKeeps ==
  ASSUME IInv, NEW c \in Calls, Execute(c)
  PROVE  IInv'
<1>1. PICK outcome \in Outcomes \ {"none"} :
        call' = [call EXCEPT ![c].pc = "result", ![c].outcome = outcome,
                             ![c].late = @ + (IF c \in cancelled THEN 1 ELSE 0)]
  BY DEF Execute
<1>2. call[c].pc = "execute" /\ Active(c) /\ UNCHANGED <<loop, driver, cancelled>>
  BY DEF Execute, Active
<1>3. call[c] \in CallRecords /\ call[c].late = 0
  BY <1>2, Standing DEF Going
<1> DEFINE late == call[c].late + (IF c \in cancelled THEN 1 ELSE 0)
           r == [call[c] EXCEPT !.pc = "result", !.outcome = outcome, !.late = late]
<1>4. Writes(c, r)
  BY <1>1 DEF Writes
<1>5. late \in Nat /\ late <= 1 /\ (c \notin cancelled => late = 0)
  BY <1>3
<1> HIDE DEF late
<1>6. r \in CallRecords /\ r.late = late /\ r.pc = "result"
  BY <1>3, <1>5 DEF CallRecords, PCs
<1> HIDE DEF r
<1>7. r.pc \notin Going /\ r.pc # "gate"
  BY <1>6 DEF Going
<1>8. driver' \in Drivers /\ driver'.runID = driver.runID
      /\ driver'.request = driver.request
  BY <1>2, Standing
<1> QED BY <1>2, <1>4, <1>5, <1>6, <1>7, <1>8, WroteCall

LEMMA ResultKeeps ==
  ASSUME IInv, NEW c \in Calls, Result(c)
  PROVE  IInv'
<1>1. Active(c) /\ cancelled' = cancelled
  BY DEF Result, Elsewhere, Active
<1>2. CASE ReturnTerm(c, driver, loop, <<>>)
  BY <1>1, <1>2, Standing, Returns
<1>3. CASE AfterError(c) /\ UNCHANGED <<loop, driver>>
  <2>1. ReturnBare(c, driver, loop)
    BY <1>3 DEF AfterError, ReturnBare
  <2> QED BY <2>1, <1>1, Standing, Returns
<1>4. ASSUME NEW ok \in BOOLEAN, NEW commits \in BOOLEAN,
             LET outcome == call[c].outcome
                 d == [driver EXCEPT !.obs = outcome,
                          !.committedOp = IF commits /\ ok THEN LatchedOp(driver, loop) ELSE @]
             IN  \/ Continue(c, d, IF Stops(c) THEN loop ELSE Parked(loop, FALSE), "return")
                 \/ ReturnBare(c, d, loop)
                 \/ Continue(c, d, Stepped(loop, "abort", Stops(c), FALSE), "head")
                 \/ Continue(c, d, loop, "consume")
      PROVE  IInv'
  <2> DEFINE op == IF commits /\ ok THEN LatchedOp(driver, loop) ELSE driver.committedOp
             outcome == call[c].outcome
             d == [driver EXCEPT !.obs = outcome, !.committedOp = op]
             parked == IF Stops(c) THEN loop ELSE Parked(loop, FALSE)
             ended == Stepped(loop, "abort", Stops(c), FALSE)
  <2>1. LoopIn(loop) /\ LoopIn(parked)
    BY Standing, MovedWithin
  <2>2. LoopIn(ended)
    BY Standing, SteppedWithin DEF LoopActions
  <2>3. op \in AnyOp /\ outcome \in Outcomes
    BY Standing, OpsTyped DEF Drivers, CallRecords
  <2>4. \/ Continue(c, d, parked, "return")
        \/ ReturnBare(c, d, loop)
        \/ Continue(c, d, ended, "head")
        \/ Continue(c, d, loop, "consume")
    BY <1>4
  <2> HIDE DEF op, outcome, parked, ended
  <2>5. d \in Drivers /\ d.runID = driver.runID /\ d.request = driver.request
    BY <2>3, Standing DEF Drivers
  <2> HIDE DEF d
  <2>6. \A pc \in {"return", "head", "consume"} : pc \in PCs \ {"gate"} /\ pc \notin Going
    BY DEF PCs, Going
  <2> QED BY <1>1, <2>1, <2>2, <2>4, <2>5, <2>6, Returns, Continues
<1> DEFINE commits == driver.ready /\ ShowsCommit(call[c].outcome)
                      /\ driver.committedOp # LatchedOp(driver, loop)
<1>5. PICK b \in BOOLEAN : b = commits
  OBVIOUS
<1> QED BY <1>2, <1>3, <1>4, <1>5 DEF Result

LEMMA ConsumeKeeps ==
  ASSUME IInv, NEW c \in Calls, Consume(c)
  PROVE  IInv'
<1>1. Active(c) /\ cancelled' = cancelled
  BY DEF Consume, Elsewhere, Active
<1>2. PICK over \in BOOLEAN :
        \/ Continue(c, driver, Consumed(loop, over), "head")
        \/ ReturnBare(c, driver, Aborted(Consumed(loop, over)))
        \/ Continue(c, driver, Parked(Consumed(loop, over), FALSE), "return")
  BY DEF Consume
<1> DEFINE l == Consumed(loop, over)
<1>3. LoopIn(l) /\ LoopIn(Aborted(l)) /\ LoopIn(Parked(l, FALSE))
  BY Standing, ConsumedWithin, MovedWithin
<1> HIDE DEF l
<1>4. \A pc \in {"return", "head"} : pc \in PCs \ {"gate"} /\ pc \notin Going
  BY DEF PCs, Going
<1> QED BY <1>1, <1>2, <1>3, <1>4, Standing, Returns, Continues DEF l

LEMMA RepairKeeps ==
  ASSUME IInv, NEW c \in Calls, Repair(c)
  PROVE  IInv'
<1> DEFINE d == [driver EXCEPT !.gated = TRUE]
           l == Stepped(loop, "continue", Stops(c), FALSE)
<1>1. Active(c) /\ cancelled' = cancelled
  BY DEF Repair, Elsewhere, Active
<1>2. \/ ReturnBare(c, driver, loop)
      \/ ReturnTerm(c, d, Parked(loop, FALSE), <<>>)
      \/ Continue(c, driver, l, "head")
  BY DEF Repair
<1>3. LoopIn(loop) /\ LoopIn(Parked(loop, FALSE))
  BY Standing, MovedWithin
<1>4. LoopIn(l)
  BY Standing, SteppedWithin DEF LoopActions
<1>5. d \in Drivers /\ d.runID = driver.runID /\ d.request = driver.request
  BY Standing, WrittenDriver DEF AnyOp, Outcomes
<1> HIDE DEF d, l
<1>6. "head" \in PCs \ {"gate"} /\ "head" \notin Going
  BY DEF PCs, Going
<1> QED BY <1>1, <1>2, <1>3, <1>4, <1>5, <1>6, Standing, Returns, Continues

-----------------------------------------------------------------------------
\* The human, the operator and the end of the process.

\* A call that resumes takes a number nobody has used, so nobody has cancelled
\* it; or the run is aborted.
LEMMA AnsweredKeeps ==
  ASSUME IInv, NEW c \in Calls, Resumable(c), NEW d \in Drivers,
         d.runID = driver.runID, d.request = driver.request,
         NEW goesOn \in BOOLEAN, Answered(c, d, goesOn), cancelled' = cancelled
  PROVE  IInv'
<1> DEFINE e == [d EXCEPT !.gated = TRUE, !.runID = c]
           f == [d EXCEPT !.gated = TRUE]
<1>1. c = driver.runID + 1 /\ c \in 0 .. MaxCalls /\ c \in Nat
  BY DriverAssumption DEF Resumable, Calls
<1>2. driver.runID \in Nat /\ driver.request \in Nat /\ driver.request <= driver.runID
  BY Standing DEF Drivers
<1>3. call[c].late = 0
  BY <1>1, <1>2, Standing DEF IInv, Numbered
<1>4. e \in Drivers /\ e.runID = c /\ e.request = driver.request
  BY <1>1 DEF Drivers
<1>5. f \in Drivers /\ f.runID = driver.runID /\ f.request = driver.request
  BY DEF Drivers
<1>6. LoopIn(Released(loop)) /\ LoopIn(Aborted(Released(loop)))
  BY Standing, MovedWithin
<1>7. \/ Goto(c, "observe") /\ loop' = Released(loop) /\ driver' = e
      \/ Goto(c, "done") /\ loop' = Aborted(Released(loop)) /\ driver' = f
  BY DEF Answered, Continue
<1> HIDE DEF e, f
<1>8. \A pc \in {"observe", "done"} : pc \in PCs \ {"gate"}
  BY DEF PCs
<1>9. CASE Goto(c, "observe") /\ loop' = Released(loop) /\ driver' = e
  <2>1. e.runID >= driver.runID /\ e.request <= e.runID /\ c <= e.runID
    BY <1>1, <1>2, <1>4
  <2> QED BY <2>1, <1>3, <1>4, <1>6, <1>8, <1>9, MoveOn
<1>10. CASE Goto(c, "done") /\ loop' = Aborted(Released(loop)) /\ driver' = f
  <2>1. f.runID >= driver.runID /\ f.request <= f.runID
    BY <1>2, <1>5
  <2> QED BY <2>1, <1>3, <1>5, <1>6, <1>8, <1>10, MoveOn
<1> QED BY <1>7, <1>9, <1>10

LEMMA ApproveKeeps ==
  ASSUME IInv, NEW c \in Calls, Approve(c)
  PROVE  IInv'
<1>1. Resumable(c) /\ cancelled' = cancelled
  BY DEF Approve
<1>2. CASE Answered(c, driver, FALSE)
  BY <1>1, <1>2, Standing, AnsweredKeeps
<1>3. ASSUME NEW ok \in BOOLEAN, NEW commits \in BOOLEAN,
             Answered(c, [driver EXCEPT !.obs = "changed",
                            !.committedOp = IF commits /\ ok THEN LatchedOp(driver, loop)
                                            ELSE @], TRUE)
      PROVE  IInv'
  <2> DEFINE op == IF commits /\ ok THEN LatchedOp(driver, loop) ELSE driver.committedOp
             d == [driver EXCEPT !.obs = "changed", !.committedOp = op]
  <2>1. op \in AnyOp /\ "changed" \in Outcomes
    BY Standing, OpsTyped DEF Drivers, Outcomes
  <2>2. Answered(c, d, TRUE)
    BY <1>3
  <2> HIDE DEF op
  <2>3. d \in Drivers /\ d.runID = driver.runID /\ d.request = driver.request
    BY <2>1, Standing DEF Drivers
  <2> HIDE DEF d
  <2> QED BY <1>1, <2>2, <2>3, AnsweredKeeps
<1> DEFINE commits == driver.ready /\ driver.committedOp # LatchedOp(driver, loop)
<1>4. PICK b \in BOOLEAN : b = commits
  OBVIOUS
<1>5. ASSUME NEW o \in {"unchanged", "rejected", "failed"},
             Answered(c, [driver EXCEPT !.obs = o], TRUE)
      PROVE  IInv'
  <2> DEFINE d == [driver EXCEPT !.obs = o]
  <2>1. d \in Drivers /\ d.runID = driver.runID /\ d.request = driver.request
    BY Standing DEF Drivers, Outcomes
  <2> HIDE DEF d
  <2> QED BY <1>1, <1>5, <2>1, AnsweredKeeps DEF d
<1> QED BY <1>2, <1>3, <1>4, <1>5 DEF Approve

LEMMA RejectKeeps ==
  ASSUME IInv, NEW c \in Calls, Reject(c) \/ Clarify(c)
  PROVE  IInv'
<1>1. PICK o \in Outcomes, goesOn \in BOOLEAN :
        \/ Answered(c, [driver EXCEPT !.obs = o], goesOn)
        \/ Answered(c, driver, goesOn)
  BY DEF Reject, Clarify, Outcomes
<1>2. Resumable(c) /\ cancelled' = cancelled
  BY DEF Reject, Clarify, Elsewhere
<1> DEFINE d == [driver EXCEPT !.obs = o]
<1>3. d \in Drivers /\ d.runID = driver.runID /\ d.request = driver.request
  BY Standing, WrittenDriver DEF AnyOp
<1> HIDE DEF d
<1> QED BY <1>1, <1>2, <1>3, Standing, AnsweredKeeps DEF d

\* Who cancels moves no call; only calls that have a number are cancelled.
LEMMA CancelsKeep ==
  ASSUME IInv, (\E c \in Calls : Cancel(c)) \/ BeginAbort
  PROVE  IInv'
<1>1. /\ UNCHANGED <<loop, call>> /\ driver' \in Drivers
      /\ driver'.runID = driver.runID /\ driver'.request = driver.request
  <2>1. driver \in Drivers
    BY DEF IInv
  <2>2. CASE BeginAbort
    BY <2>1, <2>2, WrittenDriver DEF BeginAbort, AnyOp, Outcomes
  <2>3. CASE \E c \in Calls : Cancel(c)
    BY <2>1, <2>3 DEF Cancel
  <2> QED BY <2>2, <2>3
<1>2. driver.runID \in Nat /\ driver.request \in Nat /\ driver.request <= driver.runID
  BY DEF IInv, Drivers, Numbered
<1>3. cancelled \subseteq cancelled' /\ cancelled' \subseteq 0 .. driver.runID
  <2>1. CASE BeginAbort
    BY <2>1, <1>2 DEF BeginAbort, IInv, Numbered
  <2>2. CASE \E c \in Calls : Cancel(c)
    BY <2>2, <1>2 DEF Cancel, IInv, Numbered, Calls
  <2> QED BY <2>1, <2>2
<1>4. Numbered'
  BY <1>1, <1>2, <1>3 DEF IInv, Numbered, Active
<1>5. LateOnce' /\ Decisive'
  BY <1>1, <1>3 DEF IInv, LateOnce, Decisive
<1> QED BY <1>1, <1>4, <1>5 DEF IInv, LoopIn

LEMMA EndAbortKeeps ==
  ASSUME IInv, EndAbort
  PROVE  IInv'
<1>1. loop' = Aborted(loop) /\ UNCHANGED <<driver, call, cancelled>>
  BY DEF EndAbort
<1>2. LoopIn(Aborted(loop))
  BY MovedWithin DEF IInv
<1> QED BY <1>1, <1>2 DEF IInv, LoopIn, Numbered, LateOnce, Decisive, Active

\* Who asks how the run ended moves nothing but the journal.
LEMMA TerminationKeeps ==
  ASSUME IInv, Termination
  PROVE  IInv'
<1>1. /\ driver' \in Drivers /\ driver'.runID = driver.runID
      /\ driver'.request = driver.request
  BY TermedDriver DEF Termination, IInv
<1>2. UNCHANGED <<loop, call, cancelled>>
  BY DEF Termination
<1> QED BY <1>1, <1>2 DEF IInv, LoopIn, Numbered, LateOnce, Decisive, Active

\* A fresh process, at the start and after a death.
LEMMA FreshHolds ==
  ASSUME loop = NewLoop, driver = NewDriver, call = [c \in Calls |-> NotCalled],
         cancelled = {}
  PROVE  IInv
<1>1. LoopIn(loop)
  BY NewWithin
<1>2. driver \in Drivers /\ driver.runID = 0 /\ driver.request = 0
  BY DriverAssumption DEF NewDriver, Drivers, AnyOp, Outcomes
<1>3. NotCalled \in CallRecords
  BY DEF NotCalled, CallRecords, PCs, AnyOp, Outcomes
<1>4. \A c \in Calls : call[c].pc = "none" /\ call[c].late = 0
  BY DEF NotCalled
<1>5. Numbered /\ LateOnce /\ Decisive
  BY <1>2, <1>4 DEF Numbered, LateOnce, Decisive, Active
<1> QED BY <1>1, <1>2, <1>3, <1>5 DEF IInv

LEMMA FreshHoldsNext ==
  ASSUME loop' = NewLoop, driver' = NewDriver, call' = [c \in Calls |-> NotCalled],
         cancelled' = {}
  PROVE  IInv'
<1>1. LoopIn(loop')
  BY NewWithin
<1>2. driver' \in Drivers /\ driver'.runID = 0 /\ driver'.request = 0
  BY DriverAssumption DEF NewDriver, Drivers, AnyOp, Outcomes
<1>3. NotCalled \in CallRecords
  BY DEF NotCalled, CallRecords, PCs, AnyOp, Outcomes
<1>4. \A c \in Calls : call'[c].pc = "none" /\ call'[c].late = 0
  BY DEF NotCalled
<1>5. Numbered' /\ LateOnce' /\ Decisive'
  BY <1>2, <1>4 DEF Numbered, LateOnce, Decisive, Active
<1> QED BY <1>1, <1>2, <1>3, <1>5 DEF IInv

-----------------------------------------------------------------------------
\* The theorems.

LEMMA NextKeeps ==
  ASSUME IInv, [Next]_vars
  PROVE  IInv'
<1>1. CASE UNCHANGED vars
  BY <1>1 DEF vars, IInv, LoopIn, Numbered, LateOnce, Decisive, Active
<1>2. CASE Crash
  BY <1>2, FreshHoldsNext DEF Crash
<1>3. ASSUME NEW c \in Calls, Advance(c) PROVE IInv'
  BY <1>3, ReturnFromKeeps, ObserveKeeps, LoopHeadKeeps, DecideKeeps, GateKeeps,
     PrepareKeeps, ExecuteKeeps, ResultKeeps, ConsumeKeeps, RepairKeeps DEF Advance
<1>4. ASSUME NEW c \in Calls, Approve(c) \/ Reject(c) \/ Clarify(c) PROVE IInv'
  BY <1>4, ApproveKeeps, RejectKeeps
<1> QED BY <1>1, <1>2, <1>3, <1>4, RunKeeps, CancelsKeep, EndAbortKeeps,
       TerminationKeeps DEF Next

LEMMA Invariant == Spec => []IInv
<1>1. Init => IInv
  BY FreshHolds DEF Init
<1>2. IInv /\ [Next]_vars => IInv'
  BY NextKeeps
<1> QED BY <1>1, <1>2, PTL DEF Spec

\* Whoever steps the loop, superseded, resumed and aborted calls included, no
\* execution and no recovery is begun that a bound forbids.
THEOREM BoundsKept == Spec => []WithinBounds
<1>1. IInv => WithinBounds
  BY DEF IInv, LoopIn, WithinBounds
<1> QED BY <1>1, Invariant, PTL

\* A call whose context is cancelled executes at most once more.
THEOREM LateOnceKept == Spec => []AtMostOneLateExecution
<1>1. IInv => AtMostOneLateExecution
  BY DEF IInv, LateOnce, AtMostOneLateExecution
<1> QED BY <1>1, Invariant, PTL
-----------------------------------------------------------------------------
\* What the driver writes has its types.

\* The loop has begun where anybody is at work on it, under a request of the
\* process; an operation that is dispatched or executed has a name of its own.
Begun ==
  /\ loop.state # "idle" => driver.request \in Calls
  /\ \A c \in Calls : Active(c) => loop.state # "idle"
  /\ operator = "aborting" => loop.state # "idle"
  /\ \A c \in Calls : call[c].pc \in {"execute", "result"} => call[c].op \in Ops

KnownOps == Ops \union {NoOp}

TypeInv ==
  /\ task \in TaskStates
  /\ tree \in Digests
  /\ driver.pendingOp \in KnownOps /\ driver.committedOp \in KnownOps
  /\ \A c \in Calls : call[c].op \in KnownOps
  /\ cancelled \subseteq Calls
  /\ operator \in {"idle", "aborting"}
  /\ earned \subseteq Ops /\ proven \in BOOLEAN /\ overlap \in BOOLEAN
  /\ used \in [{"aborts", "crashes", "lost"} -> 0 .. MaxFaults]
  /\ Begun

\* The events the driver writes, and its sequences of them.
LEMMA EntriesTyped ==
  /\ \A op \in Ops, ok \in BOOLEAN : TerminalResult(AnyTask, op, ok) \in Entries
  /\ \A op \in Ops, ok \in BOOLEAN : VerificationResult(AnyTask, op, ok) \in Entries
  /\ \A op \in Ops, pre \in Digests : CursorDispatched(AnyTask, op, pre, NoDigest) \in Entries
  /\ \A op \in Ops, post \in Digests \union {NoDigest} :
       ExecutionCommitted(AnyTask, op, post) \in Entries
  /\ TaskCreated(AnyTask) \in Entries /\ TaskPaused(AnyTask) \in Entries
  /\ CheckpointCreated(AnyTask) \in Entries /\ FailureClassified(AnyTask) \in Entries
<1>1. \A type \in EventTypes : Event(AnyTask, type) \in Entries
  BY DEF Entries, Event
<1>2. ASSUME NEW op \in Ops, NEW ok \in BOOLEAN
      PROVE  /\ VerificationResult(AnyTask, op, ok) \in Entries
             /\ TerminalResult(AnyTask, op, ok) \in Entries
  <2> DEFINE e == Event(AnyTask, "VERIFICATION_RESULT")
             v == [e EXCEPT !.op = op, !.ok = ok]
             t == [v EXCEPT !.over = TRUE]
  <2>1. e \in Entries BY <1>1 DEF EventTypes
  <2> HIDE DEF e
  <2>2. v \in Entries BY <2>1 DEF Entries
  <2>3. v = VerificationResult(AnyTask, op, ok) BY DEF e, VerificationResult
  <2> HIDE DEF v
  <2>4. t \in Entries BY <2>2 DEF Entries
  <2>5. t = TerminalResult(AnyTask, op, ok) BY <2>3 DEF TerminalResult
  <2> QED BY <2>2, <2>3, <2>4, <2>5
<1>3. ASSUME NEW op \in Ops, NEW pre \in Digests
      PROVE  CursorDispatched(AnyTask, op, pre, NoDigest) \in Entries
  <2> DEFINE e == Event(AnyTask, "CURSOR_DISPATCHED")
  <2>1. e \in Entries BY <1>1 DEF EventTypes
  <2>2. CursorDispatched(AnyTask, op, pre, NoDigest)
          = [e EXCEPT !.op = op, !.pre = pre, !.post = NoDigest]
    BY DEF CursorDispatched
  <2> HIDE DEF e
  <2> QED BY <2>1, <2>2 DEF Entries
<1>4. ASSUME NEW op \in Ops, NEW post \in Digests \union {NoDigest}
      PROVE  ExecutionCommitted(AnyTask, op, post) \in Entries
  <2> DEFINE e == Event(AnyTask, "EXECUTION_COMMITTED")
  <2>1. e \in Entries BY <1>1 DEF EventTypes
  <2>2. ExecutionCommitted(AnyTask, op, post) = [e EXCEPT !.op = op, !.post = post]
    BY DEF ExecutionCommitted
  <2> HIDE DEF e
  <2> QED BY <2>1, <2>2 DEF Entries
<1> QED BY <1>1, <1>2, <1>3, <1>4
        DEF TaskCreated, TaskPaused, CheckpointCreated, FailureClassified, EventTypes

LEMMA IfTyped ==
  ASSUME NEW E, NEW q \in Seq(E), NEW cond \in BOOLEAN
  PROVE  If(cond, q) \in Seq(E)
  BY DEF If

LEMMA EndingTyped ==
  ASSUME NEW d, NEW l, OperationOf(d, l) \in Ops
  PROVE  Ending(d, l) \in Seq(Entries)
<1> DEFINE op == OperationOf(d, l)
<1>1. /\ TerminalResult(AnyTask, op, TRUE) \in Entries
      /\ TerminalResult(AnyTask, op, FALSE) \in Entries
      /\ TaskPaused(AnyTask) \in Entries /\ FailureClassified(AnyTask) \in Entries
  BY EntriesTyped
<1>2. Ending(d, l) = CASE l.state = "completed" -> <<TerminalResult(AnyTask, op, TRUE)>>
                       [] l.state = "awaiting_human" -> <<TaskPaused(AnyTask)>>
                       [] OTHER -> <<FailureClassified(AnyTask), TerminalResult(AnyTask, op, FALSE)>>
  BY DEF Ending
<1>3. \A x, y \in Entries : <<x>> \in Seq(Entries) /\ <<x, y>> \in Seq(Entries) OBVIOUS
<1> HIDE DEF op
<1>4. CASE l.state = "completed" BY <1>1, <1>2, <1>3, <1>4
<1>5. CASE l.state = "awaiting_human" BY <1>1, <1>2, <1>3, <1>5
<1>6. CASE l.state \notin {"completed", "awaiting_human"} BY <1>1, <1>2, <1>3, <1>6
<1> QED BY <1>4, <1>5, <1>6

\* A write to the journal keeps the task's type and the count of the faults.
LEMMA RecordsTyped ==
  ASSUME TypeInv, NEW ok \in BOOLEAN, NEW q \in Seq(Entries), Records(ok, q)
  PROVE  /\ task' \in TaskStates
         /\ used' \in [{"aborts", "crashes", "lost"} -> 0 .. MaxFaults]
<1>1. task' \in {task, FoldOf(task, q)} BY DEF Records, FoldOf
<1>2. FoldOf(task, q) \in TaskStates BY TaskFolded DEF TypeInv
<1>3. used' = used \/ Spend("lost") BY DEF Records
<1>4. Spend("lost") => used' \in [{"aborts", "crashes", "lost"} -> 0 .. MaxFaults]
  BY DriverAssumption DEF Spend, TypeInv
<1> QED BY <1>1, <1>2, <1>3, <1>4 DEF TypeInv

LEMMA SpendTyped ==
  ASSUME TypeInv, NEW what \in {"aborts", "crashes", "lost"}, Spend(what)
  PROVE  used' \in [{"aborts", "crashes", "lost"} -> 0 .. MaxFaults]
  BY DriverAssumption DEF Spend, TypeInv

\* A loop that has begun stays so.
LEMMA NotIdle ==
  ASSUME NEW l, LoopIn(l), l.state # "idle", NEW a \in LoopActions, NEW stops, NEW patch, NEW over
  PROVE  /\ Observed(l).state # "idle" /\ Parked(l, patch).state # "idle"
         /\ Released(l).state # "idle" /\ Aborted(l).state # "idle"
         /\ Consumed(l, over).state # "idle" /\ Stepped(l, a, stops, patch).state # "idle"
<1>1. l \in Loops BY DEF LoopIn
<1>2. Successor[a] # "idle" BY DEF Successor, LoopActions
<1>3. Decided(l, a, patch).state = Successor[a] BY <1>1 DEF Decided, Used, Loops
<1>4. \A n : Aborted(n).state = "aborted" \/ Aborted(n) = [n EXCEPT !.state = "aborted"]
  BY DEF Aborted
<1> QED BY <1>1, <1>2, <1>3 DEF Observed, Parked, Released, Aborted, Consumed, When, Loops, Stepped
\* Operations are numbered within the bounds, so they have names.
LEMMA OpsKnown ==
  ASSUME NEW d \in Drivers, d.request \in Calls, d.pendingOp \in KnownOps, NEW l, LoopIn(l)
  PROVE  OperationOf(d, l) \in Ops /\ LatchedOp(d, l) \in Ops
<1>1. l.attempts \in 0 .. MaxAttempts BY LoopAssumption DEF LoopIn, Loops
<1>2. OperationOf(d, l) \in (1 .. MaxCalls) \X (0 .. MaxAttempts) BY <1>1 DEF OperationOf, Calls
<1>3. OperationOf(d, l) \in Ops BY <1>2, DriverAssumption
<1> QED BY <1>3 DEF LatchedOp, KnownOps

LEMMA TermTyped ==
  ASSUME NEW d \in Drivers, d.request \in Calls, d.pendingOp \in KnownOps, NEW l, LoopIn(l)
  PROVE  TermEvents(d, l) \in Seq(Entries)
<1>1. Ending(d, l) \in Seq(Entries) BY OpsKnown, EndingTyped
<1>2. TermEvents(d, l) \in {Ending(d, l), <<>>} BY DEF TermEvents, If
<1>3. <<>> \in Seq(Entries) OBVIOUS
<1> QED BY <1>1, <1>2, <1>3

\* What a step of one call has to keep.
LEMMA TypesKept ==
  ASSUME TypeInv, NEW c \in Calls, Active(c),
         task' \in TaskStates, used' \in [{"aborts", "crashes", "lost"} -> 0 .. MaxFaults],
         tree' \in Digests,
         driver'.pendingOp \in KnownOps, driver'.committedOp \in KnownOps,
         driver'.request = driver.request,
         \A b \in Calls \ {c} : call'[b] = call[b],
         call'[c].op \in KnownOps,
         call'[c].pc \in {"execute", "result"} => call'[c].op \in Ops,
         earned' \subseteq Ops, proven' \in BOOLEAN,
         UNCHANGED <<cancelled, operator, overlap>>,
         loop'.state # "idle"
  PROVE  TypeInv'
<1>1. driver.request \in Calls BY DEF TypeInv, Begun
<1>2. \A b \in Calls : call'[b].op \in KnownOps BY DEF TypeInv
<1>3. Begun' BY <1>1 DEF TypeInv, Begun
<1> QED BY <1>2, <1>3 DEF TypeInv

\* A call that moves on, or returns.
LEMMA MovesTyped ==
  ASSUME IInv, TypeInv, NEW c \in Calls, Active(c), NEW pc \in PCs \ {"execute", "result"}, Goto(c, pc),
         NEW d \in Drivers, NEW l, LoopIn(l), l.state # "idle",
         d.pendingOp \in KnownOps, d.committedOp \in KnownOps, d.request = driver.request,
         loop' = l, driver' \in {d, Termed(d, l)},
         task' \in TaskStates, used' \in [{"aborts", "crashes", "lost"} -> 0 .. MaxFaults],
         tree' \in Digests, earned' \subseteq Ops, proven' \in BOOLEAN,
         UNCHANGED <<cancelled, operator, overlap>>
  PROVE  TypeInv'
<1>1. \A b \in Calls \ {c} : call'[b] = call[b] BY GotoOne DEF IInv
<1>2. call'[c].op = NoOp /\ call'[c].pc = pc
  <2>1. call' = [call EXCEPT ![c] = [NotCalled EXCEPT !.pc = pc, !.late = call[c].late]]
    BY DEF Goto
  <2>2. call \in [Calls -> CallRecords] BY DEF IInv
  <2> QED BY <2>1, <2>2 DEF NotCalled
<1>3. /\ driver'.pendingOp = d.pendingOp /\ driver'.committedOp = d.committedOp
      /\ driver'.request = d.request
  BY DEF Termed, Drivers
<1> QED BY <1>1, <1>2, <1>3, TypesKept DEF KnownOps

\* A step that returns through the journal.
LEMMA TermKeepsTypes ==
  ASSUME IInv, TypeInv, NEW c \in Calls, Active(c), NEW d \in Drivers, NEW l, LoopIn(l),
         l.state # "idle",
         d.pendingOp \in KnownOps, d.committedOp \in KnownOps, d.request = driver.request,
         NEW before \in Seq(Entries), ReturnTerm(c, d, l, before), Elsewhere
  PROVE  TypeInv'
<1>1. d.request \in Calls BY DEF TypeInv, Begun
<1>2. TermEvents(d, l) \in Seq(Entries) BY <1>1, TermTyped
<1>3. before \o TermEvents(d, l) \in Seq(Entries) BY <1>2
<1>4. PICK ok \in BOOLEAN : Records(ok, before \o TermEvents(d, l)) BY DEF ReturnTerm
<1>5. task' \in TaskStates /\ used' \in [{"aborts", "crashes", "lost"} -> 0 .. MaxFaults]
  BY <1>3, <1>4, RecordsTyped
<1>6. /\ Goto(c, "done") /\ loop' = l /\ driver' = Termed(d, l)
      /\ "done" \in PCs \ {"execute", "result"}
  BY DEF ReturnTerm, Finish, PCs
<1>7. tree' \in Digests /\ earned' \subseteq Ops /\ proven' \in BOOLEAN
      /\ UNCHANGED <<cancelled, operator, overlap>>
  BY DEF Elsewhere, TypeInv
<1> QED BY <1>5, <1>6, <1>7, MovesTyped

\* A step that goes on or returns with no word of how it ends.
LEMMA PlainKeepsTypes ==
  ASSUME IInv, TypeInv, NEW c \in Calls, Active(c), NEW d \in Drivers, NEW l, LoopIn(l),
         l.state # "idle",
         d.pendingOp \in KnownOps, d.committedOp \in KnownOps, d.request = driver.request,
         NEW pc \in PCs \ {"execute", "result"},
         ReturnBare(c, d, l) \/ Continue(c, d, l, pc),
         NoRecord \/ (\E ok \in BOOLEAN, q \in Seq(Entries) : Records(ok, q)), Elsewhere
  PROVE  TypeInv'
<1>1. task' \in TaskStates /\ used' \in [{"aborts", "crashes", "lost"} -> 0 .. MaxFaults]
  BY RecordsTyped DEF NoRecord, TypeInv
<1>2. PICK p \in PCs \ {"execute", "result"} : Goto(c, p) /\ loop' = l /\ driver' = d
  BY DEF ReturnBare, Continue, Finish, PCs
<1>3. tree' \in Digests /\ earned' \subseteq Ops /\ proven' \in BOOLEAN
      /\ UNCHANGED <<cancelled, operator, overlap>>
  BY DEF Elsewhere, TypeInv
<1> QED BY <1>1, <1>2, <1>3, MovesTyped

\* What every step of an active call starts from.
LEMMA TypedStanding ==
  ASSUME IInv, TypeInv, NEW c \in Calls, Active(c)
  PROVE  /\ driver \in Drivers /\ LoopIn(loop) /\ loop.state # "idle"
         /\ driver.request \in Calls
         /\ driver.pendingOp \in KnownOps /\ driver.committedOp \in KnownOps
         /\ OperationOf(driver, loop) \in Ops /\ LatchedOp(driver, loop) \in Ops
         /\ <<>> \in Seq(Entries)
<1>1. driver \in Drivers /\ LoopIn(loop) /\ loop.state # "idle" /\ driver.request \in Calls
      /\ driver.pendingOp \in KnownOps /\ driver.committedOp \in KnownOps
  BY DEF IInv, TypeInv, Begun
<1>2. <<>> \in Seq(Entries) OBVIOUS
<1> QED BY <1>1, <1>2, OpsKnown

-----------------------------------------------------------------------------
\* The steps of a call keep the types.

LEMMA ReturnFromTyped ==
  ASSUME IInv, TypeInv, NEW c \in Calls, ReturnFrom(c)
  PROVE  TypeInv'
<1>1. Active(c) BY DEF ReturnFrom, Active
<1> QED BY <1>1, TypedStanding, TermKeepsTypes DEF ReturnFrom

LEMMA ObserveTyped ==
  ASSUME IInv, TypeInv, NEW c \in Calls, Observe(c)
  PROVE  TypeInv'
<1> DEFINE l == Observed(loop)
           parked == IF Waiting(l) THEN l ELSE Parked(l, FALSE)
<1>1. Active(c) BY DEF Observe, Active
<1>2. LoopIn(l) /\ l.state # "idle" BY <1>1, TypedStanding, MovedWithin, NotIdle DEF LoopActions
<1>3. /\ LoopIn(parked) /\ LoopIn(Aborted(l))
      /\ parked.state # "idle" /\ Aborted(l).state # "idle"
  BY <1>2, MovedWithin, NotIdle DEF LoopActions
<1>4. /\ Elsewhere
      /\ \/ ReturnTerm(c, driver, parked, <<>>)
         \/ ReturnBare(c, driver, Aborted(l)) /\ NoRecord
         \/ ReturnTerm(c, driver, loop, <<>>)
         \/ Continue(c, driver, l, "head") /\ NoRecord
  BY DEF Observe
<1> HIDE DEF l, parked
<1>5. "head" \in PCs \ {"execute", "result"} BY DEF PCs
<1> QED BY <1>1, <1>2, <1>3, <1>4, <1>5, TypedStanding, TermKeepsTypes, PlainKeepsTypes

LEMMA LoopHeadTyped ==
  ASSUME IInv, TypeInv, NEW c \in Calls, LoopHead(c)
  PROVE  TypeInv'
<1> DEFINE d == [driver EXCEPT !.staged = FALSE]
           checkpoint == If(driver.ready, <<CheckpointCreated(AnyTask)>>)
<1>1. Active(c) BY DEF LoopHead, Active
<1>2. LoopIn(Aborted(loop)) /\ Aborted(loop).state # "idle"
  BY <1>1, TypedStanding, MovedWithin, NotIdle DEF LoopActions
<1>3. d \in Drivers /\ d.pendingOp = driver.pendingOp /\ d.committedOp = driver.committedOp
      /\ d.request = driver.request
  BY <1>1, TypedStanding DEF Drivers
<1>4. checkpoint \in Seq(Entries)
  <2>1. CheckpointCreated(AnyTask) \in Entries BY EntriesTyped
  <2>2. <<CheckpointCreated(AnyTask)>> \in Seq(Entries) BY <2>1
  <2>3. driver.ready \in BOOLEAN BY <1>1, TypedStanding DEF Drivers
  <2> QED BY <2>2, <2>3, IfTyped
<1>5. /\ Elsewhere
      /\ \/ ReturnTerm(c, driver, loop, <<>>)
         \/ ReturnTerm(c, driver, loop, checkpoint)
         \/ /\ \E ok \in BOOLEAN : Records(ok, checkpoint)
            /\ \/ ReturnBare(c, d, Aborted(loop))
               \/ Continue(c, driver, loop, Route[loop.state])
  BY DEF LoopHead
<1> HIDE DEF d, checkpoint
<1>6. Route[loop.state] \in PCs \ {"execute", "result"}
  BY <1>1, TypedStanding DEF LoopIn, Loops, LoopStates, Route, PCs
<1>7. "done" \in PCs \ {"execute", "result"} BY DEF PCs
<1>8. CASE ReturnTerm(c, driver, loop, <<>>) \/ ReturnTerm(c, driver, loop, checkpoint)
  BY <1>1, <1>4, <1>5, <1>8, TypedStanding, TermKeepsTypes
<1>9. CASE /\ \E ok \in BOOLEAN : Records(ok, checkpoint)
           /\ ReturnBare(c, d, Aborted(loop))
  BY <1>1, <1>2, <1>3, <1>4, <1>5, <1>7, <1>9, TypedStanding, PlainKeepsTypes
<1>10. CASE /\ \E ok \in BOOLEAN : Records(ok, checkpoint)
            /\ Continue(c, driver, loop, Route[loop.state])
  BY <1>1, <1>4, <1>5, <1>6, <1>10, TypedStanding, PlainKeepsTypes
<1> QED BY <1>5, <1>8, <1>9, <1>10

LEMMA DecideTyped ==
  ASSUME IInv, TypeInv, NEW c \in Calls, Decide(c)
  PROVE  TypeInv'
<1>1. Active(c) /\ call[c].pc = "decide" BY DEF Decide, Active
<1>2. PICK b \in LoopActions, staged \in BOOLEAN :
        /\ call' = [call EXCEPT ![c].pc = "gate", ![c].decision = b]
        /\ driver' = [driver EXCEPT !.staged = staged]
  BY DEF Decide, Proposed, Refused, Routed, LoopActions
<1>3. /\ earned' \in {earned, earned \union {LatchedOp(driver, loop)}} /\ proven' \in BOOLEAN
      /\ UNCHANGED <<task, tree, loop, cancelled, operator, overlap, used>>
  BY DEF Decide
<1>4. earned' \subseteq Ops BY <1>1, <1>3, TypedStanding DEF TypeInv
<1>5. /\ driver'.pendingOp = driver.pendingOp /\ driver'.committedOp = driver.committedOp
      /\ driver'.request = driver.request
  BY <1>1, <1>2, TypedStanding DEF Drivers
<1>6. /\ \A a \in Calls \ {c} : call'[a] = call[a]
      /\ call'[c].op = call[c].op /\ call'[c].pc = "gate"
  BY <1>2 DEF IInv, CallRecords
<1>7. call[c].op \in KnownOps /\ task \in TaskStates /\ tree \in Digests
      /\ used \in [{"aborts", "crashes", "lost"} -> 0 .. MaxFaults]
  BY DEF TypeInv
<1> QED BY <1>1, <1>3, <1>4, <1>5, <1>6, <1>7, TypedStanding, TypesKept

LEMMA GateTyped ==
  ASSUME IInv, TypeInv, NEW c \in Calls, Gate(c)
  PROVE  TypeInv'
<1>1. Active(c) /\ call[c].pc = "gate" /\ Elsewhere BY DEF Gate, Active
<1>2. PICK a \in (IF call[c].decision = "complete"
                  THEN {"complete", "ask_human", "unsubstantiate"}
                  ELSE {call[c].decision}),
           ok \in BOOLEAN, commits \in BOOLEAN, patch \in BOOLEAN :
        LET op == LatchedOp(driver, loop)
            d == [driver EXCEPT !.staged = FALSE,
                                !.committedOp = IF commits /\ ok THEN op ELSE @]
        IN  /\ Records(ok, If(commits, <<ExecutionCommitted(AnyTask, op, NoDigest)>>))
            /\ \/ ReturnBare(c, d, loop)
               \/ Continue(c, d, Stepped(loop, a, Stops(c), patch), "head")
  BY <1>1, TypedStanding DEF Gate, Drivers, Stops
<1> DEFINE op == LatchedOp(driver, loop)
           committed == IF commits /\ ok THEN op ELSE driver.committedOp
           d == [driver EXCEPT !.staged = FALSE, !.committedOp = committed]
           l == Stepped(loop, a, Stops(c), patch)
           q == If(commits, <<ExecutionCommitted(AnyTask, op, NoDigest)>>)
<1>3. a \in LoopActions BY <1>1, <1>2 DEF IInv, Decisive, LoopActions
<1>4. LoopIn(l) /\ l.state # "idle" BY <1>1, <1>3, Standing, TypedStanding, SteppedWithin, NotIdle
<1>5. op \in Ops /\ committed \in KnownOps /\ committed \in AnyOp
  BY <1>1, TypedStanding DEF KnownOps, AnyOp
<1>6. q \in Seq(Entries)
  <2>1. ExecutionCommitted(AnyTask, op, NoDigest) \in Entries BY <1>5, EntriesTyped
  <2>2. <<ExecutionCommitted(AnyTask, op, NoDigest)>> \in Seq(Entries) BY <2>1
  <2> QED BY <2>2, IfTyped
<1>7. Records(ok, q) /\ (ReturnBare(c, d, loop) \/ Continue(c, d, l, "head")) BY <1>2
<1> HIDE DEF op, committed, l, q
<1>8. d \in Drivers /\ d.pendingOp = driver.pendingOp /\ d.committedOp = committed
      /\ d.request = driver.request
  BY <1>1, <1>5, TypedStanding DEF Drivers
<1> HIDE DEF d
<1>9. "head" \in PCs \ {"execute", "result"} BY DEF PCs
<1> QED BY <1>1, <1>4, <1>5, <1>6, <1>7, <1>8, <1>9, TypedStanding, PlainKeepsTypes

LEMMA PrepareTyped ==
  ASSUME IInv, TypeInv, NEW c \in Calls, Prepare(c)
  PROVE  TypeInv'
<1>1. Active(c) /\ call[c].pc = "prepare" /\ Elsewhere BY DEF Prepare, Active
<1>2. CASE ReturnBare(c, driver, Aborted(loop)) /\ NoRecord
  <2>1. LoopIn(Aborted(loop)) /\ Aborted(loop).state # "idle"
    BY <1>1, TypedStanding, MovedWithin, NotIdle DEF LoopActions
  <2>2. "head" \in PCs \ {"execute", "result"} BY DEF PCs
  <2> QED BY <1>1, <1>2, <2>1, <2>2, TypedStanding, PlainKeepsTypes
<1>3. ASSUME NEW ok \in BOOLEAN, UNCHANGED loop,
             Records(ok, If(driver.ready, <<CursorDispatched(AnyTask, OperationOf(driver, loop),
                                                             tree, NoDigest)>>)),
             driver' = [driver EXCEPT !.pendingOp =
                          IF driver.ready /\ ok THEN OperationOf(driver, loop) ELSE @],
             call' = [call EXCEPT ![c].pc = "execute", ![c].op = OperationOf(driver, loop)]
      PROVE  TypeInv'
  <2> DEFINE op == OperationOf(driver, loop)
             pending == IF driver.ready /\ ok THEN op ELSE driver.pendingOp
             q == If(driver.ready, <<CursorDispatched(AnyTask, op, tree, NoDigest)>>)
  <2>1. op \in Ops /\ pending \in KnownOps BY <1>1, TypedStanding DEF KnownOps
  <2>2. q \in Seq(Entries)
    <3>1. CursorDispatched(AnyTask, op, tree, NoDigest) \in Entries
      BY <2>1, EntriesTyped DEF TypeInv
    <3>2. <<CursorDispatched(AnyTask, op, tree, NoDigest)>> \in Seq(Entries) BY <3>1
    <3>3. driver.ready \in BOOLEAN BY <1>1, TypedStanding DEF Drivers
    <3> QED BY <3>2, <3>3, IfTyped
  <2>3. /\ Records(ok, q) /\ driver' = [driver EXCEPT !.pendingOp = pending]
        /\ call' = [call EXCEPT ![c].pc = "execute", ![c].op = op]
    BY <1>3
  <2> HIDE DEF op, pending, q
  <2>4. /\ driver'.pendingOp = pending /\ driver'.committedOp = driver.committedOp
        /\ driver'.request = driver.request
    BY <1>1, <2>3, TypedStanding DEF Drivers
  <2>5. /\ \A b \in Calls \ {c} : call'[b] = call[b]
        /\ call'[c].op = op
    BY <2>3 DEF IInv, CallRecords
  <2>6. task' \in TaskStates /\ used' \in [{"aborts", "crashes", "lost"} -> 0 .. MaxFaults]
    BY <2>2, <2>3, RecordsTyped
  <2>7. tree' \in Digests /\ earned' \subseteq Ops /\ proven' \in BOOLEAN
        /\ UNCHANGED <<cancelled, operator, overlap>>
    BY <1>1 DEF Elsewhere, TypeInv
  <2> QED BY <1>1, <1>3, <2>1, <2>4, <2>5, <2>6, <2>7, TypedStanding, TypesKept DEF KnownOps
<1> QED BY <1>2, <1>3 DEF Prepare

LEMMA ExecuteTyped ==
  ASSUME IInv, TypeInv, NEW c \in Calls, Execute(c)
  PROVE  TypeInv'
<1>1. Active(c) /\ call[c].pc = "execute" BY DEF Execute, Active
<1>2. PICK outcome \in Outcomes \ {"none"} :
        call' = [call EXCEPT ![c].pc = "result", ![c].outcome = outcome,
                             ![c].late = @ + (IF c \in cancelled THEN 1 ELSE 0)]
  BY DEF Execute
<1>3. call[c].op \in Ops BY <1>1 DEF TypeInv, Begun
<1>4. /\ \A b \in Calls \ {c} : call'[b] = call[b]
      /\ call'[c].op = call[c].op
  BY <1>2 DEF IInv, CallRecords
<1>5. /\ tree' \in Digests /\ earned' \subseteq Ops /\ proven' \in BOOLEAN
      /\ UNCHANGED <<task, loop, driver, cancelled, operator, overlap, used>>
  BY <1>3 DEF Execute, TypeInv
<1>6. task \in TaskStates /\ used \in [{"aborts", "crashes", "lost"} -> 0 .. MaxFaults]
  BY DEF TypeInv
<1> QED BY <1>1, <1>3, <1>4, <1>5, <1>6, TypedStanding, TypesKept DEF KnownOps

LEMMA ResultTyped ==
  ASSUME IInv, TypeInv, NEW c \in Calls, Result(c)
  PROVE  TypeInv'
<1>1. Active(c) /\ Elsewhere BY DEF Result, Active
<1>2. CASE ReturnTerm(c, driver, loop, <<>>) BY <1>1, <1>2, TypedStanding, TermKeepsTypes
<1>3. CASE AfterError(c) /\ UNCHANGED <<loop, driver>> /\ NoRecord
  <2>1. ReturnBare(c, driver, loop) BY <1>3 DEF AfterError, ReturnBare
  <2>2. "head" \in PCs \ {"execute", "result"} BY DEF PCs
  <2> QED BY <1>1, <1>3, <2>1, <2>2, TypedStanding, PlainKeepsTypes
<1>4. ASSUME NEW ok \in BOOLEAN, NEW commits \in BOOLEAN,
             LET outcome == call[c].outcome
                 op == LatchedOp(driver, loop)
                 d == [driver EXCEPT !.obs = outcome,
                                     !.committedOp = IF commits /\ ok THEN op ELSE @]
             IN  /\ Records(ok, If(commits, <<ExecutionCommitted(AnyTask, op, tree)>>))
                 /\ \/ Continue(c, d, IF Stops(c) THEN loop ELSE Parked(loop, FALSE), "return")
                    \/ ReturnBare(c, d, loop)
                    \/ Continue(c, d, Stepped(loop, "abort", Stops(c), FALSE), "head")
                    \/ Continue(c, d, loop, "consume")
      PROVE  TypeInv'
  <2> DEFINE op == LatchedOp(driver, loop)
             committed == IF commits /\ ok THEN op ELSE driver.committedOp
             outcome == call[c].outcome
             d == [driver EXCEPT !.obs = outcome, !.committedOp = committed]
             parked == IF Stops(c) THEN loop ELSE Parked(loop, FALSE)
             ended == Stepped(loop, "abort", Stops(c), FALSE)
             q == If(commits, <<ExecutionCommitted(AnyTask, op, tree)>>)
  <2>1. LoopIn(loop) /\ LoopIn(parked) /\ loop.state # "idle" /\ parked.state # "idle"
    BY <1>1, TypedStanding, MovedWithin, NotIdle DEF LoopActions
  <2>2. LoopIn(ended) /\ ended.state # "idle"
    BY <1>1, Standing, TypedStanding, SteppedWithin, NotIdle DEF LoopActions
  <2>3. op \in Ops /\ committed \in KnownOps /\ committed \in AnyOp /\ outcome \in Outcomes
    BY <1>1, Standing, TypedStanding DEF KnownOps, AnyOp, CallRecords
  <2>4. q \in Seq(Entries)
    <3>1. ExecutionCommitted(AnyTask, op, tree) \in Entries BY <2>3, EntriesTyped DEF TypeInv
    <3>2. <<ExecutionCommitted(AnyTask, op, tree)>> \in Seq(Entries) BY <3>1
    <3> QED BY <3>2, IfTyped
  <2>5. /\ Records(ok, q)
        /\ \/ Continue(c, d, parked, "return")
           \/ ReturnBare(c, d, loop)
           \/ Continue(c, d, ended, "head")
           \/ Continue(c, d, loop, "consume")
    BY <1>4
  <2> HIDE DEF op, outcome, committed, parked, ended, q
  <2>6. d \in Drivers /\ d.pendingOp = driver.pendingOp /\ d.committedOp = committed
        /\ d.request = driver.request
    BY <1>1, <2>3, TypedStanding DEF Drivers
  <2> HIDE DEF d
  <2>7. \A pc \in {"return", "head", "consume"} : pc \in PCs \ {"execute", "result"} BY DEF PCs
  <2> QED BY <1>1, <2>1, <2>2, <2>3, <2>4, <2>5, <2>6, <2>7, TypedStanding, PlainKeepsTypes
<1> DEFINE commits == driver.ready /\ ShowsCommit(call[c].outcome)
                      /\ driver.committedOp # LatchedOp(driver, loop)
<1>5. PICK b \in BOOLEAN : b = commits OBVIOUS
<1> QED BY <1>2, <1>3, <1>4, <1>5 DEF Result

LEMMA ConsumeTyped ==
  ASSUME IInv, TypeInv, NEW c \in Calls, Consume(c)
  PROVE  TypeInv'
<1>1. Active(c) /\ Elsewhere BY DEF Consume, Active
<1>2. PICK over \in BOOLEAN, passed \in BOOLEAN, ok \in BOOLEAN :
        LET l == Consumed(loop, over)
        IN  /\ Records(ok, If(driver.ready, <<VerificationResult(AnyTask, OperationOf(driver, l),
                                                                 passed)>>))
            /\ \/ Continue(c, driver, l, "head")
               \/ ReturnBare(c, driver, Aborted(l))
               \/ Continue(c, driver, Parked(l, FALSE), "return")
  BY DEF Consume
<1> DEFINE l == Consumed(loop, over)
           q == If(driver.ready, <<VerificationResult(AnyTask, OperationOf(driver, l), passed)>>)
<1>3. LoopIn(l) /\ l.state # "idle"
  BY <1>1, TypedStanding, ConsumedWithin, NotIdle DEF LoopActions
<1>4. /\ LoopIn(Aborted(l)) /\ LoopIn(Parked(l, FALSE))
      /\ Aborted(l).state # "idle" /\ Parked(l, FALSE).state # "idle"
  BY <1>3, MovedWithin, NotIdle DEF LoopActions
<1>5. OperationOf(driver, l) \in Ops BY <1>1, <1>3, TypedStanding, OpsKnown
<1>6. q \in Seq(Entries)
  <2>1. VerificationResult(AnyTask, OperationOf(driver, l), passed) \in Entries
    BY <1>5, EntriesTyped
  <2>2. <<VerificationResult(AnyTask, OperationOf(driver, l), passed)>> \in Seq(Entries) BY <2>1
  <2>3. driver.ready \in BOOLEAN BY <1>1, TypedStanding DEF Drivers
  <2> QED BY <2>2, <2>3, IfTyped
<1>7. /\ Records(ok, q)
      /\ \/ Continue(c, driver, l, "head")
         \/ ReturnBare(c, driver, Aborted(l))
         \/ Continue(c, driver, Parked(l, FALSE), "return")
  BY <1>2
<1> HIDE DEF l, q
<1>8. \A pc \in {"return", "head"} : pc \in PCs \ {"execute", "result"} BY DEF PCs
<1> QED BY <1>1, <1>3, <1>4, <1>6, <1>7, <1>8, TypedStanding, PlainKeepsTypes

LEMMA RepairTyped ==
  ASSUME IInv, TypeInv, NEW c \in Calls, Repair(c)
  PROVE  TypeInv'
<1> DEFINE d == [driver EXCEPT !.gated = TRUE]
           parked == Parked(loop, FALSE)
           l == Stepped(loop, "continue", Stops(c), FALSE)
<1>1. Active(c) /\ Elsewhere BY DEF Repair, Active
<1>2. \/ ReturnBare(c, driver, loop) /\ NoRecord
      \/ ReturnTerm(c, d, parked, <<>>)
      \/ Continue(c, driver, l, "head") /\ NoRecord
  BY DEF Repair
<1>3. LoopIn(parked) /\ parked.state # "idle"
  BY <1>1, TypedStanding, MovedWithin, NotIdle DEF LoopActions
<1>4. LoopIn(l) /\ l.state # "idle"
  BY <1>1, Standing, TypedStanding, SteppedWithin, NotIdle DEF LoopActions
<1>5. d \in Drivers /\ d.pendingOp = driver.pendingOp /\ d.committedOp = driver.committedOp
      /\ d.request = driver.request
  BY <1>1, TypedStanding DEF Drivers
<1> HIDE DEF d, l, parked
<1>6. "head" \in PCs \ {"execute", "result"} BY DEF PCs
<1> QED BY <1>1, <1>2, <1>3, <1>4, <1>5, <1>6, TypedStanding, TermKeepsTypes, PlainKeepsTypes
-----------------------------------------------------------------------------
\* A new Run, the human, the operator and the end of the process.

\* A step that gives the loop back begun, and at most one call a new place.
LEMMA StartTyped ==
  ASSUME IInv, TypeInv, NEW c \in Calls, NEW pc \in PCs \ {"execute", "result"}, Goto(c, pc),
         driver'.pendingOp \in KnownOps, driver'.committedOp \in KnownOps,
         driver'.request \in Calls,
         task' \in TaskStates, used' \in [{"aborts", "crashes", "lost"} -> 0 .. MaxFaults],
         tree' \in Digests, earned' \subseteq Ops, proven' \in BOOLEAN, overlap' \in BOOLEAN,
         UNCHANGED <<cancelled, operator>>, loop'.state # "idle"
  PROVE  TypeInv'
<1>1. \A b \in Calls \ {c} : call'[b] = call[b] BY GotoOne DEF IInv
<1>2. call'[c].op = NoOp /\ call'[c].pc = pc
  <2>1. call' = [call EXCEPT ![c] = [NotCalled EXCEPT !.pc = pc, !.late = call[c].late]]
    BY DEF Goto
  <2>2. call \in [Calls -> CallRecords] BY DEF IInv
  <2> QED BY <2>1, <2>2 DEF NotCalled
<1>3. \A b \in Calls : call'[b].op \in KnownOps BY <1>1, <1>2 DEF TypeInv, KnownOps
<1>4. Begun' BY <1>1, <1>2 DEF TypeInv, Begun
<1> QED BY <1>3, <1>4 DEF TypeInv

LEMMA RunTyped ==
  ASSUME IInv, TypeInv, NEW c \in Calls, Run(c)
  PROVE  TypeInv'
<1> DEFINE fresh == [NewDriver EXCEPT !.runID = c, !.request = c]
           begun == Started(NewLoop)
           full == [fresh EXCEPT !.ready = driver.ready,
                                 !.lastState = driver.lastState,
                                 !.pendingOp = driver.pendingOp,
                                 !.committedOp = driver.committedOp]
           bound(ok) == [fresh EXCEPT !.ready = ok \/ BeginEvents = <<>>]
           Clean(d) == /\ d.pendingOp \in KnownOps /\ d.committedOp \in KnownOps
                       /\ d.request = c
<1>1. /\ UNCHANGED <<tree, cancelled, operator, earned, proven>>
      /\ overlap' = (overlap \/ \E b \in Calls : Active(b))
      /\ \/ ReturnBare(c, full, Aborted(begun)) /\ NoRecord
         \/ \E ok \in BOOLEAN :
              /\ Records(ok, BeginEvents)
              /\ \/ ReturnBare(c, bound(ok), Aborted(begun))
                 \/ Continue(c, bound(ok), begun, "observe")
                 \/ Continue(c, bound(ok), Parked(begun, FALSE), "return")
  BY DEF Run
<1>2. begun = [NewLoop EXCEPT !.state = "observing"] BY DEF Started, When, NewLoop
<1>3. begun.state # "idle" /\ Aborted(begun).state # "idle" /\ Parked(begun, FALSE).state # "idle"
  BY <1>2 DEF NewLoop, Aborted, Parked, Over
<1>4. fresh \in Drivers /\ fresh.request = c BY FreshDriver
<1>5. fresh.pendingOp = NoOp /\ fresh.committedOp = NoOp BY DEF NewDriver
<1> HIDE DEF fresh, begun
<1>6. Clean(full)
  <2>1. driver.pendingOp \in KnownOps /\ driver.committedOp \in KnownOps BY DEF TypeInv
  <2> QED BY <1>4, <2>1 DEF Drivers
<1>7. \A ok \in BOOLEAN : Clean(bound(ok)) BY <1>4, <1>5 DEF Drivers, KnownOps
<1> HIDE DEF full, bound
<1>8. \E pc \in {"done", "observe", "return"} : Goto(c, pc) BY <1>1 DEF ReturnBare, Continue, Finish
<1>9. Clean(driver') BY <1>1, <1>6, <1>7 DEF ReturnBare, Continue
<1>10. loop'.state # "idle" BY <1>1, <1>3 DEF ReturnBare, Continue
<1>11. BeginEvents \in Seq(Entries)
  <2>1. <<TaskCreated(AnyTask)>> \in Seq(Entries) /\ <<>> \in Seq(Entries)
    <3>1. TaskCreated(AnyTask) \in Entries BY EntriesTyped
    <3> QED BY <3>1
  <2> QED BY <2>1 DEF BeginEvents, If
<1>12. task' \in TaskStates /\ used' \in [{"aborts", "crashes", "lost"} -> 0 .. MaxFaults]
  BY <1>1, <1>11, RecordsTyped DEF NoRecord, TypeInv
<1>13. overlap' \in BOOLEAN BY <1>1 DEF TypeInv
<1>14. tree' \in Digests /\ earned' \subseteq Ops /\ proven' \in BOOLEAN
       /\ UNCHANGED <<cancelled, operator>>
  BY <1>1 DEF TypeInv
<1>15. {"done", "observe", "return"} \subseteq PCs \ {"execute", "result"} BY DEF PCs
<1> QED BY <1>8, <1>9, <1>10, <1>12, <1>13, <1>14, <1>15, StartTyped

LEMMA AnsweredTyped ==
  ASSUME IInv, TypeInv, NEW c \in Calls, Resumable(c), NEW d \in Drivers,
         d.request = driver.request, d.pendingOp \in KnownOps, d.committedOp \in KnownOps,
         NEW goesOn \in BOOLEAN, Answered(c, d, goesOn),
         task' \in TaskStates, used' \in [{"aborts", "crashes", "lost"} -> 0 .. MaxFaults],
         tree' \in Digests, earned' \subseteq Ops,
         UNCHANGED <<cancelled, operator, proven, overlap>>
  PROVE  TypeInv'
<1>1. LoopIn(loop) /\ loop.state # "idle" /\ driver.request \in Calls
  BY DEF Resumable, Waiting, IInv, TypeInv, Begun
<1>2. LoopIn(Released(loop)) /\ Released(loop).state # "idle"
      /\ Aborted(Released(loop)).state # "idle"
  BY <1>1, MovedWithin, NotIdle DEF LoopActions
<1>3. /\ driver'.pendingOp = d.pendingOp /\ driver'.committedOp = d.committedOp
      /\ driver'.request = d.request
  BY DEF Answered, Continue, Drivers
<1>4. loop'.state # "idle" BY <1>2 DEF Answered, Continue
<1>5. Goto(c, "observe") \/ Goto(c, "done") BY DEF Answered, Continue
<1>6. "observe" \in PCs \ {"execute", "result"} /\ "done" \in PCs \ {"execute", "result"}
  BY DEF PCs
<1>7. overlap' \in BOOLEAN /\ proven' \in BOOLEAN BY DEF TypeInv
<1> QED BY <1>1, <1>3, <1>4, <1>5, <1>6, <1>7, StartTyped

LEMMA ApproveTyped ==
  ASSUME IInv, TypeInv, NEW c \in Calls, Approve(c)
  PROVE  TypeInv'
<1> DEFINE op == LatchedOp(driver, loop)
           commits == driver.ready /\ driver.committedOp # op
           q == If(commits, <<ExecutionCommitted(AnyTask, op, tree')>>)
<1>1. /\ Resumable(c) /\ UNCHANGED <<cancelled, operator, proven, overlap>>
      /\ tree' \in Digests \/ UNCHANGED tree
      /\ earned' \in {earned, earned \union {op}}
      /\ \/ /\ tree' \in Digests
            /\ \E ok \in BOOLEAN :
                 /\ Records(ok, q)
                 /\ Answered(c, [driver EXCEPT !.obs = "changed",
                                               !.committedOp = IF commits /\ ok THEN op ELSE @], TRUE)
         \/ Answered(c, driver, FALSE) /\ NoRecord
         \/ /\ \E o \in {"unchanged", "rejected", "failed"} :
                 Answered(c, [driver EXCEPT !.obs = o], TRUE)
            /\ NoRecord
  BY DEF Approve
<1>2. /\ driver \in Drivers /\ driver.request \in Calls
      /\ driver.pendingOp \in KnownOps /\ driver.committedOp \in KnownOps
      /\ op \in Ops
  <2>1. LoopIn(loop) /\ driver \in Drivers /\ driver.request \in Calls
        /\ driver.pendingOp \in KnownOps /\ driver.committedOp \in KnownOps
    BY <1>1 DEF Resumable, Waiting, IInv, TypeInv, Begun
  <2> QED BY <2>1, OpsKnown
<1>3. tree' \in Digests /\ earned' \subseteq Ops BY <1>1, <1>2 DEF TypeInv
<1>4. CASE Answered(c, driver, FALSE) /\ NoRecord
  <2>1. task' \in TaskStates /\ used' \in [{"aborts", "crashes", "lost"} -> 0 .. MaxFaults]
    BY <1>4 DEF NoRecord, TypeInv
  <2> QED BY <1>1, <1>2, <1>3, <1>4, <2>1, AnsweredTyped
<1>5. ASSUME NEW ok \in BOOLEAN, Records(ok, q),
             Answered(c, [driver EXCEPT !.obs = "changed",
                                        !.committedOp = IF commits /\ ok THEN op ELSE @], TRUE)
      PROVE  TypeInv'
  <2> DEFINE committed == IF commits /\ ok THEN op ELSE driver.committedOp
             d == [driver EXCEPT !.obs = "changed", !.committedOp = committed]
  <2>1. committed \in KnownOps /\ committed \in AnyOp /\ "changed" \in Outcomes
    BY <1>2 DEF KnownOps, AnyOp, Outcomes
  <2>2. q \in Seq(Entries)
    <3>1. ExecutionCommitted(AnyTask, op, tree') \in Entries BY <1>2, <1>3, EntriesTyped
    <3>2. <<ExecutionCommitted(AnyTask, op, tree')>> \in Seq(Entries) /\ <<>> \in Seq(Entries)
      BY <3>1
    <3> QED BY <3>2 DEF If
  <2>3. task' \in TaskStates /\ used' \in [{"aborts", "crashes", "lost"} -> 0 .. MaxFaults]
    BY <1>5, <2>2, RecordsTyped
  <2>4. Answered(c, d, TRUE) BY <1>5
  <2> HIDE DEF committed
  <2>5. d \in Drivers /\ d.request = driver.request /\ d.pendingOp = driver.pendingOp
        /\ d.committedOp = committed
    BY <1>2, <2>1 DEF Drivers
  <2> HIDE DEF d, op
  <2> QED BY <1>1, <1>2, <1>3, <2>1, <2>3, <2>4, <2>5, AnsweredTyped
<1>6. ASSUME NEW o \in {"unchanged", "rejected", "failed"},
             Answered(c, [driver EXCEPT !.obs = o], TRUE), NoRecord
      PROVE  TypeInv'
  <2> DEFINE d == [driver EXCEPT !.obs = o]
  <2>1. task' \in TaskStates /\ used' \in [{"aborts", "crashes", "lost"} -> 0 .. MaxFaults]
    BY <1>6 DEF NoRecord, TypeInv
  <2>2. d \in Drivers /\ d.request = driver.request /\ d.pendingOp = driver.pendingOp
        /\ d.committedOp = driver.committedOp
    BY <1>2 DEF Drivers, Outcomes
  <2>3. Answered(c, d, TRUE) BY <1>6
  <2> HIDE DEF d, op
  <2> QED BY <1>1, <1>2, <1>3, <2>1, <2>2, <2>3, AnsweredTyped
<1> QED BY <1>1, <1>4, <1>5, <1>6

LEMMA RejectTyped ==
  ASSUME IInv, TypeInv, NEW c \in Calls, Reject(c) \/ Clarify(c)
  PROVE  TypeInv'
<1>1. PICK o \in Outcomes, goesOn \in BOOLEAN :
        \/ Answered(c, [driver EXCEPT !.obs = o], goesOn)
        \/ Answered(c, driver, goesOn)
  BY DEF Reject, Clarify, Outcomes
<1>2. Resumable(c) /\ Elsewhere /\ NoRecord BY DEF Reject, Clarify
<1>3. /\ driver \in Drivers /\ driver.pendingOp \in KnownOps /\ driver.committedOp \in KnownOps
  BY DEF IInv, TypeInv
<1> DEFINE d == [driver EXCEPT !.obs = o]
<1>4. d \in Drivers /\ d.request = driver.request /\ d.pendingOp = driver.pendingOp
      /\ d.committedOp = driver.committedOp
  BY <1>3 DEF Drivers
<1> HIDE DEF d
<1>5. /\ task' \in TaskStates /\ used' \in [{"aborts", "crashes", "lost"} -> 0 .. MaxFaults]
      /\ tree' \in Digests /\ earned' \subseteq Ops
      /\ UNCHANGED <<cancelled, operator, proven, overlap>>
  BY <1>2 DEF Elsewhere, NoRecord, TypeInv
<1> QED BY <1>1, <1>2, <1>3, <1>4, <1>5, AnsweredTyped DEF d

LEMMA CancelsTyped ==
  ASSUME IInv, TypeInv, (\E c \in Calls : Cancel(c)) \/ BeginAbort \/ EndAbort
  PROVE  TypeInv'
<1>1. /\ UNCHANGED <<task, tree, call, earned, proven, overlap>>
      /\ operator' \in {"idle", "aborting"}
  BY DEF Cancel, BeginAbort, EndAbort, TypeInv
<1>2. used' \in [{"aborts", "crashes", "lost"} -> 0 .. MaxFaults]
  BY SpendTyped DEF Cancel, BeginAbort, EndAbort, TypeInv
<1>3. driver' = driver \/ driver' = [driver EXCEPT !.staged = FALSE]
  BY DEF Cancel, BeginAbort, EndAbort
<1>4. driver'.pendingOp = driver.pendingOp /\ driver'.committedOp = driver.committedOp
      /\ driver'.request = driver.request
  BY <1>3 DEF IInv, Drivers
<1>5. /\ loop.state # "idle" <=> loop'.state # "idle"
      /\ operator' = "aborting" => loop'.state # "idle"
  <2>1. CASE EndAbort
    <3>1. loop' = Aborted(loop) /\ loop.state # "idle" BY <2>1 DEF EndAbort, TypeInv, Begun
    <3>2. loop'.state # "idle" BY <3>1, NotIdle DEF IInv, LoopActions
    <3> QED BY <2>1, <3>1, <3>2 DEF EndAbort
  <2>2. CASE BeginAbort BY <2>2 DEF BeginAbort
  <2>3. CASE \E c \in Calls : Cancel(c) BY <2>3 DEF Cancel, TypeInv, Begun
  <2> QED BY <2>1, <2>2, <2>3
<1>6. cancelled' \subseteq Calls
  <2>1. CASE BeginAbort
    <3>1. driver.request \in Calls BY <2>1 DEF BeginAbort, TypeInv, Begun
    <3> QED BY <2>1, <3>1 DEF BeginAbort, TypeInv
  <2>2. CASE EndAbort BY <2>2 DEF EndAbort, TypeInv
  <2>3. CASE \E c \in Calls : Cancel(c) BY <2>3 DEF Cancel, TypeInv
  <2> QED BY <2>1, <2>2, <2>3
<1>7. Begun' BY <1>1, <1>4, <1>5 DEF TypeInv, Begun, Active
<1> QED BY <1>1, <1>2, <1>4, <1>6, <1>7 DEF TypeInv

\* Of a loop that has not begun there is nothing to write.
LEMMA IdleSilent ==
  ASSUME TypeInv, Termination, loop.state = "idle"
  PROVE  UNCHANGED vars
<1>1. EndState(loop) = "none" BY DEF EndState, Over, Waiting
<1>2. Termed(driver, loop) = driver /\ TermEvents(driver, loop) = <<>>
  BY <1>1 DEF Termed, TermEvents, If
<1>3. PICK ok \in BOOLEAN : Records(ok, <<>>) BY <1>2 DEF Termination
<1>4. used' = used /\ task' \in {task, FoldOf(task, <<>>)} BY <1>3 DEF Records, FoldOf
<1>5. FoldOf(task, <<>>) = task
  <2>1. TaskPaused(AnyTask) \in Entries BY EntriesTyped
  <2> QED BY <2>1, TaskFoldedOnce DEF TypeInv
<1> QED BY <1>2, <1>4, <1>5 DEF Termination, vars

LEMMA TerminationTyped ==
  ASSUME IInv, TypeInv, Termination
  PROVE  TypeInv'
<1>1. CASE loop.state = "idle" BY <1>1, IdleSilent DEF vars, TypeInv, Begun, Active
<1>2. CASE loop.state # "idle"
  <2>1. driver \in Drivers /\ LoopIn(loop) /\ driver.request \in Calls
        /\ driver.pendingOp \in KnownOps /\ driver.committedOp \in KnownOps
    BY <1>2 DEF IInv, TypeInv, Begun
  <2>2. TermEvents(driver, loop) \in Seq(Entries) BY <2>1, TermTyped
  <2>3. task' \in TaskStates /\ used' \in [{"aborts", "crashes", "lost"} -> 0 .. MaxFaults]
    BY <2>2, RecordsTyped DEF Termination
  <2>4. /\ driver'.pendingOp = driver.pendingOp /\ driver'.committedOp = driver.committedOp
        /\ driver'.request = driver.request
    BY <2>1 DEF Termination, Termed, Drivers
  <2>5. UNCHANGED <<tree, loop, call, cancelled, operator, earned, proven, overlap>>
    BY DEF Termination
  <2>6. Begun' BY <2>4, <2>5 DEF TypeInv, Begun, Active
  <2> QED BY <2>1, <2>3, <2>4, <2>5, <2>6 DEF TypeInv
<1> QED BY <1>1, <1>2

\* A fresh process has no call and no loop.
LEMMA FreshTyped ==
  ASSUME NEW l, l = NewLoop, NEW d, d = NewDriver, NEW k, k = [c \in Calls |-> NotCalled]
  PROVE  /\ d.pendingOp \in KnownOps /\ d.committedOp \in KnownOps
         /\ \A c \in Calls : k[c].op \in KnownOps /\ k[c].pc = "none"
         /\ l.state = "idle"
  BY DEF NewLoop, NewDriver, NotCalled, KnownOps

LEMMA CrashTyped ==
  ASSUME IInv, TypeInv, Crash
  PROVE  TypeInv'
<1>1. /\ driver'.pendingOp \in KnownOps /\ driver'.committedOp \in KnownOps
      /\ \A c \in Calls : call'[c].op \in KnownOps /\ call'[c].pc = "none"
      /\ loop'.state = "idle"
  BY FreshTyped DEF Crash
<1>2. Begun' BY <1>1 DEF Crash, Begun, Active
<1>3. used' \in [{"aborts", "crashes", "lost"} -> 0 .. MaxFaults] BY SpendTyped DEF Crash
<1> QED BY <1>1, <1>2, <1>3 DEF Crash, TypeInv

LEMMA InitTyped == Init => TypeInv
<1> SUFFICES ASSUME Init PROVE TypeInv OBVIOUS
<1>1. /\ driver.pendingOp \in KnownOps /\ driver.committedOp \in KnownOps
      /\ \A c \in Calls : call[c].op \in KnownOps /\ call[c].pc = "none"
      /\ loop.state = "idle"
  BY FreshTyped DEF Init
<1>2. Begun BY <1>1 DEF Init, Begun, Active
<1>3. used \in [{"aborts", "crashes", "lost"} -> 0 .. MaxFaults] BY DriverAssumption DEF Init
<1>4. tree \in Digests BY DriverAssumption DEF Init
<1>5. task \in TaskStates BY DEF Init, Absent, NoCursor, TaskStates, Cursors
<1> QED BY <1>1, <1>2, <1>3, <1>4, <1>5 DEF Init, TypeInv

LEMMA NextTyped ==
  ASSUME IInv, TypeInv, [Next]_vars
  PROVE  TypeInv'
<1>1. CASE UNCHANGED vars BY <1>1 DEF vars, TypeInv, Begun, Active
<1>2. ASSUME NEW c \in Calls, Advance(c) PROVE TypeInv'
  BY <1>2, ReturnFromTyped, ObserveTyped, LoopHeadTyped, DecideTyped, GateTyped, PrepareTyped,
     ExecuteTyped, ResultTyped, ConsumeTyped, RepairTyped DEF Advance
<1>3. ASSUME NEW c \in Calls, Approve(c) \/ Reject(c) \/ Clarify(c) PROVE TypeInv'
  BY <1>3, ApproveTyped, RejectTyped
<1> QED BY <1>1, <1>2, <1>3, RunTyped, CancelsTyped, TerminationTyped, CrashTyped DEF Next

LEMMA TypedInvariant == Spec => []TypeInv
<1>1. Init => TypeInv BY InitTyped
<1>2. IInv /\ TypeInv /\ [Next]_vars => TypeInv' BY NextTyped
<1> QED BY <1>1, <1>2, Invariant, PTL DEF Spec

\* The driver, its calls and the task have their types: every operation the
\* driver writes has a name within the bounds, whatever was aborted, resumed,
\* superseded or lost before.
THEOREM DriverTypes == Spec => []TypeOK
<1>1. IInv /\ TypeInv => TypeOK
  <2> SUFFICES ASSUME IInv, TypeInv PROVE TypeOK OBVIOUS
  <2>1. driver \in Drivers /\ driver.pendingOp \in KnownOps /\ driver.committedOp \in KnownOps
    BY DEF IInv, TypeInv
  <2>2. driver \in [runID: 0 .. MaxCalls, request: 0 .. MaxCalls, obs: Outcomes,
                    pendingOp: Ops \union {NoOp}, committedOp: Ops \union {NoOp},
                    lastState: LoopStates \union {"none"}, ready: BOOLEAN,
                    staged: BOOLEAN, gated: BOOLEAN]
    BY <2>1 DEF Drivers, KnownOps
  <2>3. \A c \in Calls :
          call[c] \in [pc: PCs, op: Ops \union {NoOp}, outcome: Outcomes,
                       decision: LoopActions \union {"none"}, late: Nat]
    BY DEF IInv, TypeInv, CallRecords, KnownOps
  <2>4. call \in [Calls -> [pc: PCs, op: Ops \union {NoOp}, outcome: Outcomes,
                            decision: LoopActions \union {"none"}, late: Nat]]
    BY <2>3 DEF IInv
  <2>5. loop \in Loops BY DEF IInv, LoopIn
  <2> QED BY <2>2, <2>4, <2>5 DEF TypeInv, TypeOK, PCs
<1> QED BY <1>1, Invariant, TypedInvariant, PTL
-----------------------------------------------------------------------------
\* A park is remembered.

\* While the last word written is a park the task is open, and a loop that
\* waits has had its park written or has a call that is about to write it.
ParkInv ==
  driver.ready /\ used.lost = 0 =>
    /\ driver.lastState = "awaiting_human" => ~Terminal(task)
    /\ Waiting(loop) => \/ driver.lastState = "awaiting_human"
                        \/ \E c \in Calls : call[c].pc \in {"head", "return"}

\* What the driver writes between its ends is quiet.
LEMMA QuietEvents ==
  /\ \A op \in Ops, ok \in BOOLEAN : VerificationResult(AnyTask, op, ok) \in Quiet
  /\ \A op \in Ops, pre \in Digests : CursorDispatched(AnyTask, op, pre, NoDigest) \in Quiet
  /\ \A op \in Ops, post \in Digests \union {NoDigest} :
       ExecutionCommitted(AnyTask, op, post) \in Quiet
  /\ TaskCreated(AnyTask) \in Quiet /\ TaskPaused(AnyTask) \in Quiet
  /\ CheckpointCreated(AnyTask) \in Quiet /\ FailureClassified(AnyTask) \in Quiet
<1>1. \A type \in EventTypes : Event(AnyTask, type) \in Quiet
  BY DEF Quiet, Entries, Event
<1>2. ASSUME NEW op \in Ops, NEW ok \in BOOLEAN
      PROVE  VerificationResult(AnyTask, op, ok) \in Quiet
  <2> DEFINE e == Event(AnyTask, "VERIFICATION_RESULT")
  <2>1. e \in Quiet BY <1>1 DEF EventTypes
  <2>2. VerificationResult(AnyTask, op, ok) = [e EXCEPT !.op = op, !.ok = ok]
    BY DEF VerificationResult
  <2> HIDE DEF e
  <2> QED BY <2>1, <2>2 DEF Quiet, Entries
<1>3. ASSUME NEW op \in Ops, NEW pre \in Digests
      PROVE  CursorDispatched(AnyTask, op, pre, NoDigest) \in Quiet
  <2> DEFINE e == Event(AnyTask, "CURSOR_DISPATCHED")
  <2>1. e \in Quiet BY <1>1 DEF EventTypes
  <2>2. CursorDispatched(AnyTask, op, pre, NoDigest)
          = [e EXCEPT !.op = op, !.pre = pre, !.post = NoDigest]
    BY DEF CursorDispatched
  <2> HIDE DEF e
  <2> QED BY <2>1, <2>2 DEF Quiet, Entries
<1>4. ASSUME NEW op \in Ops, NEW post \in Digests \union {NoDigest}
      PROVE  ExecutionCommitted(AnyTask, op, post) \in Quiet
  <2> DEFINE e == Event(AnyTask, "EXECUTION_COMMITTED")
  <2>1. e \in Quiet BY <1>1 DEF EventTypes
  <2>2. ExecutionCommitted(AnyTask, op, post) = [e EXCEPT !.op = op, !.post = post]
    BY DEF ExecutionCommitted
  <2> HIDE DEF e
  <2> QED BY <2>1, <2>2 DEF Quiet, Entries
<1> QED BY <1>1, <1>2, <1>3, <1>4
        DEF TaskCreated, TaskPaused, CheckpointCreated, FailureClassified, EventTypes

\* A journal that has lost nothing has written what it was given.
LEMMA NothingLost ==
  ASSUME TypeInv, NEW ok \in BOOLEAN, NEW q, Records(ok, q), used'.lost = 0
  PROVE  used.lost = 0 /\ task' = FoldOf(task, q)
<1>1. used.lost \in Nat BY DriverAssumption DEF TypeInv
<1>2. CASE ok BY <1>1, <1>2 DEF Records, FoldOf
<1>3. CASE ~ok
  <2>1. used' = [used EXCEPT !["lost"] = @ + 1] BY <1>3 DEF Records, Spend
  <2>2. used'.lost = used.lost + 1 BY <2>1 DEF TypeInv
  <2> QED BY <1>1, <2>2
<1> QED BY <1>2, <1>3

\* What is written of how the run ends says what the loop has come to.
LEMMA WordParks ==
  ASSUME IInv, TypeInv, ParkInv, NEW d \in Drivers, NEW l, LoopIn(l),
         d.ready = driver.ready, d.lastState = driver.lastState,
         NEW before \in Seq(Quiet), NEW ok \in BOOLEAN,
         loop' = l, driver' = Termed(d, l), Records(ok, before \o TermEvents(d, l))
  PROVE  ParkInv'
<1> SUFFICES ASSUME driver'.ready, used'.lost = 0
             PROVE  /\ driver'.lastState = "awaiting_human" => ~Terminal(task)'
                    /\ Waiting(loop)' => driver'.lastState = "awaiting_human"
  BY DEF ParkInv
<1>1. /\ loop' = l /\ driver' = Termed(d, l)
      /\ Records(ok, before \o TermEvents(d, l))
  OBVIOUS
<1>2. used.lost = 0 /\ task' = FoldOf(task, before \o TermEvents(d, l)) BY <1>1, NothingLost
<1>3. d.ready = driver'.ready BY <1>1 DEF Termed, Drivers
<1>4. driver.ready /\ d.ready BY <1>3
<1>5. driver.lastState = "awaiting_human" => ~Terminal(task) BY <1>2, <1>4 DEF ParkInv
<1>6. EndState(l) # "none" => driver'.lastState = EndState(l)
  BY <1>1, <1>4 DEF Termed, Drivers
<1>7. EndState(l) = "none" => driver'.lastState = driver.lastState
  BY <1>1 DEF Termed
<1>8. Waiting(loop)' => EndState(l) = "awaiting_human" BY <1>1 DEF Waiting, EndState
<1>9. EndState(l) \in {"none", d.lastState} /\ ~Terminal(task) => ~Terminal(task)'
  <2> SUFFICES ASSUME EndState(l) \in {"none", d.lastState}, ~Terminal(task)
               PROVE  ~Terminal(task)'
    OBVIOUS
  <2>1. TermEvents(d, l) = <<>> BY DEF TermEvents, If
  <2>2. before \o <<>> = before OBVIOUS
  <2>3. ~Terminal(FoldOf(task, before)) BY QuietFolded DEF TypeInv
  <2> QED BY <1>2, <2>1, <2>2, <2>3 DEF Terminal
<1>10. CASE EndState(l) = "awaiting_human" /\ d.lastState # "awaiting_human"
  <2>1. l.state = "awaiting_human" BY <1>10 DEF EndState, Waiting
  <2>2. TermEvents(d, l) = <<TaskPaused(AnyTask)>> BY <1>4, <1>10, <2>1 DEF TermEvents, If, Ending
  <2>3. before \in Seq(Entries) /\ TaskPaused(AnyTask) \in Entries
    BY EntriesTyped DEF Quiet
  <2>4. before \o <<TaskPaused(AnyTask)>> = Append(before, TaskPaused(AnyTask)) BY <2>3
  <2>5. task' = Folded(FoldOf(task, before), TaskPaused(AnyTask))
    BY <1>2, <2>2, <2>3, <2>4, TaskFoldedMore DEF TypeInv
  <2>6. FoldOf(task, before) \in TaskStates BY <2>3, TaskFolded DEF TypeInv
  <2>7. task'.status = "PAUSED"
    <3> DEFINE s == FoldOf(task, before)
    <3>1. Ensured(s) \in TaskStates BY <2>6 DEF Ensured, TaskStates
    <3>2. TaskPaused(AnyTask).type = "TASK_PAUSED" BY DEF TaskPaused, Event
    <3>3. Folded(s, TaskPaused(AnyTask)) = [Ensured(s) EXCEPT !.status = "PAUSED"]
      BY <3>2 DEF Folded
    <3> HIDE DEF s
    <3> QED BY <2>5, <3>1, <3>3 DEF TaskStates, s
  <2> QED BY <1>6, <1>10, <2>7 DEF Terminal
<1>11. CASE EndState(l) = "awaiting_human" /\ d.lastState = "awaiting_human"
  BY <1>5, <1>6, <1>9, <1>11
<1>12. CASE EndState(l) = "none" BY <1>5, <1>7, <1>8, <1>9, <1>12
<1>13. CASE EndState(l) \notin {"none", "awaiting_human"} BY <1>6, <1>8, <1>13
<1> QED BY <1>10, <1>11, <1>12, <1>13

\* A return through the journal.
LEMMA TermParks ==
  ASSUME IInv, TypeInv, ParkInv, NEW c \in Calls, Active(c), NEW d \in Drivers, NEW l, LoopIn(l),
         d.request = driver.request, d.pendingOp \in KnownOps,
         d.ready = driver.ready, d.lastState = driver.lastState,
         NEW before \in Seq(Quiet), ReturnTerm(c, d, l, before)
  PROVE  ParkInv'
  BY WordParks DEF ReturnTerm

LEMMA TerminationParks ==
  ASSUME IInv, TypeInv, ParkInv, Termination
  PROVE  ParkInv'
<1>1. CASE loop.state = "idle" BY <1>1, IdleSilent DEF vars, ParkInv, Waiting, Terminal
<1>2. CASE loop.state # "idle"
  <2>1. driver \in Drivers /\ LoopIn(loop) /\ driver.request \in Calls
        /\ driver.pendingOp \in KnownOps
    BY <1>2 DEF IInv, TypeInv, Begun
  <2> DEFINE q == TermEvents(driver, loop)
  <2>2. q \in Seq(Entries) BY <2>1, TermTyped
  <2>3. PICK ok \in BOOLEAN : Records(ok, q) BY DEF Termination
  <2> HIDE DEF q
  <2>4. <<>> \o q = q BY <2>2
  <2>5. Records(ok, <<>> \o q) /\ <<>> \in Seq(Quiet) BY <2>3, <2>4
  <2>6. loop' = loop /\ driver' = Termed(driver, loop) BY DEF Termination
  <2> QED BY <2>1, <2>5, <2>6, WordParks DEF q
<1> QED BY <1>1, <1>2

\* A step that writes nothing of how the run ends, and leaves a loop that waits
\* to a call that will write it, or as it was.
LEMMA PlainParks ==
  ASSUME TypeInv, ParkInv,
         driver'.ready = driver.ready, driver'.lastState = driver.lastState,
         (UNCHANGED task /\ (UNCHANGED used \/ used'.lost = used.lost))
           \/ \E ok \in BOOLEAN, q \in Seq(Quiet) : Records(ok, q),
         \/ ~Waiting(loop')
         \/ \E b \in Calls : call'[b].pc \in {"head", "return"}
         \/ /\ Waiting(loop)
            /\ \A b \in Calls : call[b].pc \in {"head", "return"} =>
                                  call'[b].pc \in {"head", "return"}
  PROVE  ParkInv'
<1> SUFFICES ASSUME driver'.ready, used'.lost = 0
             PROVE  /\ driver'.lastState = "awaiting_human" => ~Terminal(task)'
                    /\ Waiting(loop)' => \/ driver'.lastState = "awaiting_human"
                                         \/ \E b \in Calls : call'[b].pc \in {"head", "return"}
  BY DEF ParkInv
<1>1. used.lost = 0 /\ (UNCHANGED task \/ \E q \in Seq(Quiet) : task' = FoldOf(task, q))
  <2>1. CASE UNCHANGED task /\ (UNCHANGED used \/ used'.lost = used.lost) BY <2>1
  <2>2. CASE \E ok \in BOOLEAN, q \in Seq(Quiet) : Records(ok, q) BY <2>2, NothingLost
  <2> QED BY <2>1, <2>2
<1>2. ~Terminal(task) => ~Terminal(task')
  BY <1>1, QuietFolded DEF TypeInv
<1> QED BY <1>1, <1>2 DEF ParkInv, Terminal, Waiting
\* The same for a step of one call that is not at the head and not returning.
LEMMA MovesPark ==
  ASSUME IInv, TypeInv, ParkInv, NEW c \in Calls, NEW pc \in PCs, Goto(c, pc),
         driver'.ready = driver.ready, driver'.lastState = driver.lastState,
         NoRecord \/ \E ok \in BOOLEAN, q \in Seq(Quiet) : Records(ok, q),
         \/ ~Waiting(loop')
         \/ pc \in {"head", "return"}
         \/ call[c].pc \notin {"head", "return"} /\ loop' = loop
  PROVE  ParkInv'
<1>1. /\ call'[c].pc = pc /\ \A b \in Calls \ {c} : call'[b] = call[b]
  BY GotoOne DEF IInv
<1>2. CASE pc \in {"head", "return"} BY <1>1, <1>2, PlainParks DEF NoRecord
<1>3. CASE ~Waiting(loop') BY <1>3, PlainParks DEF NoRecord
<1>4. CASE Waiting(loop') /\ call[c].pc \notin {"head", "return"} /\ loop' = loop
  <2>1. \A b \in Calls : call[b].pc \in {"head", "return"} => call'[b].pc \in {"head", "return"}
    BY <1>1, <1>4
  <2>2. Waiting(loop) BY <1>4
  <2> QED BY <2>1, <2>2, PlainParks DEF NoRecord
<1> QED BY <1>2, <1>3, <1>4

\* One event, or none, is a quiet sequence.
LEMMA QuietOne ==
  ASSUME NEW cond \in BOOLEAN, NEW e \in Quiet
  PROVE  If(cond, <<e>>) \in Seq(Quiet) /\ <<>> \in Seq(Quiet)
  BY DEF If

LEMMA ReturnFromParks ==
  ASSUME IInv, TypeInv, ParkInv, NEW c \in Calls, ReturnFrom(c)
  PROVE  ParkInv'
<1>1. Active(c) BY DEF ReturnFrom, Active
<1>2. <<>> \in Seq(Quiet) OBVIOUS
<1> QED BY <1>1, <1>2, TypedStanding, TermParks DEF ReturnFrom

LEMMA ObserveParks ==
  ASSUME IInv, TypeInv, ParkInv, NEW c \in Calls, Observe(c)
  PROVE  ParkInv'
<1> DEFINE l == Observed(loop)
           parked == IF Waiting(l) THEN l ELSE Parked(l, FALSE)
<1>1. Active(c) BY DEF Observe, Active
<1>2. LoopIn(l) BY <1>1, TypedStanding, MovedWithin
<1>3. LoopIn(parked) /\ ~Waiting(Aborted(l)) BY <1>2, MovedWithin DEF Waiting, Aborted, LoopIn, Loops
<1>4. \/ ReturnTerm(c, driver, parked, <<>>)
      \/ ReturnBare(c, driver, Aborted(l)) /\ NoRecord
      \/ ReturnTerm(c, driver, loop, <<>>)
      \/ Continue(c, driver, l, "head") /\ NoRecord
  BY DEF Observe
<1> HIDE DEF l, parked
<1>5. <<>> \in Seq(Quiet) /\ "head" \in PCs /\ "done" \in PCs BY DEF PCs
<1>6. CASE ReturnTerm(c, driver, parked, <<>>) \/ ReturnTerm(c, driver, loop, <<>>)
  BY <1>1, <1>3, <1>5, <1>6, TypedStanding, TermParks
<1>7. CASE ReturnBare(c, driver, Aborted(l)) /\ NoRecord
  BY <1>3, <1>5, <1>7, MovesPark DEF ReturnBare, Finish
<1>8. CASE Continue(c, driver, l, "head") /\ NoRecord
  BY <1>5, <1>8, MovesPark DEF Continue
<1> QED BY <1>4, <1>6, <1>7, <1>8

LEMMA LoopHeadParks ==
  ASSUME IInv, TypeInv, ParkInv, NEW c \in Calls, LoopHead(c)
  PROVE  ParkInv'
<1> DEFINE d == [driver EXCEPT !.staged = FALSE]
           checkpoint == If(driver.ready, <<CheckpointCreated(AnyTask)>>)
<1>1. Active(c) BY DEF LoopHead, Active
<1>2. driver \in Drivers /\ LoopIn(loop) BY <1>1, TypedStanding
<1>3. checkpoint \in Seq(Quiet) /\ <<>> \in Seq(Quiet) BY <1>2, QuietEvents, QuietOne DEF Drivers
<1>4. \/ ReturnTerm(c, driver, loop, <<>>) \/ ReturnTerm(c, driver, loop, checkpoint)
      \/ /\ \E ok \in BOOLEAN : Records(ok, checkpoint)
         /\ \/ ReturnBare(c, d, Aborted(loop))
            \/ Continue(c, driver, loop, Route[loop.state])
  BY DEF LoopHead
<1>5. d.ready = driver.ready /\ d.lastState = driver.lastState /\ ~Waiting(Aborted(loop))
  BY <1>2 DEF Drivers, Waiting, Aborted, LoopIn, Loops
<1>6. Route[loop.state] \in PCs /\ (Waiting(loop) => Route[loop.state] = "return") /\ "done" \in PCs
  BY <1>2 DEF LoopIn, Loops, LoopStates, Route, PCs, Waiting
<1> HIDE DEF d, checkpoint
<1>7. CASE ReturnTerm(c, driver, loop, <<>>) \/ ReturnTerm(c, driver, loop, checkpoint)
  BY <1>1, <1>3, <1>7, TypedStanding, TermParks
<1>8. CASE /\ \E ok \in BOOLEAN : Records(ok, checkpoint)
           /\ ReturnBare(c, d, Aborted(loop))
  BY <1>3, <1>5, <1>6, <1>8, MovesPark DEF ReturnBare, Finish
<1>9. CASE /\ \E ok \in BOOLEAN : Records(ok, checkpoint)
           /\ Continue(c, driver, loop, Route[loop.state])
  BY <1>3, <1>6, <1>9, MovesPark DEF Continue
<1> QED BY <1>4, <1>7, <1>8, <1>9

\* A step that writes one call in place, away from the head and the return.
LEMMA WritesPark ==
  ASSUME IInv, TypeInv, ParkInv, NEW c \in Calls, call[c].pc \notin {"head", "return"},
         NEW r, Writes(c, r), loop' = loop,
         driver'.ready = driver.ready, driver'.lastState = driver.lastState,
         NoRecord \/ \E ok \in BOOLEAN, q \in Seq(Quiet) : Records(ok, q)
  PROVE  ParkInv'
<1>1. \A b \in Calls \ {c} : call'[b] = call[b] BY DEF Writes, IInv
<1>2. \A b \in Calls : call[b].pc \in {"head", "return"} => call'[b].pc \in {"head", "return"}
  BY <1>1
<1>3. ~Waiting(loop') \/ Waiting(loop) OBVIOUS
<1> QED BY <1>2, <1>3, PlainParks DEF NoRecord

LEMMA DecideParks ==
  ASSUME IInv, TypeInv, ParkInv, NEW c \in Calls, Decide(c)
  PROVE  ParkInv'
<1>1. PICK b \in LoopActions, staged \in BOOLEAN :
        /\ call' = [call EXCEPT ![c].pc = "gate", ![c].decision = b]
        /\ driver' = [driver EXCEPT !.staged = staged]
  BY DEF Decide, Proposed, Refused, Routed, LoopActions
<1>2. Writes(c, [call[c] EXCEPT !.pc = "gate", !.decision = b]) BY <1>1 DEF Writes
<1>3. driver'.ready = driver.ready /\ driver'.lastState = driver.lastState
  BY <1>1 DEF IInv, Drivers
<1>4. call[c].pc = "decide" /\ NoRecord /\ loop' = loop BY DEF Decide, NoRecord
<1> QED BY <1>2, <1>3, <1>4, WritesPark

LEMMA GateParks ==
  ASSUME IInv, TypeInv, ParkInv, NEW c \in Calls, Gate(c)
  PROVE  ParkInv'
<1>1. Active(c) /\ call[c].pc = "gate" BY DEF Gate, Active
<1>2. PICK ok \in BOOLEAN, commits \in BOOLEAN :
        LET op == LatchedOp(driver, loop)
            d == [driver EXCEPT !.staged = FALSE,
                                !.committedOp = IF commits /\ ok THEN op ELSE @]
        IN  /\ Records(ok, If(commits, <<ExecutionCommitted(AnyTask, op, NoDigest)>>))
            /\ ReturnBare(c, d, loop) \/ \E l : Continue(c, d, l, "head")
  BY <1>1, TypedStanding DEF Gate, Drivers
<1> DEFINE op == LatchedOp(driver, loop)
           committed == IF commits /\ ok THEN op ELSE driver.committedOp
           d == [driver EXCEPT !.staged = FALSE, !.committedOp = committed]
           q == If(commits, <<ExecutionCommitted(AnyTask, op, NoDigest)>>)
<1>3. op \in Ops BY <1>1, TypedStanding
<1>4. q \in Seq(Quiet) BY <1>3, QuietEvents, QuietOne
<1>5. Records(ok, q) /\ (ReturnBare(c, d, loop) \/ \E l : Continue(c, d, l, "head")) BY <1>2
<1> HIDE DEF committed, q
<1>6. d.ready = driver.ready /\ d.lastState = driver.lastState BY <1>1, TypedStanding DEF Drivers
<1> HIDE DEF d
<1>7. "head" \in PCs /\ "done" \in PCs BY DEF PCs
<1>8. CASE ReturnBare(c, d, loop)
  BY <1>1, <1>4, <1>5, <1>6, <1>7, <1>8, MovesPark DEF ReturnBare, Finish
<1>9. CASE \E l : Continue(c, d, l, "head")
  BY <1>4, <1>5, <1>6, <1>7, <1>9, MovesPark DEF Continue
<1> QED BY <1>5, <1>8, <1>9

LEMMA PrepareParks ==
  ASSUME IInv, TypeInv, ParkInv, NEW c \in Calls, Prepare(c)
  PROVE  ParkInv'
<1>1. Active(c) /\ call[c].pc = "prepare" BY DEF Prepare, Active
<1> DEFINE op == OperationOf(driver, loop)
           q == If(driver.ready, <<CursorDispatched(AnyTask, op, tree, NoDigest)>>)
<1>2. CASE ReturnBare(c, driver, Aborted(loop)) /\ NoRecord
  <2>1. ~Waiting(Aborted(loop)) /\ "done" \in PCs
    BY DEF Waiting, Aborted, IInv, LoopIn, Loops, PCs
  <2> QED BY <1>2, <2>1, MovesPark DEF ReturnBare, Finish
<1>3. ASSUME NEW ok \in BOOLEAN, UNCHANGED loop, Records(ok, q), NEW pending,
             driver' = [driver EXCEPT !.pendingOp = pending],
             call' = [call EXCEPT ![c].pc = "execute", ![c].op = op]
      PROVE  ParkInv'
  <2>1. Writes(c, [call[c] EXCEPT !.pc = "execute", !.op = op]) BY <1>3 DEF Writes
  <2>2. op \in Ops /\ driver.ready \in BOOLEAN BY <1>1, TypedStanding DEF Drivers
  <2>3. q \in Seq(Quiet) BY <2>2, QuietEvents, QuietOne DEF TypeInv
  <2>4. driver'.ready = driver.ready /\ driver'.lastState = driver.lastState
    BY <1>3 DEF IInv, Drivers
  <2> QED BY <1>1, <1>3, <2>1, <2>3, <2>4, WritesPark
<1> QED BY <1>2, <1>3 DEF Prepare

LEMMA ExecuteParks ==
  ASSUME IInv, TypeInv, ParkInv, NEW c \in Calls, Execute(c)
  PROVE  ParkInv'
<1>1. PICK outcome \in Outcomes \ {"none"} :
        call' = [call EXCEPT ![c].pc = "result", ![c].outcome = outcome,
                             ![c].late = @ + (IF c \in cancelled THEN 1 ELSE 0)]
  BY DEF Execute
<1>2. Writes(c, [call[c] EXCEPT !.pc = "result", !.outcome = outcome,
                                !.late = @ + (IF c \in cancelled THEN 1 ELSE 0)])
  BY <1>1 DEF Writes
<1>3. call[c].pc = "execute" /\ NoRecord /\ loop' = loop /\ driver' = driver
  BY DEF Execute, NoRecord
<1> QED BY <1>2, <1>3, WritesPark

LEMMA ResultParks ==
  ASSUME IInv, TypeInv, ParkInv, NEW c \in Calls, Result(c)
  PROVE  ParkInv'
<1>1. Active(c) /\ call[c].pc = "result" BY DEF Result, Active
<1>2. <<>> \in Seq(Quiet) /\ {"head", "done", "return", "consume"} \subseteq PCs BY DEF PCs
<1>3. CASE ReturnTerm(c, driver, loop, <<>>) BY <1>1, <1>2, <1>3, TypedStanding, TermParks
<1>4. CASE AfterError(c) /\ UNCHANGED <<loop, driver>> /\ NoRecord
  BY <1>1, <1>2, <1>4, MovesPark DEF AfterError, Finish
<1>5. ASSUME NEW ok \in BOOLEAN, NEW commits \in BOOLEAN,
             LET outcome == call[c].outcome
                 op == LatchedOp(driver, loop)
                 d == [driver EXCEPT !.obs = outcome,
                                     !.committedOp = IF commits /\ ok THEN op ELSE @]
             IN  /\ Records(ok, If(commits, <<ExecutionCommitted(AnyTask, op, tree)>>))
                 /\ \/ \E l : Continue(c, d, l, "return")
                    \/ ReturnBare(c, d, loop)
                    \/ \E l : Continue(c, d, l, "head")
                    \/ Continue(c, d, loop, "consume")
      PROVE  ParkInv'
  <2> DEFINE op == LatchedOp(driver, loop)
             committed == IF commits /\ ok THEN op ELSE driver.committedOp
             outcome == call[c].outcome
             d == [driver EXCEPT !.obs = outcome, !.committedOp = committed]
             q == If(commits, <<ExecutionCommitted(AnyTask, op, tree)>>)
  <2>1. op \in Ops BY <1>1, TypedStanding
  <2>2. q \in Seq(Quiet) BY <2>1, QuietEvents, QuietOne DEF TypeInv
  <2>3. /\ Records(ok, q)
        /\ \/ \E l : Continue(c, d, l, "return")
           \/ ReturnBare(c, d, loop)
           \/ \E l : Continue(c, d, l, "head")
           \/ Continue(c, d, loop, "consume")
    BY <1>5
  <2> HIDE DEF committed, outcome, q
  <2>4. d.ready = driver.ready /\ d.lastState = driver.lastState
    BY <1>1, TypedStanding DEF Drivers
  <2> HIDE DEF d
  <2>5. CASE (\E l : Continue(c, d, l, "return")) \/ \E l : Continue(c, d, l, "head")
    BY <1>2, <2>2, <2>3, <2>4, <2>5, MovesPark DEF Continue
  <2>6. CASE ReturnBare(c, d, loop) \/ Continue(c, d, loop, "consume")
    BY <1>1, <1>2, <2>2, <2>3, <2>4, <2>6, MovesPark DEF Continue, ReturnBare, Finish
  <2> QED BY <2>3, <2>5, <2>6
<1> DEFINE commits == driver.ready /\ ShowsCommit(call[c].outcome)
                      /\ driver.committedOp # LatchedOp(driver, loop)
<1>6. PICK b \in BOOLEAN : b = commits OBVIOUS
<1> QED BY <1>3, <1>4, <1>5, <1>6 DEF Result

LEMMA ConsumeParks ==
  ASSUME IInv, TypeInv, ParkInv, NEW c \in Calls, Consume(c)
  PROVE  ParkInv'
<1>1. Active(c) BY DEF Consume, Active
<1>2. PICK over \in BOOLEAN, passed \in BOOLEAN, ok \in BOOLEAN :
        LET l == Consumed(loop, over)
        IN  /\ Records(ok, If(driver.ready, <<VerificationResult(AnyTask, OperationOf(driver, l),
                                                                 passed)>>))
            /\ \/ Continue(c, driver, l, "head")
               \/ ReturnBare(c, driver, Aborted(l))
               \/ Continue(c, driver, Parked(l, FALSE), "return")
  BY DEF Consume
<1> DEFINE l == Consumed(loop, over)
           q == If(driver.ready, <<VerificationResult(AnyTask, OperationOf(driver, l), passed)>>)
<1>3. LoopIn(l) BY <1>1, TypedStanding, ConsumedWithin
<1>4. OperationOf(driver, l) \in Ops /\ driver.ready \in BOOLEAN
  BY <1>1, <1>3, TypedStanding, OpsKnown DEF Drivers
<1>5. q \in Seq(Quiet) BY <1>4, QuietEvents, QuietOne
<1>6. ~Waiting(Aborted(l)) BY <1>3 DEF Waiting, Aborted, LoopIn, Loops
<1>7. /\ Records(ok, q)
      /\ \/ Continue(c, driver, l, "head")
         \/ ReturnBare(c, driver, Aborted(l))
         \/ Continue(c, driver, Parked(l, FALSE), "return")
  BY <1>2
<1> HIDE DEF l, q
<1>8. {"head", "done", "return"} \subseteq PCs BY DEF PCs
<1>9. CASE Continue(c, driver, l, "head") \/ Continue(c, driver, Parked(l, FALSE), "return")
  BY <1>5, <1>7, <1>8, <1>9, MovesPark DEF Continue
<1>10. CASE ReturnBare(c, driver, Aborted(l))
  BY <1>5, <1>6, <1>7, <1>8, <1>10, MovesPark DEF ReturnBare, Finish
<1> QED BY <1>7, <1>9, <1>10

LEMMA RepairParks ==
  ASSUME IInv, TypeInv, ParkInv, NEW c \in Calls, Repair(c)
  PROVE  ParkInv'
<1> DEFINE d == [driver EXCEPT !.gated = TRUE]
           parked == Parked(loop, FALSE)
           l == Stepped(loop, "continue", Stops(c), FALSE)
<1>1. Active(c) /\ call[c].pc = "repair" BY DEF Repair, Active
<1>2. \/ ReturnBare(c, driver, loop) /\ NoRecord
      \/ ReturnTerm(c, d, parked, <<>>)
      \/ Continue(c, driver, l, "head") /\ NoRecord
  BY DEF Repair
<1>3. LoopIn(parked) BY <1>1, TypedStanding, MovedWithin
<1>4. d \in Drivers /\ d.pendingOp = driver.pendingOp /\ d.request = driver.request
      /\ d.ready = driver.ready /\ d.lastState = driver.lastState
  BY <1>1, TypedStanding DEF Drivers
<1> HIDE DEF d, parked, l
<1>5. <<>> \in Seq(Quiet) /\ {"head", "done"} \subseteq PCs BY DEF PCs
<1>6. CASE ReturnTerm(c, d, parked, <<>>)
  BY <1>1, <1>3, <1>4, <1>5, <1>6, TypedStanding, TermParks
<1>7. CASE ReturnBare(c, driver, loop) /\ NoRecord
  BY <1>1, <1>5, <1>7, MovesPark DEF ReturnBare, Finish
<1>8. CASE Continue(c, driver, l, "head") /\ NoRecord
  BY <1>5, <1>8, MovesPark DEF Continue
<1> QED BY <1>2, <1>6, <1>7, <1>8

\* A new Run forgets the last word, except when it cannot bind its contract:
\* then the loop is aborted.
LEMMA RunParks ==
  ASSUME IInv, TypeInv, ParkInv, NEW c \in Calls, Run(c)
  PROVE  ParkInv'
<1> DEFINE fresh == [NewDriver EXCEPT !.runID = c, !.request = c]
           begun == Started(NewLoop)
           full == [fresh EXCEPT !.ready = driver.ready,
                                 !.lastState = driver.lastState,
                                 !.pendingOp = driver.pendingOp,
                                 !.committedOp = driver.committedOp]
           bound(ok) == [fresh EXCEPT !.ready = ok \/ BeginEvents = <<>>]
<1>1. \/ ReturnBare(c, full, Aborted(begun)) /\ NoRecord
      \/ \E ok \in BOOLEAN :
           /\ Records(ok, BeginEvents)
           /\ \/ ReturnBare(c, bound(ok), Aborted(begun))
              \/ Continue(c, bound(ok), begun, "observe")
              \/ Continue(c, bound(ok), Parked(begun, FALSE), "return")
  BY DEF Run
<1>2. ~Waiting(begun) /\ ~Waiting(Aborted(begun))
  BY DEF Started, When, NewLoop, Waiting, Aborted
<1>3. fresh \in Drivers BY FreshDriver
<1>4. fresh.lastState = "none" BY DEF NewDriver
<1> HIDE DEF fresh, begun
<1>5. full.ready = driver.ready /\ full.lastState = driver.lastState BY <1>3 DEF Drivers
<1>6. \A ok \in BOOLEAN : bound(ok).lastState = "none" BY <1>3, <1>4 DEF Drivers
<1> HIDE DEF full, bound
<1>7. {"observe", "done", "return"} \subseteq PCs BY DEF PCs
<1>8. CASE ReturnBare(c, full, Aborted(begun)) /\ NoRecord
  BY <1>2, <1>5, <1>7, <1>8, MovesPark DEF ReturnBare, Finish
<1>9. ASSUME NEW ok \in BOOLEAN,
             \/ ReturnBare(c, bound(ok), Aborted(begun))
             \/ Continue(c, bound(ok), begun, "observe")
             \/ Continue(c, bound(ok), Parked(begun, FALSE), "return")
      PROVE  ParkInv'
  <2>1. driver'.lastState = "none" BY <1>6, <1>9 DEF ReturnBare, Continue
  <2>2. Waiting(loop') => Goto(c, "return") BY <1>2, <1>9 DEF ReturnBare, Continue, Waiting
  <2>3. Waiting(loop') => call'[c].pc = "return" BY <1>7, <2>2, GotoOne DEF IInv
  <2> QED BY <2>1, <2>3 DEF ParkInv, Waiting
<1> QED BY <1>1, <1>8, <1>9

LEMMA AnsweredParks ==
  ASSUME IInv, TypeInv, ParkInv, NEW c \in Calls, Resumable(c), NEW d \in Drivers,
         d.ready = driver.ready, d.lastState = driver.lastState,
         NEW goesOn \in BOOLEAN, Answered(c, d, goesOn),
         NoRecord \/ \E ok \in BOOLEAN, q \in Seq(Quiet) : Records(ok, q)
  PROVE  ParkInv'
<1>1. driver'.ready = driver.ready /\ driver'.lastState = driver.lastState
  BY DEF Answered, Continue, Drivers
<1>2. ~Waiting(loop')
  <2>1. loop \in Loops /\ loop.state = "awaiting_human" BY DEF IInv, LoopIn, Resumable, Waiting
  <2>2. Released(loop).state = "observing" /\ Released(loop) \in Loops
    BY <2>1 DEF Released, When, Loops, LoopStates
  <2>3. Aborted(Released(loop)).state = "aborted" BY <2>2 DEF Aborted, Loops
  <2> QED BY <2>2, <2>3 DEF Answered, Continue, Waiting
<1>3. Goto(c, "observe") \/ Goto(c, "done") BY DEF Answered, Continue
<1>4. "observe" \in PCs /\ "done" \in PCs BY DEF PCs
<1> QED BY <1>1, <1>2, <1>3, <1>4, MovesPark

LEMMA ApproveParks ==
  ASSUME IInv, TypeInv, ParkInv, NEW c \in Calls, Approve(c)
  PROVE  ParkInv'
<1> DEFINE op == LatchedOp(driver, loop)
           commits == driver.ready /\ driver.committedOp # op
           q == If(commits, <<ExecutionCommitted(AnyTask, op, tree')>>)
<1>1. /\ Resumable(c)
      /\ \/ /\ tree' \in Digests
            /\ \E ok \in BOOLEAN :
                 /\ Records(ok, q)
                 /\ Answered(c, [driver EXCEPT !.obs = "changed",
                                               !.committedOp = IF commits /\ ok THEN op ELSE @], TRUE)
         \/ Answered(c, driver, FALSE) /\ NoRecord
         \/ /\ \E o \in {"unchanged", "rejected", "failed"} :
                 Answered(c, [driver EXCEPT !.obs = o], TRUE)
            /\ NoRecord
  BY DEF Approve
<1>2. driver \in Drivers /\ op \in Ops
  <2>1. LoopIn(loop) /\ driver \in Drivers /\ driver.request \in Calls
        /\ driver.pendingOp \in KnownOps
    BY <1>1 DEF Resumable, Waiting, IInv, TypeInv, Begun
  <2> QED BY <2>1, OpsKnown
<1>3. CASE Answered(c, driver, FALSE) /\ NoRecord BY <1>1, <1>2, <1>3, AnsweredParks
<1>4. ASSUME tree' \in Digests, NEW ok \in BOOLEAN, Records(ok, q),
             Answered(c, [driver EXCEPT !.obs = "changed",
                                        !.committedOp = IF commits /\ ok THEN op ELSE @], TRUE)
      PROVE  ParkInv'
  <2> DEFINE committed == IF commits /\ ok THEN op ELSE driver.committedOp
             d == [driver EXCEPT !.obs = "changed", !.committedOp = committed]
  <2>1. committed \in AnyOp /\ "changed" \in Outcomes BY <1>2 DEF AnyOp, Outcomes, Drivers
  <2>2. q \in Seq(Quiet)
    <3>1. ExecutionCommitted(AnyTask, op, tree') \in Quiet BY <1>2, <1>4, QuietEvents
    <3>2. <<ExecutionCommitted(AnyTask, op, tree')>> \in Seq(Quiet) /\ <<>> \in Seq(Quiet)
      BY <3>1
    <3> QED BY <3>2 DEF If
  <2>3. Answered(c, d, TRUE) BY <1>4
  <2> HIDE DEF committed
  <2>4. d \in Drivers /\ d.ready = driver.ready /\ d.lastState = driver.lastState
    BY <1>2, <2>1 DEF Drivers
  <2> HIDE DEF d, op
  <2> QED BY <1>1, <1>4, <2>2, <2>3, <2>4, AnsweredParks
<1>5. ASSUME NEW o \in {"unchanged", "rejected", "failed"},
             Answered(c, [driver EXCEPT !.obs = o], TRUE), NoRecord
      PROVE  ParkInv'
  <2> DEFINE d == [driver EXCEPT !.obs = o]
  <2>1. d \in Drivers /\ d.ready = driver.ready /\ d.lastState = driver.lastState
    BY <1>2 DEF Drivers, Outcomes
  <2>2. Answered(c, d, TRUE) BY <1>5
  <2> HIDE DEF d
  <2> QED BY <1>1, <1>5, <2>1, <2>2, AnsweredParks
<1> QED BY <1>1, <1>3, <1>4, <1>5

LEMMA RejectParks ==
  ASSUME IInv, TypeInv, ParkInv, NEW c \in Calls, Reject(c) \/ Clarify(c)
  PROVE  ParkInv'
<1>1. PICK o \in Outcomes, goesOn \in BOOLEAN :
        \/ Answered(c, [driver EXCEPT !.obs = o], goesOn)
        \/ Answered(c, driver, goesOn)
  BY DEF Reject, Clarify, Outcomes
<1>2. Resumable(c) /\ NoRecord BY DEF Reject, Clarify
<1>3. driver \in Drivers BY DEF IInv
<1> DEFINE d == [driver EXCEPT !.obs = o]
<1>4. d \in Drivers /\ d.ready = driver.ready /\ d.lastState = driver.lastState
  BY <1>3 DEF Drivers
<1> HIDE DEF d
<1> QED BY <1>1, <1>2, <1>3, <1>4, AnsweredParks DEF d

LEMMA CancelsPark ==
  ASSUME IInv, TypeInv, ParkInv, (\E c \in Calls : Cancel(c)) \/ BeginAbort \/ EndAbort
  PROVE  ParkInv'
<1>1. UNCHANGED <<task, call>> BY DEF Cancel, BeginAbort, EndAbort
<1>2. used'.lost = used.lost BY DEF Cancel, BeginAbort, EndAbort, Spend, TypeInv
<1>3. driver' = driver \/ driver' = [driver EXCEPT !.staged = FALSE]
  BY DEF Cancel, BeginAbort, EndAbort
<1>4. driver'.ready = driver.ready /\ driver'.lastState = driver.lastState
  BY <1>3 DEF IInv, Drivers
<1>5. loop' = loop \/ loop' = Aborted(loop) BY DEF Cancel, BeginAbort, EndAbort
<1>6. ~Waiting(Aborted(loop)) BY DEF Waiting, Aborted, IInv, LoopIn, Loops
<1>7. ~Waiting(loop') \/ Waiting(loop) BY <1>5, <1>6
<1> QED BY <1>1, <1>2, <1>4, <1>7, PlainParks

LEMMA NextParks ==
  ASSUME IInv, TypeInv, ParkInv, [Next]_vars
  PROVE  ParkInv'
<1>1. CASE UNCHANGED vars BY <1>1 DEF vars, ParkInv, Waiting, Terminal
<1>2. CASE Crash BY <1>2 DEF Crash, ParkInv, NewDriver
<1>3. ASSUME NEW c \in Calls, Advance(c) PROVE ParkInv'
  BY <1>3, ReturnFromParks, ObserveParks, LoopHeadParks, DecideParks, GateParks, PrepareParks,
     ExecuteParks, ResultParks, ConsumeParks, RepairParks DEF Advance
<1>4. ASSUME NEW c \in Calls, Approve(c) \/ Reject(c) \/ Clarify(c) PROVE ParkInv'
  BY <1>4, ApproveParks, RejectParks
<1> QED BY <1>1, <1>2, <1>3, <1>4, RunParks, CancelsPark, TerminationParks DEF Next

LEMMA InitParks == Init => ParkInv
  BY DEF Init, ParkInv, NewDriver
-----------------------------------------------------------------------------
\* What the driver leaves in the journal is true.

\* Where a call waits without having anything under way.
AtRest(c) == call[c].pc \in {"none", "done", "return", "head"}

\* As long as no Run has begun beside an earlier call, only the latest call has
\* something under way, and none where the loop is parked or completed.
Alone ==
  ~overlap =>
    /\ \A c \in Calls : c # driver.runID => AtRest(c)
    /\ loop.state \in {"awaiting_human", "completed"} => \A c \in Calls : AtRest(c)

\* A completion was proven when it was decided, and nothing was decided since.
Backed ==
  ~overlap =>
    /\ loop.state = "completed" => proven
    /\ \A c \in Calls : call[c].pc = "gate" /\ call[c].decision = "complete" => proven

\* What is staged waits at the gate, and its operation is earned.
Staged ==
  ~overlap /\ driver.staged =>
    /\ \E c \in Calls : c = driver.runID /\ call[c].pc = "gate"
    /\ LatchedOp(driver, loop) \in earned

\* What is executed is what was dispatched, and a change is earned.
Latched ==
  \A c \in Calls :
    /\ call[c].pc = "result" /\ call[c].outcome = "changed" => call[c].op \in earned
    /\ /\ call[c].pc \in {"execute", "result"} /\ ~overlap
       /\ driver.ready /\ used.lost = 0
       => driver.pendingOp = call[c].op

\* The cursor is of an operation that is under way, or of one that is earned.
Marked ==
  /\ task.cursor.status \in {"NONE", "DISPATCHED", "COMMITTED"}
  /\ task.cursor.status = "DISPATCHED" => task.cursor.post = NoDigest
  /\ task.cursor.status = "COMMITTED" /\ used.lost = 0 /\ ~overlap =>
       task.cursor.op \in earned

ControlInv == Alone /\ Backed /\ Staged /\ Latched

\* A step completes the task only with a completion that was proven.
Honest == task'.status = "COMPLETED" /\ task.status # "COMPLETED" /\ ~overlap => proven

-----------------------------------------------------------------------------
\* What is written, and what it leaves in the task.

\* Events that neither end a task nor put a cursor on it.
Plain == Quiet \intersect Cursorless

LEMMA PlainEvents ==
  /\ \A op \in Ops, ok \in BOOLEAN : VerificationResult(AnyTask, op, ok) \in Plain
  /\ TaskCreated(AnyTask) \in Plain /\ CheckpointCreated(AnyTask) \in Plain
<1>1. ASSUME NEW op \in Ops, NEW ok \in BOOLEAN
      PROVE  VerificationResult(AnyTask, op, ok) \in Plain
  <2>1. VerificationResult(AnyTask, op, ok) \in Quiet BY QuietEvents
  <2>2. VerificationResult(AnyTask, op, ok).type = "VERIFICATION_RESULT"
    BY DEF VerificationResult, Event
  <2> QED BY <2>1, <2>2 DEF Plain, Cursorless, Quiet
<1>2. TaskCreated(AnyTask).type = "TASK_CREATED"
      /\ CheckpointCreated(AnyTask).type = "CHECKPOINT_CREATED"
  BY DEF TaskCreated, CheckpointCreated, Event
<1> QED BY <1>1, <1>2, QuietEvents DEF Plain, Cursorless, Quiet

LEMMA PlainOne ==
  ASSUME NEW cond \in BOOLEAN, NEW e \in Plain
  PROVE  If(cond, <<e>>) \in Seq(Plain)
  BY DEF If

\* The end of a run puts no cursor on the task, and completes it only where the
\* loop is completed.
LEMMA EndingEvents ==
  ASSUME NEW d \in Drivers, d.request \in Calls, d.pendingOp \in KnownOps, NEW l, LoopIn(l)
  PROVE  /\ TermEvents(d, l) \in Seq(Cursorless)
         /\ l.state # "completed" => TermEvents(d, l) \in Seq({e \in Entries : ~(e.over /\ e.ok)})
<1> DEFINE op == OperationOf(d, l)
           E == {e \in Entries : ~(e.over /\ e.ok)}
<1>1. op \in Ops BY OpsKnown
<1> HIDE DEF op
<1>2. ASSUME NEW ok \in BOOLEAN
      PROVE  /\ TerminalResult(AnyTask, op, ok) \in Cursorless
             /\ TerminalResult(AnyTask, op, FALSE) \in E
  <2>1. TerminalResult(AnyTask, op, ok) \in Entries /\ TerminalResult(AnyTask, op, FALSE) \in Entries
    BY <1>1, EntriesTyped
  <2>2. TerminalResult(AnyTask, op, ok).type = "VERIFICATION_RESULT"
        /\ TerminalResult(AnyTask, op, FALSE).ok = FALSE
    BY DEF TerminalResult, VerificationResult, Event
  <2> QED BY <2>1, <2>2 DEF Cursorless
<1>3. \A e \in {TaskPaused(AnyTask), FailureClassified(AnyTask)} : e \in Cursorless /\ e \in E
  <2>1. TaskPaused(AnyTask) \in Quiet /\ FailureClassified(AnyTask) \in Quiet BY QuietEvents
  <2>2. TaskPaused(AnyTask).type = "TASK_PAUSED"
        /\ FailureClassified(AnyTask).type = "FAILURE_CLASSIFIED"
    BY DEF TaskPaused, FailureClassified, Event
  <2> QED BY <2>1, <2>2 DEF Quiet, Cursorless
<1> HIDE DEF E
<1>4. Ending(d, l) = CASE l.state = "completed" -> <<TerminalResult(AnyTask, op, TRUE)>>
                       [] l.state = "awaiting_human" -> <<TaskPaused(AnyTask)>>
                       [] OTHER -> <<FailureClassified(AnyTask), TerminalResult(AnyTask, op, FALSE)>>
  BY DEF Ending, op
<1>5. \A S : \A x, y \in S : <<x>> \in Seq(S) /\ <<x, y>> \in Seq(S) /\ <<>> \in Seq(S) OBVIOUS
<1>6. <<>> \in Seq(E) /\ <<>> \in Seq(Cursorless) OBVIOUS
<1>7. TermEvents(d, l) \in {<<>>, Ending(d, l)} BY DEF TermEvents, If
<1>8. CASE l.state = "completed" BY <1>2, <1>4, <1>5, <1>6, <1>7, <1>8 DEF E
<1>9. CASE l.state = "awaiting_human" BY <1>3, <1>4, <1>5, <1>6, <1>7, <1>9 DEF E
<1>10. CASE l.state \notin {"completed", "awaiting_human"}
  <2>1. Ending(d, l) = <<FailureClassified(AnyTask), TerminalResult(AnyTask, op, FALSE)>>
    BY <1>4, <1>10
  <2>2. Ending(d, l) \in Seq(E) BY <1>2, <1>3, <1>5, <2>1
  <2>3. Ending(d, l) \in Seq(Cursorless) BY <1>2, <1>3, <1>5, <2>1
  <2> QED BY <1>6, <1>7, <2>2, <2>3 DEF E
<1> QED BY <1>8, <1>9, <1>10

\* The cursor stays, or is cleared: what it says stays true.
LEMMA CursorKept ==
  ASSUME Marked, task'.cursor \in {task.cursor, NoCursor},
         used'.lost = 0 => used.lost = 0, overlap => overlap', earned \subseteq earned'
  PROVE  Marked'
  BY DEF Marked, NoCursor

LEMMA PlainMarks ==
  ASSUME TypeInv, Marked, overlap => overlap', earned \subseteq earned',
         NoRecord \/ \E ok \in BOOLEAN, q \in Seq(Plain) : Records(ok, q)
  PROVE  Marked' /\ Honest
<1>1. CASE NoRecord BY <1>1, CursorKept DEF NoRecord, Honest
<1>2. ASSUME NEW ok \in BOOLEAN, NEW q \in Seq(Plain), Records(ok, q) PROVE Marked' /\ Honest
  <2>1. q \in Seq(Cursorless) /\ q \in Seq({e \in Entries : ~(e.over /\ e.ok)})
    BY DEF Plain, Quiet
  <2>2. task' = task \/ task' = FoldOf(task, q) BY <1>2 DEF Records, FoldOf
  <2>3. FoldOf(task, q).cursor \in {task.cursor, NoCursor} BY <2>1, CursorFolded DEF TypeInv
  <2>4. task.status # "COMPLETED" => FoldOf(task, q).status # "COMPLETED"
    BY <2>1, IncompleteFolded DEF TypeInv
  <2>5. used'.lost = 0 => used.lost = 0 BY <1>2, NothingLost
  <2>6. task'.cursor \in {task.cursor, NoCursor} BY <2>2, <2>3
  <2>7. Honest BY <2>2, <2>4 DEF Honest
  <2>8. Marked' BY <2>5, <2>6, CursorKept
  <2> QED BY <2>7, <2>8
<1> QED BY <1>1, <1>2

\* What is written of how the run ends.
LEMMA WordMarks ==
  ASSUME TypeInv, Marked, NEW d \in Drivers, NEW l, LoopIn(l),
         d.request \in Calls, d.pendingOp \in KnownOps,
         NEW before \in Seq(Plain), NEW ok \in BOOLEAN,
         Records(ok, before \o TermEvents(d, l)),
         ~overlap /\ l.state = "completed" => proven,
         UNCHANGED <<overlap, earned>>
  PROVE  Marked' /\ Honest
<1> DEFINE E == {e \in Entries : ~(e.over /\ e.ok)}
           q == before \o TermEvents(d, l)
<1>2. /\ TermEvents(d, l) \in Seq(Cursorless)
      /\ l.state # "completed" => TermEvents(d, l) \in Seq(E)
  BY EndingEvents
<1>3. before \in Seq(Cursorless) /\ before \in Seq(E) BY DEF Plain, Quiet
<1> HIDE DEF E
<1>4. q \in Seq(Cursorless) /\ (l.state # "completed" => q \in Seq(E)) BY <1>2, <1>3
<1>5. Records(ok, q) OBVIOUS
<1> HIDE DEF q
<1>6. task' = task \/ task' = FoldOf(task, q) BY <1>5 DEF Records, FoldOf
<1>7. FoldOf(task, q).cursor \in {task.cursor, NoCursor} BY <1>4, CursorFolded DEF TypeInv
<1>8. task.status # "COMPLETED" /\ l.state # "completed" => FoldOf(task, q).status # "COMPLETED"
  BY <1>4, IncompleteFolded DEF TypeInv, E
<1>9. used'.lost = 0 => used.lost = 0 BY <1>5, NothingLost
<1>10. task'.cursor \in {task.cursor, NoCursor} BY <1>6, <1>7
<1>11. Honest BY <1>6, <1>8 DEF Honest
<1>12. Marked' BY <1>9, <1>10, CursorKept
<1> QED BY <1>11, <1>12

\* A return through the journal.
LEMMA TermMarks ==
  ASSUME IInv, TypeInv, Marked, NEW c \in Calls, Active(c), NEW d \in Drivers, NEW l, LoopIn(l),
         d.request = driver.request, d.pendingOp \in KnownOps,
         NEW before \in Seq(Plain), ReturnTerm(c, d, l, before),
         ~overlap /\ l.state = "completed" => proven,
         UNCHANGED <<overlap, earned>>
  PROVE  Marked' /\ Honest
<1>1. d.request \in Calls BY DEF TypeInv, Begun
<1> QED BY <1>1, WordMarks DEF ReturnTerm

\* A commit marker of an operation that is earned.
LEMMA CommitMarks ==
  ASSUME TypeInv, Marked, NEW op \in Ops, NEW post \in Digests \union {NoDigest},
         NEW ok \in BOOLEAN, NEW commits \in BOOLEAN,
         Records(ok, If(commits, <<ExecutionCommitted(AnyTask, op, post)>>)),
         commits /\ ~overlap /\ used'.lost = 0 => op \in earned',
         overlap' = overlap, earned \subseteq earned'
  PROVE  Marked' /\ Honest
<1> DEFINE e == ExecutionCommitted(AnyTask, op, post)
<1>1. e \in Entries BY EntriesTyped
<1>2. e.type = "EXECUTION_COMMITTED" /\ e.op = op /\ e.post = post
  BY DEF ExecutionCommitted, Event
<1> HIDE DEF e
<1>3. op # NoOp BY TaskAssumption
<1>4. CASE ~commits \/ ~ok
  <2>1. task' = task /\ (used'.lost = 0 => used.lost = 0)
    <3>1. CASE ~ok BY <3>1, NothingLost DEF Records
    <3>2. CASE ok /\ ~commits
      <4>1. Records(ok, <<>>) BY <3>2 DEF If
      <4>2. task' = FoldOf(task, <<>>) /\ used' = used BY <3>2, <4>1 DEF Records, FoldOf
      <4> QED BY <1>1, <4>2, TaskFoldedOnce DEF TypeInv
    <3> QED BY <1>4, <3>1, <3>2
  <2> QED BY <2>1, CursorKept DEF Honest
<1>5. CASE commits /\ ok
  <2>1. Records(ok, <<e>>) BY <1>5 DEF If, e
  <2>2. task' = FoldOf(task, <<e>>) /\ used' = used BY <1>5, <2>1 DEF Records, FoldOf
  <2>3. task' = Folded(task, e) BY <1>1, <2>2, TaskFoldedOnce DEF TypeInv
  <2> DEFINE s == Ensured(task)
  <2>4. s \in TaskStates /\ s.cursor = task.cursor
        /\ (task.status # "COMPLETED" => s.status # "COMPLETED")
    BY DEF Ensured, TypeInv, TaskStates
  <2>5. task' = Committed(s, e) BY <1>2, <2>3 DEF Folded
  <2> HIDE DEF s
  <2>6. /\ task'.status = s.status
        /\ \/ task'.cursor = s.cursor
           \/ task'.cursor.status = "COMMITTED" /\ task'.cursor.op = op
    BY <1>2, <1>3, <2>4, <2>5 DEF Committed, HasCursor, TaskStates, Cursors
  <2>7. Honest BY <2>4, <2>6 DEF Honest
  <2>8. CASE task'.cursor = s.cursor BY <2>2, <2>4, <2>7, <2>8, CursorKept
  <2>9. CASE task'.cursor.status = "COMMITTED" /\ task'.cursor.op = op
    BY <1>5, <2>2, <2>7, <2>9 DEF Marked
  <2> QED BY <2>6, <2>7, <2>8, <2>9
<1> QED BY <1>4, <1>5

\* A dispatch: the digest after is not known.
LEMMA DispatchMarks ==
  ASSUME TypeInv, Marked, NEW op \in Ops, NEW ok \in BOOLEAN, NEW ready \in BOOLEAN,
         Records(ok, If(ready, <<CursorDispatched(AnyTask, op, tree, NoDigest)>>)),
         UNCHANGED <<overlap, earned>>
  PROVE  Marked' /\ Honest
<1> DEFINE e == CursorDispatched(AnyTask, op, tree, NoDigest)
<1>1. e \in Entries BY EntriesTyped DEF TypeInv
<1>2. e.type = "CURSOR_DISPATCHED" /\ e.post = NoDigest BY DEF CursorDispatched, Event
<1> HIDE DEF e
<1>3. CASE ~ready \/ ~ok
  <2>1. task' = task /\ (used'.lost = 0 => used.lost = 0)
    <3>1. CASE ~ok BY <3>1, NothingLost DEF Records
    <3>2. CASE ok /\ ~ready
      <4>1. Records(ok, <<>>) BY <3>2 DEF If
      <4>2. task' = FoldOf(task, <<>>) /\ used' = used BY <3>2, <4>1 DEF Records, FoldOf
      <4> QED BY <1>1, <4>2, TaskFoldedOnce DEF TypeInv
    <3> QED BY <1>3, <3>1, <3>2
  <2> QED BY <2>1, CursorKept DEF Honest
<1>4. CASE ready /\ ok
  <2>1. Records(ok, <<e>>) BY <1>4 DEF If, e
  <2>2. task' = FoldOf(task, <<e>>) BY <1>4, <2>1 DEF Records, FoldOf
  <2>3. task' = Folded(task, e) BY <1>1, <2>2, TaskFoldedOnce DEF TypeInv
  <2>4. task'.status = "RUNNING" /\ task'.cursor.status = "DISPATCHED" /\ task'.cursor.post = NoDigest
    BY <1>2, <2>3 DEF Folded
  <2> QED BY <2>4 DEF Marked, Honest
<1> QED BY <1>3, <1>4
-----------------------------------------------------------------------------
\* What the steps of a call do to who is at work.

\* Only a completion that was decided completes the loop.
LEMMA NotCompleted ==
  ASSUME NEW l, LoopIn(l), NEW a \in LoopActions, NEW stops, NEW patch, NEW over
  PROVE  /\ Observed(l).state = "completed" => l.state = "completed"
         /\ Parked(l, patch).state = "completed" => l.state = "completed"
         /\ Released(l).state = "completed" => l.state = "completed"
         /\ Aborted(l).state = "aborted" /\ Aborted(l).attempts = l.attempts
         /\ Consumed(l, over).state = "completed" => l.state = "completed"
         /\ Stepped(l, a, stops, patch).state = "completed" => a = "complete"
<1>1. l \in Loops BY DEF LoopIn
<1>2. Successor[a] = "completed" => a = "complete" BY DEF Successor, LoopActions
<1>3. Decided(l, a, patch).state = Successor[a] BY <1>1 DEF Decided, Used, Loops
<1>4. Stepped(l, a, stops, patch)
        \in {Aborted(l), Aborted(Decided(l, a, patch)), Decided(l, a, patch)}
  BY DEF Stepped
<1>5. \A n : Aborted(n).state = "completed" => n.state = "completed"
  BY DEF Aborted
<1>6. Aborted(l).state = "aborted" /\ Aborted(l).attempts = l.attempts BY <1>1 DEF Aborted, Loops
<1>7. Stepped(l, a, stops, patch).state = "completed" => a = "complete"
  BY <1>2, <1>3, <1>4, <1>5, <1>6
<1> QED BY <1>1, <1>6, <1>7 DEF Observed, Parked, Released, Consumed, When, Loops

LEMMA StepsOn ==
  ASSUME NEW l, LoopIn(l), NEW a \in LoopActions, a # "complete", NEW stops \in BOOLEAN,
         NEW patch \in BOOLEAN
  PROVE  Stepped(l, a, stops, patch).state # "completed"
  BY NotCompleted

\* Who has something under way is the latest call.
LEMMA Sole ==
  ASSUME ControlInv, NEW c \in Calls, ~AtRest(c), ~overlap
  PROVE  c = driver.runID /\ loop.state \notin {"awaiting_human", "completed"}
  BY DEF ControlInv, Alone

\* A driver that is still in the run it was in.
SameRun(d) ==
  /\ d.runID = driver.runID /\ d.request = driver.request
  /\ d.pendingOp = driver.pendingOp /\ d.ready = driver.ready
  /\ d.staged => driver.staged

\* A call that moves on: it stays alone, and takes nothing with it.
LEMMA MovesControl ==
  ASSUME IInv, TypeInv, ControlInv, NEW c \in Calls, Active(c),
         NEW pc \in PCs \ {"gate", "execute", "result"}, Goto(c, pc), SameRun(driver'),
         call[c].pc = "gate" => ~driver'.staged,
         UNCHANGED <<overlap, proven, earned>>, used'.lost = 0 => used.lost = 0,
         ~overlap =>
           /\ pc \in {"done", "return", "head"} \/ c = driver.runID
           /\ loop' = loop \/ c = driver.runID
           /\ loop'.state \in {"awaiting_human", "completed"} => pc \in {"done", "return", "head"}
           /\ loop'.state = "completed" => proven
  PROVE  ControlInv'
<1>1. /\ call'[c].pc = pc /\ \A b \in Calls \ {c} : call'[b] = call[b]
  BY GotoOne DEF IInv
<1>2. driver'.runID = driver.runID BY DEF SameRun
<1>3. Alone'
  <2> SUFFICES ASSUME ~overlap' PROVE Alone' BY DEF Alone
  <2>1. \A b \in Calls : b # driver.runID => AtRest(b)' BY <1>1 DEF ControlInv, Alone, AtRest
  <2>2. ASSUME loop'.state \in {"awaiting_human", "completed"} PROVE \A b \in Calls : AtRest(b)'
    <3>1. AtRest(c)' BY <1>1, <2>2 DEF AtRest
    <3>2. CASE c = driver.runID
      BY <1>1, <2>1, <3>1, <3>2
    <3>3. CASE loop' = loop
      <4>1. \A b \in Calls : AtRest(b) BY <2>2, <3>3 DEF ControlInv, Alone
      <4> QED BY <1>1, <3>1, <4>1 DEF AtRest
    <3> QED BY <3>2, <3>3
  <2> QED BY <1>2, <2>1, <2>2 DEF Alone
<1>4. Backed' BY <1>1 DEF ControlInv, Backed
<1>5. Staged'
  <2> SUFFICES ASSUME ~overlap', driver'.staged PROVE Staged' BY DEF Staged
  <2>1. /\ \E b \in Calls : b = driver.runID /\ call[b].pc = "gate"
        /\ LatchedOp(driver, loop) \in earned
    BY DEF ControlInv, Staged, SameRun
  <2>2. c # driver.runID BY <2>1
  <2>3. LatchedOp(driver', loop') = LatchedOp(driver, loop)
    BY <2>2 DEF SameRun, LatchedOp, OperationOf
  <2> QED BY <1>1, <1>2, <2>1, <2>2, <2>3 DEF Staged
<1>6. Latched' BY <1>1 DEF ControlInv, Latched, SameRun
<1> QED BY <1>3, <1>4, <1>5, <1>6 DEF ControlInv

\* A step that writes what is under way in place.
LEMMA WritesControl ==
  ASSUME IInv, TypeInv, ControlInv, NEW c \in Calls, ~AtRest(c), Active(c),
         NEW r, Writes(c, r), loop' = loop,
         driver'.runID = driver.runID,
         overlap' = overlap, earned \subseteq earned', used'.lost = 0 => used.lost = 0,
         ~overlap /\ r.pc = "gate" /\ r.decision = "complete" => proven',
         ~overlap /\ driver'.staged => r.pc = "gate" /\ LatchedOp(driver', loop) \in earned',
         r.pc = "result" /\ r.outcome = "changed" => r.op \in earned',
         r.pc \in {"execute", "result"} /\ ~overlap /\ driver'.ready /\ used'.lost = 0 =>
           driver'.pendingOp = r.op,
         r.pc \notin {"none", "done", "return", "head"}
  PROVE  ControlInv'
<1>1. /\ call'[c] = r /\ \A b \in Calls \ {c} : call'[b] = call[b]
  BY DEF Writes, IInv
<1>2. ~overlap => /\ c = driver.runID /\ loop.state \notin {"awaiting_human", "completed"}
                  /\ \A b \in Calls \ {c} : AtRest(b)
  BY Sole DEF ControlInv, Alone
<1>3. \A b \in Calls \ {c} : AtRest(b)' = AtRest(b) BY <1>1 DEF AtRest
<1>4. Alone' BY <1>2, <1>3 DEF Alone
<1>5. Backed' BY <1>1, <1>2, <1>3 DEF Backed, AtRest
<1>6. Staged' BY <1>1, <1>2 DEF Staged
<1>7. Latched'
  <2> SUFFICES ASSUME NEW b \in Calls
               PROVE  /\ call'[b].pc = "result" /\ call'[b].outcome = "changed" => call'[b].op \in earned'
                      /\ /\ call'[b].pc \in {"execute", "result"} /\ ~overlap'
                         /\ driver'.ready /\ used'.lost = 0
                         => driver'.pendingOp = call'[b].op
    BY DEF Latched
  <2>1. CASE b = c BY <1>1, <2>1
  <2>2. CASE b # c
    <3>1. call'[b] = call[b] /\ (~overlap => AtRest(b)) BY <1>1, <1>2, <2>2
    <3>2. call[b].pc = "result" /\ call[b].outcome = "changed" => call[b].op \in earned
      BY DEF ControlInv, Latched
    <3> QED BY <3>1, <3>2 DEF AtRest
  <2> QED BY <2>1, <2>2
<1> QED BY <1>4, <1>5, <1>6, <1>7 DEF ControlInv

-----------------------------------------------------------------------------
\* The steps of a call, and all that a step has to show.

Kept == ControlInv' /\ Marked' /\ Honest

\* A return through the journal.
LEMMA TermKept ==
  ASSUME IInv, TypeInv, ControlInv, Marked, NEW c \in Calls, Active(c),
         NEW d \in Drivers, NEW l, LoopIn(l), SameRun(d), call[c].pc # "gate",
         NEW before \in Seq(Plain), ReturnTerm(c, d, l, before), Elsewhere,
         l.state = "completed" => loop.state = "completed",
         ~overlap => l = loop \/ c = driver.runID
  PROVE  Kept
<1>1. /\ loop' = l /\ driver' = Termed(d, l) /\ Goto(c, "done")
      /\ \E ok \in BOOLEAN : Records(ok, before \o TermEvents(d, l))
  BY DEF ReturnTerm, Finish
<1>2. SameRun(driver') BY <1>1 DEF SameRun, Termed, Drivers
<1>3. "done" \in PCs \ {"gate", "execute", "result"} BY DEF PCs
<1>4. used'.lost = 0 => used.lost = 0 BY <1>1, NothingLost
<1>5. ~overlap /\ l.state = "completed" => proven BY DEF ControlInv, Backed
<1>6. UNCHANGED <<overlap, proven, earned>> BY DEF Elsewhere
<1>7. ControlInv' BY <1>1, <1>2, <1>3, <1>4, <1>5, <1>6, MovesControl
<1>8. d.request = driver.request /\ d.pendingOp \in KnownOps BY DEF SameRun, TypeInv
<1>9. Marked' /\ Honest BY <1>5, <1>6, <1>8, TermMarks
<1> QED BY <1>7, <1>9 DEF Kept

\* A step that goes on, or returns, with plain events or none.
LEMMA PlainKept ==
  ASSUME IInv, TypeInv, ControlInv, Marked, NEW c \in Calls, Active(c),
         NEW d \in Drivers, NEW l, LoopIn(l), SameRun(d), call[c].pc # "gate",
         NEW pc \in {"done", "return", "head"}, Goto(c, pc), loop' = l, driver' = d, Elsewhere,
         NoRecord \/ \E ok \in BOOLEAN, q \in Seq(Plain) : Records(ok, q),
         l.state = "completed" => loop.state = "completed",
         ~overlap => l = loop \/ c = driver.runID
  PROVE  Kept
<1>1. pc \in PCs \ {"gate", "execute", "result"} BY DEF PCs
<1>2. used'.lost = 0 => used.lost = 0
  <2>1. Plain \subseteq Entries BY DEF Plain, Quiet
  <2> QED BY NothingLost DEF NoRecord
<1>3. ~overlap /\ l.state = "completed" => proven BY DEF ControlInv, Backed
<1>4. UNCHANGED <<overlap, proven, earned>> BY DEF Elsewhere
<1>5. ControlInv' BY <1>1, <1>2, <1>3, <1>4, MovesControl
<1>6. Marked' /\ Honest BY <1>4, PlainMarks
<1> QED BY <1>5, <1>6 DEF Kept

LEMMA NoEvents ==
  /\ <<>> \in Seq(Plain)
  /\ driver \in Drivers => SameRun(driver)
  BY DEF SameRun

LEMMA ReturnFromTrue ==
  ASSUME IInv, TypeInv, ControlInv, Marked, NEW c \in Calls, ReturnFrom(c)
  PROVE  Kept
<1>1. Active(c) /\ call[c].pc = "return" /\ Elsewhere /\ ReturnTerm(c, driver, loop, <<>>)
  BY DEF ReturnFrom, Active
<1> QED BY <1>1, TypedStanding, NoEvents, TermKept

LEMMA ObserveTrue ==
  ASSUME IInv, TypeInv, ControlInv, Marked, NEW c \in Calls, Observe(c)
  PROVE  Kept
<1> DEFINE l == Observed(loop)
           parked == IF Waiting(l) THEN l ELSE Parked(l, FALSE)
<1>1. Active(c) /\ call[c].pc = "observe" /\ Elsewhere BY DEF Observe, Active
<1>2. LoopIn(loop) /\ LoopIn(l) /\ (l.state = "completed" => loop.state = "completed")
  BY <1>1, TypedStanding, MovedWithin, NotCompleted DEF LoopActions
<1>3. \/ ReturnTerm(c, driver, parked, <<>>)
      \/ ReturnBare(c, driver, Aborted(l)) /\ NoRecord
      \/ ReturnTerm(c, driver, loop, <<>>)
      \/ Continue(c, driver, l, "head") /\ NoRecord
  BY DEF Observe
<1> HIDE DEF l
<1>4. /\ LoopIn(parked) /\ (parked.state = "completed" => l.state = "completed")
      /\ LoopIn(Aborted(l)) /\ Aborted(l).state # "completed"
  <2>1. LoopIn(Parked(l, FALSE)) /\ LoopIn(Aborted(l)) BY <1>2, MovedWithin
  <2>2. /\ Parked(l, FALSE).state = "completed" => l.state = "completed"
        /\ Aborted(l).state = "aborted"
    BY <1>2 DEF Parked, Aborted, LoopIn, Loops
  <2> QED BY <1>2, <2>1, <2>2
<1> HIDE DEF parked
<1>5. ~overlap => c = driver.runID BY <1>1, Sole DEF AtRest
<1>6. CASE ReturnTerm(c, driver, parked, <<>>)
  BY <1>1, <1>2, <1>4, <1>5, <1>6, TypedStanding, NoEvents, TermKept
<1>7. CASE ReturnTerm(c, driver, loop, <<>>)
  BY <1>1, <1>2, <1>5, <1>7, TypedStanding, NoEvents, TermKept
<1>8. CASE ReturnBare(c, driver, Aborted(l)) /\ NoRecord
  BY <1>1, <1>4, <1>5, <1>8, TypedStanding, NoEvents, PlainKept DEF ReturnBare, Finish
<1>9. CASE Continue(c, driver, l, "head") /\ NoRecord
  BY <1>1, <1>2, <1>5, <1>9, TypedStanding, NoEvents, PlainKept DEF Continue
<1> QED BY <1>3, <1>6, <1>7, <1>8, <1>9

LEMMA LoopHeadTrue ==
  ASSUME IInv, TypeInv, ControlInv, Marked, NEW c \in Calls, LoopHead(c)
  PROVE  Kept
<1> DEFINE d == [driver EXCEPT !.staged = FALSE]
           checkpoint == If(driver.ready, <<CheckpointCreated(AnyTask)>>)
<1>1. Active(c) /\ call[c].pc = "head" /\ Elsewhere BY DEF LoopHead, Active
<1>2. driver \in Drivers /\ LoopIn(loop) BY <1>1, TypedStanding
<1>3. checkpoint \in Seq(Plain) BY <1>2, PlainEvents, PlainOne DEF Drivers
<1>4. \/ ReturnTerm(c, driver, loop, <<>>) \/ ReturnTerm(c, driver, loop, checkpoint)
      \/ /\ driver.runID = c
         /\ \E ok \in BOOLEAN : Records(ok, checkpoint)
         /\ \/ ReturnBare(c, d, Aborted(loop))
            \/ Continue(c, driver, loop, Route[loop.state])
  BY DEF LoopHead
<1>5. d \in Drivers /\ SameRun(d) BY <1>2 DEF Drivers, SameRun
<1>6. LoopIn(Aborted(loop)) /\ Aborted(loop).state # "completed"
  BY <1>2, MovedWithin, NotCompleted DEF LoopActions
<1>7. /\ Route[loop.state] \in PCs \ {"gate", "execute", "result"}
      /\ loop.state \in {"awaiting_human", "completed"} => Route[loop.state] = "return"
  BY <1>2 DEF LoopIn, Loops, LoopStates, Route, PCs
<1> HIDE DEF d, checkpoint
<1>8. CASE ReturnTerm(c, driver, loop, <<>>) \/ ReturnTerm(c, driver, loop, checkpoint)
  BY <1>1, <1>2, <1>3, <1>8, NoEvents, TermKept
<1>9. CASE /\ driver.runID = c
           /\ \E ok \in BOOLEAN : Records(ok, checkpoint)
           /\ ReturnBare(c, d, Aborted(loop))
  BY <1>1, <1>3, <1>5, <1>6, <1>9, PlainKept DEF ReturnBare, Finish
<1>10. CASE /\ driver.runID = c
            /\ \E ok \in BOOLEAN : Records(ok, checkpoint)
            /\ Continue(c, driver, loop, Route[loop.state])
  <2>1. Goto(c, Route[loop.state]) /\ loop' = loop /\ driver' = driver BY <1>10 DEF Continue
  <2>2. UNCHANGED <<overlap, proven, earned>> BY <1>1 DEF Elsewhere
  <2>3. checkpoint \in Seq(Entries) BY <1>3 DEF Plain, Quiet
  <2>4. used'.lost = 0 => used.lost = 0 BY <1>10, NothingLost
  <2>5. SameRun(driver') BY <2>1 DEF SameRun
  <2>6. ~overlap /\ loop'.state = "completed" => proven BY <2>1 DEF ControlInv, Backed
  <2>7. ControlInv' BY <1>1, <1>7, <1>10, <2>1, <2>2, <2>4, <2>5, <2>6, MovesControl
  <2>8. Marked' /\ Honest BY <1>3, <1>10, <2>2, PlainMarks
  <2> QED BY <2>7, <2>8 DEF Kept
<1> QED BY <1>4, <1>8, <1>9, <1>10

LEMMA DecideTrue ==
  ASSUME IInv, TypeInv, ControlInv, Marked, NEW c \in Calls, Decide(c)
  PROVE  Kept
<1>1. Active(c) /\ ~AtRest(c) /\ call[c].pc = "decide" BY DEF Decide, Active, AtRest
<1>2. PICK b \in LoopActions, staged \in BOOLEAN :
        /\ call' = [call EXCEPT ![c].pc = "gate", ![c].decision = b]
        /\ driver' = [driver EXCEPT !.staged = staged]
        /\ staged => earned' = earned \union {LatchedOp(driver, loop)} /\ proven'
        /\ earned \subseteq earned'
        /\ b = "complete" => proven'
  <2>1. PICK a \in Proposed(driver.obs) :
       \/ /\ a = "complete"
          /\ call' = [call EXCEPT ![c].pc = "gate", ![c].decision = a]
          /\ driver' = [driver EXCEPT !.staged = TRUE]
          /\ earned' = earned \union {LatchedOp(driver, loop)}
          /\ proven' = TRUE
       \/ /\ \E b \in IF a = "complete" THEN Refused(driver.gated) ELSE Routed(a, driver.gated) :
               call' = [call EXCEPT ![c].pc = "gate", ![c].decision = b]
          /\ driver' = [driver EXCEPT !.staged = FALSE]
          /\ proven' = FALSE
          /\ UNCHANGED earned
    BY DEF Decide
  <2>2. a \in LoopActions BY DEF Proposed, LoopActions
  <2>3. \A b \in IF a = "complete" THEN Refused(driver.gated) ELSE Routed(a, driver.gated) :
          b \in LoopActions /\ b # "complete"
    BY <2>2 DEF Refused, Routed, LoopActions
  <2>4. CASE /\ a = "complete"
             /\ call' = [call EXCEPT ![c].pc = "gate", ![c].decision = a]
             /\ driver' = [driver EXCEPT !.staged = TRUE]
             /\ earned' = earned \union {LatchedOp(driver, loop)}
             /\ proven' = TRUE
    BY <2>2, <2>4
  <2>5. CASE /\ \E b \in IF a = "complete" THEN Refused(driver.gated) ELSE Routed(a, driver.gated) :
                  call' = [call EXCEPT ![c].pc = "gate", ![c].decision = b]
             /\ driver' = [driver EXCEPT !.staged = FALSE]
             /\ proven' = FALSE
             /\ UNCHANGED earned
    BY <2>3, <2>5
  <2> QED BY <2>1, <2>4, <2>5
<1>3. UNCHANGED <<task, loop, overlap, used>> BY DEF Decide
<1> DEFINE r == [call[c] EXCEPT !.pc = "gate", !.decision = b]
<1>4. Writes(c, r) BY <1>2 DEF Writes
<1>5. r.pc = "gate" /\ r.decision = b BY DEF IInv, CallRecords
<1>6. /\ driver'.runID = driver.runID /\ driver'.staged = staged
      /\ LatchedOp(driver', loop) = LatchedOp(driver, loop)
  BY <1>2 DEF IInv, Drivers, LatchedOp, OperationOf
<1> HIDE DEF r
<1>7. ControlInv' BY <1>1, <1>2, <1>3, <1>4, <1>5, <1>6, WritesControl
<1>8. Marked' /\ Honest BY <1>2, <1>3, PlainMarks DEF NoRecord
<1> QED BY <1>7, <1>8 DEF Kept

\* A completion that passes the gate was proven, and what it commits is earned.
LEMMA GateTrue ==
  ASSUME IInv, TypeInv, ControlInv, Marked, NEW c \in Calls, Gate(c)
  PROVE  Kept
<1>1. Active(c) /\ ~AtRest(c) /\ call[c].pc = "gate" /\ Elsewhere
  BY DEF Gate, Active, AtRest
<1>2. PICK a \in (IF call[c].decision = "complete"
                  THEN {"complete", "ask_human", "unsubstantiate"}
                  ELSE {call[c].decision}),
           ok \in BOOLEAN, commits \in BOOLEAN, patch \in BOOLEAN :
        LET op == LatchedOp(driver, loop)
            d == [driver EXCEPT !.staged = FALSE,
                                !.committedOp = IF commits /\ ok THEN op ELSE @]
        IN  /\ commits => driver.staged
            /\ Records(ok, If(commits, <<ExecutionCommitted(AnyTask, op, NoDigest)>>))
            /\ \/ ReturnBare(c, d, loop)
               \/ Continue(c, d, Stepped(loop, a, Stops(c), patch), "head")
  BY <1>1, TypedStanding DEF Gate, Drivers, Stops
<1> DEFINE op == LatchedOp(driver, loop)
           committed == IF commits /\ ok THEN op ELSE driver.committedOp
           d == [driver EXCEPT !.staged = FALSE, !.committedOp = committed]
           l == Stepped(loop, a, Stops(c), patch)
           q == If(commits, <<ExecutionCommitted(AnyTask, op, NoDigest)>>)
<1>3. a \in LoopActions /\ (a = "complete" => call[c].decision = "complete")
  BY <1>1, <1>2 DEF IInv, Decisive, LoopActions
<1>4. l.state = "completed" => call[c].decision = "complete"
  BY <1>1, <1>3, TypedStanding, NotCompleted
<1>5. op \in Ops BY <1>1, TypedStanding
<1>6. Records(ok, q) /\ (ReturnBare(c, d, loop) \/ Continue(c, d, l, "head")) BY <1>2
<1>7. commits /\ ~overlap => op \in earned BY <1>2 DEF ControlInv, Staged
<1>8. UNCHANGED <<overlap, proven, earned>> BY <1>1 DEF Elsewhere
<1>9. used'.lost = 0 => used.lost = 0 BY <1>6, NothingLost
<1>10. Marked' /\ Honest BY <1>5, <1>6, <1>7, <1>8, CommitMarks
<1> HIDE DEF committed, l, q
<1>11. SameRun(d) /\ ~d.staged BY <1>1, TypedStanding DEF Drivers, SameRun
<1> HIDE DEF d
<1>12. ~overlap => c = driver.runID BY <1>1, Sole
<1>13. ~overlap /\ loop.state = "completed" => proven BY DEF ControlInv, Backed
<1>14. ~overlap /\ l.state = "completed" => proven BY <1>1, <1>4 DEF ControlInv, Backed
<1>15. PICK pc \in {"done", "head"} : Goto(c, pc) /\ driver' = d /\ loop' \in {loop, l}
  BY <1>6 DEF ReturnBare, Continue, Finish
<1>16. pc \in PCs \ {"gate", "execute", "result"} BY DEF PCs
<1>17. ControlInv' BY <1>1, <1>8, <1>9, <1>11, <1>12, <1>13, <1>14, <1>15, <1>16, MovesControl
<1> QED BY <1>10, <1>17 DEF Kept

LEMMA PrepareTrue ==
  ASSUME IInv, TypeInv, ControlInv, Marked, NEW c \in Calls, Prepare(c)
  PROVE  Kept
<1>1. Active(c) /\ ~AtRest(c) /\ call[c].pc = "prepare" /\ Elsewhere
  BY DEF Prepare, Active, AtRest
<1>2. ~overlap => c = driver.runID BY <1>1, Sole
<1>3. CASE ReturnBare(c, driver, Aborted(loop)) /\ NoRecord
  <2>1. LoopIn(Aborted(loop)) /\ Aborted(loop).state # "completed"
    BY <1>1, TypedStanding, MovedWithin, NotCompleted DEF LoopActions
  <2> QED BY <1>1, <1>2, <1>3, <2>1, TypedStanding, NoEvents, PlainKept DEF ReturnBare, Finish
<1>4. ASSUME NEW ok \in BOOLEAN, UNCHANGED loop,
             Records(ok, If(driver.ready, <<CursorDispatched(AnyTask, OperationOf(driver, loop),
                                                             tree, NoDigest)>>)),
             driver' = [driver EXCEPT !.pendingOp =
                          IF driver.ready /\ ok THEN OperationOf(driver, loop) ELSE @],
             call' = [call EXCEPT ![c].pc = "execute", ![c].op = OperationOf(driver, loop)]
      PROVE  Kept
  <2> DEFINE op == OperationOf(driver, loop)
             pending == IF driver.ready /\ ok THEN op ELSE driver.pendingOp
             q == If(driver.ready, <<CursorDispatched(AnyTask, op, tree, NoDigest)>>)
             r == [call[c] EXCEPT !.pc = "execute", !.op = op]
  <2>1. driver \in Drivers /\ op \in Ops /\ driver.ready \in BOOLEAN
    BY <1>1, TypedStanding DEF Drivers
  <2>2. Records(ok, q) /\ driver' = [driver EXCEPT !.pendingOp = pending] /\ Writes(c, r)
    BY <1>4 DEF Writes
  <2>3. UNCHANGED <<overlap, proven, earned>> BY <1>1 DEF Elsewhere
  <2>4. Marked' /\ Honest BY <2>1, <2>2, <2>3, DispatchMarks
  <2>5. used'.lost = 0 => used.lost = 0 BY <2>2, NothingLost
  <2>6. driver.ready /\ used'.lost = 0 => pending = op
    <3> SUFFICES ASSUME driver.ready, used'.lost = 0, ~ok PROVE FALSE OBVIOUS
    <3>1. Spend("lost") BY <2>2 DEF Records
    <3>2. used'.lost = used.lost + 1 /\ used.lost \in Nat
      BY <3>1, DriverAssumption DEF Spend, TypeInv
    <3> QED BY <3>2
  <2> HIDE DEF op, pending, q
  <2>7. r.pc = "execute" /\ r.op = op BY DEF IInv, CallRecords
  <2> HIDE DEF r
  <2>8. /\ driver'.runID = driver.runID /\ driver'.staged = driver.staged
        /\ driver'.ready = driver.ready /\ driver'.pendingOp = pending
    BY <2>1, <2>2 DEF Drivers
  <2>9. ~overlap => ~driver.staged BY <1>1, <1>2 DEF ControlInv, Staged
  <2>10. ControlInv'
    BY <1>1, <1>4, <2>2, <2>3, <2>5, <2>6, <2>7, <2>8, <2>9, WritesControl
  <2> QED BY <2>4, <2>10 DEF Kept
<1> QED BY <1>3, <1>4 DEF Prepare

LEMMA ExecuteTrue ==
  ASSUME IInv, TypeInv, ControlInv, Marked, NEW c \in Calls, Execute(c)
  PROVE  Kept
<1>1. Active(c) /\ ~AtRest(c) /\ call[c].pc = "execute" BY DEF Execute, Active, AtRest
<1>2. PICK outcome \in Outcomes \ {"none"} :
        /\ call' = [call EXCEPT ![c].pc = "result", ![c].outcome = outcome,
                                ![c].late = @ + (IF c \in cancelled THEN 1 ELSE 0)]
        /\ outcome = "changed" => call[c].op \in earned'
  BY DEF Execute
<1>3. UNCHANGED <<task, loop, driver, overlap, used, proven>> /\ earned \subseteq earned'
  BY DEF Execute
<1> DEFINE late == call[c].late + (IF c \in cancelled THEN 1 ELSE 0)
           r == [call[c] EXCEPT !.pc = "result", !.outcome = outcome, !.late = late]
<1>4. Writes(c, r) BY <1>2 DEF Writes
<1> HIDE DEF late
<1>5. r.pc = "result" /\ r.outcome = outcome /\ r.op = call[c].op BY DEF IInv, CallRecords
<1> HIDE DEF r
<1>6. ~overlap => ~driver.staged
  <2>1. ~overlap => c = driver.runID BY <1>1, Sole
  <2> QED BY <1>1, <2>1 DEF ControlInv, Staged
<1>7. ~overlap /\ driver.ready /\ used.lost = 0 => driver.pendingOp = call[c].op
  BY <1>1 DEF ControlInv, Latched
<1>8. ControlInv' BY <1>1, <1>2, <1>3, <1>4, <1>5, <1>6, <1>7, WritesControl
<1>9. Marked' /\ Honest BY <1>3, PlainMarks DEF NoRecord
<1> QED BY <1>8, <1>9 DEF Kept
\* The result is committed under the operation that was dispatched, and only
\* where the tree was changed.
LEMMA ResultTrue ==
  ASSUME IInv, TypeInv, ControlInv, Marked, NEW c \in Calls, Result(c)
  PROVE  Kept
<1>1. Active(c) /\ ~AtRest(c) /\ call[c].pc = "result" /\ Elsewhere
  BY DEF Result, Active, AtRest
<1>2. ~overlap => c = driver.runID /\ loop.state \notin {"awaiting_human", "completed"}
  BY <1>1, Sole
<1>3. CASE ReturnTerm(c, driver, loop, <<>>)
  BY <1>1, <1>3, TypedStanding, NoEvents, TermKept
<1>4. CASE AfterError(c) /\ UNCHANGED <<loop, driver>> /\ NoRecord
  BY <1>1, <1>4, TypedStanding, NoEvents, PlainKept DEF AfterError, Finish
<1> DEFINE op == LatchedOp(driver, loop)
           landed == driver.ready /\ ShowsCommit(call[c].outcome) /\ driver.committedOp # op
<1>5. ASSUME NEW ok \in BOOLEAN, NEW commits \in BOOLEAN, commits = landed,
             LET outcome == call[c].outcome
                 d == [driver EXCEPT !.obs = outcome,
                                     !.committedOp = IF commits /\ ok THEN op ELSE @]
             IN  /\ Records(ok, If(commits, <<ExecutionCommitted(AnyTask, op, tree)>>))
                 /\ \/ Continue(c, d, IF Stops(c) THEN loop ELSE Parked(loop, FALSE), "return")
                    \/ ReturnBare(c, d, loop)
                    \/ Continue(c, d, Stepped(loop, "abort", Stops(c), FALSE), "head")
                    \/ Continue(c, d, loop, "consume")
      PROVE  Kept
  <2> DEFINE committed == IF commits /\ ok THEN op ELSE driver.committedOp
             outcome == call[c].outcome
             d == [driver EXCEPT !.obs = outcome, !.committedOp = committed]
             parked == IF Stops(c) THEN loop ELSE Parked(loop, FALSE)
             ended == Stepped(loop, "abort", Stops(c), FALSE)
             q == If(commits, <<ExecutionCommitted(AnyTask, op, tree)>>)
  <2>1. op \in Ops /\ tree \in Digests \union {NoDigest} BY <1>1, TypedStanding DEF TypeInv
  <2>2. Records(ok, q) BY <1>5
  <2>3. used'.lost = 0 => used.lost = 0 BY <2>2, NothingLost
  <2>4. UNCHANGED <<overlap, proven, earned>> BY <1>1 DEF Elsewhere
  <2>5. commits /\ ~overlap /\ used'.lost = 0 => op \in earned'
    <3> SUFFICES ASSUME commits, ~overlap, used'.lost = 0 PROVE op \in earned BY <2>4
    <3>1. driver.ready /\ call[c].outcome = "changed" BY <1>5 DEF ShowsCommit
    <3>2. call[c].op \in earned /\ call[c].op \in Ops
      BY <1>1, <3>1 DEF ControlInv, Latched, TypeInv, Begun
    <3>3. driver.pendingOp = call[c].op BY <1>1, <2>3, <3>1 DEF ControlInv, Latched
    <3>4. op = call[c].op BY <3>2, <3>3, TaskAssumption DEF LatchedOp
    <3> QED BY <3>2, <3>4
  <2>6. Marked' /\ Honest
    <3> HIDE DEF op
    <3> QED BY <2>1, <2>2, <2>4, <2>5, CommitMarks
  <2>7. parked.state = "completed" => loop.state = "completed"
    BY <1>1, TypedStanding DEF Parked, LoopIn, Loops
  <2>8. ended.state # "completed"
    <3>1. "abort" \in LoopActions /\ LoopIn(loop) BY <1>1, TypedStanding DEF LoopActions
    <3>2. "abort" # "complete" /\ Stops(c) \in BOOLEAN BY DEF Stops
    <3> QED BY <3>1, <3>2, StepsOn
  <2>9. \/ Continue(c, d, parked, "return")
        \/ ReturnBare(c, d, loop)
        \/ Continue(c, d, ended, "head")
        \/ Continue(c, d, loop, "consume")
    BY <1>5
  <2> HIDE DEF op, landed, committed, outcome, parked, ended, q
  <2>10. SameRun(d) /\ d.staged = driver.staged BY <1>1, TypedStanding DEF Drivers, SameRun
  <2> HIDE DEF d
  <2>11. \A pc \in {"done", "return", "head", "consume"} : pc \in PCs \ {"gate", "execute", "result"}
    BY DEF PCs
  <2>12. PICK pc \in {"done", "return", "head", "consume"}, l \in {loop, parked, ended} :
           /\ Goto(c, pc) /\ driver' = d /\ loop' = l
           /\ pc = "consume" => l = loop
    BY <2>9 DEF Continue, ReturnBare, Finish
  <2>13. ~overlap /\ loop'.state = "completed" => proven
    BY <2>7, <2>8, <2>12 DEF ControlInv, Backed
  <2>14. ControlInv'
    BY <1>1, <1>2, <2>3, <2>4, <2>10, <2>11, <2>12, <2>13, MovesControl
  <2> QED BY <2>6, <2>14 DEF Kept
<1>6. PICK b \in BOOLEAN : b = landed OBVIOUS
<1> QED BY <1>3, <1>4, <1>5, <1>6 DEF Result

LEMMA ConsumeTrue ==
  ASSUME IInv, TypeInv, ControlInv, Marked, NEW c \in Calls, Consume(c)
  PROVE  Kept
<1>1. Active(c) /\ ~AtRest(c) /\ call[c].pc = "consume" /\ Elsewhere
  BY DEF Consume, Active, AtRest
<1>2. PICK over \in BOOLEAN, passed \in BOOLEAN, ok \in BOOLEAN :
        LET l == Consumed(loop, over)
        IN  /\ Records(ok, If(driver.ready, <<VerificationResult(AnyTask, OperationOf(driver, l),
                                                                 passed)>>))
            /\ \/ Continue(c, driver, l, "head")
               \/ ReturnBare(c, driver, Aborted(l))
               \/ Continue(c, driver, Parked(l, FALSE), "return")
  BY DEF Consume
<1> DEFINE l == Consumed(loop, over)
           q == If(driver.ready, <<VerificationResult(AnyTask, OperationOf(driver, l), passed)>>)
<1>3. LoopIn(loop) /\ driver \in Drivers BY <1>1, TypedStanding
<1>4. LoopIn(l) BY <1>3, ConsumedWithin
<1>5. l.state = "completed" => loop.state = "completed" BY <1>3 DEF Consumed, When, LoopIn, Loops
<1>6. OperationOf(driver, l) \in Ops /\ driver.ready \in BOOLEAN
  BY <1>1, <1>4, TypedStanding, OpsKnown DEF Drivers
<1>7. q \in Seq(Plain) BY <1>6, PlainEvents, PlainOne
<1>8. /\ Records(ok, q)
      /\ \/ Continue(c, driver, l, "head")
         \/ ReturnBare(c, driver, Aborted(l))
         \/ Continue(c, driver, Parked(l, FALSE), "return")
  BY <1>2
<1> HIDE DEF l, q
<1>9. ~overlap => c = driver.runID BY <1>1, Sole
<1> DEFINE aborted == Aborted(l)
           parked == Parked(l, FALSE)
<1>10. /\ LoopIn(aborted) /\ LoopIn(parked) /\ aborted.state # "completed"
       /\ parked.state = "completed" => l.state = "completed"
  <2>1. LoopIn(aborted) /\ LoopIn(parked) BY <1>4, MovedWithin
  <2> QED BY <1>4, <2>1 DEF Aborted, Parked, LoopIn, Loops
<1>11. PICK pc \in {"done", "return", "head"}, n \in {l, aborted, parked} :
         Goto(c, pc) /\ loop' = n /\ driver' = driver
  BY <1>8 DEF Continue, ReturnBare, Finish
<1> HIDE DEF aborted, parked
<1>12. LoopIn(n) /\ (n.state = "completed" => loop.state = "completed")
  BY <1>4, <1>5, <1>10, <1>11
<1> QED BY <1>1, <1>3, <1>7, <1>8, <1>9, <1>11, <1>12, NoEvents, PlainKept

LEMMA RepairTrue ==
  ASSUME IInv, TypeInv, ControlInv, Marked, NEW c \in Calls, Repair(c)
  PROVE  Kept
<1> DEFINE d == [driver EXCEPT !.gated = TRUE]
           parked == Parked(loop, FALSE)
           l == Stepped(loop, "continue", Stops(c), FALSE)
<1>1. Active(c) /\ ~AtRest(c) /\ call[c].pc = "repair" /\ Elsewhere
  BY DEF Repair, Active, AtRest
<1>2. \/ ReturnBare(c, driver, loop) /\ NoRecord
      \/ ReturnTerm(c, d, parked, <<>>)
      \/ Continue(c, driver, l, "head") /\ NoRecord
  BY DEF Repair
<1>3. LoopIn(loop) /\ driver \in Drivers BY <1>1, TypedStanding
<1>4. LoopIn(parked) BY <1>3, MovedWithin
<1>5. parked.state = "completed" => loop.state = "completed" BY <1>3 DEF Parked, LoopIn, Loops
<1>6. LoopIn(l) /\ l.state # "completed"
  <2>1. "continue" \in LoopActions /\ Stops(c) \in BOOLEAN BY DEF LoopActions, Stops
  <2>2. LoopIn(l) BY <1>3, <2>1, SteppedWithin
  <2>3. "continue" # "complete" OBVIOUS
  <2> QED BY <1>3, <2>1, <2>2, <2>3, StepsOn
<1>7. d \in Drivers /\ SameRun(d) BY <1>3 DEF Drivers, SameRun
<1> HIDE DEF d, parked, l
<1>8. ~overlap => c = driver.runID BY <1>1, Sole
<1>9. CASE ReturnTerm(c, d, parked, <<>>)
  BY <1>1, <1>4, <1>5, <1>7, <1>8, <1>9, NoEvents, TermKept
<1>10. CASE ReturnBare(c, driver, loop) /\ NoRecord
  BY <1>1, <1>3, <1>10, NoEvents, PlainKept DEF ReturnBare, Finish
<1>11. CASE Continue(c, driver, l, "head") /\ NoRecord
  BY <1>1, <1>3, <1>6, <1>8, <1>11, NoEvents, PlainKept DEF Continue
<1> QED BY <1>2, <1>9, <1>10, <1>11

-----------------------------------------------------------------------------
\* A new Run, the human, the operator and the end of the process.

\* A Run that begins while no call is active begins alone.
LEMMA RunTrue ==
  ASSUME IInv, TypeInv, ControlInv, Marked, NEW c \in Calls, Run(c)
  PROVE  Kept
<1> DEFINE fresh == [NewDriver EXCEPT !.runID = c, !.request = c]
           begun == Started(NewLoop)
           full == [fresh EXCEPT !.ready = driver.ready,
                                 !.lastState = driver.lastState,
                                 !.pendingOp = driver.pendingOp,
                                 !.committedOp = driver.committedOp]
           bound(ok) == [fresh EXCEPT !.ready = ok \/ BeginEvents = <<>>]
<1>1. /\ UNCHANGED <<earned, proven>>
      /\ overlap' = (overlap \/ \E b \in Calls : Active(b))
      /\ \/ ReturnBare(c, full, Aborted(begun)) /\ NoRecord
         \/ \E ok \in BOOLEAN :
              /\ Records(ok, BeginEvents)
              /\ \/ ReturnBare(c, bound(ok), Aborted(begun))
                 \/ Continue(c, bound(ok), begun, "observe")
                 \/ Continue(c, bound(ok), Parked(begun, FALSE), "return")
  BY DEF Run
<1>2. begun.state = "observing" /\ Aborted(begun).state = "aborted"
      /\ Parked(begun, FALSE).state = "awaiting_human"
  BY DEF Started, When, NewLoop, Aborted, Parked, Over
<1>3. fresh \in Drivers /\ fresh.runID = c BY FreshDriver
<1>4. fresh.staged = FALSE BY DEF NewDriver
<1> HIDE DEF fresh, begun
<1>5. full.runID = c /\ full.staged = FALSE BY <1>3, <1>4 DEF Drivers
<1>6. \A ok \in BOOLEAN : bound(ok).runID = c /\ bound(ok).staged = FALSE
  BY <1>3, <1>4 DEF Drivers
<1> HIDE DEF full, bound
<1>7. PICK pc \in {"done", "observe", "return"} :
        /\ Goto(c, pc) /\ driver'.runID = c /\ ~driver'.staged
        /\ loop'.state # "completed"
        /\ loop'.state = "awaiting_human" => pc = "return"
  BY <1>1, <1>2, <1>5, <1>6 DEF ReturnBare, Continue, Finish
<1>8. pc \in PCs BY DEF PCs
<1>9. /\ call'[c].pc = pc /\ \A b \in Calls \ {c} : call'[b] = call[b]
  BY <1>7, <1>8, GotoOne DEF IInv
<1>10. ~overlap' => ~overlap /\ \A b \in Calls : call[b].pc \in {"none", "done"}
  BY <1>1 DEF Active
<1>11. ControlInv'
  <2>1. Alone' BY <1>7, <1>9, <1>10 DEF Alone, AtRest
  <2>2. Backed' BY <1>7, <1>9, <1>10 DEF Backed
  <2>3. Staged' BY <1>7 DEF Staged
  <2>4. Latched'
    <3> SUFFICES ASSUME NEW b \in Calls
                 PROVE  /\ call'[b].pc = "result" /\ call'[b].outcome = "changed" =>
                             call'[b].op \in earned'
                        /\ /\ call'[b].pc \in {"execute", "result"} /\ ~overlap'
                           /\ driver'.ready /\ used'.lost = 0
                           => driver'.pendingOp = call'[b].op
      BY DEF Latched
    <3>1. CASE b = c BY <1>7, <1>9, <3>1
    <3>2. CASE b # c
      <4>1. call'[b] = call[b] BY <1>9, <3>2
      <4>2. call[b].pc = "result" /\ call[b].outcome = "changed" => call[b].op \in earned
        BY DEF ControlInv, Latched
      <4> QED BY <1>1, <1>10, <4>1, <4>2
    <3> QED BY <3>1, <3>2
  <2> QED BY <2>1, <2>2, <2>3, <2>4 DEF ControlInv
<1>12. BeginEvents \in Seq(Plain)
  <2>1. TaskCreated(AnyTask) \in Plain BY PlainEvents
  <2>2. <<TaskCreated(AnyTask)>> \in Seq(Plain) /\ <<>> \in Seq(Plain) BY <2>1
  <2> QED BY <2>2 DEF BeginEvents, If
<1>13. Marked' /\ Honest BY <1>1, <1>12, PlainMarks
<1> QED BY <1>11, <1>13 DEF Kept
\* Who answers finds no call with anything under way.
LEMMA AnsweredControl ==
  ASSUME IInv, TypeInv, ControlInv, NEW c \in Calls, Resumable(c), NEW d \in Drivers,
         d.runID = driver.runID, d.staged = driver.staged,
         NEW goesOn \in BOOLEAN, Answered(c, d, goesOn),
         UNCHANGED <<overlap, proven>>, earned \subseteq earned'
  PROVE  ControlInv'
<1>1. loop \in Loops /\ Waiting(loop) BY DEF IInv, LoopIn, Resumable
<1>2. Released(loop).state = "observing" /\ Aborted(Released(loop)).state = "aborted"
  <2>1. Released(loop) \in Loops /\ Released(loop).state = "observing"
    BY <1>1 DEF Released, When, Loops, LoopStates, Waiting
  <2> QED BY <2>1 DEF Aborted, Loops
<1>3. /\ driver'.staged = driver.staged
      /\ loop'.state \notin {"awaiting_human", "completed"}
      /\ \/ Goto(c, "observe") /\ driver'.runID = c
         \/ Goto(c, "done") /\ driver'.runID = driver.runID
  BY <1>2 DEF Answered, Continue, Drivers
<1>4. PICK pc \in {"observe", "done"} : Goto(c, pc) /\ (pc = "observe" => driver'.runID = c)
  BY <1>3
<1>5. pc \in PCs BY DEF PCs
<1>6. /\ call'[c].pc = pc /\ \A b \in Calls \ {c} : call'[b] = call[b]
  BY <1>4, <1>5, GotoOne DEF IInv
<1>7. ~overlap => \A b \in Calls : AtRest(b) BY <1>1 DEF ControlInv, Alone, Waiting
<1>8. Alone' BY <1>3, <1>4, <1>6, <1>7 DEF Alone, AtRest
<1>9. Backed' BY <1>3, <1>4, <1>6, <1>7 DEF Backed, AtRest
<1>10. Staged' BY <1>3, <1>7 DEF ControlInv, Staged, AtRest
<1>11. Latched'
  <2> SUFFICES ASSUME NEW b \in Calls
               PROVE  /\ call'[b].pc = "result" /\ call'[b].outcome = "changed" =>
                           call'[b].op \in earned'
                      /\ /\ call'[b].pc \in {"execute", "result"} /\ ~overlap'
                         /\ driver'.ready /\ used'.lost = 0
                         => driver'.pendingOp = call'[b].op
    BY DEF Latched
  <2>1. CASE b = c BY <1>4, <1>6, <2>1
  <2>2. CASE b # c
    <3>1. call'[b] = call[b] /\ (~overlap => AtRest(b)) BY <1>6, <1>7, <2>2
    <3>2. call[b].pc = "result" /\ call[b].outcome = "changed" => call[b].op \in earned
      BY DEF ControlInv, Latched
    <3> QED BY <3>1, <3>2 DEF AtRest
  <2> QED BY <2>1, <2>2
<1> QED BY <1>8, <1>9, <1>10, <1>11 DEF ControlInv

\* The held patch is committed under the operation that landed with it.
LEMMA ApproveTrue ==
  ASSUME IInv, TypeInv, ControlInv, Marked, NEW c \in Calls, Approve(c)
  PROVE  Kept
<1> DEFINE op == LatchedOp(driver, loop)
           commits == driver.ready /\ driver.committedOp # op
           q == If(commits, <<ExecutionCommitted(AnyTask, op, tree')>>)
<1>1. /\ Resumable(c) /\ UNCHANGED <<proven, overlap>> /\ earned \subseteq earned'
      /\ \/ /\ tree' \in Digests /\ op \in earned'
            /\ \E ok \in BOOLEAN :
                 /\ Records(ok, q)
                 /\ Answered(c, [driver EXCEPT !.obs = "changed",
                                               !.committedOp = IF commits /\ ok THEN op ELSE @], TRUE)
         \/ Answered(c, driver, FALSE) /\ NoRecord
         \/ /\ \E o \in {"unchanged", "rejected", "failed"} :
                 Answered(c, [driver EXCEPT !.obs = o], TRUE)
            /\ NoRecord
  BY DEF Approve
<1>2. driver \in Drivers /\ op \in Ops
  <2>1. LoopIn(loop) /\ driver \in Drivers /\ driver.request \in Calls
        /\ driver.pendingOp \in KnownOps
    BY <1>1 DEF Resumable, Waiting, IInv, TypeInv, Begun
  <2> QED BY <2>1, OpsKnown
<1>3. CASE Answered(c, driver, FALSE) /\ NoRecord
  <2>1. ControlInv' BY <1>1, <1>2, <1>3, AnsweredControl
  <2>2. Marked' /\ Honest BY <1>1, <1>3, PlainMarks
  <2> QED BY <2>1, <2>2 DEF Kept
<1>4. ASSUME tree' \in Digests, op \in earned', NEW ok \in BOOLEAN, Records(ok, q),
             Answered(c, [driver EXCEPT !.obs = "changed",
                                        !.committedOp = IF commits /\ ok THEN op ELSE @], TRUE)
      PROVE  Kept
  <2> DEFINE committed == IF commits /\ ok THEN op ELSE driver.committedOp
             d == [driver EXCEPT !.obs = "changed", !.committedOp = committed]
  <2>1. committed \in AnyOp /\ "changed" \in Outcomes BY <1>2 DEF AnyOp, Outcomes, Drivers
  <2>2. PICK b \in BOOLEAN : b = commits OBVIOUS
  <2>3. Records(ok, If(b, <<ExecutionCommitted(AnyTask, op, tree')>>)) BY <1>4, <2>2
  <2>4. Answered(c, d, TRUE) BY <1>4
  <2> HIDE DEF committed, commits, q
  <2>5. Marked' /\ Honest
    <3> HIDE DEF op
    <3>1. tree' \in Digests \union {NoDigest} /\ overlap' = overlap BY <1>1, <1>4
    <3> QED BY <1>1, <1>2, <1>4, <2>3, <3>1, CommitMarks
  <2>6. d \in Drivers /\ d.runID = driver.runID /\ d.staged = driver.staged
    BY <1>2, <2>1 DEF Drivers
  <2> HIDE DEF d, op
  <2>7. ControlInv' BY <1>1, <2>4, <2>6, AnsweredControl
  <2> QED BY <2>5, <2>7 DEF Kept
<1>5. ASSUME NEW o \in {"unchanged", "rejected", "failed"},
             Answered(c, [driver EXCEPT !.obs = o], TRUE), NoRecord
      PROVE  Kept
  <2> DEFINE d == [driver EXCEPT !.obs = o]
  <2>1. d \in Drivers /\ d.runID = driver.runID /\ d.staged = driver.staged
    BY <1>2 DEF Drivers, Outcomes
  <2>2. Answered(c, d, TRUE) BY <1>5
  <2> HIDE DEF d
  <2>3. ControlInv' BY <1>1, <2>1, <2>2, AnsweredControl
  <2>4. Marked' /\ Honest BY <1>1, <1>5, PlainMarks
  <2> QED BY <2>3, <2>4 DEF Kept
<1> QED BY <1>1, <1>3, <1>4, <1>5

LEMMA RejectTrue ==
  ASSUME IInv, TypeInv, ControlInv, Marked, NEW c \in Calls, Reject(c) \/ Clarify(c)
  PROVE  Kept
<1>1. PICK o \in Outcomes, goesOn \in BOOLEAN :
        \/ Answered(c, [driver EXCEPT !.obs = o], goesOn)
        \/ Answered(c, driver, goesOn)
  BY DEF Reject, Clarify, Outcomes
<1>2. Resumable(c) /\ NoRecord /\ UNCHANGED <<overlap, proven, earned>>
  BY DEF Reject, Clarify, Elsewhere
<1>3. driver \in Drivers BY DEF IInv
<1> DEFINE d == [driver EXCEPT !.obs = o]
<1>4. d \in Drivers /\ d.runID = driver.runID /\ d.staged = driver.staged BY <1>3 DEF Drivers
<1> HIDE DEF d
<1>5. ControlInv' BY <1>1, <1>2, <1>3, <1>4, AnsweredControl DEF d
<1>6. Marked' /\ Honest BY <1>2, PlainMarks
<1> QED BY <1>5, <1>6 DEF Kept

LEMMA CancelsTrue ==
  ASSUME IInv, TypeInv, ControlInv, Marked, (\E c \in Calls : Cancel(c)) \/ BeginAbort \/ EndAbort
  PROVE  Kept
<1>1. UNCHANGED <<task, call, earned, proven, overlap>> BY DEF Cancel, BeginAbort, EndAbort
<1>2. used'.lost = used.lost BY DEF Cancel, BeginAbort, EndAbort, Spend, TypeInv
<1>3. SameRun(driver')
  <2>1. driver' = driver \/ driver' = [driver EXCEPT !.staged = FALSE]
    BY DEF Cancel, BeginAbort, EndAbort
  <2> QED BY <2>1 DEF IInv, Drivers, SameRun
<1>4. loop' = loop \/ loop' = Aborted(loop) BY DEF Cancel, BeginAbort, EndAbort
<1>5. Aborted(loop).state = "aborted" /\ Aborted(loop).attempts = loop.attempts
  BY DEF Aborted, IInv, LoopIn, Loops
<1>6. loop'.attempts = loop.attempts /\ loop'.state \in {loop.state, "aborted"} BY <1>4, <1>5
<1>7. LatchedOp(driver', loop') = LatchedOp(driver, loop)
  BY <1>3, <1>6 DEF SameRun, LatchedOp, OperationOf
<1>8. Alone' BY <1>1, <1>3, <1>6 DEF ControlInv, Alone, AtRest, SameRun
<1>9. Backed' BY <1>1, <1>6 DEF ControlInv, Backed
<1>10. Staged' BY <1>1, <1>3, <1>7 DEF ControlInv, Staged, SameRun
<1>11. Latched' BY <1>1, <1>2, <1>3 DEF ControlInv, Latched, SameRun
<1>12. Marked' BY <1>1, <1>2, CursorKept
<1> QED BY <1>1, <1>8, <1>9, <1>10, <1>11, <1>12 DEF Kept, Honest, ControlInv

LEMMA TerminationTrue ==
  ASSUME IInv, TypeInv, ControlInv, Marked, Termination
  PROVE  Kept
<1>1. CASE loop.state = "idle"
  BY <1>1, IdleSilent DEF vars, Kept, Honest, ControlInv, Alone, Backed, Staged, Latched, AtRest,
                          Marked, LatchedOp, OperationOf
<1>2. CASE loop.state # "idle"
  <2>1. driver \in Drivers /\ LoopIn(loop) /\ driver.request \in Calls
        /\ driver.pendingOp \in KnownOps
    BY <1>2 DEF IInv, TypeInv, Begun
  <2> DEFINE q == TermEvents(driver, loop)
  <2>2. q \in Seq(Entries) BY <2>1, TermTyped
  <2>3. PICK ok \in BOOLEAN : Records(ok, q) BY DEF Termination
  <2> HIDE DEF q
  <2>4. <<>> \o q = q BY <2>2
  <2>5. Records(ok, <<>> \o q) /\ <<>> \in Seq(Plain) BY <2>3, <2>4
  <2>6. UNCHANGED <<loop, call, earned, proven, overlap>> BY DEF Termination
  <2>7. used'.lost = 0 => used.lost = 0 BY <2>3, NothingLost
  <2>8. SameRun(driver') /\ driver'.staged = driver.staged
    BY <2>1 DEF Termination, Termed, Drivers, SameRun
  <2>9. ~overlap /\ loop.state = "completed" => proven BY DEF ControlInv, Backed
  <2>10. Marked' /\ Honest BY <2>1, <2>5, <2>6, <2>9, WordMarks DEF q
  <2>11. LatchedOp(driver', loop') = LatchedOp(driver, loop)
    BY <2>6, <2>8 DEF SameRun, LatchedOp, OperationOf
  <2>12. Alone' BY <2>6, <2>8 DEF ControlInv, Alone, AtRest, SameRun
  <2>13. Backed' BY <2>6 DEF ControlInv, Backed
  <2>14. Staged' BY <2>6, <2>8, <2>11 DEF ControlInv, Staged, SameRun
  <2>15. Latched' BY <2>6, <2>7, <2>8 DEF ControlInv, Latched, SameRun
  <2> QED BY <2>10, <2>12, <2>13, <2>14, <2>15 DEF Kept, ControlInv
<1> QED BY <1>1, <1>2

LEMMA CrashTrue ==
  ASSUME IInv, TypeInv, ControlInv, Marked, Crash
  PROVE  Kept
<1>1. /\ driver'.staged = FALSE /\ loop'.state = "idle"
      /\ \A c \in Calls : call'[c].pc = "none"
      /\ UNCHANGED <<task, earned, proven, overlap>>
  BY DEF Crash, NewDriver, NewLoop, NotCalled
<1>2. used'.lost = used.lost BY DEF Crash, Spend, TypeInv
<1>3. ControlInv' BY <1>1 DEF ControlInv, Alone, Backed, Staged, Latched, AtRest
<1>4. Marked' BY <1>1, <1>2, CursorKept
<1> QED BY <1>1, <1>3, <1>4 DEF Kept, Honest

LEMMA InitTrue == Init => ControlInv /\ Marked
<1> SUFFICES ASSUME Init PROVE ControlInv /\ Marked OBVIOUS
<1>1. /\ driver.staged = FALSE /\ loop.state = "idle"
      /\ \A c \in Calls : call[c].pc = "none"
  BY DEF Init, NewDriver, NewLoop, NotCalled
<1>2. Marked BY DEF Init, Marked, Absent, NoCursor
<1> QED BY <1>1, <1>2 DEF ControlInv, Alone, Backed, Staged, Latched, AtRest

LEMMA NextTrue ==
  ASSUME IInv, TypeInv, ControlInv, Marked, [Next]_vars
  PROVE  Kept
<1>1. CASE UNCHANGED vars
  BY <1>1 DEF vars, Kept, Honest, ControlInv, Alone, Backed, Staged, Latched, AtRest, Marked
<1>2. ASSUME NEW c \in Calls, Advance(c) PROVE Kept
  BY <1>2, ReturnFromTrue, ObserveTrue, LoopHeadTrue, DecideTrue, GateTrue, PrepareTrue,
     ExecuteTrue, ResultTrue, ConsumeTrue, RepairTrue DEF Advance
<1>3. ASSUME NEW c \in Calls, Approve(c) \/ Reject(c) \/ Clarify(c) PROVE Kept
  BY <1>3, ApproveTrue, RejectTrue
<1> QED BY <1>1, <1>2, <1>3, RunTrue, CancelsTrue, TerminationTrue, CrashTrue DEF Next

LEMMA TruthInvariant == Spec => [](ControlInv /\ Marked)
<1>1. Init => ControlInv /\ Marked BY InitTrue
<1>2. IInv /\ TypeInv /\ (ControlInv /\ Marked) /\ [Next]_vars => (ControlInv /\ Marked)'
  BY NextTrue DEF Kept
<1> QED BY <1>1, <1>2, Invariant, TypedInvariant, PTL DEF Spec

\* What a restart reads is true: an operation it is told is committed did reach
\* the tree or was proven, as long as no Run began beside an aborted call, and
\* a run parked at a human is open to it, whatever was recorded before.
THEOREM RecordsTrue == Spec => []RecordsAreTrue
<1>1. TypeInv /\ Marked => CommittedIsTrue
  <2> SUFFICES ASSUME TypeInv, Marked, used.lost = 0, ~overlap,
                      Inspection(task, tree) = "ALREADY_COMMITTED"
               PROVE  task.cursor.op \in earned
    BY DEF CommittedIsTrue
  <2>1. tree # NoDigest BY TaskAssumption DEF TypeInv
  <2>2. task.cursor.status = "COMMITTED" BY <2>1 DEF Inspection, Reconcile, Marked
  <2> QED BY <2>2 DEF Marked
<1>2. ParkInv => ParkedIsRemembered BY DEF ParkInv, ParkedIsRemembered, Active
<1>3. Init => ParkInv BY InitParks
<1>4. IInv /\ TypeInv /\ ParkInv /\ [Next]_vars => ParkInv' BY NextParks
<1>5. TypeInv /\ Marked /\ ParkInv => RecordsAreTrue BY <1>1, <1>2 DEF RecordsAreTrue
<1> QED BY <1>3, <1>4, <1>5, Invariant, TypedInvariant, TruthInvariant, PTL DEF Spec

\* The journal says COMPLETED only of a run whose last word the authority
\* proved, as long as no Run began beside an aborted call.
THEOREM CompletionsProven == Spec => CompletedIsProven
<1>1. IInv /\ TypeInv /\ (ControlInv /\ Marked) /\ [Next]_vars =>
        [task'.status = "COMPLETED" /\ task.status # "COMPLETED" /\ ~overlap => proven]_vars
  BY NextTrue DEF Kept, Honest
<1> QED BY <1>1, Invariant, TypedInvariant, TruthInvariant, PTL DEF Spec, CompletedIsProven
=============================================================================
