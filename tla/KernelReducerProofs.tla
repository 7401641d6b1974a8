------------------------ MODULE KernelReducerProofs ------------------------
(***************************************************************************)
(* Lemmas about the reducer, for every request, state and event: which     *)
(* values reduce yields and which parts of the state it moves, and what    *)
(* Fold computes.  Fold is a recursive function of the log; that it has    *)
(* one solution, and where that ends, is carried from event to event.      *)
(***************************************************************************)
EXTENDS KernelReducer, FiniteSetTheorems, TLAPS

\* The terminal verdict that execution.failed and execution.finished write has
\* an outcome and a class of the closed vocabularies.
LEMMA VerdictType ==
  ASSUME NEW r, NEW s \in States, NEW e \in Events, Accepts(r, s, e),
         e.kind \in {"execution.failed", "execution.finished"}
  PROVE  Verdict(r, s, e) \in
           [outcome : Outcomes \cup {None}, class : FailureClasses \cup {None}, revision : Nat]
<1>1. OutcomeForClass(e.class) \in Outcomes BY DEF OutcomeForClass, Outcomes
<1>2. Adjudicate(r.spec, s) \in Outcomes BY DEF Adjudicate, Outcomes
<1>3. e.kind = "execution.failed" => e.class \in FailureClasses BY DEF Accepts
<1>4. "UNSUBSTANTIATED" \in FailureClasses BY DEF FailureClasses
<1>5. s.revision + 1 \in Nat BY DEF States
<1> QED BY <1>1, <1>2, <1>3, <1>4, <1>5 DEF Verdict

\* Accounting.charge keeps the counters natural.
LEMMA ChargeType ==
  ASSUME NEW s \in States, NEW cap, NEW bytes \in Nat
  PROVE  Charge(s, cap, bytes) \in States
<1>1. s.steps + 1 \in Nat /\ s.bytes + bytes \in Nat BY DEF States
<1>2. [s.perCap EXCEPT ![cap] = @ + 1] \in [Capabilities -> Nat]
  <2>1. s.perCap \in [Capabilities -> Nat] BY DEF States
  <2>2. \A n \in Nat : n + 1 \in Nat OBVIOUS
  <2> QED BY <2>1, <2>2
<1>3. Charge(s, cap, bytes) =
        [s EXCEPT !.steps = s.steps + 1, !.bytes = s.bytes + bytes,
                  !.perCap = [s.perCap EXCEPT ![cap] = @ + 1]]
  BY DEF Charge, States
<1> QED BY <1>1, <1>2, <1>3 DEF States

\* reduce: an accepted event turns a state of the four axes into another one,
\* whatever program the request declares.
LEMMA ReducedType ==
  ASSUME NEW r, NEW T, r.spec.program \in Seq(T),
         NEW s \in States, NEW e \in Events, Accepts(r, s, e)
  PROVE  Reduced(r, s, e) \in States
<1> DEFINE next == [s EXCEPT !.revision = @ + 1]
<1>0. next \in States
  <2>1. s.revision + 1 \in Nat BY DEF States, ProviderAxes
  <2> QED BY <2>1, SMTT(60) DEF States, ProviderAxes
<1>1. CASE e.kind \in {"execution.started", "execution.resumed"}
  BY <1>0, <1>1 DEF Reduced, States, Statuses
<1>2. CASE e.kind = "step.started"
  <2>1. StepIndex(r.spec, e.step) \in Nat BY <1>2 DEF Accepts, Declared, StepIndex
  <2>2. Reduced(r, s, e) =
          [next EXCEPT !.cursor = StepIndex(r.spec, e.step), !.provider = "INVOKED"]
    BY <1>2 DEF Reduced
  <2> HIDE DEF next
  <2> QED BY <1>0, <2>1, <2>2 DEF States, ProviderAxes
<1>3. CASE e.kind = "capability.invoked"
  <2> DEFINE cap == StepAt(r.spec, e.step).cap
  <2>1. Charge(next, cap, e.bytes) \in States BY <1>0, ChargeType DEF Events
  <2>2. e.axis \in {None, "INVOKED", "DONE", "TRUNCATED", "FAILED"} BY <1>3 DEF Accepts
  <2>3. Reduced(r, s, e) = [Charge(next, cap, e.bytes)
           EXCEPT !.provider = IF e.axis \in {None, "INVOKED"} THEN @ ELSE e.axis]
    BY <1>3 DEF Reduced
  <2> HIDE DEF cap, next
  <2> QED BY <2>1, <2>2, <2>3 DEF States, ProviderAxes
<1>4. CASE e.kind = "evidence.produced"
  <2> DEFINE stamped == {[rec EXCEPT !.revision = s.revision + 1] : rec \in e.evidence}
  <2>1. stamped \subseteq EvidenceRecords
    <3>1. s.revision + 1 \in Nat BY DEF States, ProviderAxes
    <3>2. e.evidence \subseteq EvidenceRecords BY DEF Events
    <3> QED BY <3>1, <3>2 DEF EvidenceRecords
  <2>2. Reduced(r, s, e) = [next EXCEPT !.evidence = @ \cup stamped] BY <1>4 DEF Reduced
  <2> HIDE DEF stamped
  <2> QED BY <1>0, <2>1, <2>2 DEF States, ProviderAxes
<1>5. CASE e.kind \in {"artifact.produced", "mutation.applied", "mutation.rolled_back"}
  BY <1>0, <1>5 DEF Reduced, States
<1>6. CASE e.kind \in {"verification.started", "verification.passed",
                       "verification.failed", "verification.skipped"}
  BY <1>0, <1>6 DEF Reduced, States, CheckStarted
<1>7. CASE e.kind = "step.blocked"
  <2>1. e.step # None => StepIndex(r.spec, e.step) \in Nat
    BY <1>7 DEF Accepts, Declared, StepIndex
  <2>2. Reduced(r, s, e) =
          IF e.step = None THEN next ELSE [next EXCEPT !.cursor = StepIndex(r.spec, e.step)]
    BY <1>7 DEF Reduced
  <2> HIDE DEF next
  <2> QED BY <1>0, <2>1, <2>2 DEF States, ProviderAxes
<1>8. CASE e.kind = "execution.suspended"
  BY <1>0, <1>8 DEF Reduced, States, Statuses
<1>9. CASE e.kind \in {"execution.failed", "execution.finished"}
  <2>1. Reduced(r, s, e) = [next EXCEPT !.status = "SETTLED", !.terminal = Verdict(r, s, e)]
    BY <1>9 DEF Reduced
  <2>2. Verdict(r, s, e) \in
          [outcome : Outcomes \cup {None}, class : FailureClasses \cup {None}, revision : Nat]
    BY <1>9, VerdictType
  <2> HIDE DEF next
  <2> QED BY <1>0, <2>1, <2>2 DEF States, Statuses
<1>10. e.kind \in {"execution.started", "execution.resumed", "step.started",
         "capability.invoked", "evidence.produced", "artifact.produced", "mutation.applied",
         "mutation.rolled_back", "verification.started", "verification.passed",
         "verification.failed", "verification.skipped", "step.blocked",
         "execution.suspended", "execution.failed", "execution.finished"}
  BY DEF Accepts
<1> QED BY <1>1, <1>2, <1>3, <1>4, <1>5, <1>6, <1>7, <1>8, <1>9, <1>10

\* reduce touches the terminal verdict only when the execution settles.
LEMMA TerminalOf ==
  ASSUME NEW r, NEW s \in States, NEW e, Accepts(r, s, e)
  PROVE  \/ Reduced(r, s, e).terminal = s.terminal
         \/ /\ e.kind \in {"execution.failed", "execution.finished"}
            /\ Reduced(r, s, e).terminal = Verdict(r, s, e)
<1> DEFINE next == [s EXCEPT !.revision = @ + 1]
<1>1. next.terminal = s.terminal BY DEF States
<1>2. DOMAIN next = DOMAIN s /\ "terminal" \in DOMAIN s BY DEF States
<1> QED BY <1>1, <1>2 DEF Reduced, Charge, CheckStarted, States

\* reduce counts every event it accepts.
LEMMA RevisionOf ==
  ASSUME NEW r, NEW s \in States, NEW e, Accepts(r, s, e)
  PROVE  Reduced(r, s, e).revision = s.revision + 1
<1> DEFINE next == [s EXCEPT !.revision = @ + 1]
<1>1. next.revision = s.revision + 1 BY DEF States
<1>2. DOMAIN next = DOMAIN s /\ "revision" \in DOMAIN s BY DEF States
<1> QED BY <1>1, <1>2 DEF Reduced, Charge, CheckStarted, States

\* What reduce does with an event depends on all of it but the stamp.
LEMMA SameContent ==
  ASSUME NEW r, NEW s, NEW e, NEW q,
         q.kind = e.kind, q.step = e.step, q.cap = e.cap, q.axis = e.axis,
         q.evidence = e.evidence, q.bytes = e.bytes, q.class = e.class
  PROVE  /\ Accepts(r, s, q) = Accepts(r, s, e)
         /\ Reduced(r, s, q) = Reduced(r, s, e)
<1>1. Accepts(r, s, q) = Accepts(r, s, e) BY Zenon DEF Accepts
<1>2. Verdict(r, s, q) = Verdict(r, s, e) BY DEF Verdict
<1>3. Reduced(r, s, q) = Reduced(r, s, e) BY <1>2, Zenon DEF Reduced
<1> QED BY <1>1, <1>3

LEMMA StampIsIdle ==
  ASSUME NEW r, NEW s, NEW e \in Events, NEW n \in Nat, NEW q, q = [e EXCEPT !.revision = n]
  PROVE  /\ Accepts(r, s, q) = Accepts(r, s, e)
         /\ Reduced(r, s, q) = Reduced(r, s, e)
<1>1. /\ q.kind = e.kind /\ q.step = e.step /\ q.cap = e.cap /\ q.axis = e.axis
      /\ q.evidence = e.evidence /\ q.bytes = e.bytes /\ q.class = e.class
  BY DEF Events
<1> QED BY <1>1, SameContent

-----------------------------------------------------------------------------
(* Fold: the replays of a log, and their end.                               *)

\* One step of Fold, and the functions that satisfy its recursion.
Applied(r, s, e) ==
  IF s.status # "REJECTED" /\ Follows(s, e) /\ Accepts(r, s, e)
  THEN Reduced(r, s, e) ELSE Rejected

Replays(r, h, f) ==
  f = [i \in 0..Len(h) |-> IF i = 0 THEN InitialState ELSE Applied(r, f[i - 1], h[i])]

ReplayEndsIn(r, h, s) ==
  /\ \E f : Replays(r, h, f)
  /\ \A f : Replays(r, h, f) => f[Len(h)] = s

\* What every replay ends in is what Fold yields.
LEMMA FoldIs ==
  ASSUME NEW r, NEW h, NEW s, ReplayEndsIn(r, h, s)
  PROVE  Fold(r, h) = s
<1>1. Fold(r, h) = (CHOOSE f : Replays(r, h, f))[Len(h)] BY DEF Fold, Replays, Applied
<1> QED BY <1>1 DEF ReplayEndsIn

\* A replay of one event more ends one step further.
LEMMA ReplayStep ==
  ASSUME NEW r, NEW n \in Nat, NEW h, NEW g, Len(h) = n, Len(g) = n + 1,
         \A i \in 1..n : g[i] = h[i], NEW s, ReplayEndsIn(r, h, s)
  PROVE  ReplayEndsIn(r, g, Applied(r, s, g[n + 1]))
<1>0. n + 1 \in Nat /\ 0..(n + 1) = 0..n \cup {n + 1} /\ n + 1 \notin 0..n /\ n \in 0..n
        /\ n + 1 # 0 /\ (n + 1) - 1 = n
  OBVIOUS
<1>1. \E f : Replays(r, g, f)
  <2>1. PICK f : Replays(r, h, f) BY DEF ReplayEndsIn
  <2> DEFINE k == [i \in 0..(n + 1) |-> IF i = n + 1 THEN Applied(r, f[n], g[n + 1]) ELSE f[i]]
             m == [i \in 0..(n + 1) |-> IF i = 0 THEN InitialState ELSE Applied(r, k[i - 1], g[i])]
  <2>2. ASSUME NEW i \in 0..(n + 1) PROVE k[i] = m[i]
    <3>1. CASE i = n + 1
      <4>1. k[i] = Applied(r, f[n], g[n + 1]) BY <3>1
      <4>2. k[i - 1] = f[n] BY <1>0, <3>1
      <4>3. m[i] = Applied(r, k[i - 1], g[i]) BY <1>0, <3>1
      <4> QED BY <3>1, <4>1, <4>2, <4>3
    <3>2. CASE i = 0
      <4>1. k[i] = f[0] BY <1>0, <3>2
      <4>2. f[0] = InitialState BY <2>1 DEF Replays
      <4>3. m[i] = InitialState BY <3>2
      <4> QED BY <3>2, <4>1, <4>2, <4>3
    <3>3. CASE i \in 1..n
      <4>1. i \in 0..n /\ i # 0 /\ i # n + 1 /\ i - 1 \in 0..(n + 1) /\ i - 1 # n + 1
        BY <3>3
      <4>2. k[i] = f[i] /\ k[i - 1] = f[i - 1] BY <4>1
      <4>3. f[i] = Applied(r, f[i - 1], h[i]) BY <2>1, <4>1 DEF Replays
      <4>4. m[i] = Applied(r, k[i - 1], g[i]) BY <4>1
      <4>5. g[i] = h[i] BY <3>3
      <4> QED BY <4>2, <4>3, <4>4, <4>5
    <3> QED BY <1>0, <3>1, <3>2, <3>3
  <2>3. k = m
    <3>1. DOMAIN k = 0..(n + 1) /\ DOMAIN m = 0..(n + 1) OBVIOUS
    <3>2. k = [i \in 0..(n + 1) |-> k[i]] /\ m = [i \in 0..(n + 1) |-> m[i]] OBVIOUS
    <3> HIDE DEF k, m
    <3> QED BY <2>2, <3>1, <3>2
  <2> HIDE DEF k
  <2>4. Replays(r, g, k) BY <2>3 DEF Replays
  <2> QED BY <2>4
<1>2. ASSUME NEW f, Replays(r, g, f) PROVE f[n + 1] = Applied(r, s, g[n + 1])
  <2> DEFINE k == [i \in 0..n |-> f[i]]
             m == [i \in 0..n |-> IF i = 0 THEN InitialState ELSE Applied(r, k[i - 1], h[i])]
  <2>1. ASSUME NEW i \in 0..n PROVE k[i] = m[i]
    <3>1. i \in 0..(n + 1) /\ k[i] = f[i] OBVIOUS
    <3>2. f[i] = IF i = 0 THEN InitialState ELSE Applied(r, f[i - 1], g[i])
      BY <1>2, <3>1 DEF Replays
    <3>3. CASE i = 0 BY <3>1, <3>2, <3>3
    <3>4. CASE i # 0
      <4>1. i \in 1..n /\ i - 1 \in 0..n BY <3>4
      <4>2. k[i - 1] = f[i - 1] /\ g[i] = h[i] BY <4>1
      <4>3. m[i] = Applied(r, k[i - 1], h[i]) BY <3>4
      <4> HIDE DEF k, m
      <4> QED BY <3>1, <3>2, <3>4, <4>2, <4>3
    <3> QED BY <3>3, <3>4
  <2>2. k = m
    <3>1. k = [i \in 0..n |-> k[i]] /\ m = [i \in 0..n |-> m[i]] OBVIOUS
    <3> HIDE DEF k, m
    <3> QED BY <2>1, <3>1
  <2>3. k[n] = f[n] BY <1>0
  <2> HIDE DEF k
  <2>4. Replays(r, h, k) BY <2>2 DEF Replays
  <2>5. k[n] = s BY <2>4 DEF ReplayEndsIn
  <2>6. f[n + 1] = Applied(r, f[n], g[n + 1]) BY <1>0, <1>2 DEF Replays
  <2> QED BY <2>3, <2>5, <2>6
<1> QED BY <1>1, <1>2 DEF ReplayEndsIn

-----------------------------------------------------------------------------
(* Induction, as the least element of a set of numbers.                     *)

\* A set of numbers that is not empty has a least element.
LEMMA LeastNumber ==
  ASSUME NEW T \in SUBSET Nat, T # {}
  PROVE  \E x \in T : \A y \in T : x <= y
<1> DEFINE I == {0 .. n : n \in T}
<1>1. IsWellFoundedOn(StrictSubsetOrdering(Nat), FiniteSubsetsOf(Nat))
  BY FS_StrictSubsetOrderingWellFounded
<1>2. I \subseteq FiniteSubsetsOf(Nat)
  <2>1. ASSUME NEW n \in T PROVE 0 .. n \in FiniteSubsetsOf(Nat)
    <3>1. 0 \in Int /\ n \in Int OBVIOUS
    <3>2. IsFiniteSet(0 .. n) BY <3>1, FS_Interval
    <3>3. 0 .. n \in SUBSET Nat OBVIOUS
    <3> QED BY <3>2, <3>3 DEF FiniteSubsetsOf
  <2> QED BY <2>1
<1>3. I # {} OBVIOUS
<1> HIDE DEF I
<1>4. PICK S \in I : \A R \in I : ~(<<R, S>> \in StrictSubsetOrdering(Nat))
  BY <1>1, <1>2, <1>3, WFMin
<1>5. PICK x \in T : S = 0 .. x BY DEF I
<1>6. ASSUME NEW y \in T PROVE x <= y
  <2>1. 0 .. y \in I BY DEF I
  <2>2. ~(<<0 .. y, S>> \in StrictSubsetOrdering(Nat)) BY <2>1, <1>4
  <2>3. SUFFICES ASSUME y < x PROVE FALSE OBVIOUS
  <2>4. 0 .. y \subseteq 0 .. x /\ x \in 0 .. x /\ x \notin 0 .. y BY <2>3
  <2>5. 0 .. y \in SUBSET Nat /\ 0 .. x \in SUBSET Nat OBVIOUS
  <2> QED BY <2>2, <2>4, <2>5, <1>5 DEF StrictSubsetOrdering
<1> QED BY <1>6

\* A set of numbers that holds 0, and with every number below n its successor,
\* holds every number up to n.
LEMMA Inductive ==
  ASSUME NEW n \in Nat, NEW P, 0 \in P, \A k \in 0 .. (n - 1) : k \in P => k + 1 \in P
  PROVE  \A k \in 0 .. n : k \in P
<1> SUFFICES ASSUME ~(\A k \in 0 .. n : k \in P) PROVE FALSE OBVIOUS
<1> DEFINE T == (0 .. n) \ P
<1>1. T \in SUBSET Nat /\ T # {} OBVIOUS
<1>2. PICK x \in T : \A y \in T : x <= y BY <1>1, LeastNumber
<1>3. x # 0 /\ x \in 0 .. n OBVIOUS
<1>4. x - 1 \in 0 .. (n - 1) /\ x - 1 \notin T BY <1>2, <1>3
<1>5. x - 1 \in P BY <1>4
<1>6. (x - 1) + 1 \in P BY <1>4, <1>5
<1> QED BY <1>3, <1>6

-----------------------------------------------------------------------------
(* What Fold makes of a log, prefix by prefix.                              *)

\* No event leaves the initial state.
LEMMA ReplayNone ==
  ASSUME NEW r, NEW h, Len(h) = 0
  PROVE  ReplayEndsIn(r, h, InitialState)
<1> DEFINE f == [i \in 0..0 |-> InitialState]
<1>1. 0..0 = {0} OBVIOUS
<1>2. Replays(r, h, f) BY <1>1 DEF Replays
<1>3. \A k : Replays(r, h, k) => k[0] = InitialState BY <1>1 DEF Replays
<1> HIDE DEF f
<1> QED BY <1>2, <1>3 DEF ReplayEndsIn

\* A prefix, and the prefix with one event more.
LEMMA PrefixIs ==
  ASSUME NEW T, NEW h \in Seq(T), NEW k \in 0..Len(h)
  PROVE  /\ SubSeq(h, 1, k) \in Seq(T)
         /\ Len(SubSeq(h, 1, k)) = k
         /\ \A i \in 1..k : SubSeq(h, 1, k)[i] = h[i]
OBVIOUS

\* Every log has a replay, and all its replays end in one state.
LEMMA ReplayOfPrefix ==
  ASSUME NEW r, NEW T, NEW h \in Seq(T), NEW k \in 0..Len(h)
  PROVE  \E s : ReplayEndsIn(r, SubSeq(h, 1, k), s)
<1> DEFINE P == {i \in 0..Len(h) : \E s : ReplayEndsIn(r, SubSeq(h, 1, i), s)}
<1>1. Len(h) \in Nat OBVIOUS
<1>2. 0 \in P
  <2>1. 0 \in 0..Len(h) BY <1>1
  <2>2. Len(SubSeq(h, 1, 0)) = 0 BY <2>1, PrefixIs
  <2> QED BY <2>1, <2>2, ReplayNone
<1>3. ASSUME NEW i \in 0..(Len(h) - 1), i \in P PROVE i + 1 \in P
  <2> DEFINE p == SubSeq(h, 1, i)
             q == SubSeq(h, 1, i + 1)
  <2>1. i \in Nat /\ i \in 0..Len(h) /\ i + 1 \in 0..Len(h) BY <1>1
  <2>2. Len(p) = i /\ Len(q) = i + 1 BY <2>1, PrefixIs
  <2>3. \A j \in 1..i : p[j] = h[j] BY <2>1, PrefixIs
  <2>4. \A j \in 1..(i + 1) : q[j] = h[j] BY <2>1, PrefixIs
  <2>5. \A j \in 1..i : q[j] = p[j] BY <2>1, <2>3, <2>4
  <2>6. PICK s : ReplayEndsIn(r, p, s) BY <1>3
  <2> HIDE DEF p, q
  <2>7. ReplayEndsIn(r, q, Applied(r, s, q[i + 1])) BY <2>1, <2>2, <2>5, <2>6, ReplayStep
  <2> QED BY <2>1, <2>7 DEF q
<1> HIDE DEF P
<1>4. \A i \in 0..Len(h) : i \in P BY <1>1, <1>2, <1>3, Inductive
<1> QED BY <1>4 DEF P

\* So Fold reads one event after the other.
LEMMA FoldStep ==
  ASSUME NEW r, NEW T, NEW h \in Seq(T), NEW k \in 1..Len(h)
  PROVE  Fold(r, SubSeq(h, 1, k)) = Applied(r, Fold(r, SubSeq(h, 1, k - 1)), h[k])
<1> DEFINE n == k - 1
           p == SubSeq(h, 1, n)
           q == SubSeq(h, 1, k)
<1>1. n \in Nat /\ n \in 0..Len(h) /\ k \in 0..Len(h) /\ n + 1 = k OBVIOUS
<1>2. Len(p) = n /\ Len(q) = n + 1 BY <1>1, PrefixIs
<1>3. \A j \in 1..n : p[j] = h[j] BY <1>1, PrefixIs
<1>4. \A j \in 1..k : q[j] = h[j] BY <1>1, PrefixIs
<1>5. \A j \in 1..n : q[j] = p[j] BY <1>1, <1>3, <1>4
<1>6. PICK s : ReplayEndsIn(r, p, s) BY <1>1, ReplayOfPrefix
<1> HIDE DEF n, p, q
<1>7. ReplayEndsIn(r, q, Applied(r, s, q[n + 1])) BY <1>1, <1>2, <1>5, <1>6, ReplayStep
<1>8. Fold(r, p) = s /\ Fold(r, q) = Applied(r, s, q[n + 1]) BY <1>6, <1>7, FoldIs
<1>9. q[n + 1] = h[k] BY <1>1, <1>4
<1> QED BY <1>8, <1>9 DEF p, q, n

LEMMA FoldNone ==
  ASSUME NEW r, NEW h, Len(h) = 0
  PROVE  Fold(r, h) = InitialState
BY ReplayNone, FoldIs

\* A log that was rejected up to some event is rejected.
LEMMA RejectedStays ==
  ASSUME NEW r, NEW T, NEW h \in Seq(T), NEW k \in 0..Len(h),
         Fold(r, SubSeq(h, 1, k)) = Rejected
  PROVE  Fold(r, h) = Rejected
<1> DEFINE P == {i \in 0..(Len(h) - k) : Fold(r, SubSeq(h, 1, k + i)) = Rejected}
<1>1. Len(h) \in Nat /\ Len(h) - k \in Nat /\ k + 0 = k OBVIOUS
<1>2. 0 \in P BY <1>1
<1>3. Rejected.status = "REJECTED" BY DEF Rejected, InitialState
<1>4. ASSUME NEW i \in 0..((Len(h) - k) - 1), i \in P PROVE i + 1 \in P
  <2>1. k + (i + 1) \in 1..Len(h) /\ (k + (i + 1)) - 1 = k + i /\ i + 1 \in 0..(Len(h) - k)
    BY <1>1
  <2>2. Fold(r, SubSeq(h, 1, k + (i + 1))) =
          Applied(r, Fold(r, SubSeq(h, 1, (k + (i + 1)) - 1)), h[k + (i + 1)])
    BY <2>1, FoldStep
  <2>3. Fold(r, SubSeq(h, 1, k + i)) = Rejected BY <1>4
  <2>4. Applied(r, Rejected, h[k + (i + 1)]) = Rejected BY <1>3 DEF Applied
  <2> QED BY <2>1, <2>2, <2>3, <2>4
<1> HIDE DEF P
<1>5. \A i \in 0..(Len(h) - k) : i \in P BY <1>1, <1>2, <1>4, Inductive
<1>6. Len(h) - k \in P BY <1>1, <1>5
<1>7. Fold(r, SubSeq(h, 1, k + (Len(h) - k))) = Rejected BY <1>6 DEF P
<1>8. k + (Len(h) - k) = Len(h) /\ SubSeq(h, 1, Len(h)) = h BY <1>1
<1> QED BY <1>7, <1>8

\* A log is rejected where a record does not carry the next revision.
LEMMA FoldRefuses ==
  ASSUME NEW r, NEW T, NEW p \in Seq(T), NEW h \in Seq(T), NEW k \in 1..Len(h),
         k - 1 <= Len(p), \A i \in 1..(k - 1) : h[i] = p[i],
         Fold(r, SubSeq(p, 1, k - 1)).revision = k - 1, h[k].revision \notin {0, k}
  PROVE  Fold(r, h) = Rejected
<1> DEFINE n == k - 1
           a == SubSeq(p, 1, n)
           b == SubSeq(h, 1, n)
<1>1. n \in 0..Len(p) /\ n \in 0..Len(h) /\ k \in 0..Len(h) /\ n + 1 = k OBVIOUS
<1>2. a \in Seq(T) /\ Len(a) = n /\ \A i \in 1..n : a[i] = p[i] BY <1>1, PrefixIs
<1>3. b \in Seq(T) /\ Len(b) = n /\ \A i \in 1..n : b[i] = h[i] BY <1>1, PrefixIs
<1>4. \A i \in 1..n : a[i] = b[i] BY <1>2, <1>3
<1> HIDE DEF a, b
<1>5. a = b BY <1>2, <1>3, <1>4
<1>6. Fold(r, b).revision = n BY <1>5 DEF a
<1>7. Fold(r, SubSeq(h, 1, k)) = Applied(r, Fold(r, b), h[k]) BY FoldStep DEF b
<1>8. ~Follows(Fold(r, b), h[k]) BY <1>1, <1>6 DEF Follows
<1>9. Fold(r, SubSeq(h, 1, k)) = Rejected BY <1>7, <1>8 DEF Applied
<1> QED BY <1>1, <1>9, RejectedStays
-----------------------------------------------------------------------------
(* The parts of the state, after an event that reduce accepts.              *)

\* The verify axis and what was started; the mutation axis; the verdict.
AxesMove(r, s, e, n) ==
  /\ n.verify = CASE e.kind = "verification.passed"  -> "PASSED"
                  [] e.kind = "verification.failed"  -> "FAILED"
                  [] e.kind = "verification.skipped" -> "NOT_APPLICABLE"
                  [] e.kind = "verification.started" -> "NOT_RUN"
                  [] OTHER -> s.verify
  /\ n.verifyStarted => s.verifyStarted \/ e.kind = "verification.started"
  /\ n.mutation = CASE e.kind = "mutation.applied"     -> "APPLIED"
                    [] e.kind = "mutation.rolled_back" -> "ROLLED_BACK"
                    [] OTHER -> s.mutation
  /\ n.terminal = IF e.kind \in {"execution.failed", "execution.finished"}
                  THEN Verdict(r, s, e) ELSE s.terminal
  /\ n.evidence = IF e.kind = "evidence.produced"
                  THEN s.evidence \cup
                         {[rec EXCEPT !.revision = s.revision + 1] : rec \in e.evidence}
                  ELSE s.evidence
  /\ e.kind \in {"execution.failed", "execution.finished"} => n.status = "SETTLED"

LEMMA AxesAre ==
  ASSUME NEW r, NEW s \in States, NEW e, Accepts(r, s, e), NEW n, n = Reduced(r, s, e)
  PROVE  AxesMove(r, s, e, n)
<1> DEFINE next == [s EXCEPT !.revision = @ + 1]
<1>1. /\ next.verify = s.verify /\ next.verifyStarted = s.verifyStarted
      /\ next.mutation = s.mutation /\ next.terminal = s.terminal
      /\ next.evidence = s.evidence
  BY DEF States
<1>2. DOMAIN next = DOMAIN s /\ {"status", "verify", "verifyStarted", "mutation", "terminal",
                                 "evidence", "cursor", "provider", "steps", "perCap",
                                 "bytes", "artifact"} \subseteq DOMAIN s
  BY DEF States
<1> HIDE DEF next
<1>3. CASE e.kind \in {"execution.started", "execution.resumed", "execution.suspended"}
  <2>1. \E t : n = [next EXCEPT !.status = t] BY <1>3 DEF Reduced, next
  <2> QED BY <1>1, <1>2, <1>3, <2>1 DEF AxesMove
<1>4. CASE e.kind \in {"step.started", "step.blocked", "artifact.produced"}
  <2>1. \/ n = next \/ \E t : n = [next EXCEPT !.cursor = t]
        \/ \E t, u : n = [next EXCEPT !.cursor = t, !.provider = u]
        \/ \E t : n = [next EXCEPT !.artifact = t]
    BY <1>4 DEF Reduced, next
  <2> QED BY <1>1, <1>2, <1>4, <2>1 DEF AxesMove
<1>5. CASE e.kind = "capability.invoked"
  <2> DEFINE cap == StepAt(r.spec, e.step).cap
             c == Charge(next, cap, e.bytes)
             q == IF e.axis \in {None, "INVOKED"} THEN c.provider ELSE e.axis
  <2>1. n = [c EXCEPT !.provider = q] BY <1>5 DEF Reduced, next
  <2> HIDE DEF cap, q
  <2>2. /\ c.verify = next.verify /\ c.verifyStarted = next.verifyStarted
        /\ c.mutation = next.mutation /\ c.terminal = next.terminal
        /\ c.evidence = next.evidence /\ DOMAIN c = DOMAIN s
    BY <1>2 DEF Charge
  <2> HIDE DEF c
  <2> QED BY <1>1, <1>2, <1>5, <2>1, <2>2 DEF AxesMove
<1>6. CASE e.kind = "evidence.produced"
  <2>1. n = [next EXCEPT !.evidence =
               s.evidence \cup {[rec EXCEPT !.revision = s.revision + 1] : rec \in e.evidence}]
    BY <1>1, <1>2, <1>6 DEF Reduced, next
  <2> QED BY <1>1, <1>2, <1>6, <2>1 DEF AxesMove
<1>7. CASE e.kind \in {"mutation.applied", "mutation.rolled_back"}
  <2>1. n = [next EXCEPT !.mutation = IF e.kind = "mutation.applied" THEN "APPLIED"
                                      ELSE "ROLLED_BACK"]
    BY <1>7 DEF Reduced, next
  <2> QED BY <1>1, <1>2, <1>7, <2>1 DEF AxesMove
<1>8. CASE e.kind \in {"verification.passed", "verification.failed", "verification.skipped"}
  <2>1. n = [next EXCEPT !.verify = CASE e.kind = "verification.passed" -> "PASSED"
                                      [] e.kind = "verification.failed" -> "FAILED"
                                      [] OTHER -> "NOT_APPLICABLE"]
    BY <1>8 DEF Reduced, next
  <2> QED BY <1>1, <1>2, <1>8, <2>1 DEF AxesMove
<1>9. CASE e.kind = "verification.started"
  <2>1. n = [next EXCEPT !.verify = "NOT_RUN", !.verifyStarted = TRUE]
    BY <1>9 DEF Reduced, CheckStarted, next
  <2> QED BY <1>1, <1>2, <1>9, <2>1 DEF AxesMove
<1>10. CASE e.kind \in {"execution.failed", "execution.finished"}
  <2>1. n = [next EXCEPT !.status = "SETTLED", !.terminal = Verdict(r, s, e)]
    BY <1>10 DEF Reduced, next
  <2> QED BY <1>1, <1>2, <1>10, <2>1 DEF AxesMove
<1>11. e.kind \in {"execution.started", "execution.resumed", "step.started",
         "capability.invoked", "evidence.produced", "artifact.produced", "mutation.applied",
         "mutation.rolled_back", "verification.started", "verification.passed",
         "verification.failed", "verification.skipped", "step.blocked",
         "execution.suspended", "execution.failed", "execution.finished"}
  BY DEF Accepts
<1> QED BY <1>3, <1>4, <1>5, <1>6, <1>7, <1>8, <1>9, <1>10, <1>11
=============================================================================
