------------------------- MODULE DurableTaskProofs -------------------------
(***************************************************************************)
(* What folding events does, for every sequence of them: the lemmas about  *)
(* Folded and about folds that the proofs of the ledger and of the driver  *)
(* share.  FoldLeft is defined by recursion over sets of indices; what it  *)
(* computes is shown by taking the least prefix at which it would fail.    *)
(***************************************************************************)
EXTENDS DurableTask, FiniteSetTheorems, TLAPS

-----------------------------------------------------------------------------
(* Induction, as the least element of a set of numbers.                     *)

\* A set of numbers that is not empty has a least element.
LEMMA LeastNumber ==
  ASSUME NEW T \in SUBSET Nat, T # {}
  PROVE  \E x \in T : \A y \in T : x <= y
<1> DEFINE I == {0 .. n : n \in T}
<1>1. IsWellFoundedOn(StrictSubsetOrdering(Nat), FiniteSubsetsOf(Nat))
  BY FS_StrictSubsetOrderingWellFounded
<1>2. I \subseteq FiniteSubsetsOf(Nat)
  <2>1. ASSUME NEW n \in T PROVE 0 .. n \in FiniteSubsetsOf(Nat)
    <3>1. 0 \in Int /\ n \in Int OBVIOUS
    <3>2. IsFiniteSet(0 .. n) BY <3>1, FS_Interval
    <3>3. 0 .. n \in SUBSET Nat OBVIOUS
    <3> QED BY <3>2, <3>3 DEF FiniteSubsetsOf
  <2> QED BY <2>1
<1>3. I # {} OBVIOUS
<1> HIDE DEF I
<1>4. PICK S \in I : \A R \in I : ~(<<R, S>> \in StrictSubsetOrdering(Nat))
  BY <1>1, <1>2, <1>3, WFMin
<1>5. PICK x \in T : S = 0 .. x BY DEF I
<1>6. ASSUME NEW y \in T PROVE x <= y
  <2>1. 0 .. y \in I BY DEF I
  <2>2. ~(<<0 .. y, S>> \in StrictSubsetOrdering(Nat)) BY <2>1, <1>4
  <2>3. SUFFICES ASSUME y < x PROVE FALSE OBVIOUS
  <2>4. 0 .. y \subseteq 0 .. x /\ x \in 0 .. x /\ x \notin 0 .. y BY <2>3
  <2>5. 0 .. y \in SUBSET Nat /\ 0 .. x \in SUBSET Nat OBVIOUS
  <2> QED BY <2>2, <2>4, <2>5, <1>5 DEF StrictSubsetOrdering
<1> QED BY <1>6

\* A set of numbers that holds 0, and with every number below n its successor,
\* holds every number up to n.
LEMMA Inductive ==
  ASSUME NEW n \in Nat, NEW P, 0 \in P, \A k \in 0 .. (n - 1) : k \in P => k + 1 \in P
  PROVE  \A k \in 0 .. n : k \in P
<1> SUFFICES ASSUME ~(\A k \in 0 .. n : k \in P) PROVE FALSE OBVIOUS
<1> DEFINE T == (0 .. n) \ P
<1>1. T \in SUBSET Nat /\ T # {} OBVIOUS
<1>2. PICK x \in T : \A y \in T : x <= y BY <1>1, LeastNumber
<1>3. x # 0 /\ x \in 0 .. n OBVIOUS
<1>4. x - 1 \in 0 .. (n - 1) /\ x - 1 \notin T BY <1>2, <1>3
<1>5. x - 1 \in P BY <1>4
<1>6. (x - 1) + 1 \in P BY <1>4, <1>5
<1> QED BY <1>3, <1>6

-----------------------------------------------------------------------------
(* Folds, with the step as a function.                                      *)

\* The recursion that MapThenFoldSet solves, on the sets of indices up to n.
FoldsOn(g, base, step, q, n) ==
  \A s \in SUBSET (1 .. n) :
    g[s] = IF s = {} THEN base ELSE step[<<g[s \ {Max(s)}], q[Max(s)]>>]

\* The last index of an initial segment, and of what holds it.
LEMMA LastIndex ==
  ASSUME NEW n \in Nat, NEW s \in SUBSET (1 .. n), n \in s
  PROVE  Max(s) = n
<1>1. n \in s /\ \A y \in s : n >= y OBVIOUS
<1>2. \A x \in s : (\A y \in s : x >= y) => x = n OBVIOUS
<1> QED BY <1>1, <1>2 DEF Max

\* The recursion has a solution.
LEMMA FoldExists ==
  ASSUME NEW S, NEW E, NEW step \in [S \X E -> S], NEW base \in S, NEW q \in Seq(E)
  PROVE  \E g \in [SUBSET (1 .. Len(q)) -> S] : FoldsOn(g, base, step, q, Len(q))
<1> DEFINE P == {k \in 0 .. Len(q) : \E g \in [SUBSET (1 .. k) -> S] : FoldsOn(g, base, step, q, k)}
<1>1. 0 \in P
  <2> DEFINE g == [s \in SUBSET (1 .. 0) |-> base]
  <2>1. 1 .. 0 = {} /\ 0 \in 0 .. Len(q) OBVIOUS
  <2>2. g \in [SUBSET (1 .. 0) -> S] /\ FoldsOn(g, base, step, q, 0) BY <2>1 DEF FoldsOn
  <2> QED BY <2>1, <2>2
<1>2. ASSUME NEW k \in 0 .. (Len(q) - 1), k \in P PROVE k + 1 \in P
  <2>1. PICK g \in [SUBSET (1 .. k) -> S] : FoldsOn(g, base, step, q, k) BY <1>2
  <2> DEFINE h == [s \in SUBSET (1 .. k + 1) |->
                     IF k + 1 \in s THEN step[<<g[s \ {k + 1}], q[k + 1]>>] ELSE g[s]]
  <2>2. k \in Nat /\ k + 1 \in 1 .. Len(q) /\ q[k + 1] \in E OBVIOUS
  <2>3. ASSUME NEW s \in SUBSET (1 .. k + 1)
        PROVE  /\ k + 1 \in s => s \ {k + 1} \in SUBSET (1 .. k)
               /\ k + 1 \notin s => s \in SUBSET (1 .. k)
    BY <2>2
  <2>4. h \in [SUBSET (1 .. k + 1) -> S] BY <2>2, <2>3
  <2>5. ASSUME NEW s \in SUBSET (1 .. k + 1)
        PROVE  h[s] = IF s = {} THEN base ELSE step[<<h[s \ {Max(s)}], q[Max(s)]>>]
    <3>1. CASE k + 1 \in s
      <4>1. Max(s) = k + 1 BY <2>2, <3>1, LastIndex
      <4>2. h[s] = step[<<g[s \ {k + 1}], q[k + 1]>>] BY <3>1
      <4>3. s \ {k + 1} \in SUBSET (1 .. k + 1) /\ k + 1 \notin s \ {k + 1} OBVIOUS
      <4>4. h[s \ {k + 1}] = g[s \ {k + 1}] BY <4>3
      <4> QED BY <3>1, <4>1, <4>2, <4>4
    <3>2. CASE k + 1 \notin s
      <4>1. s \in SUBSET (1 .. k) /\ h[s] = g[s] BY <2>3, <3>2
      <4>2. s \ {Max(s)} \in SUBSET (1 .. k + 1) /\ k + 1 \notin s \ {Max(s)} BY <3>2
      <4>3. h[s \ {Max(s)}] = g[s \ {Max(s)}] BY <4>2
      <4> QED BY <2>1, <4>1, <4>3 DEF FoldsOn
    <3> QED BY <3>1, <3>2
  <2> HIDE DEF h
  <2>6. FoldsOn(h, base, step, q, k + 1) BY <2>5 DEF FoldsOn
  <2> QED BY <2>2, <2>4, <2>6
<1>3. Len(q) \in Nat OBVIOUS
<1> HIDE DEF P
<1>4. \A k \in 0 .. (Len(q) - 1) : k \in P => k + 1 \in P BY <1>2
<1>5. \A k \in 0 .. Len(q) : k \in P BY <1>1, <1>3, <1>4, Inductive
<1>6. Len(q) \in 0 .. Len(q) BY <1>3
<1>7. Len(q) \in P BY <1>5, <1>6
<1> QED BY <1>7 DEF P

\* An interval less its end.
LEMMA ShorterInterval ==
  ASSUME NEW k \in Nat, k >= 1
  PROVE  (1 .. k) \ {k} = 1 .. (k - 1) /\ 1 .. k # {}
<1>1. ASSUME NEW x \in (1 .. k) \ {k} PROVE x \in 1 .. (k - 1)
  <2>1. x \in Int /\ 1 <= x /\ x <= k /\ x # k OBVIOUS
  <2> QED BY <2>1
<1>2. ASSUME NEW x \in 1 .. (k - 1) PROVE x \in (1 .. k) \ {k}
  <2>1. x \in Int /\ 1 <= x /\ x <= k - 1 OBVIOUS
  <2>2. x \in 1 .. k /\ x # k BY <2>1
  <2> QED BY <2>2
<1>3. k \in 1 .. k OBVIOUS
<1> QED BY <1>1, <1>2, <1>3

\* A set of indices that is not empty has a greatest one.
LEMMA GreatestIndex ==
  ASSUME NEW n \in Nat, NEW s \in SUBSET (1 .. n), s # {}
  PROVE  Max(s) \in s
<1> DEFINE T == {n - x : x \in s}
<1>1. T \in SUBSET Nat /\ T # {}
  <2>1. ASSUME NEW x \in s PROVE n - x \in Nat
    <3>1. x \in 1 .. n OBVIOUS
    <3> QED BY <3>1
  <2> QED BY <2>1
<1>2. PICK t \in T : \A y \in T : t <= y BY <1>1, LeastNumber
<1>3. PICK x \in s : t = n - x OBVIOUS
<1>4. \A y \in s : x >= y
  <2>1. ASSUME NEW y \in s PROVE x >= y
    <3>1. n - y \in T OBVIOUS
    <3>2. n - x <= n - y BY <1>2, <1>3, <3>1
    <3>3. x \in 1 .. n /\ y \in 1 .. n OBVIOUS
    <3> QED BY <3>2, <3>3
  <2> QED BY <2>1
<1> QED BY <1>4 DEF Max

\* What a solution does on the initial segments of q is a run of the step.
IsRun(r, base, step, q) ==
  /\ r[0] = base
  /\ \A k \in 1 .. Len(q) : r[k] = step[<<r[k - 1], q[k]>>]

\* A run stays in S, and the runs of two sequences agree as far as these do.
LEMMA RunsAgree ==
  ASSUME NEW S, NEW E, NEW step \in [S \X E -> S], NEW base \in S,
         NEW p \in Seq(E), NEW q \in Seq(E), NEW n \in 0 .. Len(p), n <= Len(q),
         \A k \in 1 .. n : p[k] = q[k],
         NEW r, IsRun(r, base, step, p), NEW t, IsRun(t, base, step, q)
  PROVE  r[n] = t[n] /\ r[n] \in S
<1> DEFINE P == {k \in 0 .. n : r[k] = t[k] /\ r[k] \in S}
<1>1. n \in Nat /\ 0 \in P BY DEF IsRun
<1>2. ASSUME NEW k \in 0 .. (n - 1), k \in P PROVE k + 1 \in P
  <2>1. k + 1 \in 1 .. n /\ k + 1 \in 1 .. Len(p) /\ k + 1 \in 1 .. Len(q) /\ (k + 1) - 1 = k
    OBVIOUS
  <2>2. r[k + 1] = step[<<r[k], p[k + 1]>>] /\ t[k + 1] = step[<<t[k], q[k + 1]>>]
    BY <2>1 DEF IsRun
  <2>3. p[k + 1] = q[k + 1] /\ p[k + 1] \in E BY <2>1
  <2>4. r[k] = t[k] /\ r[k] \in S BY <1>2
  <2>5. <<r[k], p[k + 1]>> \in S \X E BY <2>3, <2>4
  <2>6. step[<<r[k], p[k + 1]>>] \in S BY <2>5
  <2>7. r[k + 1] = t[k + 1] BY <2>2, <2>3, <2>4
  <2>8. r[k + 1] \in S BY <2>2, <2>6
  <2>9. k + 1 \in 0 .. n BY <1>1
  <2> QED BY <2>7, <2>8, <2>9
<1> HIDE DEF P
<1>3. \A k \in 0 .. (n - 1) : k \in P => k + 1 \in P BY <1>2
<1>4. \A k \in 0 .. n : k \in P BY <1>1, <1>3, Inductive
<1>5. n \in 0 .. n BY <1>1
<1>6. n \in P BY <1>4, <1>5
<1> QED BY <1>6 DEF P

\* What the run of the step on q ends in.
RunsTo(v, base, step, q) == \E r : IsRun(r, base, step, q) /\ v = r[Len(q)]

\* A solution of the recursion, read on the initial segments, is a run.
LEMMA SolutionRuns ==
  ASSUME NEW S, NEW E, NEW step \in [S \X E -> S], NEW base \in S, NEW q \in Seq(E), NEW f,
         f[{}] = base,
         \A s \in SUBSET (1 .. Len(q)) :
           s # {} /\ f[s \ {Max(s)}] \in S => f[s] = step[<<f[s \ {Max(s)}], q[Max(s)]>>]
  PROVE  RunsTo(f[1 .. Len(q)], base, step, q)
<1> DEFINE n == Len(q)
           r == [k \in 0 .. n |-> f[1 .. k]]
           P == {k \in 0 .. n : r[k] \in S}
<1>1. n \in Nat OBVIOUS
<1>2. r[0] = base
  <2>1. 1 .. 0 = {} OBVIOUS
  <2> QED BY <1>1, <2>1
<1>3. ASSUME NEW k \in 1 .. n, r[k - 1] \in S PROVE r[k] = step[<<r[k - 1], q[k]>>]
  <2>1. k \in Nat /\ k \in 1 .. k /\ 1 .. k \in SUBSET (1 .. n) BY <1>1
  <2>2. Max(1 .. k) = k BY <2>1, LastIndex
  <2>3. (1 .. k) \ {k} = 1 .. (k - 1) /\ 1 .. k # {} BY <2>1, ShorterInterval
  <2>4. k - 1 \in 0 .. n /\ k \in 0 .. n BY <1>1
  <2>5. r[k - 1] = f[1 .. (k - 1)] /\ r[k] = f[1 .. k] BY <2>4
  <2> QED BY <1>3, <2>1, <2>2, <2>3, <2>5
<1>4. ASSUME NEW k \in 0 .. (n - 1), k \in P PROVE k + 1 \in P
  <2>1. k + 1 \in 1 .. n /\ (k + 1) - 1 = k /\ q[k + 1] \in E /\ k + 1 \in 0 .. n OBVIOUS
  <2>2. r[k] \in S BY <1>4
  <2>3. r[k + 1] = step[<<r[k], q[k + 1]>>] BY <1>3, <2>1, <2>2
  <2>4. <<r[k], q[k + 1]>> \in S \X E BY <2>1, <2>2
  <2>5. step[<<r[k], q[k + 1]>>] \in S BY <2>4
  <2> HIDE DEF r
  <2> QED BY <2>1, <2>3, <2>5
<1>5. 0 \in P BY <1>1, <1>2
<1> HIDE DEF r
<1>6. \A k \in 0 .. n : k \in P
  <2> HIDE DEF P
  <2>1. \A k \in 0 .. (n - 1) : k \in P => k + 1 \in P BY <1>4
  <2> QED BY <1>1, <1>5, <2>1, Inductive
<1>7. \A k \in 1 .. n : r[k] = step[<<r[k - 1], q[k]>>]
  <2>1. ASSUME NEW k \in 1 .. n PROVE r[k] = step[<<r[k - 1], q[k]>>]
    <3>1. k - 1 \in 0 .. n OBVIOUS
    <3>2. r[k - 1] \in S BY <1>6, <3>1
    <3> QED BY <1>3, <3>2
  <2> QED BY <2>1
<1>8. r[n] = f[1 .. n] BY <1>1 DEF r
<1> QED BY <1>2, <1>7, <1>8 DEF RunsTo, IsRun

\* A run starts where it starts, stays in S, and goes on by one step for one
\* more element.
LEMMA RunOfNone ==
  ASSUME NEW v, NEW base, NEW step, RunsTo(v, base, step, <<>>)
  PROVE  v = base
BY DEF RunsTo, IsRun

LEMMA RunIsTyped ==
  ASSUME NEW S, NEW E, NEW step \in [S \X E -> S], NEW base \in S, NEW q \in Seq(E),
         NEW v, RunsTo(v, base, step, q)
  PROVE  v \in S
<1>1. PICK r : IsRun(r, base, step, q) /\ v = r[Len(q)] BY DEF RunsTo
<1>2. Len(q) \in 0 .. Len(q) /\ Len(q) <= Len(q) OBVIOUS
<1>3. r[Len(q)] \in S BY <1>1, <1>2, RunsAgree
<1> QED BY <1>1, <1>3

\* One step of a typed run (an operator, for the provers to match).
OneStep(v, e, w, S, E, step) == <<v, e>> \in S \X E /\ w = step[<<v, e>>]

LEMMA RunOfMore ==
  ASSUME NEW S, NEW E, NEW step \in [S \X E -> S], NEW base \in S, NEW p \in Seq(E), NEW e \in E,
         NEW q, q = Append(p, e),
         NEW v, RunsTo(v, base, step, p), NEW w, RunsTo(w, base, step, q)
  PROVE  OneStep(v, e, w, S, E, step)
<1> DEFINE n == Len(p)
<1>1. /\ q \in Seq(E) /\ n \in Nat /\ Len(q) = n + 1 /\ q[n + 1] = e
      /\ \A k \in 1 .. n : p[k] = q[k]
  OBVIOUS
<1>2. PICK r : IsRun(r, base, step, p) /\ v = r[n] BY DEF RunsTo
<1>3. PICK t : IsRun(t, base, step, q) /\ w = t[n + 1] BY <1>1 DEF RunsTo
<1>4. r[n] = t[n] /\ r[n] \in S
  <2>1. n \in 0 .. Len(p) /\ n <= Len(q) BY <1>1
  <2> QED BY <2>1, <1>1, <1>2, <1>3, RunsAgree
<1>5. t[n + 1] = step[<<t[n], e>>]
  <2>1. n + 1 \in 1 .. Len(q) /\ (n + 1) - 1 = n BY <1>1
  <2> QED BY <1>1, <1>3, <2>1 DEF IsRun
<1> QED BY <1>2, <1>3, <1>4, <1>5 DEF OneStep

-----------------------------------------------------------------------------
(* The replay of a sequence of events, as an operator of its own.          *)

FoldOf(base, q) == FoldLeft(Folded, base, q)
FoldStep(S, E) == [se \in S \X E |-> Folded(se[1], se[2])]

\* FoldLeft computes what a run ends in.
LEMMA FoldedRuns ==
  ASSUME NEW S, NEW E, NEW base \in S, NEW q \in Seq(E), \A x \in S, e \in E : Folded(x, e) \in S
  PROVE  /\ FoldStep(S, E) \in [S \X E -> S]
         /\ RunsTo(FoldOf(base, q), base, FoldStep(S, E), q)
<1> DEFINE D == SUBSET (DOMAIN q)
           Solves(f) == f = [s \in D |-> IF s = {} THEN base ELSE Folded(f[s \ {Max(s)}], q[Max(s)])]
           step == FoldStep(S, E)
           n == Len(q)
<1>1. FoldOf(base, q) = (CHOOSE f : Solves(f))[DOMAIN q]
  BY Zenon DEF FoldOf, FoldLeft, MapThenFoldSet
<1>2. step \in [S \X E -> S] /\ DOMAIN q = 1 .. n /\ n \in Nat BY DEF FoldStep
<1>3. PICK g \in [SUBSET (1 .. n) -> S] : FoldsOn(g, base, step, q, n) BY <1>2, FoldExists
<1>4. ASSUME NEW s \in SUBSET (1 .. n), s # {}, NEW x \in S
      PROVE  Folded(x, q[Max(s)]) = step[<<x, q[Max(s)]>>]
  <2>1. Max(s) \in 1 .. n BY <1>2, <1>4, GreatestIndex
  <2>2. <<x, q[Max(s)]>> \in S \X E BY <2>1
  <2> QED BY <2>2 DEF FoldStep
<1>5. Solves(g)
  <2>1. ASSUME NEW s \in D PROVE g[s] = IF s = {} THEN base ELSE Folded(g[s \ {Max(s)}], q[Max(s)])
    <3>1. CASE s = {} BY <1>2, <1>3, <3>1 DEF FoldsOn
    <3>2. CASE s # {}
      <4>1. g[s] = step[<<g[s \ {Max(s)}], q[Max(s)]>>] BY <1>2, <1>3, <3>2 DEF FoldsOn
      <4>2. s \ {Max(s)} \in SUBSET (1 .. n) /\ s \in SUBSET (1 .. n) BY <1>2
      <4>3. g[s \ {Max(s)}] \in S BY <1>3, <4>2
      <4> QED BY <1>4, <3>2, <4>1, <4>2, <4>3
    <3> QED BY <3>1, <3>2
  <2> QED BY <1>2, <1>3, <2>1
<1> DEFINE f == CHOOSE f : Solves(f)
<1>6. Solves(f) BY <1>5
<1>7. FoldOf(base, q) = f[1 .. n] BY <1>1, <1>2
<1> HIDE DEF f
<1>8. f[{}] = base
  <2>1. {} \in D OBVIOUS
  <2> QED BY <1>6, <2>1
<1>9. \A s \in SUBSET (1 .. n) :
        s # {} /\ f[s \ {Max(s)}] \in S => f[s] = step[<<f[s \ {Max(s)}], q[Max(s)]>>]
  <2> SUFFICES ASSUME NEW s \in SUBSET (1 .. n), s # {}, f[s \ {Max(s)}] \in S
               PROVE  f[s] = step[<<f[s \ {Max(s)}], q[Max(s)]>>]
    OBVIOUS
  <2>1. s \in D BY <1>2
  <2>2. f[s] = Folded(f[s \ {Max(s)}], q[Max(s)]) BY <1>6, <2>1
  <2> QED BY <1>4, <2>2
<1> HIDE DEF step
<1>10. RunsTo(f[1 .. n], base, step, q) BY <1>2, <1>8, <1>9, SolutionRuns
<1> QED BY <1>2, <1>7, <1>10 DEF step

\* A fold is typed by what its step keeps, starts where it starts, and goes on
\* by one step for one more event.
LEMMA FoldOfNone ==
  ASSUME NEW S, NEW base \in S
  PROVE  FoldOf(base, <<>>) = base
<1> DEFINE E == {}
<1>1. <<>> \in Seq(E) OBVIOUS
<1>2. \A x \in S, e \in E : Folded(x, e) \in S OBVIOUS
<1> HIDE DEF E
<1>3. RunsTo(FoldOf(base, <<>>), base, FoldStep(S, E), <<>>) BY <1>1, <1>2, FoldedRuns
<1> QED BY <1>3, RunOfNone

LEMMA FoldTyped ==
  ASSUME NEW S, NEW E, NEW base \in S, NEW q \in Seq(E), \A x \in S, e \in E : Folded(x, e) \in S
  PROVE  FoldOf(base, q) \in S
<1>1. /\ FoldStep(S, E) \in [S \X E -> S]
      /\ RunsTo(FoldOf(base, q), base, FoldStep(S, E), q)
  BY FoldedRuns
<1> QED BY <1>1, RunIsTyped

LEMMA FoldOfMore ==
  ASSUME NEW S, NEW E, NEW base \in S, NEW p \in Seq(E), NEW e \in E,
         \A x \in S, d \in E : Folded(x, d) \in S
  PROVE  FoldOf(base, Append(p, e)) = Folded(FoldOf(base, p), e)
<1> DEFINE q == Append(p, e)
           v == FoldOf(base, p)
           w == FoldOf(base, q)
           step == FoldStep(S, E)
<1>1. q \in Seq(E) OBVIOUS
<1> HIDE DEF q
<1>2. step \in [S \X E -> S] /\ RunsTo(v, base, step, p) BY FoldedRuns
<1>3. RunsTo(w, base, step, q) BY <1>1, FoldedRuns
<1> HIDE DEF step, v, w
<1>4. q = Append(p, e) BY DEF q
<1>5. OneStep(v, e, w, S, E, step) BY <1>2, <1>3, <1>4, RunOfMore
<1>6. <<v, e>> \in S \X E /\ w = step[<<v, e>>] BY <1>5 DEF OneStep
<1>7. step[<<v, e>>] = Folded(v, e) BY <1>6 DEF step, FoldStep
<1> QED BY <1>6, <1>7 DEF q, v, w

-----------------------------------------------------------------------------
(* The fold of a task's events.                                            *)

\* The fields the fold reads, and a task's state after one event.
EventTypes ==
  {"TASK_CREATED", "CURSOR_DISPATCHED", "EXECUTION_COMMITTED", "VERIFICATION_RESULT",
   "CHECKPOINT_CREATED", "TARGET_CONFLICT", "FAILURE_CLASSIFIED", "WORKER_HANDOFF",
   "TASK_PAUSED", "PHASE_TRANSITION", "STALE_LOCK_RECLAIMED"}
Entries ==
  [task: {AnyTask} \union Tasks, type: EventTypes, op: Ops \union {NoOp},
   pre: Digests \union {NoDigest}, post: Digests \union {NoDigest},
   ok: BOOLEAN, over: BOOLEAN]

LEMMA FoldedTask ==
  ASSUME NEW s \in TaskStates, NEW e \in Entries
  PROVE  Folded(s, e) \in TaskStates
<1>1. NoCursor \in Cursors BY DEF NoCursor, Cursors
<1>2. Ensured(s) \in TaskStates BY DEF Ensured, TaskStates
<1>3. \A t \in TaskStates : Committed(t, e) \in TaskStates
  <2> SUFFICES ASSUME NEW t \in TaskStates PROVE Committed(t, e) \in TaskStates OBVIOUS
  <2> DEFINE post == IF e.post = NoDigest THEN t.cursor.post ELSE e.post
             k == [t.cursor EXCEPT !.status = "COMMITTED", !.post = post]
  <2>1. t.cursor \in Cursors /\ post \in Digests \union {NoDigest}
    BY DEF TaskStates, Cursors, Entries
  <2> HIDE DEF post
  <2>2. k \in Cursors BY <2>1 DEF Cursors
  <2>3. [t EXCEPT !.cursor = k] \in TaskStates BY <2>2 DEF TaskStates
  <2>4. [t EXCEPT !.cursor.status = "COMMITTED", !.cursor.post = post] = [t EXCEPT !.cursor = k]
    BY <2>1 DEF TaskStates, Cursors
  <2> QED BY <2>3, <2>4 DEF Committed, post
<1>4. \A t \in TaskStates : Verified(t, e) \in TaskStates
  <2> SUFFICES ASSUME NEW t \in TaskStates PROVE Verified(t, e) \in TaskStates OBVIOUS
  <2> DEFINE k == IF e.ok THEN NoCursor ELSE t.cursor
             u == CASE e.over /\ e.ok -> "COMPLETED"
                    [] e.over /\ ~e.ok -> "FAILED"
                    [] OTHER -> t.status
  <2>1. k \in Cursors /\ [t EXCEPT !.cursor = k, !.status = u] = Verified(t, e)
    BY <1>1 DEF TaskStates, Verified
  <2>2. [t EXCEPT !.cursor = k, !.status = u].status = u BY DEF TaskStates
  <2>3. u \in {"COMPLETED", "FAILED", t.status} BY DEF Entries
  <2> HIDE DEF k, u
  <2> QED BY <2>1, <2>3 DEF TaskStates
<1>5. [status |-> "RUNNING",
       cursor |-> [op |-> e.op, status |-> "DISPATCHED", pre |-> e.pre, post |-> e.post]]
        \in TaskStates
  BY DEF TaskStates, Cursors, Entries
<1>6. \A t \in TaskStates :
        [status |-> "RE_PLAN",
         cursor |-> IF HasCursor(t) THEN [t.cursor EXCEPT !.status = "CONFLICT"] ELSE NoCursor]
           \in TaskStates
  BY <1>1 DEF TaskStates, Cursors
<1>7. \A t \in TaskStates, u \in {"CREATED", "RUNNING", "INTERRUPTED", "PAUSED"} :
        [t EXCEPT !.status = u] \in TaskStates
  BY DEF TaskStates
<1> DEFINE t == Ensured(s)
<1> HIDE DEF t
<1>8. t \in TaskStates BY <1>2 DEF t
<1>9. /\ [t EXCEPT !.status = IF @ = "CREATED" THEN "RUNNING" ELSE @] \in TaskStates
      /\ [t EXCEPT !.status = IF @ = "RUNNING" THEN "INTERRUPTED" ELSE @] \in TaskStates
      /\ [t EXCEPT !.status = IF @ = "INTERRUPTED" THEN "RUNNING" ELSE @] \in TaskStates
  BY <1>8 DEF TaskStates
<1>10. Folded(s, e) =
  CASE e.type = "TASK_CREATED"        ->
         IF s.status = "ABSENT" THEN [s EXCEPT !.status = "CREATED"] ELSE s
    [] e.type = "CURSOR_DISPATCHED"   ->
         [status |-> "RUNNING",
          cursor |-> [op |-> e.op, status |-> "DISPATCHED", pre |-> e.pre, post |-> e.post]]
    [] e.type = "EXECUTION_COMMITTED" -> Committed(t, e)
    [] e.type = "VERIFICATION_RESULT" -> Verified(t, e)
    [] e.type = "CHECKPOINT_CREATED"  ->
         [t EXCEPT !.status = IF @ = "CREATED" THEN "RUNNING" ELSE @]
    [] e.type = "TARGET_CONFLICT"     ->
         [status |-> "RE_PLAN",
          cursor |-> IF HasCursor(t) THEN [t.cursor EXCEPT !.status = "CONFLICT"] ELSE NoCursor]
    [] e.type = "FAILURE_CLASSIFIED"  ->
         [t EXCEPT !.status = IF @ = "RUNNING" THEN "INTERRUPTED" ELSE @]
    [] e.type = "WORKER_HANDOFF"      ->
         [t EXCEPT !.status = IF @ = "INTERRUPTED" THEN "RUNNING" ELSE @]
    [] e.type = "TASK_PAUSED"         -> [t EXCEPT !.status = "PAUSED"]
    [] e.type = "PHASE_TRANSITION"    -> t
    [] OTHER                          -> s
  BY Zenon DEF Folded, t
<1> QED BY <1>3, <1>4, <1>5, <1>6, <1>7, <1>8, <1>9, <1>10

\* Every sequence of events leaves a task state; what follows the last event
\* is one step of the fold.
LEMMA TaskFolded ==
  ASSUME NEW s \in TaskStates, NEW q \in Seq(Entries)
  PROVE  FoldOf(s, q) \in TaskStates
<1>1. \A x \in TaskStates, e \in Entries : Folded(x, e) \in TaskStates BY FoldedTask
<1> QED BY <1>1, FoldTyped

LEMMA TaskFoldedMore ==
  ASSUME NEW s \in TaskStates, NEW q \in Seq(Entries), NEW e \in Entries
  PROVE  FoldOf(s, Append(q, e)) = Folded(FoldOf(s, q), e)
<1>1. \A x \in TaskStates, d \in Entries : Folded(x, d) \in TaskStates BY FoldedTask
<1> QED BY <1>1, FoldOfMore

LEMMA TaskFoldedOnce ==
  ASSUME NEW s \in TaskStates, NEW e \in Entries
  PROVE  FoldOf(s, <<e>>) = Folded(s, e) /\ FoldOf(s, <<>>) = s
<1>1. <<>> \in Seq(Entries) /\ Append(<<>>, e) = <<e>> OBVIOUS
<1>2. FoldOf(s, <<>>) = s BY FoldOfNone
<1> QED BY <1>1, <1>2, TaskFoldedMore
-----------------------------------------------------------------------------
(* What a sequence of events leaves alone.                                 *)

\* Events that end no task.
Quiet == {e \in Entries : ~e.over}

\* Events that touch no cursor except to clear it.
Cursorless ==
  {e \in Entries : e.type \notin {"CURSOR_DISPATCHED", "EXECUTION_COMMITTED", "TARGET_CONFLICT"}}

\* Only an event that is over ends a task.
LEMMA QuietFolded ==
  ASSUME NEW s \in TaskStates, ~Terminal(s), NEW q \in Seq(Quiet)
  PROVE  ~Terminal(FoldOf(s, q))
<1> DEFINE S == {t \in TaskStates : ~Terminal(t)}
<1>1. ASSUME NEW t \in S, NEW e \in Quiet PROVE Folded(t, e) \in S
  <2>1. Folded(t, e) \in TaskStates BY FoldedTask DEF Quiet
  <2>2. t.status \notin {"COMPLETED", "FAILED"} /\ t \in TaskStates /\ e.over = FALSE
    BY DEF Terminal, Quiet, Entries
  <2>3. ~Terminal(Ensured(t)) /\ Ensured(t) \in TaskStates
    BY <2>2 DEF Ensured, Terminal, TaskStates
  <2>4. Committed(Ensured(t), e).status = Ensured(t).status
    BY <2>3 DEF Committed, TaskStates
  <2>5. Verified(Ensured(t), e).status = Ensured(t).status
    BY <2>2, <2>3 DEF Verified, TaskStates
  <2>6. ~Terminal(Folded(t, e))
    BY <2>2, <2>3, <2>4, <2>5 DEF Folded, Terminal, TaskStates
  <2> QED BY <2>1, <2>6
<1>2. s \in S OBVIOUS
<1>3. \A t \in S, e \in Quiet : Folded(t, e) \in S BY <1>1
<1> HIDE DEF S
<1>4. FoldOf(s, q) \in S BY <1>2, <1>3, FoldTyped
<1> QED BY <1>4 DEF S

\* The cursor stays what it was or is cleared.
LEMMA CursorFolded ==
  ASSUME NEW s \in TaskStates, NEW q \in Seq(Cursorless)
  PROVE  FoldOf(s, q).cursor \in {s.cursor, NoCursor}
<1> DEFINE S == {t \in TaskStates : t.cursor \in {s.cursor, NoCursor}}
<1>1. ASSUME NEW t \in S, NEW e \in Cursorless PROVE Folded(t, e) \in S
  <2>1. Folded(t, e) \in TaskStates BY FoldedTask DEF Cursorless
  <2>2. t \in TaskStates
        /\ e.type \notin {"CURSOR_DISPATCHED", "EXECUTION_COMMITTED", "TARGET_CONFLICT"}
    BY DEF Cursorless
  <2>3. Ensured(t).cursor = t.cursor /\ Ensured(t) \in TaskStates
    BY <2>2 DEF Ensured, TaskStates
  <2>4. Verified(Ensured(t), e).cursor \in {t.cursor, NoCursor}
    BY <2>3 DEF Verified, TaskStates
  <2>5. Folded(t, e).cursor \in {t.cursor, NoCursor}
    BY <2>2, <2>3, <2>4 DEF Folded, TaskStates
  <2> QED BY <2>1, <2>5
<1>2. s \in S OBVIOUS
<1>3. \A t \in S, e \in Cursorless : Folded(t, e) \in S BY <1>1
<1> HIDE DEF S
<1>4. FoldOf(s, q) \in S BY <1>2, <1>3, FoldTyped
<1> QED BY <1>4 DEF S

\* Only a completion completes a task.
LEMMA IncompleteFolded ==
  ASSUME NEW s \in TaskStates, s.status # "COMPLETED",
         NEW q \in Seq({e \in Entries : ~(e.over /\ e.ok)})
  PROVE  FoldOf(s, q).status # "COMPLETED"
<1> DEFINE S == {t \in TaskStates : t.status # "COMPLETED"}
           E == {e \in Entries : ~(e.over /\ e.ok)}
<1>1. ASSUME NEW t \in S, NEW e \in E PROVE Folded(t, e) \in S
  <2>1. Folded(t, e) \in TaskStates BY FoldedTask
  <2>2. t.status # "COMPLETED" /\ t \in TaskStates /\ ~(e.over /\ e.ok) OBVIOUS
  <2>3. Ensured(t).status # "COMPLETED" /\ Ensured(t) \in TaskStates
    BY <2>2 DEF Ensured, TaskStates
  <2>4. Committed(Ensured(t), e).status = Ensured(t).status
    BY <2>3 DEF Committed, TaskStates
  <2>5. Verified(Ensured(t), e).status # "COMPLETED"
    BY <2>2, <2>3 DEF Verified, TaskStates
  <2>6. Folded(t, e).status # "COMPLETED"
    BY <2>2, <2>3, <2>4, <2>5 DEF Folded, TaskStates
  <2> QED BY <2>1, <2>6
<1>2. s \in S OBVIOUS
<1>3. \A t \in S, e \in E : Folded(t, e) \in S BY <1>1
<1>4. q \in Seq(E) OBVIOUS
<1> HIDE DEF S, E
<1>5. FoldOf(s, q) \in S BY <1>2, <1>3, <1>4, FoldTyped
<1> QED BY <1>5 DEF S
=============================================================================
