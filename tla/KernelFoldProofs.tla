------------------------- MODULE KernelFoldProofs -------------------------
(***************************************************************************)
(* Theorems about KernelFold: whatever a producer offers, Fold rebuilds    *)
(* the state from the log that was accepted and from no damaged copy of    *)
(* it, and what was accepted is a history an execution could have.         *)
(***************************************************************************)
EXTENDS KernelFold, KernelReducerProofs, SequenceTheorems

vars == <<x, s, log>>

\* What one accepted event does.
LEMMA OfferIs ==
  ASSUME TypeOK, NEW e \in Alphabet, Offer(e)
  PROVE  /\ e \in Events /\ Accepts(x, s, e)
         /\ x' = x /\ s' = Reduced(x, s, e)
         /\ Stamped(e) \in Events /\ log' = Append(log, Stamped(e))
<1>1. s.revision + 1 \in Nat BY DEF TypeOK, States
<1>2. e \in Events BY FoldAssumption
<1>3. Stamped(e) \in Events BY <1>1, <1>2 DEF Stamped, Events
<1> QED BY <1>2, <1>3 DEF Offer

LEMMA TypesInit == Init => TypeOK
<1> SUFFICES ASSUME Init PROVE TypeOK OBVIOUS
<1>1. InitialState \in States BY DEF InitialState, States, Statuses, ProviderAxes, NoTerminal
<1> QED BY <1>1 DEF Init, TypeOK

LEMMA TypesStep == TypeOK /\ [Next]_vars => TypeOK'
<1> SUFFICES ASSUME TypeOK, [Next]_vars PROVE TypeOK' OBVIOUS
<1>1. CASE UNCHANGED vars BY <1>1 DEF vars, TypeOK
<1>2. ASSUME NEW e \in Alphabet, Offer(e) PROVE TypeOK'
  <2>1. e \in Events /\ Accepts(x, s, e) /\ x' = x /\ s' = Reduced(x, s, e)
    BY <1>2, OfferIs
  <2>2. x.spec.program \in Seq(StepsOf(x.spec)) BY FoldAssumption DEF TypeOK
  <2>3. s' \in States BY <2>1, <2>2, ReducedType DEF TypeOK
  <2>4. log' \in Seq(Events) BY <1>2, OfferIs DEF TypeOK
  <2> QED BY <2>1, <2>3, <2>4 DEF TypeOK
<1> QED BY <1>1, <1>2 DEF Next

-----------------------------------------------------------------------------
(* Fold reads the log back: at every prefix as many revisions as events,    *)
(* and the state at the end.                                                *)

Reads ==
  /\ s.revision = Len(log) /\ Fold(x, log) = s
  /\ \A i \in DOMAIN log : log[i].revision = i
  /\ \A i \in 0..Len(log) : Fold(x, SubSeq(log, 1, i)).revision = i

LEMMA ReadsInit == Init => Reads
<1> SUFFICES ASSUME Init PROVE Reads OBVIOUS
<1>1. log = <<>> /\ Len(log) = 0 /\ s = InitialState BY DEF Init
<1>2. InitialState.revision = 0 BY DEF InitialState
<1>3. ASSUME NEW i \in 0..Len(log) PROVE i = 0 /\ Len(SubSeq(log, 1, i)) = 0
  BY <1>1
<1>4. Fold(x, log) = InitialState BY <1>1, FoldNone
<1>5. \A i \in 0..Len(log) : Fold(x, SubSeq(log, 1, i)) = InitialState BY <1>3, FoldNone
<1> QED BY <1>1, <1>2, <1>3, <1>4, <1>5 DEF Reads

LEMMA ReadsOffer ==
  ASSUME TypeOK, Reads, NEW e \in Alphabet, Offer(e)
  PROVE  Reads'
<1> DEFINE n == Len(log)
           q == Stamped(e)
<1>1. /\ e \in Events /\ Accepts(x, s, e) /\ x' = x /\ s' = Reduced(x, s, e)
      /\ q \in Events /\ log' = Append(log, q)
  BY OfferIs
<1>2. log \in Seq(Events) /\ s \in States /\ n \in Nat BY DEF TypeOK
<1>3. q = [e EXCEPT !.revision = n + 1] BY DEF Stamped, Reads
<1>4. q.revision = n + 1 BY <1>1, <1>3 DEF Events
<1> HIDE DEF q
<1>5. Accepts(x, s, q) = Accepts(x, s, e) /\ Reduced(x, s, q) = Reduced(x, s, e)
  <2> DEFINE m == n + 1
  <2>1. m \in Nat BY <1>2
  <2>2. q = [e EXCEPT !.revision = m] BY <1>3
  <2> HIDE DEF m
  <2> QED BY <1>1, <2>1, <2>2, StampIsIdle
<1>6. log' \in Seq(Events) /\ Len(log') = n + 1 /\ log'[n + 1] = q
        /\ \A i \in 1..n : log'[i] = log[i]
  BY <1>1, <1>2
<1>7. ASSUME NEW i \in 0..n PROVE SubSeq(log', 1, i) = SubSeq(log, 1, i)
  <2> DEFINE a == SubSeq(log, 1, i)
             b == SubSeq(log', 1, i)
  <2>1. i \in 0..Len(log') BY <1>2, <1>6
  <2>2. a \in Seq(Events) /\ Len(a) = i /\ \A j \in 1..i : a[j] = log[j] BY <1>2, PrefixIs
  <2>3. b \in Seq(Events) /\ Len(b) = i /\ \A j \in 1..i : b[j] = log'[j]
    BY <1>6, <2>1, PrefixIs
  <2>4. \A j \in 1..i : a[j] = b[j] BY <1>2, <1>6, <2>2, <2>3
  <2> HIDE DEF a, b
  <2>5. a = b BY <2>2, <2>3, <2>4
  <2> QED BY <2>5 DEF a, b
<1>8. Fold(x, log') = s'
  <2>1. n + 1 \in 1..Len(log') /\ (n + 1) - 1 = n /\ n \in 0..n BY <1>2, <1>6
  <2>2. SubSeq(log', 1, n + 1) = log' /\ SubSeq(log, 1, n) = log BY <1>2, <1>6
  <2>3. Fold(x, SubSeq(log', 1, n + 1)) =
          Applied(x, Fold(x, SubSeq(log', 1, (n + 1) - 1)), log'[n + 1])
    BY <1>6, <2>1, FoldStep
  <2>4. Fold(x, log') = Applied(x, s, q) BY <1>6, <1>7, <2>1, <2>2, <2>3 DEF Reads
  <2>5. s.status # "REJECTED" BY <1>2 DEF States, Statuses
  <2>6. Follows(s, q) BY <1>4 DEF Follows, Reads
  <2> QED BY <1>1, <1>5, <2>4, <2>5, <2>6 DEF Applied
<1>9. s'.revision = n + 1 BY <1>1, <1>2, RevisionOf DEF Reads
<1>10. ASSUME NEW i \in 0..Len(log') PROVE Fold(x, SubSeq(log', 1, i)).revision = i
  <2>1. CASE i \in 0..n BY <1>7, <2>1 DEF Reads
  <2>2. CASE i = n + 1
    <3>1. SubSeq(log', 1, n + 1) = log' BY <1>6
    <3> QED BY <1>8, <1>9, <2>2, <3>1
  <2> QED BY <1>2, <1>6, <2>1, <2>2
<1>11. ASSUME NEW i \in DOMAIN log' PROVE log'[i].revision = i
  <2>1. CASE i \in 1..n BY <1>2, <1>6, <2>1 DEF Reads
  <2>2. CASE i = n + 1 BY <1>4, <1>6, <2>2
  <2> QED BY <1>2, <1>6, <2>1, <2>2
<1> QED BY <1>1, <1>6, <1>8, <1>9, <1>10, <1>11 DEF Reads

LEMMA ReadsStep == TypeOK /\ Reads /\ [Next]_vars => Reads'
<1>1. TypeOK /\ Reads /\ UNCHANGED vars => Reads' BY DEF vars, Reads
<1> QED BY <1>1, ReadsOffer DEF Next

LEMMA ReadBack == Spec => [](TypeOK /\ Reads)
<1>1. Init => TypeOK /\ Reads BY TypesInit, ReadsInit
<1>2. TypeOK /\ Reads /\ [Next]_vars => TypeOK' /\ Reads' BY TypesStep, ReadsStep
<1> QED BY <1>1, <1>2, PTL DEF Spec, vars
\* The damaged copies of a log: the sequences, and the place that gives each of
\* them away, where a record does not carry the next revision.
LEMMA Copies ==
  ASSUME TypeOK, Reads, NEW i \in DOMAIN log
  PROVE  /\ Refuses(Twice(i))
         /\ i < Len(log) => Refuses(Without(i)) /\ Refuses(Exchanged(i))
<1> DEFINE n == Len(log)
           b == Before(i)
<1>1. log \in Seq(Events) /\ n \in Nat /\ i \in 1..n BY DEF TypeOK
<1>2. b \in Seq(Events) /\ Len(b) = i - 1 /\ \A j \in 1..(i - 1) : b[j] = log[j]
  <2> DEFINE m == i - 1
  <2>1. m \in 0..Len(log) BY <1>1
  <2> HIDE DEF m
  <2>2. /\ SubSeq(log, 1, m) \in Seq(Events) /\ Len(SubSeq(log, 1, m)) = m
        /\ \A j \in 1..m : SubSeq(log, 1, m)[j] = log[j]
    BY <1>1, <2>1, PrefixIs
  <2> QED BY <2>2 DEF m, Before
<1>3. \A j \in 1..n : log[j].revision = j BY <1>1 DEF Reads
<1>4. \A j \in 0..n : Fold(x, SubSeq(log, 1, j)).revision = j BY DEF Reads
<1>5. Rejected.status = "REJECTED" BY DEF Rejected, InitialState
<1> HIDE DEF b
<1>6. Refuses(Twice(i))
  <2> DEFINE c == SubSeq(log, i, n)
             a == b \o <<log[i]>>
             h == a \o c
  <2>1. c \in Seq(Events) /\ Len(c) = n - i + 1 /\ c[1] = log[i] BY <1>1
  <2> HIDE DEF c
  <2>2. a \in Seq(Events) /\ Len(a) = i /\ \A j \in 1..i : a[j] = log[j] BY <1>1, <1>2
  <2> HIDE DEF a
  <2>3. h \in Seq(Events) /\ Len(h) = n + 1 /\ h[i + 1] = log[i]
          /\ \A j \in 1..i : h[j] = log[j]
    <3>1. Len(c) \in Nat /\ 1 <= Len(c) /\ i + Len(c) = n + 1 /\ i \in Nat BY <1>1, <2>1
    <3> HIDE DEF n
    <3>2. h \in Seq(Events) /\ Len(h) = i + Len(c) BY <2>1, <2>2
    <3>3. \A j \in 1..i : h[j] = a[j] BY <2>1, <2>2, <3>1
    <3>4. h[i + 1] = c[1] BY <2>1, <2>2, <3>1
    <3> QED BY <2>1, <2>2, <3>1, <3>2, <3>3, <3>4
  <2>4. Twice(i) = h BY DEF Twice, a, b, c, n
  <2> HIDE DEF h
  <2> DEFINE k == i + 1
  <2>5. k \in 1..Len(h) /\ k - 1 <= Len(log) /\ k - 1 = i /\ k # i /\ i # 0 BY <1>1, <2>3
  <2>6. h[k].revision \notin {0, k} BY <1>1, <1>3, <2>3, <2>5
  <2>7. Fold(x, SubSeq(log, 1, k - 1)).revision = k - 1 BY <1>1, <1>4, <2>5
  <2>8. \A j \in 1..(k - 1) : h[j] = log[j] BY <2>3, <2>5
  <2> HIDE DEF k
  <2>9. Fold(x, h) = Rejected BY <1>1, <2>3, <2>5, <2>6, <2>7, <2>8, FoldRefuses
  <2> QED BY <1>5, <2>4, <2>9 DEF Refuses
<1>7. ASSUME NEW h, h \in Seq(Events), i < n, Len(h) >= i, h[i] = log[i + 1],
             \A j \in 1..(i - 1) : h[j] = log[j]
      PROVE  Refuses(h)
  <2>1. i \in 1..Len(h) /\ i - 1 <= Len(log) /\ i + 1 \in 1..n /\ i - 1 \in 0..n
    BY <1>1, <1>7
  <2>2. h[i].revision = i + 1 /\ i + 1 # i /\ i + 1 # 0 BY <1>3, <1>7, <2>1
  <2>3. h[i].revision \notin {0, i} BY <2>2
  <2>4. Fold(x, SubSeq(log, 1, i - 1)).revision = i - 1 BY <1>4, <2>1
  <2>5. Fold(x, h) = Rejected BY <1>1, <1>7, <2>1, <2>3, <2>4, FoldRefuses
  <2> QED BY <1>5, <2>5 DEF Refuses
<1>8. ASSUME i < n PROVE Refuses(Without(i))
  <2> DEFINE c == SubSeq(log, i + 1, n)
             h == b \o c
  <2>1. c \in Seq(Events) /\ Len(c) = n - i /\ c[1] = log[i + 1] BY <1>1, <1>8
  <2> HIDE DEF c
  <2>2. h \in Seq(Events) /\ Len(h) >= i /\ h[i] = log[i + 1]
          /\ \A j \in 1..(i - 1) : h[j] = log[j]
    BY <1>1, <1>2, <1>8, <2>1
  <2>3. Without(i) = h BY DEF Without, b, c, n
  <2> HIDE DEF h
  <2> QED BY <1>7, <1>8, <2>2, <2>3
<1>9. ASSUME i < n PROVE Refuses(Exchanged(i))
  <2> DEFINE h == Exchanged(i)
  <2>1. h = [log EXCEPT ![i] = log[i + 1], ![i + 1] = log[i]] BY DEF Exchanged
  <2>2. i + 1 \in 1..n /\ log[i] \in Events /\ log[i + 1] \in Events BY <1>1, <1>9
  <2> HIDE DEF h
  <2>3. h \in Seq(Events) /\ Len(h) = n BY <1>1, <2>1, <2>2
  <2>4. h[i] = log[i + 1] /\ \A j \in 1..(i - 1) : h[j] = log[j] BY <1>1, <2>1, <2>2
  <2>5. Len(h) >= i BY <1>1, <2>3
  <2> QED BY <1>7, <1>9, <2>3, <2>4, <2>5 DEF h
<1> QED BY <1>6, <1>8, <1>9

\* Fold rebuilds the state from its log and from no copy that lost a record
\* before its end, repeats one or exchanges two: DamagedLogsAreRefused.
THEOREM DamageRefused == Spec => []DamagedLogsAreRefused
<1>1. TypeOK /\ Reads => DamagedLogsAreRefused BY Copies DEF DamagedLogsAreRefused, Reads
<1> QED BY <1>1, ReadBack, PTL
-----------------------------------------------------------------------------
(* Histories.                                                              *)

\* What is in evidence was valid when it was produced.
Valid == \A rec \in s.evidence : ValidRecord(x.spec, rec)

\* A check is begun before it is judged.
Checked ==
  /\ s.verifyStarted => Logged("verification.started") # {}
  /\ VerdictsFollowTheirCheck

\* A boundary that is not refuted now was crossed, or checked, again after
\* every refutation of it.
Crossed ==
  s.mutation # "ROLLED_BACK" =>
    \A i \in Logged("mutation.rolled_back") : \E j \in Logged("mutation.applied") : i < j

Rechecks == Logged("verification.passed") \cup Logged("verification.skipped")
              \cup Logged("verification.started")
Recovered ==
  s.verify # "FAILED" => \A i \in Logged("verification.failed") : \E j \in Rechecks : i < j

\* A proven execution is over, and stands unrefuted.
Standing ==
  s.terminal.outcome = "PROVEN" =>
    s.status = "SETTLED" /\ s.mutation # "ROLLED_BACK" /\ s.verify # "FAILED"

HistoryInv == Valid /\ Checked /\ Crossed /\ Recovered /\ Standing

LEMMA HistoryInit == Init => HistoryInv
<1> SUFFICES ASSUME Init PROVE HistoryInv OBVIOUS
<1>1. s = InitialState /\ log = <<>> BY DEF Init
<1>2. \A kind : Logged(kind) = {} BY <1>1 DEF Logged
<1>3. /\ s.evidence = {} /\ s.verifyStarted = FALSE /\ s.verify = "NOT_RUN"
      /\ s.terminal.outcome # "PROVEN"
  BY <1>1 DEF InitialState, NoTerminal, None
<1> QED BY <1>2, <1>3 DEF HistoryInv, Valid, Checked, VerdictsFollowTheirCheck, Crossed,
                          Recovered, Rechecks, Standing

\* An event that is accepted is logged after all others.
LEMMA LoggedMore ==
  ASSUME TypeOK, NEW e \in Alphabet, Offer(e), NEW kind
  PROVE  /\ Logged(kind)' = Logged(kind) \cup (IF e.kind = kind THEN {Len(log) + 1} ELSE {})
         /\ \A i \in Logged(kind) : i \in Nat /\ i < Len(log) + 1
<1> DEFINE n == Len(log)
           q == Stamped(e)
<1>1. log' = Append(log, q) /\ q \in Events /\ e \in Events BY OfferIs
<1>2. log \in Seq(Events) /\ n \in Nat BY DEF TypeOK
<1>3. q.kind = e.kind BY <1>1 DEF Stamped, Events
<1> HIDE DEF q
<1>4. DOMAIN log' = 1..(n + 1) /\ log'[n + 1] = q /\ \A i \in 1..n : log'[i] = log[i]
  BY <1>1, <1>2
<1>5. DOMAIN log = 1..n /\ n + 1 \notin 1..n /\ 1..(n + 1) = 1..n \cup {n + 1} BY <1>2
<1> HIDE DEF n
<1>6. Logged(kind)' = Logged(kind) \cup (IF e.kind = kind THEN {n + 1} ELSE {})
  BY <1>3, <1>4, <1>5 DEF Logged
<1>7. \A i \in Logged(kind) : i \in Nat /\ i < n + 1 BY <1>2, <1>5 DEF Logged
<1> QED BY <1>6, <1>7 DEF n

LEMMA HistoryOffer ==
  ASSUME TypeOK, HistoryInv, NEW e \in Alphabet, Offer(e)
  PROVE  HistoryInv'
<1> DEFINE n == Len(log) + 1
<1>1. e \in Events /\ Accepts(x, s, e) /\ x' = x /\ s' = Reduced(x, s, e) BY OfferIs
<1>2. s \in States BY DEF TypeOK
<1>3. AxesMove(x, s, e, s') BY <1>1, <1>2, AxesAre
<1>4. n \in Nat BY DEF TypeOK
<1>5. \A kind : Logged(kind)' = Logged(kind) \cup (IF e.kind = kind THEN {n} ELSE {})
  BY LoggedMore
<1>6. \A kind : \A i \in Logged(kind) : i \in Nat /\ i < n BY LoggedMore
<1> HIDE DEF n
<1>7. Valid'
  <2> SUFFICES ASSUME NEW rec \in s'.evidence PROVE ValidRecord(x.spec, rec)
    BY <1>1 DEF Valid
  <2>1. CASE rec \in s.evidence BY <2>1 DEF HistoryInv, Valid
  <2>2. CASE rec \notin s.evidence
    <3>1. e.kind = "evidence.produced" /\ \E a \in e.evidence :
            rec = [a EXCEPT !.revision = s.revision + 1]
      BY <1>3, <2>2 DEF AxesMove
    <3>2. PICK a \in e.evidence : rec = [a EXCEPT !.revision = s.revision + 1] BY <3>1
    <3>3. ValidRecord(x.spec, a) BY <1>1, <3>1 DEF Accepts
    <3>4. a \in EvidenceRecords BY <1>1 DEF Events
    <3>5. rec.step = a.step /\ rec.kind = a.kind /\ rec.cap = a.cap /\ rec.verdict = a.verdict
      BY <3>2, <3>4 DEF EvidenceRecords
    <3> QED BY <3>3, <3>5 DEF ValidRecord
  <2> QED BY <2>1, <2>2
<1>8. s'.verifyStarted => Logged("verification.started")' # {}
  BY <1>3, <1>5 DEF AxesMove, HistoryInv, Checked
<1>9. VerdictsFollowTheirCheck'
  <2> SUFFICES ASSUME s'.verify \in {"PASSED", "FAILED"}
               PROVE  \E i \in Logged("verification.started")',
                         j \in Logged("verification.passed")' \cup Logged("verification.failed")' :
                        i < j /\ \A k \in Logged("verification.started")' : k < j
    BY DEF VerdictsFollowTheirCheck
  <2>1. CASE e.kind \in {"verification.passed", "verification.failed"}
    <3>1. s.verifyStarted BY <1>1, <2>1 DEF Accepts
    <3>2. PICK i : i \in Logged("verification.started")
      BY <3>1 DEF HistoryInv, Checked
    <3>3. Logged("verification.started")' = Logged("verification.started")
      BY <1>5, <2>1
    <3>4. n \in Logged("verification.passed")' \cup Logged("verification.failed")'
      BY <1>5, <2>1
    <3> QED BY <1>6, <3>2, <3>3, <3>4
  <2>2. CASE e.kind \notin {"verification.passed", "verification.failed"}
    <3>1. e.kind # "verification.started" /\ s.verify = s'.verify
      BY <1>3, <2>2 DEF AxesMove
    <3>2. Logged("verification.started")' = Logged("verification.started")
      BY <1>5, <3>1
    <3>3. /\ Logged("verification.passed")' = Logged("verification.passed")
          /\ Logged("verification.failed")' = Logged("verification.failed")
      BY <1>5, <2>2
    <3> QED BY <3>1, <3>2, <3>3 DEF HistoryInv, Checked, VerdictsFollowTheirCheck
  <2> QED BY <2>1, <2>2
<1>10. Crossed'
  <2> SUFFICES ASSUME s'.mutation # "ROLLED_BACK", NEW i \in Logged("mutation.rolled_back")'
               PROVE  \E j \in Logged("mutation.applied")' : i < j
    BY DEF Crossed
  <2>1. e.kind # "mutation.rolled_back" /\ (e.kind = "mutation.applied" \/ s'.mutation = s.mutation)
    BY <1>3 DEF AxesMove
  <2>2. i \in Logged("mutation.rolled_back") /\ i < n BY <1>5, <1>6, <2>1
  <2> QED BY <1>5, <2>1, <2>2 DEF HistoryInv, Crossed
<1>11. Recovered'
  <2> DEFINE kinds == {"verification.passed", "verification.skipped", "verification.started"}
  <2> SUFFICES ASSUME s'.verify # "FAILED", NEW i \in Logged("verification.failed")'
               PROVE  \E j \in Rechecks' : i < j
    BY DEF Recovered
  <2>1. e.kind # "verification.failed" /\ (e.kind \in kinds \/ s'.verify = s.verify)
    BY <1>3 DEF AxesMove
  <2>2. i \in Logged("verification.failed") /\ i < n BY <1>5, <1>6, <2>1
  <2>3. Rechecks \subseteq Rechecks' /\ (e.kind \in kinds => n \in Rechecks')
    BY <1>5 DEF Rechecks
  <2> QED BY <2>1, <2>2, <2>3 DEF HistoryInv, Recovered
<1>12. Standing'
  <2> SUFFICES ASSUME s'.terminal.outcome = "PROVEN"
               PROVE  s'.status = "SETTLED" /\ s'.mutation # "ROLLED_BACK" /\ s'.verify # "FAILED"
    BY DEF Standing
  <2>1. s.status # "SETTLED" BY <1>1 DEF Accepts, Unsettled
  <2>2. e.kind \in {"execution.failed", "execution.finished"} /\ s'.terminal = Verdict(x, s, e)
    BY <1>3, <2>1 DEF AxesMove, HistoryInv, Standing
  <2>3. e.kind # "execution.failed"
    <3>1. OutcomeForClass(e.class) # "PROVEN" BY DEF OutcomeForClass
    <3> QED BY <2>2, <3>1 DEF Verdict
  <2>4. Adjudicate(x.spec, s) = "PROVEN" BY <2>2, <2>3 DEF Verdict
  <2>5. ~Refuted(s) BY <2>4 DEF Adjudicate
  <2> QED BY <1>3, <2>2, <2>5 DEF Refuted, AxesMove
<1> QED BY <1>7, <1>8, <1>9, <1>10, <1>11, <1>12 DEF HistoryInv, Checked

LEMMA HistoryStep == TypeOK /\ HistoryInv /\ [Next]_vars => HistoryInv'
<1>1. HistoryInv /\ UNCHANGED vars => HistoryInv'
  BY DEF vars, HistoryInv, Valid, Checked, VerdictsFollowTheirCheck, Crossed, Recovered,
         Rechecks, Standing, Logged
<1> QED BY <1>1, HistoryOffer DEF Next

\* A valid record of a mutation names a step of the program that may mutate,
\* which the program of an admitted contract has only if the contract may.
LEMMA MutationsAreDeclared ==
  ASSUME TypeOK, Valid
  PROVE  MutationsComeFromMutatingSteps
<1> SUFFICES ASSUME NEW rec \in s.evidence, MutatingKind(rec.kind)
             PROVE  /\ \E step \in StepsOf(x.spec) : step.id = rec.step /\ MutatingCap(step.cap)
                    /\ ~ForbidsMutation(x.spec.kind)
  BY DEF MutationsComeFromMutatingSteps
<1>1. ValidRecord(x.spec, rec) BY DEF Valid
<1>2. PICK i \in DOMAIN x.spec.program : x.spec.program[i].id = rec.step
        /\ StepAt(x.spec, rec.step) = x.spec.program[i]
  BY <1>1 DEF ValidRecord, Declared, StepAt
<1>3. x.spec.program[i] \in StepsOf(x.spec) BY DEF StepsOf
<1>4. MutatingCap(x.spec.program[i].cap) BY <1>1, <1>2 DEF ValidRecord
<1>5. ValidSpec(x.spec, Capabilities)
  <2>1. AdmissionRefusal(x, Capabilities) = None BY FoldAssumption DEF TypeOK
  <2>2. "INVALID_SPEC" # None BY DEF None
  <2> QED BY <2>1, <2>2 DEF AdmissionRefusal
<1>6. ~ForbidsMutation(x.spec.kind) BY <1>3, <1>4, <1>5 DEF ValidSpec
<1> QED BY <1>2, <1>3, <1>4, <1>6

\* Whatever a producer offers, the mutations of an accepted history are of
\* mutating steps, its verdicts follow their checks, and a PROVEN outcome
\* stands against every refutation logged: AcceptedHistoriesAreSound.
THEOREM HistoriesAreSound == Spec => []AcceptedHistoriesAreSound
<1>1. Init => HistoryInv BY HistoryInit
<1>2. TypeOK /\ HistoryInv /\ [Next]_vars => HistoryInv' BY HistoryStep
<1>3. TypeOK /\ HistoryInv => AcceptedHistoriesAreSound
  BY MutationsAreDeclared
     DEF HistoryInv, Checked, Standing, Crossed, Recovered, Rechecks, RefutationsStand,
         AcceptedHistoriesAreSound
<1> QED BY <1>1, <1>2, <1>3, ReadBack, PTL DEF Spec, vars
=============================================================================
