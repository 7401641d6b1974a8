---------------------------- MODULE DurableProofs ----------------------------
(***************************************************************************)
(* Theorems about DurableLedger and IdempotentRunner, for every value of   *)
(* their constants.  The ledger: the types, what a torn write costs, that  *)
(* a current store holds what a restart would rebuild, and that it numbers *)
(* what it writes cleanly.  First what Replay and Audit make of one more   *)
(* line, then what one write makes of the file, then one lemma per         *)
(* operation of the stores.                                                *)
(*                                                                         *)
(* The runner: no commit marker without the effect it stands for, no       *)
(* effect while an interrupted operation of another task is unreconciled,  *)
(* and, with one process, no effect that the tree did not allow.  First    *)
(* what the steps of a call have in common, then each invariant, action by *)
(* action.                                                                 *)
(***************************************************************************)
EXTENDS IdempotentRunner, DurableTaskProofs, SequenceTheorems

-----------------------------------------------------------------------------
(* Types of what the folds compute.                                        *)

Views  == [Tasks -> TaskStates]
Audits == [seq: Nat, gaps: SUBSET Nat, repeats: SUBSET Nat]

\* The events of the ledger are entries of a task's journal.
LEMMA EventsAreEntries == EventSet \subseteq Entries
BY DEF EventSet, Entries, EventTypes

\* The event of a reclaimed lock is an event.
LEMMA ReclaimTyped == ReclaimEvent \in EventSet
<1>1. AnyTask \in Tasks BY LedgerAssumption DEF AnyTask
<1> QED BY <1>1 DEF ReclaimEvent, LockReclaimed, Event, EventSet

\* Folding an event keeps the types of a view.
LEMMA AppliedTyped ==
  ASSUME NEW v \in Views, NEW e \in EventSet
  PROVE  Applied(v, e) \in Views
<1>1. e.task \in Tasks /\ e \in Entries BY EventsAreEntries DEF EventSet
<1>2. v[e.task] \in TaskStates BY <1>1 DEF Views
<1>3. Folded(v[e.task], e) \in TaskStates BY <1>1, <1>2, FoldedTask
<1> QED BY <1>1, <1>3 DEF Views, Applied

LEMMA ReadTyped ==
  ASSUME NEW v \in Views, NEW l \in Lines
  PROVE  ReadLine(v, l) \in Views
<1>1. l.event \in EventSet BY DEF Lines
<1> QED BY <1>1, AppliedTyped DEF ReadLine

LEMMA AuditedTyped ==
  ASSUME NEW a \in Audits, NEW l \in Lines
  PROVE  Audited(a, l) \in Audits
<1>1. l.seq \in Nat /\ a.seq \in Nat BY DEF Lines, Audits
<1>2. (a.seq + 1) .. (l.seq - 1) \in SUBSET Nat BY <1>1
<1> QED BY <1>1, <1>2 DEF Audited, Numbered, Audits

-----------------------------------------------------------------------------
(* Replay and Audit, line by line.                                         *)

Unread    == [t \in Tasks |-> Absent]
Unaudited == [seq |-> 0, gaps |-> {}, repeats |-> {}]

LEMMA UnreadTyped == Unread \in Views /\ Unaudited \in Audits
<1>1. Absent \in TaskStates BY DEF Absent, NoCursor, TaskStates, Cursors
<1> QED BY <1>1 DEF Unread, Views, Unaudited, Audits

ReadStep  == [se \in Views \X Lines |-> ReadLine(se[1], se[2])]
AuditStep == [se \in Audits \X Lines |-> Audited(se[1], se[2])]

\* The scan of the file is a run of ReadLine.
LEMMA ReplayRuns ==
  ASSUME NEW q \in Seq(Lines)
  PROVE  ReadStep \in [Views \X Lines -> Views] /\ RunsTo(Replay(q), Unread, ReadStep, q)
<1> DEFINE D == SUBSET (DOMAIN q)
           Solves(f) ==
             f = [s \in D |-> IF s = {} THEN Unread ELSE ReadLine(f[s \ {Max(s)}], q[Max(s)])]
           n == Len(q)
<1>1. Replay(q) = (CHOOSE f : Solves(f))[DOMAIN q]
  BY Zenon DEF Replay, Unread, FoldLeft, MapThenFoldSet
<1>2. ReadStep \in [Views \X Lines -> Views] /\ DOMAIN q = 1 .. n /\ n \in Nat
  BY ReadTyped DEF ReadStep
<1>3. PICK g \in [SUBSET (1 .. n) -> Views] : FoldsOn(g, Unread, ReadStep, q, n)
  BY <1>2, UnreadTyped, FoldExists
<1>4. ASSUME NEW s \in SUBSET (1 .. n), s # {}, NEW x \in Views
      PROVE  ReadLine(x, q[Max(s)]) = ReadStep[<<x, q[Max(s)]>>]
  <2>1. Max(s) \in 1 .. n BY <1>2, <1>4, GreatestIndex
  <2>2. <<x, q[Max(s)]>> \in Views \X Lines BY <2>1
  <2> QED BY <2>2 DEF ReadStep
<1>5. Solves(g)
  <2>1. ASSUME NEW s \in D
        PROVE  g[s] = IF s = {} THEN Unread ELSE ReadLine(g[s \ {Max(s)}], q[Max(s)])
    <3>1. CASE s = {} BY <1>2, <1>3, <3>1 DEF FoldsOn
    <3>2. CASE s # {}
      <4>1. g[s] = ReadStep[<<g[s \ {Max(s)}], q[Max(s)]>>] BY <1>2, <1>3, <3>2 DEF FoldsOn
      <4>2. s \ {Max(s)} \in SUBSET (1 .. n) /\ s \in SUBSET (1 .. n) BY <1>2
      <4>3. g[s \ {Max(s)}] \in Views BY <1>3, <4>2
      <4> QED BY <1>4, <3>2, <4>1, <4>2, <4>3
    <3> QED BY <3>1, <3>2
  <2> QED BY <1>2, <1>3, <2>1
<1> DEFINE f == CHOOSE f : Solves(f)
<1>6. Solves(f) BY <1>5
<1>7. Replay(q) = f[1 .. n] BY <1>1, <1>2
<1> HIDE DEF f
<1>8. f[{}] = Unread
  <2>1. {} \in D OBVIOUS
  <2> QED BY <1>6, <2>1
<1>9. \A s \in SUBSET (1 .. n) :
        s # {} /\ f[s \ {Max(s)}] \in Views => f[s] = ReadStep[<<f[s \ {Max(s)}], q[Max(s)]>>]
  <2> SUFFICES ASSUME NEW s \in SUBSET (1 .. n), s # {}, f[s \ {Max(s)}] \in Views
               PROVE  f[s] = ReadStep[<<f[s \ {Max(s)}], q[Max(s)]>>]
    OBVIOUS
  <2>1. s \in D BY <1>2
  <2>2. f[s] = ReadLine(f[s \ {Max(s)}], q[Max(s)]) BY <1>6, <2>1
  <2> QED BY <1>4, <2>2
<1>10. RunsTo(f[1 .. n], Unread, ReadStep, q) BY <1>2, <1>8, <1>9, UnreadTyped, SolutionRuns
<1> QED BY <1>2, <1>7, <1>10

\* The audit of the file is a run of Audited.
LEMMA AuditRuns ==
  ASSUME NEW q \in Seq(Lines)
  PROVE  AuditStep \in [Audits \X Lines -> Audits] /\ RunsTo(Audit(q), Unaudited, AuditStep, q)
<1> DEFINE D == SUBSET (DOMAIN q)
           Solves(f) ==
             f = [s \in D |-> IF s = {} THEN Unaudited ELSE Audited(f[s \ {Max(s)}], q[Max(s)])]
           n == Len(q)
<1>1. Audit(q) = (CHOOSE f : Solves(f))[DOMAIN q]
  BY Zenon DEF Audit, Unaudited, FoldLeft, MapThenFoldSet
<1>2. AuditStep \in [Audits \X Lines -> Audits] /\ DOMAIN q = 1 .. n /\ n \in Nat
  BY AuditedTyped DEF AuditStep
<1>3. PICK g \in [SUBSET (1 .. n) -> Audits] : FoldsOn(g, Unaudited, AuditStep, q, n)
  BY <1>2, UnreadTyped, FoldExists
<1>4. ASSUME NEW s \in SUBSET (1 .. n), s # {}, NEW x \in Audits
      PROVE  Audited(x, q[Max(s)]) = AuditStep[<<x, q[Max(s)]>>]
  <2>1. Max(s) \in 1 .. n BY <1>2, <1>4, GreatestIndex
  <2>2. <<x, q[Max(s)]>> \in Audits \X Lines BY <2>1
  <2> QED BY <2>2 DEF AuditStep
<1>5. Solves(g)
  <2>1. ASSUME NEW s \in D
        PROVE  g[s] = IF s = {} THEN Unaudited ELSE Audited(g[s \ {Max(s)}], q[Max(s)])
    <3>1. CASE s = {} BY <1>2, <1>3, <3>1 DEF FoldsOn
    <3>2. CASE s # {}
      <4>1. g[s] = AuditStep[<<g[s \ {Max(s)}], q[Max(s)]>>] BY <1>2, <1>3, <3>2 DEF FoldsOn
      <4>2. s \ {Max(s)} \in SUBSET (1 .. n) /\ s \in SUBSET (1 .. n) BY <1>2
      <4>3. g[s \ {Max(s)}] \in Audits BY <1>3, <4>2
      <4> QED BY <1>4, <3>2, <4>1, <4>2, <4>3
    <3> QED BY <3>1, <3>2
  <2> QED BY <1>2, <1>3, <2>1
<1> DEFINE f == CHOOSE f : Solves(f)
<1>6. Solves(f) BY <1>5
<1>7. Audit(q) = f[1 .. n] BY <1>1, <1>2
<1> HIDE DEF f
<1>8. f[{}] = Unaudited
  <2>1. {} \in D OBVIOUS
  <2> QED BY <1>6, <2>1
<1>9. \A s \in SUBSET (1 .. n) :
        s # {} /\ f[s \ {Max(s)}] \in Audits => f[s] = AuditStep[<<f[s \ {Max(s)}], q[Max(s)]>>]
  <2> SUFFICES ASSUME NEW s \in SUBSET (1 .. n), s # {}, f[s \ {Max(s)}] \in Audits
               PROVE  f[s] = AuditStep[<<f[s \ {Max(s)}], q[Max(s)]>>]
    OBVIOUS
  <2>1. s \in D BY <1>2
  <2>2. f[s] = Audited(f[s \ {Max(s)}], q[Max(s)]) BY <1>6, <2>1
  <2> QED BY <1>4, <2>2
<1>10. RunsTo(f[1 .. n], Unaudited, AuditStep, q) BY <1>2, <1>8, <1>9, UnreadTyped, SolutionRuns
<1> QED BY <1>2, <1>7, <1>10

\* A replay and an audit have their types, and one more line is one more step.
LEMMA ReplayTyped ==
  ASSUME NEW q \in Seq(Lines)
  PROVE  Replay(q) \in Views /\ Audit(q) \in Audits
<1>1. ReadStep \in [Views \X Lines -> Views] /\ RunsTo(Replay(q), Unread, ReadStep, q)
  BY ReplayRuns
<1>2. AuditStep \in [Audits \X Lines -> Audits] /\ RunsTo(Audit(q), Unaudited, AuditStep, q)
  BY AuditRuns
<1>3. Replay(q) \in Views BY <1>1, UnreadTyped, RunIsTyped
<1>4. Audit(q) \in Audits BY <1>2, UnreadTyped, RunIsTyped
<1> QED BY <1>3, <1>4

LEMMA ReplayOneMore ==
  ASSUME NEW p \in Seq(Lines), NEW l \in Lines, NEW q, q = Append(p, l)
  PROVE  /\ Replay(q) = ReadLine(Replay(p), l)
         /\ Audit(q) = Audited(Audit(p), l)
<1>1. q \in Seq(Lines) OBVIOUS
<1>2. Replay(q) = ReadLine(Replay(p), l)
  <2> DEFINE v == Replay(p)
             w == Replay(q)
  <2>1. ReadStep \in [Views \X Lines -> Views] /\ RunsTo(v, Unread, ReadStep, p)
    BY ReplayRuns
  <2>2. RunsTo(w, Unread, ReadStep, q) BY <1>1, ReplayRuns
  <2> HIDE DEF v, w
  <2>3. OneStep(v, l, w, Views, Lines, ReadStep) BY <2>1, <2>2, UnreadTyped, RunOfMore
  <2>4. <<v, l>> \in Views \X Lines /\ w = ReadStep[<<v, l>>] BY <2>3 DEF OneStep
  <2>5. ReadStep[<<v, l>>] = ReadLine(v, l) BY <2>4 DEF ReadStep
  <2> QED BY <2>4, <2>5 DEF v, w
<1>3. Audit(q) = Audited(Audit(p), l)
  <2> DEFINE v == Audit(p)
             w == Audit(q)
  <2>1. AuditStep \in [Audits \X Lines -> Audits] /\ RunsTo(v, Unaudited, AuditStep, p)
    BY AuditRuns
  <2>2. RunsTo(w, Unaudited, AuditStep, q) BY <1>1, AuditRuns
  <2> HIDE DEF v, w
  <2>3. OneStep(v, l, w, Audits, Lines, AuditStep) BY <2>1, <2>2, UnreadTyped, RunOfMore
  <2>4. <<v, l>> \in Audits \X Lines /\ w = AuditStep[<<v, l>>] BY <2>3 DEF OneStep
  <2>5. AuditStep[<<v, l>>] = Audited(v, l) BY <2>4 DEF AuditStep
  <2> QED BY <2>4, <2>5 DEF v, w
<1> QED BY <1>2, <1>3

-----------------------------------------------------------------------------
(* One write.                                                              *)

Files  == [lines: Seq(Lines), torn: BOOLEAN, acks: Nat, tears: Nat]

KeptIn(lines) == {i \in DOMAIN lines : lines[i].sound /\ lines[i].acked}

\* The line a torn file ends in was told to nobody.
Unheard(f) == f.torn => f.lines # <<>> /\ ~f.lines[Len(f.lines)].acked

TearsPaid(f) == f.acks + (IF f.torn THEN 1 ELSE 0) <= Cardinality(KeptIn(f.lines)) + f.tears

FileOK(f) == f \in Files /\ Unheard(f) /\ TearsPaid(f)

Text(n, e, outcome, told) ==
  IF outcome = "cut" THEN Junk ELSE Line(n, e, told /\ outcome = "synced")

LEMMA TextTyped ==
  ASSUME NEW n \in Nat, NEW e \in EventSet, NEW outcome \in Outcomes, NEW told \in BOOLEAN
  PROVE  /\ Junk \in Lines /\ ~Junk.acked /\ ~Junk.sound
         /\ Text(n, e, outcome, told) \in Lines
         /\ Text(n, e, outcome, told).acked = (told /\ outcome = "synced")
         /\ Text(n, e, outcome, told).acked => Text(n, e, outcome, told).sound
BY ReclaimTyped DEF Junk, Line, Lines, Text, ReclaimEvent

\* The records kept, when a line is added and when the last one is lost.
LEMMA KeptFinite ==
  ASSUME NEW q \in Seq(Lines)
  PROVE  IsFiniteSet(KeptIn(q)) /\ Cardinality(KeptIn(q)) \in Nat
<1>1. 1 \in Int /\ Len(q) \in Int /\ DOMAIN q = 1 .. Len(q) OBVIOUS
<1>2. IsFiniteSet(1 .. Len(q)) BY <1>1, FS_Interval
<1>3. KeptIn(q) \subseteq 1 .. Len(q) BY <1>1 DEF KeptIn
<1>4. IsFiniteSet(KeptIn(q)) BY <1>2, <1>3, FS_Subset
<1> QED BY <1>4, FS_CardinalityType

LEMMA KeptMore ==
  ASSUME NEW p \in Seq(Lines), NEW l \in Lines, NEW q, q = Append(p, l)
  PROVE  Cardinality(KeptIn(q)) = Cardinality(KeptIn(p)) + (IF l.sound /\ l.acked THEN 1 ELSE 0)
<1> DEFINE n == Len(p) + 1
<1>1. /\ DOMAIN p = 1 .. Len(p) /\ DOMAIN q = 1 .. n /\ n \in Nat /\ q[n] = l
      /\ \A i \in 1 .. Len(p) : q[i] = p[i]
  OBVIOUS
<1>2. \A i : i \in 1 .. n <=> (i \in 1 .. Len(p) \/ i = n) BY <1>1
<1>3. n \notin 1 .. Len(p) BY <1>1
<1> HIDE DEF n
<1>4. KeptIn(q) = IF l.sound /\ l.acked THEN KeptIn(p) \union {n} ELSE KeptIn(p)
  BY <1>1, <1>2, <1>3 DEF KeptIn
<1>5. n \notin KeptIn(p) BY <1>1, <1>3 DEF KeptIn
<1>6. IsFiniteSet(KeptIn(p)) /\ Cardinality(KeptIn(p)) \in Nat BY KeptFinite
<1>7. Cardinality(KeptIn(p) \union {n}) = Cardinality(KeptIn(p)) + 1
  BY <1>5, <1>6, FS_AddElement
<1> QED BY <1>4, <1>6, <1>7

LEMMA KeptLost ==
  ASSUME NEW p \in Seq(Lines), p # <<>>, ~p[Len(p)].acked,
         NEW q, q = [p EXCEPT ![Len(p)] = Junk]
  PROVE  KeptIn(q) = KeptIn(p)
BY DEF KeptIn, Junk

\* One write leaves a file of its type: on a whole one a line more, on a torn
\* one Junk for the line that was open.
LEMMA WroteTo ==
  ASSUME NEW f \in Files, Unheard(f), NEW n \in Nat, NEW e \in EventSet,
         NEW outcome \in Outcomes, NEW told \in BOOLEAN,
         NEW w, w = Wrote(f, n, e, outcome, told)
  PROVE  /\ w \in Files
         /\ outcome = "none" => w = f
         /\ outcome # "none" =>
              /\ w.torn = StaysOpen(outcome)
              /\ w.acks = f.acks + (IF told /\ outcome = "synced" THEN 1 ELSE 0)
              /\ w.tears = f.tears + (IF StaysOpen(outcome) THEN 1 ELSE 0)
              /\ f.torn => w.lines = [f.lines EXCEPT ![Len(f.lines)] = Junk]
              /\ ~f.torn => w.lines = Append(f.lines, Text(n, e, outcome, told))
<1> DEFINE lines == IF f.torn THEN [f.lines EXCEPT ![Len(f.lines)] = Junk]
                    ELSE Append(f.lines, Text(n, e, outcome, told))
           acks  == f.acks + (IF told /\ outcome = "synced" THEN 1 ELSE 0)
           tears == f.tears + (IF StaysOpen(outcome) THEN 1 ELSE 0)
           new   == [lines |-> lines, torn |-> StaysOpen(outcome), acks |-> acks, tears |-> tears]
<1>1. w = IF outcome = "none" THEN f ELSE new BY DEF Wrote, Text
<1>2. lines \in Seq(Lines)
  <2>1. Junk \in Lines /\ Text(n, e, outcome, told) \in Lines BY TextTyped
  <2>2. f.lines \in Seq(Lines) BY DEF Files
  <2> HIDE DEF Text
  <2>3. Append(f.lines, Text(n, e, outcome, told)) \in Seq(Lines) BY <2>1, <2>2
  <2>4. ASSUME f.torn PROVE [f.lines EXCEPT ![Len(f.lines)] = Junk] \in Seq(Lines)
    <3>1. f.lines # <<>> BY <2>4 DEF Unheard
    <3>2. Len(f.lines) \in 1 .. Len(f.lines) BY <2>2, <3>1
    <3> QED BY <2>1, <2>2, <3>2, ExceptSeq
  <2> QED BY <2>3, <2>4
<1>3. acks \in Nat /\ tears \in Nat /\ StaysOpen(outcome) \in BOOLEAN BY DEF Files, StaysOpen
<1>4. new.lines = lines /\ new.torn = StaysOpen(outcome) /\ new.acks = acks /\ new.tears = tears
  OBVIOUS
<1> HIDE DEF lines, acks, tears
<1>5. new \in Files BY <1>2, <1>3 DEF Files
<1> HIDE DEF new
<1>6. w \in Files BY <1>1, <1>5
<1> QED BY <1>1, <1>4, <1>6 DEF lines, acks, tears

\* What a write costs: a line left open one record, which it has not cost yet.
LEMMA WrotePays ==
  ASSUME NEW f, FileOK(f), NEW n \in Nat, NEW e \in EventSet,
         NEW outcome \in Outcomes, NEW told \in BOOLEAN,
         NEW w, w = Wrote(f, n, e, outcome, told)
  PROVE  FileOK(w)
<1> DEFINE text == Text(n, e, outcome, told)
<1>1. f \in Files /\ Unheard(f) /\ TearsPaid(f) BY DEF FileOK
<1>2. CASE outcome = "none"
  <2>1. w = f BY <1>2 DEF Wrote
  <2> QED BY <2>1
<1>3. CASE outcome # "none"
  <2>1. /\ w \in Files
        /\ w.torn = StaysOpen(outcome)
        /\ w.acks = f.acks + (IF told /\ outcome = "synced" THEN 1 ELSE 0)
        /\ w.tears = f.tears + (IF StaysOpen(outcome) THEN 1 ELSE 0)
        /\ f.torn => w.lines = [f.lines EXCEPT ![Len(f.lines)] = Junk]
        /\ ~f.torn => w.lines = Append(f.lines, text)
    BY <1>1, <1>3, WroteTo
  <2>2. /\ Junk \in Lines /\ ~Junk.acked /\ ~Junk.sound /\ text \in Lines
        /\ text.acked = (told /\ outcome = "synced") /\ (text.acked => text.sound)
    BY TextTyped
  <2> HIDE DEF text
  <2>3. f.lines \in Seq(Lines) /\ f.acks \in Nat /\ f.tears \in Nat BY <1>1 DEF Files
  <2>4. Cardinality(KeptIn(f.lines)) \in Nat BY <2>3, KeptFinite
  <2>5. CASE f.torn
    <3>1. f.lines # <<>> /\ ~f.lines[Len(f.lines)].acked BY <1>1, <2>5 DEF Unheard
    <3>2. w.lines = [f.lines EXCEPT ![Len(f.lines)] = Junk] BY <2>1, <2>5
    <3>3. KeptIn(w.lines) = KeptIn(f.lines) BY <2>3, <3>1, <3>2, KeptLost
    <3>4. w.lines # <<>> /\ Len(w.lines) = Len(f.lines) /\ w.lines[Len(f.lines)] = Junk
      BY <2>2, <2>3, <3>1, <3>2
    <3>5. Unheard(w) BY <2>2, <3>4 DEF Unheard
    <3>6. f.acks + 1 <= Cardinality(KeptIn(f.lines)) + f.tears BY <1>1, <2>5 DEF TearsPaid
    <3>7. outcome = "synced" => ~StaysOpen(outcome) BY DEF StaysOpen
    <3>8. TearsPaid(w) BY <2>1, <2>3, <2>4, <3>3, <3>6, <3>7 DEF TearsPaid
    <3> QED BY <2>1, <3>5, <3>8 DEF FileOK
  <2>6. CASE ~f.torn
    <3>1. w.lines = Append(f.lines, text) BY <2>1, <2>6
    <3>2. Cardinality(KeptIn(w.lines))
            = Cardinality(KeptIn(f.lines)) + (IF text.sound /\ text.acked THEN 1 ELSE 0)
      BY <2>2, <2>3, <3>1, KeptMore
    <3>3. w.lines # <<>> /\ w.lines[Len(w.lines)] = text BY <2>2, <2>3, <3>1
    <3>4. outcome = "synced" => ~StaysOpen(outcome) BY DEF StaysOpen
    <3>5. Unheard(w) BY <2>1, <2>2, <3>3, <3>4 DEF Unheard
    <3>6. f.acks <= Cardinality(KeptIn(f.lines)) + f.tears BY <1>1, <2>6, <2>3 DEF TearsPaid
    <3>7. w.acks = f.acks + (IF text.sound /\ text.acked THEN 1 ELSE 0)
      BY <2>1, <2>2
    <3>8. TearsPaid(w) BY <2>1, <2>3, <2>4, <3>2, <3>4, <3>6, <3>7 DEF TearsPaid
    <3> QED BY <2>1, <3>5, <3>8 DEF FileOK
  <2> QED BY <2>5, <2>6, <1>1 DEF Files
<1> QED BY <1>2, <1>3
-----------------------------------------------------------------------------
(* The file and the stores keep their types.                               *)

StoreStates == [up: BOOLEAN, seq: Nat, tasks: Views, exact: BOOLEAN]

LedgerKept ==
  /\ FileOK(ledger)
  /\ store \in [Stores -> StoreStates]
  /\ staleLock \in BOOLEAN
  /\ faults \in 0 .. MaxFaults

\* What LedgerKept says of the file and the views is what is wanted of them.
LEMMA LedgerKeptTypes == LedgerKept => LedgerTypeOK /\ EachTearCostsOneRecord
<1> SUFFICES ASSUME LedgerKept PROVE LedgerTypeOK /\ EachTearCostsOneRecord OBVIOUS
<1>1. ledger \in Files /\ Unheard(ledger) /\ TearsPaid(ledger) BY DEF LedgerKept, FileOK
<1>2. LedgerTypeOK BY <1>1 DEF LedgerTypeOK, LedgerKept, Files, Unheard, StoreStates, Views
<1>3. Kept = KeptIn(ledger.lines) BY DEF Kept, KeptIn
<1>4. EachTearCostsOneRecord BY <1>1, <1>3 DEF EachTearCostsOneRecord, TearsPaid
<1> QED BY <1>2, <1>4

LEMMA DownTyped == Down \in StoreStates
BY UnreadTyped DEF Down, StoreStates, Unread

LEMMA ReplayedTyped ==
  ASSUME NEW q \in Seq(Lines)
  PROVE  Replayed(q) \in StoreStates /\ Audit(q).seq \in Nat
<1>1. Replay(q) \in Views /\ Audit(q) \in Audits BY ReplayTyped
<1>2. Audit(q).seq \in Nat BY <1>1 DEF Audits
<1> QED BY <1>1, <1>2 DEF Replayed, StoreStates

LEMMA LedgerInitKept == LedgerInit => LedgerKept
<1> SUFFICES ASSUME LedgerInit PROVE LedgerKept OBVIOUS
<1>1. ledger = [lines |-> <<>>, torn |-> FALSE, acks |-> 0, tears |-> 0] BY DEF LedgerInit
<1>2. ledger \in Files BY <1>1 DEF Files
<1>3. Cardinality(KeptIn(ledger.lines)) \in Nat BY <1>2, KeptFinite DEF Files
<1>4. FileOK(ledger) BY <1>1, <1>2, <1>3 DEF FileOK, Unheard, TearsPaid
<1>5. store \in [Stores -> StoreStates] BY DownTyped DEF LedgerInit
<1>6. faults \in 0 .. MaxFaults BY LedgerAssumption DEF LedgerInit
<1>7. staleLock \in BOOLEAN BY DEF LedgerInit
<1> QED BY <1>4, <1>5, <1>6, <1>7 DEF LedgerKept

LEMMA SpendTyped ==
  ASSUME LedgerKept, NEW outcome, Spend(outcome)
  PROVE  faults' \in 0 .. MaxFaults
BY LedgerAssumption DEF LedgerKept, Spend

LEMMA SpendBothTyped ==
  ASSUME LedgerKept, NEW note, NEW outcome, SpendBoth(note, outcome)
  PROVE  faults' \in 0 .. MaxFaults
BY LedgerAssumption DEF LedgerKept, SpendBoth

LEMMA OpenKept ==
  ASSUME LedgerKept, NEW s \in Stores, NEW note \in Outcomes, Open(s, note)
  PROVE  LedgerKept'
<1> DEFINE n == Audit(ledger.lines).seq + 1
<1>1. ledger.lines \in Seq(Lines) BY DEF LedgerKept, FileOK, Files
<1>2. Replayed(ledger.lines) \in StoreStates /\ n \in Nat BY <1>1, ReplayedTyped
<1>3. ledger' = Wrote(ledger, n, ReclaimEvent, note, FALSE) BY DEF Open
<1>4. FileOK(ledger')
  <2>1. FileOK(ledger) /\ FALSE \in BOOLEAN BY DEF LedgerKept
  <2> HIDE DEF n
  <2> QED BY <1>2, <1>3, <2>1, ReclaimTyped, WrotePays
<1>5. store' \in [Stores -> StoreStates]
  <2> DEFINE a == Replayed(ledger.lines)
             new == [a EXCEPT !.seq = IF note = "synced" THEN @ + 1 ELSE @,
                              !.exact = note = "none" \/ (note = "synced" /\ ~ledger.torn)]
  <2>1. a.seq \in Nat /\ ledger.torn \in BOOLEAN
    BY <1>2 DEF StoreStates, LedgerKept, FileOK, Files
  <2>2. new \in StoreStates
    <3> DEFINE x == IF note = "synced" THEN a.seq + 1 ELSE a.seq
               y == note = "none" \/ (note = "synced" /\ ~ledger.torn)
    <3>1. x \in Nat /\ y \in BOOLEAN BY <2>1
    <3>2. a \in StoreStates BY <1>2
    <3>3. new = [a EXCEPT !.seq = x, !.exact = y] OBVIOUS
    <3> HIDE DEF a, x, y, new
    <3> QED BY <3>1, <3>2, <3>3 DEF StoreStates
  <2>3. \A r \in Stores : [store[r] EXCEPT !.exact = @ /\ note = "none"] \in StoreStates
    BY DEF LedgerKept, StoreStates
  <2>4. store' = [r \in Stores |-> IF r = s THEN new
                                   ELSE [store[r] EXCEPT !.exact = @ /\ note = "none"]]
    BY DEF Open
  <2> HIDE DEF new
  <2> QED BY <2>2, <2>3, <2>4
<1>6. staleLock' \in BOOLEAN BY DEF Open
<1>7. faults' \in 0 .. MaxFaults
  <2>1. CASE note = "none" /\ UNCHANGED faults BY <2>1 DEF LedgerKept
  <2>2. CASE Spend(note) BY <2>2, SpendTyped
  <2> QED BY <2>1, <2>2 DEF Open
<1> QED BY <1>4, <1>5, <1>6, <1>7 DEF LedgerKept

\* The two writes of an append: the note of a reclaimed lock and the event.
LEMMA RecordWrites ==
  ASSUME LedgerKept, NEW s \in Stores, NEW e \in EventSet,
         NEW note \in Outcomes, NEW outcome \in Outcomes, Record(s, e, note, outcome),
         NEW n, n = store[s].seq + 1,
         NEW after, after = Wrote(ledger, n, ReclaimEvent, note, FALSE),
         NEW m, m = IF note = "synced" THEN n + 1 ELSE n
  PROVE  /\ n \in Nat /\ m \in Nat /\ m >= 1
         /\ FileOK(after)
         /\ ledger' = Wrote(after, m, e, outcome, TRUE)
         /\ FileOK(ledger')
<1>1. store[s].seq \in Nat BY DEF LedgerKept, StoreStates
<1>2. n \in Nat /\ m \in Nat /\ m >= 1 BY <1>1
<1>3. FileOK(after)
  <2>1. FileOK(ledger) /\ FALSE \in BOOLEAN BY DEF LedgerKept
  <2> QED BY <1>2, <2>1, ReclaimTyped, WrotePays
<1>4. ledger' = Wrote(after, m, e, outcome, TRUE) BY DEF Record
<1>5. TRUE \in BOOLEAN OBVIOUS
<1>6. FileOK(ledger') BY <1>2, <1>3, <1>4, <1>5, WrotePays
<1> QED BY <1>2, <1>3, <1>4, <1>6

LEMMA RecordKept ==
  ASSUME LedgerKept, NEW s \in Stores, NEW e \in EventSet,
         NEW note \in Outcomes, NEW outcome \in Outcomes, Record(s, e, note, outcome)
  PROVE  LedgerKept'
<1> DEFINE n == store[s].seq + 1
           after == Wrote(ledger, n, ReclaimEvent, note, FALSE)
           m == IF note = "synced" THEN n + 1 ELSE n
           clean == /\ note = "none" \/ (note = "synced" /\ ~ledger.torn)
                    /\ outcome = "none" \/ (outcome = "synced" /\ ~after.torn)
           new == [up    |-> TRUE,
                   seq   |-> Counter(m, outcome),
                   tasks |-> View(store[s].tasks, e, outcome),
                   exact |-> store[s].exact /\ clean]
<1>1. n \in Nat /\ m \in Nat /\ m >= 1 /\ FileOK(after) /\ FileOK(ledger') BY RecordWrites
<1>2. store' \in [Stores -> StoreStates]
  <2>1. store[s].tasks \in Views /\ store[s].exact \in BOOLEAN BY DEF LedgerKept, StoreStates
  <2>2. View(store[s].tasks, e, outcome) \in Views BY <2>1, AppliedTyped DEF View
  <2>3. Counter(m, outcome) \in Nat
    <3> HIDE DEF m
    <3> QED BY <1>1 DEF Counter
  <2>4. store' = [r \in Stores |-> IF r = s THEN new
                                   ELSE [store[r] EXCEPT !.exact = @ /\ ledger' = ledger]]
    BY DEF Record
  <2>5. clean \in BOOLEAN BY <1>1 DEF FileOK, Files, LedgerKept
  <2> HIDE DEF clean, m
  <2>6. new \in StoreStates BY <2>1, <2>2, <2>3, <2>5 DEF StoreStates
  <2>7. \A r \in Stores : [store[r] EXCEPT !.exact = @ /\ ledger' = ledger] \in StoreStates
    BY DEF LedgerKept, StoreStates
  <2> HIDE DEF new
  <2> QED BY <2>4, <2>6, <2>7
<1>3. staleLock' \in BOOLEAN BY DEF Record
<1>4. faults' \in 0 .. MaxFaults BY SpendBothTyped DEF Record
<1> QED BY <1>1, <1>2, <1>3, <1>4 DEF LedgerKept

LEMMA CrashKept ==
  ASSUME LedgerKept, NEW s \in Stores, Crash(s)
  PROVE  LedgerKept'
<1>1. faults' \in 0 .. MaxFaults BY SpendTyped DEF Crash
<1>2. store' \in [Stores -> StoreStates] BY DownTyped DEF Crash, LedgerKept
<1> QED BY <1>1, <1>2 DEF Crash, LedgerKept

LEMMA DieRecordingKept ==
  ASSUME LedgerKept, NEW s \in Stores, NEW e \in EventSet, NEW outcome \in Outcomes,
         DieRecording(s, e, outcome)
  PROVE  LedgerKept'
<1> DEFINE n == store[s].seq + 1
<1>1. faults' \in 0 .. MaxFaults BY SpendTyped DEF DieRecording
<1>2. n \in Nat BY DEF LedgerKept, StoreStates
<1>3. ledger' = Wrote(ledger, n, e, outcome, FALSE) BY DEF DieRecording
<1>4. FileOK(ledger')
  <2>1. FileOK(ledger) /\ FALSE \in BOOLEAN BY DEF LedgerKept
  <2> HIDE DEF n
  <2> QED BY <1>2, <1>3, <2>1, WrotePays
<1>5. store' \in [Stores -> StoreStates]
  <2>1. \A r \in Stores : [store[r] EXCEPT !.exact = @ /\ outcome = "none"] \in StoreStates
    BY DEF LedgerKept, StoreStates
  <2>2. store' = [r \in Stores |-> IF r = s THEN Down
                                   ELSE [store[r] EXCEPT !.exact = @ /\ outcome = "none"]]
    BY DEF DieRecording
  <2> QED BY <2>1, <2>2, DownTyped
<1> QED BY <1>1, <1>4, <1>5 DEF DieRecording, LedgerKept

LEMMA RebuildKept ==
  ASSUME LedgerKept, NEW s \in Stores, RebuildSnapshot(s)
  PROVE  LedgerKept'
<1>1. ledger.lines \in Seq(Lines) BY DEF LedgerKept, FileOK, Files
<1>2. Replayed(ledger.lines) \in StoreStates BY <1>1, ReplayedTyped
<1>3. store' \in [Stores -> StoreStates] BY <1>2 DEF RebuildSnapshot, LedgerKept
<1> QED BY <1>3 DEF RebuildSnapshot, LedgerKept

LEMMA CloseKept ==
  ASSUME LedgerKept, NEW s \in Stores, Close(s)
  PROVE  LedgerKept'
<1>1. store' \in [Stores -> StoreStates] BY DownTyped DEF Close, LedgerKept
<1> QED BY <1>1 DEF Close, LedgerKept

LEMMA LedgerStepKept == LedgerKept /\ [LedgerNext]_ledgerVars => LedgerKept'
<1> SUFFICES ASSUME LedgerKept, [LedgerNext]_ledgerVars PROVE LedgerKept' OBVIOUS
<1>1. CASE UNCHANGED ledgerVars BY <1>1 DEF ledgerVars, LedgerKept
<1>2. ASSUME NEW s \in Stores, NEW note \in Outcomes, Open(s, note) PROVE LedgerKept'
  BY <1>2, OpenKept
<1>3. ASSUME NEW s \in Stores, NEW e \in Events, NEW note \in Outcomes, NEW outcome \in Outcomes,
             Record(s, e, note, outcome)
      PROVE  LedgerKept'
  <2>1. e \in EventSet BY LedgerAssumption
  <2> QED BY <1>3, <2>1, RecordKept
<1>4. ASSUME NEW s \in Stores, NEW e \in Events, NEW outcome \in Outcomes,
             DieRecording(s, e, outcome)
      PROVE  LedgerKept'
  <2>1. e \in EventSet BY LedgerAssumption
  <2> QED BY <1>4, <2>1, DieRecordingKept
<1>5. ASSUME NEW s \in Stores, Crash(s) \/ RebuildSnapshot(s) \/ Close(s) PROVE LedgerKept'
  BY <1>5, CrashKept, RebuildKept, CloseKept
<1> QED BY <1>1, <1>2, <1>3, <1>4, <1>5 DEF LedgerNext

\* The file, the views and the counters have their types, whatever writes fail
\* half-way and whatever processes die: LedgerTypeOK of the ledger.
THEOREM LedgerTypes == LedgerSpec => []LedgerTypeOK
<1>1. LedgerKept => LedgerTypeOK BY LedgerKeptTypes
<1> QED BY <1>1, LedgerInitKept, LedgerStepKept, PTL DEF LedgerSpec

\* A client was never told of more records than are left and torn writes
\* account for: EachTearCostsOneRecord of the ledger.
THEOREM TearsCostOneRecord == LedgerSpec => []EachTearCostsOneRecord
<1>1. LedgerKept => EachTearCostsOneRecord BY LedgerKeptTypes
<1> QED BY <1>1, LedgerInitKept, LedgerStepKept, PTL DEF LedgerSpec
-----------------------------------------------------------------------------
(* A current store holds what a restart would rebuild.                     *)

Holds(state, lines) ==
  state.up /\ state.exact =>
    /\ state.tasks = Replay(lines)
    /\ state.seq = Audit(lines).seq

\* Two files whose audits find the same positions missing and come back.
SameAudit(p, q) ==
  /\ Audit(q).gaps = Audit(p).gaps
  /\ Audit(q).repeats = Audit(p).repeats

\* A line that carries the next number moves the counter and nothing else.
LEMMA NumberedNext ==
  ASSUME NEW p \in Seq(Lines), NEW e \in EventSet, NEW b \in BOOLEAN,
         NEW n, n = Audit(p).seq + 1, NEW q, q = Append(p, Line(n, e, b))
  PROVE  /\ Replay(q) = Applied(Replay(p), e)
         /\ Audit(q).seq = n
         /\ SameAudit(p, q)
<1>1. Audit(p) \in Audits BY ReplayTyped
<1>2. Audit(p).seq \in Nat /\ n \in Nat BY <1>1 DEF Audits
<1> DEFINE l == Line(n, e, b)
<1>3. l \in Lines /\ l.sound /\ l.seq = n /\ l.event = e BY <1>2 DEF Line, Lines
<1> HIDE DEF l
<1>4. q = Append(p, l) BY DEF l
<1>5. Replay(q) = ReadLine(Replay(p), l) /\ Audit(q) = Audited(Audit(p), l)
  BY <1>3, <1>4, ReplayOneMore
<1>6. Replay(q) = Applied(Replay(p), e) BY <1>3, <1>5 DEF ReadLine
<1>7. Audit(q) = Numbered(Audit(p), n) BY <1>3, <1>5 DEF Audited
<1>8. n > Audit(p).seq /\ ~(n <= Audit(p).seq) /\ (Audit(p).seq + 1) .. (n - 1) = {} BY <1>2
<1>9. Audit(q).seq = n /\ SameAudit(p, q)
  <2> DEFINE a == Audit(p)
             c == Audit(q)
  <2>1. c.seq = IF n > a.seq THEN n ELSE a.seq BY <1>7 DEF Numbered
  <2>2. c.gaps = a.gaps \union ((a.seq + 1) .. (n - 1)) BY <1>7 DEF Numbered
  <2>3. c.repeats = a.repeats \union (IF n <= a.seq THEN {n} ELSE {}) BY <1>7 DEF Numbered
  <2>4. n > a.seq /\ ~(n <= a.seq) /\ (a.seq + 1) .. (n - 1) = {} BY <1>8
  <2> HIDE DEF a, c
  <2>5. c.seq = n /\ c.gaps = a.gaps /\ c.repeats = a.repeats BY <2>1, <2>2, <2>3, <2>4
  <2> QED BY <2>5 DEF a, c, SameAudit
<1> QED BY <1>6, <1>9

\* The fold does not look at the note of a reclaimed lock.
LEMMA ReclaimUnseen ==
  ASSUME NEW v \in Views
  PROVE  Applied(v, ReclaimEvent) = v
<1>1. \A x : Folded(x, ReclaimEvent) = x BY DEF Folded, ReclaimEvent, LockReclaimed, Event
<1>2. Applied(v, ReclaimEvent) = [v EXCEPT ![ReclaimEvent.task] = @] BY <1>1 DEF Applied
<1> QED BY <1>2 DEF Views

\* What a clean write of e under number n makes of the lines p.
Extends(p, q, n, e, outcome) ==
  /\ SameAudit(p, q)
  /\ Audit(q).seq = IF outcome = "synced" THEN n ELSE n - 1
  /\ Replay(q) = IF outcome = "synced" THEN Applied(Replay(p), e) ELSE Replay(p)

\* A write that came back, on a whole file, or that wrote nothing.
LEMMA CleanWrite ==
  ASSUME NEW f, FileOK(f), NEW n, n = Audit(f.lines).seq + 1, NEW e \in EventSet,
         NEW outcome, outcome = "none" \/ (outcome = "synced" /\ ~f.torn),
         NEW told \in BOOLEAN, NEW w, w = Wrote(f, n, e, outcome, told)
  PROVE  Extends(f.lines, w.lines, n, e, outcome)
<1>1. f \in Files /\ Unheard(f) /\ f.lines \in Seq(Lines) BY DEF FileOK, Files
<1>2. Audit(f.lines).seq \in Nat /\ n \in Nat BY <1>1, ReplayedTyped
<1>3. CASE outcome = "none"
  <2>1. w = f BY <1>3 DEF Wrote
  <2> QED BY <1>2, <1>3, <2>1 DEF SameAudit, Extends
<1>4. CASE outcome = "synced" /\ ~f.torn
  <2>1. outcome \in Outcomes /\ outcome # "none" BY <1>4 DEF Outcomes
  <2>2. w.lines = Append(f.lines, Text(n, e, outcome, told))
    BY <1>4 DEF Wrote, Text
  <2>3. Text(n, e, outcome, told) = Line(n, e, told) BY <1>4 DEF Text
  <2>4. w.lines = Append(f.lines, Line(n, e, told)) BY <2>2, <2>3
  <2> QED BY <1>1, <1>4, <2>4, NumberedNext DEF Extends
<1> QED BY <1>3, <1>4
MemoryInv == LedgerKept /\ \A s \in Stores : Holds(store[s], ledger.lines)

\* What one step has to show of a store.
Current(state, before, state2, after) ==
  /\ Holds(state2, after)
  /\ state.up /\ state.exact /\ state2.up /\ state2.exact => SameAudit(before, after)

AllCurrent == \A r \in Stores : Current(store[r], ledger.lines, store'[r], ledger'.lines)

\* A store that did not write stays current only while nobody does.
LEMMA BystanderCurrent ==
  ASSUME NEW state \in StoreStates, NEW lines, NEW lines2, Holds(state, lines),
         NEW b \in BOOLEAN, b => lines2 = lines,
         NEW state2, state2 = [state EXCEPT !.exact = @ /\ b]
  PROVE  Current(state, lines, state2, lines2)
<1>1. state2.up = state.up /\ state2.exact = (state.exact /\ b)
      /\ state2.tasks = state.tasks /\ state2.seq = state.seq
  BY DEF StoreStates
<1> QED BY <1>1 DEF Current, Holds, SameAudit

\* A store that is down, and a step that leaves file and store alone.
LEMMA DownCurrent ==
  ASSUME NEW state, NEW lines, NEW lines2
  PROVE  Current(state, lines, Down, lines2)
BY DEF Current, Holds, Down

LEMMA SameCurrent ==
  ASSUME NEW state, NEW lines, Holds(state, lines)
  PROVE  Current(state, lines, state, lines)
BY DEF Current, SameAudit

LEMMA OpenCurrent ==
  ASSUME MemoryInv, NEW s \in Stores, NEW note \in Outcomes, Open(s, note)
  PROVE  AllCurrent
<1> DEFINE n == Audit(ledger.lines).seq + 1
           a == Replayed(ledger.lines)
           y == note = "none" \/ (note = "synced" /\ ~ledger.torn)
           new == [a EXCEPT !.seq = IF note = "synced" THEN @ + 1 ELSE @, !.exact = y]
<1>1. ledger.lines \in Seq(Lines) /\ FileOK(ledger)
  BY DEF MemoryInv, LedgerKept, FileOK, Files
<1>2. ledger' = Wrote(ledger, n, ReclaimEvent, note, FALSE) BY DEF Open
<1>3. store' = [r \in Stores |-> IF r = s THEN new
                                 ELSE [store[r] EXCEPT !.exact = @ /\ note = "none"]]
  BY DEF Open
<1>4. ~store[s].up BY DEF Open
<1>5. Holds(new, ledger'.lines)
  <2>1. new.exact = y /\ new.tasks = Replay(ledger.lines)
        /\ new.seq = IF note = "synced" THEN n ELSE n - 1
    <3>1. /\ a.tasks = Replay(ledger.lines) /\ a.seq = Audit(ledger.lines).seq
          /\ a \in StoreStates /\ a.seq \in Nat
      BY <1>1, ReplayedTyped DEF Replayed
    <3> DEFINE x == IF note = "synced" THEN a.seq + 1 ELSE a.seq
    <3>2. new = [a EXCEPT !.seq = x, !.exact = y] OBVIOUS
    <3>3. x = (IF note = "synced" THEN n ELSE n - 1) BY <3>1
    <3> HIDE DEF a, x, y, new, n
    <3>4. new.exact = y /\ new.tasks = a.tasks /\ new.seq = x BY <3>1, <3>2 DEF StoreStates
    <3> QED BY <3>1, <3>3, <3>4
  <2>2. ASSUME y PROVE /\ Replay(ledger'.lines) = Replay(ledger.lines)
                       /\ Audit(ledger'.lines).seq = IF note = "synced" THEN n ELSE n - 1
    <3> DEFINE w == ledger'
    <3>1. note = "none" \/ (note = "synced" /\ ~ledger.torn) BY <2>2
    <3>2. w = Wrote(ledger, n, ReclaimEvent, note, FALSE) /\ FALSE \in BOOLEAN BY <1>2
    <3>3. ReclaimEvent \in EventSet BY ReclaimTyped
    <3> HIDE DEF w
    <3>4. Extends(ledger.lines, w.lines, n, ReclaimEvent, note)
      <4>1. n = Audit(ledger.lines).seq + 1 BY DEF n
      <4> QED BY <1>1, <3>1, <3>2, <3>3, <4>1, CleanWrite
    <3>5. Applied(Replay(ledger.lines), ReclaimEvent) = Replay(ledger.lines)
      BY <1>1, ReplayTyped, ReclaimUnseen
    <3> QED BY <3>4, <3>5 DEF w, Extends
  <2> HIDE DEF new, y, n
  <2> QED BY <2>1, <2>2 DEF Holds
<1>6. ASSUME NEW r \in Stores, r # s PROVE Current(store[r], ledger.lines, store'[r], ledger'.lines)
  <2> DEFINE b == note = "none"
             state == store[r]
             state2 == store'[r]
             lines2 == ledger'.lines
  <2>1. b \in BOOLEAN /\ (b => lines2 = ledger.lines) BY <1>2 DEF Wrote
  <2>2. state2 = [state EXCEPT !.exact = @ /\ b] BY <1>3, <1>6
  <2>3. state \in StoreStates /\ Holds(state, ledger.lines) BY DEF MemoryInv, LedgerKept
  <2> HIDE DEF b, state, state2, lines2
  <2>4. Current(state, ledger.lines, state2, lines2) BY <2>1, <2>2, <2>3, BystanderCurrent
  <2> QED BY <2>4 DEF state, state2, lines2
<1>7. Current(store[s], ledger.lines, store'[s], ledger'.lines)
  <2>1. store'[s] = new BY <1>3
  <2> HIDE DEF new
  <2> QED BY <1>4, <1>5, <2>1 DEF Current
<1> QED BY <1>6, <1>7 DEF AllCurrent

LEMMA RecordCurrent ==
  ASSUME MemoryInv, NEW s \in Stores, NEW e \in EventSet,
         NEW note \in Outcomes, NEW outcome \in Outcomes, Record(s, e, note, outcome)
  PROVE  AllCurrent
<1> DEFINE n == store[s].seq + 1
           after == Wrote(ledger, n, ReclaimEvent, note, FALSE)
           m == IF note = "synced" THEN n + 1 ELSE n
           clean == /\ note = "none" \/ (note = "synced" /\ ~ledger.torn)
                    /\ outcome = "none" \/ (outcome = "synced" /\ ~after.torn)
           new == [up    |-> TRUE,
                   seq   |-> Counter(m, outcome),
                   tasks |-> View(store[s].tasks, e, outcome),
                   exact |-> store[s].exact /\ clean]
           w == ledger'
<1>1. /\ n \in Nat /\ m \in Nat /\ m >= 1 /\ FileOK(after)
      /\ w = Wrote(after, m, e, outcome, TRUE)
  BY RecordWrites DEF MemoryInv
<1>2. store' = [r \in Stores |-> IF r = s THEN new
                                 ELSE [store[r] EXCEPT !.exact = @ /\ ledger' = ledger]]
  BY DEF Record
<1>3. ledger.lines \in Seq(Lines) /\ FileOK(ledger)
  BY DEF MemoryInv, LedgerKept, FileOK, Files
<1>4. store[s].up /\ Holds(store[s], ledger.lines) BY DEF Record, MemoryInv
<1>5. ASSUME store[s].exact, clean
      PROVE  /\ SameAudit(ledger.lines, w.lines)
             /\ new.tasks = Replay(w.lines)
             /\ new.seq = Audit(w.lines).seq
  <2>1. store[s].tasks = Replay(ledger.lines) /\ store[s].seq = Audit(ledger.lines).seq
    BY <1>4, <1>5 DEF Holds
  <2>2. n = Audit(ledger.lines).seq + 1 BY <2>1
  <2>3. note = "none" \/ (note = "synced" /\ ~ledger.torn) BY <1>5
  <2>4. outcome = "none" \/ (outcome = "synced" /\ ~after.torn) BY <1>5
  <2>5. FALSE \in BOOLEAN /\ TRUE \in BOOLEAN /\ after = Wrote(ledger, n, ReclaimEvent, note, FALSE)
    OBVIOUS
  <2>6. ReclaimEvent \in EventSet BY ReclaimTyped
  <2> DEFINE told == Replay(ledger.lines)
  <2> HIDE DEF n, m, after, w, clean, new
  <2>7. Extends(ledger.lines, after.lines, n, ReclaimEvent, note)
    BY <1>3, <2>2, <2>3, <2>5, <2>6, CleanWrite
  <2>8. Replay(after.lines) = told
    <3>1. Applied(told, ReclaimEvent) = told BY <1>3, ReplayTyped, ReclaimUnseen
    <3> QED BY <2>7, <3>1 DEF Extends
  <2>9. m = Audit(after.lines).seq + 1 BY <1>1, <2>7 DEF m, Extends
  <2>10. Extends(after.lines, w.lines, m, e, outcome)
    BY <1>1, <2>4, <2>5, <2>9, CleanWrite
  <2>11. SameAudit(ledger.lines, w.lines) BY <2>7, <2>10 DEF SameAudit, Extends
  <2>12. new.tasks = View(told, e, outcome) /\ new.seq = Counter(m, outcome) BY <2>1 DEF new
  <2>13. new.tasks = Replay(w.lines) BY <2>8, <2>10, <2>12 DEF View, Extends
  <2>14. new.seq = Audit(w.lines).seq BY <2>10, <2>12 DEF Counter, Extends
  <2> QED BY <2>11, <2>13, <2>14
<1>6. new.exact = (store[s].exact /\ clean) OBVIOUS
<1>7. Current(store[s], ledger.lines, store'[s], ledger'.lines)
  <2>1. store'[s] = new BY <1>2
  <2> HIDE DEF new, clean
  <2>2. Holds(new, w.lines) BY <1>5, <1>6 DEF Holds
  <2>3. new.exact => SameAudit(ledger.lines, w.lines) BY <1>5, <1>6
  <2> QED BY <2>1, <2>2, <2>3 DEF Current
<1>8. ASSUME NEW r \in Stores, r # s PROVE Current(store[r], ledger.lines, store'[r], ledger'.lines)
  <2> DEFINE b == ledger' = ledger
             state == store[r]
             state2 == store'[r]
             lines2 == ledger'.lines
  <2>1. b \in BOOLEAN /\ (b => lines2 = ledger.lines) OBVIOUS
  <2>2. state2 = [state EXCEPT !.exact = @ /\ b] BY <1>2, <1>8
  <2>3. state \in StoreStates /\ Holds(state, ledger.lines) BY DEF MemoryInv, LedgerKept
  <2> HIDE DEF b, state, state2, lines2
  <2>4. Current(state, ledger.lines, state2, lines2) BY <2>1, <2>2, <2>3, BystanderCurrent
  <2> QED BY <2>4 DEF state, state2, lines2
<1> QED BY <1>7, <1>8 DEF AllCurrent

LEMMA DieRecordingCurrent ==
  ASSUME MemoryInv, NEW s \in Stores, NEW e \in EventSet, NEW outcome \in Outcomes,
         DieRecording(s, e, outcome)
  PROVE  AllCurrent
<1>1. store' = [r \in Stores |-> IF r = s THEN Down
                                 ELSE [store[r] EXCEPT !.exact = @ /\ outcome = "none"]]
  BY DEF DieRecording
<1>2. ASSUME NEW r \in Stores, r # s PROVE Current(store[r], ledger.lines, store'[r], ledger'.lines)
  <2> DEFINE b == outcome = "none"
             state == store[r]
             state2 == store'[r]
             lines2 == ledger'.lines
  <2>1. b \in BOOLEAN /\ (b => lines2 = ledger.lines) BY DEF DieRecording, Wrote
  <2>2. state2 = [state EXCEPT !.exact = @ /\ b] BY <1>1, <1>2
  <2>3. state \in StoreStates /\ Holds(state, ledger.lines) BY DEF MemoryInv, LedgerKept
  <2> HIDE DEF b, state, state2, lines2
  <2>4. Current(state, ledger.lines, state2, lines2) BY <2>1, <2>2, <2>3, BystanderCurrent
  <2> QED BY <2>4 DEF state, state2, lines2
<1>3. Current(store[s], ledger.lines, store'[s], ledger'.lines) BY <1>1, DownCurrent
<1> QED BY <1>2, <1>3 DEF AllCurrent

\* The other operations write nothing.
LEMMA QuietCurrent ==
  ASSUME MemoryInv, NEW s \in Stores, ledger' = ledger,
         NEW new \in {Down, Replayed(ledger.lines)}, store' = [store EXCEPT ![s] = new]
  PROVE  AllCurrent
<1>1. ASSUME NEW r \in Stores, r # s PROVE Current(store[r], ledger.lines, store'[r], ledger'.lines)
  <2>1. store'[r] = store[r] /\ Holds(store[r], ledger.lines) BY <1>1 DEF MemoryInv, LedgerKept
  <2> QED BY <2>1, SameCurrent
<1>2. store'[s] = new BY DEF MemoryInv, LedgerKept
<1>3. Holds(Replayed(ledger.lines), ledger.lines) BY DEF Holds, Replayed
<1>4. Current(store[s], ledger.lines, Replayed(ledger.lines), ledger.lines)
  BY <1>3 DEF Current, SameAudit
<1>5. Current(store[s], ledger.lines, store'[s], ledger'.lines) BY <1>2, <1>4, DownCurrent
<1> QED BY <1>1, <1>5 DEF AllCurrent

LEMMA StepCurrent ==
  ASSUME MemoryInv, [LedgerNext]_ledgerVars
  PROVE  AllCurrent
<1>1. CASE UNCHANGED ledgerVars
  <2>1. store' = store /\ ledger' = ledger BY <1>1 DEF ledgerVars
  <2>2. ASSUME NEW r \in Stores PROVE Current(store[r], ledger.lines, store'[r], ledger'.lines)
    <3>1. Holds(store[r], ledger.lines) BY DEF MemoryInv
    <3> QED BY <2>1, <3>1, SameCurrent
  <2> QED BY <2>2 DEF AllCurrent
<1>2. ASSUME NEW s \in Stores, NEW note \in Outcomes, Open(s, note) PROVE AllCurrent
  BY <1>2, OpenCurrent
<1>3. ASSUME NEW s \in Stores, NEW e \in Events, NEW note \in Outcomes, NEW outcome \in Outcomes,
             Record(s, e, note, outcome)
      PROVE  AllCurrent
  <2>1. e \in EventSet BY LedgerAssumption
  <2> QED BY <1>3, <2>1, RecordCurrent
<1>4. ASSUME NEW s \in Stores, NEW e \in Events, NEW outcome \in Outcomes,
             DieRecording(s, e, outcome)
      PROVE  AllCurrent
  <2>1. e \in EventSet BY LedgerAssumption
  <2> QED BY <1>4, <2>1, DieRecordingCurrent
<1>5. ASSUME NEW s \in Stores, Crash(s) \/ RebuildSnapshot(s) \/ Close(s) PROVE AllCurrent
  <2>1. PICK new \in {Down, Replayed(ledger.lines)} :
          ledger' = ledger /\ store' = [store EXCEPT ![s] = new]
    BY <1>5 DEF Crash, RebuildSnapshot, Close
  <2> QED BY <2>1, QuietCurrent
<1> QED BY <1>1, <1>2, <1>3, <1>4, <1>5 DEF LedgerNext

LEMMA MemoryStep == MemoryInv /\ [LedgerNext]_ledgerVars => MemoryInv' /\ AllCurrent
<1> SUFFICES ASSUME MemoryInv, [LedgerNext]_ledgerVars PROVE MemoryInv' /\ AllCurrent OBVIOUS
<1>1. AllCurrent BY StepCurrent
<1>2. LedgerKept' BY LedgerStepKept DEF MemoryInv
<1>3. \A r \in Stores : Holds(store'[r], ledger'.lines) BY <1>1 DEF AllCurrent, Current
<1> QED BY <1>1, <1>2, <1>3 DEF MemoryInv

LEMMA MemoryInit == LedgerInit => MemoryInv
<1> SUFFICES ASSUME LedgerInit PROVE MemoryInv OBVIOUS
<1>1. \A s \in Stores : ~store[s].up BY DEF LedgerInit, Down
<1> QED BY <1>1, LedgerInitKept DEF MemoryInv, Holds

\* A current store holds the view and the counter that a restart would rebuild
\* from the file: MemoryIsReplay.
THEOREM MemoriesAreReplays == LedgerSpec => []MemoryIsReplay
<1>1. MemoryInv => MemoryIsReplay BY DEF MemoryInv, MemoryIsReplay, Holds
<1> QED BY <1>1, MemoryInit, MemoryStep, PTL DEF LedgerSpec

\* A store that is current before and after a step has burned no position and
\* given none twice: CurrentStoresNumberCleanly.
THEOREM NumbersAreClean == LedgerSpec => CurrentStoresNumberCleanly
<1> DEFINE Clean ==
      \A s \in Stores :
        store[s].up /\ store[s].exact /\ store'[s].up /\ store'[s].exact =>
          /\ Audit(ledger'.lines).gaps = Audit(ledger.lines).gaps
          /\ Audit(ledger'.lines).repeats = Audit(ledger.lines).repeats
<1>1. AllCurrent => Clean BY DEF AllCurrent, Current, SameAudit
<1>2. MemoryInv /\ [LedgerNext]_ledgerVars => [Clean]_ledgerVars BY <1>1, MemoryStep
<1> HIDE DEF Clean
<1>3. LedgerSpec => [][Clean]_ledgerVars BY <1>2, MemoryInit, MemoryStep, PTL DEF LedgerSpec
<1> QED BY <1>3 DEF Clean, CurrentStoresNumberCleanly

-----------------------------------------------------------------------------
(* Types, and a call in progress has its store open.                       *)

PCs == {"idle", "reconcile", "dispatch", "redispatch", "effect", "commit", "conflict", "verify"}
Calls ==
  [pc: PCs, op: Ops \union {NoOp}, live: BOOLEAN,
   pre: Digests \union {NoDigest}, post: Digests \union {NoDigest}]

RunnerTypes ==
  /\ tree \in Digests
  /\ call \in [Stores -> Calls]
  /\ todo \in [Stores -> SUBSET Tasks]
  /\ effects \in [Ops -> Nat]
  /\ licences \in [Ops -> Nat]

Calling(s) == call[s].pc # "idle" => store[s].up /\ call[s].op \in Ops

RunnerInv == LedgerKept /\ RunnerTypes /\ \A s \in Stores : Calling(s)

LEMMA IdleTyped == Idle \in Calls
BY DEF Idle, Calls, PCs

\* What the control of a call does to the calls.
LEMMA GotoCall ==
  ASSUME RunnerTypes, NEW s \in Stores, NEW pc \in PCs, Goto(s, pc)
  PROVE  /\ call' \in [Stores -> Calls]
         /\ call'[s] = [call[s] EXCEPT !.pc = pc]
         /\ \A r \in Stores : r # s => call'[r] = call[r]
<1>1. call' = [call EXCEPT ![s] = [call[s] EXCEPT !.pc = pc]] BY DEF Goto
<1>2. [call[s] EXCEPT !.pc = pc] \in Calls BY DEF RunnerTypes, Calls
<1> QED BY <1>1, <1>2 DEF RunnerTypes

LEMMA ReturnCall ==
  ASSUME RunnerTypes, NEW s \in Stores, call' = [call EXCEPT ![s] = Idle]
  PROVE  /\ call' \in [Stores -> Calls]
         /\ call'[s] = Idle
         /\ \A r \in Stores : r # s => call'[r] = call[r]
BY IdleTyped DEF RunnerTypes

\* What an operation of store s leaves alone in the others.
Apart(s) ==
  \A r \in Stores : r # s => store'[r].up = store[r].up /\ store'[r].tasks = store[r].tasks

\* Store s becomes new, the others stay current only if b.
Becomes(s, new, b) ==
  store' = [r \in Stores |-> IF r = s THEN new ELSE [store[r] EXCEPT !.exact = @ /\ b]]

LEMMA ExactApart ==
  ASSUME LedgerKept, NEW s \in Stores, NEW new, NEW b, Becomes(s, new, b)
  PROVE  Apart(s) /\ store'[s] = new
BY DEF Apart, LedgerKept, StoreStates, Becomes

LEMMA RecordApart ==
  ASSUME LedgerKept, NEW s \in Stores, NEW e \in EventSet,
         NEW note \in Outcomes, NEW outcome \in Outcomes, Record(s, e, note, outcome)
  PROVE  /\ Apart(s) /\ store'[s].up /\ LedgerKept'
         /\ store'[s].tasks = View(store[s].tasks, e, outcome)
<1> DEFINE n == store[s].seq + 1
           after == Wrote(ledger, n, ReclaimEvent, note, FALSE)
           m == IF note = "synced" THEN n + 1 ELSE n
           clean == /\ note = "none" \/ (note = "synced" /\ ~ledger.torn)
                    /\ outcome = "none" \/ (outcome = "synced" /\ ~after.torn)
           new == [up    |-> TRUE,
                   seq   |-> Counter(m, outcome),
                   tasks |-> View(store[s].tasks, e, outcome),
                   exact |-> store[s].exact /\ clean]
<1>1. Becomes(s, new, ledger' = ledger) BY DEF Record, Becomes
<1>2. new.up /\ new.tasks = View(store[s].tasks, e, outcome) OBVIOUS
<1> HIDE DEF new
<1>3. Apart(s) /\ store'[s] = new BY <1>1, ExactApart
<1>4. LedgerKept' BY RecordKept
<1> QED BY <1>2, <1>3, <1>4

LEMMA OpenApart ==
  ASSUME LedgerKept, NEW s \in Stores, NEW note \in Outcomes, Open(s, note)
  PROVE  Apart(s) /\ LedgerKept'
<1> DEFINE new == [Replayed(ledger.lines) EXCEPT
                     !.seq = IF note = "synced" THEN @ + 1 ELSE @,
                     !.exact = note = "none" \/ (note = "synced" /\ ~ledger.torn)]
           b == note = "none"
<1>1. Becomes(s, new, b) BY DEF Open, Becomes
<1> HIDE DEF new, b
<1> QED BY <1>1, ExactApart, OpenKept

LEMMA DieRecordingApart ==
  ASSUME LedgerKept, NEW s \in Stores, NEW e \in EventSet, NEW outcome \in Outcomes,
         DieRecording(s, e, outcome)
  PROVE  Apart(s) /\ LedgerKept'
<1> DEFINE b == outcome = "none"
<1>1. Becomes(s, Down, b) BY DEF DieRecording, Becomes
<1> HIDE DEF b
<1> QED BY <1>1, ExactApart, DieRecordingKept

LEMMA CrashApart ==
  ASSUME LedgerKept, NEW s \in Stores, Crash(s)
  PROVE  Apart(s) /\ LedgerKept'
<1>1. LedgerKept' BY CrashKept
<1> QED BY <1>1 DEF Apart, Crash, LedgerKept

\* The tree and the licences.
LEMMA TreeTyped ==
  ASSUME RunnerTypes, NEW d \in Digests, TreeBecomes(d)
  PROVE  /\ tree' \in Digests /\ tree' = d
         /\ licences' \in [Ops -> Nat]
         /\ \A o \in Ops :
              licences'[o] = licences[o] + (IF Pre[o] = d /\ tree # d THEN 1 ELSE 0)
<1>1. \A o \in Ops : licences[o] \in Nat BY DEF RunnerTypes
<1> QED BY <1>1 DEF TreeBecomes

\* The events a call records.
LEMMA IntendedTyped ==
  ASSUME RunnerInv, NEW s \in Stores, NEW e \in Intended(s)
  PROVE  /\ e \in EventSet
         /\ call[s].pc \in {"dispatch", "redispatch", "commit", "conflict", "verify"}
         /\ call[s].op \in Ops
         /\ e.task = TaskOf[call[s].op]
         /\ e.type = "EXECUTION_COMMITTED" => call[s].pc = "commit" /\ e.op = call[s].op
<1> DEFINE o == call[s].op
           t == TaskOf[o]
<1>1. call[s].pc \in {"dispatch", "redispatch", "commit", "conflict", "verify"} BY DEF Intended
<1>2. o \in Ops /\ o \in Ops \union {NoOp} BY <1>1 DEF RunnerInv, Calling
<1>3. t \in Tasks BY <1>2, RunnerAssumption
<1>4. call[s].pre \in Digests \union {NoDigest} /\ call[s].post \in Digests \union {NoDigest}
  BY DEF RunnerInv, RunnerTypes, Calls
<1> HIDE DEF o, t
<1>5. CASE call[s].pc \in {"dispatch", "redispatch"}
  <2>1. e = CursorDispatched(t, o, call[s].pre, call[s].post) BY <1>5 DEF Intended, o, t
  <2>2. e \in EventSet /\ e.task = t /\ e.type = "CURSOR_DISPATCHED"
    BY <1>2, <1>3, <1>4, <2>1 DEF CursorDispatched, Event, EventSet
  <2> QED BY <1>1, <1>2, <2>2 DEF o, t
<1>6. CASE call[s].pc = "commit"
  <2>1. e = ExecutionCommitted(t, o, NoDigest) BY <1>6 DEF Intended, o, t
  <2>2. e \in EventSet /\ e.task = t /\ e.op = o
    BY <1>2, <1>3, <2>1 DEF ExecutionCommitted, Event, EventSet
  <2> QED BY <1>1, <1>2, <1>6, <2>2 DEF o, t
<1>7. CASE call[s].pc = "conflict"
  <2>1. e = TargetConflict(t, o) BY <1>7 DEF Intended, o, t
  <2>2. e \in EventSet /\ e.task = t /\ e.type = "TARGET_CONFLICT"
    BY <1>2, <1>3, <2>1 DEF TargetConflict, Event, EventSet
  <2> QED BY <1>1, <1>2, <2>2 DEF o, t
<1>8. CASE call[s].pc = "verify"
  <2>1. PICK ok \in BOOLEAN : e = VerificationResult(t, o, ok) BY <1>8 DEF Intended, o, t
  <2>2. e \in EventSet /\ e.task = t /\ e.type = "VERIFICATION_RESULT"
    BY <1>2, <1>3, <2>1 DEF VerificationResult, Event, EventSet
  <2> QED BY <1>1, <1>2, <2>2 DEF o, t
<1> QED BY <1>1, <1>5, <1>6, <1>7, <1>8

\* The events of a reconciliation.
LEMMA ReconciledTyped ==
  ASSUME RunnerInv, NEW s \in Stores, NEW t \in Tasks,
         NEW op, op = store[s].tasks[t].cursor.op
  PROVE  /\ ExecutionCommitted(t, op, NoDigest) \in EventSet
         /\ TargetConflict(t, op) \in EventSet
<1>1. store[s].tasks[t] \in TaskStates BY DEF RunnerInv, LedgerKept, StoreStates, Views
<1>2. op \in Ops \union {NoOp} BY <1>1 DEF TaskStates, Cursors
<1> QED BY <1>2 DEF ExecutionCommitted, TargetConflict, Event, EventSet

-----------------------------------------------------------------------------
(* The steps, one action at a time.                                        *)

LEMMA CallingFrame ==
  ASSUME RunnerInv, NEW s \in Stores, Apart(s),
         \A r \in Stores : r # s => call'[r] = call[r],
         call'[s].pc # "idle" => store'[s].up /\ call'[s].op \in Ops
  PROVE  (\A r \in Stores : Calling(r))'
<1>1. ASSUME NEW r \in Stores, r # s PROVE call'[r].pc # "idle" => store'[r].up /\ call'[r].op \in Ops
  <2>1. call'[r] = call[r] /\ store'[r].up = store[r].up BY <1>1 DEF Apart
  <2>2. Calling(r) BY DEF RunnerInv
  <2> QED BY <2>1, <2>2 DEF Calling
<1> QED BY <1>1 DEF Calling

LEMMA SameApart == ASSUME NEW s, store' = store PROVE Apart(s)
BY DEF Apart

LEMMA ProposeInv ==
  ASSUME RunnerInv, NEW s \in Stores, NEW o \in Ops, NEW live \in BOOLEAN, Propose(s, o, live)
  PROVE  RunnerInv'
<1> DEFINE new == [pc |-> "reconcile", op |-> o, live |-> live, pre |-> Pre[o],
                   post |-> IF live THEN NoDigest ELSE Post[o]]
<1>1. ledger' = ledger /\ store' = store /\ staleLock' = staleLock /\ faults' = faults
  BY DEF Propose, ledgerVars
<1>2. LedgerKept' BY <1>1 DEF RunnerInv, LedgerKept
<1>3. new \in Calls BY RunnerAssumption DEF Calls, PCs
<1>4. call' = [call EXCEPT ![s] = new] BY DEF Propose
<1>5. new.pc = "reconcile" /\ new.op = o OBVIOUS
<1> HIDE DEF new
<1>6. /\ call' \in [Stores -> Calls] /\ call'[s] = new
      /\ \A r \in Stores : r # s => call'[r] = call[r]
  BY <1>3, <1>4 DEF RunnerInv, RunnerTypes
<1>7. todo' \in [Stores -> SUBSET Tasks] BY DEF Propose, RunnerInv, RunnerTypes
<1>8. store[s].up BY DEF Propose
<1>9. (\A r \in Stores : Calling(r))' BY <1>1, <1>5, <1>6, <1>8, SameApart, CallingFrame
<1> QED BY <1>2, <1>6, <1>7, <1>9 DEF RunnerInv, RunnerTypes, Propose

\* A recording step of a call, whatever it records.
LEMMA RecordingInv ==
  ASSUME RunnerInv, NEW s \in Stores, NEW e \in EventSet, NEW note \in Outcomes,
         NEW outcome \in Outcomes, Record(s, e, note, outcome),
         call[s].pc # "idle", NEW pc \in PCs, Goto(s, pc) \/ Return(s)
  PROVE  /\ LedgerKept' /\ call' \in [Stores -> Calls]
         /\ (\A r \in Stores : Calling(r))'
<1>1. Apart(s) /\ store'[s].up /\ LedgerKept' BY RecordApart DEF RunnerInv
<1>2. CASE Goto(s, pc)
  <2>1. /\ call' \in [Stores -> Calls]
        /\ call'[s] = [call[s] EXCEPT !.pc = pc]
        /\ \A r \in Stores : r # s => call'[r] = call[r]
    BY <1>2, GotoCall DEF RunnerInv
  <2>2. call'[s].op = call[s].op BY <2>1 DEF RunnerInv, RunnerTypes, Calls
  <2>3. call[s].op \in Ops BY DEF RunnerInv, Calling
  <2>4. (\A r \in Stores : Calling(r))' BY <1>1, <2>1, <2>2, <2>3, CallingFrame
  <2> QED BY <1>1, <2>1, <2>4
<1>3. CASE Return(s)
  <2>1. /\ call' \in [Stores -> Calls]
        /\ call'[s] = Idle
        /\ \A r \in Stores : r # s => call'[r] = call[r]
    BY <1>3, ReturnCall DEF RunnerInv, Return
  <2>2. call'[s].pc = "idle" BY <2>1 DEF Idle
  <2>3. (\A r \in Stores : Calling(r))' BY <1>1, <2>1, <2>2, CallingFrame
  <2> QED BY <1>1, <2>1, <2>3
<1> QED BY <1>2, <1>3

LEMMA TodoLess ==
  ASSUME RunnerTypes, NEW s \in Stores, NEW t, todo' = [todo EXCEPT ![s] = @ \ {t}]
  PROVE  /\ todo' \in [Stores -> SUBSET Tasks]
         /\ todo'[s] = todo[s] \ {t}
         /\ \A r \in Stores : r # s => todo'[r] = todo[r]
BY DEF RunnerTypes

\* A safe retry changes the status of one cursor in memory.
LEMMA RetryStore ==
  ASSUME LedgerKept, NEW s \in Stores, NEW t \in Tasks, NEW b \in BOOLEAN,
         store' = [store EXCEPT ![s].tasks[t].cursor.status = "PENDING", ![s].exact = @ /\ b]
  PROVE  /\ store' \in [Stores -> StoreStates]
         /\ Apart(s) /\ store'[s].up = store[s].up
         /\ store'[s].tasks[t].cursor.status = "PENDING"
         /\ \A r \in Tasks : r # t => store'[s].tasks[r] = store[s].tasks[r]
<1> DEFINE v == store[s].tasks
           k == [v[t].cursor EXCEPT !.status = "PENDING"]
           x == [v[t] EXCEPT !.cursor = k]
           w == [v EXCEPT ![t] = x]
           new == [store[s] EXCEPT !.tasks = w, !.exact = @ /\ b]
<1>1. store[s] \in StoreStates /\ v \in Views /\ v[t] \in TaskStates /\ v[t].cursor \in Cursors
  BY DEF LedgerKept, StoreStates, Views, TaskStates
<1>2. k \in Cursors /\ k.status = "PENDING" BY <1>1 DEF Cursors
<1>3. store' = [store EXCEPT ![s] = new] BY <1>1
<1> HIDE DEF k
<1>4. x \in TaskStates /\ x.cursor = k BY <1>1, <1>2 DEF TaskStates
<1> HIDE DEF x
<1>5. w \in Views /\ w[t] = x /\ \A r \in Tasks : r # t => w[r] = v[r] BY <1>1, <1>4 DEF Views
<1> HIDE DEF w, v
<1>6. new \in StoreStates /\ new.tasks = w /\ new.up = store[s].up BY <1>1, <1>5 DEF StoreStates
<1> HIDE DEF new
<1>7. store' \in [Stores -> StoreStates] /\ store'[s] = new /\ Apart(s)
  BY <1>3, <1>6 DEF LedgerKept, Apart
<1> QED BY <1>2, <1>4, <1>5, <1>6, <1>7 DEF v

\* The three outcomes of a reconciliation.
Retried(s, t) ==
  LET cursor == store[s].tasks[t].cursor IN
  /\ store' = [store EXCEPT ![s].tasks[t].cursor.status = "PENDING",
                            ![s].exact = @ /\ cursor.status = "PENDING"]
  /\ UNCHANGED <<ledger, staleLock, faults, call, seen>>

ReconciledAs(s, t, e) ==
  \E note, outcome \in Outcomes :
    /\ Record(s, e, note, outcome)
    /\ \/ outcome = "synced" /\ Goto(s, "reconcile")
       \/ outcome # "synced" /\ Return(s)

LEMMA ReconcileCases ==
  ASSUME RunnerInv, NEW s \in Stores, NEW t \in Tasks, ReconcileTask(s, t),
         NEW op, op = store[s].tasks[t].cursor.op
  PROVE  \/ /\ ReconciledAs(s, t, ExecutionCommitted(t, op, NoDigest))
            /\ tree = store[s].tasks[t].cursor.post
            /\ seen' = seen \union {op}
         \/ ReconciledAs(s, t, TargetConflict(t, op)) /\ UNCHANGED seen
         \/ Retried(s, t)
<1> DEFINE k == store[s].tasks[t].cursor
<1>1. Reconcile(k, tree) = "ALREADY_COMMITTED" => tree = k.post BY DEF Reconcile
<1>2. CASE /\ Reconcile(k, tree) = "ALREADY_COMMITTED"
           /\ Recording(s, ExecutionCommitted(t, k.op, NoDigest), "reconcile")
           /\ seen' = seen \union (IF tree = k.post THEN {k.op} ELSE {})
  BY <1>1, <1>2 DEF Recording, ReconciledAs
<1>3. CASE Recording(s, TargetConflict(t, k.op), "reconcile") /\ UNCHANGED seen
  BY <1>3 DEF Recording, ReconciledAs
<1>4. CASE /\ store' = [store EXCEPT ![s].tasks[t].cursor.status = "PENDING",
                                     ![s].exact = @ /\ k.status = "PENDING"]
           /\ UNCHANGED <<ledger, staleLock, faults, call, seen>>
  BY <1>4 DEF Retried
<1> QED BY <1>2, <1>3, <1>4 DEF ReconcileTask

LEMMA ReconcileInv ==
  ASSUME RunnerInv, NEW s \in Stores, NEW t \in Tasks, ReconcileTask(s, t)
  PROVE  RunnerInv'
<1> DEFINE op == store[s].tasks[t].cursor.op
<1>1. call[s].pc = "reconcile" /\ todo' = [todo EXCEPT ![s] = @ \ {t}]
      /\ UNCHANGED <<tree, licences, effects>>
  BY DEF ReconcileTask, SameTree
<1>2. todo' \in [Stores -> SUBSET Tasks] BY <1>1, TodoLess DEF RunnerInv
<1>3. /\ LedgerKept' /\ call' \in [Stores -> Calls]
      /\ (\A r \in Stores : Calling(r))'
  <2>1. ExecutionCommitted(t, op, NoDigest) \in EventSet /\ TargetConflict(t, op) \in EventSet
    BY ReconciledTyped
  <2>2. ASSUME NEW e \in EventSet, ReconciledAs(s, t, e)
        PROVE  /\ LedgerKept' /\ call' \in [Stores -> Calls]
               /\ (\A r \in Stores : Calling(r))'
    <3>1. PICK note \in Outcomes, outcome \in Outcomes :
            Record(s, e, note, outcome) /\ (Goto(s, "reconcile") \/ Return(s))
      BY <2>2 DEF ReconciledAs
    <3> DEFINE pc == "reconcile"
    <3>2. pc \in PCs /\ call[s].pc # "idle" BY <1>1 DEF PCs
    <3>3. Goto(s, pc) \/ Return(s) BY <3>1
    <3> HIDE DEF pc
    <3> QED BY <3>1, <3>2, <3>3, RecordingInv
  <2>3. ASSUME Retried(s, t)
        PROVE  /\ LedgerKept' /\ call' \in [Stores -> Calls]
               /\ (\A r \in Stores : Calling(r))'
    <3> DEFINE b == store[s].tasks[t].cursor.status = "PENDING"
    <3>1. store' = [store EXCEPT ![s].tasks[t].cursor.status = "PENDING", ![s].exact = @ /\ b]
      BY <2>3 DEF Retried
    <3>2. b \in BOOLEAN OBVIOUS
    <3> HIDE DEF b
    <3>3. store' \in [Stores -> StoreStates] /\ Apart(s) /\ store'[s].up = store[s].up
      BY <3>1, <3>2, RetryStore DEF RunnerInv
    <3>4. ledger' = ledger /\ staleLock' = staleLock /\ faults' = faults /\ call' = call
      BY <2>3 DEF Retried
    <3>5. LedgerKept' BY <3>3, <3>4 DEF RunnerInv, LedgerKept
    <3>6. (\A r \in Stores : Calling(r))'
      <4>1. Calling(s) BY DEF RunnerInv
      <4>2. call'[s].pc # "idle" => store'[s].up /\ call'[s].op \in Ops
        BY <3>3, <3>4, <4>1 DEF Calling
      <4> QED BY <3>3, <3>4, <4>2, CallingFrame
    <3> QED BY <3>4, <3>5, <3>6 DEF RunnerInv, RunnerTypes
  <2> QED BY <2>1, <2>2, <2>3, ReconcileCases
<1> QED BY <1>1, <1>2, <1>3 DEF RunnerInv, RunnerTypes
LEMMA ReconcileFailsInv ==
  ASSUME RunnerInv, NEW s \in Stores, ReconcileFails(s)
  PROVE  RunnerInv'
<1>1. ledger' = ledger /\ store' = store /\ staleLock' = staleLock /\ faults' = faults
  BY DEF ReconcileFails, ledgerVars
<1>2. LedgerKept' BY <1>1 DEF RunnerInv, LedgerKept
<1>3. /\ call' \in [Stores -> Calls] /\ call'[s] = Idle
      /\ \A r \in Stores : r # s => call'[r] = call[r]
  BY ReturnCall DEF ReconcileFails, AfterFailure, Return, RunnerInv
<1>4. (\A r \in Stores : Calling(r))' BY <1>1, <1>3, SameApart, CallingFrame DEF Idle
<1>5. todo' \in [Stores -> SUBSET Tasks] BY DEF ReconcileFails, RunnerInv, RunnerTypes
<1> QED BY <1>2, <1>3, <1>4, <1>5 DEF RunnerInv, RunnerTypes, ReconcileFails

\* Where Run goes with the digest it read, and with which precondition.
LEMMA ReadCall ==
  ASSUME RunnerInv, NEW s \in Stores, ReadDigest(s),
         NEW pre, pre = IF call[s].live THEN tree ELSE call[s].pre,
         NEW pc, pc = NextStep(s, pre, tree)
  PROVE  /\ call' \in [Stores -> Calls]
         /\ call'[s] = [call[s] EXCEPT !.pre = pre, !.pc = pc]
         /\ \A r \in Stores : r # s => call'[r] = call[r]
         /\ pc \in {"verify", "redispatch", "dispatch", "conflict"}
         /\ pc = "redispatch" => tree = call[s].post
         /\ pc = "dispatch" => tree # call[s].post /\ tree = pre
         /\ call[s].op \in Ops
<1>1. call[s].pc = "reconcile" /\ call[s] \in Calls BY DEF ReadDigest, RunnerInv, RunnerTypes
<1>2. call[s].op \in Ops BY <1>1 DEF RunnerInv, Calling
<1>3. pre \in Digests \union {NoDigest} BY <1>1 DEF RunnerInv, RunnerTypes, Calls
<1>4. /\ pc \in {"verify", "redispatch", "dispatch", "conflict"}
      /\ pc = "redispatch" => tree = call[s].post
      /\ pc = "dispatch" => tree # call[s].post /\ tree = pre
  BY DEF NextStep
<1>5. [call[s] EXCEPT !.pre = pre, !.pc = pc] \in Calls BY <1>1, <1>3, <1>4 DEF Calls, PCs
<1>6. call' = [call EXCEPT ![s] = [call[s] EXCEPT !.pre = pre, !.pc = pc]] BY DEF ReadDigest
<1> QED BY <1>2, <1>4, <1>5, <1>6 DEF RunnerInv, RunnerTypes

LEMMA ReadDigestInv ==
  ASSUME RunnerInv, NEW s \in Stores, ReadDigest(s)
  PROVE  RunnerInv'
<1> DEFINE pre == IF call[s].live THEN tree ELSE call[s].pre
           pc == NextStep(s, pre, tree)
<1>1. ledger' = ledger /\ store' = store /\ staleLock' = staleLock /\ faults' = faults
  BY DEF ReadDigest, ledgerVars
<1>2. LedgerKept' BY <1>1 DEF RunnerInv, LedgerKept
<1>3. /\ call' \in [Stores -> Calls]
      /\ call'[s] = [call[s] EXCEPT !.pre = pre, !.pc = pc]
      /\ \A r \in Stores : r # s => call'[r] = call[r]
      /\ call[s].op \in Ops
  BY ReadCall
<1> HIDE DEF pre, pc
<1>4. store[s].up BY DEF RunnerInv, Calling, ReadDigest
<1>5. call'[s].op = call[s].op BY <1>3 DEF RunnerInv, RunnerTypes, Calls
<1>6. (\A r \in Stores : Calling(r))' BY <1>1, <1>3, <1>4, <1>5, SameApart, CallingFrame
<1>7. licences' \in [Ops -> Nat]
  <2>1. licences[call[s].op] + (IF call[s].live THEN 1 ELSE 0) \in Nat
    BY <1>3 DEF RunnerInv, RunnerTypes
  <2> QED BY <2>1 DEF ReadDigest, RunnerInv, RunnerTypes
<1>8. tree' = tree /\ todo' = todo /\ effects' = effects BY DEF ReadDigest
<1> QED BY <1>2, <1>3, <1>6, <1>7, <1>8 DEF RunnerInv, RunnerTypes

LEMMA RecordStepInv ==
  ASSUME RunnerInv, NEW s \in Stores, RecordStep(s)
  PROVE  RunnerInv'
<1> DEFINE pc == Following(call[s].pc)
<1>1. PICK e \in Intended(s), note \in Outcomes, outcome \in Outcomes :
        /\ Record(s, e, note, outcome)
        /\ IF outcome = "synced" /\ pc # "return" THEN Goto(s, pc) ELSE Return(s)
  BY DEF RecordStep
<1>2. e \in EventSet /\ call[s].pc # "idle" BY IntendedTyped
<1>3. /\ LedgerKept' /\ call' \in [Stores -> Calls]
      /\ (\A r \in Stores : Calling(r))'
  <2>1. CASE Return(s)
    <3> DEFINE q == "idle"
    <3>1. q \in PCs /\ (Goto(s, q) \/ Return(s)) BY <2>1 DEF PCs
    <3> HIDE DEF q
    <3> QED BY <1>1, <1>2, <3>1, RecordingInv
  <2>2. CASE pc # "return" /\ Goto(s, pc)
    <3>1. pc \in PCs BY <2>2 DEF Following, PCs
    <3>2. Goto(s, pc) \/ Return(s) BY <2>2
    <3> HIDE DEF pc
    <3> QED BY <1>1, <1>2, <3>1, <3>2, RecordingInv
  <2> QED BY <1>1, <2>1, <2>2
<1>4. UNCHANGED <<tree, licences, todo, effects>> BY DEF RecordStep, SameTree
<1> QED BY <1>3, <1>4 DEF RunnerInv, RunnerTypes

\* The ways an effect ends.
LEMMA EffectCases ==
  ASSUME RunnerInv, NEW s \in Stores, Effect(s), NEW o, o = call[s].op
  PROVE  /\ o \in Ops /\ call[s].pc = "effect"
         /\ \/ /\ TreeBecomes(Post[o]) /\ Goto(s, "commit")
               /\ effects' = [effects EXCEPT ![o] = @ + 1]
               /\ seen' = seen \union {o}
            \/ /\ \E d \in Digests \ {tree} : TreeBecomes(d)
               /\ Return(s)
               /\ effects' = [effects EXCEPT ![o] = @ + 1]
               /\ seen' = seen
            \/ SameTree /\ Return(s) /\ effects' = effects /\ seen' = seen
<1>1. call[s].pc = "effect" BY DEF Effect
<1>2. o \in Ops BY <1>1 DEF RunnerInv, Calling
<1> QED BY <1>1, <1>2 DEF Effect

LEMMA EffectInv ==
  ASSUME RunnerInv, NEW s \in Stores, Effect(s)
  PROVE  RunnerInv'
<1> DEFINE o == call[s].op
<1>1. ledger' = ledger /\ store' = store /\ staleLock' = staleLock /\ faults' = faults
      /\ todo' = todo
  BY DEF Effect, ledgerVars
<1>2. LedgerKept' BY <1>1 DEF RunnerInv, LedgerKept
<1>3. o \in Ops /\ call[s].pc = "effect" BY EffectCases
<1>4. /\ call' \in [Stores -> Calls]
      /\ (\A r \in Stores : Calling(r))'
  <2>1. CASE Return(s)
    <3>1. /\ call' \in [Stores -> Calls] /\ call'[s] = Idle
          /\ \A r \in Stores : r # s => call'[r] = call[r]
      BY <2>1, ReturnCall DEF Return, RunnerInv
    <3> QED BY <1>1, <3>1, SameApart, CallingFrame DEF Idle
  <2>2. CASE Goto(s, "commit")
    <3> DEFINE pc == "commit"
    <3>1. pc \in PCs /\ Goto(s, pc) BY <2>2 DEF PCs
    <3> HIDE DEF pc
    <3>2. /\ call' \in [Stores -> Calls] /\ call'[s] = [call[s] EXCEPT !.pc = pc]
          /\ \A r \in Stores : r # s => call'[r] = call[r]
      BY <3>1, GotoCall DEF RunnerInv
    <3>3. call'[s].op = call[s].op BY <3>2 DEF RunnerInv, RunnerTypes, Calls
    <3>4. store[s].up BY <1>3 DEF RunnerInv, Calling
    <3>5. (\A r \in Stores : Calling(r))' BY <1>1, <1>3, <3>2, <3>3, <3>4, SameApart, CallingFrame
    <3> QED BY <3>2, <3>5
  <2> QED BY <2>1, <2>2, EffectCases
<1>5. tree' \in Digests /\ licences' \in [Ops -> Nat]
  <2>1. Post[o] \in Digests BY <1>3, RunnerAssumption
  <2>2. CASE TreeBecomes(Post[o]) BY <2>1, <2>2, TreeTyped DEF RunnerInv
  <2>3. CASE \E d \in Digests \ {tree} : TreeBecomes(d) BY <2>3, TreeTyped DEF RunnerInv
  <2>4. CASE SameTree BY <2>4 DEF SameTree, RunnerInv, RunnerTypes
  <2> QED BY <2>2, <2>3, <2>4, EffectCases
<1>6. effects' \in [Ops -> Nat]
  <2>1. effects \in [Ops -> Nat] BY DEF RunnerInv, RunnerTypes
  <2>2. effects' = [effects EXCEPT ![o] = @ + 1] \/ effects' = effects BY EffectCases
  <2> QED BY <1>3, <2>1, <2>2
<1> QED BY <1>1, <1>2, <1>4, <1>5, <1>6 DEF RunnerInv, RunnerTypes

LEMMA RestartInv ==
  ASSUME RunnerInv, NEW s \in Stores, Restart(s)
  PROVE  RunnerInv'
<1>1. PICK note \in Outcomes : Open(s, note) BY DEF Restart
<1>2. Apart(s) /\ LedgerKept' BY <1>1, OpenApart DEF RunnerInv
<1>3. UNCHANGED <<tree, call, todo, effects, licences>> BY DEF Restart, runVars
<1>4. call[s].pc = "idle" BY <1>1 DEF Open, RunnerInv, Calling
<1>5. (\A r \in Stores : Calling(r))' BY <1>2, <1>3, <1>4, CallingFrame
<1> QED BY <1>2, <1>3, <1>5 DEF RunnerInv, RunnerTypes

\* A process that dies forgets its call.
LEMMA ForgetCall ==
  ASSUME RunnerInv, NEW s \in Stores, Forget(s), Apart(s)
  PROVE  /\ call' \in [Stores -> Calls] /\ call'[s] = Idle
         /\ \A r \in Stores : r # s => call'[r] = call[r]
         /\ todo' \in [Stores -> SUBSET Tasks]
         /\ \A r \in Stores : r # s => todo'[r] = todo[r]
         /\ (\A r \in Stores : Calling(r))'
<1>1. /\ call' \in [Stores -> Calls] /\ call'[s] = Idle
      /\ \A r \in Stores : r # s => call'[r] = call[r]
  BY ReturnCall DEF Forget, RunnerInv
<1>2. /\ todo' \in [Stores -> SUBSET Tasks]
      /\ \A r \in Stores : r # s => todo'[r] = todo[r]
  BY DEF Forget, RunnerInv, RunnerTypes
<1>3. (\A r \in Stores : Calling(r))' BY <1>1, CallingFrame DEF Idle
<1> QED BY <1>1, <1>2, <1>3

LEMMA DieInv ==
  ASSUME RunnerInv, NEW s \in Stores, Die(s)
  PROVE  RunnerInv'
<1>1. Apart(s) /\ LedgerKept' BY CrashApart DEF Die, RunnerInv
<1>2. /\ call' \in [Stores -> Calls] /\ todo' \in [Stores -> SUBSET Tasks]
      /\ (\A r \in Stores : Calling(r))'
  BY <1>1, ForgetCall DEF Die
<1>3. tree' \in Digests /\ licences' \in [Ops -> Nat] /\ effects' \in [Ops -> Nat]
  <2>1. CASE SameTree /\ UNCHANGED effects BY <2>1 DEF SameTree, RunnerInv, RunnerTypes
  <2>2. CASE /\ call[s].pc = "effect"
             /\ \E d \in Digests \ {tree} : TreeBecomes(d)
             /\ effects' = [effects EXCEPT ![call[s].op] = @ + 1]
    <3>1. tree' \in Digests /\ licences' \in [Ops -> Nat] BY <2>2, TreeTyped DEF RunnerInv
    <3>2. call[s].op \in Ops BY <2>2 DEF RunnerInv, Calling
    <3>3. effects' \in [Ops -> Nat] BY <2>2, <3>2 DEF RunnerInv, RunnerTypes
    <3> QED BY <3>1, <3>3
  <2> QED BY <2>1, <2>2 DEF Die
<1> QED BY <1>1, <1>2, <1>3 DEF RunnerInv, RunnerTypes

LEMMA DieInAppendInv ==
  ASSUME RunnerInv, NEW s \in Stores, DieInAppend(s)
  PROVE  RunnerInv'
<1>1. PICK e \in Intended(s), outcome \in Outcomes : DieRecording(s, e, outcome)
  BY DEF DieInAppend
<1>2. e \in EventSet BY IntendedTyped
<1>3. Apart(s) /\ LedgerKept' BY <1>1, <1>2, DieRecordingApart DEF RunnerInv
<1>4. /\ call' \in [Stores -> Calls] /\ todo' \in [Stores -> SUBSET Tasks]
      /\ (\A r \in Stores : Calling(r))'
  BY <1>3, ForgetCall DEF DieInAppend
<1> QED BY <1>3, <1>4 DEF RunnerInv, RunnerTypes, DieInAppend, SameTree

LEMMA ForeignInv ==
  ASSUME RunnerInv, ForeignChange
  PROVE  RunnerInv'
<1>1. PICK d \in Digests : TreeBecomes(d) BY DEF ForeignChange
<1>2. tree' \in Digests /\ licences' \in [Ops -> Nat] BY <1>1, TreeTyped DEF RunnerInv
<1>3. UNCHANGED <<ledger, store, staleLock, faults, call, todo, effects>>
  BY DEF ForeignChange, ledgerVars
<1> QED BY <1>2, <1>3 DEF RunnerInv, RunnerTypes, LedgerKept, Calling

LEMMA RunnerInit == Init => RunnerInv
<1> SUFFICES ASSUME Init PROVE RunnerInv OBVIOUS
<1>1. LedgerKept BY LedgerInitKept DEF Init
<1>2. RunnerTypes BY IdleTyped DEF Init, RunnerTypes
<1>3. \A s \in Stores : Calling(s) BY DEF Init, Idle, Calling
<1> QED BY <1>1, <1>2, <1>3 DEF RunnerInv

LEMMA RunnerStep == RunnerInv /\ [Next]_vars => RunnerInv'
<1> SUFFICES ASSUME RunnerInv, [Next]_vars PROVE RunnerInv' OBVIOUS
<1>1. CASE UNCHANGED vars
  BY <1>1 DEF vars, ledgerVars, runVars, RunnerInv, RunnerTypes, LedgerKept, Calling
<1>2. CASE ForeignChange BY <1>2, ForeignInv
<1>3. ASSUME NEW s \in Stores,
             \/ \E o \in Ops, live \in BOOLEAN : Propose(s, o, live)
             \/ \E t \in Tasks : ReconcileTask(s, t)
             \/ ReconcileFails(s) \/ ReadDigest(s) \/ RecordStep(s) \/ Effect(s)
             \/ Restart(s) \/ Die(s) \/ DieInAppend(s)
      PROVE  RunnerInv'
  BY <1>3, ProposeInv, ReconcileInv, ReconcileFailsInv, ReadDigestInv, RecordStepInv, EffectInv,
     RestartInv, DieInv, DieInAppendInv
<1> QED BY <1>1, <1>2, <1>3 DEF Next
-----------------------------------------------------------------------------
(* Commits are earned: what a line says was seen.                          *)

CommitOf(e, done) == e.type = "EXECUTION_COMMITTED" => e.op \in done

EarnedIn(lines, done) ==
  \A i \in DOMAIN lines : lines[i].sound => CommitOf(lines[i].event, done)

\* A call that is about to record its commit has seen the end of its operation.
EarnedCalls(done) ==
  \A s \in Stores : call[s].pc \in {"redispatch", "commit"} => call[s].op \in done

EarnedInv == EarnedIn(ledger.lines, seen) /\ EarnedCalls(seen)

LEMMA EarnedMore ==
  ASSUME NEW lines, NEW done, NEW more, done \subseteq more, EarnedIn(lines, done)
  PROVE  EarnedIn(lines, more)
BY DEF EarnedIn, CommitOf

\* One write adds one sound line at most, and never an earlier event.
LEMMA WroteEarned ==
  ASSUME NEW f, FileOK(f), NEW n \in Nat, NEW e \in EventSet,
         NEW outcome \in Outcomes, NEW told \in BOOLEAN,
         NEW done, EarnedIn(f.lines, done), CommitOf(e, done),
         NEW w, w = Wrote(f, n, e, outcome, told)
  PROVE  EarnedIn(w.lines, done)
<1> DEFINE text == Text(n, e, outcome, told)
<1>1. f \in Files /\ Unheard(f) /\ f.lines \in Seq(Lines) BY DEF FileOK, Files
<1>2. CASE outcome = "none"
  <2>1. w = f BY <1>2 DEF Wrote
  <2> QED BY <2>1
<1>3. CASE outcome # "none"
  <2>1. /\ f.torn => w.lines = [f.lines EXCEPT ![Len(f.lines)] = Junk]
        /\ ~f.torn => w.lines = Append(f.lines, text)
    BY <1>3 DEF Wrote, Text
  <2>2. ~Junk.sound /\ text \in Lines BY TextTyped
  <2>3. text.sound => text.event = e BY DEF Text, Junk, Line
  <2> HIDE DEF text
  <2>4. CASE f.torn
    <3>1. w.lines = [f.lines EXCEPT ![Len(f.lines)] = Junk] BY <2>1, <2>4
    <3> QED BY <1>1, <2>2, <3>1 DEF EarnedIn
  <2>5. CASE ~f.torn
    <3>1. w.lines = Append(f.lines, text) BY <2>1, <2>5
    <3>2. ASSUME NEW i \in DOMAIN w.lines, w.lines[i].sound
          PROVE  CommitOf(w.lines[i].event, done)
      <4>1. \/ i \in DOMAIN f.lines /\ w.lines[i] = f.lines[i]
            \/ w.lines[i] = text
        BY <1>1, <2>2, <3>1
      <4> QED BY <2>3, <3>2, <4>1 DEF EarnedIn
    <3> QED BY <3>2 DEF EarnedIn
  <2> QED BY <2>4, <2>5, <1>1 DEF Files
<1> QED BY <1>2, <1>3

LEMMA ReclaimEarned == \A done : CommitOf(ReclaimEvent, done)
BY DEF CommitOf, ReclaimEvent, LockReclaimed, Event

LEMMA RecordEarned ==
  ASSUME LedgerKept, NEW s \in Stores, NEW e \in EventSet,
         NEW note \in Outcomes, NEW outcome \in Outcomes, Record(s, e, note, outcome),
         NEW done, EarnedIn(ledger.lines, done), CommitOf(e, done)
  PROVE  EarnedIn(ledger'.lines, done)
<1> DEFINE n == store[s].seq + 1
           after == Wrote(ledger, n, ReclaimEvent, note, FALSE)
           m == IF note = "synced" THEN n + 1 ELSE n
           w == ledger'
<1>1. /\ n \in Nat /\ m \in Nat /\ FileOK(after)
      /\ w = Wrote(after, m, e, outcome, TRUE)
  BY RecordWrites
<1>2. /\ FileOK(ledger) /\ FALSE \in BOOLEAN /\ TRUE \in BOOLEAN
      /\ after = Wrote(ledger, n, ReclaimEvent, note, FALSE)
  BY DEF LedgerKept
<1>3. ReclaimEvent \in EventSet /\ CommitOf(ReclaimEvent, done) BY ReclaimTyped, ReclaimEarned
<1> HIDE DEF n, m, after, w
<1>4. EarnedIn(after.lines, done) BY <1>1, <1>2, <1>3, WroteEarned
<1>5. EarnedIn(w.lines, done) BY <1>1, <1>2, <1>4, WroteEarned
<1> QED BY <1>5 DEF w

LEMMA OpenEarned ==
  ASSUME LedgerKept, NEW s \in Stores, NEW note \in Outcomes, Open(s, note),
         NEW done, EarnedIn(ledger.lines, done)
  PROVE  EarnedIn(ledger'.lines, done)
<1> DEFINE n == Audit(ledger.lines).seq + 1
           w == ledger'
<1>1. ledger.lines \in Seq(Lines) /\ FileOK(ledger) /\ FALSE \in BOOLEAN
  BY DEF LedgerKept, FileOK, Files
<1>2. n \in Nat BY <1>1, ReplayedTyped
<1>3. w = Wrote(ledger, n, ReclaimEvent, note, FALSE) BY DEF Open
<1>4. ReclaimEvent \in EventSet /\ CommitOf(ReclaimEvent, done) BY ReclaimTyped, ReclaimEarned
<1> HIDE DEF n, w
<1>5. EarnedIn(w.lines, done) BY <1>1, <1>2, <1>3, <1>4, WroteEarned
<1> QED BY <1>5 DEF w

LEMMA DieRecordingEarned ==
  ASSUME LedgerKept, NEW s \in Stores, NEW e \in EventSet, NEW outcome \in Outcomes,
         DieRecording(s, e, outcome), NEW done, EarnedIn(ledger.lines, done), CommitOf(e, done)
  PROVE  EarnedIn(ledger'.lines, done)
<1> DEFINE n == store[s].seq + 1
           w == ledger'
<1>1. FileOK(ledger) /\ FALSE \in BOOLEAN BY DEF LedgerKept
<1>2. n \in Nat BY DEF LedgerKept, StoreStates
<1>3. w = Wrote(ledger, n, e, outcome, FALSE) BY DEF DieRecording
<1> HIDE DEF n, w
<1>4. EarnedIn(w.lines, done) BY <1>1, <1>2, <1>3, WroteEarned
<1> QED BY <1>4 DEF w

\* The calls of the other stores, and what a step may add to what was seen.
LEMMA EarnedFrame ==
  ASSUME EarnedInv, NEW s \in Stores, \A r \in Stores : r # s => call'[r] = call[r],
         seen \subseteq seen',
         call'[s].pc \in {"redispatch", "commit"} => call'[s].op \in seen'
  PROVE  EarnedCalls(seen)'
<1>1. ASSUME NEW r \in Stores, call'[r].pc \in {"redispatch", "commit"}
      PROVE  call'[r].op \in seen'
  BY <1>1 DEF EarnedInv, EarnedCalls
<1> QED BY <1>1 DEF EarnedCalls

LEMMA ReconcileEarned ==
  ASSUME RunnerInv, EarnedInv, NEW s \in Stores, NEW t \in Tasks, ReconcileTask(s, t)
  PROVE  EarnedInv'
<1> DEFINE op == store[s].tasks[t].cursor.op
<1>1. call[s].pc = "reconcile" BY DEF ReconcileTask
<1>2. ExecutionCommitted(t, op, NoDigest) \in EventSet /\ TargetConflict(t, op) \in EventSet
  BY ReconciledTyped
<1>3. ASSUME NEW e \in EventSet, ReconciledAs(s, t, e), seen \subseteq seen', CommitOf(e, seen')
      PROVE  EarnedInv'
  <2>1. PICK note \in Outcomes, outcome \in Outcomes :
          Record(s, e, note, outcome) /\ (Goto(s, "reconcile") \/ Return(s))
    BY <1>3 DEF ReconciledAs
  <2> DEFINE done == seen'
  <2>2. EarnedIn(ledger.lines, done) BY <1>3, EarnedMore DEF EarnedInv
  <2>3. CommitOf(e, done) BY <1>3
  <2> HIDE DEF done
  <2>4. EarnedIn(ledger'.lines, done) BY <2>1, <2>2, <2>3, RecordEarned DEF RunnerInv
  <2> DEFINE pc == "reconcile"
  <2>5. pc \in PCs BY DEF PCs
  <2>6. CASE Goto(s, pc)
    <3> HIDE DEF pc
    <3>1. call'[s] = [call[s] EXCEPT !.pc = pc] /\ \A r \in Stores : r # s => call'[r] = call[r]
      BY <2>5, <2>6, GotoCall DEF RunnerInv
    <3>2. call'[s].pc = pc BY <3>1 DEF RunnerInv, RunnerTypes, Calls
    <3>3. EarnedCalls(seen)' BY <1>3, <3>1, <3>2, EarnedFrame DEF pc
    <3> QED BY <2>4, <3>3 DEF EarnedInv, done
  <2>7. CASE Return(s)
    <3>1. call'[s] = Idle /\ \A r \in Stores : r # s => call'[r] = call[r]
      BY <2>7, ReturnCall DEF RunnerInv, Return
    <3>2. EarnedCalls(seen)' BY <1>3, <3>1, EarnedFrame DEF Idle
    <3> QED BY <2>4, <3>2 DEF EarnedInv, done
  <2> QED BY <2>1, <2>6, <2>7
<1>4. CASE ReconciledAs(s, t, ExecutionCommitted(t, op, NoDigest)) /\ seen' = seen \union {op}
  <2> DEFINE e == ExecutionCommitted(t, op, NoDigest)
  <2>1. e.op = op BY DEF ExecutionCommitted, Event
  <2> HIDE DEF e
  <2>2. CommitOf(e, seen') /\ seen \subseteq seen' BY <1>4, <2>1 DEF CommitOf
  <2>3. e \in EventSet /\ ReconciledAs(s, t, e) BY <1>2, <1>4 DEF e
  <2> QED BY <1>3, <2>2, <2>3
<1>5. CASE ReconciledAs(s, t, TargetConflict(t, op)) /\ UNCHANGED seen
  <2> DEFINE e == TargetConflict(t, op)
  <2>1. e.type = "TARGET_CONFLICT" BY DEF TargetConflict, Event
  <2> HIDE DEF e
  <2>2. CommitOf(e, seen') /\ seen \subseteq seen' BY <1>5, <2>1 DEF CommitOf
  <2>3. e \in EventSet /\ ReconciledAs(s, t, e) BY <1>2, <1>5 DEF e
  <2> QED BY <1>3, <2>2, <2>3
<1>6. CASE Retried(s, t)
  BY <1>6 DEF Retried, EarnedInv, EarnedCalls
<1> QED BY <1>4, <1>5, <1>6, ReconcileCases

LEMMA ReadDigestEarned ==
  ASSUME RunnerInv, EarnedInv, NEW s \in Stores, ReadDigest(s)
  PROVE  EarnedInv'
<1> DEFINE pre == IF call[s].live THEN tree ELSE call[s].pre
           pc == NextStep(s, pre, tree)
<1>1. ledger' = ledger /\ seen' = seen \union (IF tree = call[s].post THEN {call[s].op} ELSE {})
  BY DEF ReadDigest, ledgerVars
<1>2. /\ call'[s] = [call[s] EXCEPT !.pre = pre, !.pc = pc]
      /\ \A r \in Stores : r # s => call'[r] = call[r]
      /\ pc \in {"verify", "redispatch", "dispatch", "conflict"}
      /\ pc = "redispatch" => tree = call[s].post
  BY ReadCall
<1> HIDE DEF pre, pc
<1>3. call'[s].op = call[s].op /\ call'[s].pc = pc BY <1>2 DEF RunnerInv, RunnerTypes, Calls
<1>4. seen \subseteq seen' BY <1>1
<1>5. call'[s].pc \in {"redispatch", "commit"} => call'[s].op \in seen' BY <1>1, <1>2, <1>3
<1>6. EarnedCalls(seen)' BY <1>2, <1>4, <1>5, EarnedFrame
<1>7. EarnedIn(ledger'.lines, seen') BY <1>1, <1>4, EarnedMore DEF EarnedInv
<1> QED BY <1>6, <1>7 DEF EarnedInv

LEMMA RecordStepEarned ==
  ASSUME RunnerInv, EarnedInv, NEW s \in Stores, RecordStep(s)
  PROVE  EarnedInv'
<1> DEFINE pc == Following(call[s].pc)
<1>1. PICK e \in Intended(s), note \in Outcomes, outcome \in Outcomes :
        /\ Record(s, e, note, outcome)
        /\ IF outcome = "synced" /\ pc # "return" THEN Goto(s, pc) ELSE Return(s)
  BY DEF RecordStep
<1>2. /\ e \in EventSet
      /\ call[s].pc \in {"dispatch", "redispatch", "commit", "conflict", "verify"}
      /\ e.type = "EXECUTION_COMMITTED" => call[s].pc = "commit" /\ e.op = call[s].op
  BY IntendedTyped
<1>3. seen' = seen BY DEF RecordStep
<1>4. CommitOf(e, seen) BY <1>2 DEF CommitOf, EarnedInv, EarnedCalls
<1>5. EarnedIn(ledger.lines, seen) BY DEF EarnedInv
<1>6. EarnedIn(ledger'.lines, seen) BY <1>1, <1>2, <1>4, <1>5, RecordEarned DEF RunnerInv
<1>7. EarnedCalls(seen)'
  <2>1. CASE Return(s)
    <3>1. call'[s] = Idle /\ \A r \in Stores : r # s => call'[r] = call[r]
      BY <2>1, ReturnCall DEF RunnerInv, Return
    <3> QED BY <1>3, <3>1, EarnedFrame DEF Idle
  <2>2. CASE pc # "return" /\ Goto(s, pc)
    <3>1. pc \in PCs /\ (pc \in {"redispatch", "commit"} => call[s].pc = "redispatch")
      BY <2>2 DEF Following, PCs
    <3> HIDE DEF pc
    <3>2. call'[s] = [call[s] EXCEPT !.pc = pc] /\ \A r \in Stores : r # s => call'[r] = call[r]
      BY <2>2, <3>1, GotoCall DEF RunnerInv
    <3>3. call'[s].pc = pc /\ call'[s].op = call[s].op
      BY <3>2 DEF RunnerInv, RunnerTypes, Calls
    <3>4. call'[s].pc \in {"redispatch", "commit"} => call'[s].op \in seen'
      BY <1>3, <3>1, <3>3 DEF EarnedInv, EarnedCalls
    <3> QED BY <1>3, <3>2, <3>4, EarnedFrame
  <2> QED BY <1>1, <2>1, <2>2
<1> QED BY <1>3, <1>6, <1>7 DEF EarnedInv

LEMMA EffectEarned ==
  ASSUME RunnerInv, EarnedInv, NEW s \in Stores, Effect(s)
  PROVE  EarnedInv'
<1> DEFINE o == call[s].op
<1>1. ledger' = ledger BY DEF Effect, ledgerVars
<1>2. seen \subseteq seen' /\ ((Goto(s, "commit") /\ o \in seen') \/ Return(s)) BY EffectCases
<1>3. EarnedIn(ledger'.lines, seen') BY <1>1, <1>2, EarnedMore DEF EarnedInv
<1>4. CASE Return(s)
  <2>1. call'[s] = Idle /\ \A r \in Stores : r # s => call'[r] = call[r]
    BY <1>4, ReturnCall DEF RunnerInv, Return
  <2>2. EarnedCalls(seen)' BY <1>2, <2>1, EarnedFrame DEF Idle
  <2> QED BY <1>3, <2>2 DEF EarnedInv
<1>5. CASE Goto(s, "commit") /\ o \in seen'
  <2> DEFINE pc == "commit"
  <2>1. pc \in PCs /\ Goto(s, pc) BY <1>5 DEF PCs
  <2> HIDE DEF pc
  <2>2. call'[s] = [call[s] EXCEPT !.pc = pc] /\ \A r \in Stores : r # s => call'[r] = call[r]
    BY <2>1, GotoCall DEF RunnerInv
  <2>3. call'[s].op = o BY <2>2 DEF RunnerInv, RunnerTypes, Calls
  <2>4. EarnedCalls(seen)' BY <1>2, <1>5, <2>2, <2>3, EarnedFrame
  <2> QED BY <1>3, <2>4 DEF EarnedInv
<1> QED BY <1>2, <1>4, <1>5

LEMMA ForgetEarned ==
  ASSUME RunnerInv, EarnedInv, NEW s \in Stores, Forget(s), seen' = seen
  PROVE  EarnedCalls(seen)'
<1>1. call'[s] = Idle /\ \A r \in Stores : r # s => call'[r] = call[r]
  BY ReturnCall DEF Forget, RunnerInv
<1> QED BY <1>1, EarnedFrame DEF Idle

LEMMA RunnerEarned ==
  ASSUME RunnerInv, EarnedInv, [Next]_vars
  PROVE  EarnedInv'
<1>1. CASE UNCHANGED vars BY <1>1 DEF vars, ledgerVars, runVars, EarnedInv, EarnedCalls
<1>2. CASE ForeignChange BY <1>2 DEF ForeignChange, ledgerVars, EarnedInv, EarnedCalls
<1>3. ASSUME NEW s \in Stores, NEW o \in Ops, NEW live \in BOOLEAN, Propose(s, o, live)
      PROVE  EarnedInv'
  <2> DEFINE new == [pc |-> "reconcile", op |-> o, live |-> live, pre |-> Pre[o],
                     post |-> IF live THEN NoDigest ELSE Post[o]]
  <2>1. ledger' = ledger /\ seen' = seen /\ call' = [call EXCEPT ![s] = new]
    BY <1>3 DEF Propose, ledgerVars
  <2>2. new.pc = "reconcile" OBVIOUS
  <2> HIDE DEF new
  <2>3. call'[s] = new /\ \A r \in Stores : r # s => call'[r] = call[r]
    BY <2>1 DEF RunnerInv, RunnerTypes
  <2>4. EarnedCalls(seen)' BY <2>1, <2>2, <2>3, EarnedFrame
  <2> QED BY <2>1, <2>4 DEF EarnedInv
<1>4. ASSUME NEW s \in Stores, ReconcileFails(s) PROVE EarnedInv'
  <2>1. ledger' = ledger /\ seen' = seen BY <1>4 DEF ReconcileFails, ledgerVars
  <2>2. call'[s] = Idle /\ \A r \in Stores : r # s => call'[r] = call[r]
    BY <1>4, ReturnCall DEF ReconcileFails, AfterFailure, Return, RunnerInv
  <2>3. EarnedCalls(seen)' BY <2>1, <2>2, EarnedFrame DEF Idle
  <2> QED BY <2>1, <2>3 DEF EarnedInv
<1>5. ASSUME NEW s \in Stores, Restart(s) PROVE EarnedInv'
  <2>1. PICK note \in Outcomes : Open(s, note) BY <1>5 DEF Restart
  <2>2. EarnedIn(ledger'.lines, seen) BY <2>1, OpenEarned DEF EarnedInv, RunnerInv
  <2> QED BY <1>5, <2>2 DEF Restart, runVars, EarnedInv, EarnedCalls
<1>6. ASSUME NEW s \in Stores, Die(s) PROVE EarnedInv'
  <2>1. ledger' = ledger /\ seen' = seen /\ Forget(s) BY <1>6 DEF Die, Crash
  <2> QED BY <2>1, ForgetEarned DEF EarnedInv
<1>7. ASSUME NEW s \in Stores, DieInAppend(s) PROVE EarnedInv'
  <2>1. PICK e \in Intended(s), outcome \in Outcomes : DieRecording(s, e, outcome)
    BY <1>7 DEF DieInAppend
  <2>2. seen' = seen /\ Forget(s) BY <1>7 DEF DieInAppend
  <2>3. /\ e \in EventSet
        /\ e.type = "EXECUTION_COMMITTED" => call[s].pc = "commit" /\ e.op = call[s].op
    BY IntendedTyped
  <2>4. CommitOf(e, seen) BY <2>3 DEF CommitOf, EarnedInv, EarnedCalls
  <2>5. EarnedIn(ledger'.lines, seen)
    BY <2>1, <2>3, <2>4, DieRecordingEarned DEF EarnedInv, RunnerInv
  <2> QED BY <2>2, <2>5, ForgetEarned DEF EarnedInv
<1>8. ASSUME NEW s \in Stores,
             (\E t \in Tasks : ReconcileTask(s, t)) \/ ReadDigest(s) \/ RecordStep(s) \/ Effect(s)
      PROVE  EarnedInv'
  BY <1>8, ReconcileEarned, ReadDigestEarned, RecordStepEarned, EffectEarned
<1> QED BY <1>1, <1>2, <1>3, <1>4, <1>5, <1>6, <1>7, <1>8 DEF Next

\* A commit marker that a replay reads back belongs to an operation that ran
\* to its end or whose end was found in the tree: CommitsAreEarned.
THEOREM CommitsEarned == Spec => []CommitsAreEarned
<1> DEFINE Both == RunnerInv /\ EarnedInv
<1>1. Init => Both
  <2>1. Init => EarnedInv BY DEF Init, LedgerInit, EarnedInv, EarnedIn, EarnedCalls, Idle
  <2> QED BY <2>1, RunnerInit
<1>2. Both /\ [Next]_vars => Both' BY RunnerStep, RunnerEarned
<1>3. Both => CommitsAreEarned BY DEF EarnedInv, EarnedIn, CommitOf, CommitsAreEarned
<1> HIDE DEF Both
<1> QED BY <1>1, <1>2, <1>3, PTL DEF Spec
-----------------------------------------------------------------------------
(* Effects wait: which tasks have an operation in flight.                  *)

InFlight(tasks) == {t \in Tasks : tasks[t].cursor.status = "DISPATCHED"}

\* Until a call has read the digest, what is in flight is on its list; after
\* that, nothing is but its own operation.
Waiting(s) ==
  /\ call[s].pc = "reconcile" => InFlight(store[s].tasks) \subseteq todo[s]
  /\ call[s].pc = "dispatch"  => InFlight(store[s].tasks) = {}
  /\ call[s].pc = "effect"    => InFlight(store[s].tasks) \subseteq {TaskOf[call[s].op]}

WaitingInv == \A s \in Stores : Waiting(s)

\* An event changes the state of its own task only, and a commit or a conflict
\* leaves nothing in flight there.
LEMMA AppliedElsewhere ==
  ASSUME NEW v \in Views, NEW e \in EventSet, NEW t \in Tasks, t # e.task
  PROVE  Applied(v, e)[t] = v[t]
BY DEF Applied, Views

LEMMA CommitLands ==
  ASSUME NEW v \in Views, NEW t \in Tasks, NEW e \in EventSet,
         e.task = t, e.type = "EXECUTION_COMMITTED", e.op = v[t].cursor.op
  PROVE  Applied(v, e)[t].cursor.status # "DISPATCHED"
<1>1. v[t] \in TaskStates /\ Applied(v, e)[t] = Folded(v[t], e) BY DEF Views, Applied
<1>2. Folded(v[t], e) = Committed(Ensured(v[t]), e) BY DEF Folded
<1> DEFINE s == Ensured(v[t])
<1>3. s \in TaskStates /\ s.cursor = v[t].cursor BY <1>1 DEF Ensured, TaskStates
<1> HIDE DEF s
<1>4. CASE HasCursor(s)
  <2> DEFINE post == IF e.post = NoDigest THEN s.cursor.post ELSE e.post
  <2>1. Committed(s, e) = [s EXCEPT !.cursor.status = "COMMITTED", !.cursor.post = post]
    BY <1>3, <1>4 DEF Committed
  <2> HIDE DEF post
  <2>2. Committed(s, e).cursor.status = "COMMITTED" BY <1>3, <2>1 DEF TaskStates, Cursors
  <2> QED BY <1>1, <1>2, <2>2 DEF s
<1>5. CASE ~HasCursor(s)
  <2>1. Committed(s, e) = s /\ s.cursor.status = "NONE" BY <1>5 DEF Committed, HasCursor
  <2> QED BY <1>1, <1>2, <2>1 DEF s
<1> QED BY <1>4, <1>5

LEMMA ConflictLands ==
  ASSUME NEW v \in Views, NEW t \in Tasks, NEW e \in EventSet,
         e.task = t, e.type = "TARGET_CONFLICT"
  PROVE  Applied(v, e)[t].cursor.status # "DISPATCHED"
<1>1. v[t] \in TaskStates /\ Applied(v, e)[t] = Folded(v[t], e) BY DEF Views, Applied
<1> DEFINE s == Ensured(v[t])
           k == IF HasCursor(s) THEN [s.cursor EXCEPT !.status = "CONFLICT"] ELSE NoCursor
<1>2. Folded(v[t], e) = [status |-> "RE_PLAN", cursor |-> k] BY DEF Folded
<1>3. s \in TaskStates BY <1>1 DEF Ensured, TaskStates
<1> HIDE DEF s
<1>4. k.status # "DISPATCHED" BY <1>3 DEF TaskStates, Cursors, NoCursor
<1> HIDE DEF k
<1> QED BY <1>1, <1>2, <1>4

\* What is in flight after an event of task t: t at most is new.
LEMMA InFlightAfter ==
  ASSUME NEW v \in Views, NEW e \in EventSet, NEW outcome
  PROVE  InFlight(View(v, e, outcome)) \subseteq InFlight(v) \union {e.task}
BY AppliedElsewhere DEF View, InFlight

\* The other stores, and a call that is at none of the three places.
LEMMA WaitingFrame ==
  ASSUME WaitingInv, NEW s \in Stores, Apart(s),
         \A r \in Stores : r # s => call'[r] = call[r] /\ todo'[r] = todo[r],
         /\ call'[s].pc = "reconcile" => InFlight(store'[s].tasks) \subseteq todo'[s]
         /\ call'[s].pc = "dispatch"  => InFlight(store'[s].tasks) = {}
         /\ call'[s].pc = "effect"    => InFlight(store'[s].tasks) \subseteq {TaskOf[call'[s].op]}
  PROVE  WaitingInv'
<1>1. ASSUME NEW r \in Stores, r # s PROVE Waiting(r)'
  <2>1. call'[r] = call[r] /\ todo'[r] = todo[r] /\ store'[r].tasks = store[r].tasks
    BY <1>1 DEF Apart
  <2> QED BY <2>1 DEF WaitingInv, Waiting
<1>2. Waiting(s)' BY DEF Waiting
<1> QED BY <1>1, <1>2 DEF WaitingInv

\* A call that ends waits for nothing.
LEMMA WaitingIdle ==
  ASSUME WaitingInv, NEW s \in Stores, Apart(s), call'[s] = Idle,
         \A r \in Stores : r # s => call'[r] = call[r] /\ todo'[r] = todo[r]
  PROVE  WaitingInv'
<1>1. call'[s].pc = "idle" BY DEF Idle
<1> QED BY <1>1, WaitingFrame

LEMMA ProposeWaiting ==
  ASSUME RunnerInv, WaitingInv, NEW s \in Stores, NEW o \in Ops, NEW live \in BOOLEAN,
         Propose(s, o, live)
  PROVE  WaitingInv'
<1> DEFINE new == [pc |-> "reconcile", op |-> o, live |-> live, pre |-> Pre[o],
                   post |-> IF live THEN NoDigest ELSE Post[o]]
           pending == {t \in Tasks : Pending(store[s].tasks[t])}
<1>1. store' = store /\ call' = [call EXCEPT ![s] = new] /\ todo' = [todo EXCEPT ![s] = pending]
  BY DEF Propose, ledgerVars
<1>2. InFlight(store[s].tasks) \subseteq pending BY DEF InFlight, Pending
<1>3. new.pc = "reconcile" OBVIOUS
<1> HIDE DEF new, pending
<1>4. /\ call'[s] = new /\ todo'[s] = pending
      /\ \A r \in Stores : r # s => call'[r] = call[r] /\ todo'[r] = todo[r]
  BY <1>1 DEF RunnerInv, RunnerTypes
<1>5. Apart(s) BY <1>1, SameApart
<1> QED BY <1>1, <1>2, <1>3, <1>4, <1>5, WaitingFrame

LEMMA ReconcileWaiting ==
  ASSUME RunnerInv, WaitingInv, NEW s \in Stores, NEW t \in Tasks, ReconcileTask(s, t)
  PROVE  WaitingInv'
<1> DEFINE op == store[s].tasks[t].cursor.op
           v == store[s].tasks
<1>1. call[s].pc = "reconcile" /\ todo' = [todo EXCEPT ![s] = @ \ {t}] BY DEF ReconcileTask
<1>2. /\ todo'[s] = todo[s] \ {t}
      /\ \A r \in Stores : r # s => todo'[r] = todo[r]
  BY <1>1, TodoLess DEF RunnerInv
<1>3. v \in Views /\ InFlight(v) \subseteq todo[s]
  BY <1>1 DEF RunnerInv, LedgerKept, StoreStates, WaitingInv, Waiting
<1>4. ExecutionCommitted(t, op, NoDigest) \in EventSet /\ TargetConflict(t, op) \in EventSet
  BY ReconciledTyped
<1>5. ASSUME NEW e \in EventSet, e.task = t, ReconciledAs(s, t, e),
             Applied(v, e)[t].cursor.status # "DISPATCHED"
      PROVE  WaitingInv'
  <2>1. PICK note \in Outcomes, outcome \in Outcomes :
          /\ Record(s, e, note, outcome)
          /\ \/ outcome = "synced" /\ Goto(s, "reconcile")
             \/ outcome # "synced" /\ Return(s)
    BY <1>5 DEF ReconciledAs
  <2>2. Apart(s) /\ store'[s].tasks = View(v, e, outcome) BY <2>1, RecordApart DEF RunnerInv
  <2>3. CASE Return(s)
    <3>1. call'[s] = Idle /\ \A r \in Stores : r # s => call'[r] = call[r]
      BY <2>3, ReturnCall DEF RunnerInv, Return
    <3> QED BY <1>2, <2>2, <3>1, WaitingIdle
  <2>4. CASE outcome = "synced" /\ Goto(s, "reconcile")
    <3> DEFINE pc == "reconcile"
    <3>1. pc \in PCs /\ Goto(s, pc) BY <2>4 DEF PCs
    <3> HIDE DEF pc
    <3>2. call'[s] = [call[s] EXCEPT !.pc = pc] /\ \A r \in Stores : r # s => call'[r] = call[r]
      BY <3>1, GotoCall DEF RunnerInv
    <3>3. call'[s].pc = "reconcile" BY <3>2 DEF RunnerInv, RunnerTypes, Calls, pc
    <3>4. store'[s].tasks = Applied(v, e) BY <2>2, <2>4 DEF View
    <3> HIDE DEF v
    <3>5. InFlight(store'[s].tasks) \subseteq todo'[s]
      <4>1. ASSUME NEW r \in InFlight(store'[s].tasks) PROVE r \in todo[s] \ {t}
        <5>1. r \in Tasks /\ Applied(v, e)[r].cursor.status = "DISPATCHED" BY <3>4 DEF InFlight
        <5>2. r # t BY <1>5, <5>1
        <5>3. r \in InFlight(v) BY <1>3, <1>5, <5>1, <5>2, AppliedElsewhere DEF InFlight
        <5> QED BY <1>3, <5>2, <5>3
      <4> QED BY <1>2, <4>1
    <3> QED BY <1>2, <2>2, <3>2, <3>3, <3>5, WaitingFrame
  <2> QED BY <2>1, <2>3, <2>4
<1>6. CASE ReconciledAs(s, t, ExecutionCommitted(t, op, NoDigest))
  <2> DEFINE e == ExecutionCommitted(t, op, NoDigest)
  <2>1. e.op = op /\ e.task = t /\ e.type = "EXECUTION_COMMITTED"
    BY DEF ExecutionCommitted, Event
  <2>2. e \in EventSet /\ ReconciledAs(s, t, e) /\ op = v[t].cursor.op BY <1>4, <1>6
  <2> HIDE DEF e, op, v
  <2>3. Applied(v, e)[t].cursor.status # "DISPATCHED" BY <1>3, <2>1, <2>2, CommitLands
  <2> QED BY <1>5, <2>1, <2>2, <2>3
<1>7. CASE ReconciledAs(s, t, TargetConflict(t, op))
  <2> DEFINE e == TargetConflict(t, op)
  <2>1. e.task = t /\ e.type = "TARGET_CONFLICT" BY DEF TargetConflict, Event
  <2>2. e \in EventSet /\ ReconciledAs(s, t, e) BY <1>4, <1>7
  <2> HIDE DEF e, op, v
  <2>3. Applied(v, e)[t].cursor.status # "DISPATCHED" BY <1>3, <2>1, <2>2, ConflictLands
  <2> QED BY <1>5, <2>1, <2>2, <2>3
<1>8. CASE Retried(s, t)
  <2> DEFINE b == store[s].tasks[t].cursor.status = "PENDING"
  <2>1. store' = [store EXCEPT ![s].tasks[t].cursor.status = "PENDING", ![s].exact = @ /\ b]
    BY <1>8 DEF Retried
  <2>2. b \in BOOLEAN OBVIOUS
  <2> HIDE DEF b
  <2>3. /\ Apart(s) /\ store'[s].tasks[t].cursor.status = "PENDING"
        /\ \A r \in Tasks : r # t => store'[s].tasks[r] = v[r]
    BY <2>1, <2>2, RetryStore DEF RunnerInv
  <2>4. call' = call BY <1>8 DEF Retried
  <2> HIDE DEF v
  <2>5. InFlight(store'[s].tasks) \subseteq todo'[s]
    <3>1. ASSUME NEW r \in InFlight(store'[s].tasks) PROVE r \in todo[s] \ {t}
      <4>1. r \in Tasks /\ store'[s].tasks[r].cursor.status = "DISPATCHED" BY DEF InFlight
      <4>2. r # t BY <2>3, <4>1
      <4>3. r \in InFlight(v) BY <2>3, <4>1, <4>2 DEF InFlight
      <4> QED BY <1>3, <4>2, <4>3
    <3> QED BY <1>2, <3>1
  <2> QED BY <1>1, <1>2, <2>3, <2>4, <2>5, WaitingFrame
<1> QED BY <1>6, <1>7, <1>8, ReconcileCases

LEMMA ReadDigestWaiting ==
  ASSUME RunnerInv, WaitingInv, NEW s \in Stores, ReadDigest(s)
  PROVE  WaitingInv'
<1> DEFINE pre == IF call[s].live THEN tree ELSE call[s].pre
           pc == NextStep(s, pre, tree)
<1>1. store' = store /\ todo' = todo /\ call[s].pc = "reconcile" /\ todo[s] = {}
  BY DEF ReadDigest, ledgerVars
<1>2. /\ call'[s] = [call[s] EXCEPT !.pre = pre, !.pc = pc]
      /\ \A r \in Stores : r # s => call'[r] = call[r]
      /\ pc \in {"verify", "redispatch", "dispatch", "conflict"}
  BY ReadCall
<1> HIDE DEF pre, pc
<1>3. call'[s].pc = pc BY <1>2 DEF RunnerInv, RunnerTypes, Calls
<1>4. InFlight(store'[s].tasks) = {} BY <1>1 DEF WaitingInv, Waiting
<1>5. Apart(s) BY <1>1, SameApart
<1> QED BY <1>1, <1>2, <1>3, <1>4, <1>5, WaitingFrame

LEMMA RecordStepWaiting ==
  ASSUME RunnerInv, WaitingInv, NEW s \in Stores, RecordStep(s)
  PROVE  WaitingInv'
<1> DEFINE pc == Following(call[s].pc)
           v == store[s].tasks
<1>1. PICK e \in Intended(s), note \in Outcomes, outcome \in Outcomes :
        /\ Record(s, e, note, outcome)
        /\ IF outcome = "synced" /\ pc # "return" THEN Goto(s, pc) ELSE Return(s)
  BY DEF RecordStep
<1>2. e \in EventSet /\ e.task = TaskOf[call[s].op] BY IntendedTyped
<1>3. todo' = todo BY DEF RecordStep
<1>4. Apart(s) /\ store'[s].tasks = View(v, e, outcome)
  BY <1>1, <1>2, RecordApart DEF RunnerInv
<1>5. CASE Return(s)
  <2>1. call'[s] = Idle /\ \A r \in Stores : r # s => call'[r] = call[r]
    BY <1>5, ReturnCall DEF RunnerInv, Return
  <2> QED BY <1>3, <1>4, <2>1, WaitingIdle
<1>6. CASE pc # "return" /\ Goto(s, pc)
  <2>1. pc \in PCs /\ pc \in {"effect", "commit", "verify"}
        /\ (pc = "effect" => call[s].pc = "dispatch")
    BY <1>6 DEF Following, PCs
  <2> HIDE DEF pc
  <2>2. call'[s] = [call[s] EXCEPT !.pc = pc] /\ \A r \in Stores : r # s => call'[r] = call[r]
    BY <1>6, <2>1, GotoCall DEF RunnerInv
  <2>3. call'[s].pc = pc /\ call'[s].op = call[s].op BY <2>2 DEF RunnerInv, RunnerTypes, Calls
  <2>4. v \in Views BY DEF RunnerInv, LedgerKept, StoreStates
  <2>5. InFlight(store'[s].tasks) \subseteq InFlight(v) \union {e.task}
    BY <1>2, <1>4, <2>4, InFlightAfter
  <2>6. pc = "effect" => InFlight(v) = {} BY <2>1 DEF WaitingInv, Waiting
  <2> HIDE DEF v
  <2>7. call'[s].pc = "effect" => InFlight(store'[s].tasks) \subseteq {TaskOf[call'[s].op]}
    BY <1>2, <2>3, <2>5, <2>6
  <2> QED BY <1>3, <1>4, <2>1, <2>2, <2>3, <2>7, WaitingFrame
<1> QED BY <1>1, <1>5, <1>6

LEMMA EffectWaiting ==
  ASSUME RunnerInv, WaitingInv, NEW s \in Stores, Effect(s)
  PROVE  WaitingInv'
<1>1. store' = store /\ todo' = todo BY DEF Effect, ledgerVars
<1>2. Apart(s) BY <1>1, SameApart
<1>3. CASE Return(s)
  <2>1. call'[s] = Idle /\ \A r \in Stores : r # s => call'[r] = call[r]
    BY <1>3, ReturnCall DEF RunnerInv, Return
  <2> QED BY <1>1, <1>2, <2>1, WaitingIdle
<1>4. CASE Goto(s, "commit")
  <2> DEFINE pc == "commit"
  <2>1. pc \in PCs /\ Goto(s, pc) BY <1>4 DEF PCs
  <2> HIDE DEF pc
  <2>2. call'[s] = [call[s] EXCEPT !.pc = pc] /\ \A r \in Stores : r # s => call'[r] = call[r]
    BY <2>1, GotoCall DEF RunnerInv
  <2>3. call'[s].pc = "commit" BY <2>2 DEF RunnerInv, RunnerTypes, Calls, pc
  <2> QED BY <1>1, <1>2, <2>2, <2>3, WaitingFrame
<1> QED BY <1>3, <1>4, EffectCases

LEMMA RunnerWaiting ==
  ASSUME RunnerInv, WaitingInv, [Next]_vars
  PROVE  WaitingInv'
<1>1. CASE UNCHANGED vars BY <1>1 DEF vars, ledgerVars, runVars, WaitingInv, Waiting
<1>2. CASE ForeignChange BY <1>2 DEF ForeignChange, ledgerVars, WaitingInv, Waiting
<1>3. ASSUME NEW s \in Stores, ReconcileFails(s) PROVE WaitingInv'
  <2>1. store' = store /\ todo' = [todo EXCEPT ![s] = {}] BY <1>3 DEF ReconcileFails, ledgerVars
  <2>2. call'[s] = Idle /\ \A r \in Stores : r # s => call'[r] = call[r]
    BY <1>3, ReturnCall DEF ReconcileFails, AfterFailure, Return, RunnerInv
  <2>3. \A r \in Stores : r # s => todo'[r] = todo[r] BY <2>1 DEF RunnerInv, RunnerTypes
  <2>4. Apart(s) BY <2>1, SameApart
  <2> QED BY <2>2, <2>3, <2>4, WaitingIdle
<1>4. ASSUME NEW s \in Stores, Restart(s) PROVE WaitingInv'
  <2>1. PICK note \in Outcomes : Open(s, note) BY <1>4 DEF Restart
  <2>2. Apart(s) BY <2>1, OpenApart DEF RunnerInv
  <2>3. call[s].pc = "idle" BY <2>1 DEF Open, RunnerInv, Calling
  <2>4. call' = call /\ todo' = todo BY <1>4 DEF Restart, runVars
  <2> QED BY <2>2, <2>3, <2>4, WaitingFrame
<1>5. ASSUME NEW s \in Stores, Apart(s), Forget(s) PROVE WaitingInv'
  <2>1. /\ call'[s] = Idle
        /\ \A r \in Stores : r # s => call'[r] = call[r]
        /\ \A r \in Stores : r # s => todo'[r] = todo[r]
    BY <1>5, ForgetCall
  <2> QED BY <1>5, <2>1, WaitingIdle
<1>6. ASSUME NEW s \in Stores, Die(s) PROVE WaitingInv'
  <2>1. Apart(s) BY <1>6, CrashApart DEF Die, RunnerInv
  <2> QED BY <1>5, <1>6, <2>1 DEF Die
<1>7. ASSUME NEW s \in Stores, DieInAppend(s) PROVE WaitingInv'
  <2>1. PICK e \in Intended(s), outcome \in Outcomes : DieRecording(s, e, outcome)
    BY <1>7 DEF DieInAppend
  <2>2. e \in EventSet BY IntendedTyped
  <2>3. Apart(s) BY <2>1, <2>2, DieRecordingApart DEF RunnerInv
  <2> QED BY <1>5, <1>7, <2>3 DEF DieInAppend
<1>8. ASSUME NEW s \in Stores,
             \/ \E o \in Ops, live \in BOOLEAN : Propose(s, o, live)
             \/ \E t \in Tasks : ReconcileTask(s, t)
             \/ ReadDigest(s) \/ RecordStep(s) \/ Effect(s)
      PROVE  WaitingInv'
  BY <1>8, ProposeWaiting, ReconcileWaiting, ReadDigestWaiting, RecordStepWaiting, EffectWaiting
<1> QED BY <1>1, <1>2, <1>3, <1>4, <1>6, <1>7, <1>8 DEF Next

\* No effect starts while an operation of another task that was interrupted has
\* not been reconciled with the tree: EffectsWaitForReconciliation.
THEOREM EffectsWait == Spec => []EffectsWaitForReconciliation
<1> DEFINE Both == RunnerInv /\ WaitingInv
<1>1. Init => Both
  <2>1. Init => WaitingInv BY DEF Init, WaitingInv, Waiting, Idle
  <2> QED BY <2>1, RunnerInit
<1>2. Both /\ [Next]_vars => Both' BY RunnerStep, RunnerWaiting
<1>3. Both => EffectsWaitForReconciliation
  BY DEF WaitingInv, Waiting, InFlight, EffectsWaitForReconciliation
<1> HIDE DEF Both
<1> QED BY <1>1, <1>2, <1>3, PTL DEF Spec
-----------------------------------------------------------------------------
(* Effects are licensed, with one process.  A call that was let through to *)
(* its effect holds a licence nobody has used: a live call the one it was  *)
(* given when it read the tree, a planned one the one the tree gave when   *)
(* it came to be the operation's precondition.                             *)

Held(s, o)  == call[s].op = o /\ call[s].pc \in {"dispatch", "effect"}
LiveHeld(o) == \E s \in Stores : Held(s, o) /\ call[s].live
TreeHeld(o) == Pre[o] = tree \/ \E s \in Stores : Held(s, o) /\ ~call[s].live

One(b) == IF b THEN 1 ELSE 0

Unspent(o) == effects[o] + One(LiveHeld(o)) + One(TreeHeld(o)) <= licences[o]

\* A live call names no postcondition; a planned one its own, and it is not
\* let through where that is the precondition too.
Proposed(s) ==
  call[s].pc # "idle" =>
    /\ call[s].live => call[s].post = NoDigest
    /\ ~call[s].live => call[s].pre = Pre[call[s].op] /\ call[s].post = Post[call[s].op]
    /\ ~call[s].live /\ call[s].pc \in {"dispatch", "effect"} =>
         Pre[call[s].op] # Post[call[s].op]

LicenceInv ==
  /\ \A o \in Ops : Unspent(o)
  /\ \A s \in Stores : Proposed(s)

\* A step that leaves the tree and the counts alone and lets nobody through.
LEMMA LicenceFrame ==
  ASSUME RunnerInv, LicenceInv, tree' = tree, effects' = effects, licences' = licences,
         \A r \in Stores : \/ call'[r] = call[r]
                           \/ call'[r].pc \notin {"dispatch", "effect"}
                           \/ /\ call[r].pc = "dispatch" /\ call'[r].pc = "effect"
                              /\ call'[r].op = call[r].op /\ call'[r].live = call[r].live,
         (\A r \in Stores : Proposed(r))'
  PROVE  LicenceInv'
<1>1. ASSUME NEW o \in Ops PROVE Unspent(o)'
  <2>1. ASSUME NEW r \in Stores, Held(r, o)' PROVE Held(r, o) /\ call'[r].live = call[r].live
    BY <2>1 DEF Held
  <2>2. LiveHeld(o)' => LiveHeld(o) BY <2>1 DEF LiveHeld
  <2>3. TreeHeld(o)' => TreeHeld(o) BY <2>1 DEF TreeHeld
  <2>4. effects[o] \in Nat /\ licences[o] \in Nat BY DEF RunnerInv, RunnerTypes
  <2>5. effects[o] + One(LiveHeld(o)) + One(TreeHeld(o)) <= licences[o]
    BY DEF LicenceInv, Unspent
  <2>6. effects'[o] + One(LiveHeld(o)') + One(TreeHeld(o)') <= licences'[o]
    <3>1. PICK a \in BOOLEAN, b \in BOOLEAN, c \in BOOLEAN, d \in BOOLEAN :
            /\ a = LiveHeld(o) /\ b = TreeHeld(o) /\ c = LiveHeld(o)' /\ d = TreeHeld(o)'
      BY Zenon DEF LiveHeld, TreeHeld
    <3>2. (c => a) /\ (d => b) BY <2>2, <2>3, <3>1
    <3>3. effects[o] + One(a) + One(b) <= licences[o] BY <2>5, <3>1
    <3>4. effects[o] + One(c) + One(d) <= licences[o] BY <2>4, <3>2, <3>3 DEF One
    <3> QED BY <3>1, <3>4
  <2> QED BY <2>6 DEF Unspent, One
<1> QED BY <1>1 DEF LicenceInv
\* Which calls stay proposed.
LEMMA ProposedFrame ==
  ASSUME LicenceInv, NEW s \in Stores, \A r \in Stores : r # s => call'[r] = call[r],
         Proposed(s)'
  PROVE  (\A r \in Stores : Proposed(r))'
BY DEF LicenceInv, Proposed

LEMMA ProposedIdle ==
  ASSUME LicenceInv, NEW s \in Stores, \A r \in Stores : r # s => call'[r] = call[r],
         call'[s] = Idle
  PROVE  (\A r \in Stores : Proposed(r))'
<1>1. Proposed(s)' BY DEF Proposed, Idle
<1> QED BY <1>1, ProposedFrame

LEMMA ProposedGoto ==
  ASSUME RunnerInv, LicenceInv, NEW s \in Stores, \A r \in Stores : r # s => call'[r] = call[r],
         NEW pc \in PCs, call'[s] = [call[s] EXCEPT !.pc = pc], call[s].pc # "idle",
         pc \in {"dispatch", "effect"} => call[s].pc \in {"dispatch", "effect"}
  PROVE  /\ (\A r \in Stores : Proposed(r))'
         /\ call'[s].pc = pc /\ call'[s].op = call[s].op /\ call'[s].live = call[s].live
<1>1. /\ call'[s].pc = pc /\ call'[s].op = call[s].op /\ call'[s].live = call[s].live
      /\ call'[s].pre = call[s].pre /\ call'[s].post = call[s].post
  BY DEF RunnerInv, RunnerTypes, Calls
<1>2. Proposed(s)' BY <1>1 DEF Proposed, LicenceInv
<1> QED BY <1>1, <1>2, ProposedFrame

\* A call that ends, and nothing else that licences depend on.
LEMMA ReturnLicensed ==
  ASSUME RunnerInv, LicenceInv, NEW s \in Stores, \A r \in Stores : r # s => call'[r] = call[r],
         call'[s] = Idle, tree' = tree, effects' = effects, licences' = licences
  PROVE  LicenceInv'
<1>1. (\A r \in Stores : Proposed(r))' BY ProposedIdle
<1>2. call'[s].pc \notin {"dispatch", "effect"} BY DEF Idle
<1> QED BY <1>1, <1>2, LicenceFrame

LEMMA GotoLicensed ==
  ASSUME RunnerInv, LicenceInv, NEW s \in Stores, NEW pc \in PCs, Goto(s, pc),
         call[s].pc # "idle", tree' = tree, effects' = effects, licences' = licences,
         pc # "dispatch", pc = "effect" => call[s].pc = "dispatch"
  PROVE  LicenceInv'
<1>1. /\ call'[s] = [call[s] EXCEPT !.pc = pc]
      /\ \A r \in Stores : r # s => call'[r] = call[r]
  BY GotoCall DEF RunnerInv
<1>2. /\ (\A r \in Stores : Proposed(r))'
      /\ call'[s].pc = pc /\ call'[s].op = call[s].op /\ call'[s].live = call[s].live
  BY <1>1, ProposedGoto
<1> QED BY <1>1, <1>2, LicenceFrame

LEMMA ProposeLicensed ==
  ASSUME RunnerInv, LicenceInv, NEW s \in Stores, NEW o \in Ops, NEW live \in BOOLEAN,
         Propose(s, o, live)
  PROVE  LicenceInv'
<1> DEFINE new == [pc |-> "reconcile", op |-> o, live |-> live, pre |-> Pre[o],
                   post |-> IF live THEN NoDigest ELSE Post[o]]
<1>1. call' = [call EXCEPT ![s] = new] /\ tree' = tree /\ effects' = effects
      /\ licences' = licences
  BY DEF Propose
<1>2. /\ new.pc = "reconcile" /\ new.op = o /\ new.live = live /\ new.pre = Pre[o]
      /\ new.post = IF live THEN NoDigest ELSE Post[o]
  OBVIOUS
<1> HIDE DEF new
<1>3. call'[s] = new /\ \A r \in Stores : r # s => call'[r] = call[r]
  BY <1>1 DEF RunnerInv, RunnerTypes
<1>4. Proposed(s)' BY <1>2, <1>3 DEF Proposed
<1>5. (\A r \in Stores : Proposed(r))' BY <1>3, <1>4, ProposedFrame
<1> QED BY <1>1, <1>2, <1>3, <1>5, LicenceFrame

LEMMA ReconcileLicensed ==
  ASSUME RunnerInv, LicenceInv, NEW s \in Stores, NEW t \in Tasks, ReconcileTask(s, t)
  PROVE  LicenceInv'
<1>1. /\ call[s].pc = "reconcile"
      /\ tree' = tree /\ effects' = effects /\ licences' = licences
  BY DEF ReconcileTask, SameTree
<1>2. ASSUME NEW e, ReconciledAs(s, t, e) PROVE LicenceInv'
  <2>1. Goto(s, "reconcile") \/ Return(s) BY <1>2 DEF ReconciledAs
  <2>2. CASE Goto(s, "reconcile")
    <3> DEFINE pc == "reconcile"
    <3>1. pc \in PCs /\ Goto(s, pc) /\ pc \notin {"dispatch", "effect"} BY <2>2 DEF PCs
    <3> HIDE DEF pc
    <3> QED BY <1>1, <3>1, GotoLicensed
  <2>3. CASE Return(s)
    <3>1. call'[s] = Idle /\ \A r \in Stores : r # s => call'[r] = call[r]
      BY <2>3, ReturnCall DEF RunnerInv, Return
    <3> QED BY <1>1, <3>1, ReturnLicensed
  <2> QED BY <2>1, <2>2, <2>3
<1>3. CASE Retried(s, t)
  <2>1. call' = call BY <1>3 DEF Retried
  <2>2. (\A r \in Stores : Proposed(r))' BY <2>1 DEF LicenceInv, Proposed
  <2> QED BY <1>1, <2>1, <2>2, LicenceFrame
<1> QED BY <1>2, <1>3, ReconcileCases

LEMMA RecordStepLicensed ==
  ASSUME RunnerInv, LicenceInv, NEW s \in Stores, RecordStep(s)
  PROVE  LicenceInv'
<1> DEFINE pc == Following(call[s].pc)
<1>1. PICK e \in Intended(s), note \in Outcomes, outcome \in Outcomes :
        /\ Record(s, e, note, outcome)
        /\ IF outcome = "synced" /\ pc # "return" THEN Goto(s, pc) ELSE Return(s)
  BY DEF RecordStep
<1>2. call[s].pc # "idle" BY IntendedTyped
<1>3. tree' = tree /\ effects' = effects /\ licences' = licences BY DEF RecordStep, SameTree
<1>4. CASE Return(s)
  <2>1. call'[s] = Idle /\ \A r \in Stores : r # s => call'[r] = call[r]
    BY <1>4, ReturnCall DEF RunnerInv, Return
  <2> QED BY <1>3, <2>1, ReturnLicensed
<1>5. CASE pc # "return" /\ Goto(s, pc)
  <2>1. pc \in PCs /\ pc # "dispatch" /\ (pc = "effect" => call[s].pc = "dispatch")
    BY <1>5 DEF Following, PCs
  <2> HIDE DEF pc
  <2> QED BY <1>2, <1>3, <1>5, <2>1, GotoLicensed
<1> QED BY <1>1, <1>4, <1>5

\* Reading the digest lets a live call through on the licence it is given, and
\* a planned one only on its precondition.
LEMMA ReadDigestLicensed ==
  ASSUME RunnerInv, LicenceInv, NEW s \in Stores, \A r \in Stores : r = s, ReadDigest(s)
  PROVE  LicenceInv'
<1> DEFINE p == call[s].op
           pre == IF call[s].live THEN tree ELSE call[s].pre
           pc == NextStep(s, pre, tree)
<1>1. /\ tree' = tree /\ effects' = effects /\ call[s].pc = "reconcile"
      /\ licences' = [licences EXCEPT ![p] = @ + (IF call[s].live THEN 1 ELSE 0)]
  BY DEF ReadDigest
<1>2. /\ call'[s] = [call[s] EXCEPT !.pre = pre, !.pc = pc]
      /\ pc \in {"verify", "redispatch", "dispatch", "conflict"}
      /\ pc = "dispatch" => tree # call[s].post /\ tree = pre
      /\ p \in Ops
  <2>1. /\ call' \in [Stores -> Calls]
        /\ call'[s] = [call[s] EXCEPT !.pre = pre, !.pc = pc]
        /\ \A r \in Stores : r # s => call'[r] = call[r]
        /\ call[s].op \in Ops
    BY ReadCall
  <2>2. /\ pc \in {"verify", "redispatch", "dispatch", "conflict"}
        /\ pc = "dispatch" => tree # call[s].post /\ tree = pre
    BY DEF NextStep
  <2> QED BY <2>1, <2>2
<1>3. /\ call'[s].op = p /\ call'[s].pc = pc /\ call'[s].live = call[s].live
      /\ call'[s].pre = pre /\ call'[s].post = call[s].post
  <2> HIDE DEF pre, pc
  <2> QED BY <1>2 DEF RunnerInv, RunnerTypes, Calls
<1>4. Proposed(s) BY DEF LicenceInv
<1>5. ~call[s].live => pre = Pre[p] /\ call[s].post = Post[p] BY <1>1, <1>4 DEF Proposed
<1>6. call[s].live => call[s].post = NoDigest BY <1>1, <1>4 DEF Proposed
<1> HIDE DEF p, pre, pc
<1>7. Proposed(s)' BY <1>2, <1>3, <1>5, <1>6 DEF Proposed
<1>8. ASSUME NEW o \in Ops PROVE Unspent(o)'
  <2>1. effects[o] \in Nat /\ licences[o] \in Nat BY DEF RunnerInv, RunnerTypes
  <2>2. effects[o] + One(LiveHeld(o)) + One(TreeHeld(o)) <= licences[o]
    BY <2>1 DEF LicenceInv, Unspent
  <2>3. ~LiveHeld(o) /\ (TreeHeld(o) => Pre[o] = tree) BY <1>1 DEF LiveHeld, TreeHeld, Held
  <2>4. LiveHeld(o)' => o = p /\ call[s].live BY <1>3 DEF LiveHeld, Held
  <2>5. TreeHeld(o)' => Pre[o] = tree BY <1>1, <1>2, <1>3, <1>5 DEF TreeHeld, Held
  <2>6. Pre[o] = tree => TreeHeld(o) BY DEF TreeHeld
  <2>7. licences'[o] = licences[o] + (IF o = p /\ call[s].live THEN 1 ELSE 0)
    BY <1>1, <1>2, <2>1 DEF RunnerInv, RunnerTypes
  <2>8. effects'[o] + One(LiveHeld(o)') + One(TreeHeld(o)') <= licences'[o]
    <3>1. PICK b \in BOOLEAN, c \in BOOLEAN, d \in BOOLEAN, q \in BOOLEAN :
            /\ b = TreeHeld(o) /\ c = LiveHeld(o)' /\ d = TreeHeld(o)'
            /\ q = (o = p /\ call[s].live)
      BY Zenon DEF LiveHeld, TreeHeld
    <3>2. (c => q) /\ (d => b) BY <2>4, <2>5, <2>6, <3>1
    <3>3. effects[o] + One(b) <= licences[o] BY <2>1, <2>2, <2>3, <3>1 DEF One
    <3>4. licences'[o] = licences[o] + One(q) BY <2>7, <3>1 DEF One
    <3>5. effects[o] + One(c) + One(d) <= licences'[o] BY <2>1, <3>2, <3>3, <3>4 DEF One
    <3> QED BY <1>1, <3>1, <3>5
  <2> QED BY <2>8 DEF Unspent, One
<1> QED BY <1>7, <1>8 DEF LicenceInv

\* What becomes of the licences when the tree does.
LEMMA TreeLicensed ==
  ASSUME RunnerInv, LicenceInv, NEW o \in Ops, NEW d \in Digests, TreeBecomes(d),
         effects'[o] = effects[o], LiveHeld(o)' => LiveHeld(o),
         TreeHeld(o)' => TreeHeld(o) \/ (Pre[o] = d /\ tree # d)
  PROVE  Unspent(o)'
<1>1. effects[o] \in Nat /\ licences[o] \in Nat BY DEF RunnerInv, RunnerTypes
<1>2. licences'[o] = licences[o] + (IF Pre[o] = d /\ tree # d THEN 1 ELSE 0)
  BY TreeTyped DEF RunnerInv
<1>3. effects[o] + One(LiveHeld(o)) + One(TreeHeld(o)) <= licences[o]
  BY DEF LicenceInv, Unspent
<1>4. PICK a \in BOOLEAN, b \in BOOLEAN, c \in BOOLEAN, e \in BOOLEAN, q \in BOOLEAN :
        /\ a = LiveHeld(o) /\ b = TreeHeld(o) /\ c = LiveHeld(o)' /\ e = TreeHeld(o)'
        /\ q = (Pre[o] = d /\ tree # d)
  BY Zenon DEF LiveHeld, TreeHeld
<1>5. (c => a) /\ (e => b \/ q) BY <1>4
<1>6. effects[o] + One(a) + One(b) <= licences[o] BY <1>3, <1>4
<1>7. licences'[o] = licences[o] + One(q) BY <1>2, <1>4 DEF One
<1>8. effects[o] + One(c) + One(e) <= licences'[o] BY <1>1, <1>5, <1>6, <1>7 DEF One
<1>9. effects'[o] + One(LiveHeld(o)') + One(TreeHeld(o)') <= licences'[o] BY <1>4, <1>8
<1> QED BY <1>9 DEF Unspent, One

\* An effect spends the licence its call holds.
LEMMA EffectSpends ==
  ASSUME RunnerInv, LicenceInv, NEW s \in Stores, \A r \in Stores : r = s,
         call[s].pc = "effect", NEW p \in Ops, p = call[s].op,
         NEW d \in Digests, TreeBecomes(d), d = Post[p] \/ tree # d,
         effects' = [effects EXCEPT ![p] = @ + 1], call'[s].pc \notin {"dispatch", "effect"}
  PROVE  \A o \in Ops : Unspent(o)'
<1>1. \A o : ~Held(s, o)' BY DEF Held
<1>2. \A o \in Ops : ~LiveHeld(o)' /\ (TreeHeld(o)' => Pre[o] = d)
  <2>1. tree' = d BY TreeTyped DEF RunnerInv
  <2> QED BY <1>1, <2>1 DEF LiveHeld, TreeHeld
<1>3. ASSUME NEW o \in Ops, o # p PROVE Unspent(o)'
  <2>1. effects'[o] = effects[o] BY <1>3 DEF RunnerInv, RunnerTypes
  <2>2. TreeHeld(o)' => TreeHeld(o) \/ (Pre[o] = d /\ tree # d) BY <1>2 DEF TreeHeld
  <2>3. LiveHeld(o)' => LiveHeld(o) BY <1>2
  <2> QED BY <2>1, <2>2, <2>3, TreeLicensed
<1>4. Unspent(p)'
  <2>1. effects[p] \in Nat /\ licences[p] \in Nat BY DEF RunnerInv, RunnerTypes
  <2>2. licences'[p] = licences[p] + (IF Pre[p] = d /\ tree # d THEN 1 ELSE 0)
    BY TreeTyped DEF RunnerInv
  <2>3. effects'[p] = effects[p] + 1 BY <2>1 DEF RunnerInv, RunnerTypes
  <2>4. effects[p] + One(LiveHeld(p)) + One(TreeHeld(p)) <= licences[p]
    BY DEF LicenceInv, Unspent
  <2>5. Held(s, p) BY DEF Held
  <2>6. Proposed(s) BY DEF LicenceInv
  <2>7. effects[p] + 1 + One(Pre[p] = d /\ tree = d) <= licences[p]
    <3>1. CASE call[s].live
      <4>1. LiveHeld(p) BY <2>5, <3>1 DEF LiveHeld
      <4>2. Pre[p] = d /\ tree = d => TreeHeld(p) BY DEF TreeHeld
      <4>3. One(LiveHeld(p)) = 1 BY <4>1 DEF One
      <4>4. One(TreeHeld(p)) \in Nat /\ One(TreeHeld(p)) >= One(Pre[p] = d /\ tree = d)
        BY <4>2 DEF One
      <4>5. One(Pre[p] = d /\ tree = d) \in Nat BY DEF One
      <4> HIDE DEF One
      <4> QED BY <2>1, <2>4, <4>3, <4>4, <4>5
    <3>2. CASE ~call[s].live
      <4>1. TreeHeld(p) BY <2>5, <3>2 DEF TreeHeld
      <4>2. Pre[p] # Post[p] BY <2>6, <3>2 DEF Proposed
      <4>3. One(Pre[p] = d /\ tree = d) = 0 BY <4>2 DEF One
      <4>4. One(TreeHeld(p)) = 1 /\ One(LiveHeld(p)) \in Nat BY <4>1 DEF One
      <4> QED BY <2>1, <2>4, <4>3, <4>4
    <3> QED BY <3>1, <3>2
  <2>8. effects'[p] + One(LiveHeld(p)') + One(TreeHeld(p)') <= licences'[p]
    <3>1. One(LiveHeld(p)') = 0 BY <1>2 DEF One
    <3>2. One(TreeHeld(p)') \in {0, 1} /\ (One(TreeHeld(p)') = 1 => Pre[p] = d)
      BY <1>2 DEF One
    <3> DEFINE x == One(TreeHeld(p)')
    <3> HIDE DEF x
    <3>3. x \in {0, 1} /\ (x = 1 => Pre[p] = d) BY <3>2 DEF x
    <3>4. effects[p] + 1 + 0 + x <= licences'[p]
      <4>1. CASE Pre[p] = d /\ tree = d BY <2>1, <2>2, <2>7, <3>3, <4>1 DEF One
      <4>2. CASE Pre[p] = d /\ tree # d BY <2>1, <2>2, <2>7, <3>3, <4>2 DEF One
      <4>3. CASE Pre[p] # d BY <2>1, <2>2, <2>7, <3>3, <4>3 DEF One
      <4> QED BY <4>1, <4>2, <4>3
    <3> QED BY <2>3, <3>1, <3>4 DEF x
  <2> QED BY <2>8 DEF Unspent, One
<1> QED BY <1>3, <1>4

LEMMA EffectLicensed ==
  ASSUME RunnerInv, LicenceInv, NEW s \in Stores, \A r \in Stores : r = s, Effect(s)
  PROVE  LicenceInv'
<1> DEFINE p == call[s].op
<1>1. p \in Ops /\ call[s].pc = "effect" /\ Post[p] \in Digests
  BY EffectCases, RunnerAssumption
<1> HIDE DEF p
<1>2. CASE TreeBecomes(Post[p]) /\ Goto(s, "commit") /\ effects' = [effects EXCEPT ![p] = @ + 1]
  <2> DEFINE pc == "commit"
  <2>1. pc \in PCs /\ Goto(s, pc) /\ pc \notin {"dispatch", "effect"} BY <1>2 DEF PCs
  <2> HIDE DEF pc
  <2>2. /\ call'[s] = [call[s] EXCEPT !.pc = pc]
        /\ \A r \in Stores : r # s => call'[r] = call[r]
    BY <2>1, GotoCall DEF RunnerInv
  <2>3. /\ (\A r \in Stores : Proposed(r))'
        /\ call'[s].pc = pc
    BY <1>1, <2>1, <2>2, ProposedGoto
  <2> DEFINE d == Post[p]
  <2>4. d \in Digests /\ TreeBecomes(d) /\ (d = Post[p] \/ tree # d) BY <1>1, <1>2
  <2> HIDE DEF d
  <2>5. p = call[s].op BY DEF p
  <2>6. effects' = [effects EXCEPT ![p] = @ + 1] /\ call'[s].pc \notin {"dispatch", "effect"}
    BY <1>2, <2>1, <2>3
  <2>7. \A o \in Ops : Unspent(o)' BY <1>1, <2>4, <2>5, <2>6, EffectSpends
  <2> QED BY <2>3, <2>7 DEF LicenceInv
<1>3. ASSUME NEW d \in Digests, tree # d, TreeBecomes(d), Return(s),
             effects' = [effects EXCEPT ![p] = @ + 1]
      PROVE  LicenceInv'
  <2>1. call'[s] = Idle /\ \A r \in Stores : r # s => call'[r] = call[r]
    BY <1>3, ReturnCall DEF RunnerInv, Return
  <2>2. (\A r \in Stores : Proposed(r))' BY <2>1, ProposedIdle
  <2>3. call'[s].pc \notin {"dispatch", "effect"} BY <2>1 DEF Idle
  <2>4. p = call[s].op BY DEF p
  <2>5. \A o \in Ops : Unspent(o)' BY <1>1, <1>3, <2>3, <2>4, EffectSpends
  <2> QED BY <2>2, <2>5 DEF LicenceInv
<1>4. CASE SameTree /\ Return(s) /\ effects' = effects
  <2>1. call'[s] = Idle /\ \A r \in Stores : r # s => call'[r] = call[r]
    BY <1>4, ReturnCall DEF RunnerInv, Return
  <2> QED BY <1>4, <2>1, ReturnLicensed DEF SameTree
<1>5. \/ TreeBecomes(Post[p]) /\ Goto(s, "commit") /\ effects' = [effects EXCEPT ![p] = @ + 1]
      \/ /\ \E d \in Digests \ {tree} : TreeBecomes(d)
         /\ Return(s)
         /\ effects' = [effects EXCEPT ![p] = @ + 1]
      \/ SameTree /\ Return(s) /\ effects' = effects
  BY EffectCases DEF p
<1> QED BY <1>2, <1>3, <1>4, <1>5

LEMMA DieLicensed ==
  ASSUME RunnerInv, LicenceInv, NEW s \in Stores, \A r \in Stores : r = s, Die(s)
  PROVE  LicenceInv'
<1>1. call'[s] = Idle /\ \A r \in Stores : r # s => call'[r] = call[r]
  BY ReturnCall DEF Die, Forget, RunnerInv
<1>2. CASE SameTree /\ UNCHANGED effects BY <1>1, <1>2, ReturnLicensed DEF SameTree
<1>3. ASSUME call[s].pc = "effect", NEW d \in Digests, tree # d, TreeBecomes(d),
             effects' = [effects EXCEPT ![call[s].op] = @ + 1]
      PROVE  LicenceInv'
  <2> DEFINE p == call[s].op
  <2>1. p \in Ops /\ p = call[s].op BY <1>3 DEF RunnerInv, Calling
  <2>2. effects' = [effects EXCEPT ![p] = @ + 1] BY <1>3
  <2> HIDE DEF p
  <2>3. call'[s].pc \notin {"dispatch", "effect"} BY <1>1 DEF Idle
  <2>4. \A o \in Ops : Unspent(o)' BY <1>3, <2>1, <2>2, <2>3, EffectSpends
  <2>5. (\A r \in Stores : Proposed(r))' BY <1>1, ProposedIdle
  <2> QED BY <2>4, <2>5 DEF LicenceInv
<1> QED BY <1>2, <1>3 DEF Die

LEMMA ForeignLicensed ==
  ASSUME RunnerInv, LicenceInv, ForeignChange
  PROVE  LicenceInv'
<1>1. PICK d \in Digests : TreeBecomes(d) /\ tree # d BY DEF ForeignChange
<1>2. call' = call /\ effects' = effects BY DEF ForeignChange
<1>3. tree' = d BY <1>1, TreeTyped DEF RunnerInv
<1>4. ASSUME NEW o \in Ops PROVE Unspent(o)'
  <2>1. LiveHeld(o)' => LiveHeld(o) BY <1>2 DEF LiveHeld, Held
  <2>2. TreeHeld(o)' => TreeHeld(o) \/ (Pre[o] = d /\ tree # d)
    BY <1>1, <1>2, <1>3 DEF TreeHeld, Held
  <2>3. effects'[o] = effects[o] BY <1>2
  <2> QED BY <1>1, <2>1, <2>2, <2>3, TreeLicensed
<1>5. (\A r \in Stores : Proposed(r))' BY <1>2 DEF LicenceInv, Proposed
<1> QED BY <1>4, <1>5 DEF LicenceInv

LEMMA RunnerLicensed ==
  ASSUME RunnerInv, LicenceInv, \A r, s \in Stores : r = s, [Next]_vars
  PROVE  LicenceInv'
<1>1. CASE UNCHANGED vars
  <2>1. call' = call /\ tree' = tree /\ effects' = effects /\ licences' = licences
    BY <1>1 DEF vars, runVars
  <2>2. (\A r \in Stores : Proposed(r))' BY <2>1 DEF LicenceInv, Proposed
  <2> QED BY <2>1, <2>2, LicenceFrame
<1>2. CASE ForeignChange BY <1>2, ForeignLicensed
<1>3. ASSUME NEW s \in Stores, ReconcileFails(s) PROVE LicenceInv'
  <2>1. tree' = tree /\ effects' = effects /\ licences' = licences
    BY <1>3 DEF ReconcileFails
  <2>2. call'[s] = Idle /\ \A r \in Stores : r # s => call'[r] = call[r]
    BY <1>3, ReturnCall DEF ReconcileFails, AfterFailure, Return, RunnerInv
  <2> QED BY <2>1, <2>2, ReturnLicensed
<1>4. ASSUME NEW s \in Stores, Restart(s) PROVE LicenceInv'
  <2>1. call' = call /\ tree' = tree /\ effects' = effects /\ licences' = licences
    BY <1>4 DEF Restart, runVars
  <2>2. (\A r \in Stores : Proposed(r))' BY <2>1 DEF LicenceInv, Proposed
  <2> QED BY <2>1, <2>2, LicenceFrame
<1>5. ASSUME NEW s \in Stores, DieInAppend(s) PROVE LicenceInv'
  <2>1. tree' = tree /\ effects' = effects /\ licences' = licences
    BY <1>5 DEF DieInAppend, SameTree
  <2>2. call'[s] = Idle /\ \A r \in Stores : r # s => call'[r] = call[r]
    BY <1>5, ReturnCall DEF DieInAppend, Forget, RunnerInv
  <2> QED BY <2>1, <2>2, ReturnLicensed
<1>6. ASSUME NEW s \in Stores, Effect(s) \/ Die(s) \/ ReadDigest(s) PROVE LicenceInv'
  <2>1. \A r \in Stores : r = s OBVIOUS
  <2> QED BY <1>6, <2>1, EffectLicensed, DieLicensed, ReadDigestLicensed
<1>7. ASSUME NEW s \in Stores,
             \/ \E o \in Ops, live \in BOOLEAN : Propose(s, o, live)
             \/ \E t \in Tasks : ReconcileTask(s, t)
             \/ RecordStep(s)
      PROVE  LicenceInv'
  BY <1>7, ProposeLicensed, ReconcileLicensed, RecordStepLicensed
<1> QED BY <1>1, <1>2, <1>3, <1>4, <1>5, <1>6, <1>7 DEF Next

\* With one process at the ledger, an operation changes the tree at most once
\* for every time the tree came to be what it starts from, or a live call took
\* the tree for that: EffectsAreLicensed.
THEOREM EffectsLicensed ==
  ASSUME \A r, s \in Stores : r = s
  PROVE  Spec => []EffectsAreLicensed
<1> DEFINE Both == RunnerInv /\ LicenceInv
<1>1. Init => Both
  <2> SUFFICES ASSUME Init PROVE LicenceInv BY RunnerInit
  <2>1. \A s \in Stores : call[s].pc = "idle" BY DEF Init, Idle
  <2>2. \A s \in Stores : Proposed(s) BY <2>1 DEF Proposed
  <2>3. ASSUME NEW o \in Ops PROVE Unspent(o)
    <3>1. ~LiveHeld(o) /\ (TreeHeld(o) <=> Pre[o] = tree)
      BY <2>1 DEF LiveHeld, TreeHeld, Held
    <3>2. effects[o] = 0 /\ licences[o] = IF Pre[o] = tree THEN 1 ELSE 0 BY DEF Init
    <3>3. One(LiveHeld(o)) = 0 BY <3>1 DEF One
    <3>4. One(TreeHeld(o)) = licences[o] /\ licences[o] \in Nat BY <3>1, <3>2 DEF One
    <3> HIDE DEF One
    <3> QED BY <3>2, <3>3, <3>4 DEF Unspent
  <2> QED BY <2>2, <2>3 DEF LicenceInv
<1>2. Both /\ [Next]_vars => Both' BY RunnerStep, RunnerLicensed
<1>3. Both => EffectsAreLicensed
  <2> SUFFICES ASSUME Both, NEW o \in Ops PROVE effects[o] <= licences[o]
    BY DEF EffectsAreLicensed
  <2>1. Unspent(o) BY DEF LicenceInv
  <2>2. effects[o] \in Nat /\ licences[o] \in Nat BY DEF RunnerInv, RunnerTypes
  <2>3. One(LiveHeld(o)) \in Nat /\ One(TreeHeld(o)) \in Nat BY DEF One
  <2> QED BY <2>1, <2>2, <2>3 DEF Unspent
<1> HIDE DEF Both
<1> QED BY <1>1, <1>2, <1>3, PTL DEF Spec
=============================================================================
