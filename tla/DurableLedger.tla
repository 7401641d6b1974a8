--------------------------- MODULE DurableLedger ---------------------------
(***************************************************************************)
(* The append-only ledger under .izen/runtime and the stores that replay   *)
(* it (internal/runtime/durable/store.go).                                 *)
(*                                                                         *)
(* A store numbers an event from its own counter, writes one line, syncs   *)
(* it and only then moves its counter and folds the event into its tasks.  *)
(* A write may stop half-way and a sync may fail, with the process alive   *)
(* or dead afterwards; the next Open replays whatever lines can be read.   *)
(*                                                                         *)
(* A line is one record; a line that does not decode is Junk.  A file that *)
(* does not end in a newline is "torn": whatever is written next continues *)
(* its last line, and two texts on one line decode as nothing.             *)
(***************************************************************************)
EXTENDS DurableTask

CONSTANTS
  Stores,     \* TaskStore handles, each of a process of its own
  Events,     \* the events the clients of the free specification record
  MaxLines,   \* bound on the lines of the file
  MaxFaults   \* bound on failed appends and crashes

ASSUME LedgerAssumption ==
  /\ Tasks # {}
  /\ Events \subseteq EventSet
  /\ MaxLines \in Nat
  /\ MaxFaults \in Nat

VARIABLES
  ledger,     \* ledger.ndjson: its lines, whether it is torn, and two counts
  store,      \* what each store holds in memory
  staleLock,  \* a lock file of a dead process is in the way
  faults      \* failed appends and crashes so far

ledgerVars == <<ledger, store, staleLock, faults>>

-----------------------------------------------------------------------------
(* The file.                                                               *)

Junk == [sound |-> FALSE, seq |-> 0, event |-> LockReclaimed(AnyTask),
         acked |-> FALSE]
Line(n, e, acked) == [sound |-> TRUE, seq |-> n, event |-> e, acked |-> acked]

(* What a write leaves behind: the whole line, synced; the whole line with *)
(* a failed sync; the line without its newline; a piece of it; nothing.    *)
Outcomes == {"synced", "unsynced", "bare", "cut", "none"}

\* Mutant: the newline is forgotten, every line stays open.
MutantStaysOpen(outcome) == outcome # "none"

StaysOpen(outcome) == outcome \in {"bare", "cut"}

(* One write of event e under number n.  The text continues a torn line.   *)
Wrote(file, n, e, outcome, told) ==
  LET text == IF outcome = "cut" THEN Junk ELSE Line(n, e, told /\ outcome = "synced")
  IN IF outcome = "none" THEN file
     ELSE [lines |-> IF file.torn THEN [file.lines EXCEPT ![Len(file.lines)] = Junk]
                                  ELSE Append(file.lines, text),
           torn  |-> StaysOpen(outcome),
           acks  |-> file.acks + (IF told /\ outcome = "synced" THEN 1 ELSE 0),
           tears |-> file.tears + (IF StaysOpen(outcome) THEN 1 ELSE 0)]

(* What replayLocked makes of one line, and of the file: a line that does  *)
(* not decode is skipped, every other is folded and its number audited.    *)
ReadLine(tasks, line) == IF line.sound THEN Applied(tasks, line.event) ELSE tasks

Replay(lines) == FoldLeft(ReadLine, [t \in Tasks |-> Absent], lines)

(* The audit of the numbers: the highest one seen, the positions missing   *)
(* and the positions that came back.                                       *)
Numbered(audit, n) ==
  [seq     |-> IF n > audit.seq THEN n ELSE audit.seq,
   gaps    |-> audit.gaps \union ((audit.seq + 1) .. (n - 1)),
   repeats |-> audit.repeats \union (IF n <= audit.seq THEN {n} ELSE {})]

Audited(audit, line) == IF line.sound THEN Numbered(audit, line.seq) ELSE audit

Audit(lines) == FoldLeft(Audited, [seq |-> 0, gaps |-> {}, repeats |-> {}], lines)

-----------------------------------------------------------------------------
(* The stores.                                                             *)

Down == [up |-> FALSE, seq |-> 0, tasks |-> [t \in Tasks |-> Absent], exact |-> FALSE]

LedgerInit ==
  /\ ledger = [lines |-> <<>>, torn |-> FALSE, acks |-> 0, tears |-> 0]
  /\ store = [s \in Stores |-> Down]
  /\ staleLock = FALSE
  /\ faults = 0

(* A store that reads the file holds what the file says.                   *)
Replayed(lines) ==
  [up |-> TRUE, seq |-> Audit(lines).seq, tasks |-> Replay(lines), exact |-> TRUE]

Room(n) == Len(ledger.lines) + n <= MaxLines

(* Acquire reports a lock left by a dead process, and the holder notes it  *)
(* as best it can before its own work.  A process that happens to have the *)
(* dead one's pid takes the lock for its own and notes nothing.            *)
ReclaimEvent == LockReclaimed(AnyTask)

(* Every write that fails is one of the MaxFaults.                         *)
Spend(outcome) ==
  /\ faults' = faults + (IF outcome = "synced" THEN 0 ELSE 1)
  /\ faults' <= MaxFaults

(* withLock drops the error of a note that failed and does its work all    *)
(* the same, so that one append can hold two failed writes.                *)
SpendBoth(note, outcome) ==
  /\ faults' = faults + (IF note \in {"none", "synced"} THEN 0 ELSE 1)
                      + (IF outcome = "synced" THEN 0 ELSE 1)
  /\ faults' <= MaxFaults

(* Open: take the lock, replay, note a reclaimed lock.                     *)
Open(s, note) ==
  /\ ~store[s].up
  /\ \/ note = "none" /\ UNCHANGED faults
     \/ note # "none" /\ staleLock /\ Room(1) /\ Spend(note)
  /\ ledger' = Wrote(ledger, Audit(ledger.lines).seq + 1, ReclaimEvent, note, FALSE)
  /\ store' =
       [r \in Stores |->
          IF r = s
          THEN [Replayed(ledger.lines) EXCEPT
                  !.seq = IF note = "synced" THEN @ + 1 ELSE @,
                  !.exact = note = "none" \/ (note = "synced" /\ ~ledger.torn)]
          ELSE [store[r] EXCEPT !.exact = @ /\ note = "none"]]
  /\ staleLock' = FALSE

\* Mutants: the position of a failed write is burned, or given back twice.
MutantCounter(n, outcome) == n
ReturningCounter(n, outcome) == IF outcome = "synced" THEN n ELSE n - 2

(* Where the counter stands after an append under number n.                *)
Counter(n, outcome) == IF outcome = "synced" THEN n ELSE n - 1

\* Mutant: the event is folded before it is known to be in the file.
MutantView(tasks, e, outcome) == Applied(tasks, e)

View(tasks, e, outcome) == IF outcome = "synced" THEN Applied(tasks, e) ELSE tasks

(* withLock, appendLocked and apply: the counter and the view move only    *)
(* when the write and its sync both came back.                             *)
Record(s, e, note, outcome) ==
  LET n     == store[s].seq + 1
      after == Wrote(ledger, n, ReclaimEvent, note, FALSE)
      next  == IF note = "synced" THEN n + 1 ELSE n
      file  == Wrote(after, next, e, outcome, TRUE)
      clean == /\ note = "none" \/ (note = "synced" /\ ~ledger.torn)
               /\ outcome = "none" \/ (outcome = "synced" /\ ~after.torn)
  IN /\ store[s].up
     /\ note = "none" \/ staleLock
     /\ Room(IF note = "none" THEN 1 ELSE 2)
     /\ SpendBoth(note, outcome)
     /\ ledger' = file
     /\ store' =
          [r \in Stores |->
             IF r = s
             THEN [up    |-> TRUE,
                   seq   |-> Counter(next, outcome),
                   tasks |-> View(store[s].tasks, e, outcome),
                   exact |-> store[s].exact /\ clean]
             ELSE [store[r] EXCEPT !.exact = @ /\ file = ledger]]
     /\ staleLock' = FALSE

(* The process dies between two operations, or inside one append with the  *)
(* lock in its hands; whatever it wrote was told to nobody.                *)
Crash(s) ==
  /\ store[s].up
  /\ Spend("none")
  /\ store' = [store EXCEPT ![s] = Down]
  /\ UNCHANGED <<ledger, staleLock>>

DieRecording(s, e, outcome) ==
  /\ store[s].up
  /\ Room(1)
  /\ Spend("none")
  /\ ledger' = Wrote(ledger, store[s].seq + 1, e, outcome, FALSE)
  /\ store' = [r \in Stores |->
                 IF r = s THEN Down
                 ELSE [store[r] EXCEPT !.exact = @ /\ outcome = "none"]]
  /\ staleLock' = TRUE

(* RebuildSnapshot replays again; a lock it reclaims it does not note.     *)
RebuildSnapshot(s) ==
  /\ store[s].up
  /\ store' = [store EXCEPT ![s] = Replayed(ledger.lines)]
  /\ staleLock' = FALSE
  /\ UNCHANGED <<ledger, faults>>

(* Close refuses every later append of this handle.                        *)
Close(s) ==
  /\ store[s].up
  /\ store' = [store EXCEPT ![s] = Down]
  /\ UNCHANGED <<ledger, staleLock, faults>>

-----------------------------------------------------------------------------
(* The ledger under clients that record any of Events at any time.         *)

LedgerNext ==
  \E s \in Stores :
    \/ \E note \in Outcomes : Open(s, note)
    \/ \E e \in Events, note, outcome \in Outcomes : Record(s, e, note, outcome)
    \/ \E e \in Events, outcome \in Outcomes : DieRecording(s, e, outcome)
    \/ Crash(s)
    \/ RebuildSnapshot(s)
    \/ Close(s)

LedgerSpec == LedgerInit /\ [][LedgerNext]_ledgerVars

-----------------------------------------------------------------------------
(* Properties.                                                             *)

Lines == [sound: BOOLEAN, seq: Nat, event: EventSet, acked: BOOLEAN]

(* The file and the views have their types: only sound lines are told to   *)
(* a client, and a torn file has a last line to be torn.                   *)
LedgerTypeOK ==
  /\ ledger \in [lines: Seq(Lines), torn: BOOLEAN, acks: Nat, tears: Nat]
  /\ ledger.torn => ledger.lines # <<>>
  /\ store \in [Stores -> [up: BOOLEAN, seq: Nat, tasks: [Tasks -> TaskStates],
                           exact: BOOLEAN]]
  /\ staleLock \in BOOLEAN
  /\ faults \in 0 .. MaxFaults

(* The records a client was told are durable and that still decode.        *)
Kept == {i \in DOMAIN ledger.lines : ledger.lines[i].sound /\ ledger.lines[i].acked}

(* A write that stops before its newline costs at most one record that a   *)
(* client was told is durable, the one written next onto the torn line,    *)
(* whatever crashes, restarts and second writers come in between; and a    *)
(* file that is torn right now has not cost its record yet.                *)
EachTearCostsOneRecord ==
  ledger.acks + (IF ledger.torn THEN 1 ELSE 0) <= Cardinality(Kept) + ledger.tears

(* The view a store keeps up to date event by event, and its counter, are  *)
(* what a restart would rebuild from the file, as long as no append of     *)
(* its own failed or met a torn line and nobody else wrote since it opened.*)
MemoryIsReplay ==
  \A s \in Stores :
    store[s].up /\ store[s].exact =>
      /\ store[s].tasks = Replay(ledger.lines)
      /\ store[s].seq = Audit(ledger.lines).seq

(* A store whose view is current numbers what it writes so that the next   *)
(* audit finds nothing new: no position is burned by a failed write and    *)
(* none is given twice.                                                    *)
CurrentStoresNumberCleanly ==
  [][\A s \in Stores :
       store[s].up /\ store[s].exact /\ store'[s].up /\ store'[s].exact =>
         /\ Audit(ledger'.lines).gaps = Audit(ledger.lines).gaps
         /\ Audit(ledger'.lines).repeats = Audit(ledger.lines).repeats]_ledgerVars

=============================================================================
