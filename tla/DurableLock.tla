---------------------------- MODULE DurableLock ----------------------------
(***************************************************************************)
(* The runtime file lock (internal/runtime/durable/lock.go): a file that   *)
(* names a process and ages, read and written by handles in several        *)
(* processes, and within a process a table of the handle that holds it.    *)
(*                                                                         *)
(* Acquire looks into the table, reads the file and writes it; Release     *)
(* reads the file and removes it; a heartbeat reads the file and writes    *)
(* it.  Between any two of these steps another handle may act: only the    *)
(* table is guarded by a mutex of the process, and the file by nothing.    *)
(* The age of the file is kept as whether its lease has run out.  A        *)
(* process that dies may come back under its old pid, as the first process *)
(* of a container does.                                                    *)
(***************************************************************************)
EXTENDS Integers

CONSTANTS
  Procs,      \* processes, by their pids
  Handles,    \* FileLocks
  ProcOf,     \* the process of each handle
  NoHandle,
  NoFile,
  MaxFaults   \* bound on late heartbeats, failed writes and deaths

ASSUME LockAssumption ==
  /\ ProcOf \in [Handles -> Procs]
  /\ NoHandle \notin Handles
  /\ NoFile \notin [pid: Procs, expired: BOOLEAN]
  /\ MaxFaults \in Nat

VARIABLES
  file,        \* the lock file
  alive,       \* the processes that run
  holder,      \* procHolders, per process
  pc,          \* where the Acquire or Release of a handle stands
  beating,     \* the handles whose heartbeat has read the file and will write it
  current,     \* readers of the file since when nobody else wrote or removed it
  raced,       \* a file was written or removed on a reading that was not current
  overlapped,  \* processes two of whose handles were in Acquire at once
  latest,      \* the handle that took the lock last
  used         \* late heartbeats, failed writes and deaths so far

vars == <<file, alive, holder, pc, beating, current, raced, overlapped, latest, used>>

Files   == [pid: Procs, expired: BOOLEAN] \union {NoFile}
Readers == Handles \X {"call", "beat"}

Init ==
  /\ file = NoFile
  /\ alive = Procs
  /\ holder = [p \in Procs |-> NoHandle]
  /\ pc = [h \in Handles |-> "idle"]
  /\ beating = {}
  /\ current = {}
  /\ raced = FALSE
  /\ overlapped = {}
  /\ latest = NoHandle
  /\ used = [late |-> 0, failed |-> 0, deaths |-> 0]

Runs(h)      == ProcOf[h] \in alive
Acquiring(h) == pc[h] \in {"looked", "writing", "claiming"}
Holds(h)     == pc[h] = "held"

Goto(h, where) == pc' = [pc EXCEPT ![h] = where]
Reads(reader)  == current' = current \union {reader}

(* The file becomes f, by the hand of someone who read it before.          *)
Becomes(f, reader) ==
  /\ file' = f
  /\ raced' = (raced \/ reader \notin current)
  /\ current' = {}

\* Mutant: the metadata is written without the pid.
MutantFresh(h) == [pid |-> NoHandle, expired |-> FALSE]

Fresh(h) == [pid |-> ProcOf[h], expired |-> FALSE]

Spend(what) ==
  /\ used.late + used.failed + used.deaths < MaxFaults
  /\ used' = [used EXCEPT ![what] = @ + 1]

-----------------------------------------------------------------------------
(* Acquire.                                                                *)

\* Mutant: the table is not looked into.
MutantFree(h) == TRUE

(* No other handle of the process holds the lock.                          *)
Free(h) == holder[ProcOf[h]] \in {NoHandle, h}

(* The look into procHolders; a handle that holds the lock is told so, and *)
(* nothing changes.                                                        *)
Look(h) ==
  /\ Runs(h) /\ pc[h] = "idle"
  /\ Free(h)
  /\ Goto(h, "looked")
  /\ overlapped' = IF \E k \in Handles : ProcOf[k] = ProcOf[h] /\ Acquiring(k)
                   THEN overlapped \union {ProcOf[h]} ELSE overlapped
  /\ UNCHANGED <<file, alive, holder, beating, current, raced, latest, used>>

\* Mutant: a dead or late owner is not told from a live one.
MutantStale(f) == TRUE

(* Stale: the pid is dead, or the lease ran out without a heartbeat.       *)
Stale(f) == f.pid \notin alive \/ f.expired

(* Taking over is open to anyone; a live owner refuses all but its own.    *)
MayTake(h) == file = NoFile \/ file.pid = ProcOf[h] \/ Stale(file)

Taking(h)  == IF file # NoFile /\ file.pid = ProcOf[h] THEN "claiming" ELSE "writing"

Read(h) ==
  /\ Runs(h) /\ pc[h] = "looked"
  /\ IF MayTake(h) THEN Goto(h, Taking(h)) /\ Reads(<<h, "call">>)
                   ELSE Goto(h, "idle") /\ UNCHANGED current
  /\ UNCHANGED <<file, alive, holder, beating, raced, overlapped, latest, used>>

Register(h) ==
  /\ Goto(h, "held")
  /\ holder' = [holder EXCEPT ![ProcOf[h]] = h]
  /\ latest' = h

(* The write that takes the lock.  Where it fails the lock is not taken,   *)
(* except by a handle that found its own pid: it holds the lock anyway.    *)
Write(h) ==
  /\ Runs(h) /\ pc[h] \in {"writing", "claiming"}
  /\ \/ /\ Becomes(Fresh(h), <<h, "call">>)
        /\ Register(h)
        /\ UNCHANGED used
     \/ /\ Spend("failed")
        /\ IF pc[h] = "claiming"
           THEN Register(h) /\ raced' = (raced \/ <<h, "call">> \notin current)
           ELSE Goto(h, "idle") /\ UNCHANGED <<holder, raced, latest>>
        /\ UNCHANGED <<file, current>>
  /\ UNCHANGED <<alive, beating, overlapped>>

-----------------------------------------------------------------------------
(* Release.                                                                *)

\* Mutant: the file is removed whoever it names.
MutantOwn(h) == TRUE

(* No file, or one that carries our pid.                                   *)
Own(h) == file = NoFile \/ file.pid = ProcOf[h]

(* The heartbeat is stopped and the table cleared, then the file read.     *)
Release(h) ==
  /\ Runs(h) /\ Holds(h)
  /\ holder' = [holder EXCEPT ![ProcOf[h]] = IF @ = h THEN NoHandle ELSE @]
  /\ IF Own(h) THEN Goto(h, "removing") /\ Reads(<<h, "call">>)
               ELSE Goto(h, "idle") /\ UNCHANGED current
  /\ UNCHANGED <<file, alive, beating, raced, overlapped, latest, used>>

Remove(h) ==
  /\ Runs(h) /\ pc[h] = "removing"
  /\ Goto(h, "idle")
  /\ Becomes(NoFile, <<h, "call">>)
  /\ UNCHANGED <<alive, holder, beating, overlapped, latest, used>>

-----------------------------------------------------------------------------
(* The heartbeat, in a goroutine of its own; stopping it does not take     *)
(* back a Touch that is under way.                                         *)

Beat(h) ==
  /\ Runs(h) /\ Holds(h) /\ h \notin beating
  /\ file # NoFile /\ file.pid = ProcOf[h]
  /\ beating' = beating \union {h}
  /\ Reads(<<h, "beat">>)
  /\ UNCHANGED <<file, alive, holder, pc, raced, overlapped, latest, used>>

Touch(h) ==
  /\ Runs(h) /\ h \in beating
  /\ beating' = beating \ {h}
  /\ Becomes(Fresh(h), <<h, "beat">>)
  /\ UNCHANGED <<alive, holder, pc, overlapped, latest, used>>

-----------------------------------------------------------------------------
(* Time and death.                                                         *)

(* A lease runs out under a live handle of its owner only where a          *)
(* heartbeat is late by two thirds of it.                                  *)
Attended ==
  \E h \in Handles :
    ProcOf[h] = file.pid /\ (pc[h] \in {"held", "removing"} \/ h \in beating)

Expire ==
  /\ file # NoFile /\ ~file.expired
  /\ file' = [file EXCEPT !.expired = TRUE]
  /\ IF Attended THEN Spend("late") ELSE UNCHANGED used
  /\ UNCHANGED <<alive, holder, pc, beating, current, raced, overlapped, latest>>

Die(p) ==
  /\ p \in alive
  /\ Spend("deaths")
  /\ alive' = alive \ {p}
  /\ holder' = [holder EXCEPT ![p] = NoHandle]
  /\ pc' = [h \in Handles |-> IF ProcOf[h] = p THEN "idle" ELSE pc[h]]
  /\ beating' = {h \in beating : ProcOf[h] # p}
  /\ UNCHANGED <<file, current, raced, overlapped, latest>>

(* A new process under the old pid: what was read of its death is no       *)
(* longer current.                                                         *)
Restart(p) ==
  /\ p \notin alive
  /\ alive' = alive \union {p}
  /\ current' = {}
  /\ UNCHANGED <<file, holder, pc, beating, raced, overlapped, latest, used>>

Next ==
  \/ \E h \in Handles : Look(h) \/ Read(h) \/ Write(h) \/ Release(h) \/ Remove(h)
                        \/ Beat(h) \/ Touch(h)
  \/ \E p \in Procs : Die(p) \/ Restart(p)
  \/ Expire

Spec == Init /\ [][Next]_vars

-----------------------------------------------------------------------------
(* Properties.                                                             *)

LockTypeOK ==
  /\ file \in Files
  /\ alive \subseteq Procs
  /\ holder \in [Procs -> Handles \union {NoHandle}]
  /\ pc \in [Handles -> {"idle", "looked", "writing", "claiming", "held",
                       "removing"}]
  /\ beating \subseteq Handles
  /\ current \subseteq Readers
  /\ raced \in BOOLEAN
  /\ overlapped \subseteq Procs
  /\ latest \in Handles \union {NoHandle}
  /\ used \in [late: 0 .. MaxFaults, failed: 0 .. MaxFaults, deaths: 0 .. MaxFaults]

(* Two handles of one process never hold the lock at once unless they were *)
(* in Acquire at once: whatever other processes do to the file, however    *)
(* late heartbeats are, and whoever dies (procHolders).                    *)
HandlesAreApart ==
  \A h, k \in Handles :
    Holds(h) /\ Holds(k) /\ h # k /\ ProcOf[h] = ProcOf[k] => ProcOf[h] \in overlapped

(* Without late heartbeats and failed writes, two handles hold the lock at *)
(* once only after somebody wrote or removed the file on a reading that    *)
(* was out of date: pid, lease and deaths alone never break the exclusion. *)
OnlyRacesBreakExclusion ==
  ~raced /\ overlapped = {} /\ used.late = 0 /\ used.failed = 0 =>
    \A h, k \in Handles : Holds(h) /\ Holds(k) => h = k

(* The handle that took the lock last is on file for as long as it holds   *)
(* it, so that others are refused: a predecessor whose lease ran out, or   *)
(* its heartbeat, neither removes nor overwrites its successor's file.     *)
SuccessorIsOnFile ==
  ~raced /\ overlapped = {} /\ used.failed = 0 =>
    \A h \in Handles : h = latest /\ Holds(h) => file # NoFile /\ file.pid = ProcOf[h]

=============================================================================
