------------------------- MODULE DurableLockProofs -------------------------
(***************************************************************************)
(* Theorems about DurableLock, for any processes, any handles in them and  *)
(* any number of late heartbeats, failed writes and deaths: its types,     *)
(* that the handles of one process are apart, and that only a write or a   *)
(* removal on an outdated reading breaks the exclusion of processes.       *)
(***************************************************************************)
EXTENDS DurableLock, TLAPS

Busy(h) == Acquiring(h) \/ Holds(h)

\* Within a process only handles that were in Acquire at once are busy at
\* once; the holder is in the table; the dead are idle.
Apart ==
  \A h, k \in Handles :
    h # k /\ ProcOf[h] = ProcOf[k] /\ Busy(h) /\ Busy(k) => ProcOf[h] \in overlapped
Tabled == \A h \in Handles : Holds(h) => holder[ProcOf[h]] = h \/ ProcOf[h] \in overlapped
Living == \A h \in Handles : pc[h] # "idle" => Runs(h)

IInv == LockTypeOK /\ Apart /\ Tabled /\ Living

\* As long as nothing went wrong, a reading that is current still says what
\* its reader acts on,
Clean == ~raced /\ overlapped = {} /\ used.failed = 0

MayStillTake ==
  \A h \in Handles :
    <<h, "call">> \in current /\ pc[h] \in {"writing", "claiming"} => MayTake(h)
StillOwn ==
  \A h \in Handles :
    <<h, "call">> \in current /\ pc[h] = "removing" =>
      /\ Own(h)
      /\ \A k \in Handles : ProcOf[k] = ProcOf[h] => ~Holds(k)
StillBeats ==
  \A h \in Handles :
    <<h, "beat">> \in current /\ h \in beating => file # NoFile /\ file.pid = ProcOf[h]

\* the last handle to take the lock is on file, and without late heartbeats
\* its lease runs and nobody else holds the lock.
OnFile ==
  \A h \in Handles : h = latest /\ Holds(h) => file # NoFile /\ file.pid = ProcOf[h]
InTime ==
  used.late = 0 =>
    \A h \in Handles : Holds(h) => h = latest /\ ~file.expired

Reliable == MayStillTake /\ StillOwn /\ StillBeats /\ OnFile /\ InTime
RInv == Clean => Reliable

-----------------------------------------------------------------------------
\* Nothing is busy and nothing is recorded at the start.
LEMMA InitOK == ASSUME Init PROVE IInv /\ RInv
<1> USE LockAssumption
<1>1. LockTypeOK
  <2>1. file \in Files BY DEF Init, Files
  <2>2. raced \in BOOLEAN BY DEF Init
  <2>3. used \in [late: 0 .. MaxFaults, failed: 0 .. MaxFaults, deaths: 0 .. MaxFaults]
    BY DEF Init
  <2> QED BY <2>1, <2>2, <2>3 DEF Init, LockTypeOK, Readers
<1>2. Apart /\ Tabled /\ Living
  BY DEF Init, Apart, Tabled, Living, Busy, Acquiring, Holds, Runs
<1>3. Reliable
  BY DEF Init, Reliable, MayStillTake, StillOwn, StillBeats, OnFile, InTime, Holds
<1> QED BY <1>1, <1>2, <1>3 DEF IInv, RInv

-----------------------------------------------------------------------------
\* The inductive invariant, action by action.

LEMMA LookOK ==
  ASSUME IInv, NEW h \in Handles, Look(h) PROVE IInv'
<1> USE LockAssumption DEF IInv, Look, Goto
<1>1. LockTypeOK' BY DEF LockTypeOK
<1>2. Apart'
  BY DEF LockTypeOK, Apart, Tabled, Busy, Acquiring, Holds, Free
<1>3. Tabled' /\ Living' BY DEF LockTypeOK, Tabled, Living, Holds, Runs
<1> QED BY <1>1, <1>2, <1>3

LEMMA ReadOK ==
  ASSUME IInv, NEW h \in Handles, Read(h) PROVE IInv'
<1> USE LockAssumption DEF IInv, Read, Goto, Reads, Taking
<1>1. LockTypeOK' BY DEF LockTypeOK, Readers
<1>2. Apart' BY DEF LockTypeOK, Apart, Busy, Acquiring, Holds
<1>3. Tabled' /\ Living' BY DEF LockTypeOK, Tabled, Living, Holds, Runs
<1> QED BY <1>1, <1>2, <1>3

LEMMA WriteOK ==
  ASSUME IInv, NEW h \in Handles, Write(h) PROVE IInv'
<1> USE LockAssumption DEF IInv, Write, Goto, Register
<1>1. LockTypeOK'
  <2>1. file' \in Files
    <3>1. ProcOf[h] \in Procs OBVIOUS
    <3>2. Fresh(h) \in Files BY <3>1 DEF Fresh, Files
    <3> QED BY <3>2 DEF LockTypeOK, Becomes
  <2>2. raced' \in BOOLEAN BY DEF LockTypeOK, Becomes
  <2>3. used' \in [late: 0 .. MaxFaults, failed: 0 .. MaxFaults, deaths: 0 .. MaxFaults]
    BY DEF LockTypeOK, Spend
  <2>4. current' \subseteq Readers BY DEF LockTypeOK, Becomes
  <2> QED BY <2>1, <2>2, <2>3, <2>4 DEF LockTypeOK
<1>2. Apart' BY DEF LockTypeOK, Apart, Busy, Acquiring, Holds
<1>3. Tabled'
  <2> SUFFICES ASSUME NEW k \in Handles, Holds(k)', ProcOf[k] \notin overlapped
               PROVE  holder'[ProcOf[k]] = k
    BY DEF Tabled
  <2>1. CASE k = h BY <2>1 DEF LockTypeOK, Holds
  <2>2. CASE k # h
    <3>1. Holds(k) /\ holder[ProcOf[k]] = k BY <2>2 DEF LockTypeOK, Holds, Tabled
    <3>2. ProcOf[k] # ProcOf[h] BY <2>2, <3>1 DEF Apart, Busy, Acquiring
    <3> QED BY <3>1, <3>2 DEF LockTypeOK
  <2> QED BY <2>1, <2>2
<1>4. Living' BY DEF LockTypeOK, Living, Runs
<1> QED BY <1>1, <1>2, <1>3, <1>4

LEMMA ReleaseOK ==
  ASSUME IInv, NEW h \in Handles, Release(h) PROVE IInv'
<1> USE LockAssumption DEF IInv, Release, Goto, Reads
<1>1. LockTypeOK' BY DEF LockTypeOK, Readers
<1>2. Apart' BY DEF LockTypeOK, Apart, Busy, Acquiring, Holds
<1>3. Tabled' BY DEF LockTypeOK, Tabled, Holds
<1>4. Living' BY DEF LockTypeOK, Living, Runs
<1> QED BY <1>1, <1>2, <1>3, <1>4

LEMMA RemoveOK ==
  ASSUME IInv, NEW h \in Handles, Remove(h) PROVE IInv'
<1> USE LockAssumption DEF IInv, Remove, Goto, Becomes
<1>1. LockTypeOK' BY DEF LockTypeOK, Files
<1>2. Apart' BY DEF LockTypeOK, Apart, Busy, Acquiring, Holds
<1>3. Tabled' /\ Living' BY DEF LockTypeOK, Tabled, Living, Holds, Runs
<1> QED BY <1>1, <1>2, <1>3

LEMMA HeartbeatOK ==
  ASSUME IInv, NEW h \in Handles, Beat(h) \/ Touch(h) PROVE IInv'
<1> USE LockAssumption DEF IInv, Beat, Touch, Becomes, Reads, Fresh
<1>1. LockTypeOK'
  <2>1. file' \in Files
    <3>1. ProcOf[h] \in Procs OBVIOUS
    <3>2. Fresh(h) \in Files BY <3>1 DEF Files
    <3> QED BY <3>2 DEF LockTypeOK
  <2>2. raced' \in BOOLEAN BY DEF LockTypeOK
  <2> QED BY <2>1, <2>2 DEF LockTypeOK, Readers
<1>2. Apart' /\ Tabled' /\ Living'
  BY DEF Apart, Tabled, Living, Busy, Acquiring, Holds, Runs
<1> QED BY <1>1, <1>2

LEMMA ExpireOK ==
  ASSUME IInv, Expire PROVE IInv'
<1> USE LockAssumption DEF IInv, Expire
<1>1. LockTypeOK'
  <2>1. file' \in Files
    <3>1. file \in [pid: Procs, expired: BOOLEAN] BY DEF LockTypeOK, Files
    <3> QED BY <3>1 DEF Files
  <2>2. used' \in [late: 0 .. MaxFaults, failed: 0 .. MaxFaults, deaths: 0 .. MaxFaults]
    BY DEF LockTypeOK, Spend
  <2> QED BY <2>1, <2>2 DEF LockTypeOK
<1>2. Apart' /\ Tabled' /\ Living'
  BY DEF Apart, Tabled, Living, Busy, Acquiring, Holds, Runs
<1> QED BY <1>1, <1>2

LEMMA DieOK ==
  ASSUME IInv, NEW p \in Procs, Die(p) PROVE IInv'
<1> USE LockAssumption DEF IInv, Die
<1>1. LockTypeOK' BY DEF LockTypeOK, Spend
<1>2. Apart' BY DEF LockTypeOK, Apart, Busy, Acquiring, Holds
<1>3. Tabled' BY DEF LockTypeOK, Tabled, Holds
<1>4. Living' BY DEF LockTypeOK, Living, Runs
<1> QED BY <1>1, <1>2, <1>3, <1>4

LEMMA RestartOK ==
  ASSUME IInv, NEW p \in Procs, Restart(p) PROVE IInv'
<1> USE LockAssumption DEF IInv, Restart
<1>1. LockTypeOK' BY DEF LockTypeOK
<1>2. Apart' /\ Tabled' /\ Living'
  BY DEF Apart, Tabled, Living, Busy, Acquiring, Holds, Runs
<1> QED BY <1>1, <1>2

LEMMA StepOK == ASSUME IInv, [Next]_vars PROVE IInv'
<1>1. CASE Next
  BY <1>1, LookOK, ReadOK, WriteOK, ReleaseOK, RemoveOK, HeartbeatOK, ExpireOK, DieOK,
     RestartOK DEF Next
<1>2. CASE UNCHANGED vars
  BY <1>2 DEF vars, IInv, LockTypeOK, Apart, Tabled, Living, Busy, Acquiring, Holds, Runs
<1> QED BY <1>1, <1>2

THEOREM Invariance == Spec => []IInv
<1>1. Init => IInv BY InitOK
<1>2. IInv /\ [Next]_vars => IInv' BY StepOK
<1> QED BY <1>1, <1>2, PTL DEF Spec


-----------------------------------------------------------------------------
\* Readings that are current.  Nothing that went wrong is ever forgotten, so
\* a clean state follows a clean one.

\* An empty set of readings says nothing.
LEMMA NoReadings ==
  ASSUME current' = {} PROVE MayStillTake' /\ StillOwn' /\ StillBeats'
BY DEF MayStillTake, StillOwn, StillBeats

LEMMA LookReliable ==
  ASSUME IInv, RInv, NEW h \in Handles, Look(h), Clean' PROVE Reliable'
<1> USE LockAssumption DEF Look, Goto, IInv
<1>1. Clean /\ Reliable BY DEF RInv, Clean, LockTypeOK
<1>2. MayStillTake' BY <1>1 DEF Reliable, MayStillTake, MayTake, Stale, LockTypeOK
<1>3. StillOwn' BY <1>1 DEF Reliable, StillOwn, Own, Holds, LockTypeOK
<1>4. StillBeats' BY <1>1 DEF Reliable, StillBeats
<1>5. OnFile' /\ InTime' BY <1>1 DEF Reliable, OnFile, InTime, Holds, LockTypeOK
<1> QED BY <1>2, <1>3, <1>4, <1>5 DEF Reliable

LEMMA ReadReliable ==
  ASSUME IInv, RInv, NEW h \in Handles, Read(h), Clean' PROVE Reliable'
<1> USE LockAssumption DEF Read, Goto, IInv
<1>1. Clean /\ Reliable BY DEF RInv, Clean
<1>2. MayStillTake'
  <2> SUFFICES ASSUME NEW k \in Handles, <<k, "call">> \in current',
                      pc'[k] \in {"writing", "claiming"}
               PROVE  MayTake(k)'
    BY DEF MayStillTake
  <2>1. CASE k = h BY <2>1 DEF MayTake, Stale, LockTypeOK
  <2>2. CASE k # h BY <1>1, <2>2 DEF Reliable, MayStillTake, MayTake, Stale, Reads, LockTypeOK
  <2> QED BY <2>1, <2>2
<1>3. StillOwn'
  <2> SUFFICES ASSUME NEW k \in Handles, <<k, "call">> \in current', pc'[k] = "removing"
               PROVE  Own(k)' /\ \A g \in Handles : ProcOf[g] = ProcOf[k] => ~Holds(g)'
    BY DEF StillOwn
  <2>1. k # h BY DEF Taking, LockTypeOK
  <2>2. <<k, "call">> \in current /\ pc[k] = "removing" BY <2>1 DEF Reads, LockTypeOK
  <2>3. \A g \in Handles : Holds(g)' => Holds(g) BY DEF Holds, Taking, LockTypeOK
  <2> QED BY <1>1, <2>2, <2>3 DEF Reliable, StillOwn, Own
<1>4. StillBeats' BY <1>1 DEF Reliable, StillBeats, Reads
<1>5. OnFile' /\ InTime'
  <2>1. \A g \in Handles : Holds(g)' => Holds(g) BY DEF Holds, Taking, LockTypeOK
  <2> QED BY <1>1, <2>1 DEF Reliable, OnFile, InTime
<1> QED BY <1>2, <1>3, <1>4, <1>5 DEF Reliable

\* What a writer leaves is a file under its own pid whose lease runs.
LEMMA FreshFile ==
  ASSUME NEW h \in Handles
  PROVE  Fresh(h) # NoFile /\ Fresh(h).pid = ProcOf[h] /\ ~Fresh(h).expired
<1>1. ProcOf[h] \in Procs BY LockAssumption
<1>2. Fresh(h) \in [pid: Procs, expired: BOOLEAN] BY <1>1 DEF Fresh
<1>3. Fresh(h) # NoFile BY <1>2, LockAssumption
<1>4. Fresh(h).pid = ProcOf[h] BY DEF Fresh
<1>5. ~Fresh(h).expired BY DEF Fresh
<1> QED BY <1>3, <1>4, <1>5

\* Whoever writes on a current reading finds no other holder.
LEMMA WriteReliable ==
  ASSUME IInv, RInv, NEW h \in Handles, Write(h), Clean' PROVE Reliable'
<1> USE LockAssumption DEF Write, IInv
<1>1. used'.failed = 0 BY DEF Clean
<1>2. ~Spend("failed") BY <1>1 DEF Spend, LockTypeOK
<1>3. Becomes(Fresh(h), <<h, "call">>) /\ Register(h) /\ UNCHANGED used BY <1>2
<1>4. Clean /\ Reliable /\ <<h, "call">> \in current
  BY <1>3 DEF RInv, Clean, Becomes
<1>5. MayTake(h) BY <1>4 DEF Reliable, MayStillTake
<1>6. \A k \in Handles : Holds(k)' => k = h \/ Holds(k)
  BY <1>3 DEF Holds, Register, Goto, LockTypeOK
<1>7. ASSUME used.late = 0, NEW k \in Handles, Holds(k), k # h PROVE FALSE
  <2>1. k = latest /\ ~file.expired BY <1>4, <1>7 DEF Reliable, InTime
  <2>2. file # NoFile /\ file.pid = ProcOf[k] BY <1>4, <1>7, <2>1 DEF Reliable, OnFile
  <2>3. ProcOf[k] \in alive BY <1>7 DEF Living, Holds, Runs
  <2>4. ProcOf[h] = ProcOf[k] BY <1>5, <2>1, <2>2, <2>3 DEF MayTake, Stale
  <2>5. Busy(h) /\ Busy(k) BY <1>7 DEF Busy, Acquiring
  <2> QED BY <1>4, <1>7, <2>4, <2>5 DEF Apart, Clean
<1>8. OnFile'
  <2>1. file' # NoFile /\ file'.pid = ProcOf[h] BY <1>3, FreshFile DEF Becomes
  <2> QED BY <1>3, <2>1 DEF OnFile, Register
<1>9. InTime'
  <2>1. ~file'.expired BY <1>3, FreshFile DEF Becomes
  <2>2. \A k \in Handles : used.late = 0 /\ Holds(k)' => k = h BY <1>6, <1>7
  <2> QED BY <1>3, <2>1, <2>2 DEF InTime, Register
<1>10. MayStillTake' /\ StillOwn' /\ StillBeats' BY <1>3, NoReadings DEF Becomes
<1> QED BY <1>8, <1>9, <1>10 DEF Reliable

LEMMA ReleaseReliable ==
  ASSUME IInv, RInv, NEW h \in Handles, Release(h), Clean' PROVE Reliable'
<1> USE LockAssumption DEF Release, Goto, IInv
<1>1. Clean /\ Reliable BY DEF RInv, Clean
<1>2. \A k \in Handles : Holds(k)' => Holds(k) /\ k # h BY DEF Holds, LockTypeOK
<1>3. MayStillTake' BY <1>1 DEF Reliable, MayStillTake, MayTake, Stale, Reads, LockTypeOK
<1>4. StillOwn'
  <2> SUFFICES ASSUME NEW k \in Handles, <<k, "call">> \in current', pc'[k] = "removing"
               PROVE  Own(k)' /\ \A g \in Handles : ProcOf[g] = ProcOf[k] => ~Holds(g)'
    BY DEF StillOwn
  <2>1. CASE k = h
    <3>1. Own(h)' BY <2>1 DEF Own, LockTypeOK
    <3>2. ASSUME NEW g \in Handles, ProcOf[g] = ProcOf[h], Holds(g)' PROVE FALSE
      BY <1>1, <1>2, <3>2 DEF Apart, Busy, Clean
    <3> QED BY <2>1, <3>1, <3>2
  <2>2. CASE k # h
    <3>1. <<k, "call">> \in current /\ pc[k] = "removing" BY <2>2 DEF Reads, LockTypeOK
    <3> QED BY <1>1, <1>2, <3>1 DEF Reliable, StillOwn, Own
  <2> QED BY <2>1, <2>2
<1>5. StillBeats' BY <1>1 DEF Reliable, StillBeats, Reads
<1>6. OnFile' /\ InTime' BY <1>1, <1>2 DEF Reliable, OnFile, InTime
<1> QED BY <1>3, <1>4, <1>5, <1>6 DEF Reliable

\* Whoever removes on a current reading removes no holder's file.
LEMMA RemoveReliable ==
  ASSUME IInv, RInv, NEW h \in Handles, Remove(h), Clean' PROVE Reliable'
<1> USE LockAssumption DEF Remove, Goto, Becomes, IInv
<1>1. Clean /\ Reliable /\ <<h, "call">> \in current BY DEF RInv, Clean
<1>2. Own(h) /\ \A k \in Handles : ProcOf[k] = ProcOf[h] => ~Holds(k)
  BY <1>1 DEF Reliable, StillOwn
<1>3. \A k \in Handles : Holds(k)' => Holds(k) BY DEF Holds, LockTypeOK
<1>4. \A k \in Handles : ~(k = latest /\ Holds(k))
  BY <1>1, <1>2 DEF Reliable, OnFile, Own
<1>5. OnFile' BY <1>3, <1>4 DEF OnFile
<1>6. InTime' BY <1>1, <1>3, <1>4 DEF Reliable, InTime
<1> QED BY <1>5, <1>6, NoReadings DEF Reliable

LEMMA BeatReliable ==
  ASSUME IInv, RInv, NEW h \in Handles, Beat(h), Clean' PROVE Reliable'
<1> USE LockAssumption DEF Beat, Reads, IInv
<1>1. Clean /\ Reliable BY DEF RInv, Clean
<1>2. MayStillTake' BY <1>1 DEF Reliable, MayStillTake, MayTake, Stale
<1>3. StillOwn' BY <1>1 DEF Reliable, StillOwn, Own, Holds
<1>4. StillBeats' BY <1>1 DEF Reliable, StillBeats
<1>5. OnFile' /\ InTime' BY <1>1 DEF Reliable, OnFile, InTime, Holds
<1> QED BY <1>2, <1>3, <1>4, <1>5 DEF Reliable

\* A Touch on a current reading refreshes a file that was already its own.
LEMMA TouchReliable ==
  ASSUME IInv, RInv, NEW h \in Handles, Touch(h), Clean' PROVE Reliable'
<1> USE LockAssumption DEF Touch, Becomes, IInv
<1>1. Clean /\ Reliable /\ <<h, "beat">> \in current BY DEF RInv, Clean
<1>2. file # NoFile /\ file.pid = ProcOf[h] BY <1>1 DEF Reliable, StillBeats
<1>3. file' # NoFile /\ file'.pid = ProcOf[h] /\ ~file'.expired BY FreshFile
<1>4. OnFile' BY <1>1, <1>2, <1>3 DEF Reliable, OnFile, Holds
<1>5. InTime' BY <1>1, <1>3 DEF Reliable, InTime, Holds
<1> QED BY <1>4, <1>5, NoReadings DEF Reliable

\* A lease runs out in time only where nobody holds the lock.
LEMMA ExpireReliable ==
  ASSUME IInv, RInv, Expire, Clean' PROVE Reliable'
<1> USE LockAssumption DEF Expire, IInv
<1>1. used'.failed = used.failed /\ (used'.late = 0 => used.late = 0 /\ ~Attended)
  BY DEF LockTypeOK, Spend
<1>2. Clean /\ Reliable BY <1>1 DEF RInv, Clean
<1>3. file \in [pid: Procs, expired: BOOLEAN] BY DEF LockTypeOK, Files
<1>4. file' # NoFile /\ file'.pid = file.pid /\ file'.expired BY <1>3
<1>5. MayStillTake' BY <1>2, <1>4 DEF Reliable, MayStillTake, MayTake, Stale
<1>6. StillOwn' BY <1>2, <1>4 DEF Reliable, StillOwn, Own, Holds
<1>7. StillBeats' BY <1>2, <1>4 DEF Reliable, StillBeats
<1>8. OnFile' BY <1>2, <1>4 DEF Reliable, OnFile, Holds
<1>9. InTime'
  <2> SUFFICES ASSUME used'.late = 0, NEW h \in Handles, Holds(h)' PROVE FALSE
    BY DEF InTime
  <2>1. Holds(h) /\ h = latest BY <1>1, <1>2 DEF Holds, Reliable, InTime
  <2>2. file.pid = ProcOf[h] BY <1>2, <2>1 DEF Reliable, OnFile
  <2> QED BY <1>1, <2>1, <2>2 DEF Attended, Holds
<1> QED BY <1>5, <1>6, <1>7, <1>8, <1>9 DEF Reliable

LEMMA DieReliable ==
  ASSUME IInv, RInv, NEW p \in Procs, Die(p), Clean' PROVE Reliable'
<1> USE LockAssumption DEF Die, IInv
<1>1. used'.failed = used.failed /\ used'.late = used.late BY DEF LockTypeOK, Spend
<1>2. Clean /\ Reliable BY <1>1 DEF RInv, Clean
<1>3. \A k \in Handles : pc'[k] # "idle" => pc'[k] = pc[k] BY DEF LockTypeOK
<1>4. \A k \in Handles : Holds(k)' => Holds(k) BY <1>3 DEF Holds
<1>5. MayStillTake' BY <1>2, <1>3 DEF Reliable, MayStillTake, MayTake, Stale
<1>6. StillOwn' BY <1>2, <1>3, <1>4 DEF Reliable, StillOwn, Own
<1>7. StillBeats' BY <1>2 DEF Reliable, StillBeats
<1>8. OnFile' /\ InTime' BY <1>1, <1>2, <1>4 DEF Reliable, OnFile, InTime
<1> QED BY <1>5, <1>6, <1>7, <1>8 DEF Reliable

LEMMA RestartReliable ==
  ASSUME IInv, RInv, NEW p \in Procs, Restart(p), Clean' PROVE Reliable'
<1> USE DEF Restart
<1>1. Clean /\ Reliable BY DEF RInv, Clean
<1>2. OnFile' /\ InTime' BY <1>1 DEF Reliable, OnFile, InTime, Holds
<1> QED BY <1>2, NoReadings DEF Reliable

LEMMA StepReliable == ASSUME IInv, RInv, [Next]_vars PROVE RInv'
<1> SUFFICES ASSUME Clean' PROVE Reliable' BY DEF RInv
<1>1. CASE Next
  BY <1>1, LookReliable, ReadReliable, WriteReliable, ReleaseReliable, RemoveReliable,
     BeatReliable, TouchReliable, ExpireReliable, DieReliable, RestartReliable DEF Next
<1>2. CASE UNCHANGED vars
  <2>1. Clean /\ Reliable BY <1>2 DEF RInv, Clean, vars
  <2> QED BY <1>2, <2>1 DEF vars, Reliable, MayStillTake, StillOwn, StillBeats, OnFile, InTime,
                            MayTake, Stale, Own, Holds
<1> QED BY <1>1, <1>2

-----------------------------------------------------------------------------
\* The state of the lock keeps its types (LockTypeOK).
THEOREM LockTypes == Spec => []LockTypeOK
<1>1. IInv => LockTypeOK BY DEF IInv
<1> QED BY <1>1, Invariance, PTL

\* procHolders keeps the handles of one process apart, whatever happens to
\* the file, unless two of them are in Acquire at once.
THEOREM ApartInAProcess == Spec => []HandlesAreApart
<1>1. IInv => HandlesAreApart BY DEF IInv, Apart, Busy, HandlesAreApart
<1> QED BY <1>1, Invariance, PTL

LEMMA Reliability == Spec => [](IInv /\ RInv)
<1>1. Init => IInv /\ RInv BY InitOK
<1>2. IInv /\ RInv /\ [Next]_vars => (IInv /\ RInv)' BY StepOK, StepReliable
<1> QED BY <1>1, <1>2, PTL DEF Spec

\* Pid, lease and deaths exclude all holders but one, as long as nobody acts
\* on an outdated reading and heartbeats and writes come through.
THEOREM ExclusionUnlessRaced == Spec => []OnlyRacesBreakExclusion
<1>1. IInv /\ RInv => OnlyRacesBreakExclusion
  BY DEF RInv, Clean, Reliable, InTime, OnlyRacesBreakExclusion
<1> QED BY <1>1, Reliability, PTL

\* A predecessor that lost its lease leaves the file of its successor alone,
\* as long as nobody acts on an outdated reading.
THEOREM SuccessorKept == Spec => []SuccessorIsOnFile
<1>1. IInv /\ RInv => SuccessorIsOnFile
  BY DEF RInv, Clean, Reliable, OnFile, SuccessorIsOnFile
<1> QED BY <1>1, Reliability, PTL

=============================================================================
