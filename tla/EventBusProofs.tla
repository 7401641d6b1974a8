--------------------------- MODULE EventBusProofs ---------------------------
(***************************************************************************)
(* Theorems about EventBus, for every value of its constants: its types,   *)
(* that a live subscription loses no control event, that every telemetry   *)
(* event is accounted for, and that the bus implements the safety part of  *)
(* ControlChannel.  All rest on one inductive invariant, IInv.  Two more   *)
(* build on it: OrderInv, for the order of one publisher's events, and     *)
(* PaceInv, for the bounds of the dispatch loop.                           *)
(***************************************************************************)
EXTENDS EventBus, SequenceTheorems, TLAPS

\* The variables TypeOK leaves out, typed.
Bookkeeping ==
  /\ sent \in [Publishers -> 0..MaxEvents]
  /\ publish \in [Publishers -> [ev : Events \cup {None}, todo : SUBSET Subs, nudge : Subs \cup {None}]]
  /\ \A p \in Publishers : publish[p].todo # {} => publish[p].ev \in Events
  /\ closing \in [Closers -> [at : {"idle", "cancelling", "joined", "returned"}, todo : SUBSET Subs]]
  /\ offered \in [Subs -> [control : Nat, telemetry : Nat]]

\* Only subscriptions that were made are registered, cancelled or to be
\* cancelled.
OnlySubscribed ==
  /\ \A s \in registered : loop[s] # "none"
  /\ \A c \in Closers : \A s \in closing[c].todo : loop[s] # "none"
  /\ \A s \in Subs : done[s] => loop[s] # "none"

\* Where the loop can have a telemetry event in its hands.
Hands ==
  \A s \in Subs :
    /\ loop[s] \in {"none", "outer", "inner"} => inHand[s] = None
    /\ loop[s] \in {"holding", "handle"} => inHand[s] # None
    /\ (yielded[s] # None) <=> (loop[s] = "yielded")

\* What the handler was given of the control queue; a loop about to call it
\* has just taken the next event.
Taken ==
  \A s \in Subs :
    /\ Len(controlQ[s]) = offered[s].control
    /\ Len(took[s]) <= head[s]
    /\ took[s] = SubSeq(controlQ[s], 1, Len(took[s]))
    /\ InFlight(s) => head[s] > 0
    /\ ~done[s] => Len(took[s]) = head[s] - (IF InFlight(s) THEN 1 ELSE 0)
    /\ loop[s] = "control" => Len(took[s]) = head[s] - 1

IInv == TypeOK /\ Bookkeeping /\ OnlySubscribed /\ Hands /\ Taken /\ TelemetryIsAccounted

\* Appending to a sequence leaves its prefixes alone.
LEMMA PrefixOfAppend ==
  ASSUME NEW S, NEW q \in Seq(S), NEW e \in S, NEW k \in 0..Len(q)
  PROVE  /\ SubSeq(Append(q, e), 1, k) = SubSeq(q, 1, k)
         /\ SubSeq(Append(q, e), k + 1, Len(Append(q, e))) = Append(SubSeq(q, k + 1, Len(q)), e)
<1>1. SubSeq(Append(q, e), 1, k) = SubSeq(q, 1, k)
  <2>1. SubSeq(Append(q, e), 1, k) \in Seq(S) /\ SubSeq(q, 1, k) \in Seq(S) OBVIOUS
  <2>2. Len(SubSeq(Append(q, e), 1, k)) = k /\ Len(SubSeq(q, 1, k)) = k OBVIOUS
  <2>3. \A i \in 1..k : SubSeq(Append(q, e), 1, k)[i] = SubSeq(q, 1, k)[i] OBVIOUS
  <2> QED BY <2>1, <2>2, <2>3, SeqEqual
<1>2. SubSeq(Append(q, e), k + 1, Len(Append(q, e))) = Append(SubSeq(q, k + 1, Len(q)), e)
  <2> DEFINE a == SubSeq(Append(q, e), k + 1, Len(Append(q, e)))
             b == Append(SubSeq(q, k + 1, Len(q)), e)
  <2>1. a \in Seq(S) /\ b \in Seq(S) OBVIOUS
  <2>2. Len(a) = Len(q) + 1 - k /\ Len(b) = Len(q) + 1 - k OBVIOUS
  <2>3. ASSUME NEW i \in 1..(Len(q) + 1 - k) PROVE a[i] = b[i]
    <3>1. Len(SubSeq(q, k + 1, Len(q))) = Len(q) - k OBVIOUS
    <3>2. a[i] = Append(q, e)[k + i] BY k + i \in 1..(Len(q) + 1)
    <3>3. CASE i = Len(q) + 1 - k BY <3>1, <3>2, <3>3
    <3>4. CASE i \in 1..(Len(q) - k)
      <4>1. b[i] = SubSeq(q, k + 1, Len(q))[i] BY <3>1, <3>4
      <4>2. SubSeq(q, k + 1, Len(q))[i] = q[k + i] BY <3>4
      <4> QED BY <3>2, <3>4, <4>1, <4>2
    <3> QED BY <3>3, <3>4
  <2> QED BY <2>1, <2>2, <2>3, SeqEqual
<1> QED BY <1>1, <1>2

\* A prefix grows by the element that follows it, which leaves the rest.
LEMMA NextOfPrefix ==
  ASSUME NEW S, NEW q \in Seq(S), NEW k \in 0..Len(q), k < Len(q)
  PROVE  /\ Append(SubSeq(q, 1, k), q[k + 1]) = SubSeq(q, 1, k + 1)
         /\ SubSeq(q, k + 1, Len(q)) # <<>>
         /\ Head(SubSeq(q, k + 1, Len(q))) = q[k + 1]
         /\ Tail(SubSeq(q, k + 1, Len(q))) = SubSeq(q, k + 2, Len(q))
<1>1. Append(SubSeq(q, 1, k), q[k + 1]) = SubSeq(q, 1, k + 1)
  <2> DEFINE a == Append(SubSeq(q, 1, k), q[k + 1])
             b == SubSeq(q, 1, k + 1)
  <2>1. a \in Seq(S) /\ b \in Seq(S) OBVIOUS
  <2>2. Len(a) = k + 1 /\ Len(b) = k + 1 OBVIOUS
  <2>3. \A i \in 1..(k + 1) : a[i] = b[i] OBVIOUS
  <2> QED BY <2>1, <2>2, <2>3, SeqEqual
<1>2. /\ SubSeq(q, k + 1, Len(q)) # <<>>
      /\ Head(SubSeq(q, k + 1, Len(q))) = q[k + 1]
  <2> DEFINE w == SubSeq(q, k + 1, Len(q))
  <2>1. w \in Seq(S) /\ Len(w) = Len(q) - k /\ w[1] = q[k + 1] OBVIOUS
  <2> HIDE DEF w
  <2>2. Len(w) > 0 BY <2>1
  <2>3. w # <<>> BY <2>2
  <2>4. Head(w) = w[1] BY <2>1, <2>3
  <2> QED BY <2>1, <2>3, <2>4 DEF w
<1>3. Tail(SubSeq(q, k + 1, Len(q))) = SubSeq(q, k + 2, Len(q))
  <2> DEFINE w == SubSeq(q, k + 1, Len(q))
             b == SubSeq(q, k + 2, Len(q))
  <2>1. w \in Seq(S) /\ Len(w) = Len(q) - k OBVIOUS
  <2>0. w # <<>> BY <1>2
  <2>2. b \in Seq(S) /\ Len(b) = Len(q) - k - 1 OBVIOUS
  <2>3. Tail(w) \in Seq(S) /\ Len(Tail(w)) = Len(w) - 1 BY <2>0, <2>1
  <2>4. ASSUME NEW i \in 1..(Len(q) - k - 1) PROVE Tail(w)[i] = b[i]
    <3>1. Tail(w)[i] = w[i + 1] BY <2>0, <2>1
    <3>2. w[i + 1] = q[k + 1 + i] OBVIOUS
    <3>3. b[i] = q[k + 1 + i] OBVIOUS
    <3> QED BY <3>1, <3>2, <3>3
  <2> QED BY <2>1, <2>2, <2>3, <2>4, SeqEqual
<1> QED BY <1>1, <1>2, <1>3

\* Steps that take nothing from the control queue and give nothing to the
\* handler leave what was taken as it was.
LEMMA TakenKept ==
  ASSUME IInv, UNCHANGED <<controlQ, took, done, head>>,
         \A s \in Subs : offered'[s].control = offered[s].control,
         \A s \in Subs : InFlight(s)' <=> InFlight(s),
         \A s \in Subs : loop'[s] = "control" => loop[s] = "control"
  PROVE  Taken'
<1> USE DEF IInv
<1> SUFFICES ASSUME NEW s \in Subs
             PROVE  /\ Len(controlQ[s]) = offered[s].control
                    /\ Len(took[s]) <= head[s]
                    /\ took[s] = SubSeq(controlQ[s], 1, Len(took[s]))
                    /\ InFlight(s) => head[s] > 0
                    /\ ~done[s] => Len(took[s]) = head[s] - (IF InFlight(s) THEN 1 ELSE 0)
                    /\ loop'[s] = "control" => Len(took[s]) = head[s] - 1
  BY DEF Taken
<1> QED BY DEF Taken

\* Subscribing touches the loop and the registry only.
LEMMA SubscribeKeeps ==
  ASSUME IInv, NEW s \in Subs, Subscribe(s)
  PROVE  IInv'
<1> USE BusAssumption DEF IInv
<1>1. TypeOK' BY DEF TypeOK, Bookkeeping, Hands, Taken, Places, Subscribe, queues, history
<1>2. Bookkeeping' BY DEF TypeOK, Bookkeeping, Events, Subscribe, queues, history
<1>3. OnlySubscribed' BY DEF TypeOK, Bookkeeping, OnlySubscribed, Subscribe, queues, history
<1>4. Hands' BY DEF TypeOK, Hands, Subscribe, queues, history
<1>5. Taken' BY DEF TypeOK, Taken, Bookkeeping, InFlight, Subscribe, queues, history
<1>6. TelemetryIsAccounted'
  BY DEF TypeOK, Hands, Bookkeeping, TelemetryIsAccounted, One, Subscribe, queues, history
<1> QED BY <1>1, <1>2, <1>3, <1>4, <1>5, <1>6

\* Only registered subscriptions are withdrawn.
LEMMA WithdrawKeeps ==
  ASSUME IInv, NEW gone \in Withdrawn, Withdraw(gone)
  PROVE  IInv'
<1> USE BusAssumption DEF IInv
<1>1. TypeOK' BY DEF TypeOK, Bookkeeping, Hands, Taken, Places, Withdraw, queues, dispatch, history
<1>2. Bookkeeping' BY DEF TypeOK, Bookkeeping, Events, Withdraw, queues, dispatch, history
<1>3. OnlySubscribed'
  BY DEF TypeOK, Bookkeeping, OnlySubscribed, Withdraw, queues, dispatch, history, Withdrawn
<1>4. Hands' BY DEF TypeOK, Hands, Withdraw, queues, dispatch, history
<1>5. Taken' BY DEF TypeOK, Taken, Bookkeeping, InFlight, Withdraw, queues, dispatch, history
<1>6. TelemetryIsAccounted'
  BY DEF TypeOK, Hands, Bookkeeping, TelemetryIsAccounted, One, Withdraw, queues, dispatch,
      history
<1> QED BY <1>1, <1>2, <1>3, <1>4, <1>5, <1>6

\* A new event is numbered within the publisher's bound.
LEMMA PublishKeeps ==
  ASSUME IInv, NEW p \in Publishers, NEW t \in Types, Publish(p, t)
  PROVE  IInv'
<1> USE BusAssumption DEF IInv
<1>1. TypeOK' BY DEF TypeOK, Bookkeeping, Hands, Taken, Places, Publish, queues, dispatch, history
<1>2. Bookkeeping'
  <2>1. publish'[p].ev \in Events BY DEF Bookkeeping, Publish, Events
  <2>2. publish'[p].todo \in SUBSET Subs BY DEF TypeOK, Bookkeeping, Publish, Interested
  <2>3. publish' = [publish EXCEPT ![p] = publish'[p]] /\ publish'[p].nudge = None
    BY DEF Bookkeeping, Publish
  <2>4. publish'[p] \in [ev : Events \cup {None}, todo : SUBSET Subs, nudge : Subs \cup {None}]
    BY <2>1, <2>2, <2>3 DEF Bookkeeping, Publish
  <2>5. sent' \in [Publishers -> 0..MaxEvents] BY DEF Bookkeeping, Publish
  <2>6. UNCHANGED <<closing, offered>> BY DEF Publish, history
  <2> HIDE DEF IInv
  <2> QED BY <2>1, <2>3, <2>4, <2>5, <2>6 DEF Bookkeeping, IInv
<1>3. OnlySubscribed'
  BY DEF TypeOK, Bookkeeping, OnlySubscribed, Publish, queues, dispatch, history
<1>4. Hands' BY DEF TypeOK, Hands, Publish, queues, dispatch, history
<1>5. Taken' BY DEF TypeOK, Taken, Bookkeeping, InFlight, Publish, queues, dispatch, history
<1>6. TelemetryIsAccounted'
  BY DEF TypeOK, Hands, Bookkeeping, TelemetryIsAccounted, One, Publish, queues, dispatch,
      history
<1> QED BY <1>1, <1>2, <1>3, <1>4, <1>5, <1>6

\* A publisher that has served a subscription still holds an event for those
\* that are left.
LEMMA ServedType ==
  ASSUME IInv, NEW p \in Publishers, NEW s \in publish[p].todo,
         NEW nudge \in {s, None}, Served(p, s, nudge)
  PROVE  /\ publish' \in [Publishers -> [ev : Events \cup {None}, todo : SUBSET Subs, nudge : Subs \cup {None}]]
         /\ \A q \in Publishers : publish'[q].todo # {} => publish'[q].ev \in Events
         /\ publish[p].ev \in Events
<1> USE DEF IInv, Bookkeeping
<1> DEFINE T == [ev : Events \cup {None}, todo : SUBSET Subs, nudge : Subs \cup {None}]
<1>1. publish[p] \in T /\ publish[p].ev \in Events OBVIOUS
<1>2. Idle \in T /\ Idle.todo = {} BY DEF Idle
<1>3. [publish[p] EXCEPT !.todo = publish[p].todo \ {s}, !.nudge = nudge] \in T BY <1>1
<1>4. publish' = [publish EXCEPT ![p] = publish'[p]] /\ publish'[p] \in T
  BY <1>2, <1>3 DEF Served
<1>5. publish'[p].todo # {} => publish'[p].ev \in Events BY <1>1, <1>2 DEF Served
<1> QED BY <1>1, <1>4, <1>5

\* The queue grows at its end, behind what was taken.
LEMMA EnqueueControlKeeps ==
  ASSUME IInv, NEW p \in Publishers, NEW s \in Subs, EnqueueControl(p, s)
  PROVE  IInv'
<1> USE BusAssumption DEF IInv
<1>0. publish[p].ev \in Events BY ServedType DEF EnqueueControl
<1>1. TypeOK'
  <2>1. controlQ' \in [Subs -> Seq(Events)] /\ \A r \in Subs : Len(controlQ'[r]) >= Len(controlQ[r])
    BY <1>0 DEF TypeOK, EnqueueControl
  <2>2. \A r \in Subs : head[r] <= Len(controlQ'[r]) BY <2>1 DEF TypeOK
  <2> QED BY <2>1, <2>2 DEF TypeOK, EnqueueControl, dispatch
<1>2. Bookkeeping'
  <2>1. offered' \in [Subs -> [control : Nat, telemetry : Nat]]
    <3>1. offered[s] \in [control : Nat, telemetry : Nat] BY DEF Bookkeeping
    <3>2. [offered[s] EXCEPT !.control = @ + 1] \in [control : Nat, telemetry : Nat] BY <3>1
    <3>3. offered' = [offered EXCEPT ![s] = [offered[s] EXCEPT !.control = @ + 1]] BY DEF EnqueueControl
    <3> QED BY <3>2, <3>3 DEF Bookkeeping
  <2>2. UNCHANGED <<sent, closing>> BY DEF EnqueueControl
  <2> QED BY <2>1, <2>2, ServedType DEF Bookkeeping, EnqueueControl
<1>3. OnlySubscribed' BY DEF TypeOK, Bookkeeping, OnlySubscribed, EnqueueControl, Served, dispatch
<1>4. Hands' BY DEF TypeOK, Hands, EnqueueControl, Served, dispatch
<1>5. Taken'
  <2> SUFFICES ASSUME NEW r \in Subs
               PROVE  /\ Len(controlQ'[r]) = offered'[r].control
                      /\ took[r] = SubSeq(controlQ'[r], 1, Len(took[r]))
    <3>1. UNCHANGED <<took, head, done, loop>> BY DEF EnqueueControl, dispatch
    <3> QED BY <3>1 DEF Taken, InFlight
  <2>1. CASE r = s
    <3> DEFINE q == controlQ[s]
    <3>1. q \in Seq(Events) /\ Len(took[s]) \in 0..Len(q) BY DEF TypeOK, Taken
    <3>2. controlQ'[s] = Append(q, publish[p].ev) BY DEF TypeOK, EnqueueControl
    <3>3. offered'[s].control = offered[s].control + 1 BY DEF Bookkeeping, EnqueueControl
    <3> HIDE DEF q
    <3>4. SubSeq(Append(q, publish[p].ev), 1, Len(took[s])) = SubSeq(q, 1, Len(took[s]))
      BY <1>0, <3>1, PrefixOfAppend
    <3>5. took[s] = SubSeq(q, 1, Len(took[s])) /\ Len(q) = offered[s].control BY DEF Taken, q
    <3>6. Len(Append(q, publish[p].ev)) = Len(q) + 1 BY <1>0, <3>1
    <3> QED BY <2>1, <3>2, <3>3, <3>4, <3>5, <3>6
  <2>2. CASE r # s
    <3>1. controlQ'[r] = controlQ[r] /\ offered'[r] = offered[r] BY <2>2 DEF TypeOK, Bookkeeping, EnqueueControl
    <3> QED BY <3>1 DEF Taken
  <2> QED BY <2>1, <2>2
<1>6. TelemetryIsAccounted'
  BY DEF TypeOK, Hands, Bookkeeping, TelemetryIsAccounted, One, EnqueueControl, Served,
      dispatch
<1> QED BY <1>1, <1>2, <1>3, <1>4, <1>5, <1>6

\* The wake-up changes nothing that is counted.
LEMMA NudgeKeeps ==
  ASSUME IInv, NEW p \in Publishers, NEW s \in Subs, Nudge(p, s)
  PROVE  IInv'
<1> USE BusAssumption DEF IInv
<1>1. TypeOK' BY DEF TypeOK, Bookkeeping, Hands, Taken, Places, Nudge, dispatch, history
<1>2. Bookkeeping'
  <2> DEFINE T == [ev : Events \cup {None}, todo : SUBSET Subs, nudge : Subs \cup {None}]
  <2>1. publish[p] \in T /\ Idle \in T BY DEF Bookkeeping, Idle
  <2>2. [publish[p] EXCEPT !.nudge = None] \in T BY <2>1
  <2>3. publish' = [publish EXCEPT ![p] = publish'[p]] /\ publish'[p] \in T
    BY <2>1, <2>2 DEF Nudge, Bookkeeping
  <2>4. publish'[p].todo # {} => publish'[p].ev \in Events BY <2>1 DEF Nudge, Bookkeeping, Idle
  <2>5. UNCHANGED <<sent, closing, offered>> BY DEF Nudge, history
  <2> QED BY <2>3, <2>4, <2>5 DEF Bookkeeping
<1>3. OnlySubscribed' BY DEF TypeOK, Bookkeeping, OnlySubscribed, Nudge, dispatch, history
<1>4. Hands' BY DEF TypeOK, Hands, Nudge, dispatch, history
<1>5. Taken' BY DEF TypeOK, Taken, Bookkeeping, InFlight, Nudge, dispatch, history
<1>6. TelemetryIsAccounted'
  BY DEF TypeOK, Hands, Bookkeeping, TelemetryIsAccounted, One, Nudge, dispatch, history
<1> QED BY <1>1, <1>2, <1>3, <1>4, <1>5, <1>6

\* What does not fit is counted.
LEMMA OfferTelemetryKeeps ==
  ASSUME IInv, NEW p \in Publishers, NEW s \in Subs, OfferTelemetry(p, s)
  PROVE  IInv'
<1> USE BusAssumption DEF IInv
<1>0. publish[p].ev \in Events BY ServedType DEF OfferTelemetry
<1>1. TypeOK'
  <2>1. ch' \in [Subs -> Seq(Events)] /\ \A r \in Subs : Len(ch'[r]) <= Buffer
    <3>1. CASE Room(s)
      <4>1. Append(ch[s], publish[p].ev) \in Seq(Events) /\ Len(Append(ch[s], publish[p].ev)) <= Buffer
        BY <1>0, <3>1 DEF TypeOK, Room
      <4>2. ch' = [ch EXCEPT ![s] = Append(ch[s], publish[p].ev)] BY <3>1 DEF OfferTelemetry
      <4> QED BY <4>1, <4>2 DEF TypeOK
    <3>2. CASE ~Room(s) BY <3>2 DEF OfferTelemetry, TypeOK
    <3> QED BY <3>1, <3>2
  <2>2. dropped' \in [Subs -> Nat]
    <3>1. dropped[s] + 1 \in Nat BY DEF TypeOK
    <3>2. dropped' = dropped \/ dropped' = [dropped EXCEPT ![s] = dropped[s] + 1] BY DEF OfferTelemetry
    <3> QED BY <3>1, <3>2 DEF TypeOK
  <2>3. UNCHANGED <<closed, registered, done, controlQ, head, wake, dispatch, took, told>> BY DEF OfferTelemetry
  <2> QED BY <2>1, <2>2, <2>3 DEF TypeOK, dispatch
<1>2. Bookkeeping'
  <2>1. offered' \in [Subs -> [control : Nat, telemetry : Nat]]
    <3>1. offered[s] \in [control : Nat, telemetry : Nat] BY DEF Bookkeeping
    <3>2. [offered[s] EXCEPT !.telemetry = @ + 1] \in [control : Nat, telemetry : Nat] BY <3>1
    <3>3. offered' = [offered EXCEPT ![s] = [offered[s] EXCEPT !.telemetry = @ + 1]] BY DEF OfferTelemetry
    <3> QED BY <3>2, <3>3 DEF Bookkeeping
  <2>2. UNCHANGED <<sent, closing>> BY DEF OfferTelemetry
  <2> QED BY <2>1, <2>2, ServedType DEF Bookkeeping, OfferTelemetry
<1>3. OnlySubscribed' BY DEF TypeOK, Bookkeeping, OnlySubscribed, OfferTelemetry, Served, dispatch
<1>4. Hands' BY DEF TypeOK, Hands, OfferTelemetry, Served, dispatch
<1>5. Taken'
  <2>1. \A r \in Subs : (InFlight(r)' <=> InFlight(r)) /\ (loop'[r] = "control" => loop[r] = "control")
    BY DEF TypeOK, InFlight, OfferTelemetry, Served, dispatch
  <2>2. UNCHANGED <<controlQ, took, done, head>> /\ \A r \in Subs : offered'[r].control = offered[r].control
    BY DEF Bookkeeping, OfferTelemetry, Served, dispatch
  <2> QED BY <2>1, <2>2, TakenKept
<1>6. TelemetryIsAccounted'
  <2> SUFFICES ASSUME NEW r \in Subs
               PROVE  offered'[r].telemetry =
                        Len(told[r]) + Len(ch'[r]) + One(inHand[r]) + One(yielded[r]) + dropped'[r]
    BY DEF TelemetryIsAccounted, OfferTelemetry, dispatch, One
  <2>1. /\ Len(told[r]) \in Nat /\ Len(ch[r]) \in Nat /\ One(inHand[r]) \in Nat
        /\ One(yielded[r]) \in Nat /\ dropped[r] \in Nat /\ offered[r].telemetry \in Nat
    <3>1. offered[r] \in [control : Nat, telemetry : Nat] /\ dropped[r] \in Nat BY DEF TypeOK, Bookkeeping
    <3>2. Len(told[r]) \in Nat /\ Len(ch[r]) \in Nat BY DEF TypeOK
    <3>3. One(inHand[r]) \in Nat /\ One(yielded[r]) \in Nat BY DEF One
    <3> QED BY <3>1, <3>2, <3>3
  <2>2. offered[r].telemetry = Len(told[r]) + Len(ch[r]) + One(inHand[r]) + One(yielded[r]) + dropped[r]
    BY DEF TelemetryIsAccounted
  <2>3. CASE r # s
    <3>1. ch'[r] = ch[r] /\ dropped'[r] = dropped[r] /\ offered'[r] = offered[r]
      BY <2>3 DEF TypeOK, Bookkeeping, OfferTelemetry
    <3> QED BY <2>2, <3>1
  <2>4. CASE r = s
    <3> DEFINE o == offered[s].telemetry
               a == Len(told[s])
               b == Len(ch[s])
               i == One(inHand[s])
               y == One(yielded[s])
               d == dropped[s]
    <3>1. offered'[s].telemetry = o + 1 BY DEF Bookkeeping, OfferTelemetry
    <3>2. \/ Len(ch'[s]) = b + 1 /\ dropped'[s] = d
          \/ Len(ch'[s]) = b /\ dropped'[s] = d + 1
      <4>1. CASE Room(s)
        <5>1. ch' = [ch EXCEPT ![s] = Append(ch[s], publish[p].ev)] /\ dropped' = dropped
          BY <4>1 DEF OfferTelemetry
        <5>2. ch'[s] = Append(ch[s], publish[p].ev) /\ ch[s] \in Seq(Events) BY <5>1 DEF TypeOK
        <5> QED BY <1>0, <5>1, <5>2
      <4>2. CASE ~Room(s) BY <4>2 DEF TypeOK, OfferTelemetry
      <4> QED BY <4>1, <4>2
    <3>3. /\ o = a + b + i + y + d
          /\ a \in Nat /\ b \in Nat /\ i \in Nat /\ y \in Nat /\ d \in Nat
      BY <2>1, <2>2, <2>4
    <3>4. o + 1 = a + Len(ch'[s]) + i + y + dropped'[s]
      <4> HIDE DEF o, a, b, i, y, d
      <4>1. CASE Len(ch'[s]) = b + 1 /\ dropped'[s] = d BY <3>3, <4>1
      <4>2. CASE Len(ch'[s]) = b /\ dropped'[s] = d + 1 BY <3>3, <4>2
      <4> QED BY <3>2, <4>1, <4>2
    <3> QED BY <2>4, <3>1, <3>4
  <2> QED BY <2>3, <2>4
<1> QED BY <1>1, <1>2, <1>3, <1>4, <1>5, <1>6

\* What Close cancels was registered.
LEMMA CloseKeeps ==
  ASSUME IInv, NEW c \in Closers, Close(c)
  PROVE  IInv'
<1> USE BusAssumption DEF IInv
<1>1. TypeOK' BY DEF TypeOK, Bookkeeping, Hands, Taken, Places, Close, queues, dispatch, history
<1>2. Bookkeeping' BY DEF TypeOK, Bookkeeping, Events, Close, queues, dispatch, history
<1>3. OnlySubscribed' BY DEF TypeOK, Bookkeeping, OnlySubscribed, Close, queues, dispatch, history
<1>4. Hands' BY DEF TypeOK, Hands, Close, queues, dispatch, history
<1>5. Taken' BY DEF TypeOK, Taken, Bookkeeping, InFlight, Close, queues, dispatch, history
<1>6. TelemetryIsAccounted'
  BY DEF TypeOK, Hands, Bookkeeping, TelemetryIsAccounted, One, Close, queues, dispatch,
      history
<1> QED BY <1>1, <1>2, <1>3, <1>4, <1>5, <1>6

\* Cancelling one of them.
LEMMA CloseCancelKeeps ==
  ASSUME IInv, NEW c \in Closers, NEW s \in Subs, CloseCancel(c, s)
  PROVE  IInv'
<1> USE BusAssumption DEF IInv
<1>1. TypeOK'
  BY DEF TypeOK, Bookkeeping, Hands, Taken, Places, CloseCancel, queues, dispatch, history
<1>2. Bookkeeping' BY DEF TypeOK, Bookkeeping, Events, CloseCancel, queues, dispatch, history
<1>3. OnlySubscribed'
  BY DEF TypeOK, Bookkeeping, OnlySubscribed, CloseCancel, queues, dispatch, history
<1>4. Hands' BY DEF TypeOK, Hands, CloseCancel, queues, dispatch, history
<1>5. Taken' BY DEF TypeOK, Taken, Bookkeeping, InFlight, CloseCancel, queues, dispatch, history
<1>6. TelemetryIsAccounted'
  BY DEF TypeOK, Hands, Bookkeeping, TelemetryIsAccounted, One, CloseCancel, queues, dispatch,
      history
<1> QED BY <1>1, <1>2, <1>3, <1>4, <1>5, <1>6

\* Joining changes the call only.
LEMMA JoinKeeps ==
  ASSUME IInv, NEW c \in Closers, Join(c)
  PROVE  IInv'
<1> USE BusAssumption DEF IInv
<1>1. TypeOK' BY DEF TypeOK, Bookkeeping, Hands, Taken, Places, Join, queues, dispatch, history
<1>2. Bookkeeping'
  <2> DEFINE T == [at : {"idle", "cancelling", "joined", "returned"}, todo : SUBSET Subs]
  <2>1. [closing[c] EXCEPT !.at = "joined"] \in T BY DEF Bookkeeping
  <2>2. closing' \in [Closers -> T] BY <2>1 DEF Bookkeeping, Join
  <2>3. UNCHANGED <<sent, publish, offered>> BY DEF Join, history
  <2> QED BY <2>2, <2>3 DEF Bookkeeping
<1>3. OnlySubscribed' BY DEF TypeOK, Bookkeeping, OnlySubscribed, Join, queues, dispatch, history
<1>4. Hands' BY DEF TypeOK, Hands, Join, queues, dispatch, history
<1>5. Taken' BY DEF TypeOK, Taken, Bookkeeping, InFlight, Join, queues, dispatch, history
<1>6. TelemetryIsAccounted'
  BY DEF TypeOK, Hands, Bookkeeping, TelemetryIsAccounted, One, Join, queues, dispatch,
      history
<1> QED BY <1>1, <1>2, <1>3, <1>4, <1>5, <1>6

\* A cancelled loop may leave from any select.
LEMMA ExitKeeps ==
  ASSUME IInv, NEW s \in Subs, loop[s] \in {"outer", "inner", "holding", "yield"}, Exit(s)
  PROVE  IInv'
<1> USE BusAssumption DEF IInv
<1>1. TypeOK' BY DEF TypeOK, Bookkeeping, Hands, Taken, Places, Exit, Goto, Steps, queues, history
<1>2. Bookkeeping' BY DEF TypeOK, Bookkeeping, Events, Exit, Goto, Steps, queues, history
<1>3. OnlySubscribed'
  BY DEF TypeOK, Bookkeeping, OnlySubscribed, Exit, Goto, Steps, queues, history
<1>4. Hands' BY DEF TypeOK, Hands, Exit, Goto, Steps, queues, history
<1>5. Taken'
  <2>1. \A r \in Subs : (InFlight(r)' <=> InFlight(r)) /\ (loop'[r] = "control" => loop[r] = "control")
    BY DEF TypeOK, InFlight, Exit, Goto, Steps, queues, history
  <2>2. UNCHANGED <<controlQ, took, done, head>> /\ \A r \in Subs : offered'[r].control = offered[r].control
    BY DEF Bookkeeping, Exit, Goto, Steps, queues, history
  <2> QED BY <2>1, <2>2, TakenKept
<1>6. TelemetryIsAccounted'
  BY DEF TypeOK, Hands, Bookkeeping, TelemetryIsAccounted, One, Exit, Goto, Steps, queues,
      history
<1> QED BY <1>1, <1>2, <1>3, <1>4, <1>5, <1>6

\* Taking the token to start a drain.
LEMMA StartDrainKeeps ==
  ASSUME IInv, NEW s \in Subs, loop[s] \in {"outer", "inner", "holding"}, StartDrain(s)
  PROVE  IInv'
<1> USE BusAssumption DEF IInv
<1>1. TypeOK' BY DEF TypeOK, Bookkeeping, Hands, Taken, Places, StartDrain, Goto, Steps, history
<1>2. Bookkeeping' BY DEF TypeOK, Bookkeeping, Events, StartDrain, Goto, Steps, history
<1>3. OnlySubscribed' BY DEF TypeOK, Bookkeeping, OnlySubscribed, StartDrain, Goto, Steps, history
<1>4. Hands' BY DEF TypeOK, Hands, StartDrain, Goto, Steps, history
<1>5. Taken'
  <2>1. \A r \in Subs : (InFlight(r)' <=> InFlight(r)) /\ (loop'[r] = "control" => loop[r] = "control")
    BY DEF TypeOK, InFlight, StartDrain, Goto, Steps, history
  <2>2. UNCHANGED <<controlQ, took, done, head>> /\ \A r \in Subs : offered'[r].control = offered[r].control
    BY DEF Bookkeeping, StartDrain, Goto, Steps, history
  <2> QED BY <2>1, <2>2, TakenKept
<1>6. TelemetryIsAccounted'
  BY DEF TypeOK, Hands, Bookkeeping, TelemetryIsAccounted, One, StartDrain, Goto, Steps,
      history
<1> QED BY <1>1, <1>2, <1>3, <1>4, <1>5, <1>6

\* A select that finds nothing only moves the loop on.
LEMMA QuietKeeps ==
  ASSUME IInv, NEW s \in Subs, NEW to \in Places,
         <<loop[s], to>> \in {<<"outer", "inner">>, <<"holding", "handle">>, <<"yield", "swallow">>},
         Goto(s, to), UNCHANGED <<Steps, queues, n, inHand, yielded, history>>
  PROVE  IInv'
<1> USE BusAssumption DEF IInv
<1>1. TypeOK' BY DEF TypeOK, Bookkeeping, Hands, Taken, Places, Steps, queues, history, Goto
<1>2. Bookkeeping' BY DEF TypeOK, Bookkeeping, Events, Steps, queues, history, Goto
<1>3. OnlySubscribed' BY DEF TypeOK, Bookkeeping, OnlySubscribed, Steps, queues, history, Goto
<1>4. Hands' BY DEF TypeOK, Hands, Steps, queues, history, Goto
<1>5. Taken'
  <2>1. \A r \in Subs : (InFlight(r)' <=> InFlight(r)) /\ (loop'[r] = "control" => loop[r] = "control")
    BY DEF TypeOK, InFlight, Steps, queues, history, Goto
  <2>2. UNCHANGED <<controlQ, took, done, head>> /\ \A r \in Subs : offered'[r].control = offered[r].control
    BY DEF Bookkeeping, TypeOK, Steps, queues, history, Goto
  <2> QED BY <2>1, <2>2, TakenKept
<1>6. TelemetryIsAccounted'
  BY DEF TypeOK, Hands, Bookkeeping, TelemetryIsAccounted, One, Steps, queues, history, Goto
<1> QED BY <1>1, <1>2, <1>3, <1>4, <1>5, <1>6

\* The loop receives a telemetry event into one of its hands.
LEMMA ReceiveKeeps ==
  ASSUME IInv, NEW s \in Subs, Receive(s), UNCHANGED <<Steps, n, history>>,
         \/ /\ loop[s] = "inner" /\ Goto(s, "holding")
            /\ inHand' = [inHand EXCEPT ![s] = Head(ch[s])] /\ UNCHANGED yielded
         \/ /\ loop[s] = "yield" /\ Goto(s, "yielded")
            /\ yielded' = [yielded EXCEPT ![s] = Head(ch[s])] /\ UNCHANGED inHand
  PROVE  IInv'
<1> USE DEF IInv
<1>0. /\ Head(ch[s]) \in Events /\ Head(ch[s]) # None
      /\ Tail(ch[s]) \in Seq(Events) /\ Len(Tail(ch[s])) = Len(ch[s]) - 1
  <2>1. ch[s] \in Seq(Events) /\ ch[s] # <<>> BY DEF TypeOK, Receive
  <2>2. Head(ch[s]) \in Events BY <2>1
  <2> QED BY <2>1, <2>2, BusAssumption DEF Events
<1>1. TypeOK'
  <2>1. ch' \in [Subs -> Seq(Events)] /\ \A r \in Subs : Len(ch'[r]) <= Buffer
    <3>1. ch' = [ch EXCEPT ![s] = Tail(ch[s])] BY DEF Receive
    <3>2. ch \in [Subs -> Seq(Events)] /\ \A r \in Subs : Len(ch[r]) <= Buffer BY DEF TypeOK
    <3>3. Len(ch[s]) - 1 <= Buffer BY <3>2, BusAssumption
    <3> HIDE DEF IInv
    <3> QED BY <1>0, <3>1, <3>2, <3>3
  <2>2. inHand' \in [Subs -> Events \cup {None}] /\ yielded' \in [Subs -> Events \cup {None}]
    <3>1. inHand \in [Subs -> Events \cup {None}] /\ yielded \in [Subs -> Events \cup {None}] BY DEF TypeOK
    <3> HIDE DEF IInv
    <3> QED BY <1>0, <3>1
  <2>3. loop' \in [Subs -> Places] BY DEF TypeOK, Goto, Places
  <2> QED BY <2>1, <2>2, <2>3 DEF TypeOK, Receive, Steps, history
<1>2. Bookkeeping' BY DEF Bookkeeping, Steps, history
<1>3. OnlySubscribed'
  <2>1. \A r \in Subs : loop'[r] = "none" => loop[r] = "none" BY DEF TypeOK, Goto
  <2> QED BY <2>1 DEF OnlySubscribed, Steps, TypeOK, Bookkeeping
<1>4. Hands' BY <1>0 DEF TypeOK, Hands, Goto
<1>5. Taken'
  <2>1. \A r \in Subs : (InFlight(r)' <=> InFlight(r)) /\ (loop'[r] = "control" => loop[r] = "control")
    BY DEF TypeOK, InFlight, Goto
  <2>2. UNCHANGED <<controlQ, took, done, head>> /\ \A r \in Subs : offered'[r].control = offered[r].control
    BY DEF Steps, Receive, history
  <2> QED BY <2>1, <2>2, TakenKept
<1>6. TelemetryIsAccounted'
  <2> SUFFICES ASSUME NEW r \in Subs
               PROVE  offered[r].telemetry =
                        Len(told[r]) + Len(ch'[r]) + One(inHand'[r]) + One(yielded'[r]) + dropped[r]
    BY DEF TelemetryIsAccounted, Receive, history, One
  <2>1. offered[r].telemetry = Len(told[r]) + Len(ch[r]) + One(inHand[r]) + One(yielded[r]) + dropped[r]
    BY DEF TelemetryIsAccounted
  <2>2. CASE r # s
    <3>1. ch'[r] = ch[r] /\ inHand'[r] = inHand[r] /\ yielded'[r] = yielded[r]
      BY <2>2 DEF TypeOK, Receive
    <3> QED BY <2>1, <3>1
  <2>3. CASE r = s
    <3> DEFINE o == offered[s].telemetry
               a == Len(told[s])
               b == Len(ch[s])
               i == One(inHand[s])
               y == One(yielded[s])
               d == dropped[s]
    <3>1. Len(ch'[s]) = b - 1 BY <1>0 DEF TypeOK, Receive
    <3>2. \/ i = 0 /\ One(inHand'[s]) = 1 /\ One(yielded'[s]) = y
          \/ y = 0 /\ One(yielded'[s]) = 1 /\ One(inHand'[s]) = i
      BY <1>0 DEF TypeOK, Hands, One
    <3>3. /\ o = a + b + i + y + d
          /\ a \in Nat /\ b \in Nat /\ i \in Nat /\ y \in Nat /\ d \in Nat
      BY <2>1, <2>3 DEF TypeOK, One
    <3>4. o = a + (b - 1) + One(inHand'[s]) + One(yielded'[s]) + d
      <4> HIDE DEF o, a, b, i, y, d
      <4> QED BY <3>2, <3>3
    <3> QED BY <2>3, <3>1, <3>4
  <2> QED BY <2>2, <2>3
<1> QED BY <1>1, <1>2, <1>3, <1>4, <1>5, <1>6

\* The outer select.
LEMMA OuterKeeps ==
  ASSUME IInv, NEW s \in Subs, Outer(s)
  PROVE  IInv'
<1>1. CASE Exit(s) BY <1>1, ExitKeeps DEF Outer
<1>2. CASE StartDrain(s) BY <1>2, StartDrainKeeps DEF Outer
<1>3. CASE /\ loop[s] = "outer" /\ Goto(s, "inner")
             /\ UNCHANGED <<Steps, queues, n, inHand, yielded, history>>
  <2>1. "inner" \in Places BY DEF Places
  <2>2. IInv /\ loop[s] = "outer" /\ Goto(s, "inner") BY <1>3
  <2>3. UNCHANGED <<Steps, queues, n, inHand, yielded, history>> BY <1>3
  <2> QED BY <2>1, <2>2, <2>3, QuietKeeps
<1> QED BY <1>1, <1>2, <1>3 DEF Outer

\* The blocking select may take a telemetry event in hand.
LEMMA InnerKeeps ==
  ASSUME IInv, NEW s \in Subs, Inner(s)
  PROVE  IInv'
<1>1. CASE Exit(s) BY <1>1, ExitKeeps DEF Inner
<1>2. CASE StartDrain(s) BY <1>2, StartDrainKeeps DEF Inner
<1>3. CASE /\ Receive(s) /\ inHand' = [inHand EXCEPT ![s] = Head(ch[s])]
             /\ Goto(s, "holding") /\ UNCHANGED <<Steps, n, yielded, history>>
  BY <1>3, ReceiveKeeps DEF Inner
<1> QED BY <1>1, <1>2, <1>3 DEF Inner

\* The select with an event in hand.
LEMMA HoldingKeeps ==
  ASSUME IInv, NEW s \in Subs, Holding(s)
  PROVE  IInv'
<1>1. CASE Exit(s) BY <1>1, ExitKeeps DEF Holding
<1>2. CASE StartDrain(s) BY <1>2, StartDrainKeeps DEF Holding
<1>3. CASE /\ loop[s] = "holding" /\ Goto(s, "handle")
             /\ UNCHANGED <<Steps, queues, n, inHand, yielded, history>>
  <2>1. "handle" \in Places BY DEF Places
  <2>2. IInv /\ loop[s] = "holding" /\ Goto(s, "handle") BY <1>3
  <2>3. UNCHANGED <<Steps, queues, n, inHand, yielded, history>> BY <1>3
  <2> QED BY <2>1, <2>2, <2>3, QuietKeeps
<1> QED BY <1>1, <1>2, <1>3 DEF Holding

\* Taking the next control event.
LEMMA PopKeeps ==
  ASSUME IInv, NEW s \in Subs, Pop(s)
  PROVE  IInv'
<1> USE BusAssumption DEF IInv
<1>1. TypeOK'
  <2>1. head' \in [Subs -> Nat] /\ \A r \in Subs : head'[r] <= Len(controlQ[r])
    <3>1. CASE head[s] < Len(controlQ[s])
      <4>1. head' = [head EXCEPT ![s] = head[s] + 1] BY <3>1 DEF Pop
      <4>2. head[s] + 1 \in Nat /\ head[s] + 1 <= Len(controlQ[s]) BY <3>1 DEF TypeOK
      <4> QED BY <4>1, <4>2 DEF TypeOK
    <3>2. CASE ~(head[s] < Len(controlQ[s])) BY <3>2 DEF Pop, TypeOK
    <3> QED BY <3>1, <3>2
  <2>2. loop' \in [Subs -> Places] BY DEF TypeOK, Pop, Goto, AfterDrain, Places
  <2> QED BY <2>1, <2>2 DEF TypeOK, Pop, Steps
<1>2. Bookkeeping' BY DEF TypeOK, Bookkeeping, Events, Pop, Goto, AfterDrain, Unstreak, Steps
<1>3. OnlySubscribed'
  BY DEF TypeOK, Bookkeeping, OnlySubscribed, Pop, Goto, AfterDrain, Unstreak, Steps
<1>4. Hands' BY DEF TypeOK, Hands, Pop, Goto, AfterDrain, Unstreak, Steps
<1>5. Taken'
  <2>1. CASE ~(head[s] < Len(controlQ[s]))
    <3>1. \A r \in Subs : (InFlight(r)' <=> InFlight(r)) /\ (loop'[r] = "control" => loop[r] = "control")
      BY <2>1 DEF TypeOK, Pop, InFlight, Goto, AfterDrain
    <3>2. UNCHANGED <<controlQ, took, done, head, offered>> BY <2>1 DEF Pop, Steps
    <3> QED BY <3>1, <3>2, TakenKept
  <2>2. CASE head[s] < Len(controlQ[s])
    <3>1. UNCHANGED <<controlQ, took, done, offered>> BY DEF Pop, Steps
    <3>2. \A r \in Subs \ {s} : loop'[r] = loop[r] /\ head'[r] = head[r] BY <2>2 DEF TypeOK, Pop, Goto
    <3>3. loop'[s] = "popped" /\ head'[s] = head[s] + 1 /\ ~InFlight(s)
      BY <2>2 DEF TypeOK, Pop, Goto, InFlight
    <3>4. ASSUME NEW r \in Subs
          PROVE  /\ Len(took[r]) <= head'[r]
                 /\ (loop'[r] \in {"popped", "control"}) => head'[r] > 0
                 /\ ~done[r] => Len(took[r]) = head'[r] - (IF loop'[r] \in {"popped", "control"} THEN 1 ELSE 0)
                 /\ loop'[r] = "control" => Len(took[r]) = head'[r] - 1
      <4>1. CASE r = s BY <3>3, <4>1 DEF Taken, TypeOK
      <4>2. CASE r # s
        <5>1. loop'[r] = loop[r] /\ head'[r] = head[r] BY <3>2, <4>2
        <5> QED BY <5>1 DEF Taken, InFlight
      <4> QED BY <4>1, <4>2
    <3> QED BY <3>1, <3>4 DEF Taken, InFlight
  <2> QED BY <2>1, <2>2
<1>6. TelemetryIsAccounted'
  BY DEF TypeOK, Hands, Bookkeeping, TelemetryIsAccounted, One, Pop, Goto, AfterDrain,
      Unstreak, Steps
<1> QED BY <1>1, <1>2, <1>3, <1>4, <1>5, <1>6

\* A cancelled loop drops what it has taken.
LEMMA RecheckKeeps ==
  ASSUME IInv, NEW s \in Subs, Recheck(s)
  PROVE  IInv'
<1> USE BusAssumption DEF IInv
<1>1. TypeOK'
  BY DEF TypeOK, Bookkeeping, Hands, Taken, Places, Recheck, Goto, AfterDrain, Steps, queues,
      history
<1>2. Bookkeeping'
  BY DEF TypeOK, Bookkeeping, Events, Recheck, Goto, AfterDrain, Steps, queues, history
<1>3. OnlySubscribed'
  BY DEF TypeOK, Bookkeeping, OnlySubscribed, Recheck, Goto, AfterDrain, Steps, queues,
      history
<1>4. Hands' BY DEF TypeOK, Hands, Recheck, Goto, AfterDrain, Steps, queues, history
<1>5. Taken'
  BY DEF TypeOK, Taken, Bookkeeping, InFlight, Recheck, Goto, AfterDrain, Steps, queues,
      history
<1>6. TelemetryIsAccounted'
  BY DEF TypeOK, Hands, Bookkeeping, TelemetryIsAccounted, One, Recheck, Goto, AfterDrain,
      Steps, queues, history
<1> QED BY <1>1, <1>2, <1>3, <1>4, <1>5, <1>6

\* The handler is given the event last taken.
LEMMA HandleControlKeeps ==
  ASSUME IInv, NEW s \in Subs, HandleControl(s)
  PROVE  IInv'
<1> USE BusAssumption DEF IInv
<1>0. head[s] \in 1..Len(controlQ[s]) /\ controlQ[s][head[s]] \in Events /\ Len(took[s]) = head[s] - 1
  BY DEF TypeOK, Taken, HandleControl, InFlight
<1>1. TypeOK'
  <2>1. took' \in [Subs -> Seq(Events)] BY <1>0 DEF TypeOK, HandleControl, Front
  <2>2. loop' \in [Subs -> Places] BY DEF TypeOK, HandleControl, Goto, Places
  <2>3. n' \in [Subs -> Nat] BY DEF TypeOK, HandleControl
  <2> QED BY <2>1, <2>2, <2>3 DEF TypeOK, HandleControl, Steps, queues
<1>2. Bookkeeping' BY DEF TypeOK, Bookkeeping, Events, HandleControl, Counted, Goto, Steps, queues
<1>3. OnlySubscribed'
  BY DEF TypeOK, Bookkeeping, OnlySubscribed, HandleControl, Counted, Goto, Steps, queues
<1>4. Hands' BY DEF TypeOK, Hands, HandleControl, Counted, Goto, Steps, queues
<1>5. Taken'
  <2>1. UNCHANGED <<controlQ, done, head, offered>> BY DEF HandleControl, Steps, queues
  <2>2. ASSUME NEW r \in Subs \ {s} PROVE took'[r] = took[r] /\ loop'[r] = loop[r]
    BY DEF TypeOK, HandleControl, Goto
  <2>3. loop'[s] \in {"more", "drain"} BY DEF TypeOK, HandleControl, Goto
  <2>4. took'[s] = SubSeq(controlQ[s], 1, head[s]) /\ Len(took'[s]) = head[s]
    <3> DEFINE q == controlQ[s]
               k == head[s] - 1
    <3>1. q \in Seq(Events) /\ k \in 0..Len(q) /\ k < Len(q) /\ k + 1 = head[s] BY <1>0 DEF TypeOK
    <3>2. took[s] = SubSeq(q, 1, k) BY <1>0 DEF Taken
    <3>3. took'[s] = Append(took[s], q[k + 1]) BY <3>1 DEF TypeOK, HandleControl, Front
    <3> HIDE DEF q, k
    <3>4. took'[s] = SubSeq(q, 1, k + 1) BY <3>1, <3>2, <3>3, NextOfPrefix
    <3>5. Len(SubSeq(q, 1, k + 1)) = k + 1 BY <3>1
    <3> QED BY <3>1, <3>4, <3>5 DEF q
  <2>5. ASSUME NEW r \in Subs
        PROVE  /\ Len(took'[r]) <= head[r]
               /\ took'[r] = SubSeq(controlQ[r], 1, Len(took'[r]))
               /\ (loop'[r] \in {"popped", "control"}) => head[r] > 0
               /\ ~done[r] => Len(took'[r]) = head[r] - (IF loop'[r] \in {"popped", "control"} THEN 1 ELSE 0)
               /\ loop'[r] = "control" => Len(took'[r]) = head[r] - 1
    <3>1. CASE r = s BY <1>0, <2>3, <2>4, <3>1 DEF TypeOK
    <3>2. CASE r # s BY <2>2, <3>2 DEF Taken, InFlight
    <3> QED BY <3>1, <3>2
  <2>6. \A r \in Subs : Len(controlQ[r]) = offered[r].control BY DEF Taken
  <2> QED BY <2>1, <2>5, <2>6 DEF Taken, InFlight
<1>6. TelemetryIsAccounted'
  BY DEF TypeOK, Hands, Bookkeeping, TelemetryIsAccounted, One, HandleControl, Counted, Goto,
      Steps, queues
<1> QED BY <1>1, <1>2, <1>3, <1>4, <1>5, <1>6

\* After a full drain.
LEMMA MoreKeeps ==
  ASSUME IInv, NEW s \in Subs, More(s)
  PROVE  IInv'
<1> USE BusAssumption DEF IInv
<1>1. TypeOK'
  BY DEF TypeOK, Bookkeeping, Hands, Taken, Places, More, Goto, AfterDrain, Unstreak, Steps,
      queues
<1>2. Bookkeeping'
  BY DEF TypeOK, Bookkeeping, Events, More, Goto, AfterDrain, Unstreak, Steps, queues
<1>3. OnlySubscribed'
  BY DEF TypeOK, Bookkeeping, OnlySubscribed, More, Goto, AfterDrain, Unstreak, Steps, queues
<1>4. Hands' BY DEF TypeOK, Hands, More, Goto, AfterDrain, Unstreak, Steps, queues
<1>5. Taken'
  <2>1. \A r \in Subs : (InFlight(r)' <=> InFlight(r)) /\ (loop'[r] = "control" => loop[r] = "control")
    BY DEF TypeOK, InFlight, More, Goto, AfterDrain, Unstreak, Steps, queues
  <2>2. UNCHANGED <<controlQ, took, done, head>> /\ \A r \in Subs : offered'[r].control = offered[r].control
    BY DEF Bookkeeping, More, Goto, AfterDrain, Unstreak, Steps, queues
  <2> QED BY <2>1, <2>2, TakenKept
<1>6. TelemetryIsAccounted'
  BY DEF TypeOK, Hands, Bookkeeping, TelemetryIsAccounted, One, More, Goto, AfterDrain,
      Unstreak, Steps, queues
<1> QED BY <1>1, <1>2, <1>3, <1>4, <1>5, <1>6

\* The yield may take a telemetry event.
LEMMA YieldKeeps ==
  ASSUME IInv, NEW s \in Subs, Yield(s)
  PROVE  IInv'
<1>1. CASE Exit(s) BY <1>1, ExitKeeps DEF Yield
<1>2. CASE /\ loop[s] = "yield" /\ Goto(s, "swallow")
             /\ UNCHANGED <<Steps, queues, n, inHand, yielded, history>>
  <2>1. "swallow" \in Places BY DEF Places
  <2>2. IInv /\ loop[s] = "yield" /\ Goto(s, "swallow") BY <1>2
  <2>3. UNCHANGED <<Steps, queues, n, inHand, yielded, history>> BY <1>2
  <2> QED BY <2>1, <2>2, <2>3, QuietKeeps
<1>3. CASE /\ Receive(s) /\ yielded' = [yielded EXCEPT ![s] = Head(ch[s])]
             /\ Goto(s, "yielded") /\ UNCHANGED <<Steps, n, inHand, history>>
  BY <1>3, ReceiveKeeps DEF Yield
<1> QED BY <1>1, <1>2, <1>3 DEF Yield

\* A handler run on a telemetry event moves it from a hand to what was told.
LEMMA ToldAccounted ==
  ASSUME IInv, NEW s \in Subs, NEW ev \in Events, Tell(s, ev),
         \/ inHand[s] = ev /\ inHand' = [inHand EXCEPT ![s] = None] /\ UNCHANGED yielded
         \/ yielded[s] = ev /\ yielded' = [yielded EXCEPT ![s] = None] /\ UNCHANGED inHand
  PROVE  TelemetryIsAccounted'
<1> USE DEF IInv
<1>0. ev # None BY BusAssumption DEF Events
<1> SUFFICES ASSUME NEW r \in Subs
             PROVE  offered[r].telemetry =
                      Len(told'[r]) + Len(ch[r]) + One(inHand'[r]) + One(yielded'[r]) + dropped[r]
  BY DEF TelemetryIsAccounted, Tell, queues, One
<1>1. offered[r].telemetry = Len(told[r]) + Len(ch[r]) + One(inHand[r]) + One(yielded[r]) + dropped[r]
  BY DEF TelemetryIsAccounted
<1>2. CASE r # s
  <2>1. told'[r] = told[r] /\ inHand'[r] = inHand[r] /\ yielded'[r] = yielded[r]
    BY <1>2 DEF TypeOK, Tell
  <2> QED BY <1>1, <2>1
<1>3. CASE r = s
  <2> DEFINE o == offered[s].telemetry
             a == Len(told[s])
             b == Len(ch[s])
             i == One(inHand[s])
             y == One(yielded[s])
             d == dropped[s]
  <2>1. Len(told'[s]) = a + 1 BY DEF TypeOK, Tell
  <2>2. \/ i = 1 /\ One(inHand'[s]) = 0 /\ One(yielded'[s]) = y
        \/ y = 1 /\ One(yielded'[s]) = 0 /\ One(inHand'[s]) = i
    BY <1>0 DEF TypeOK, One
  <2>3. /\ o = a + b + i + y + d
        /\ a \in Nat /\ b \in Nat /\ i \in Nat /\ y \in Nat /\ d \in Nat
    BY <1>1, <1>3 DEF TypeOK, One
  <2>4. o = (a + 1) + b + One(inHand'[s]) + One(yielded'[s]) + d
    <3> HIDE DEF o, a, b, i, y, d
    <3> QED BY <2>2, <2>3
  <2> QED BY <1>3, <2>1, <2>4
<1> QED BY <1>2, <1>3

\* The yield's event is handled.
LEMMA HandleYieldedKeeps ==
  ASSUME IInv, NEW s \in Subs, HandleYielded(s)
  PROVE  IInv'
<1> USE BusAssumption DEF IInv
<1>1. TypeOK'
  BY DEF TypeOK, Bookkeeping, Hands, Taken, Places, HandleYielded, Tell, Goto, Unstreak,
      Counted, Steps, queues
<1>2. Bookkeeping'
  BY DEF TypeOK, Bookkeeping, Events, HandleYielded, Tell, Goto, Unstreak, Counted, Steps,
      queues
<1>3. OnlySubscribed'
  BY DEF TypeOK, Bookkeeping, OnlySubscribed, HandleYielded, Tell, Goto, Unstreak, Counted,
      Steps, queues
<1>4. Hands' BY DEF TypeOK, Hands, HandleYielded, Tell, Goto, Unstreak, Counted, Steps, queues
<1>5. Taken'
  BY DEF TypeOK, Taken, Bookkeeping, InFlight, HandleYielded, Tell, Goto, Unstreak, Counted,
      Steps, queues
<1>6. TelemetryIsAccounted'
  <2>1. yielded[s] \in Events BY DEF TypeOK, Hands, HandleYielded
  <2> QED BY <2>1, ToldAccounted DEF HandleYielded
<1> QED BY <1>1, <1>2, <1>3, <1>4, <1>5, <1>6

\* The event in hand is handled.
LEMMA HandleInHandKeeps ==
  ASSUME IInv, NEW s \in Subs, HandleInHand(s)
  PROVE  IInv'
<1> USE BusAssumption DEF IInv
<1>1. TypeOK'
  BY DEF TypeOK, Bookkeeping, Hands, Taken, Places, HandleInHand, Tell, Goto, Unstreak,
      Counted, Steps, queues
<1>2. Bookkeeping'
  BY DEF TypeOK, Bookkeeping, Events, HandleInHand, Tell, Goto, Unstreak, Counted, Steps,
      queues
<1>3. OnlySubscribed'
  BY DEF TypeOK, Bookkeeping, OnlySubscribed, HandleInHand, Tell, Goto, Unstreak, Counted,
      Steps, queues
<1>4. Hands' BY DEF TypeOK, Hands, HandleInHand, Tell, Goto, Unstreak, Counted, Steps, queues
<1>5. Taken'
  BY DEF TypeOK, Taken, Bookkeeping, InFlight, HandleInHand, Tell, Goto, Unstreak, Counted,
      Steps, queues
<1>6. TelemetryIsAccounted'
  <2>1. inHand[s] \in Events BY DEF TypeOK, Hands, HandleInHand
  <2> QED BY <2>1, ToldAccounted DEF HandleInHand
<1> QED BY <1>1, <1>2, <1>3, <1>4, <1>5, <1>6

\* Taking the token back.
LEMMA SwallowKeeps ==
  ASSUME IInv, NEW s \in Subs, Swallow(s)
  PROVE  IInv'
<1> USE BusAssumption DEF IInv
<1>1. TypeOK' BY DEF TypeOK, Bookkeeping, Hands, Taken, Places, Swallow, Goto, Steps, history
<1>2. Bookkeeping' BY DEF TypeOK, Bookkeeping, Events, Swallow, Goto, Steps, history
<1>3. OnlySubscribed' BY DEF TypeOK, Bookkeeping, OnlySubscribed, Swallow, Goto, Steps, history
<1>4. Hands' BY DEF TypeOK, Hands, Swallow, Goto, Steps, history
<1>5. Taken' BY DEF TypeOK, Taken, Bookkeeping, InFlight, Swallow, Goto, Steps, history
<1>6. TelemetryIsAccounted'
  BY DEF TypeOK, Hands, Bookkeeping, TelemetryIsAccounted, One, Swallow, Goto, Steps, history
<1> QED BY <1>1, <1>2, <1>3, <1>4, <1>5, <1>6

\* The initial state satisfies the invariant.
LEMMA InitInv == Init => IInv
<1> SUFFICES ASSUME Init PROVE IInv OBVIOUS
<1>1. TypeOK
  <2>1. <<>> \in Seq(Events) /\ Len(<<>>) = 0 /\ 0 <= Buffer BY BusAssumption
  <2>2. /\ ch \in [Subs -> Seq(Events)] /\ controlQ \in [Subs -> Seq(Events)]
        /\ took \in [Subs -> Seq(Events)] /\ told \in [Subs -> Seq(Events)]
    BY <2>1 DEF Init
  <2>3. \A s \in Subs : Len(ch[s]) <= Buffer /\ head[s] <= Len(controlQ[s])
    <3>1. \A s \in Subs : Len(ch[s]) = 0 /\ Len(controlQ[s]) = 0 /\ head[s] = 0 BY <2>1 DEF Init
    <3> QED BY <2>1, <3>1
  <2> QED BY <2>2, <2>3 DEF Init, TypeOK, Places
<1>2. Bookkeeping BY BusAssumption DEF Init, Bookkeeping, Idle
<1>3. OnlySubscribed /\ Hands BY DEF Init, OnlySubscribed, Hands
<1>4. Taken
  <2>1. SubSeq(<<>>, 1, 0) = <<>> OBVIOUS
  <2> QED BY <2>1 DEF Init, Taken, InFlight
<1>5. TelemetryIsAccounted BY DEF Init, TelemetryIsAccounted, One
<1> QED BY <1>1, <1>2, <1>3, <1>4, <1>5 DEF IInv

\* Every step of the bus keeps the invariant.
LEMMA NextInv == IInv /\ [Next]_vars => IInv'
<1> SUFFICES ASSUME IInv, [Next]_vars PROVE IInv' OBVIOUS
<1>1. ASSUME NEW s \in Subs, Subscribe(s) PROVE IInv' BY <1>1, SubscribeKeeps
<1>2. ASSUME NEW s \in Subs, DispatchStep(s) PROVE IInv'
  BY <1>2, OuterKeeps, InnerKeeps, HoldingKeeps, PopKeeps, RecheckKeeps,
     HandleControlKeeps, MoreKeeps, YieldKeeps, HandleYieldedKeeps, HandleInHandKeeps, SwallowKeeps DEF DispatchStep
<1>3. ASSUME NEW gone \in Withdrawn, Withdraw(gone) PROVE IInv' BY <1>3, WithdrawKeeps
<1>4. ASSUME NEW p \in Publishers, PublishStep(p) PROVE IInv'
  BY <1>4, EnqueueControlKeeps, NudgeKeeps, OfferTelemetryKeeps DEF PublishStep
<1>5. ASSUME NEW p \in Publishers, NEW t \in Types, Publish(p, t) PROVE IInv'
  BY <1>5, PublishKeeps
<1>6. ASSUME NEW c \in Closers, Close(c) PROVE IInv' BY <1>6, CloseKeeps
<1>7. ASSUME NEW c \in Closers, CloseStep(c) PROVE IInv'
  BY <1>7, CloseCancelKeeps, JoinKeeps DEF CloseStep
<1>8. CASE UNCHANGED vars
  BY <1>8 DEF vars, queues, dispatch, history, IInv, TypeOK, Bookkeeping, OnlySubscribed,
              Hands, Taken, TelemetryIsAccounted, InFlight, One
<1> QED BY <1>1, <1>2, <1>3, <1>4, <1>5, <1>6, <1>7, <1>8 DEF Next

\* The invariant holds throughout every behaviour.
LEMMA InvHolds == Spec => []IInv
<1> QED BY InitInv, NextInv, PTL DEF Spec

\* The bus keeps its types: the telemetry channel never holds more than its
\* capacity and the control queue's front never runs past its end.
THEOREM BusTypes == Spec => []TypeOK
<1>1. IInv => TypeOK BY DEF IInv
<1> QED BY <1>1, InvHolds, PTL

\* Whatever publishers, subscribers, cancellations and the loop do, a live
\* subscription's handler has been given exactly the control events taken from
\* its queue, in order, and its queue has received every one offered to it.
THEOREM ControlSurvives == Spec => []NoControlIsLost
<1>1. IInv => NoControlIsLost BY DEF IInv, Taken, NoControlIsLost
<1> QED BY <1>1, InvHolds, PTL

\* Every telemetry event offered is handled, waiting, in hand or counted.
THEOREM TelemetryAccounting == Spec => []TelemetryIsAccounted
<1>1. IInv => TelemetryIsAccounted BY DEF IInv
<1> QED BY <1>1, InvHolds, PTL

-----------------------------------------------------------------------------
(* The bus implements the channel: its initial state is the channel's, and  *)
(* every step is a channel's step or leaves the channel as it was.          *)

\* What still waits in the control queue of a subscription.
Waits(s) == SubSeq(controlQ[s], Len(took[s]) + 1, Len(controlQ[s]))

\* A step that leaves queue, history and liveness alone is none of the channel's.
LEMMA ChannelRests ==
  ASSUME UNCHANGED <<controlQ, took, done>>,
         \A s \in Subs : loop'[s] = "none" <=> loop[s] = "none"
  PROVE  UNCHANGED Channel!chanVars
<1>1. UNCHANGED [s \in Subs |-> Waits(s)] BY DEF Waits
<1>2. UNCHANGED [s \in Subs |-> loop[s] # "none" /\ ~done[s]] OBVIOUS
<1> QED BY <1>1, <1>2 DEF Channel!chanVars, Waits

\* A dispatch step other than the call of the handler with a control event.
LEMMA DispatchRests ==
  ASSUME IInv, NEW s \in Subs, DispatchStep(s), ~HandleControl(s)
  PROVE  UNCHANGED Channel!chanVars
<1> USE DEF IInv, TypeOK, Steps, queues, history, Goto, Exit, StartDrain, Receive, AfterDrain
<1>1. UNCHANGED <<controlQ, took, done>>
  BY DEF DispatchStep, Outer, Inner, Holding, Pop, Recheck, More, Yield, HandleYielded, HandleInHand, Swallow, Tell
<1>2. \A r \in Subs : loop'[r] = "none" <=> loop[r] = "none"
  BY DEF DispatchStep, Outer, Inner, Holding, Pop, Recheck, More, Yield, HandleYielded, HandleInHand, Swallow, Tell
<1> QED BY <1>1, <1>2, ChannelRests

\* Calling the handler delivers the oldest waiting event.
LEMMA HandlerDelivers ==
  ASSUME IInv, NEW s \in Subs, HandleControl(s)
  PROVE  Channel!Deliver(s)
<1> DEFINE q == controlQ[s]
           k == Len(took[s])
<1>1. q \in Seq(Events) /\ k \in 0..Len(q) /\ k < Len(q) /\ head[s] = k + 1
  <2>1. q \in Seq(Events) /\ Len(q) \in Nat /\ k \in Nat /\ head[s] \in Nat /\ head[s] <= Len(q)
    BY DEF IInv, TypeOK
  <2>2. loop[s] = "control" BY DEF HandleControl
  <2>3. Len(took[s]) = head[s] - 1 BY <2>2 DEF IInv, Taken
  <2> QED BY <2>1, <2>3
<1>2. took' = [took EXCEPT ![s] = Append(@, q[k + 1])] /\ UNCHANGED <<controlQ, done>>
  BY <1>1 DEF HandleControl, Front, Steps, queues
<1>3. took'[s] = Append(took[s], q[k + 1]) /\ Len(took'[s]) = k + 1
  BY <1>1, <1>2 DEF IInv, TypeOK
<1>4. /\ SubSeq(q, k + 1, Len(q)) # <<>>
      /\ Head(SubSeq(q, k + 1, Len(q))) = q[k + 1]
      /\ Tail(SubSeq(q, k + 1, Len(q))) = SubSeq(q, k + 2, Len(q))
  <2> HIDE DEF q, k
  <2> QED BY <1>1, NextOfPrefix
<1>5. [r \in Subs |-> Waits(r)]' = [[r \in Subs |-> Waits(r)] EXCEPT ![s] = Tail(@)]
  <2>1. ASSUME NEW r \in Subs \ {s} PROVE Waits(r)' = Waits(r)
    BY <1>2 DEF Waits, IInv, TypeOK
  <2>2. Waits(s)' = SubSeq(q, Len(took'[s]) + 1, Len(q)) BY <1>2 DEF Waits
  <2>3. Len(took'[s]) + 1 = k + 2 BY <1>1, <1>3
  <2>4. Waits(s)' = Tail(Waits(s)) BY <1>4, <2>2, <2>3 DEF Waits
  <2> QED BY <2>1, <2>4
<1>6. \A r \in Subs : (loop'[r] = "none") <=> (loop[r] = "none")
  BY DEF HandleControl, Goto, IInv, TypeOK
<1>7. UNCHANGED [r \in Subs |-> loop[r] # "none" /\ ~done[r]] BY <1>2, <1>6
<1> QED BY <1>2, <1>4, <1>5, <1>7 DEF Channel!Deliver, Waits

\* Appending to the control queue sends.
LEMMA EnqueueSends ==
  ASSUME IInv, NEW p \in Publishers, NEW s \in Subs, EnqueueControl(p, s)
  PROVE  Channel!Send(s, publish[p].ev) /\ publish[p].ev \in Events
<1> DEFINE q == controlQ[s]
           k == Len(took[s])
           e == publish[p].ev
<1>1. e \in Events BY ServedType DEF EnqueueControl
<1>2. q \in Seq(Events) /\ k \in 0..Len(q) BY DEF IInv, TypeOK, Taken
<1>3. SubSeq(Append(q, e), k + 1, Len(Append(q, e))) = Append(SubSeq(q, k + 1, Len(q)), e)
  <2> HIDE DEF q, k, e
  <2> QED BY <1>1, <1>2, PrefixOfAppend
<1>4. controlQ' = [controlQ EXCEPT ![s] = Append(@, e)] /\ UNCHANGED <<took, done, loop>>
  BY DEF EnqueueControl, dispatch
<1>5. [r \in Subs |-> Waits(r)]' = [[r \in Subs |-> Waits(r)] EXCEPT ![s] = Append(@, e)]
  <2>1. ASSUME NEW r \in Subs \ {s} PROVE Waits(r)' = Waits(r)
    BY <1>4 DEF Waits, IInv, TypeOK
  <2>2. Waits(s)' = Append(Waits(s), e) BY <1>3, <1>4 DEF Waits, IInv, TypeOK
  <2> QED BY <2>1, <2>2
<1> QED BY <1>1, <1>4, <1>5 DEF Channel!Send, Waits

\* Cancelling subscriptions, in whatever call, ends their channels.
LEMMA CancelEnds ==
  ASSUME IInv, NEW gone \in SUBSET Subs, UNCHANGED <<controlQ, took, loop>>,
         done' = [s \in Subs |-> done[s] \/ s \in gone]
  PROVE  Channel!End
<1>1. [s \in Subs |-> loop[s] # "none" /\ ~done[s]]' =
        [s \in Subs |-> (loop[s] # "none" /\ ~done[s]) /\ s \notin gone]
  OBVIOUS
<1>2. UNCHANGED [s \in Subs |-> Waits(s)] BY DEF Waits
<1>3. [s \in Subs |-> (loop[s] # "none" /\ ~done[s]) /\ s \notin gone] =
      [s \in Subs |-> [r \in Subs |-> loop[r] # "none" /\ ~done[r]][s] /\ s \notin gone]
  OBVIOUS
<1> QED BY <1>1, <1>2, <1>3 DEF Channel!End, Waits

\* A subscription opens its channel.
LEMMA SubscribeOpens ==
  ASSUME IInv, NEW s \in Subs, Subscribe(s)
  PROVE  Channel!Open(s)
<1>1. ~done[s] /\ loop[s] = "none" BY DEF IInv, OnlySubscribed, Subscribe
<1>2. UNCHANGED <<controlQ, took, done>> /\ loop' = [loop EXCEPT ![s] = "outer"]
  BY DEF Subscribe, queues, history
<1>3. [r \in Subs |-> loop[r] # "none" /\ ~done[r]]' =
        [[r \in Subs |-> loop[r] # "none" /\ ~done[r]] EXCEPT ![s] = TRUE]
  BY <1>1, <1>2 DEF IInv, TypeOK
<1>4. UNCHANGED [r \in Subs |-> Waits(r)] BY <1>2 DEF Waits
<1> QED BY <1>1, <1>2, <1>3, <1>4 DEF Channel!Open, Waits

\* The initial state of the bus is one of the channel.
LEMMA ChannelInit == Init => Channel!Init
<1> SUFFICES ASSUME Init PROVE Channel!Init OBVIOUS
<1>1. SubSeq(<<>>, 1, 0) = <<>> OBVIOUS
<1>2. ASSUME NEW s \in Subs PROVE SubSeq(controlQ[s], Len(took[s]) + 1, Len(controlQ[s])) = <<>>
  <2>1. controlQ[s] = <<>> /\ took[s] = <<>> /\ Len(<<>>) = 0 BY DEF Init
  <2> QED BY <1>1, <2>1
<1>3. took = [s \in Subs |-> <<>>] BY DEF Init
<1>4. \A s \in Subs : (loop[s] # "none" /\ ~done[s]) = FALSE BY DEF Init
<1> QED BY <1>2, <1>3, <1>4 DEF Channel!Init

\* Every step of the bus is one of the channel or leaves it alone.
LEMMA ChannelStep == IInv /\ [Next]_vars => [Channel!Next]_(Channel!chanVars)
<1> SUFFICES ASSUME IInv, [Next]_vars PROVE [Channel!Next]_(Channel!chanVars) OBVIOUS
<1>1. ASSUME NEW s \in Subs, Subscribe(s) PROVE Channel!Next
  BY <1>1, SubscribeOpens DEF Channel!Next
<1>2. ASSUME NEW s \in Subs, DispatchStep(s) PROVE [Channel!Next]_(Channel!chanVars)
  BY <1>2, HandlerDelivers, DispatchRests DEF Channel!Next
<1>3. ASSUME NEW gone \in Withdrawn, Withdraw(gone) PROVE Channel!Next
  <2>1. gone \in SUBSET Subs BY DEF Withdrawn, IInv, TypeOK
  <2>2. UNCHANGED <<controlQ, took, loop>> /\ done' = [s \in Subs |-> done[s] \/ s \in gone]
    BY <1>3 DEF Withdraw, queues, dispatch, history
  <2> QED BY <2>1, <2>2, CancelEnds DEF Channel!Next
<1>4. ASSUME NEW p \in Publishers, PublishStep(p) PROVE [Channel!Next]_(Channel!chanVars)
  <2>1. ASSUME NEW s \in Subs, EnqueueControl(p, s) PROVE Channel!Next
    <3>1. Channel!Send(s, publish[p].ev) /\ publish[p].ev \in Events BY <2>1, EnqueueSends
    <3>2. \E e \in Events : Channel!Send(s, e) BY <3>1 DEF Channel!Send
    <3> QED BY <3>2 DEF Channel!Next
  <2>2. ASSUME NEW s \in Subs, Nudge(p, s) \/ OfferTelemetry(p, s) PROVE UNCHANGED Channel!chanVars
    <3>1. UNCHANGED <<controlQ, took, done, loop>>
      BY <2>2 DEF Nudge, OfferTelemetry, dispatch, history
    <3> QED BY <3>1, ChannelRests
  <2> QED BY <1>4, <2>1, <2>2 DEF PublishStep
<1>5. ASSUME NEW p \in Publishers, NEW t \in Types, Publish(p, t) PROVE UNCHANGED Channel!chanVars
  BY <1>5, ChannelRests DEF Publish, queues, dispatch, history
<1>6. ASSUME NEW c \in Closers, Close(c) PROVE UNCHANGED Channel!chanVars
  BY <1>6, ChannelRests DEF Close, queues, dispatch, history
<1>7. ASSUME NEW c \in Closers, CloseStep(c) PROVE [Channel!Next]_(Channel!chanVars)
  <2>1. ASSUME NEW s \in Subs, CloseCancel(c, s) PROVE Channel!Next
    <3>1. UNCHANGED <<controlQ, took, loop>> /\ done' = [r \in Subs |-> done[r] \/ r \in {s}]
      BY <2>1 DEF CloseCancel, queues, dispatch, history, IInv, TypeOK
    <3> QED BY <3>1, CancelEnds DEF Channel!Next
  <2>2. ASSUME Join(c) PROVE UNCHANGED Channel!chanVars
    BY <2>2, ChannelRests DEF Join, queues, dispatch, history
  <2> QED BY <1>7, <2>1, <2>2 DEF CloseStep
<1>8. ASSUME UNCHANGED vars PROVE UNCHANGED Channel!chanVars
  BY <1>8, ChannelRests DEF vars, queues, dispatch, history
<1> QED BY <1>1, <1>2, <1>3, <1>4, <1>5, <1>6, <1>7, <1>8 DEF Next

\* The bus implements the safety part of the channel its comments promise, for
\* any number of publishers, subscriptions and cancellations.
THEOREM BusImplementsChannel == Spec => ImplementsSafeChannel
<1> QED BY ChannelInit, ChannelStep, InvHolds, PTL DEF Spec, ImplementsSafeChannel, Channel!SafeSpec
-----------------------------------------------------------------------------
(* The order of one publisher's events: it numbers them one by one, and has *)
(* served everybody with one before it makes the next.                      *)

\* What a publisher is serving is the last event it made.
Serving ==
  \A p \in Publishers :
    publish[p].todo # {} => publish[p].ev.from = p /\ publish[p].ev.n = sent[p]

\* What waits in a queue was made before, and before the one still to be
\* queued there.
Queued ==
  \A s \in Subs : \A i \in 1..Len(controlQ[s]) :
    LET e == controlQ[s][i] IN
    /\ e.n <= sent[e.from]
    /\ s \in publish[e.from].todo => e.n < sent[e.from]

\* Each queue holds the events of one publisher in the order of their numbers.
InOrder(q) == \A i, j \in 1..Len(q) : i < j /\ q[i].from = q[j].from => q[i].n < q[j].n

OrderInv == Serving /\ Queued /\ \A s \in Subs : InOrder(controlQ[s])

\* A step that queues nothing and makes nothing, and serves nobody anew.
LEMMA OrderRests ==
  ASSUME OrderInv, UNCHANGED <<controlQ, sent>>,
         \A p \in Publishers : publish'[p].todo \subseteq publish[p].todo,
         \A p \in Publishers : publish'[p].todo # {} => publish'[p].ev = publish[p].ev,
         IInv
  PROVE  OrderInv'
<1>1. Serving' BY DEF OrderInv, Serving
<1>2. ASSUME NEW s \in Subs, NEW i \in 1..Len(controlQ[s])
      PROVE  /\ controlQ[s][i].n <= sent[controlQ[s][i].from]
             /\ s \in publish'[controlQ[s][i].from].todo => controlQ[s][i].n < sent[controlQ[s][i].from]
  <2>1. controlQ[s][i] \in Events BY DEF IInv, TypeOK
  <2>2. controlQ[s][i].from \in Publishers BY <2>1 DEF Events
  <2> QED BY <2>2 DEF OrderInv, Queued
<1>3. Queued' BY <1>2 DEF Queued
<1> QED BY <1>1, <1>3 DEF OrderInv

\* Having served one subscription, a publisher has fewer to serve with the
\* same event.
LEMMA ServedFewer ==
  ASSUME IInv, NEW p \in Publishers, NEW s \in Subs, NEW nudge, Served(p, s, nudge)
  PROVE  /\ publish'[p].todo \subseteq publish[p].todo \ {s}
         /\ publish'[p].todo # {} => publish'[p].ev = publish[p].ev
         /\ \A q \in Publishers \ {p} : publish'[q] = publish[q]
<1> DEFINE rest == publish[p].todo \ {s}
           left == [publish[p] EXCEPT !.todo = rest, !.nudge = nudge]
<1>1. publish \in [Publishers -> [ev : Events \cup {None}, todo : SUBSET Subs, nudge : Subs \cup {None}]]
  BY DEF IInv, Bookkeeping
<1>2. left.todo = rest /\ left.ev = publish[p].ev BY <1>1
<1>3. publish'[p] = (IF rest = {} /\ nudge = None THEN Idle ELSE left) BY <1>1 DEF Served
<1>4. \A q \in Publishers \ {p} : publish'[q] = publish[q] BY <1>1 DEF Served
<1> HIDE DEF left
<1> QED BY <1>2, <1>3, <1>4 DEF Idle

\* A new event is the highest of its publisher.
LEMMA PublishOrders ==
  ASSUME IInv, OrderInv, NEW p \in Publishers, NEW t \in Types, Publish(p, t)
  PROVE  OrderInv'
<1>1. /\ sent' = [sent EXCEPT ![p] = sent[p] + 1] /\ sent \in [Publishers -> 0..MaxEvents]
      /\ publish[p].todo = {} /\ MaxEvents \in Nat
  BY BusAssumption DEF Publish, Idle, IInv, Bookkeeping
<1>2. /\ publish'[p].ev.from = p /\ publish'[p].ev.n = sent[p] + 1
      /\ \A q \in Publishers \ {p} : publish'[q] = publish[q]
  BY DEF Publish, IInv, Bookkeeping
<1>3. UNCHANGED controlQ BY DEF Publish, queues
<1>4. Serving'
  <2>1. ASSUME NEW q \in Publishers, publish'[q].todo # {}
        PROVE  publish'[q].ev.from = q /\ publish'[q].ev.n = sent'[q]
    <3>1. CASE q = p BY <1>1, <1>2, <3>1
    <3>2. CASE q # p BY <1>1, <1>2, <2>1, <3>2 DEF OrderInv, Serving
    <3> QED BY <3>1, <3>2
  <2> QED BY <2>1 DEF Serving
<1>5. ASSUME NEW s \in Subs, NEW i \in 1..Len(controlQ[s])
      PROVE  /\ controlQ[s][i].n <= sent'[controlQ[s][i].from]
             /\ s \in publish'[controlQ[s][i].from].todo => controlQ[s][i].n < sent'[controlQ[s][i].from]
  <2>1. controlQ[s][i] \in Events BY DEF IInv, TypeOK
  <2> DEFINE e == controlQ[s][i]
  <2>2. e.from \in Publishers /\ e.n \in 1..MaxEvents BY <2>1 DEF Events
  <2>3. e.n <= sent[e.from] /\ (s \in publish[e.from].todo => e.n < sent[e.from])
    BY DEF OrderInv, Queued
  <2> HIDE DEF e
  <2>4. CASE e.from = p
    <3>1. sent'[e.from] = sent[e.from] + 1 BY <1>1, <2>4
    <3>2. sent[e.from] \in Nat BY <1>1, <2>2
    <3> QED BY <1>1, <2>2, <2>3, <3>1, <3>2 DEF e
  <2>5. CASE e.from # p
    <3>1. sent'[e.from] = sent[e.from] /\ publish'[e.from] = publish[e.from] BY <1>1, <1>2, <2>2, <2>5
    <3> QED BY <2>3, <3>1 DEF e
  <2> QED BY <2>4, <2>5
<1>6. Queued' BY <1>3, <1>5 DEF Queued
<1> QED BY <1>3, <1>4, <1>6 DEF OrderInv, InOrder

\* What is queued is higher than everything of its publisher in that queue,
\* and nothing more of it is owed there.
LEMMA EnqueueOrders ==
  ASSUME IInv, OrderInv, NEW p \in Publishers, NEW s \in Subs, EnqueueControl(p, s)
  PROVE  OrderInv'
<1> DEFINE ev == publish[p].ev
           q == controlQ[s]
           d == Append(q, ev)
<1>1. s \in publish[p].todo /\ Served(p, s, s) /\ UNCHANGED sent BY DEF EnqueueControl
<1>2. ev \in Events /\ ev.from = p /\ ev.n = sent[p]
  BY <1>1 DEF IInv, Bookkeeping, OrderInv, Serving
<1>3. /\ publish'[p].todo \subseteq publish[p].todo \ {s}
      /\ publish'[p].todo # {} => publish'[p].ev = publish[p].ev
      /\ \A r \in Publishers \ {p} : publish'[r] = publish[r]
  BY <1>1, ServedFewer
<1>4. controlQ' = [controlQ EXCEPT ![s] = d] /\ controlQ \in [Subs -> Seq(Events)]
  BY DEF EnqueueControl, IInv, TypeOK
<1>5. q \in Seq(Events) /\ Len(q) \in Nat BY <1>4
<1>7. sent \in [Publishers -> Nat] BY BusAssumption DEF IInv, Bookkeeping
<1>8. \A i \in 1..Len(q) : q[i].from = p => q[i].n < sent[p] BY <1>1 DEF OrderInv, Queued
<1>9. InOrder(q) BY DEF OrderInv
<1> HIDE DEF ev, q, d
<1>10. Len(d) = Len(q) + 1 /\ d[Len(q) + 1] = ev /\ \A i \in 1..Len(q) : d[i] = q[i]
  BY <1>2, <1>5 DEF d
<1>11. InOrder(d)
  <2>1. ASSUME NEW i \in 1..Len(d), NEW j \in 1..Len(d), i < j, d[i].from = d[j].from
        PROVE  d[i].n < d[j].n
    <3>1. i \in 1..Len(q) /\ d[i] = q[i] BY <1>5, <1>10, <2>1
    <3>2. CASE j = Len(q) + 1 BY <1>2, <1>8, <1>10, <2>1, <3>1, <3>2
    <3>3. CASE j # Len(q) + 1
      <4>1. j \in 1..Len(q) /\ d[j] = q[j] BY <1>5, <1>10, <3>3
      <4> QED BY <1>9, <2>1, <3>1, <4>1 DEF InOrder
    <3> QED BY <3>2, <3>3
  <2> QED BY <2>1 DEF InOrder
<1>12. \A r \in Subs : controlQ'[r] = IF r = s THEN d ELSE controlQ[r] BY <1>4
<1>13. ASSUME NEW r \in Subs PROVE InOrder(controlQ'[r]) BY <1>11, <1>12 DEF OrderInv
<1>14. ASSUME NEW r \in Subs, NEW i \in 1..Len(controlQ'[r])
       PROVE  /\ controlQ'[r][i].n <= sent[controlQ'[r][i].from]
              /\ r \in publish'[controlQ'[r][i].from].todo => controlQ'[r][i].n < sent[controlQ'[r][i].from]
  <2>1. CASE r = s /\ i = Len(q) + 1
    <3>1. controlQ'[r][i] = ev BY <1>10, <1>12, <2>1
    <3> QED BY <1>2, <1>3, <1>7, <2>1, <3>1
  <2>2. CASE ~(r = s /\ i = Len(q) + 1)
    <3>1. i \in 1..Len(controlQ[r]) /\ controlQ'[r][i] = controlQ[r][i]
      BY <1>5, <1>10, <1>12, <2>2 DEF q
    <3>2. controlQ[r][i] \in Events BY <1>4, <3>1
    <3>3. controlQ[r][i].from \in Publishers BY <3>2 DEF Events
    <3>4. publish'[controlQ[r][i].from].todo \subseteq publish[controlQ[r][i].from].todo
      BY <1>3, <3>3
    <3> QED BY <3>1, <3>4 DEF OrderInv, Queued
  <2> QED BY <2>1, <2>2
<1>15. Queued' BY <1>1, <1>14 DEF Queued
<1>16. Serving'
  <2>1. ASSUME NEW r \in Publishers, publish'[r].todo # {}
        PROVE  publish'[r].ev.from = r /\ publish'[r].ev.n = sent[r]
    BY <1>2, <1>3, <2>1 DEF OrderInv, Serving, ev
  <2> QED BY <1>1, <2>1 DEF Serving
<1> QED BY <1>13, <1>15, <1>16 DEF OrderInv

\* The other two steps of a Publish call.
LEMMA PublishStepOrders ==
  ASSUME IInv, OrderInv, NEW p \in Publishers, PublishStep(p)
  PROVE  OrderInv'
<1>1. ASSUME NEW s \in Subs, EnqueueControl(p, s) PROVE OrderInv' BY <1>1, EnqueueOrders
<1>2. ASSUME NEW s \in Subs, OfferTelemetry(p, s) PROVE OrderInv'
  <2>1. Served(p, s, None) /\ UNCHANGED <<controlQ, sent>> BY <1>2 DEF OfferTelemetry
  <2>2. /\ \A q \in Publishers : publish'[q].todo \subseteq publish[q].todo
        /\ \A q \in Publishers : publish'[q].todo # {} => publish'[q].ev = publish[q].ev
    BY <2>1, ServedFewer
  <2> QED BY <2>1, <2>2, OrderRests
<1>3. ASSUME NEW s \in Subs, Nudge(p, s) PROVE OrderInv'
  <2>1. UNCHANGED <<controlQ, sent>> BY <1>3 DEF Nudge
  <2>2. /\ \A q \in Publishers : publish'[q].todo \subseteq publish[q].todo
        /\ \A q \in Publishers : publish'[q].todo # {} => publish'[q].ev = publish[q].ev
    BY <1>3 DEF Nudge, IInv, Bookkeeping, Idle
  <2> QED BY <2>1, <2>2, OrderRests
<1> QED BY <1>1, <1>2, <1>3 DEF PublishStep

\* Every step keeps the order.
LEMMA OrderStep == IInv /\ OrderInv /\ [Next]_vars => OrderInv'
<1> SUFFICES ASSUME IInv, OrderInv, [Next]_vars PROVE OrderInv' OBVIOUS
<1>1. ASSUME UNCHANGED <<controlQ, sent, publish>> PROVE OrderInv' BY <1>1, OrderRests
<1>2. ASSUME NEW s \in Subs, Subscribe(s) \/ DispatchStep(s) PROVE OrderInv'
  <2>1. UNCHANGED <<controlQ, sent, publish>>
    BY <1>2 DEF Subscribe, queues, DispatchStep, Outer, Inner, Holding, Pop, Recheck, HandleControl,
       More, Yield, HandleYielded, HandleInHand, Swallow, Exit, StartDrain, Receive, Tell, Steps
  <2> QED BY <1>1, <2>1
<1>3. ASSUME NEW gone \in Withdrawn, Withdraw(gone) PROVE OrderInv' BY <1>1, <1>3 DEF Withdraw, queues
<1>4. ASSUME NEW p \in Publishers, PublishStep(p) PROVE OrderInv' BY <1>4, PublishStepOrders
<1>5. ASSUME NEW p \in Publishers, NEW t \in Types, Publish(p, t) PROVE OrderInv' BY <1>5, PublishOrders
<1>6. ASSUME NEW c \in Closers, Close(c) \/ CloseStep(c) PROVE OrderInv'
  BY <1>1, <1>6 DEF Close, CloseStep, Join, CloseCancel, queues
<1>7. CASE UNCHANGED vars BY <1>1, <1>7 DEF vars, queues
<1> QED BY <1>2, <1>3, <1>4, <1>5, <1>6, <1>7 DEF Next

\* Before anything is published there is nothing to be out of order.
LEMMA OrderInit == Init => OrderInv
<1> SUFFICES ASSUME Init PROVE OrderInv OBVIOUS
<1>1. Serving BY DEF Init, Serving, Idle
<1>2. \A s \in Subs : controlQ[s] = <<>> /\ Len(<<>>) = 0 BY DEF Init
<1> QED BY <1>1, <1>2 DEF OrderInv, Queued, InOrder

\* However publishers and loops interleave, a handler is given the control
\* events of one publisher in the order in which they were published.
THEOREM OrderKept == Spec => []PublishersAreInOrder
<1>1. IInv /\ OrderInv => PublishersAreInOrder
  <2> SUFFICES ASSUME IInv, OrderInv, NEW s \in Subs, NEW i \in 1..Len(took[s]), NEW j \in 1..Len(took[s]),
                      i < j, took[s][i].from = took[s][j].from
               PROVE  took[s][i].n < took[s][j].n
    BY DEF PublishersAreInOrder
  <2> DEFINE q == controlQ[s]
             k == Len(took[s])
  <2>1. q \in Seq(Events) /\ k \in 0..Len(q) /\ took[s] = SubSeq(q, 1, k) /\ InOrder(q)
    BY DEF IInv, TypeOK, Taken, OrderInv
  <2>2. i \in 1..k /\ j \in 1..k OBVIOUS
  <2> HIDE DEF q, k
  <2>3. i \in 1..Len(q) /\ j \in 1..Len(q) BY <2>1, <2>2
  <2>4. took[s][i] = q[i] /\ took[s][j] = q[j] BY <2>1, <2>2
  <2> QED BY <2>1, <2>3, <2>4 DEF InOrder
<1> QED BY <1>1, OrderInit, OrderStep, InvHolds, PTL DEF Spec
-----------------------------------------------------------------------------
(* The bounds of the dispatch loop.  A streak is the control events of one  *)
(* drain, and a drain that reaches MaxDrain passes by the telemetry; what a *)
(* cancelled loop may still start depends on where the cancellation finds it.*)

\* How the streak of one subscription stands to its drain.
Streak(s) ==
  /\ streak[s] <= MaxDrain
  /\ loop[s] \in {"drain", "popped", "control"} => n[s] < MaxDrain
  /\ loop[s] = "control" \/ (loop[s] \in {"drain", "popped"} /\ ~done[s]) => streak[s] <= n[s]
  /\ loop[s] \in {"none", "outer", "inner", "holding", "handle", "swallow"} /\ ~done[s] => streak[s] = 0
  /\ loop[s] \in {"more", "yield"} /\ streak[s] > 0 => Waiting(s)

\* The handlers that a cancelled loop may still start from where it stands.
Left(s) ==
  One(inHand[s]) + CASE loop[s] = "control" -> 2
                     [] loop[s] \in {"more", "yield", "yielded", "inner"} -> 1
                     [] OTHER -> 0

\* The handlers after the cancellation, those to come included.
Lateness(s) ==
  /\ ~done[s] => late[s] = 0
  /\ done[s] => late[s] + Left(s) <= 3

PaceInv ==
  /\ streak \in [Subs -> Nat] /\ late \in [Subs -> Nat]
  /\ \A s \in Subs : Streak(s) /\ Lateness(s)

\* A loop that does not move keeps both, whoever queues, offers or cancels.
LEMMA PaceRests ==
  ASSUME IInv, PaceInv, NEW s \in Subs,
         loop'[s] = loop[s], n'[s] = n[s], inHand'[s] = inHand[s],
         streak'[s] = streak[s], late'[s] = late[s],
         done[s] => done'[s], Waiting(s) => Waiting(s)'
  PROVE  Streak(s)' /\ Lateness(s)'
<1>1. Streak(s)' BY DEF PaceInv, Streak
<1>2. Left(s)' = Left(s) /\ Left(s) \in 0..3
  <2>1. Left(s)' = Left(s) BY DEF Left, One
  <2> QED BY <2>1 DEF Left, One
<1>3. Lateness(s)' BY <1>2 DEF PaceInv, Lateness
<1> QED BY <1>1, <1>3

\* The loop of another subscription.
LEMMA OthersRest ==
  ASSUME IInv, PaceInv, NEW s \in Subs, DispatchStep(s), NEW r \in Subs \ {s}
  PROVE  /\ loop'[r] = loop[r] /\ n'[r] = n[r] /\ inHand'[r] = inHand[r]
         /\ streak'[r] = streak[r] /\ late'[r] = late[r]
         /\ done'[r] = done[r] /\ ch'[r] = ch[r]
<1> USE DEF IInv, TypeOK, Goto, Steps, history, queues, Exit, StartDrain, Unstreak, Counted, Tell, Receive
<1>0. streak \in [Subs -> Nat] /\ late \in [Subs -> Nat] BY DEF PaceInv
<1>1. CASE Outer(s) \/ Inner(s) \/ Holding(s) BY <1>1 DEF Outer, Inner, Holding
<1>2. CASE Pop(s) \/ Recheck(s) \/ More(s) BY <1>0, <1>2 DEF Pop, Recheck, More
<1>3. CASE HandleControl(s) BY <1>0, <1>3 DEF HandleControl
<1>4. CASE Yield(s) \/ Swallow(s) BY <1>0, <1>4 DEF Yield, Swallow
<1>5. CASE HandleYielded(s) \/ HandleInHand(s) BY <1>0, <1>5 DEF HandleYielded, HandleInHand
<1> QED BY <1>1, <1>2, <1>3, <1>4, <1>5 DEF DispatchStep
\* From a select the loop leaves, starts a drain, takes telemetry or moves on.
LEMMA SelectPaced ==
  ASSUME IInv, PaceInv, NEW s \in Subs, Outer(s) \/ Inner(s) \/ Holding(s) \/ Yield(s)
  PROVE  Streak(s)' /\ Lateness(s)'
<1> USE BusAssumption
<1>1. /\ loop[s] \in {"outer", "inner", "holding", "yield"}
      /\ UNCHANGED <<done, streak, late>> /\ loop \in [Subs -> Places] /\ n \in [Subs -> Nat]
      /\ done[s] \in BOOLEAN
  BY DEF Outer, Inner, Holding, Yield, Exit, StartDrain, Steps, history, IInv, TypeOK
<1>2. streak[s] \in Nat /\ late[s] \in Nat /\ Streak(s) /\ Lateness(s) BY DEF PaceInv
<1>3. inHand[s] = None \/ loop[s] \in {"holding", "yield"} BY <1>1 DEF IInv, Hands
<1>4. CASE Exit(s)
  <2>1. loop'[s] = "exited" /\ inHand'[s] = inHand[s] BY <1>1, <1>4 DEF Exit, Goto
  <2> QED BY <1>1, <1>2, <1>4, <2>1 DEF Streak, Lateness, Left, One, Exit
<1>5. CASE StartDrain(s) /\ loop[s] # "yield"
  <2>1. loop'[s] = "drain" /\ inHand'[s] = inHand[s] /\ n'[s] = 0 BY <1>1, <1>5 DEF StartDrain, Goto
  <2> QED BY <1>1, <1>2, <1>5, <2>1 DEF Streak, Lateness, Left, One
<1>6. CASE loop[s] = "inner" /\ Goto(s, "holding") /\ inHand' = [inHand EXCEPT ![s] = Head(ch[s])]
  <2>1. loop'[s] = "holding" /\ One(inHand'[s]) \in 0..1 BY <1>1, <1>6 DEF Goto, One
  <2>2. Left(s) = 1 /\ Left(s)' \in 0..1 BY <1>3, <1>6, <2>1 DEF Left, One
  <2> QED BY <1>1, <1>2, <1>6, <2>1, <2>2 DEF Streak, Lateness
<1>7. CASE loop[s] = "yield" /\ Goto(s, "yielded") /\ UNCHANGED inHand
  <2>1. loop'[s] = "yielded" BY <1>1, <1>7 DEF Goto
  <2>2. Left(s)' = Left(s) BY <1>7, <2>1 DEF Left
  <2> QED BY <1>1, <1>2, <1>7, <2>1, <2>2 DEF Streak, Lateness
<1>8. CASE /\ ~done[s] /\ UNCHANGED <<queues, inHand>>
           /\ \/ loop[s] = "outer" /\ Goto(s, "inner")
              \/ loop[s] = "holding" /\ Goto(s, "handle")
              \/ loop[s] = "yield" /\ ch[s] = <<>> /\ Goto(s, "swallow")
  <2>1. loop'[s] \in {"inner", "handle", "swallow"} BY <1>1, <1>8 DEF Goto
  <2>2. streak[s] = 0 BY <1>2, <1>8 DEF Streak, Waiting
  <2> QED BY <1>1, <1>2, <1>8, <2>1, <2>2 DEF Streak, Lateness
<1> QED
  <2>1. Yield(s) => loop[s] = "yield" BY DEF Yield
  <2>2. Outer(s) \/ Inner(s) \/ Holding(s) => loop[s] # "yield" BY DEF Outer, Inner, Holding
  <2>3. CASE Outer(s) BY <1>4, <1>5, <1>8, <2>2, <2>3 DEF Outer
  <2>4. CASE Inner(s) BY <1>4, <1>5, <1>6, <2>2, <2>4 DEF Inner
  <2>5. CASE Holding(s) BY <1>4, <1>5, <1>8, <2>2, <2>5 DEF Holding
  <2>6. CASE Yield(s) BY <1>4, <1>7, <1>8, <2>6 DEF Yield
  <2> QED BY <2>3, <2>4, <2>5, <2>6

\* Within a drain no handler is started, and an empty queue ends the streak.
LEMMA DrainPaced ==
  ASSUME IInv, PaceInv, NEW s \in Subs, Pop(s) \/ Recheck(s) \/ More(s) \/ Swallow(s)
  PROVE  Streak(s)' /\ Lateness(s)'
<1> USE BusAssumption
<1>1. /\ UNCHANGED <<done, late, inHand, ch>> /\ loop \in [Subs -> Places] /\ n \in [Subs -> Nat]
      /\ done[s] \in BOOLEAN /\ streak \in [Subs -> Nat]
  BY DEF Pop, Recheck, More, Swallow, Steps, history, queues, IInv, TypeOK, PaceInv
<1>2. streak[s] \in Nat /\ late[s] \in Nat /\ Streak(s) /\ Lateness(s) BY DEF PaceInv
<1>3. AfterDrain(s) \in {"outer", "handle"} BY DEF AfterDrain
<1>4. CASE Pop(s)
  <2>1. loop[s] = "drain" /\ UNCHANGED n BY <1>4 DEF Pop
  <2>2. CASE head[s] < Len(controlQ[s])
    <3>1. loop'[s] = "popped" /\ UNCHANGED streak BY <1>1, <1>4, <2>2 DEF Pop, Goto
    <3> QED BY <1>1, <1>2, <2>1, <3>1 DEF Streak, Lateness, Left
  <2>3. CASE ~(head[s] < Len(controlQ[s]))
    <3>1. loop'[s] = AfterDrain(s) /\ streak'[s] = 0 BY <1>1, <1>4, <2>3 DEF Pop, Goto, Unstreak
    <3> QED BY <1>1, <1>2, <1>3, <2>1, <3>1 DEF Streak, Lateness, Left
  <2> QED BY <2>2, <2>3
<1>5. CASE Recheck(s)
  <2>1. loop[s] = "popped" /\ UNCHANGED <<n, streak>> BY <1>5 DEF Recheck, history
  <2>2. loop'[s] = IF done[s] THEN AfterDrain(s) ELSE "control" BY <1>1, <1>5 DEF Recheck, Goto
  <2>3. CASE done[s] BY <1>1, <1>2, <1>3, <2>1, <2>2, <2>3 DEF Streak, Lateness, Left
  <2>4. CASE ~done[s] BY <1>1, <1>2, <2>1, <2>2, <2>4 DEF Streak, Lateness
  <2> QED BY <2>3, <2>4
<1>6. CASE More(s)
  <2>1. loop[s] = "more" /\ UNCHANGED n BY <1>6 DEF More
  <2>2. CASE head[s] < Len(controlQ[s])
    <3>1. loop'[s] = "yield" /\ UNCHANGED streak BY <1>1, <1>6, <2>2 DEF More, Goto
    <3> QED BY <1>1, <1>2, <2>1, <3>1 DEF Streak, Lateness, Left, Waiting
  <2>3. CASE ~(head[s] < Len(controlQ[s]))
    <3>1. loop'[s] = AfterDrain(s) /\ streak'[s] = 0 BY <1>1, <1>6, <2>3 DEF More, Goto, Unstreak
    <3>2. One(inHand[s]) \in 0..1 BY DEF One
    <3> QED BY <1>1, <1>2, <1>3, <2>1, <3>1, <3>2 DEF Streak, Lateness, Left
  <2> QED BY <2>2, <2>3
<1>7. CASE Swallow(s)
  <2>1. loop[s] = "swallow" /\ loop'[s] = "drain" /\ n'[s] = 0 /\ UNCHANGED streak
    BY <1>1, <1>7 DEF Swallow, Goto, history
  <2> QED BY <1>1, <1>2, <2>1 DEF Streak, Lateness, Left
<1> QED BY <1>4, <1>5, <1>6, <1>7

\* A handler is started: with a control event it lengthens the streak by at
\* most one, with a telemetry event it ends it.
LEMMA HandlerPaced ==
  ASSUME IInv, PaceInv, NEW s \in Subs, HandleControl(s) \/ HandleYielded(s) \/ HandleInHand(s)
  PROVE  Streak(s)' /\ Lateness(s)'
<1> USE BusAssumption
<1>1. /\ UNCHANGED <<done, ch>> /\ loop \in [Subs -> Places] /\ n \in [Subs -> Nat]
      /\ done[s] \in BOOLEAN /\ streak \in [Subs -> Nat] /\ late \in [Subs -> Nat]
      /\ inHand \in [Subs -> Events \cup {None}] /\ Counted(s)
  BY DEF HandleControl, HandleYielded, HandleInHand, Tell, Steps, queues, IInv, TypeOK, PaceInv
<1>2. streak[s] \in Nat /\ late[s] \in Nat /\ n[s] \in Nat /\ Streak(s) /\ Lateness(s)
  BY <1>1 DEF PaceInv
<1>3. late'[s] = late[s] + (IF done[s] THEN 1 ELSE 0) BY <1>1, <1>2 DEF Counted
<1>4. One(inHand[s]) \in 0..1 BY DEF One
<1>5. CASE HandleControl(s)
  <2>1. /\ loop[s] = "control" /\ n'[s] = n[s] + 1 /\ inHand'[s] = inHand[s]
        /\ loop'[s] = IF n[s] + 1 >= MaxDrain THEN "more" ELSE "drain"
        /\ streak'[s] = IF Waiting(s) THEN streak[s] + 1 ELSE 0
    BY <1>1, <1>5 DEF HandleControl, Goto, Full
  <2>2. n[s] < MaxDrain /\ streak[s] <= n[s] BY <1>2, <2>1 DEF Streak
  <2>3. Waiting(s)' = Waiting(s) BY <1>1 DEF Waiting
  <2>4. Streak(s)' BY <1>1, <1>2, <2>1, <2>2, <2>3 DEF Streak
  <2>5. Left(s) = 2 + One(inHand[s]) /\ Left(s)' <= 1 + One(inHand[s]) /\ Left(s)' \in Nat
    BY <1>4, <2>1 DEF Left
  <2>6. Lateness(s)' BY <1>1, <1>2, <1>3, <1>4, <2>5 DEF Lateness
  <2> QED BY <2>4, <2>6
<1>6. CASE HandleYielded(s)
  <2>1. loop[s] = "yielded" /\ loop'[s] = "swallow" /\ inHand'[s] = inHand[s] /\ streak'[s] = 0
    BY <1>1, <1>6 DEF HandleYielded, Tell, Goto, Unstreak
  <2>2. Left(s) = 1 + One(inHand[s]) /\ Left(s)' = One(inHand[s]) BY <1>4, <2>1 DEF Left
  <2> QED BY <1>1, <1>2, <1>3, <1>4, <2>1, <2>2 DEF Streak, Lateness
<1>7. CASE HandleInHand(s)
  <2>1. loop[s] = "handle" /\ loop'[s] = "outer" /\ inHand'[s] = None /\ streak'[s] = 0
    BY <1>1, <1>7 DEF HandleInHand, Tell, Goto, Unstreak
  <2>2. inHand[s] # None BY <2>1 DEF IInv, Hands
  <2>3. Left(s) = 1 /\ Left(s)' = 0 BY <2>1, <2>2 DEF Left, One
  <2> QED BY <1>1, <1>2, <1>3, <2>1, <2>3 DEF Streak, Lateness
<1> QED BY <1>5, <1>6, <1>7

\* The histories keep their types.
LEMMA PaceTyped ==
  ASSUME IInv, PaceInv, NEW s \in Subs, DispatchStep(s)
  PROVE  streak' \in [Subs -> Nat] /\ late' \in [Subs -> Nat]
<1>1. streak \in [Subs -> Nat] /\ late \in [Subs -> Nat] BY DEF PaceInv
<1>2. late' = late \/ late' = [late EXCEPT ![s] = @ + 1]
  BY DEF DispatchStep, Outer, Inner, Holding, Pop, Recheck, HandleControl, More, Yield, HandleYielded,
         HandleInHand, Swallow, Exit, StartDrain, Tell, Counted, history
<1>3. streak' = streak \/ streak' = [streak EXCEPT ![s] = @ + 1] \/ streak' = [streak EXCEPT ![s] = 0]
  BY DEF DispatchStep, Outer, Inner, Holding, Pop, Recheck, HandleControl, More, Yield, HandleYielded,
         HandleInHand, Swallow, Exit, StartDrain, Tell, Unstreak, history
<1> QED BY <1>1, <1>2, <1>3

\* Every step keeps the pace.
LEMMA PaceStep == IInv /\ PaceInv /\ [Next]_vars => PaceInv'
<1> SUFFICES ASSUME IInv, PaceInv, [Next]_vars PROVE PaceInv' OBVIOUS
<1>1. ASSUME UNCHANGED <<loop, n, inHand, streak, late>>,
             \A s \in Subs : done[s] => done'[s], \A s \in Subs : Waiting(s) => Waiting(s)'
      PROVE  PaceInv'
  <2>1. ASSUME NEW s \in Subs PROVE Streak(s)' /\ Lateness(s)' BY <1>1, PaceRests
  <2> QED BY <1>1, <2>1 DEF PaceInv
<1>2. ASSUME NEW s \in Subs, DispatchStep(s) PROVE PaceInv'
  <2>1. ASSUME NEW r \in Subs \ {s} PROVE Streak(r)' /\ Lateness(r)'
    <3>1. /\ loop'[r] = loop[r] /\ n'[r] = n[r] /\ inHand'[r] = inHand[r]
          /\ streak'[r] = streak[r] /\ late'[r] = late[r] /\ done'[r] = done[r] /\ ch'[r] = ch[r]
      BY <1>2, OthersRest
    <3>2. Waiting(r)' = Waiting(r) BY <3>1 DEF Waiting
    <3> QED BY <3>1, <3>2, PaceRests
  <2>2. Streak(s)' /\ Lateness(s)' BY <1>2, SelectPaced, DrainPaced, HandlerPaced DEF DispatchStep
  <2> QED BY <1>2, <2>1, <2>2, PaceTyped DEF PaceInv
<1>3. ASSUME NEW s \in Subs, Subscribe(s) PROVE PaceInv'
  <2>1. UNCHANGED <<n, inHand, streak, late, done, ch>> /\ loop[s] = "none" /\ loop'[s] = "outer"
        /\ \A r \in Subs \ {s} : loop'[r] = loop[r]
    BY <1>3 DEF Subscribe, queues, history, IInv, TypeOK
  <2>2. ASSUME NEW r \in Subs \ {s} PROVE Streak(r)' /\ Lateness(r)'
    BY <2>1, PaceRests DEF Waiting
  <2>3. ~done[s] /\ inHand[s] = None BY <2>1 DEF IInv, OnlySubscribed, Hands
  <2>4. Streak(s)' /\ Lateness(s)' BY <2>1, <2>3 DEF PaceInv, Streak, Lateness
  <2> QED BY <2>1, <2>2, <2>4 DEF PaceInv
<1>4. ASSUME NEW gone \in Withdrawn, Withdraw(gone) PROVE PaceInv'
  BY <1>1, <1>4 DEF Withdraw, queues, dispatch, history, Waiting
<1>5. ASSUME NEW p \in Publishers, PublishStep(p) PROVE PaceInv'
  <2>1. UNCHANGED <<loop, n, inHand, streak, late, done>>
    BY <1>5 DEF PublishStep, EnqueueControl, Nudge, OfferTelemetry, dispatch, history
  <2>2. ASSUME NEW s \in Subs, Waiting(s) PROVE Waiting(s)'
    <3>1. ch'[s] = ch[s] \/ \E e : ch'[s] = Append(ch[s], e)
      <4>1. PICK r \in Subs : EnqueueControl(p, r) \/ Nudge(p, r) \/ OfferTelemetry(p, r)
        BY <1>5 DEF PublishStep
      <4>2. ch \in [Subs -> Seq(Events)] BY DEF IInv, TypeOK
      <4>3. UNCHANGED ch \/ ch' = [ch EXCEPT ![r] = Append(ch[r], publish[p].ev)]
        BY <4>1 DEF EnqueueControl, Nudge, OfferTelemetry
      <4> QED BY <4>2, <4>3
    <3>2. \A e : Append(ch[s], e) # <<>>
      <4>1. ch[s] \in Seq(Events) BY DEF IInv, TypeOK
      <4>2. ASSUME NEW e PROVE Append(ch[s], e) # <<>>
        <5>1. Len(Append(ch[s], e)) = Len(ch[s]) + 1 /\ Len(ch[s]) \in Nat BY <4>1
        <5> QED BY <5>1
      <4> QED BY <4>2
    <3> QED BY <2>2, <3>1, <3>2 DEF Waiting
  <2> QED BY <1>1, <2>1, <2>2
<1>6. ASSUME NEW p \in Publishers, NEW t \in Types, Publish(p, t) PROVE PaceInv'
  BY <1>1, <1>6 DEF Publish, queues, dispatch, history, Waiting
<1>7. ASSUME NEW c \in Closers, Close(c) \/ CloseStep(c) PROVE PaceInv'
  <2>1. UNCHANGED <<loop, n, inHand, streak, late, ch>>
    BY <1>7 DEF Close, CloseStep, Join, CloseCancel, queues, dispatch, history
  <2>2. \A s \in Subs : done[s] => done'[s]
    BY <1>7 DEF Close, CloseStep, Join, CloseCancel, IInv, TypeOK
  <2> QED BY <1>1, <2>1, <2>2 DEF Waiting
<1>8. CASE UNCHANGED vars BY <1>1, <1>8 DEF vars, queues, dispatch, history, Waiting
<1> QED BY <1>2, <1>3, <1>4, <1>5, <1>6, <1>7, <1>8 DEF Next

\* Nothing has been handled yet.
LEMMA PaceInit == Init => PaceInv
  BY BusAssumption DEF Init, PaceInv, Streak, Lateness

\* The two bounds of a dispatch loop hold for every number of publishers and
\* every MaxDrain: the telemetry channel is passed by no more than MaxDrain
\* times in a row, and a cancelled loop starts at most three more handlers.
THEOREM HandlersBounded == Spec => []HandlersAreBounded
<1>1. IInv /\ PaceInv => HandlersAreBounded
  <2> SUFFICES ASSUME IInv, PaceInv, NEW s \in Subs PROVE streak[s] <= MaxDrain /\ late[s] <= 3
    BY DEF HandlersAreBounded, ChannelIsServed, FewLateHandlers
  <2>1. streak[s] <= MaxDrain /\ late[s] \in Nat /\ Lateness(s) /\ done[s] \in BOOLEAN
    BY DEF PaceInv, Streak, IInv, TypeOK
  <2>2. Left(s) \in 0..3 BY DEF Left, One
  <2> QED BY <2>1, <2>2 DEF Lateness
<1> QED BY <1>1, PaceInit, PaceStep, InvHolds, PTL DEF Spec
-----------------------------------------------------------------------------
(* After Close: the loops it joined are over, and a closed bus makes none.  *)

ShutDown ==
  /\ \A c \in Closers : closing[c].at \in {"cancelling", "joined"} => closed
  /\ (\E c \in Closers : closing[c].at = "joined") => Joined

\* Before any Close.
LEMMA ShutDownInit == Init => ShutDown
  BY DEF Init, ShutDown

\* A loop that is over, or was never started, dispatches nothing.
LEMMA OverIsOver ==
  ASSUME NEW s \in Subs, loop[s] \in {"none", "exited"}
  PROVE  ~DispatchStep(s)
  BY DEF DispatchStep, Outer, Inner, Holding, Pop, Recheck, HandleControl, More, Yield, HandleYielded,
         HandleInHand, Swallow

\* Every step leaves it so.
LEMMA ShutDownStep == IInv /\ ShutDown /\ [Next]_vars => ShutDown'
<1> SUFFICES ASSUME IInv, ShutDown, [Next]_vars PROVE ShutDown' OBVIOUS
<1>1. ASSUME UNCHANGED <<closed, closing, loop>> PROVE ShutDown' BY <1>1 DEF ShutDown, Joined
<1>2. ASSUME NEW s \in Subs, Subscribe(s) PROVE ShutDown'
  <2>1. ~closed /\ UNCHANGED <<closed, closing>> BY <1>2 DEF Subscribe
  <2> QED BY <2>1 DEF ShutDown
<1>3. ASSUME NEW s \in Subs, DispatchStep(s) PROVE ShutDown'
  <2>1. UNCHANGED <<closed, closing>>
    BY <1>3 DEF DispatchStep, Outer, Inner, Holding, Pop, Recheck, HandleControl, More, Yield,
       HandleYielded, HandleInHand, Swallow, Exit, StartDrain, Tell, Steps
  <2>2. ~Joined BY <1>3, OverIsOver DEF Joined
  <2> QED BY <2>1, <2>2 DEF ShutDown
<1>4. ASSUME NEW gone \in Withdrawn, Withdraw(gone) PROVE ShutDown' BY <1>1, <1>4 DEF Withdraw, dispatch
<1>5. ASSUME NEW p \in Publishers, PublishStep(p) PROVE ShutDown'
  BY <1>1, <1>5 DEF PublishStep, EnqueueControl, Nudge, OfferTelemetry, dispatch
<1>6. ASSUME NEW p \in Publishers, NEW t \in Types, Publish(p, t) PROVE ShutDown'
  BY <1>1, <1>6 DEF Publish, dispatch
<1>7. ASSUME NEW c \in Closers, Close(c) PROVE ShutDown'
  BY <1>7 DEF Close, dispatch, ShutDown, Joined, IInv, Bookkeeping
<1>8. ASSUME NEW c \in Closers, NEW s \in Subs, CloseCancel(c, s) PROVE ShutDown'
  BY <1>8 DEF CloseCancel, dispatch, ShutDown, Joined, IInv, Bookkeeping
<1>9. ASSUME NEW c \in Closers, Join(c) PROVE ShutDown'
  BY <1>9 DEF Join, dispatch, ShutDown, Joined, IInv, Bookkeeping
<1>10. CASE UNCHANGED vars BY <1>1, <1>10 DEF vars, dispatch
<1> QED BY <1>2, <1>3, <1>4, <1>5, <1>6, <1>7, <1>8, <1>9, <1>10 DEF Next, CloseStep

\* Once the Close that shut the bus down has come back, no step of the bus
\* calls a handler.
THEOREM SilentAfterClose == Spec => NothingAfterClose
<1>1. ShutDown /\ [Next]_vars =>
        [(\E c \in Closers : closing[c].at = "joined") => UNCHANGED <<took, told>>]_vars
  <2> SUFFICES ASSUME ShutDown, [Next]_vars, NEW c \in Closers, closing[c].at = "joined"
               PROVE  UNCHANGED <<took, told>>
    OBVIOUS
  <2>1. Joined BY DEF ShutDown
  <2>2. ASSUME NEW s \in Subs, DispatchStep(s) PROVE FALSE BY <2>1, <2>2, OverIsOver DEF Joined
  <2>3. CASE UNCHANGED vars BY <2>3 DEF vars, history
  <2> QED BY <2>2, <2>3 DEF Next, Subscribe, Withdraw, PublishStep, EnqueueControl, Nudge, OfferTelemetry,
          Publish, Close, CloseStep, CloseCancel, Join, history
<1> QED BY <1>1, ShutDownInit, ShutDownStep, InvHolds, PTL DEF Spec, NothingAfterClose
=============================================================================
