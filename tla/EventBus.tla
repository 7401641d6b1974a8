------------------------------ MODULE EventBus ------------------------------
(***************************************************************************)
(* The in-memory bus of internal/events/bus.go.  Publishers append control *)
(* events to an unbounded queue per subscription and offer telemetry to a  *)
(* bounded channel; one goroutine per subscription (dispatchLoop) drains   *)
(* both into the handler, control first but not more than MaxDrain in one  *)
(* go.  Cancel, Unsubscribe and Close end subscriptions at any moment.     *)
(*                                                                         *)
(* One action is one access to shared state: a channel operation, a        *)
(* section under a mutex, or the start of a handler.  Where several cases  *)
(* of a Go select are ready, any of them may be taken.                     *)
(***************************************************************************)
EXTENDS Naturals, Sequences, FiniteSets

CONSTANTS Subs,          \* subscriptions that may be made
          Publishers,    \* goroutines that call Publish
          Closers,       \* goroutines that call Close
          Types,         \* event types
          ControlTypes,  \* those with guaranteed delivery
          AllTypes,      \* the interest of SubscribeAll
          Interest,      \* [Subs -> Types \cup {AllTypes}]
          Handler,       \* [Subs -> the handler's function pointer]
          Buffer,        \* capacity of the telemetry channel
          MaxDrain,      \* MaxConsecutiveControlDrains
          MaxEvents,     \* bound: events one publisher sends
          None

ASSUME BusAssumption ==
  /\ ControlTypes \subseteq Types
  /\ AllTypes \notin Types
  /\ Interest \in [Subs -> Types \cup {AllTypes}]
  /\ Buffer \in Nat \ {0}
  /\ MaxDrain \in Nat \ {0}
  /\ MaxEvents \in Nat
  /\ None \notin [from : Publishers, n : 1..MaxEvents, type : Types]

\* An event is known by who sent it, as which of its events, and its type.
Events == [from : Publishers, n : 1..MaxEvents, type : Types]

VARIABLES
  closed,      \* Bus.closed
  registered,  \* Bus.subs and Bus.allSubs
  done,        \* subscription.done is closed
  ch,          \* subscription.ch, the telemetry channel
  controlQ,    \* subscription.controlQ, with what was taken from it still in front
  head,        \* subscription.controlHead
  wake,        \* subscription.controlWake holds its token
  dropped,     \* subscription.dropped
  loop,        \* where dispatchLoop is
  n,           \* the control events of the current drain
  inHand,      \* the telemetry event dispatchLoop received and has not handled
  yielded,     \* the telemetry event the yield of a drain received
  sent,        \* per publisher, the events it published
  publish,     \* per publisher, the Publish call it is in
  closing,     \* per closer, the Close call it is in
  took,        \* history: the control events given to the handler
  told,        \* history: the telemetry events given to the handler
  offered,     \* history: how many events of each class were offered
  late,        \* history: handlers started since the cancellation
  streak       \* history: control events handled while the queue was never
               \* empty and telemetry waited in the channel

queues == <<ch, controlQ, head, wake, dropped>>
dispatch == <<loop, n, inHand, yielded>>
history == <<took, told, offered, late, streak>>
vars == <<closed, registered, done, queues, dispatch, sent, publish, closing, history>>

Idle == [ev |-> None, todo |-> {}, nudge |-> None]

Init ==
  /\ closed = FALSE
  /\ registered = {}
  /\ done = [s \in Subs |-> FALSE]
  /\ ch = [s \in Subs |-> <<>>]
  /\ controlQ = [s \in Subs |-> <<>>]
  /\ head = [s \in Subs |-> 0]
  /\ wake = [s \in Subs |-> FALSE]
  /\ dropped = [s \in Subs |-> 0]
  /\ loop = [s \in Subs |-> "none"]
  /\ n = [s \in Subs |-> 0]
  /\ inHand = [s \in Subs |-> None]
  /\ yielded = [s \in Subs |-> None]
  /\ sent = [p \in Publishers |-> 0]
  /\ publish = [p \in Publishers |-> Idle]
  /\ closing = [c \in Closers |-> [at |-> "idle", todo |-> {}]]
  /\ took = [s \in Subs |-> <<>>]
  /\ told = [s \in Subs |-> <<>>]
  /\ offered = [s \in Subs |-> [control |-> 0, telemetry |-> 0]]
  /\ late = [s \in Subs |-> 0]
  /\ streak = [s \in Subs |-> 0]

-----------------------------------------------------------------------------
(* Subscribe, SubscribeAll, Cancel and Unsubscribe: each one section under  *)
(* Bus.mu.                                                                  *)

Subscribe(s) ==
  /\ ~closed
  /\ loop[s] = "none"
  /\ registered' = registered \cup {s}
  /\ loop' = [loop EXCEPT ![s] = "outer"]
  /\ UNCHANGED <<closed, done, queues, n, inHand, yielded, sent, publish, closing, history>>

\* remove takes one subscription, Unsubscribe every one to a type with the same
\* handler, never one to all types.
Withdrawn ==
  {{s} : s \in registered} \cup
  {{s \in registered : Interest[s] = t /\ Handler[s] = h} : t \in Types, h \in {Handler[s] : s \in Subs}}

\* What is taken out of the bus is cancelled in the same section.
Withdraw(gone) ==
  /\ gone # {}
  /\ registered' = registered \ gone
  /\ done' = [s \in Subs |-> done[s] \/ s \in gone]
  /\ UNCHANGED <<closed, queues, dispatch, sent, publish, closing, history>>

-----------------------------------------------------------------------------
(* Publish: the interested subscriptions are copied under the lock, then    *)
(* served one after the other, in any order (a Go map), without it.         *)

Interested(t) == {s \in registered : Interest[s] \in {t, AllTypes}}

Publish(p, t) ==
  /\ publish[p] = Idle
  /\ sent[p] < MaxEvents
  /\ ~closed
  /\ Interested(t) # {}
  /\ sent' = [sent EXCEPT ![p] = @ + 1]
  /\ publish' = [publish EXCEPT ![p] =
       [ev |-> [from |-> p, n |-> sent[p] + 1, type |-> t],
        todo |-> Interested(t), nudge |-> None]]
  /\ UNCHANGED <<closed, registered, done, queues, dispatch, closing, history>>

\* The publisher is done with s, and with its call once s was the last.
Served(p, s, nudge) ==
  LET rest == publish[p].todo \ {s}
  IN  publish' = [publish EXCEPT ![p] =
        IF rest = {} /\ nudge = None THEN Idle ELSE [@ EXCEPT !.todo = rest, !.nudge = nudge]]

IsControl(p) == publish[p].ev.type \in ControlTypes

\* Mutant: the control queue is bounded like the telemetry channel.
MutantEnqueueControl(p, s) ==
  /\ s \in publish[p].todo /\ publish[p].nudge = None
  /\ IsControl(p)
  /\ controlQ' = IF Len(controlQ[s]) - head[s] < Buffer
                 THEN [controlQ EXCEPT ![s] = Append(@, publish[p].ev)] ELSE controlQ
  /\ offered' = [offered EXCEPT ![s].control = @ + 1]
  /\ Served(p, s, s)
  /\ UNCHANGED <<closed, registered, done, ch, head, wake, dropped, dispatch, sent, closing,
                 took, told, late, streak>>

\* enqueueControl, first half: the append under controlMu.
EnqueueControl(p, s) ==
  /\ s \in publish[p].todo /\ publish[p].nudge = None
  /\ IsControl(p)
  /\ controlQ' = [controlQ EXCEPT ![s] = Append(@, publish[p].ev)]
  /\ offered' = [offered EXCEPT ![s].control = @ + 1]
  /\ Served(p, s, s)
  /\ UNCHANGED <<closed, registered, done, ch, head, wake, dropped, dispatch, sent, closing,
                 took, told, late, streak>>

\* enqueueControl, second half: the send that is dropped when the slot is full.
Nudge(p, s) ==
  /\ publish[p].nudge = s
  /\ wake' = [wake EXCEPT ![s] = TRUE]
  /\ publish' = [publish EXCEPT ![p] =
       IF @.todo = {} THEN Idle ELSE [@ EXCEPT !.nudge = None]]
  /\ UNCHANGED <<closed, registered, done, ch, controlQ, head, dropped, dispatch, sent, closing, history>>

\* Mutant: one event too many.
MutantRoom(s) == Len(ch[s]) <= Buffer

Room(s) == Len(ch[s]) < Buffer

OfferTelemetry(p, s) ==
  /\ s \in publish[p].todo /\ publish[p].nudge = None
  /\ ~IsControl(p)
  /\ IF Room(s)
     THEN ch' = [ch EXCEPT ![s] = Append(@, publish[p].ev)] /\ UNCHANGED dropped
     ELSE dropped' = [dropped EXCEPT ![s] = @ + 1] /\ UNCHANGED ch
  /\ offered' = [offered EXCEPT ![s].telemetry = @ + 1]
  /\ Served(p, s, None)
  /\ UNCHANGED <<closed, registered, done, controlQ, head, wake, dispatch, sent, closing,
                 took, told, late, streak>>

-----------------------------------------------------------------------------
(* Close: mark the bus closed and empty it under the lock, cancel what was  *)
(* in it, and join the dispatch goroutines.                                 *)

Close(c) ==
  /\ closing[c].at = "idle"
  /\ closing' = [closing EXCEPT ![c] =
       IF closed THEN [at |-> "returned", todo |-> {}]
       ELSE [at |-> "cancelling", todo |-> registered]]
  /\ closed' = TRUE
  /\ registered' = IF closed THEN registered ELSE {}
  /\ UNCHANGED <<done, queues, dispatch, sent, publish, history>>

CloseCancel(c, s) ==
  /\ closing[c].at = "cancelling" /\ s \in closing[c].todo
  /\ done' = [done EXCEPT ![s] = TRUE]
  /\ closing' = [closing EXCEPT ![c].todo = @ \ {s}]
  /\ UNCHANGED <<closed, registered, queues, dispatch, sent, publish, history>>

\* Mutant: the goroutines are told to stop and not waited for.
MutantJoined == TRUE

\* WaitGroup.Wait
Joined == \A s \in Subs : loop[s] \in {"none", "exited"}

Join(c) ==
  /\ closing[c].at = "cancelling" /\ closing[c].todo = {}
  /\ Joined
  /\ closing' = [closing EXCEPT ![c].at = "joined"]
  /\ UNCHANGED <<closed, registered, done, queues, dispatch, sent, publish, history>>

-----------------------------------------------------------------------------
(* dispatchLoop.  The four places that drain the control queue are one here,*)
(* with the telemetry event in hand telling which of them it is.            *)

Goto(s, at) == loop' = [loop EXCEPT ![s] = at]
Steps == <<closed, registered, done, sent, publish, closing>>

\* Mutant: the nested drains continue with the next round, too.
MutantAfterDrain(s) == "outer"

\* After a drain that left nothing: the event in hand, or the next round.
AfterDrain(s) == IF inHand[s] = None THEN "outer" ELSE "handle"

Exit(s) ==
  /\ done[s]
  /\ Goto(s, "exited")
  /\ UNCHANGED <<Steps, queues, n, inHand, yielded, history>>

StartDrain(s) ==
  /\ wake[s]
  /\ wake' = [wake EXCEPT ![s] = FALSE]
  /\ n' = [n EXCEPT ![s] = 0]
  /\ Goto(s, "drain")
  /\ UNCHANGED <<Steps, ch, controlQ, head, dropped, inHand, yielded, history>>

\* The outer select, whose default falls into the inner, blocking one.
Outer(s) ==
  /\ loop[s] = "outer"
  /\ \/ Exit(s)
     \/ StartDrain(s)
     \/ /\ ~done[s] /\ ~wake[s]
        /\ Goto(s, "inner")
        /\ UNCHANGED <<Steps, queues, n, inHand, yielded, history>>

Receive(s) ==
  /\ ch[s] # <<>>
  /\ ch' = [ch EXCEPT ![s] = Tail(@)]
  /\ UNCHANGED <<controlQ, head, wake, dropped>>

\* Mutant: the blocking select does not listen to the wake-up.
MutantInner(s) ==
  /\ loop[s] = "inner"
  /\ \/ Exit(s)
     \/ /\ Receive(s)
        /\ inHand' = [inHand EXCEPT ![s] = Head(ch[s])]
        /\ Goto(s, "holding")
        /\ UNCHANGED <<Steps, n, yielded, history>>

Inner(s) ==
  /\ loop[s] = "inner"
  /\ \/ Exit(s)
     \/ StartDrain(s)
     \/ /\ Receive(s)
        /\ inHand' = [inHand EXCEPT ![s] = Head(ch[s])]
        /\ Goto(s, "holding")
        /\ UNCHANGED <<Steps, n, yielded, history>>

\* With a telemetry event in hand, control is looked at once more.
Holding(s) ==
  /\ loop[s] = "holding"
  /\ \/ Exit(s)
     \/ StartDrain(s)
     \/ /\ ~done[s] /\ ~wake[s]
        /\ Goto(s, "handle")
        /\ UNCHANGED <<Steps, queues, n, inHand, yielded, history>>

Unstreak(s) == streak' = [streak EXCEPT ![s] = 0]

\* popControl; a queue found empty, here or by hasControl, ends the streaks.
Pop(s) ==
  /\ loop[s] = "drain"
  /\ IF head[s] < Len(controlQ[s])
     THEN head' = [head EXCEPT ![s] = @ + 1] /\ Goto(s, "popped")
     ELSE Goto(s, AfterDrain(s)) /\ UNCHANGED head
  /\ IF head[s] < Len(controlQ[s]) THEN UNCHANGED streak ELSE Unstreak(s)
  /\ UNCHANGED <<Steps, ch, controlQ, wake, dropped, n, inHand, yielded, took, told, offered, late>>

\* Cancellation is looked at again before each handler of a drain.
Recheck(s) ==
  /\ loop[s] = "popped"
  /\ Goto(s, IF done[s] THEN AfterDrain(s) ELSE "control")
  /\ UNCHANGED <<Steps, queues, n, inHand, yielded, history>>

Counted(s) == late' = IF done[s] THEN [late EXCEPT ![s] = @ + 1] ELSE late
Waiting(s) == ch[s] # <<>>

\* Mutant: one control event too many before the yield.
MutantFull(s) == n[s] >= MaxDrain

Full(s) == n[s] + 1 >= MaxDrain

\* Mutant: the newest control event first.
MutantFront(s) == controlQ[s][Len(controlQ[s])]

Front(s) == controlQ[s][head[s]]

HandleControl(s) ==
  /\ loop[s] = "control"
  /\ took' = [took EXCEPT ![s] = Append(@, Front(s))]
  /\ streak' = [streak EXCEPT ![s] = IF Waiting(s) THEN @ + 1 ELSE 0]
  /\ Counted(s)
  /\ n' = [n EXCEPT ![s] = @ + 1]
  /\ Goto(s, IF Full(s) THEN "more" ELSE "drain")
  /\ UNCHANGED <<Steps, queues, inHand, yielded, told, offered>>

\* hasControl
More(s) ==
  /\ loop[s] = "more"
  /\ IF head[s] < Len(controlQ[s])
     THEN Goto(s, "yield") /\ UNCHANGED streak
     ELSE Goto(s, AfterDrain(s)) /\ Unstreak(s)
  /\ UNCHANGED <<Steps, queues, n, inHand, yielded, took, told, offered, late>>

\* Between two drains of a saturated queue one telemetry event is served.
Yield(s) ==
  /\ loop[s] = "yield"
  /\ \/ Exit(s)
     \/ /\ Receive(s)
        /\ yielded' = [yielded EXCEPT ![s] = Head(ch[s])]
        /\ Goto(s, "yielded")
        /\ UNCHANGED <<Steps, n, inHand, history>>
     \/ /\ ~done[s] /\ ch[s] = <<>>
        /\ Goto(s, "swallow")
        /\ UNCHANGED <<Steps, queues, n, inHand, yielded, history>>

\* The handler runs on a telemetry event.
Tell(s, ev) ==
  /\ told' = [told EXCEPT ![s] = Append(@, ev)]
  /\ Unstreak(s)
  /\ Counted(s)
  /\ UNCHANGED <<Steps, queues, n, took, offered>>

HandleYielded(s) ==
  /\ loop[s] = "yielded"
  /\ Tell(s, yielded[s])
  /\ yielded' = [yielded EXCEPT ![s] = None]
  /\ Goto(s, "swallow")
  /\ UNCHANGED inHand

HandleInHand(s) ==
  /\ loop[s] = "handle"
  /\ Tell(s, inHand[s])
  /\ inHand' = [inHand EXCEPT ![s] = None]
  /\ Goto(s, "outer")
  /\ UNCHANGED yielded

\* The token of events appended meanwhile is taken back before the next drain.
Swallow(s) ==
  /\ loop[s] = "swallow"
  /\ wake' = [wake EXCEPT ![s] = FALSE]
  /\ n' = [n EXCEPT ![s] = 0]
  /\ Goto(s, "drain")
  /\ UNCHANGED <<Steps, ch, controlQ, head, dropped, inHand, yielded, history>>

DispatchStep(s) ==
  \/ Outer(s) \/ Inner(s) \/ Holding(s)
  \/ Pop(s) \/ Recheck(s) \/ HandleControl(s) \/ More(s)
  \/ Yield(s) \/ HandleYielded(s) \/ HandleInHand(s) \/ Swallow(s)

PublishStep(p) == \E s \in Subs : EnqueueControl(p, s) \/ Nudge(p, s) \/ OfferTelemetry(p, s)

CloseStep(c) == Join(c) \/ \E s \in Subs : CloseCancel(c, s)

Next ==
  \/ \E s \in Subs : Subscribe(s) \/ DispatchStep(s)
  \/ \E gone \in Withdrawn : Withdraw(gone)
  \/ \E p \in Publishers : PublishStep(p) \/ \E t \in Types : Publish(p, t)
  \/ \E c \in Closers : Close(c) \/ CloseStep(c)

Spec == Init /\ [][Next]_vars

\* Goroutines that have something to do are scheduled; nobody has to
\* subscribe, publish, cancel or close.
FairSpec ==
  /\ Spec
  /\ \A s \in Subs : WF_vars(DispatchStep(s))
  /\ \A p \in Publishers : WF_vars(PublishStep(p))
  /\ \A c \in Closers : WF_vars(CloseStep(c))

-----------------------------------------------------------------------------
(* Properties.                                                              *)

Places == {"none", "outer", "inner", "holding", "drain", "popped", "control",
           "more", "yield", "yielded", "swallow", "handle", "exited"}

\* The types of the bus and of its dispatch loops; the queue's front lies
\* within the queue and the telemetry channel within its capacity.
TypeOK ==
  /\ closed \in BOOLEAN
  /\ registered \subseteq Subs
  /\ done \in [Subs -> BOOLEAN]
  /\ ch \in [Subs -> Seq(Events)] /\ \A s \in Subs : Len(ch[s]) <= Buffer
  /\ controlQ \in [Subs -> Seq(Events)]
  /\ head \in [Subs -> Nat] /\ \A s \in Subs : head[s] <= Len(controlQ[s])
  /\ wake \in [Subs -> BOOLEAN]
  /\ dropped \in [Subs -> Nat]
  /\ loop \in [Subs -> Places]
  /\ n \in [Subs -> Nat]
  /\ inHand \in [Subs -> Events \cup {None}]
  /\ yielded \in [Subs -> Events \cup {None}]
  /\ took \in [Subs -> Seq(Events)]
  /\ told \in [Subs -> Seq(Events)]

InFlight(s) == loop[s] \in {"popped", "control"}

\* Until its cancellation a subscription has lost no control event, repeated
\* none and exchanged none: what its handler was given is exactly what was
\* queued and taken, but for the one about to be handled.
NoControlIsLost ==
  \A s \in Subs :
    /\ Len(controlQ[s]) = offered[s].control
    /\ took[s] = SubSeq(controlQ[s], 1, Len(took[s]))
    /\ ~done[s] => Len(took[s]) = head[s] - (IF InFlight(s) THEN 1 ELSE 0)

\* Control events of one publisher reach a handler in the order they were
\* published, however the publishers and the loop interleave.
PublishersAreInOrder ==
  \A s \in Subs : \A i, j \in 1..Len(took[s]) :
    i < j /\ took[s][i].from = took[s][j].from => took[s][i].n < took[s][j].n

One(x) == IF x = None THEN 0 ELSE 1

\* A telemetry event offered to a subscription was handled, waits, is in the
\* loop's hands or was counted as dropped: none disappears in silence, except
\* the one a cancelled loop still holds.
TelemetryIsAccounted ==
  \A s \in Subs :
    offered[s].telemetry = Len(told[s]) + Len(ch[s]) + One(inHand[s]) + One(yielded[s]) + dropped[s]

\* While the control queue stays occupied and telemetry waits in the channel,
\* no more than MaxDrain control events are handled before a telemetry event.
ChannelIsServed == \A s \in Subs : streak[s] <= MaxDrain

\* Cancellation does not wait for the loop, but the loop starts at most
\* three more handlers after it: for the control event it had checked, for one
\* telemetry event of a yield, and for the telemetry event in its hand.
FewLateHandlers == \A s \in Subs : late[s] <= 3

\* The two bounds of the dispatch loop: of control events between two telemetry
\* events, and of handlers after the cancellation.
HandlersAreBounded == ChannelIsServed /\ FewLateHandlers

\* Once the Close that shut the bus down has returned, no handler is started.
NothingAfterClose ==
  [][(\E c \in Closers : closing[c].at = "joined") => UNCHANGED <<took, told>>]_vars

\* Every Close returns: the loops all see the cancellation, whatever they were
\* waiting for.
CloseReturns ==
  \A c \in Closers : closing[c].at = "cancelling" ~> closing[c].at = "joined"

\* Close joins: it comes back, and what it waited for is over.
CloseJoins == NothingAfterClose /\ CloseReturns

\* The bus is a control channel: the queue, the one-slot wake-up and the loop
\* deliver each subscription's control events in order and, while it is live,
\* all of them.
Channel == INSTANCE ControlChannel WITH
  waiting <- [s \in Subs |-> SubSeq(controlQ[s], Len(took[s]) + 1, Len(controlQ[s]))],
  handled <- took,
  live    <- [s \in Subs |-> loop[s] # "none" /\ ~done[s]]
ImplementsChannel == Channel!Spec

\* Its safety part, for every value of the constants.
ImplementsSafeChannel == Channel!SafeSpec
=============================================================================
