--------------------------- MODULE ControlChannel ---------------------------
(***************************************************************************)
(* What a subscriber of the event bus is promised about control events: an *)
(* event handed to its subscription waits its turn, events are taken in    *)
(* the order they were handed over, none is dropped or repeated, and while *)
(* the subscription is live every waiting event is eventually handled.     *)
(* EventBus implements this channel with a queue, a one-slot wake-up and a *)
(* dispatch loop that also serves telemetry.                               *)
(***************************************************************************)
EXTENDS Sequences

CONSTANTS Subs,     \* the subscriptions
          Events    \* what can be handed to them

VARIABLES waiting,  \* per subscription, the events that wait, oldest first
          handled,  \* per subscription, the events its handler was given
          live      \* per subscription, subscribed and not cancelled

chanVars == <<waiting, handled, live>>

Init ==
  /\ waiting = [s \in Subs |-> <<>>]
  /\ handled = [s \in Subs |-> <<>>]
  /\ live = [s \in Subs |-> FALSE]

Open(s) ==
  /\ ~live[s]
  /\ live' = [live EXCEPT ![s] = TRUE]
  /\ UNCHANGED <<waiting, handled>>

\* A publisher that chose its subscriptions before a cancellation still hands
\* its event to the cancelled one, where it waits forever.
Send(s, e) ==
  /\ waiting' = [waiting EXCEPT ![s] = Append(@, e)]
  /\ UNCHANGED <<handled, live>>

Deliver(s) ==
  /\ waiting[s] # <<>>
  /\ handled' = [handled EXCEPT ![s] = Append(@, Head(waiting[s]))]
  /\ waiting' = [waiting EXCEPT ![s] = Tail(@)]
  /\ UNCHANGED live

\* Cancellation ends any number of subscriptions at once (Unsubscribe).
End ==
  /\ \E gone \in SUBSET Subs :
       live' = [s \in Subs |-> live[s] /\ s \notin gone]
  /\ UNCHANGED <<waiting, handled>>

Next ==
  \/ \E s \in Subs : Open(s) \/ Deliver(s) \/ \E e \in Events : Send(s, e)
  \/ End

DeliverLive(s) == live[s] /\ Deliver(s)

SafeSpec == Init /\ [][Next]_chanVars
Spec == SafeSpec /\ \A s \in Subs : WF_chanVars(DeliverLive(s))
=============================================================================
