------------------------------- MODULE EventBus -------------------------------
(***************************************************************************)
(* What the data layer promises of its events, whatever goroutines it uses *)
(* to keep the promise: an event posted while there is room is handled     *)
(* after every event posted before it and exactly once; an event posted    *)
(* while there is none is dropped; when the bus is closed, the events not  *)
(* yet handled are lost.                                                   *)
(***************************************************************************)
EXTENDS Naturals, Sequences

CONSTANTS Events,   \* the events that may be posted
          Room      \* how many events may wait

VARIABLES waiting,  \* posted and not handled yet, oldest first
          handled,  \* handled by every consumer, in order
          open      \* is the consumer running or still to be started?

busVars == <<waiting, handled, open>>

BusInit == waiting = <<>> /\ handled = <<>> /\ open = TRUE

Post(e) ==
    /\ Len(waiting) < Room
    /\ waiting' = Append(waiting, e)
    /\ UNCHANGED <<handled, open>>

Handle ==
    /\ open /\ waiting # <<>>
    /\ handled' = Append(handled, Head(waiting))
    /\ waiting' = Tail(waiting)
    /\ UNCHANGED open

Close == open' = FALSE /\ UNCHANGED <<waiting, handled>>

BusNext == (\E e \in Events : Post(e)) \/ Handle \/ Close

BusSpec == BusInit /\ [][BusNext]_busVars
=============================================================================
