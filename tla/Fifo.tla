-------------------------------- MODULE Fifo --------------------------------
(***************************************************************************)
(* What FixedQueue promises (src/src/common/FixedQueue.h): a first-in      *)
(* first-out queue of bounded capacity whose operations happen at once.    *)
(***************************************************************************)
EXTENDS Integers, Sequences

CONSTANTS Values, Capacities
VARIABLES
  queue,      \* the elements, the oldest first
  capacity,
  seen        \* what front() or back() last returned

NotSeen == "notSeen"

Init == queue = <<>> /\ capacity \in Capacities /\ seen = NotSeen

push ==
  /\ Len(queue) < capacity
  /\ \E v \in Values : queue' = Append(queue, v)
  /\ UNCHANGED <<capacity, seen>>

pop ==
  /\ queue # <<>>
  /\ queue' = Tail(queue)
  /\ UNCHANGED <<capacity, seen>>

front ==
  /\ queue # <<>>
  /\ seen' = Head(queue)
  /\ UNCHANGED <<queue, capacity>>

back ==
  /\ queue # <<>>
  /\ seen' = queue[Len(queue)]
  /\ UNCHANGED <<queue, capacity>>

updateCapacity ==
  /\ capacity' \in Capacities /\ capacity' >= Len(queue)
  /\ UNCHANGED <<queue, seen>>

Next == push \/ pop \/ front \/ back \/ updateCapacity
Spec == Init /\ [][Next]_<<queue, capacity, seen>>
=============================================================================
