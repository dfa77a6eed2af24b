----------------------------- MODULE BoundedFifo -----------------------------
(***************************************************************************)
(* What a bounded first-in first-out queue promises, with no word about    *)
(* how it is stored.  CircularBuffer (Services/circular_buffer, and        *)
(* Services/msg_queue, its typed skin) is shown to implement it, and the   *)
(* message bus (MsgBroker) is written on top of it.                        *)
(***************************************************************************)
EXTENDS Naturals, Sequences

CONSTANTS Elements,   \* what a caller may store
          Capacity,   \* how many elements fit
          Nothing     \* what a refused call hands back

VARIABLES queue,      \* the elements waiting, oldest first
          answer      \* what the last call told its caller

vars == <<queue, answer>>

Init == queue = <<>> /\ answer = Nothing

\* An element is taken in when there is room, and refused with no effect when
\* there is none.
Push(e) ==
  IF Len(queue) < Capacity
  THEN queue' = Append(queue, e) /\ answer' = e
  ELSE UNCHANGED queue /\ answer' = Nothing

\* The oldest element is handed out; an empty queue hands out nothing.
Pop ==
  IF queue # <<>>
  THEN answer' = Head(queue) /\ queue' = Tail(queue)
  ELSE answer' = Nothing /\ UNCHANGED queue

Clear == queue' = <<>> /\ answer' = Nothing

Next == Pop \/ Clear \/ \E e \in Elements : Push(e)

Spec == Init /\ [][Next]_vars
=============================================================================
