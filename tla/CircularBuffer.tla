---------------------------- MODULE CircularBuffer ----------------------------
(***************************************************************************)
(* Services/circular_buffer: a ring of Capacity slots over storage the     *)
(* caller lends, kept by a read index, a write index and a count.  The     *)
(* storage is not cleared by circular_buffer_init, so before the first     *)
(* push it holds anything.  msg_queue is the same thing for one element    *)
(* type and adds no state.  MsgBroker is built on this ring and runs it.   *)
(***************************************************************************)
EXTENDS Integers, Sequences

CONSTANTS Elements, Capacity, Nothing

\* uint16_t capacity, asserted positive by circular_buffer_init.  The bound
\* is what makes the 16-bit index + 1 of prv_advance_index exact.
ASSUME CapacityAssumption == Capacity \in 1 .. 65535
ASSUME NothingAssumption  == Nothing \notin Elements

VARIABLES storage, read_index, write_index, count,
          answer   \* what the last call returned: the element moved, or Nothing

ringVars == <<storage, read_index, write_index, count, answer>>

Slots == 0 .. Capacity - 1

AdvanceIndex(i) == IF i + 1 = Capacity THEN 0 ELSE i + 1

-----------------------------------------------------------------------------
RingInit ==
  /\ storage \in [Slots -> Elements]
  /\ read_index = 0 /\ write_index = 0 /\ count = 0
  /\ answer = Nothing

\* A clear that forgets the write index: what is pushed next is not what is
\* popped next.
ClearKeepingWrite ==
  /\ count' = 0 /\ read_index' = 0
  /\ answer' = Nothing
  /\ UNCHANGED <<storage, write_index>>

Clear ==
  /\ count' = 0 /\ read_index' = 0 /\ write_index' = 0
  /\ answer' = Nothing
  /\ UNCHANGED storage

PushFull ==
  /\ count = Capacity
  /\ answer' = Nothing
  /\ UNCHANGED <<storage, read_index, write_index, count>>

\* A push that drops the full check: the oldest element is overwritten.
PushOverwriting(e) ==
  /\ storage' = [storage EXCEPT ![write_index] = e]
  /\ write_index' = AdvanceIndex(write_index)
  /\ count' = IF count = Capacity THEN count ELSE count + 1
  /\ answer' = e
  /\ UNCHANGED read_index

PushStored(e) ==
  /\ count # Capacity
  /\ storage' = [storage EXCEPT ![write_index] = e]
  /\ write_index' = AdvanceIndex(write_index)
  /\ count' = count + 1
  /\ answer' = e
  /\ UNCHANGED read_index

Push(e) == PushFull \/ PushStored(e)

PopEmpty ==
  /\ count = 0
  /\ answer' = Nothing
  /\ UNCHANGED <<storage, read_index, write_index, count>>

PopTaken ==
  /\ count # 0
  /\ answer' = storage[read_index]
  /\ read_index' = AdvanceIndex(read_index)
  /\ count' = count - 1
  /\ UNCHANGED <<storage, write_index>>

Pop == PopEmpty \/ PopTaken

RingNext == Pop \/ Clear \/ \E e \in Elements : Push(e)

RingSpec == RingInit /\ [][RingNext]_ringVars

-----------------------------------------------------------------------------
\* Slot of the element k places behind the read index, for k in 0 .. Capacity.
SlotAt(k) == IF read_index + k < Capacity
             THEN read_index + k
             ELSE read_index + k - Capacity

-----------------------------------------------------------------------------
RingTypeOK ==
  /\ storage \in [Slots -> Elements]
  /\ read_index \in Slots
  /\ write_index \in Slots
  /\ count \in 0 .. Capacity
  /\ answer \in Elements \cup {Nothing}

\* The three numbers that say where the data is never disagree: the write
\* index is always `count` slots ahead of the read index, round the ring.
\* (push and pop each move one index and the count, clear moves all three.)
IndicesAgree == write_index = SlotAt(count)

RingInv == RingTypeOK /\ IndicesAgree

\* The ring as the queue it stands for.
Contents == [k \in 1 .. count |-> storage[SlotAt(k - 1)]]

Fifo == INSTANCE BoundedFifo WITH queue <- Contents

\* The ring implements a bounded first-in first-out queue: everything accepted
\* comes out once, in order, and nothing that was never pushed comes out, over
\* any number of trips round the storage.
ImplementsFifo == Fifo!Spec
=============================================================================
