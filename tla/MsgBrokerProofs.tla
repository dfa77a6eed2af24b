--------------------------- MODULE MsgBrokerProofs ---------------------------
(***************************************************************************)
(* The broker for every number of topics, subscribers and messages and     *)
(* every depth of its queues: the ring of CircularBuffer keeps its indices *)
(* consistent and implements BoundedFifo, by itself and as the broker's    *)
(* input queue; no subscriber sees messages out of order; and every copy   *)
(* of a message that was due is seen, waits or is lost, and counted so.    *)
(***************************************************************************)
EXTENDS MsgBroker, FiniteSetTheorems, SequenceTheorems, TLAPS

-----------------------------------------------------------------------------
(* The ring (CircularBuffer) *)

\* prv_advance_index stays inside the storage.
LEMMA AdvanceIndexInSlots ==
  ASSUME NEW i \in Slots
  PROVE  AdvanceIndex(i) \in Slots
  BY CapacityAssumption DEF AdvanceIndex, Slots

\* Every place behind the read index, up to the capacity, is a slot.
LEMMA SlotAtInSlots ==
  ASSUME RingTypeOK, NEW k \in 0 .. Capacity
  PROVE  SlotAt(k) \in Slots
  BY CapacityAssumption DEF SlotAt, Slots, RingTypeOK

\* Two different places behind the read index are two different slots, so a
\* push cannot touch an element that is waiting.
LEMMA SlotAtInjective ==
  ASSUME RingTypeOK, NEW j \in 0 .. Capacity - 1, NEW k \in 0 .. Capacity - 1,
         SlotAt(j) = SlotAt(k)
  PROVE  j = k
  BY CapacityAssumption DEF SlotAt, Slots, RingTypeOK

-----------------------------------------------------------------------------
\* The invariant: the types, and the write index `count` slots ahead of the
\* read index.  It is inductive as it stands.
LEMMA InductiveInit == RingInit => RingInv
  BY CapacityAssumption, NothingAssumption
     DEF RingInit, RingInv, RingTypeOK, IndicesAgree, SlotAt, Slots

LEMMA InductiveStep == RingInv /\ [RingNext]_ringVars => RingInv'
<1> SUFFICES ASSUME RingInv, [RingNext]_ringVars PROVE RingInv'
  OBVIOUS
<1> USE CapacityAssumption DEF RingInv, RingTypeOK, IndicesAgree, Slots
<1>1. CASE PopEmpty
  BY <1>1 DEF PopEmpty, SlotAt
<1>2. CASE PopTaken
  <2>1. AdvanceIndex(read_index) \in 0 .. Capacity - 1
    BY AdvanceIndexInSlots
  <2>2. RingTypeOK'
    BY <1>2, <2>1 DEF PopTaken
  <2>3. SlotAt(count)' = SlotAt(count)
    BY <1>2 DEF PopTaken, SlotAt, AdvanceIndex
  <2> QED
    BY <1>2, <2>2, <2>3 DEF PopTaken
<1>3. CASE Clear
  BY <1>3 DEF Clear, SlotAt
<1>4. CASE PushFull
  BY <1>4 DEF PushFull, SlotAt
<1>5. ASSUME NEW e \in Elements, PushStored(e)
      PROVE  RingInv'
  <2>1. AdvanceIndex(write_index) \in 0 .. Capacity - 1
    BY AdvanceIndexInSlots
  <2>2. RingTypeOK'
    BY <1>5, <2>1 DEF PushStored
  <2>3. SlotAt(count)' = AdvanceIndex(write_index)
    BY <1>5 DEF PushStored, SlotAt, AdvanceIndex
  <2> QED
    BY <1>5, <2>2, <2>3 DEF PushStored
<1>6. CASE UNCHANGED ringVars
  BY <1>6 DEF ringVars, SlotAt
<1> QED
  BY <1>1, <1>2, <1>3, <1>4, <1>5, <1>6 DEF RingNext, Pop, Push

LEMMA Inductive == RingSpec => []RingInv
<1> QED BY InductiveInit, InductiveStep, PTL DEF RingSpec

\* The indices stay inside the storage and the count inside the capacity.
THEOREM TypeCorrect == RingSpec => []RingTypeOK
<1>1. RingInv => RingTypeOK
  BY DEF RingInv
<1> QED BY <1>1, Inductive, PTL

\* Read index, write index and count never disagree about where the data is.
THEOREM IndicesAlwaysAgree == RingSpec => []IndicesAgree
<1>1. RingInv => IndicesAgree
  BY DEF RingInv
<1> QED BY <1>1, Inductive, PTL

-----------------------------------------------------------------------------
(* The refinement: one lemma per kind of step, then the theorem. *)

\* The mapped queue is a sequence of elements as long as the count.
LEMMA QueueIsSeq ==
  ASSUME RingInv
  PROVE  /\ Contents \in Seq(Elements)
         /\ Len(Contents) = count
         /\ \A k \in 1 .. count : Contents[k] = storage[SlotAt(k - 1)]
<1> USE DEF RingInv, RingTypeOK
<1>1. \A k \in 1 .. count : storage[SlotAt(k - 1)] \in Elements
  BY SlotAtInSlots, CapacityAssumption
<1> QED
  BY <1>1, CapacityAssumption DEF Contents

\* A pop hands out the head and leaves the tail.
LEMMA PopRefines ==
  ASSUME RingInv, PopTaken
  PROVE  Fifo!Pop
<1> SUFFICES /\ Contents # <<>>
             /\ answer' = Head(Contents)
             /\ Contents' = Tail(Contents)
  BY Zenon DEF Fifo!Pop, Contents
<1> USE DEF RingInv, RingTypeOK
<1>1. Contents \in Seq(Elements) /\ Len(Contents) = count /\ Contents # <<>>
  BY QueueIsSeq DEF PopTaken
<1>2. Head(Contents) = storage[read_index]
  <2>1. Contents[1] = storage[SlotAt(0)]
    BY QueueIsSeq DEF PopTaken
  <2>2. SlotAt(0) = read_index
    BY CapacityAssumption DEF SlotAt, Slots
  <2> QED
    BY <1>1, <2>1, <2>2
<1>3. \A k \in 1 .. count - 1 : SlotAt(k - 1)' = SlotAt(k)
  BY CapacityAssumption DEF PopTaken, SlotAt, AdvanceIndex, Slots
<1>4. Contents' = [k \in 1 .. count - 1 |-> storage[SlotAt(k)]]
  BY <1>3 DEF PopTaken, Contents
<1>5. Contents' \in Seq(Elements) /\ Len(Contents') = count - 1
  BY <1>4, SlotAtInSlots, CapacityAssumption DEF PopTaken
<1>6. /\ Tail(Contents) \in Seq(Elements)
      /\ Len(Tail(Contents)) = count - 1
      /\ \A k \in 1 .. count - 1 : Tail(Contents)[k] = Contents[k + 1]
  BY <1>1, HeadTailProperties
<1>7. \A k \in 1 .. count - 1 : Contents'[k] = Tail(Contents)[k]
  <2> TAKE k \in 1 .. count - 1
  <2>1. k + 1 \in 1 .. count /\ (k + 1) - 1 = k
    OBVIOUS
  <2>2. Contents[k + 1] = storage[SlotAt((k + 1) - 1)]
    BY <2>1, QueueIsSeq
  <2>3. Contents[k + 1] = storage[SlotAt(k)]
    BY <2>1, <2>2, Zenon
  <2> QED
    BY <1>4, <1>6, <2>3
<1>8. Contents' = Tail(Contents)
  BY <1>5, <1>6, <1>7, SeqEqual
<1> QED
  BY <1>1, <1>2, <1>8 DEF PopTaken

\* A push that finds room appends: the slot it writes is behind the last
\* waiting element, and it disturbs none of them.
LEMMA PushRefines ==
  ASSUME RingInv, NEW e \in Elements, PushStored(e)
  PROVE  Fifo!Push(e)
<1> SUFFICES /\ Len(Contents) < Capacity
             /\ Contents' = Append(Contents, e)
             /\ answer' = e
  BY Zenon DEF Fifo!Push, Contents
<1> USE DEF RingInv, RingTypeOK
<1>1. Contents \in Seq(Elements) /\ Len(Contents) = count /\ count < Capacity
  BY QueueIsSeq, CapacityAssumption DEF PushStored
<1>2. \A k \in 1 .. count + 1 : SlotAt(k - 1)' = SlotAt(k - 1)
  BY DEF PushStored, SlotAt
<1>3. Contents' = [k \in 1 .. count + 1 |-> storage'[SlotAt(k - 1)]]
  BY <1>2 DEF PushStored, Contents
<1>4. \A k \in 1 .. count + 1 : storage'[SlotAt(k - 1)] \in Elements
  BY <1>1, SlotAtInSlots, CapacityAssumption DEF PushStored
<1>5. Contents' \in Seq(Elements) /\ Len(Contents') = count + 1
  BY <1>3, <1>4
<1>6. \A k \in 1 .. count : SlotAt(k - 1) \in Slots /\ SlotAt(k - 1) # write_index
  <2> TAKE k \in 1 .. count
  <2>1. /\ k - 1 \in 0 .. Capacity - 1 /\ k - 1 \in 0 .. Capacity
        /\ count \in 0 .. Capacity - 1 /\ k - 1 # count
    BY <1>1, CapacityAssumption
  <2> QED
    BY <2>1, SlotAtInSlots, SlotAtInjective DEF IndicesAgree
<1>7. \A k \in 1 .. count : Contents'[k] = Contents[k]
  <2> TAKE k \in 1 .. count
  <2>1. storage'[SlotAt(k - 1)] = storage[SlotAt(k - 1)]
    BY <1>6 DEF PushStored
  <2>2. Contents'[k] = storage'[SlotAt(k - 1)]
    BY <1>1, <1>3
  <2> QED
    BY <2>1, <2>2, QueueIsSeq
<1>8. Contents'[count + 1] = e
  <2>1. (count + 1) - 1 = count /\ count + 1 \in 1 .. count + 1
    BY <1>1
  <2>2. Contents'[count + 1] = storage'[SlotAt((count + 1) - 1)]
    BY <1>3, <2>1
  <2>3. Contents'[count + 1] = storage'[write_index]
    BY <2>1, <2>2, Zenon DEF IndicesAgree
  <2> QED
    BY <2>3 DEF PushStored
<1>9. Append(Contents, e) \in Seq(Elements) /\ Len(Append(Contents, e)) = count + 1
      /\ \A k \in 1 .. count + 1 :
            Append(Contents, e)[k] = IF k = count + 1 THEN e ELSE Contents[k]
  BY <1>1, AppendProperties
<1>10. Contents' = Append(Contents, e)
  <2>1. \A k \in 1 .. count + 1 : Contents'[k] = Append(Contents, e)[k]
    BY <1>7, <1>8, <1>9
  <2> QED
    BY <1>5, <1>9, <2>1, SeqEqual
<1> QED
  BY <1>1, <1>10 DEF PushStored

LEMMA RefinesInit == RingInit => Fifo!Init
  BY DEF RingInit, Fifo!Init, Contents

LEMMA RefinesStep == RingInv /\ [RingNext]_ringVars => [Fifo!Next]_(Fifo!vars)
<1> SUFFICES ASSUME RingInv, [RingNext]_ringVars PROVE [Fifo!Next]_(Fifo!vars)
  OBVIOUS
<1>1. CASE PopEmpty
  <2>1. Contents = <<>> /\ Contents' = <<>>
    BY <1>1, QueueIsSeq DEF PopEmpty, Contents
  <2> QED
    BY <1>1, <2>1 DEF PopEmpty, Fifo!Next, Fifo!Pop, Contents
<1>2. CASE PopTaken
  BY <1>2, PopRefines DEF Fifo!Next
<1>3. CASE Clear
  BY <1>3 DEF Clear, Fifo!Next, Fifo!Clear, Contents
<1>4. ASSUME NEW e \in Elements, PushFull
      PROVE  Fifo!Push(e)
  <2>1. ~(Len(Contents) < Capacity) /\ Contents' = Contents
    BY <1>4, QueueIsSeq, CapacityAssumption DEF PushFull, Contents, SlotAt
  <2> QED
    BY <1>4, <2>1 DEF PushFull, Fifo!Push, Contents
<1>5. ASSUME NEW e \in Elements, PushStored(e)
      PROVE  Fifo!Push(e)
  BY <1>5, PushRefines
<1>6. CASE UNCHANGED ringVars
  BY <1>6 DEF ringVars, Fifo!vars, Contents, SlotAt
<1> QED
  BY <1>1, <1>2, <1>3, <1>4, <1>5, <1>6 DEF RingNext, Pop, Push, Fifo!Next

\* The ring buffer implements a bounded first-in first-out queue: pushes are
\* refused exactly when Capacity elements wait, and pops return the elements
\* accepted, once each and in order.
THEOREM BufferImplementsFifo == RingSpec => ImplementsFifo
<1> QED
  BY RefinesInit, RefinesStep, Inductive, PTL
     DEF RingSpec, ImplementsFifo, Fifo!Spec

-----------------------------------------------------------------------------
(* The broker *)

(* Increasing sequences of message numbers *)

\* Taking the oldest of an increasing sequence leaves what is above it.
LEMMA TailOfIncreasing ==
  ASSUME NEW q \in Seq(Nat), q # <<>>, Increasing(q)
  PROVE  /\ Tail(q) \in Seq(Nat) /\ Increasing(Tail(q))
         /\ Head(q) \in Nat /\ Head(q) = q[1] /\ Len(q) \in Nat \ {0}
         /\ Len(Tail(q)) = Len(q) - 1
         /\ \A i \in 1 .. Len(q) - 1 : Tail(q)[i] = q[i + 1] /\ Head(q) < Tail(q)[i]
<1>1. /\ Tail(q) \in Seq(Nat) /\ Len(Tail(q)) = Len(q) - 1
      /\ \A i \in 1 .. Len(q) - 1 : Tail(q)[i] = q[i + 1]
  BY HeadTailProperties
<1>2. Len(q) \in Nat \ {0} /\ Head(q) = q[1]
  BY EmptySeq
<1>3. \A i \in 1 .. Len(q) - 1 : i + 1 \in 1 .. Len(q) /\ 1 < i + 1 /\ 1 \in 1 .. Len(q)
  BY <1>2
<1>4. \A i \in 1 .. Len(q) - 1 : Head(q) < Tail(q)[i]
  BY <1>1, <1>2, <1>3 DEF Increasing
<1>5. Increasing(Tail(q))
  <2> SUFFICES ASSUME NEW i \in 1 .. Len(q) - 1, NEW j \in 1 .. Len(q) - 1, i < j
               PROVE  Tail(q)[i] < Tail(q)[j]
    BY <1>1 DEF Increasing
  <2>1. i + 1 \in 1 .. Len(q) /\ j + 1 \in 1 .. Len(q) /\ i + 1 < j + 1
    BY <1>2
  <2>2. q[i + 1] < q[j + 1]
    BY <2>1 DEF Increasing
  <2> QED BY <1>1, <2>2
<1>6. Head(q) \in Nat
  <2>1. 1 \in 1 .. Len(q)
    BY <1>2
  <2> QED BY <1>2, <2>1
<1> QED BY <1>1, <1>2, <1>4, <1>5, <1>6

\* Appending a number above all of them keeps the sequence increasing.
LEMMA AppendToIncreasing ==
  ASSUME NEW q \in Seq(Nat), NEW n \in Nat, Increasing(q),
         \A i \in 1 .. Len(q) : q[i] < n
  PROVE  /\ Append(q, n) \in Seq(Nat) /\ Increasing(Append(q, n))
         /\ Len(Append(q, n)) = Len(q) + 1
         /\ \A i \in 1 .. Len(q) + 1 :
              Append(q, n)[i] = IF i = Len(q) + 1 THEN n ELSE q[i]
<1>1. /\ Append(q, n) \in Seq(Nat) /\ Len(Append(q, n)) = Len(q) + 1
      /\ \A i \in 1 .. Len(q) + 1 :
           Append(q, n)[i] = IF i = Len(q) + 1 THEN n ELSE q[i]
  BY AppendProperties
<1>2. Increasing(Append(q, n))
  <2> SUFFICES ASSUME NEW i \in 1 .. Len(q) + 1, NEW j \in 1 .. Len(q) + 1, i < j
               PROVE  Append(q, n)[i] < Append(q, n)[j]
    BY <1>1 DEF Increasing
  <2>1. Len(q) \in Nat /\ i \in 1 .. Len(q)
    OBVIOUS
  <2>2. CASE j = Len(q) + 1
    BY <1>1, <2>1, <2>2
  <2>3. CASE j # Len(q) + 1
    <3>1. j \in 1 .. Len(q) /\ i # Len(q) + 1
      BY <2>1, <2>3
    <3>2. q[i] < q[j]
      BY <2>1, <3>1 DEF Increasing
    <3> QED BY <1>1, <3>1, <3>2
  <2> QED BY <2>2, <2>3
<1> QED BY <1>1, <1>2

-----------------------------------------------------------------------------
(* What one subscriber sees: r it took, b its inbox holds, q waits in the  *)
(* input queue, and m is the newest message of all.                        *)

UpTo(q, m) == \A i \in 1 .. Len(q) : q[i] <= m

Ordered(r, b, q, m) ==
  /\ Increasing(r) /\ Increasing(b) /\ Increasing(q)
  /\ AllBelow(r, b) /\ AllBelow(r, q) /\ AllBelow(b, q)
  /\ UpTo(r, m) /\ UpTo(b, m) /\ UpTo(q, m)

\* A message that leaves the queue without a copy for this inbox.
LEMMA MissKeepsOrder ==
  ASSUME NEW r \in Seq(Nat), NEW b \in Seq(Nat), NEW q \in Seq(Nat), NEW m \in Nat,
         q # <<>>, Ordered(r, b, q, m)
  PROVE  Ordered(r, b, Tail(q), m)
<1>1. /\ Increasing(Tail(q)) /\ Len(Tail(q)) = Len(q) - 1
      /\ \A i \in 1 .. Len(q) - 1 : Tail(q)[i] = q[i + 1] /\ i + 1 \in 1 .. Len(q)
  BY TailOfIncreasing DEF Ordered
<1>2. AllBelow(r, Tail(q)) /\ AllBelow(b, Tail(q))
  BY <1>1 DEF Ordered, AllBelow
<1>3. UpTo(Tail(q), m)
  BY <1>1 DEF Ordered, UpTo
<1> QED BY <1>1, <1>2, <1>3 DEF Ordered

\* A message that leaves the queue with a copy for this inbox.
LEMMA CopyKeepsOrder ==
  ASSUME NEW r \in Seq(Nat), NEW b \in Seq(Nat), NEW q \in Seq(Nat), NEW m \in Nat,
         q # <<>>, Ordered(r, b, q, m)
  PROVE  /\ Append(b, Head(q)) \in Seq(Nat)
         /\ Ordered(r, Append(b, Head(q)), Tail(q), m)
<1>1. Increasing(b) /\ Increasing(q)
  BY DEF Ordered
<1>2. /\ Head(q) \in Nat /\ Head(q) = q[1] /\ 1 \in 1 .. Len(q)
      /\ Len(Tail(q)) = Len(q) - 1
      /\ \A i \in 1 .. Len(q) - 1 : Head(q) < Tail(q)[i]
  BY <1>1, TailOfIncreasing
<1>3. \A i \in 1 .. Len(b) : b[i] < Head(q)
  BY <1>2 DEF Ordered, AllBelow
<1>4. /\ Append(b, Head(q)) \in Seq(Nat) /\ Increasing(Append(b, Head(q)))
      /\ Len(Append(b, Head(q))) = Len(b) + 1
      /\ \A i \in 1 .. Len(b) + 1 :
           Append(b, Head(q))[i] = IF i = Len(b) + 1 THEN Head(q) ELSE b[i]
  BY <1>1, <1>2, <1>3, AppendToIncreasing
<1>5. Ordered(r, b, Tail(q), m)
  BY MissKeepsOrder
<1>6. \A i \in 1 .. Len(b) + 1 : i = Len(b) + 1 \/ i \in 1 .. Len(b)
  OBVIOUS
<1>7. AllBelow(r, Append(b, Head(q)))
  BY <1>2, <1>4, <1>6 DEF Ordered, AllBelow
<1>8. AllBelow(Append(b, Head(q)), Tail(q))
  BY <1>2, <1>4, <1>5, <1>6 DEF Ordered, AllBelow
<1>9. UpTo(Append(b, Head(q)), m)
  BY <1>2, <1>4, <1>6 DEF Ordered, UpTo
<1> QED BY <1>4, <1>5, <1>7, <1>8, <1>9 DEF Ordered

\* A subscriber takes the oldest message of its inbox.
LEMMA TakeKeepsOrder ==
  ASSUME NEW r \in Seq(Nat), NEW b \in Seq(Nat), NEW q \in Seq(Nat), NEW m \in Nat,
         b # <<>>, Ordered(r, b, q, m)
  PROVE  /\ Append(r, Head(b)) \in Seq(Nat) /\ Tail(b) \in Seq(Nat)
         /\ Ordered(Append(r, Head(b)), Tail(b), q, m)
<1>1. Increasing(r) /\ Increasing(b)
  BY DEF Ordered
<1>2. /\ Tail(b) \in Seq(Nat) /\ Increasing(Tail(b))
      /\ Head(b) \in Nat /\ Head(b) = b[1] /\ 1 \in 1 .. Len(b)
      /\ Len(Tail(b)) = Len(b) - 1
      /\ \A i \in 1 .. Len(b) - 1 :
           Tail(b)[i] = b[i + 1] /\ i + 1 \in 1 .. Len(b) /\ Head(b) < Tail(b)[i]
  BY <1>1, TailOfIncreasing
<1>3. \A i \in 1 .. Len(r) : r[i] < Head(b)
  BY <1>2 DEF Ordered, AllBelow
<1>4. /\ Append(r, Head(b)) \in Seq(Nat) /\ Increasing(Append(r, Head(b)))
      /\ Len(Append(r, Head(b))) = Len(r) + 1
      /\ \A i \in 1 .. Len(r) + 1 :
           Append(r, Head(b))[i] = IF i = Len(r) + 1 THEN Head(b) ELSE r[i]
  BY <1>1, <1>2, <1>3, AppendToIncreasing
<1>5. \A i \in 1 .. Len(r) + 1 : i = Len(r) + 1 \/ i \in 1 .. Len(r)
  OBVIOUS
<1>6. AllBelow(Append(r, Head(b)), Tail(b))
  BY <1>2, <1>4, <1>5 DEF Ordered, AllBelow
<1>7. AllBelow(Append(r, Head(b)), q) /\ AllBelow(Tail(b), q)
  BY <1>2, <1>4, <1>5 DEF Ordered, AllBelow
<1>8. UpTo(Append(r, Head(b)), m) /\ UpTo(Tail(b), m)
  BY <1>2, <1>4, <1>5 DEF Ordered, UpTo
<1> QED BY <1>2, <1>4, <1>6, <1>7, <1>8 DEF Ordered

\* A message is published.
LEMMA PublishKeepsOrder ==
  ASSUME NEW r \in Seq(Nat), NEW b \in Seq(Nat), NEW q \in Seq(Nat), NEW m \in Nat,
         Ordered(r, b, q, m)
  PROVE  Ordered(r, b, Append(q, m + 1), m + 1)
<1>1. /\ \A i \in 1 .. Len(q) : q[i] \in Nat /\ q[i] < m + 1
      /\ \A i \in 1 .. Len(b) : b[i] \in Nat /\ b[i] < m + 1
      /\ \A i \in 1 .. Len(r) : r[i] \in Nat /\ r[i] < m + 1
  BY DEF Ordered, UpTo
<1>2. /\ Increasing(Append(q, m + 1))
      /\ Len(Append(q, m + 1)) = Len(q) + 1
      /\ \A i \in 1 .. Len(q) + 1 :
           Append(q, m + 1)[i] = IF i = Len(q) + 1 THEN m + 1 ELSE q[i]
  <2>1. m + 1 \in Nat /\ Increasing(q)
    BY DEF Ordered
  <2> QED BY <1>1, <2>1, AppendToIncreasing
<1>3. \A i \in 1 .. Len(q) + 1 : i = Len(q) + 1 \/ i \in 1 .. Len(q)
  OBVIOUS
<1>4. AllBelow(r, Append(q, m + 1)) /\ AllBelow(b, Append(q, m + 1))
  BY <1>1, <1>2, <1>3 DEF Ordered, AllBelow
<1>5. UpTo(r, m + 1) /\ UpTo(b, m + 1) /\ UpTo(Append(q, m + 1), m + 1)
  BY <1>1, <1>2, <1>3 DEF UpTo
<1> QED BY <1>2, <1>4, <1>5 DEF Ordered

-----------------------------------------------------------------------------
(* The ring under the broker *)

\* What waits in the ring are message numbers.
LEMMA RingHoldsNumbers ==
  ASSUME RingInv PROVE Contents \in Seq(Nat) /\ Contents \in Seq(Elements)
<1>1. Contents \in Seq(Elements)
  BY QueueIsSeq
<1>2. \A i \in 1 .. Len(Contents) : Contents[i] \in Nat
  <2>1. \A e \in Elements : e \in Nat
    BY BrokerAssumption
  <2> QED BY <1>1, <2>1
<1> QED BY <1>1, <1>2, SeqDef

\* Every step of the broker is one of the ring, or leaves it alone.
LEMMA BrokerStepsRing ==
  ASSUME RingInv, topic_of \in Seq(Topics), [Next]_vars
  PROVE  [RingNext]_ringVars
<1>1. CASE InitBus
  BY <1>1 DEF InitBus, RingNext
<1>2. CASE ProcessMoves
  BY <1>2 DEF ProcessMoves, RingNext, Pop
<1>3. CASE ProcessIdle
  BY <1>3 DEF ProcessIdle, RingNext, Pop
<1>4. ASSUME NEW t \in Topics, PublishAccepted(t)
      PROVE  RingNext
  <2>1. Len(topic_of) + 1 \in Elements
    BY <1>4, BrokerAssumption DEF PublishAccepted, published_msg_count
  <2> QED BY <1>4, <2>1 DEF PublishAccepted, published_msg_count, RingNext, Push
<1>5. CASE PublishRefused
  <2>1. storage[0] \in Elements
    BY CapacityAssumption DEF RingInv, RingTypeOK, Slots
  <2> QED BY <1>5, <2>1 DEF PublishRefused, RingNext, Push
<1>6. CASE Start
  BY <1>6 DEF Start
<1>7. ASSUME NEW s \in Subscribers, NEW t \in Topics, Subscribe(s, t)
      PROVE  UNCHANGED ringVars
  BY <1>7 DEF Subscribe
<1>8. ASSUME NEW s \in Subscribers, Receive(s)
      PROVE  UNCHANGED ringVars
  BY <1>8 DEF Receive
<1>9. CASE UNCHANGED vars
  BY <1>9 DEF vars
<1> QED
  BY <1>1, <1>2, <1>3, <1>4, <1>5, <1>6, <1>7, <1>8, <1>9 DEF Next, Process, Publish

\* What a move takes out of the ring is the head of what waits in it.
LEMMA RingGivesHead ==
  ASSUME RingInv, PopTaken
  PROVE  Contents # <<>> /\ Contents' = Tail(Contents) /\ NextMsg = Head(Contents)
<1>1. Contents # <<>>
  BY QueueIsSeq, CapacityAssumption DEF PopTaken, RingInv, RingTypeOK
<1>2. Fifo!Pop
  BY PopRefines
<1>3. answer' = Head(Contents) /\ Contents' = Tail(Contents)
  BY <1>1, <1>2 DEF Fifo!Pop
<1> QED BY <1>1, <1>3 DEF PopTaken, NextMsg

\* What is published goes behind it.
LEMMA RingTakesLast ==
  ASSUME RingInv, NEW e \in Elements, PushStored(e)
  PROVE  Contents' = Append(Contents, e)
<1>1. Len(Contents) < Capacity
  BY QueueIsSeq, CapacityAssumption DEF PushStored, RingInv, RingTypeOK
<1> QED BY <1>1, PushRefines DEF Fifo!Push

-----------------------------------------------------------------------------
(* The invariant *)

Numbered ==
  /\ topic_of \in Seq(Topics)
  /\ inbox \in [Subscribers -> Seq(Nat)] /\ received \in [Subscribers -> Seq(Nat)]

OrderInv ==
  /\ RingInv /\ Numbered
  /\ Increasing(Contents) /\ UpTo(Contents, Len(topic_of))
  /\ \A s \in Subscribers : Ordered(received[s], inbox[s], Contents, Len(topic_of))

\* No subscriber has anything, as after msg_broker_init.
LEMMA EmptyIsOrdered ==
  Increasing(<<>>) /\ UpTo(<<>>, 0) /\ Ordered(<<>>, <<>>, <<>>, 0)
  BY DEF Ordered, Increasing, AllBelow, UpTo

LEMMA OrderInit == Init => OrderInv
<1> SUFFICES ASSUME Init PROVE OrderInv
  OBVIOUS
<1>1. RingInv
  BY InductiveInit DEF Init
<1>2. Contents = <<>> /\ Len(topic_of) = 0
  BY DEF Init, RingInit, Contents
<1>3. Numbered
  BY DEF Init, Numbered
<1>4. \A s \in Subscribers : received[s] = <<>> /\ inbox[s] = <<>>
  BY DEF Init
<1> QED BY <1>1, <1>2, <1>3, <1>4, EmptyIsOrdered DEF OrderInv

LEMMA OrderStep == OrderInv /\ [Next]_vars => OrderInv'
<1> SUFFICES ASSUME OrderInv, [Next]_vars PROVE OrderInv'
  OBVIOUS
<1>1. RingInv'
  <2>1. [RingNext]_ringVars
    BY BrokerStepsRing DEF OrderInv, Numbered
  <2> QED BY <2>1, InductiveStep DEF OrderInv
<1>2. /\ Contents \in Seq(Nat) /\ Len(topic_of) \in Nat
      /\ \A s \in Subscribers : inbox[s] \in Seq(Nat) /\ received[s] \in Seq(Nat)
  BY RingHoldsNumbers DEF OrderInv, Numbered
<1>3. CASE InitBus
  <2>1. Contents' = <<>> /\ Len(topic_of') = 0
    BY <1>3 DEF InitBus, Clear, Contents
  <2>2. Numbered'
    BY <1>3 DEF InitBus, Numbered
  <2>3. \A s \in Subscribers : received'[s] = <<>> /\ inbox'[s] = <<>>
    BY <1>3 DEF InitBus
  <2> QED BY <1>1, <2>1, <2>2, <2>3, EmptyIsOrdered DEF OrderInv
<1>4. CASE UNCHANGED <<topic_of, ringVars, inbox, received>>
  <2>1. Contents' = Contents
    BY <1>4 DEF ringVars, Contents, SlotAt
  <2> QED BY <1>1, <1>4, <2>1 DEF OrderInv, Numbered
<1>5. CASE ProcessMoves
  <2>1. Contents # <<>> /\ Contents' = Tail(Contents) /\ NextMsg = Head(Contents)
    BY <1>5, RingGivesHead DEF ProcessMoves, OrderInv
  <2>2. Increasing(Contents') /\ UpTo(Contents', Len(topic_of))
    <3>1. Ordered(<<>>, <<>>, Contents, Len(topic_of))
      BY DEF OrderInv, Ordered, Increasing, AllBelow, UpTo
    <3>2. Ordered(<<>>, <<>>, Tail(Contents), Len(topic_of))
      BY <1>2, <2>1, <3>1, MissKeepsOrder, EmptySeq
    <3> QED BY <2>1, <3>2 DEF Ordered
  <2>3. ASSUME NEW s \in Subscribers
        PROVE  /\ inbox'[s] \in Seq(Nat)
               /\ Ordered(received[s], inbox'[s], Contents', Len(topic_of))
    <3>1. Ordered(received[s], inbox[s], Contents, Len(topic_of))
      BY DEF OrderInv
    <3>2. CASE s \in Takers(NextMsg)
      <4>1. inbox'[s] = Append(inbox[s], Head(Contents))
        BY <1>5, <2>1, <3>2 DEF ProcessMoves, CopyMsgToSubscribers
      <4> QED BY <1>2, <2>1, <3>1, <4>1, CopyKeepsOrder
    <3>3. CASE s \notin Takers(NextMsg)
      <4>1. inbox'[s] = inbox[s]
        BY <1>5, <3>3 DEF ProcessMoves, CopyMsgToSubscribers
      <4> QED BY <1>2, <2>1, <3>1, <4>1, MissKeepsOrder
    <3> QED BY <3>2, <3>3
  <2>4. inbox' \in [Subscribers -> Seq(Nat)]
    <3>1. inbox' = [s \in Subscribers |-> inbox'[s]]
      BY <1>5, Zenon DEF ProcessMoves, CopyMsgToSubscribers
    <3> QED BY <2>3, <3>1
  <2>5. UNCHANGED <<topic_of, received>>
    BY <1>5 DEF ProcessMoves
  <2> QED BY <1>1, <2>2, <2>3, <2>4, <2>5 DEF OrderInv, Numbered
<1>6. ASSUME NEW t \in Topics, PublishAccepted(t)
      PROVE  OrderInv'
  <2> DEFINE n == Len(topic_of) + 1
  <2>1. n \in Elements
    BY <1>2, <1>6, BrokerAssumption DEF PublishAccepted, published_msg_count
  <2>2. Contents' = Append(Contents, n)
    BY <1>6, <2>1, RingTakesLast DEF PublishAccepted, published_msg_count, OrderInv
  <2>3. topic_of' \in Seq(Topics) /\ Len(topic_of') = n
    BY <1>6 DEF PublishAccepted, OrderInv, Numbered
  <2>4. Increasing(Contents') /\ UpTo(Contents', n)
    <3>1. Ordered(<<>>, <<>>, Contents, Len(topic_of))
      BY DEF OrderInv, Ordered, Increasing, AllBelow, UpTo
    <3>2. Ordered(<<>>, <<>>, Append(Contents, n), n)
      BY <1>2, <3>1, PublishKeepsOrder, EmptySeq
    <3> QED BY <2>2, <3>2 DEF Ordered
  <2>5. \A s \in Subscribers : Ordered(received[s], inbox[s], Contents', n)
    BY <1>2, <2>2, PublishKeepsOrder DEF OrderInv
  <2>6. UNCHANGED <<inbox, received>>
    BY <1>6 DEF PublishAccepted
  <2> QED BY <1>1, <2>3, <2>4, <2>5, <2>6 DEF OrderInv, Numbered
<1>7. ASSUME NEW s \in Subscribers, Receive(s), inbox[s] # <<>>
      PROVE  OrderInv'
  <2>1. UNCHANGED <<topic_of, ringVars>>
    BY <1>7 DEF Receive
  <2>2. Contents' = Contents
    BY <2>1 DEF ringVars, Contents, SlotAt
  <2>3. /\ inbox' = [inbox EXCEPT ![s] = Tail(inbox[s])]
        /\ received' = [received EXCEPT ![s] = Append(received[s], Head(inbox[s]))]
    BY <1>7 DEF Receive
  <2>4. /\ Append(received[s], Head(inbox[s])) \in Seq(Nat) /\ Tail(inbox[s]) \in Seq(Nat)
        /\ Ordered(Append(received[s], Head(inbox[s])), Tail(inbox[s]), Contents, Len(topic_of))
    BY <1>2, <1>7, TakeKeepsOrder DEF OrderInv
  <2>5. Numbered'
    BY <2>1, <2>3, <2>4 DEF OrderInv, Numbered
  <2>6. ASSUME NEW u \in Subscribers
        PROVE  Ordered(received'[u], inbox'[u], Contents, Len(topic_of))
    <3>1. CASE u = s
      <4>1. received'[u] = Append(received[s], Head(inbox[s])) /\ inbox'[u] = Tail(inbox[s])
        BY <2>3, <3>1 DEF OrderInv, Numbered
      <4> QED BY <2>4, <4>1
    <3>2. CASE u # s
      <4>1. received'[u] = received[u] /\ inbox'[u] = inbox[u]
        BY <2>3, <3>2 DEF OrderInv, Numbered
      <4> QED BY <4>1 DEF OrderInv
    <3> QED BY <3>1, <3>2
  <2> QED BY <1>1, <2>1, <2>2, <2>5, <2>6 DEF OrderInv
<1>8. CASE ProcessIdle
  <2>1. Contents' = Contents
    BY <1>8 DEF ProcessIdle, PopEmpty, Contents, SlotAt
  <2> QED BY <1>1, <1>8, <2>1 DEF ProcessIdle, OrderInv, Numbered
<1>9. CASE PublishRefused
  <2>1. Contents' = Contents
    BY <1>9 DEF PublishRefused, PushFull, Contents, SlotAt
  <2> QED BY <1>1, <1>9, <2>1 DEF PublishRefused, OrderInv, Numbered
<1>10. CASE Start
  BY <1>4, <1>10 DEF Start
<1>11. ASSUME NEW s \in Subscribers, NEW t \in Topics, Subscribe(s, t)
       PROVE  OrderInv'
  BY <1>4, <1>11 DEF Subscribe
<1>12. ASSUME NEW s \in Subscribers, Receive(s), inbox[s] = <<>>
       PROVE  OrderInv'
  BY <1>4, <1>12 DEF Receive
<1>13. CASE UNCHANGED vars
  BY <1>4, <1>13 DEF vars
<1> QED
  BY <1>3, <1>5, <1>6, <1>7, <1>8, <1>9, <1>10, <1>11, <1>12, <1>13
     DEF Next, Process, Publish

LEMMA OrderInductive == Spec => []OrderInv
<1> QED BY OrderInit, OrderStep, PTL DEF Spec

-----------------------------------------------------------------------------
\* Every subscriber sees the messages in the order in which they were
\* published, none twice, however full the inboxes of the others are and
\* however often the bus is set up anew.
THEOREM SeenInOrder == Spec => []InOrder
<1>1. OrderInv => InOrder
  <2> SUFFICES ASSUME OrderInv PROVE InOrder
    OBVIOUS
  <2>1. Increasing(input_queue)
    BY DEF OrderInv, input_queue
  <2>2. \A s \in Subscribers : Ordered(received[s], inbox[s], input_queue, Len(topic_of))
    BY DEF OrderInv, input_queue
  <2> QED BY <2>1, <2>2 DEF InOrder, Ordered
<1> QED BY <1>1, OrderInductive, PTL

\* The broker's input queue is a bounded first-in first-out queue: the ring
\* keeps its promise under everything the broker does with it.
THEOREM BrokerQueueIsFifo == Spec => ImplementsFifo
<1>1. Init => Fifo!Init
  BY RefinesInit DEF Init
<1>2. OrderInv /\ [Next]_vars => [Fifo!Next]_(Fifo!vars)
  <2> SUFFICES ASSUME OrderInv, [Next]_vars PROVE [Fifo!Next]_(Fifo!vars)
    OBVIOUS
  <2>1. RingInv /\ [RingNext]_ringVars
    BY BrokerStepsRing DEF OrderInv, Numbered
  <2> QED BY <2>1, RefinesStep
<1> QED BY <1>1, <1>2, OrderInductive, PTL DEF Spec, ImplementsFifo, Fifo!Spec
-----------------------------------------------------------------------------
(* The accounting of copies *)

\* The numbers in a sequence, as it grows at its end and shrinks at its head.
LEMMA ElemsOfAppend ==
  ASSUME NEW q \in Seq(Nat), NEW n \in Nat
  PROVE  Elems(Append(q, n)) = Elems(q) \cup {n}
<1>1. /\ Len(q) \in Nat /\ Len(Append(q, n)) = Len(q) + 1
      /\ \A i \in 1 .. Len(q) + 1 :
           Append(q, n)[i] = IF i = Len(q) + 1 THEN n ELSE q[i]
  BY AppendProperties
<1>2. 1 .. Len(q) + 1 = 1 .. Len(q) \cup {Len(q) + 1} /\ Len(q) + 1 \notin 1 .. Len(q)
  BY <1>1
<1> QED BY <1>1, <1>2 DEF Elems

LEMMA ElemsOfTail ==
  ASSUME NEW q \in Seq(Nat), q # <<>>
  PROVE  Elems(q) = {Head(q)} \cup Elems(Tail(q))
<1>1. /\ Len(q) \in Nat \ {0} /\ Head(q) = q[1] /\ Len(Tail(q)) = Len(q) - 1
      /\ \A i \in 1 .. Len(q) - 1 : Tail(q)[i] = q[i + 1]
  BY HeadTailProperties, EmptySeq
<1>2. \A i \in 1 .. Len(q) - 1 : i + 1 \in 1 .. Len(q)
  BY <1>1
<1>3. \A i \in 1 .. Len(q) : i = 1 \/ (i - 1 \in 1 .. Len(q) - 1 /\ (i - 1) + 1 = i)
  BY <1>1
<1>4. Elems(q) \subseteq {Head(q)} \cup Elems(Tail(q))
  <2> SUFFICES ASSUME NEW i \in 1 .. Len(q)
               PROVE  q[i] \in {Head(q)} \cup Elems(Tail(q))
    BY DEF Elems
  <2>1. CASE i = 1
    BY <1>1, <2>1
  <2>2. CASE i # 1
    <3>1. i - 1 \in 1 .. Len(Tail(q)) /\ Tail(q)[i - 1] = q[i]
      BY <1>1, <1>3, <2>2
    <3> QED BY <3>1 DEF Elems
  <2> QED BY <2>1, <2>2
<1>5. {Head(q)} \cup Elems(Tail(q)) \subseteq Elems(q)
  BY <1>1, <1>2 DEF Elems
<1> QED BY <1>4, <1>5

\* The messages a subscriber has had a copy of.
Seen(s) == Elems(inbox[s]) \cup Elems(received[s])

Copies          == Subscribers \X Messages
DeliveredCopies == {c \in Copies : c[2] \in Seen(c[1])}
LostCopies      == {c \in Copies : c[2] \in lost[c[1]]}

\* Nobody subscribes while anything is in flight, so a subscription never
\* changes what an accepted message owes.
Registered ==
  /\ topics \in [Topics -> SUBSET Subscribers]
  /\ ~is_started => topic_of = <<>>

\* What is lost has left the input queue for good.
LostIsPast ==
  /\ lost \in [Subscribers -> SUBSET Messages]
  /\ \A s \in Subscribers : \A n \in lost[s] :
       \A i \in 1 .. Len(Contents) : n < Contents[i]

AccountInv == Registered /\ LostIsPast /\ EachCopyAccounted /\ CountersAgree

\* What a subscriber has seen are messages below all that wait.
LEMMA SeenIsPast ==
  ASSUME OrderInv, NEW s \in Subscribers, NEW n \in Seen(s)
  PROVE  /\ n \in Nat /\ n <= Len(topic_of)
         /\ \A i \in 1 .. Len(Contents) : n < Contents[i]
<1>1. Ordered(received[s], inbox[s], Contents, Len(topic_of))
  BY DEF OrderInv
<1>2. inbox[s] \in Seq(Nat) /\ received[s] \in Seq(Nat)
  BY DEF OrderInv, Numbered
<1>3. CASE n \in Elems(inbox[s])
  <2>1. PICK j \in 1 .. Len(inbox[s]) : n = inbox[s][j]
    BY <1>3 DEF Elems
  <2> QED BY <1>1, <1>2, <2>1 DEF Ordered, AllBelow, UpTo
<1>4. CASE n \in Elems(received[s])
  <2>1. PICK j \in 1 .. Len(received[s]) : n = received[s][j]
    BY <1>4 DEF Elems
  <2> QED BY <1>1, <1>2, <2>1 DEF Ordered, AllBelow, UpTo
<1> QED BY <1>3, <1>4 DEF Seen

\* The oldest that waits is an accepted message that nobody has seen or lost.
LEMMA HeadIsNew ==
  ASSUME OrderInv, LostIsPast, Contents # <<>>
  PROVE  /\ Head(Contents) \in Messages
         /\ \A s \in Subscribers : Head(Contents) \notin Seen(s) \cup lost[s]
<1>1. Contents \in Seq(Nat) /\ Contents \in Seq(Elements)
  BY RingHoldsNumbers DEF OrderInv
<1>2. Head(Contents) = Contents[1] /\ 1 \in 1 .. Len(Contents)
  BY <1>1, EmptySeq
<1>3. Contents[1] \in 1 .. MaxPublished /\ Contents[1] <= Len(topic_of)
  BY <1>1, <1>2, BrokerAssumption DEF OrderInv, UpTo
<1>4. Len(topic_of) \in Nat
  BY DEF OrderInv, Numbered
<1>5. Head(Contents) \in Messages
  BY <1>2, <1>3, <1>4, BrokerAssumption DEF Messages, published_msg_count
<1>6. ASSUME NEW s \in Subscribers, Head(Contents) \in Seen(s)
      PROVE  FALSE
  BY <1>2, <1>6, SeenIsPast
<1>7. ASSUME NEW s \in Subscribers, Head(Contents) \in lost[s]
      PROVE  FALSE
  <2>1. Contents[1] < Contents[1]
    BY <1>2, <1>7 DEF LostIsPast
  <2> QED BY <1>3, <2>1, BrokerAssumption
<1> QED BY <1>5, <1>6, <1>7

\* The copies are finitely many, so the counters count them.
LEMMA CopiesAreFinite ==
  ASSUME Len(topic_of) \in Nat
  PROVE  /\ IsFiniteSet(Copies)
         /\ IsFiniteSet(DeliveredCopies) /\ IsFiniteSet(LostCopies)
         /\ Cardinality(DeliveredCopies) \in Nat /\ Cardinality(LostCopies) \in Nat
<1>1. IsFiniteSet(Messages)
  BY FS_Interval DEF Messages, published_msg_count
<1>2. IsFiniteSet(Copies)
  BY <1>1, FS_Product, BrokerAssumption DEF Copies
<1>3. DeliveredCopies \in SUBSET Copies /\ LostCopies \in SUBSET Copies
  BY DEF DeliveredCopies, LostCopies
<1>4. IsFiniteSet(DeliveredCopies) /\ IsFiniteSet(LostCopies)
  BY <1>2, <1>3, FS_Subset
<1> QED BY <1>2, <1>4, FS_CardinalityType

\* One message more for each subscriber of a set is that many copies more.
LEMMA OneCopyEach ==
  ASSUME NEW C, IsFiniteSet(C), NEW S \in SUBSET Subscribers, NEW n,
         \A s \in S : <<s, n>> \notin C
  PROVE  Cardinality(C \cup (S \X {n})) = Cardinality(C) + Cardinality(S)
<1>1. IsFiniteSet(S) /\ Cardinality(S) \in Nat /\ Cardinality(C) \in Nat
  BY FS_Subset, FS_CardinalityType, BrokerAssumption
<1>2. IsFiniteSet({n}) /\ Cardinality({n}) = 1
  BY FS_Singleton
<1>3. IsFiniteSet(S \X {n}) /\ Cardinality(S \X {n}) = Cardinality(S) * 1
  BY <1>1, <1>2, FS_Product
<1>4. C \cap (S \X {n}) = {}
  OBVIOUS
<1>5. Cardinality(C \cap (S \X {n})) = 0
  BY <1>4, FS_EmptySet
<1>6. Cardinality(C \cup (S \X {n}))
        = Cardinality(C) + Cardinality(S \X {n}) - Cardinality(C \cap (S \X {n}))
  BY <1>3, FS_Union
<1> QED BY <1>1, <1>3, <1>5, <1>6

\* The counters, with names for the copies they count.
Counted ==
  /\ delivered_msg_count = Cardinality(DeliveredCopies)
  /\ dropped_msg_count = Cardinality(LostCopies)

LEMMA CountersCount == CountersAgree <=> Counted
  BY Zenon DEF CountersAgree, Counted, DeliveredCopies, LostCopies, Copies, Seen

\* A bus on which nothing was published has nothing to account for.
NothingPublished ==
  /\ topic_of = <<>> /\ topics \in [Topics -> SUBSET Subscribers]
  /\ lost = [s \in Subscribers |-> {}]
  /\ delivered_msg_count = 0 /\ dropped_msg_count = 0

LEMMA NothingToAccount == NothingPublished => AccountInv
<1> SUFFICES ASSUME NothingPublished PROVE AccountInv
  OBVIOUS
<1> USE DEF NothingPublished
<1>1. Messages = {}
  BY DEF Messages, published_msg_count
<1>2. DeliveredCopies = {} /\ LostCopies = {}
  BY <1>1 DEF DeliveredCopies, LostCopies, Copies
<1>3. CountersAgree
  BY <1>2, CountersCount, FS_EmptySet DEF Counted
<1>4. LostIsPast
  BY DEF LostIsPast
<1> QED BY <1>1, <1>3, <1>4 DEF AccountInv, Registered, EachCopyAccounted

LEMMA AccountInit == Init => AccountInv
<1> SUFFICES ASSUME Init PROVE AccountInv
  OBVIOUS
<1> QED BY NothingToAccount DEF Init, NothingPublished

\* The setup of the bus, and a subscription, leave nothing to account for.
LEMMA SetupAccounts ==
  ASSUME AccountInv,
         InitBus \/ \E s \in Subscribers, t \in Topics : Subscribe(s, t)
  PROVE  AccountInv'
<1>1. CASE InitBus
  <2>1. topic_of' = <<>> /\ topics' \in [Topics -> SUBSET Subscribers]
    BY <1>1 DEF InitBus
  <2>2. /\ lost' = [s \in Subscribers |-> {}]
        /\ delivered_msg_count' = 0 /\ dropped_msg_count' = 0
    BY <1>1 DEF InitBus
  <2>3. NothingPublished'
    BY <2>1, <2>2 DEF NothingPublished
  <2> QED BY <2>3, NothingToAccount, PTL
<1>2. ASSUME NEW s \in Subscribers, NEW t \in Topics, Subscribe(s, t)
      PROVE  AccountInv'
  <2>1. topic_of' = <<>> /\ topic_of = <<>>
    BY <1>2 DEF Subscribe, AccountInv, Registered
  <2>2. topics' \in [Topics -> SUBSET Subscribers]
    BY <1>2 DEF Subscribe, AccountInv, Registered
  <2>3. Messages = {}
    BY <2>1 DEF Messages, published_msg_count
  <2>4. lost' = [u \in Subscribers |-> {}]
    BY <1>2, <2>3 DEF Subscribe, AccountInv, LostIsPast
  <2>5. DeliveredCopies = {} /\ LostCopies = {}
    BY <2>3 DEF DeliveredCopies, LostCopies, Copies
  <2>6. delivered_msg_count' = 0 /\ dropped_msg_count' = 0
    BY <1>2, <2>5, CountersCount, FS_EmptySet DEF Subscribe, AccountInv, Counted
  <2>7. NothingPublished'
    BY <2>1, <2>2, <2>4, <2>6 DEF NothingPublished
  <2> QED BY <2>7, NothingToAccount, PTL
<1> QED BY <1>1, <1>2

\* A step that moves no copy, among them a subscriber that takes one: it has
\* had it before and after.
LEMMA QuietAccounts ==
  ASSUME AccountInv, Contents' = Contents,
         \A s \in Subscribers : Seen(s)' = Seen(s),
         UNCHANGED <<topics, topic_of, lost, delivered_msg_count, dropped_msg_count>>,
         is_started => is_started'
  PROVE  AccountInv'
<1>1. Registered'
  BY DEF AccountInv, Registered
<1>2. Messages' = Messages
  BY DEF Messages, published_msg_count
<1>3. LostIsPast'
  BY <1>2 DEF AccountInv, LostIsPast
<1>4. EachCopyAccounted'
  BY <1>2 DEF AccountInv, EachCopyAccounted, Seen, input_queue
<1>5. DeliveredCopies' = DeliveredCopies /\ LostCopies' = LostCopies
  BY <1>2 DEF DeliveredCopies, LostCopies, Copies
<1>6. Counted'
  BY <1>5, CountersCount DEF AccountInv, Counted
<1>7. CountersAgree'
  BY <1>6, CountersCount, PTL
<1> QED BY <1>1, <1>3, <1>4, <1>7 DEF AccountInv

\* A subscriber takes the oldest of its inbox: what it has seen is the same.
LEMMA ReceiveAccounts ==
  ASSUME OrderInv, AccountInv, NEW s \in Subscribers, Receive(s)
  PROVE  AccountInv'
<1>1. UNCHANGED <<is_started, topics, topic_of, ringVars, lost,
                  delivered_msg_count, dropped_msg_count>>
  BY DEF Receive
<1>2. Contents' = Contents
  BY <1>1 DEF ringVars, Contents, SlotAt
<1>3. ASSUME NEW u \in Subscribers
      PROVE  Seen(u)' = Seen(u)
  <2>1. CASE inbox[s] = <<>> \/ u # s
    <3>1. inbox'[u] = inbox[u] /\ received'[u] = received[u]
      BY <2>1 DEF Receive, OrderInv, Numbered
    <3> QED BY <3>1 DEF Seen
  <2>2. CASE inbox[s] # <<>> /\ u = s
    <3>1. inbox'[s] = Tail(inbox[s]) /\ received'[s] = Append(received[s], Head(inbox[s]))
      BY <2>2 DEF Receive, OrderInv, Numbered
    <3>2. inbox[s] \in Seq(Nat) /\ received[s] \in Seq(Nat)
      BY DEF OrderInv, Numbered
    <3>3. Head(inbox[s]) \in Nat
      BY <2>2, <3>2, EmptySeq
    <3>4. Elems(inbox[s]) = {Head(inbox[s])} \cup Elems(Tail(inbox[s]))
      BY <2>2, <3>2, ElemsOfTail
    <3>5. Elems(Append(received[s], Head(inbox[s])))
            = Elems(received[s]) \cup {Head(inbox[s])}
      BY <3>2, <3>3, ElemsOfAppend
    <3>6. Elems(inbox'[s]) \cup Elems(received'[s])
            = Elems(inbox[s]) \cup Elems(received[s])
      BY <3>1, <3>4, <3>5, Zenon
    <3> QED BY <2>2, <3>6, Zenon DEF Seen
  <2> QED BY <2>1, <2>2
<1> QED BY <1>1, <1>2, <1>3, QuietAccounts

\* A message is accepted: it waits, and nobody has seen or lost it.
LEMMA PublishAccounts ==
  ASSUME OrderInv, AccountInv, NEW t \in Topics, PublishAccepted(t)
  PROVE  AccountInv'
<1> DEFINE m == Len(topic_of)
<1>1. m \in Nat /\ topic_of \in Seq(Topics) /\ m + 1 \in Elements
  BY BrokerAssumption DEF OrderInv, Numbered, PublishAccepted, published_msg_count
<1>2. /\ topic_of' = Append(topic_of, t) /\ Len(topic_of') = m + 1
      /\ \A n \in 1 .. m : topic_of'[n] = topic_of[n]
  BY <1>1 DEF PublishAccepted
<1>3. UNCHANGED <<topics, inbox, received, lost, delivered_msg_count, dropped_msg_count>>
  BY DEF PublishAccepted
<1>4. Contents \in Seq(Nat) /\ Contents' = Append(Contents, m + 1)
  BY <1>1, RingTakesLast, RingHoldsNumbers
     DEF PublishAccepted, published_msg_count, OrderInv
<1>5. Elems(Contents') = Elems(Contents) \cup {m + 1}
  BY <1>1, <1>4, ElemsOfAppend
<1>6. Messages = 1 .. m /\ Messages' = Messages \cup {m + 1} /\ m + 1 \notin Messages
  BY <1>1, <1>2 DEF Messages, published_msg_count
<1>7. ASSUME NEW s \in Subscribers
      PROVE  Seen(s)' = Seen(s) /\ m + 1 \notin Seen(s) /\ m + 1 \notin lost[s]
  <2>1. Seen(s)' = Seen(s)
    BY <1>3 DEF Seen
  <2>2. m + 1 \notin Seen(s)
    BY <1>1, SeenIsPast
  <2>3. m + 1 \notin lost[s]
    BY <1>6 DEF AccountInv, LostIsPast
  <2> QED BY <2>1, <2>2, <2>3
<1>8. Registered'
  BY <1>3 DEF AccountInv, Registered, PublishAccepted
<1>9. LostIsPast'
  <2>1. lost' \in [Subscribers -> SUBSET Messages']
    BY <1>3, <1>6 DEF AccountInv, LostIsPast
  <2>2. ASSUME NEW s \in Subscribers, NEW n \in lost[s], NEW i \in 1 .. Len(Contents')
        PROVE  n < Contents'[i]
    <3>1. n \in 1 .. m
      BY <1>6 DEF AccountInv, LostIsPast
    <3>2. /\ Len(Contents') = Len(Contents) + 1 /\ Len(Contents) \in Nat
          /\ \A j \in 1 .. Len(Contents) + 1 :
               Contents'[j] = IF j = Len(Contents) + 1 THEN m + 1 ELSE Contents[j]
      BY <1>1, <1>4, AppendProperties
    <3>3. CASE i = Len(Contents) + 1
      BY <1>1, <3>1, <3>2, <3>3
    <3>4. CASE i # Len(Contents) + 1
      <4>1. i \in 1 .. Len(Contents) /\ Contents'[i] = Contents[i]
        BY <3>2, <3>4
      <4> QED BY <4>1 DEF AccountInv, LostIsPast
    <3> QED BY <3>3, <3>4
  <2> QED BY <1>3, <2>1, <2>2 DEF LostIsPast
<1>10. EachCopyAccounted'
  <2> SUFFICES ASSUME NEW s \in Subscribers, NEW n \in Messages'
               PROVE  IF s \in topics[topic_of'[n]]
                      THEN /\ n \in Elems(Contents') \cup Seen(s) \cup lost[s]
                           /\ ~(n \in Seen(s) /\ n \in lost[s])
                      ELSE n \notin Seen(s) \cup lost[s]
    BY <1>3, <1>7 DEF EachCopyAccounted, Seen, input_queue
  <2>1. CASE n = m + 1
    BY <1>5, <1>7, <2>1
  <2>2. CASE n \in Messages
    <3>1. topic_of'[n] = topic_of[n]
      BY <1>2, <1>6, <2>2
    <3>2. IF s \in topics[topic_of[n]]
          THEN /\ n \in Elems(Contents) \cup Seen(s) \cup lost[s]
               /\ ~(n \in Seen(s) /\ n \in lost[s])
          ELSE n \notin Seen(s) \cup lost[s]
      BY <2>2 DEF AccountInv, EachCopyAccounted, Seen, input_queue
    <3> QED BY <1>5, <3>1, <3>2
  <2> QED BY <1>6, <2>1, <2>2
<1>11. DeliveredCopies' = DeliveredCopies /\ LostCopies' = LostCopies
  <2>1. DeliveredCopies' = {c \in Subscribers \X Messages' : c[2] \in Seen(c[1])}
    BY <1>7 DEF DeliveredCopies, Copies
  <2>2. LostCopies' = {c \in Subscribers \X Messages' : c[2] \in lost[c[1]]}
    BY <1>3 DEF LostCopies, Copies
  <2> QED BY <1>6, <1>7, <2>1, <2>2 DEF DeliveredCopies, LostCopies, Copies
<1>12. Counted'
  BY <1>3, <1>11, CountersCount DEF AccountInv, Counted
<1>13. CountersAgree'
  BY <1>12, CountersCount, PTL
<1> QED BY <1>8, <1>9, <1>10, <1>13 DEF AccountInv

\* A message is moved: each subscriber of its topic has seen it or lost it.
LEMMA MoveAccounts ==
  ASSUME OrderInv, AccountInv, ProcessMoves
  PROVE  AccountInv'
<1> DEFINE h    == Head(Contents)
           has  == Takers(h)
           miss == Missers(h)
<1>1. Contents # <<>> /\ Contents' = Tail(Contents) /\ NextMsg = h
  BY RingGivesHead DEF ProcessMoves, OrderInv
<1>2. /\ Contents \in Seq(Nat) /\ Len(Contents) \in Nat \ {0}
      /\ Len(Contents') = Len(Contents) - 1
      /\ \A i \in 1 .. Len(Contents) - 1 : Contents'[i] = Contents[i + 1]
  BY <1>1, RingHoldsNumbers, HeadTailProperties, EmptySeq DEF OrderInv
<1>3. /\ h \in Messages
      /\ \A s \in Subscribers : h \notin Seen(s) /\ h \notin lost[s]
  BY <1>1, HeadIsNew DEF AccountInv
<1>4. Elems(Contents) = {h} \cup Elems(Contents')
  BY <1>1, <1>2, ElemsOfTail
<1>5. UNCHANGED <<is_started, topics, topic_of, received>> /\ CopyMsgToSubscribers(h)
  BY <1>1, Zenon DEF ProcessMoves
<1>6. Messages' = Messages
  BY <1>5 DEF Messages, published_msg_count
<1>7. /\ topics[topic_of[h]] \in SUBSET Subscribers
      /\ has \cup miss = topics[topic_of[h]] /\ has \cap miss = {}
  <2>1. topic_of[h] \in Topics
    BY <1>3 DEF Messages, published_msg_count, OrderInv, Numbered
  <2> QED BY <2>1 DEF Takers, Missers, AccountInv, Registered
<1>8. has \in SUBSET Subscribers /\ miss \in SUBSET Subscribers
  BY <1>7
<1>9. ASSUME NEW s \in Subscribers
      PROVE  /\ Seen(s)' = IF s \in has THEN Seen(s) \cup {h} ELSE Seen(s)
             /\ lost'[s] = IF s \in miss THEN lost[s] \cup {h} ELSE lost[s]
  <2>1. lost'[s] = IF s \in miss THEN lost[s] \cup {h} ELSE lost[s]
    BY <1>5 DEF CopyMsgToSubscribers
  <2>2. inbox'[s] = IF s \in has THEN Append(inbox[s], h) ELSE inbox[s]
    BY <1>5 DEF CopyMsgToSubscribers
  <2>3. h \in Nat /\ inbox[s] \in Seq(Nat)
    BY <1>3 DEF Messages, published_msg_count, OrderInv, Numbered
  <2>4. Elems(Append(inbox[s], h)) = Elems(inbox[s]) \cup {h}
    BY <2>3, ElemsOfAppend
  <2>5. Seen(s)' = Elems(inbox'[s]) \cup Elems(received[s])
    BY <1>5, Zenon DEF Seen
  <2>6. CASE s \in has
    BY <2>1, <2>2, <2>4, <2>5, <2>6 DEF Seen
  <2>7. CASE s \notin has
    BY <2>1, <2>2, <2>5, <2>7 DEF Seen
  <2> QED BY <2>6, <2>7
<1> HIDE DEF h, has, miss
<1>10. Registered'
  BY <1>5 DEF AccountInv, Registered
<1>11. LostIsPast'
  <2>1. lost' \in [Subscribers -> SUBSET Messages']
    <3>1. lost' = [s \in Subscribers |-> lost'[s]]
      BY <1>5, Zenon DEF CopyMsgToSubscribers
    <3>2. \A s \in Subscribers : lost'[s] \in SUBSET Messages
      BY <1>3, <1>9 DEF AccountInv, LostIsPast
    <3> QED BY <1>6, <3>1, <3>2
  <2>2. ASSUME NEW s \in Subscribers, NEW n \in lost'[s], NEW i \in 1 .. Len(Contents')
        PROVE  n < Contents'[i]
    <3>1. i + 1 \in 1 .. Len(Contents) /\ Contents'[i] = Contents[i + 1]
      BY <1>2
    <3>2. CASE n \in lost[s]
      BY <3>1, <3>2 DEF AccountInv, LostIsPast
    <3>3. CASE n = h
      <4>1. Increasing(Contents) /\ h = Contents[1]
        BY <1>1, <1>2, EmptySeq DEF OrderInv, h
      <4>2. 1 \in 1 .. Len(Contents) /\ 1 < i + 1
        BY <1>2
      <4> QED BY <3>1, <3>3, <4>1, <4>2 DEF Increasing
    <3> QED BY <1>9, <3>2, <3>3
  <2> QED BY <2>1, <2>2 DEF LostIsPast
<1>12. EachCopyAccounted'
  <2> SUFFICES ASSUME NEW s \in Subscribers, NEW n \in Messages
               PROVE  IF s \in topics[topic_of[n]]
                      THEN /\ n \in Elems(Contents') \cup Seen(s)' \cup lost'[s]
                           /\ ~(n \in Seen(s)' /\ n \in lost'[s])
                      ELSE n \notin Seen(s)' \cup lost'[s]
    BY <1>5, <1>6 DEF EachCopyAccounted, Seen, input_queue
  <2>1. CASE n = h
    BY <1>3, <1>7, <1>9, <2>1
  <2>2. CASE n # h
    <3>1. IF s \in topics[topic_of[n]]
          THEN /\ n \in Elems(Contents) \cup Seen(s) \cup lost[s]
               /\ ~(n \in Seen(s) /\ n \in lost[s])
          ELSE n \notin Seen(s) \cup lost[s]
      BY DEF AccountInv, EachCopyAccounted, Seen, input_queue
    <3>2. n \in Elems(Contents) => n \in Elems(Contents')
      BY <1>4, <2>2
    <3>3. n \in Seen(s)' <=> n \in Seen(s)
      BY <1>9, <2>2, Zenon
    <3>4. n \in lost'[s] <=> n \in lost[s]
      BY <1>9, <2>2, Zenon
    <3> QED BY <3>1, <3>2, <3>3, <3>4
  <2> QED BY <2>1, <2>2
<1>13. /\ DeliveredCopies' = DeliveredCopies \cup (has \X {h})
       /\ LostCopies' = LostCopies \cup (miss \X {h})
  <2>1. ASSUME NEW s \in Subscribers, NEW n \in Messages
        PROVE  /\ n \in Seen(s)' <=> n \in Seen(s) \/ (s \in has /\ n = h)
               /\ n \in lost'[s] <=> n \in lost[s] \/ (s \in miss /\ n = h)
    <3>1. n \in Seen(s)' <=> n \in Seen(s) \/ (s \in has /\ n = h)
      BY <1>9, Zenon
    <3>2. n \in lost'[s] <=> n \in lost[s] \/ (s \in miss /\ n = h)
      BY <1>9, Zenon
    <3> QED BY <3>1, <3>2
  <2>2. has \X {h} \subseteq Copies /\ miss \X {h} \subseteq Copies /\ Copies' = Copies
    BY <1>3, <1>6, <1>8 DEF Copies
  <2>3. DeliveredCopies' = {c \in Copies : c[2] \in Seen(c[1])'}
    BY <2>2 DEF DeliveredCopies, Seen
  <2>4. LostCopies' = {c \in Copies : c[2] \in lost'[c[1]]}
    BY <2>2 DEF LostCopies
  <2>5. ASSUME NEW c \in Copies
        PROVE  /\ c[1] \in Subscribers /\ c[2] \in Messages
               /\ c \in has \X {h} <=> c[1] \in has /\ c[2] = h
               /\ c \in miss \X {h} <=> c[1] \in miss /\ c[2] = h
    BY DEF Copies
  <2>6. ASSUME NEW c \in Copies
        PROVE  c \in DeliveredCopies' <=> c \in DeliveredCopies \cup (has \X {h})
    BY <2>1, <2>3, <2>5, Zenon DEF DeliveredCopies
  <2>7. ASSUME NEW c \in Copies
        PROVE  c \in LostCopies' <=> c \in LostCopies \cup (miss \X {h})
    <3>1. c \in LostCopies' <=> c[2] \in lost'[c[1]]
      BY <2>4, Zenon
    <3>2. c \in LostCopies <=> c[2] \in lost[c[1]]
      BY Zenon DEF LostCopies
    <3>3. c[2] \in lost'[c[1]] <=> c[2] \in lost[c[1]] \/ (c[1] \in miss /\ c[2] = h)
      BY <2>1, <2>5, Zenon
    <3> QED BY <2>5, <3>1, <3>2, <3>3, Zenon
  <2>8. /\ DeliveredCopies' \subseteq Copies /\ LostCopies' \subseteq Copies
        /\ DeliveredCopies \subseteq Copies /\ LostCopies \subseteq Copies
    BY <2>3, <2>4, Zenon DEF DeliveredCopies, LostCopies
  <2>9. DeliveredCopies' = DeliveredCopies \cup (has \X {h})
    BY <2>2, <2>6, <2>8, Zenon
  <2>10. LostCopies' = LostCopies \cup (miss \X {h})
    BY <2>2, <2>7, <2>8, Zenon
  <2> QED BY <2>9, <2>10, Zenon
<1>14. /\ \A s \in has : <<s, h>> \notin DeliveredCopies
       /\ \A s \in miss : <<s, h>> \notin LostCopies
  BY <1>3, <1>8 DEF DeliveredCopies, LostCopies
<1>15. /\ Cardinality(DeliveredCopies') = Cardinality(DeliveredCopies) + Cardinality(has)
       /\ Cardinality(LostCopies') = Cardinality(LostCopies) + Cardinality(miss)
  <2>1. IsFiniteSet(DeliveredCopies) /\ IsFiniteSet(LostCopies)
    BY CopiesAreFinite DEF OrderInv, Numbered
  <2> QED BY <1>8, <1>13, <1>14, <2>1, OneCopyEach
<1>16. Counted'
  <2>1. /\ delivered_msg_count' = delivered_msg_count + Cardinality(has)
        /\ dropped_msg_count' = dropped_msg_count + Cardinality(miss)
    BY <1>5, Zenon DEF CopyMsgToSubscribers, DroppedCopies, has, miss
  <2> QED BY <1>15, <2>1, CountersCount DEF AccountInv, Counted
<1>17. CountersAgree'
  BY <1>16, CountersCount, PTL
<1> QED BY <1>10, <1>11, <1>12, <1>17 DEF AccountInv

LEMMA AccountStep == OrderInv /\ AccountInv /\ [Next]_vars => AccountInv'
<1> SUFFICES ASSUME OrderInv, AccountInv, [Next]_vars PROVE AccountInv'
  OBVIOUS
<1>1. CASE InitBus
  BY <1>1, SetupAccounts
<1>2. ASSUME NEW s \in Subscribers, NEW t \in Topics, Subscribe(s, t)
      PROVE  AccountInv'
  BY <1>2, SetupAccounts
<1>3. ASSUME NEW s \in Subscribers, Receive(s)
      PROVE  AccountInv'
  BY <1>3, ReceiveAccounts
<1>4. ASSUME NEW t \in Topics, PublishAccepted(t)
      PROVE  AccountInv'
  BY <1>4, PublishAccounts
<1>5. CASE ProcessMoves
  BY <1>5, MoveAccounts
<1>6. CASE ProcessIdle \/ PublishRefused \/ Start \/ UNCHANGED vars
  <2>1. /\ UNCHANGED <<topics, topic_of, inbox, received, lost,
                       delivered_msg_count, dropped_msg_count>>
        /\ is_started => is_started'
    BY <1>6 DEF ProcessIdle, PublishRefused, Start, vars
  <2>2. UNCHANGED <<storage, read_index, count>>
    BY <1>6 DEF ProcessIdle, PopEmpty, PublishRefused, PushFull, Start, vars, ringVars
  <2>3. Contents' = Contents
    BY <2>2 DEF Contents, SlotAt
  <2>4. \A s \in Subscribers : Seen(s)' = Seen(s)
    BY <2>1 DEF Seen
  <2> QED BY <2>1, <2>3, <2>4, QuietAccounts
<1> QED BY <1>1, <1>2, <1>3, <1>4, <1>5, <1>6 DEF Next, Process, Publish

\* No copy of a message vanishes and none is counted twice: every copy that
\* is owed is waiting, delivered or lost, and the broker's two counters are
\* exactly the copies delivered and lost, for any number of subscribers,
\* topics and messages and any depth of the queues.
THEOREM CopiesAlwaysAccounted == Spec => []CopiesAccounted
<1>1. AccountInv => CopiesAccounted
  BY DEF AccountInv, CopiesAccounted
<1> QED BY <1>1, AccountInit, AccountStep, OrderInductive, PTL DEF Spec
=============================================================================
