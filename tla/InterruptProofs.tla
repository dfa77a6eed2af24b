--------------------------- MODULE InterruptProofs ---------------------------
(***************************************************************************)
(* For any set of keys, any debounce window and any console ring: the main *)
(* loop is told of every press once and of no bounce, however the          *)
(* interrupt strikes; and the lock-free ring between the two is correct: a *)
(* read is never disturbed, and the ring implements a queue of             *)
(* Capacity - 1 characters, by itself and as the board uses it.            *)
(***************************************************************************)
EXTENDS Interrupt, SequenceTheorems, TLAPS

-----------------------------------------------------------------------------
(* The receive ring (Console) *)

\* The waiting characters, oldest first: the refinement mapping of Fifo.
Queue == [k \in 1 .. Waiting |-> storage[SlotAt(k - 1)]]

-----------------------------------------------------------------------------
\* prv_next_index stays inside the ring.
LEMMA NextIndexInSlots ==
  ASSUME NEW i \in Slots
  PROVE  NextIndex(i) \in Slots
  BY CapacityAssumption DEF NextIndex, Slots

\* How many wait, and where the places behind the tail are.
LEMMA RingArithmetic ==
  ASSUME TypeOK
  PROVE  /\ Waiting \in 0 .. Capacity - 1
         /\ Waiting = 0 <=> head = tail
         /\ NextIndex(head) = tail <=> Waiting = Capacity - 1
         /\ SlotAt(Waiting) = head
         /\ \A k \in 0 .. Capacity - 1 : SlotAt(k) \in Slots
         /\ \A j, k \in 0 .. Capacity - 1 : SlotAt(j) = SlotAt(k) => j = k
<1> USE CapacityAssumption DEF TypeOK, Slots, Waiting, SlotAt, NextIndex
<1>1. Waiting \in 0 .. Capacity - 1
  OBVIOUS
<1>2. Waiting = 0 <=> head = tail
  OBVIOUS
<1>3. NextIndex(head) = tail <=> Waiting = Capacity - 1
  OBVIOUS
<1>4. SlotAt(Waiting) = head
  OBVIOUS
<1>5. \A k \in 0 .. Capacity - 1 : SlotAt(k) \in Slots
  OBVIOUS
<1>6. \A j, k \in 0 .. Capacity - 1 : SlotAt(j) = SlotAt(k) => j = k
  <2> TAKE j, k \in 0 .. Capacity - 1
  <2> QED OBVIOUS
<1> QED
  BY <1>1, <1>2, <1>3, <1>4, <1>5, <1>6, Zenon

-----------------------------------------------------------------------------
LEMMA InductiveInit == Init => IInv
<1> SUFFICES ASSUME Init PROVE IInv
  OBVIOUS
<1>1. ore \in BOOLEAN
  BY Zenon DEF Init
<1>2. 0 \in Slots
  BY CapacityAssumption DEF Slots
<1>3. ReadIsStable
  BY DEF Init, ReadIsStable
<1> QED
  BY <1>1, <1>2, <1>3 DEF Init, IInv, TypeOK

\* A poll that stores writes the head slot and moves head, never onto tail:
\* whatever the loop has seen or copied stays as it was.
LEMMA PollStoredKeepsIInv ==
  ASSUME IInv, PollStored
  PROVE  IInv'
<1> USE DEF IInv
<1>1. NextIndex(head) \in Slots
  BY NextIndexInSlots DEF TypeOK
<1>2. TypeOK'
  BY <1>1 DEF PollStored, ReadCharacter, TypeOK
<1>3. pc # "idle" => head' # tail'
  BY DEF PollStored
<1>4. pc = "copied" => out_character' = storage'[tail']
  BY DEF PollStored, ReadIsStable, TypeOK
<1> QED
  BY <1>2, <1>3, <1>4 DEF PollStored, ReadIsStable

LEMMA InductiveStep == IInv /\ [Next]_vars => IInv'
<1> SUFFICES ASSUME IInv, [Next]_vars PROVE IInv'
  OBVIOUS
<1> USE DEF IInv, TypeOK, ReadIsStable, uart, ring
<1>1. CASE PollDropped
  BY <1>1 DEF PollDropped, ReadCharacter
<1>2. CASE PollStored
  BY <1>2, PollStoredKeepsIInv
<1>3. CASE ReadEmpty
  BY <1>3 DEF ReadEmpty
<1>4. CASE ReadSees
  BY <1>4 DEF ReadSees
<1>5. CASE ReadCopies
  BY <1>5 DEF ReadCopies
<1>6. CASE ReadAdvances
  BY <1>6, NextIndexInSlots DEF ReadAdvances
<1>7. ASSUME NEW c \in Characters, Arrive(c)
      PROVE  IInv'
  BY <1>7 DEF Arrive
<1>8. CASE PollNothing
  BY <1>8 DEF PollNothing
<1>9. CASE UNCHANGED vars
  BY <1>9 DEF vars
<1> QED
  BY <1>1, <1>2, <1>3, <1>4, <1>5, <1>6, <1>7, <1>8, <1>9
     DEF Next, PollReceive, ReadCharacterStep

LEMMA Inductive == Spec => []IInv
<1> QED BY InductiveInit, InductiveStep, PTL DEF Spec

\* The indices stay inside the ring, whatever the interleaving.
THEOREM TypeCorrect == Spec => []TypeOK
<1>1. IInv => TypeOK
  BY DEF IInv
<1> QED BY <1>1, Inductive, PTL

\* The interrupt never disturbs a read in progress.
THEOREM ReadAlwaysStable == Spec => []ReadIsStable
<1>1. IInv => ReadIsStable
  BY DEF IInv
<1> QED BY <1>1, Inductive, PTL

-----------------------------------------------------------------------------
LEMMA QueueIsSeq ==
  ASSUME IInv
  PROVE  /\ Queue \in Seq(Characters)
         /\ Len(Queue) = Waiting
         /\ \A k \in 1 .. Waiting : Queue[k] = storage[SlotAt(k - 1)]
<1>1. \A k \in 1 .. Waiting : k - 1 \in 0 .. Capacity - 1
  BY RingArithmetic, CapacityAssumption DEF IInv
<1>2. \A k \in 1 .. Waiting : storage[SlotAt(k - 1)] \in Characters
  BY <1>1, RingArithmetic DEF IInv, TypeOK
<1>3. Waiting \in Nat
  BY RingArithmetic, CapacityAssumption DEF IInv
<1> QED
  BY <1>2, <1>3 DEF Queue

\* Moving the tail hands out the head of the queue, which is what the loop
\* copied two steps before.
LEMMA AdvanceRefines ==
  ASSUME IInv, ReadAdvances
  PROVE  Fifo!Pop
<1> SUFFICES /\ Queue # <<>>
             /\ answer' = Head(Queue)
             /\ Queue' = Tail(Queue)
  BY Zenon DEF Fifo!Pop, Queue
<1> USE DEF IInv
<1>1. /\ Queue \in Seq(Characters) /\ Len(Queue) = Waiting /\ Queue # <<>>
      /\ Waiting \in 1 .. Capacity - 1
  BY QueueIsSeq, RingArithmetic, CapacityAssumption DEF ReadAdvances, ReadIsStable
<1>2. Head(Queue) = storage[tail]
  <2>1. Queue[1] = storage[SlotAt(0)]
    BY <1>1, QueueIsSeq
  <2>2. SlotAt(0) = tail
    BY CapacityAssumption DEF SlotAt, Slots, TypeOK
  <2> QED
    BY <1>1, <2>1, <2>2
<1>3. Waiting' = Waiting - 1
  BY <1>1, CapacityAssumption
     DEF ReadAdvances, Waiting, NextIndex, TypeOK, Slots
<1>4. \A k \in 1 .. Waiting - 1 : SlotAt(k - 1)' = SlotAt(k)
  BY <1>1, CapacityAssumption
     DEF ReadAdvances, SlotAt, NextIndex, TypeOK, Slots
<1>5. Queue' = [k \in 1 .. Waiting - 1 |-> storage[SlotAt(k)]]
  BY <1>3, <1>4 DEF ReadAdvances, Queue
<1>6. \A k \in 1 .. Waiting - 1 : storage[SlotAt(k)] \in Characters
  <2> TAKE k \in 1 .. Waiting - 1
  <2>1. k \in 0 .. Capacity - 1
    BY <1>1, CapacityAssumption
  <2> QED
    BY <2>1, RingArithmetic DEF TypeOK
<1>7. Queue' \in Seq(Characters) /\ Len(Queue') = Waiting - 1
  BY <1>1, <1>5, <1>6
<1>8. /\ Tail(Queue) \in Seq(Characters)
      /\ Len(Tail(Queue)) = Waiting - 1
      /\ \A k \in 1 .. Waiting - 1 : Tail(Queue)[k] = Queue[k + 1]
  BY <1>1, HeadTailProperties
<1>9. \A k \in 1 .. Waiting - 1 : Queue'[k] = Tail(Queue)[k]
  <2> TAKE k \in 1 .. Waiting - 1
  <2>1. k + 1 \in 1 .. Waiting /\ (k + 1) - 1 = k
    BY <1>1
  <2>2. Queue[k + 1] = storage[SlotAt((k + 1) - 1)]
    BY <2>1, QueueIsSeq
  <2>3. Queue[k + 1] = storage[SlotAt(k)]
    BY <2>1, <2>2, Zenon
  <2> QED
    BY <1>5, <1>8, <2>3
<1>10. Queue' = Tail(Queue)
  BY <1>7, <1>8, <1>9, SeqEqual
<1> QED
  BY <1>1, <1>2, <1>10 DEF ReadAdvances, ReadIsStable

\* A poll that finds a free slot appends, and disturbs nothing that waits.
LEMMA StoreRefines ==
  ASSUME IInv, PollStored
  PROVE  rdr \in Characters /\ Fifo!Push(rdr)
<1> SUFFICES /\ rdr \in Characters
             /\ Len(Queue) < Capacity - 1
             /\ Queue' = Append(Queue, rdr)
             /\ answer' = rdr
  BY Zenon DEF Fifo!Push, Queue
<1> USE DEF IInv
<1>1. rdr \in Characters /\ answer' = rdr
  BY DEF PollStored, ReadCharacter, TypeOK
<1>2. /\ Queue \in Seq(Characters) /\ Len(Queue) = Waiting
      /\ Waiting \in 0 .. Capacity - 2
  BY QueueIsSeq, RingArithmetic, CapacityAssumption DEF PollStored
<1>3. Waiting' = Waiting + 1
  BY <1>2, CapacityAssumption
     DEF PollStored, Waiting, NextIndex, TypeOK, Slots
<1>4. Queue' = [k \in 1 .. Waiting + 1 |-> storage'[SlotAt(k - 1)]]
  BY <1>3 DEF PollStored, Queue, SlotAt
<1>5. \A k \in 1 .. Waiting + 1 : storage'[SlotAt(k - 1)] \in Characters
  <2> TAKE k \in 1 .. Waiting + 1
  <2>1. k - 1 \in 0 .. Capacity - 1
    BY <1>2, CapacityAssumption
  <2> QED
    BY <1>1, <2>1, RingArithmetic DEF PollStored, TypeOK
<1>6. Queue' \in Seq(Characters) /\ Len(Queue') = Waiting + 1
  BY <1>2, <1>4, <1>5
<1>7. \A k \in 1 .. Waiting : Queue'[k] = Queue[k]
  <2> TAKE k \in 1 .. Waiting
  <2>1. /\ k - 1 \in 0 .. Capacity - 1 /\ k - 1 # Waiting
        /\ Waiting \in 0 .. Capacity - 1
    BY <1>2, CapacityAssumption
  <2>2. SlotAt(k - 1) \in Slots /\ SlotAt(k - 1) # head
    BY <2>1, RingArithmetic
  <2>3. storage'[SlotAt(k - 1)] = storage[SlotAt(k - 1)]
    BY <2>2 DEF PollStored, TypeOK
  <2>4. Queue'[k] = storage'[SlotAt(k - 1)]
    BY <1>2, <1>4
  <2> QED
    BY <2>3, <2>4, QueueIsSeq
<1>8. Queue'[Waiting + 1] = rdr
  <2>1. (Waiting + 1) - 1 = Waiting /\ Waiting + 1 \in 1 .. Waiting + 1
    BY <1>2
  <2>2. Queue'[Waiting + 1] = storage'[SlotAt((Waiting + 1) - 1)]
    BY <1>4, <2>1
  <2>3. SlotAt(Waiting) = head
    BY RingArithmetic
  <2>4. Queue'[Waiting + 1] = storage'[head]
    BY <2>1, <2>2, <2>3, Zenon
  <2> QED
    BY <2>4 DEF PollStored, TypeOK
<1>9. /\ Append(Queue, rdr) \in Seq(Characters)
      /\ Len(Append(Queue, rdr)) = Waiting + 1
      /\ \A k \in 1 .. Waiting + 1 :
           Append(Queue, rdr)[k] = IF k = Waiting + 1 THEN rdr ELSE Queue[k]
  BY <1>1, <1>2, AppendProperties
<1>10. \A k \in 1 .. Waiting + 1 : Queue'[k] = Append(Queue, rdr)[k]
  <2> TAKE k \in 1 .. Waiting + 1
  <2>1. CASE k = Waiting + 1
    BY <2>1, <1>8, <1>9
  <2>2. CASE k # Waiting + 1
    <3>1. k \in 1 .. Waiting
      BY <1>2, <2>2
    <3> QED
      BY <3>1, <2>2, <1>7, <1>9
  <2> QED
    BY <2>1, <2>2
<1>11. Queue' = Append(Queue, rdr)
  BY <1>6, <1>9, <1>10, SeqEqual
<1> QED
  BY <1>1, <1>2, <1>11, CapacityAssumption

LEMMA RefinesInit == Init => Fifo!Init
<1> SUFFICES ASSUME Init PROVE Queue = <<>> /\ answer = Nothing
  BY Zenon DEF Fifo!Init, Queue
<1>1. Waiting = 0
  BY CapacityAssumption DEF Init, Waiting
<1> QED
  BY <1>1 DEF Init, Queue

LEMMA RefinesStep == IInv /\ [Next]_vars => [Fifo!Next]_(Fifo!vars)
<1> SUFFICES ASSUME IInv, [Next]_vars PROVE [Fifo!Next]_(Fifo!vars)
  OBVIOUS
<1> DEFINE Same == Queue' = Queue /\ answer' = answer
<1>0. ASSUME Same PROVE UNCHANGED Fifo!vars
  BY <1>0, Zenon DEF Fifo!vars, Queue
<1>q. ASSUME UNCHANGED <<storage, head, tail>> PROVE Queue' = Queue
  BY <1>q DEF Queue, Waiting, SlotAt
<1>1. CASE PollDropped
  <2>1. Queue' = Queue /\ answer' = Nothing
    BY <1>1, <1>q DEF PollDropped, ring
  <2>2. ~(Len(Queue) < Capacity - 1)
    BY <1>1, QueueIsSeq, RingArithmetic, CapacityAssumption DEF PollDropped, IInv
  <2>3. rdr \in Characters /\ Fifo!Push(rdr)
    <3>1. rdr \in Characters
      BY <1>1 DEF PollDropped, ReadCharacter, IInv, TypeOK
    <3> QED
      BY <2>1, <2>2, <3>1, Zenon DEF Fifo!Push, Queue
  <2> QED
    BY <2>3 DEF Fifo!Next
<1>2. CASE PollStored
  BY <1>2, StoreRefines DEF Fifo!Next
<1>3. CASE ReadEmpty
  <2>1. Queue = <<>> /\ Queue' = Queue /\ answer' = Nothing
    BY <1>3, <1>q, QueueIsSeq, RingArithmetic DEF ReadEmpty, ring, IInv
  <2>2. Fifo!Pop
    BY <2>1, Zenon DEF Fifo!Pop, Queue
  <2> QED
    BY <2>2 DEF Fifo!Next
<1>4. CASE ReadSees
  BY <1>4, <1>q, <1>0 DEF ReadSees, ring
<1>5. CASE ReadCopies
  BY <1>5, <1>q, <1>0 DEF ReadCopies, ring
<1>6. CASE ReadAdvances
  BY <1>6, AdvanceRefines DEF Fifo!Next
<1>7. ASSUME NEW c \in Characters, Arrive(c)
      PROVE  UNCHANGED Fifo!vars
  BY <1>7, <1>q, <1>0 DEF Arrive, ring
<1>8. CASE PollNothing
  BY <1>8, <1>q, <1>0 DEF PollNothing, ring
<1>9. CASE UNCHANGED vars
  BY <1>9, <1>q, <1>0 DEF vars
<1> QED
  BY <1>1, <1>2, <1>3, <1>4, <1>5, <1>6, <1>7, <1>8, <1>9
     DEF Next, PollReceive, ReadCharacterStep

\* The console ring implements a queue of Capacity - 1 characters, with the
\* interrupt striking anywhere in a read.
THEOREM ConsoleImplementsFifo == Spec => ImplementsFifo
<1> QED
  BY RefinesInit, RefinesStep, Inductive, PTL DEF Spec, ImplementsFifo

-----------------------------------------------------------------------------
(* The keys (Inputs), and the board as a whole *)

\* One sample of one key: what the poll makes of a key that is as the
\* invariant says is again as the invariant says.
LEMMA PollKeepsKey ==
  ASSUME KeysTypeOK, NEW level \in [Keys -> BOOLEAN], PollKeys(level), KeysTypeOK',
         NEW k \in Keys, KeyInv(k)
  PROVE  KeyInv(k)'
<1>1. Samples \in Nat \ {0} BY SamplesAssumption
<1>2. /\ steady[k] \in 1 .. Samples /\ since[k] \in 0 .. 2 * Samples
      /\ presses[k] \in 0 .. 2
      /\ history[k] \in [1 .. Samples -> BOOLEAN]
      /\ contact[k] \in BOOLEAN /\ is_down[k] \in BOOLEAN /\ level[k] \in BOOLEAN
      /\ is_latched[k] \in BOOLEAN /\ is_pressed[k] \in BOOLEAN
  BY DEF KeysTypeOK, Window
<1>3. /\ history'[k] = Shifted(history[k], level[k])
      /\ is_pressed'[k] = Debounced(history'[k], is_pressed[k])
      /\ is_latched'[k] = (is_latched[k] \/ (is_pressed'[k] /\ ~is_pressed[k]))
      /\ contact'[k] = level[k]
      /\ steady'[k] = SteadyNow(k, level[k])
      /\ is_down'[k] = DownNow(k, level[k])
      /\ presses'[k] = IF IsPress(k, level[k]) THEN Lower(presses[k] + 1, 2) ELSE presses[k]
      /\ since'[k] = Lower(since[k] + 1, 2 * Samples)
  BY DEF PollKeys, Watch
<1>4. RegisterIsRun(k)'
  <2>1. CASE level[k] = contact[k]
    <3>1. \A i \in 1 .. steady'[k] : i = 1 \/ i - 1 \in 1 .. steady[k]
      BY <1>1, <1>2, <1>3, <2>1 DEF SteadyNow, Lower
    <3>2. \A i \in 1 .. steady'[k] : history'[k][i] = contact'[k]
      <4>1. SUFFICES ASSUME NEW i \in 1 .. steady'[k]
                     PROVE  history'[k][i] = level[k]
        BY <1>3
      <4>2. steady'[k] \in 1 .. Samples /\ i \in Window
        BY <1>1, <1>2, <1>3 DEF SteadyNow, Lower, Window
      <4>3. history'[k][i] = IF i = 1 THEN level[k] ELSE history[k][i - 1]
        BY <1>3, <4>2 DEF Shifted
      <4>4. i # 1 => history[k][i - 1] = contact[k]
        BY <3>1 DEF KeyInv, RegisterIsRun
      <4> QED BY <2>1, <4>3, <4>4
    <3>3. steady'[k] < Samples => history'[k][steady'[k] + 1] # contact'[k]
      <4>1. steady'[k] < Samples => steady'[k] = steady[k] + 1 /\ steady[k] < Samples
        BY <1>1, <1>2, <1>3, <2>1 DEF SteadyNow, Lower
      <4>2. steady[k] < Samples => history[k][steady[k] + 1] # contact[k]
        BY DEF KeyInv, RegisterIsRun
      <4>3. steady'[k] < Samples =>
              history'[k][steady'[k] + 1] = history[k][steady[k] + 1]
        BY <1>1, <1>2, <1>3, <4>1 DEF Shifted, Window
      <4> QED BY <1>3, <2>1, <4>1, <4>2, <4>3
    <3> QED BY <3>2, <3>3 DEF RegisterIsRun
  <2>2. CASE level[k] # contact[k]
    BY <1>1, <1>2, <1>3, <2>2 DEF KeyInv, RegisterIsRun, Shifted, Window, SteadyNow
  <2> QED BY <2>1, <2>2
<1>5. /\ steady'[k] \in 1 .. Samples
      /\ history'[k] \in [1 .. Samples -> BOOLEAN]
  BY DEF KeysTypeOK, Window
<1>6. /\ history'[k] = StableActive <=> (steady'[k] = Samples /\ level[k])
      /\ history'[k] = StableInactive <=> (steady'[k] = Samples /\ ~level[k])
  <2>1. CASE steady'[k] = Samples
    <3>1. history'[k] = [i \in 1 .. Samples |-> level[k]]
      BY <1>1, <1>3, <1>4, <1>5, <2>1 DEF RegisterIsRun
    <3>2. history'[k][1] = level[k]
      BY <1>1, <3>1
    <3>3. StableActive[1] = TRUE /\ StableInactive[1] = FALSE
      BY <1>1 DEF StableActive, StableInactive, Window
    <3>4. CASE level[k] = TRUE
      BY <2>1, <3>1, <3>2, <3>3, <3>4 DEF StableActive, StableInactive, Window
    <3>5. CASE level[k] = FALSE
      BY <2>1, <3>1, <3>2, <3>3, <3>5 DEF StableActive, StableInactive, Window
    <3> QED BY <1>2, <3>4, <3>5
  <2>2. CASE steady'[k] # Samples
    <3>1. steady'[k] \in 1 .. Samples /\ steady'[k] + 1 \in 1 .. Samples
      BY <1>1, <1>5, <2>2
    <3>2. history'[k][steady'[k]] = level[k] /\ history'[k][steady'[k] + 1] # level[k]
      BY <1>1, <1>3, <1>4, <1>5, <2>2 DEF RegisterIsRun
    <3>3. \A i \in 1 .. Samples : StableActive[i] = TRUE /\ StableInactive[i] = FALSE
      BY DEF StableActive, StableInactive, Window
    <3>4. history'[k] # StableActive /\ history'[k] # StableInactive
      BY <1>2, <3>1, <3>2, <3>3
    <3> QED BY <2>2, <3>4
  <2> QED BY <2>1, <2>2
<1>7. is_pressed'[k] = is_down'[k]
  <2>1. is_pressed[k] = is_down[k] BY <1>2 DEF KeyInv
  <2>2. is_pressed'[k] = IF steady'[k] = Samples THEN level[k] ELSE is_pressed[k]
    BY <1>2, <1>3, <1>6 DEF Debounced
  <2> QED BY <1>3, <2>1, <2>2 DEF DownNow
<1>8. is_latched'[k] <=> presses'[k] > 0
  <2>1. IsPress(k, level[k]) <=> (is_pressed'[k] /\ ~is_pressed[k])
    BY <1>2, <1>3, <1>7 DEF KeyInv, IsPress
  <2>2. CASE IsPress(k, level[k])
    <3>1. is_latched'[k] BY <1>3, <2>1, <2>2
    <3>2. presses'[k] > 0 BY <1>2, <1>3, <2>2 DEF Lower
    <3> QED BY <3>1, <3>2
  <2>3. CASE ~IsPress(k, level[k])
    <3>1. is_latched'[k] = is_latched[k] /\ presses'[k] = presses[k]
      BY <1>2, <1>3, <2>1, <2>3
    <3> QED BY <3>1 DEF KeyInv
  <2> QED BY <2>2, <2>3
<1>9. TimeHasPassed(k)'
  <2>1. /\ is_down'[k] \in BOOLEAN /\ contact'[k] \in BOOLEAN
        /\ since'[k] \in 0 .. 2 * Samples /\ presses'[k] \in 0 .. 2
    BY DEF KeysTypeOK
  <2>2. steady'[k] = Samples => is_down'[k] = contact'[k]
    BY <1>3 DEF DownNow
  <2>3. presses'[k] > 0 /\ is_down'[k] /\ ~contact'[k] => since'[k] >= steady'[k]
    <3>1. SUFFICES ASSUME presses'[k] > 0, is_down'[k], ~contact'[k]
                   PROVE  since'[k] >= steady'[k]
      OBVIOUS
    <3>2. ~level[k] /\ presses'[k] = presses[k] /\ presses[k] > 0 /\ is_down[k]
      BY <1>1, <1>2, <1>3, <3>1 DEF DownNow, IsPress
    <3>3. CASE contact[k]
      <4>1. steady'[k] = 1
        <5>1. level[k] # contact[k] BY <3>2, <3>3
        <5> QED BY <1>3, <5>1 DEF SteadyNow
      <4> QED BY <1>1, <1>2, <1>3, <4>1 DEF Lower
    <3>4. CASE ~contact[k]
      <4>1. since[k] >= steady[k] BY <3>2, <3>4 DEF KeyInv, TimeHasPassed
      <4>2. steady'[k] = Lower(steady[k] + 1, Samples)
        BY <1>2, <1>3, <3>2, <3>4 DEF SteadyNow
      <4> QED BY <1>1, <1>2, <1>3, <4>1, <4>2 DEF Lower
    <3> QED BY <3>3, <3>4
  <2>4. presses'[k] > 0 /\ ~is_down'[k] =>
          since'[k] >= Samples + (IF contact'[k] THEN steady'[k] ELSE 0)
    BY <1>1, <1>2, <1>3, <2>1
       DEF KeyInv, TimeHasPassed, SteadyNow, DownNow, IsPress, Lower
  <2>5. presses'[k] > 1 => since'[k] = 2 * Samples
    BY <1>1, <1>2, <1>3, <2>1
       DEF KeyInv, TimeHasPassed, SteadyNow, DownNow, IsPress, Lower
  <2> QED BY <2>2, <2>3, <2>4, <2>5 DEF TimeHasPassed
<1> QED BY <1>4, <1>7, <1>8, <1>9 DEF KeyInv

\* The poll keeps the types.
LEMMA PollKeepsTypes ==
  ASSUME KeysTypeOK, NEW level \in [Keys -> BOOLEAN], PollKeys(level)
  PROVE  KeysTypeOK'
<1>1. Samples \in Nat \ {0} BY SamplesAssumption
<1>2. ASSUME NEW k \in Keys
      PROVE  /\ Shifted(history[k], level[k]) \in [Window -> BOOLEAN]
             /\ SteadyNow(k, level[k]) \in Window
             /\ DownNow(k, level[k]) \in BOOLEAN
             /\ Lower(since[k] + 1, 2 * Samples) \in 0 .. 2 * Samples
             /\ Lower(presses[k] + 1, 2) \in 0 .. 2
  <2>1. Shifted(history[k], level[k]) \in [Window -> BOOLEAN]
    <3>1. \A i \in Window : i = 1 \/ i - 1 \in Window BY <1>1 DEF Window
    <3> QED BY <3>1 DEF KeysTypeOK, Shifted
  <2>2. SteadyNow(k, level[k]) \in Window
    BY <1>1 DEF KeysTypeOK, Window, SteadyNow, Lower
  <2>3. DownNow(k, level[k]) \in BOOLEAN
    BY DEF KeysTypeOK, DownNow
  <2>4. /\ Lower(since[k] + 1, 2 * Samples) \in 0 .. 2 * Samples
        /\ Lower(presses[k] + 1, 2) \in 0 .. 2
    BY <1>1 DEF KeysTypeOK, Lower
  <2> QED BY <2>1, <2>2, <2>3, <2>4
<1>3. history' \in [Keys -> [Window -> BOOLEAN]] BY <1>2 DEF PollKeys
<1>4. is_pressed' \in [Keys -> BOOLEAN] BY DEF PollKeys, KeysTypeOK, Debounced
<1>5. is_latched' \in [Keys -> BOOLEAN] BY DEF PollKeys, KeysTypeOK
<1>6. /\ contact' \in [Keys -> BOOLEAN] /\ is_down' \in [Keys -> BOOLEAN]
      /\ steady' \in [Keys -> Window] /\ since' \in [Keys -> 0 .. 2 * Samples]
  BY <1>2 DEF PollKeys, Watch
<1>7. presses' \in [Keys -> 0 .. 2] BY <1>2 DEF PollKeys, Watch, KeysTypeOK
<1> QED BY <1>3, <1>4, <1>5, <1>6, <1>7 DEF KeysTypeOK

\* Taking a press keeps all of it.
LEMMA TakeKeepsKeys ==
  ASSUME KeysInv, NEW t \in Keys, TakePress(t)
  PROVE  KeysInv'
<1>1. Samples \in Nat \ {0} BY SamplesAssumption
<1>2. KeysTypeOK' BY <1>1 DEF KeysInv, KeysTypeOK, TakePress, Handed
<1>3. ASSUME NEW k \in Keys PROVE KeyInv(k)'
  <2>1. KeyInv(k) /\ KeysTypeOK BY DEF KeysInv
  <2>2. CASE k # t
    <3>1. /\ is_latched'[k] = is_latched[k] /\ presses'[k] = presses[k] /\ since'[k] = since[k]
      BY <2>1, <2>2 DEF KeysTypeOK, TakePress, Handed
    <3> QED BY <2>1, <3>1 DEF KeyInv, RegisterIsRun, TimeHasPassed, TakePress
  <2>3. CASE k = t
    <3>1. is_latched'[k] = FALSE /\ presses'[k] = 0
      BY <2>1, <2>3 DEF KeyInv, KeysTypeOK, TakePress, Handed
    <3>2. presses'[k] \in 0 .. 2 /\ ~(presses'[k] > 0) /\ ~(presses'[k] > 1)
      BY <3>1
    <3> QED BY <2>1, <3>1, <3>2 DEF KeyInv, RegisterIsRun, TimeHasPassed, TakePress
  <2> QED BY <2>2, <2>3
<1> QED BY <1>2, <1>3 DEF KeysInv

\* The invariant holds at the start and every step of the board keeps it.
LEMMA KeysStart == ASSUME BoardInit PROVE KeysInv
<1>1. Samples \in Nat \ {0} BY SamplesAssumption
<1>2. KeysTypeOK
  BY <1>1 DEF BoardInit, KeysInit, KeysTypeOK, StableInactive, Window
<1>3. ASSUME NEW k \in Keys PROVE KeyInv(k)
  <2>1. /\ history[k] = [i \in 1 .. Samples |-> FALSE] /\ contact[k] = FALSE
        /\ steady[k] = Samples /\ presses[k] = 0
        /\ is_pressed[k] = FALSE /\ is_down[k] = FALSE /\ is_latched[k] = FALSE
    BY DEF BoardInit, KeysInit, StableInactive, Window
  <2>2. RegisterIsRun(k)
    <3>1. \A i \in 1 .. steady[k] : history[k][i] = contact[k] BY <2>1
    <3>2. ~(steady[k] < Samples) BY <1>1, <2>1
    <3> QED BY <3>1, <3>2 DEF RegisterIsRun
  <2>3. ~(presses[k] > 0) /\ ~(presses[k] > 1) BY <2>1
  <2>4. TimeHasPassed(k)
    <3>1. is_down[k] = contact[k] BY <2>1
    <3> QED BY <2>3, <3>1 DEF TimeHasPassed
  <2> QED BY <2>1, <2>2, <2>3, <2>4 DEF KeyInv
<1> QED BY <1>2, <1>3 DEF KeysInv

LEMMA KeysStep == ASSUME KeysInv, [BoardNext]_boardVars PROVE KeysInv'
<1>1. ASSUME NEW level \in [Keys -> BOOLEAN], PollKeys(level) PROVE KeysInv'
  <2>1. KeysTypeOK' BY <1>1, PollKeepsTypes DEF KeysInv
  <2> QED BY <1>1, <2>1, PollKeepsKey DEF KeysInv
<1>2. ASSUME UNCHANGED keyVars PROVE KeysInv'
  <2>1. /\ UNCHANGED <<history, is_pressed, is_latched>>
        /\ UNCHANGED <<contact, steady, is_down, presses, since>>
    BY <1>2 DEF keyVars
  <2>2. KeysTypeOK' BY <2>1 DEF KeysInv, KeysTypeOK
  <2>3. ASSUME NEW k \in Keys PROVE KeyInv(k)'
    BY <2>1 DEF KeysInv, KeyInv, RegisterIsRun, TimeHasPassed
  <2> QED BY <2>2, <2>3 DEF KeysInv
<1>3. ASSUME PollInput PROVE KeysInv'
  BY <1>3, TakeKeepsKeys, OrderAssumption DEF PollInput
<1>4. CASE OnSystick BY <1>1, <1>4 DEF OnSystick
<1>5. CASE PollAgain BY <1>2, <1>5 DEF PollAgain
<1>6. CASE MainLoop BY <1>2, <1>3, <1>6 DEF MainLoop, OttPoll, ShellService
<1>7. CASE LineArrives BY <1>2, <1>7 DEF LineArrives
<1>8. CASE UNCHANGED boardVars BY <1>2, <1>8 DEF boardVars, keyVars
<1> QED BY <1>4, <1>5, <1>6, <1>7, <1>8 DEF BoardNext

\* The keys' invariant, for any number of keys and any window.
THEOREM KeysInvariant == BoardSpec => []KeysInv
BY KeysStart, KeysStep, PTL DEF BoardSpec

\* Between the SysTick interrupt and the main loop no press is lost, invented
\* or told twice, unless the loop stays away for two debounce windows.
THEOREM EveryPressAccounted == BoardSpec => []PressesAccounted
<1>1. ASSUME KeysInv PROVE PressesAccounted
  BY <1>1 DEF KeysInv, KeyInv, TimeHasPassed, PressesAccounted
<1> QED BY <1>1, KeysInvariant, PTL

-----------------------------------------------------------------------------
\* Every step of the board is a step of the console or leaves it alone.
LEMMA BoardStepsConsole == BoardNext \/ UNCHANGED boardVars => [Next]_vars
<1>1. OnSystick => [Next]_vars BY DEF OnSystick, Next, consoleVars
<1>2. PollAgain => [Next]_vars BY DEF PollAgain, Next
<1>3. MainLoop => [Next]_vars
  BY DEF MainLoop, OttPoll, PollInput, ShellService, Next, consoleVars
<1>4. LineArrives => [Next]_vars BY DEF LineArrives, Next
<1>5. UNCHANGED boardVars => UNCHANGED vars BY DEF boardVars, consoleVars
<1> QED BY <1>1, <1>2, <1>3, <1>4, <1>5 DEF BoardNext

\* The console keeps its promise on the board as it does alone: beside the
\* keys in the interrupt, and read by a loop that is away for long stretches.
THEOREM BoardImplementsFifo == BoardSpec => ImplementsFifo
<1>1. BoardInit => Init BY DEF BoardInit
<1>2. BoardInit => IInv BY <1>1, InductiveInit
<1>3. IInv /\ [BoardNext]_boardVars => IInv' BY BoardStepsConsole, InductiveStep
<1>4. BoardInit => Fifo!Init BY <1>1, RefinesInit
<1>5. IInv /\ [BoardNext]_boardVars => [Fifo!Next]_(Fifo!vars)
  BY BoardStepsConsole, RefinesStep
<1> QED BY <1>2, <1>3, <1>4, <1>5, PTL DEF BoardSpec, ImplementsFifo
=============================================================================
