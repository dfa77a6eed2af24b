------------------------------- MODULE Console -------------------------------
(***************************************************************************)
(* Services/console over Bsp/uart_bsp: characters cross from the SysTick   *)
(* interrupt to the main loop through a ring with no lock.  The interrupt  *)
(* writes only head, the loop writes only tail.                            *)
(*                                                                         *)
(* The interrupt may strike between any two accesses of the loop to a      *)
(* volatile variable and runs to its end before the loop goes on; so one   *)
(* character polled by it is one step, and console_read_character is       *)
(* three: see that head has moved, copy the slot out, store the new tail.  *)
(* A poll that loops because a second character came while the first was   *)
(* being stored is two polls with nothing of the loop between them.        *)
(***************************************************************************)
EXTENDS Integers, Sequences

CONSTANTS Characters, Capacity, Nothing

\* CONSOLE_RECEIVE_CAPACITY is 64; one slot always stays free.
ASSUME CapacityAssumption == Capacity \in 2 .. 255
ASSUME NothingAssumption  == Nothing \notin Characters

VARIABLES
  rdr, ore,            \* the receive register and its overrun flag (hardware)
  storage, head, tail, \* g_receive_storage, g_receive_head, g_receive_tail
  pc,                  \* how far the loop is in console_read_character
  out_character,       \* what the loop has copied out
  answer               \* result of the last access that took effect

uart  == <<rdr, ore>>
ring  == <<storage, head, tail>>
vars  == <<rdr, ore, storage, head, tail, pc, out_character, answer>>

Slots == 0 .. Capacity - 1

\* prv_next_index: (in_index + 1) modulo the capacity, for an index inside it.
NextIndex(i) == IF i + 1 = Capacity THEN 0 ELSE i + 1

Init ==
  /\ rdr = Nothing /\ ore = FALSE
  /\ storage \in [Slots -> Characters]
  /\ head = 0 /\ tail = 0
  /\ pc = "idle" /\ out_character = Nothing /\ answer = Nothing

-----------------------------------------------------------------------------
(* The line.  The register holds one character: another one coming before  *)
(* it is read is lost and latches the overrun flag, and while that flag is *)
(* set no further character is announced.                                  *)

Arrive(c) ==
  /\ IF rdr = Nothing /\ ~ore
     THEN rdr' = c /\ UNCHANGED ore
     ELSE ore' = TRUE /\ UNCHANGED rdr
  /\ UNCHANGED <<ring, pc, out_character, answer>>

-----------------------------------------------------------------------------
(* The interrupt: uart_bsp_read_character, then console_poll_receive. *)

\* The flag is cleared and then the character is read; one that comes between
\* the two is lost and latches the flag again.
ReadCharacter == rdr # Nothing /\ rdr' = Nothing /\ ore' \in BOOLEAN

\* Without a character there is still the flag to clear.  The mutant looks for
\* a character first.
PollNothingAtAll ==
  /\ rdr = Nothing /\ ore
  /\ UNCHANGED vars
PollNothing ==
  /\ rdr = Nothing /\ ore
  /\ ore' = FALSE
  /\ UNCHANGED <<rdr, ring, pc, out_character, answer>>

PollDropped ==
  /\ ReadCharacter
  /\ NextIndex(head) = tail
  /\ answer' = Nothing
  /\ UNCHANGED <<ring, pc, out_character>>

\* A poll that takes the last free slot too: full then looks like empty.
PollUnchecked ==
  /\ ReadCharacter
  /\ storage' = [storage EXCEPT ![head] = rdr]
  /\ head' = NextIndex(head)
  /\ answer' = rdr
  /\ UNCHANGED <<tail, pc, out_character>>

PollStored ==
  /\ ReadCharacter
  /\ NextIndex(head) # tail
  /\ storage' = [storage EXCEPT ![head] = rdr]
  /\ head' = NextIndex(head)
  /\ answer' = rdr
  /\ UNCHANGED <<tail, pc, out_character>>

PollReceive == PollDropped \/ PollStored \/ PollNothing

-----------------------------------------------------------------------------
(* The loop: console_read_character. *)

ReadEmpty ==
  /\ pc = "idle" /\ tail = head
  /\ answer' = Nothing
  /\ UNCHANGED <<uart, ring, pc, out_character>>

ReadSees ==
  /\ pc = "idle" /\ tail # head
  /\ pc' = "seen"
  /\ UNCHANGED <<uart, ring, out_character, answer>>

ReadCopies ==
  /\ pc = "seen"
  /\ out_character' = storage[tail]
  /\ pc' = "copied"
  /\ UNCHANGED <<uart, ring, answer>>

ReadAdvances ==
  /\ pc = "copied"
  /\ tail' = NextIndex(tail)
  /\ answer' = out_character
  /\ pc' = "idle"
  /\ UNCHANGED <<uart, storage, head, out_character>>

ReadCharacterStep == ReadEmpty \/ ReadSees \/ ReadCopies \/ ReadAdvances

-----------------------------------------------------------------------------
Next == PollReceive \/ ReadCharacterStep \/ \E c \in Characters : Arrive(c)

\* SysTick fires every millisecond, and ott_poll reads in every pass of the
\* main loop; the line owes nothing.
Fairness == WF_vars(PollReceive) /\ WF_vars(ReadCharacterStep)

Spec == Init /\ [][Next]_vars /\ Fairness

-----------------------------------------------------------------------------
Waiting == IF tail <= head THEN head - tail ELSE head - tail + Capacity

\* Slot of the character k places behind the tail.
SlotAt(k) == IF tail + k < Capacity THEN tail + k ELSE tail + k - Capacity

TypeOK ==
  /\ rdr \in Characters \cup {Nothing} /\ ore \in BOOLEAN
  /\ storage \in [Slots -> Characters]
  /\ head \in Slots /\ tail \in Slots
  /\ pc \in {"idle", "seen", "copied"}
  /\ out_character \in Characters \cup {Nothing}
  /\ answer \in Characters \cup {Nothing}

\* While the loop is inside a read, the interrupt cannot take the slot from
\* under it: the ring stays non-empty, and what the loop copied out is still
\* what the slot holds when the tail is moved past it.
ReadIsStable ==
  /\ pc # "idle" => head # tail
  /\ pc = "copied" => out_character = storage[tail]

IInv == TypeOK /\ ReadIsStable

\* Despite the interleaving, the ring is a queue of Capacity - 1 characters
\* that loses a character only when it is full, and never repeats, reorders
\* or invents one (the two-variable argument of console.c's own comment).
Fifo == INSTANCE BoundedFifo
          WITH Elements <- Characters, Capacity <- Capacity - 1,
               queue <- [k \in 1 .. Waiting |-> storage[SlotAt(k - 1)]]

ImplementsFifo == Fifo!Init /\ [][Fifo!Next]_(Fifo!vars)

\* Losing a character never wedges the console: an overrun is cleared although
\* the line may latch it again in the middle of a read, after which no further
\* character would be announced (uart_bsp_read_character).
OverrunClears == ore ~> ~ore
=============================================================================
