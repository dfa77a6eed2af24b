----------------------------- MODULE ScoreProofs -----------------------------
(***************************************************************************)
(* The score, from the event to the flash page.                            *)
(*                                                                         *)
(* First Score, for any games, points, length of the chain and depth of    *)
(* queues: the total of a game is what its own events are worth, however   *)
(* it was copied, simulated or started over.                               *)
(*                                                                         *)
(* Then Ott, boots and the stored scores, for any tables, places, scores,  *)
(* block and number of tests, over resets, power cuts and failures of the  *)
(* flash at any step: a test runs once for each time it was asked for, no  *)
(* score comes up that nobody played, what is shown is what is stored      *)
(* unless the flash failed, no better score gives way to a worse one, and  *)
(* the test leaves the tables it found.                                    *)
(***************************************************************************)
EXTENDS Score, Ott, FiniteSetTheorems, SequenceTheorems, WellFoundedInduction, TLAPS

-----------------------------------------------------------------------------
(* The score of a run (Score) *)

\* The last events of the run wait, the older ones of them in the inbox.
Waits(run, box, bus) ==
  /\ run \in Seq(Events) /\ box \in Seq(Events) /\ bus \in Seq(Events)
  /\ Len(box) + Len(bus) <= Len(run)
  /\ \A i \in 1 .. Len(box) : box[i] = run[Len(run) - Len(bus) - Len(box) + i]
  /\ \A i \in 1 .. Len(bus) : bus[i] = run[Len(run) - Len(bus) + i]

\* w[n] is what the first n events of the run are worth.
Sums(run, w) ==
  /\ w[0] = 0 /\ \A n \in 0 .. Len(run) : w[n] \in Int
  /\ \A n \in 1 .. Len(run) : w[n] = w[n - 1] + WorthOf(run, n)

\* The bonus chain after h events: the ghosts in the window, up to its length.
Chained(run, h) ==
  IF EatenBefore(run, h + 1) < ChainLength THEN EatenBefore(run, h + 1) ELSE ChainLength

\* What was eaten before an event does not depend on what comes after it.
LEMMA EatenIsPast ==
  ASSUME NEW run \in Seq(Events), NEW e \in Events, NEW i \in 1 .. Len(run) + 1
  PROVE  EatenBefore(Append(run, e), i) = EatenBefore(run, i)
<1>1. \A j \in 1 .. Len(run) : Append(run, e)[j] = run[j]
  OBVIOUS
<1>2. \A j \in 1 .. i - 1 : j \in 1 .. Len(run) /\ \A k \in j .. i - 1 : k \in 1 .. Len(run)
  BY LenProperties
<1> DEFINE Before(r) == {j \in 1 .. i - 1 : /\ r[j] = "GHOST"
                                            /\ \A k \in j .. i - 1 : r[k] # "FRIGHTENED"}
<1>3. Before(Append(run, e)) = Before(run)
  BY <1>1, <1>2
<1> QED BY <1>3 DEF EatenBefore

\* Neither does what it is worth.
LEMMA WorthIsPast ==
  ASSUME NEW run \in Seq(Events), NEW e \in Events, NEW i \in 1 .. Len(run)
  PROVE  WorthOf(Append(run, e), i) = WorthOf(run, i)
<1>1. Append(run, e)[i] = run[i]
  OBVIOUS
<1>2. EatenBefore(Append(run, e), i) = EatenBefore(run, i)
  BY EatenIsPast, LenProperties
<1> QED BY <1>1, <1>2 DEF WorthOf

\* What an event is worth is a number.
LEMMA WorthInt ==
  ASSUME NEW run \in Seq(Events), NEW i \in 1 .. Len(run)
  PROVE  WorthOf(run, i) \in Int
<1>1. PelletPoints \in Nat /\ PowerPelletPoints \in Nat /\ FirstGhostPoints \in Nat
      /\ ChainLength \in Nat \ {0}
  BY ScoreAssumption
<1>2. \A k \in Nat : GhostPoints(k) \in Int
  <2> SUFFICES ASSUME NEW k \in Nat PROVE GhostPoints(k) \in Int
    OBVIOUS
  <2> DEFINE m == IF k < ChainLength THEN k ELSE ChainLength - 1
  <2>1. m \in Nat
    BY <1>1
  <2>2. 2 ^ m \in Int
    BY <2>1, SMT
  <2>3. GhostPoints(k) = FirstGhostPoints * 2 ^ m
    BY DEF GhostPoints
  <2> HIDE DEF m
  <2> QED BY <1>1, <2>2, <2>3
<1>3. EatenBefore(run, i) \in Nat
  <2> DEFINE S == {j \in 1 .. i - 1 : /\ run[j] = "GHOST"
                                      /\ \A k \in j .. i - 1 : run[k] # "FRIGHTENED"}
  <2>1. IsFiniteSet(1 .. i - 1)
    BY FS_Interval
  <2>2. IsFiniteSet(S)
    BY <2>1, FS_Subset
  <2> QED BY <2>2, FS_CardinalityType DEF EatenBefore
<1>4. run[i] \in Events
  OBVIOUS
<1> QED BY <1>1, <1>2, <1>3, <1>4 DEF WorthOf, Events

\* The sums go on with the run, and those there were stay.
LEMMA SumsGrow ==
  ASSUME NEW run \in Seq(Events), NEW e \in Events, NEW w, Sums(run, w)
  PROVE  /\ Sums(Append(run, e), Summed(w, Append(run, e)))
         /\ \A n \in 0 .. Len(run) : Summed(w, Append(run, e))[n] = w[n]
<1> DEFINE new == Append(run, e)
<1>1. new \in Seq(Events) /\ Len(new) = Len(run) + 1 /\ Len(run) \in Nat
  BY LenProperties
<1>2. \A n \in 0 .. Len(run) : Summed(w, new)[n] = w[n]
  BY <1>1 DEF Summed
<1>3. Summed(w, new)[Len(new)] = w[Len(run)] + WorthOf(new, Len(new))
  BY <1>1 DEF Summed
<1>4. ASSUME NEW n \in 1 .. Len(new)
      PROVE  Summed(w, new)[n] = Summed(w, new)[n - 1] + WorthOf(new, n)
  <2>1. CASE n = Len(new)
    <3>1. Summed(w, new)[n - 1] = w[Len(run)]
      BY <1>1, <1>2, <2>1
    <3> QED BY <1>3, <2>1, <3>1
  <2>2. CASE n # Len(new)
    <3>1. n \in 1 .. Len(run) /\ n - 1 \in 0 .. Len(run) /\ n \in 0 .. Len(run)
      BY <1>1, <2>2
    <3>2. WorthOf(new, n) = WorthOf(run, n)
      BY <3>1, WorthIsPast
    <3>3. Summed(w, new)[n] = w[n] /\ Summed(w, new)[n - 1] = w[n - 1]
      BY <1>2, <3>1
    <3>4. w[n] = w[n - 1] + WorthOf(run, n)
      BY <3>1 DEF Sums
    <3> QED BY <3>2, <3>3, <3>4
  <2> QED BY <2>1, <2>2
<1>5. Summed(w, new)[0] = 0
  BY <1>1, <1>2 DEF Sums
<1>6. ASSUME NEW n \in 0 .. Len(new)
      PROVE  Summed(w, new)[n] \in Int
  <2>1. \A k \in 0 .. Len(run) : Summed(w, new)[k] \in Int
    BY <1>2 DEF Sums
  <2>2. Summed(w, new)[Len(run)] \in Int /\ WorthOf(new, Len(new)) \in Int
    <3>1. Len(run) \in 0 .. Len(run) /\ Len(new) \in 1 .. Len(new)
      BY <1>1
    <3>2. WorthOf(new, Len(new)) \in Int
      BY <1>1, <3>1, WorthInt
    <3> HIDE DEF new
    <3> QED BY <2>1, <3>1, <3>2
  <2>3. Summed(w, new)[Len(new)] \in Int
    <3>1. Summed(w, new)[Len(run)] = w[Len(run)]
      BY <1>1, <1>2
    <3> QED BY <1>3, <2>2, <3>1
  <2> QED BY <1>1, <2>1, <2>3
<1> QED BY <1>2, <1>4, <1>5, <1>6 DEF Sums

\* The three ways of an event: it is published, copied to the inbox, and taken.
LEMMA EventWaits ==
  ASSUME NEW run, NEW box, NEW bus, Waits(run, box, bus), NEW e \in Events
  PROVE  Waits(Append(run, e), box, Append(bus, e))
<1>1. Len(run) \in Nat /\ Len(box) \in Nat /\ Len(bus) \in Nat
  BY LenProperties DEF Waits
<1>2. Append(run, e) \in Seq(Events) /\ Len(Append(run, e)) = Len(run) + 1
      /\ Append(bus, e) \in Seq(Events) /\ Len(Append(bus, e)) = Len(bus) + 1
  BY DEF Waits
<1>3. /\ \A i \in 1 .. Len(run) : Append(run, e)[i] = run[i]
      /\ Append(run, e)[Len(run) + 1] = e
      /\ \A i \in 1 .. Len(bus) : Append(bus, e)[i] = bus[i]
      /\ Append(bus, e)[Len(bus) + 1] = e
  BY DEF Waits
<1>4. ASSUME NEW i \in 1 .. Len(box)
      PROVE  box[i] = Append(run, e)[Len(run) - Len(bus) - Len(box) + i]
  <2>1. Len(run) - Len(bus) - Len(box) + i \in 1 .. Len(run)
    BY <1>1 DEF Waits
  <2>2. box[i] = run[Len(run) - Len(bus) - Len(box) + i]
    BY DEF Waits
  <2> QED BY <1>3, <2>1, <2>2
<1>5. ASSUME NEW i \in 1 .. Len(bus) + 1
      PROVE  Append(bus, e)[i] = Append(run, e)[Len(run) - Len(bus) + i]
  <2>1. CASE i = Len(bus) + 1
    <3>1. Len(run) - Len(bus) + i = Len(run) + 1
      BY <1>1, <2>1
    <3> QED BY <1>3, <2>1, <3>1
  <2>2. CASE i \in 1 .. Len(bus)
    <3>1. Len(run) - Len(bus) + i \in 1 .. Len(run)
      <4>1. Len(bus) <= Len(run)
        BY <1>1 DEF Waits
      <4> QED BY <1>1, <2>2, <4>1
    <3>2. bus[i] = run[Len(run) - Len(bus) + i]
      BY <2>2 DEF Waits
    <3>3. Append(bus, e)[i] = bus[i]
      BY <1>3, <2>2
    <3>4. Append(run, e)[Len(run) - Len(bus) + i] = run[Len(run) - Len(bus) + i]
      BY <1>3, <3>1, Zenon
    <3> QED BY <3>2, <3>3, <3>4
  <2>3. i = Len(bus) + 1 \/ i \in 1 .. Len(bus)
    BY <1>1
  <2> QED BY <2>1, <2>2, <2>3, Zenon
<1>6. /\ Len(Append(run, e)) - Len(Append(bus, e)) = Len(run) - Len(bus)
      /\ Len(box) + Len(Append(bus, e)) <= Len(Append(run, e))
  BY <1>1, <1>2 DEF Waits
<1> QED BY <1>2, <1>4, <1>5, <1>6 DEF Waits

LEMMA EventMoves ==
  ASSUME NEW run, NEW box, NEW bus, Waits(run, box, bus), bus # <<>>
  PROVE  /\ Waits(run, Append(box, Head(bus)), Tail(bus))
         /\ Len(Append(box, Head(bus))) = Len(box) + 1 /\ Len(Tail(bus)) = Len(bus) - 1
<1>1. Len(run) \in Nat /\ Len(box) \in Nat /\ Len(bus) \in Nat \ {0}
  BY LenProperties, EmptySeq DEF Waits
<1>2. /\ Head(bus) = bus[1] /\ Head(bus) \in Events
      /\ Tail(bus) \in Seq(Events) /\ Len(Tail(bus)) = Len(bus) - 1
      /\ \A i \in 1 .. Len(bus) - 1 : Tail(bus)[i] = bus[i + 1]
  BY HeadTailProperties DEF Waits
<1>3. /\ Append(box, Head(bus)) \in Seq(Events)
      /\ Len(Append(box, Head(bus))) = Len(box) + 1
      /\ \A i \in 1 .. Len(box) : Append(box, Head(bus))[i] = box[i]
      /\ Append(box, Head(bus))[Len(box) + 1] = Head(bus)
  BY <1>2 DEF Waits
<1> QED BY <1>1, <1>2, <1>3 DEF Waits

LEMMA EventTaken ==
  ASSUME NEW run, NEW box, NEW bus, Waits(run, box, bus), box # <<>>
  PROVE  /\ Waits(run, Tail(box), bus) /\ Len(Tail(box)) = Len(box) - 1
         /\ Head(box) = run[Len(run) - Len(bus) - Len(box) + 1]
         /\ Len(box) \in Nat \ {0}
<1>1. Len(run) \in Nat /\ Len(box) \in Nat \ {0} /\ Len(bus) \in Nat
  BY LenProperties, EmptySeq DEF Waits
<1>2. /\ Head(box) = box[1]
      /\ Tail(box) \in Seq(Events) /\ Len(Tail(box)) = Len(box) - 1
      /\ \A i \in 1 .. Len(box) - 1 : Tail(box)[i] = box[i + 1]
  BY HeadTailProperties DEF Waits
<1> QED BY <1>1, <1>2 DEF Waits

\* One event more: the ghosts of the window, told from what the event is.
LEMMA EatenByEvent ==
  ASSUME NEW run \in Seq(Events), NEW h \in Nat, h < Len(run)
  PROVE  /\ EatenBefore(run, h + 1) \in Nat
         /\ EatenBefore(run, h + 2) =
              IF run[h + 1] = "FRIGHTENED" THEN 0
              ELSE IF run[h + 1] = "GHOST" THEN EatenBefore(run, h + 1) + 1
              ELSE EatenBefore(run, h + 1)
<1> DEFINE Eaten(n) == {j \in 1 .. n : /\ run[j] = "GHOST"
                                       /\ \A k \in j .. n : run[k] # "FRIGHTENED"}
<1>1. EatenBefore(run, h + 1) = Cardinality(Eaten(h)) /\ EatenBefore(run, h + 2) = Cardinality(Eaten(h + 1))
  <2>1. h + 1 - 1 = h /\ h + 2 - 1 = h + 1
    OBVIOUS
  <2> QED BY <2>1 DEF EatenBefore
<1>2. IsFiniteSet(Eaten(h)) /\ Cardinality(Eaten(h)) \in Nat
  <2>1. IsFiniteSet(1 .. h)
    BY FS_Interval
  <2>2. IsFiniteSet(Eaten(h))
    BY <2>1, FS_Subset
  <2> QED BY <2>2, FS_CardinalityType
<1>3. CASE run[h + 1] = "FRIGHTENED"
  <2>1. Eaten(h + 1) = {}
    BY <1>3
  <2> QED BY <1>1, <1>2, <1>3, <2>1, FS_EmptySet
<1>4. CASE run[h + 1] = "GHOST"
  <2>1. Eaten(h + 1) = Eaten(h) \cup {h + 1}
    BY <1>4
  <2>2. h + 1 \notin Eaten(h)
    OBVIOUS
  <2> HIDE DEF Eaten
  <2>3. Cardinality(Eaten(h + 1)) = Cardinality(Eaten(h)) + 1
    BY <1>2, <2>1, <2>2, FS_AddElement
  <2> QED BY <1>1, <1>2, <1>4, <2>3
<1>5. CASE run[h + 1] # "FRIGHTENED" /\ run[h + 1] # "GHOST"
  <2>1. Eaten(h + 1) = Eaten(h)
    BY <1>5
  <2> QED BY <1>1, <1>2, <1>5, <2>1
<1> QED BY <1>3, <1>4, <1>5

\* Handling an event adds what it is worth, with the counter for the history.
LEMMA HandleIsWorth ==
  ASSUME NEW run \in Seq(Events), NEW h \in Nat, h < Len(run), NEW t \in Int
  PROVE  LET after == Handle([total |-> t, chain |-> Chained(run, h)], run[h + 1])
         IN  /\ after.total = t + WorthOf(run, h + 1)
             /\ after.chain = Chained(run, h + 1)
<1> DEFINE n == EatenBefore(run, h + 1)
           c == Chained(run, h)
           after == Handle([total |-> t, chain |-> c], run[h + 1])
<1>1. n \in Nat /\ c = IF n < ChainLength THEN n ELSE ChainLength
  BY EatenByEvent DEF Chained
<1>2. /\ ChainLength \in Nat \ {0} /\ PelletPoints \in Nat /\ PowerPelletPoints \in Nat
  BY ScoreAssumption
<1>3. run[h + 1] \in Events
  BY LenProperties
<1>4. Chained(run, h + 1) =
        IF EatenBefore(run, h + 2) < ChainLength THEN EatenBefore(run, h + 2) ELSE ChainLength
  <2>1. h + 1 + 1 = h + 2
    OBVIOUS
  <2> QED BY <2>1 DEF Chained
<1>5. CASE run[h + 1] = "PELLET"
  <2>1. after.total = t + PelletPoints /\ after.chain = c
    BY <1>5 DEF Handle
  <2>2. WorthOf(run, h + 1) = PelletPoints
    BY <1>5 DEF WorthOf
  <2>3. EatenBefore(run, h + 2) = n
    BY <1>5, EatenByEvent
  <2> QED BY <1>1, <1>4, <2>1, <2>2, <2>3
<1>6. CASE run[h + 1] = "POWER"
  <2>1. after.total = t + PowerPelletPoints /\ after.chain = c
    BY <1>6 DEF Handle
  <2>2. WorthOf(run, h + 1) = PowerPelletPoints
    BY <1>6 DEF WorthOf
  <2>3. EatenBefore(run, h + 2) = n
    BY <1>6, EatenByEvent
  <2> QED BY <1>1, <1>4, <2>1, <2>2, <2>3
<1>7. CASE run[h + 1] = "GHOST"
  <2>1. /\ after.total = t + GhostPoints(c)
        /\ after.chain = c + (IF c < ChainLength THEN 1 ELSE 0)
    BY <1>7 DEF Handle
  <2>2. WorthOf(run, h + 1) = GhostPoints(n)
    BY <1>7 DEF WorthOf
  <2>3. (IF c < ChainLength THEN c ELSE ChainLength - 1) = (IF n < ChainLength THEN n ELSE ChainLength - 1)
    BY <1>1, <1>2
  <2>4. GhostPoints(c) = GhostPoints(n)
    BY <2>3 DEF GhostPoints
  <2>5. EatenBefore(run, h + 2) = n + 1
    BY <1>7, EatenByEvent
  <2>6. after.chain = Chained(run, h + 1)
    BY <1>1, <1>2, <1>4, <2>1, <2>5
  <2> QED BY <2>1, <2>2, <2>4, <2>6
<1>8. CASE run[h + 1] = "FRIGHTENED"
  <2>1. after.total = t /\ after.chain = 0
    BY <1>8 DEF Handle
  <2>2. WorthOf(run, h + 1) = 0
    BY <1>8 DEF WorthOf
  <2>3. EatenBefore(run, h + 2) = 0
    BY <1>8, EatenByEvent
  <2> QED BY <1>2, <1>4, <2>1, <2>2, <2>3
<1> QED BY <1>3, <1>5, <1>6, <1>7, <1>8 DEF Events

-----------------------------------------------------------------------------
(* The invariant of the running scores *)

\* One game: what waits is the end of its run, and its Score has what came
\* before that.
Scored(run, box, bus, w, t, c) ==
  /\ Waits(run, box, bus) /\ Len(bus) + Len(box) <= MaxPerTick
  /\ Sums(run, w)
  /\ t = w[Len(run) - Len(bus) - Len(box)]
  /\ c = Chained(run, Len(run) - Len(bus) - Len(box))

GameIsScored(g) == Scored(published[g], inbox[g], queue[g], worth[g], total[g], chain[g])

\* One loop at a time, of one game.
OneLoop ==
  \/ Away
  \/ \E g \in Games : delivering = {g} /\ handling = {}
  \/ \E g \in Games : delivering = {} /\ handling = {g} /\ queue[g] = <<>>

PerGame(f) == f = [g \in Games |-> f[g]]

ScoreInv ==
  /\ subscribed = [g \in Games |-> <<g>>]
  /\ PerGame(queue) /\ PerGame(inbox) /\ PerGame(published)
  /\ PerGame(worth) /\ PerGame(total) /\ PerGame(chain)
  /\ OneLoop
  /\ \A g \in Games : inbox[g] # <<>> => g \in delivering \cup handling
  /\ \A g \in Games : GameIsScored(g)

\* A run in which nothing happened yet.
LEMMA FreshIsScored == Scored(<<>>, <<>>, <<>>, [n \in {0} |-> 0], 0, 0)
<1>1. Waits(<<>>, <<>>, <<>>)
  BY DEF Waits
<1>2. Sums(<<>>, [n \in {0} |-> 0])
  BY DEF Sums
<1>3. Chained(<<>>, 0) = 0
  <2>1. {j \in 1 .. 0 : /\ <<>>[j] = "GHOST"
                        /\ \A k \in j .. 0 : <<>>[k] # "FRIGHTENED"} = {}
    OBVIOUS
  <2>2. EatenBefore(<<>>, 0 + 1) = 0
    BY <2>1, FS_EmptySet DEF EatenBefore
  <2> QED BY <2>2, ScoreAssumption DEF Chained
<1> QED BY <1>1, <1>2, <1>3, ScoreAssumption DEF Scored

LEMMA ScoreInit == Init => ScoreInv
<1> SUFFICES ASSUME Init PROVE ScoreInv
  OBVIOUS
<1>1. ASSUME NEW g \in Games PROVE GameIsScored(g)
  BY FreshIsScored DEF Init, GameIsScored
<1>2. PerGame(queue) /\ PerGame(inbox) /\ PerGame(published)
      /\ PerGame(worth) /\ PerGame(total) /\ PerGame(chain)
  BY DEF Init, PerGame
<1> QED BY <1>1, <1>2 DEF Init, ScoreInv, OneLoop, Away

\* A run starts over with a bus and a score of its own.
LEMMA ScoreStartRun ==
  ASSUME ScoreInv, NEW g \in Games, StartRun(g)
  PROVE  ScoreInv'
<1>1. /\ queue' = [queue EXCEPT ![g] = <<>>] /\ inbox' = [inbox EXCEPT ![g] = <<>>]
      /\ published' = [published EXCEPT ![g] = <<>>]
      /\ worth' = [worth EXCEPT ![g] = [n \in {0} |-> 0]]
      /\ total' = [total EXCEPT ![g] = 0] /\ chain' = [chain EXCEPT ![g] = 0]
      /\ subscribed' = [subscribed EXCEPT ![g] = <<g>>]
      /\ Away /\ delivering' = delivering /\ handling' = handling
  BY DEF StartRun, InitBus, loops
<1>2. ASSUME NEW h \in Games PROVE GameIsScored(h)'
  <2>1. CASE h = g
    BY <1>1, <2>1, FreshIsScored DEF ScoreInv, PerGame, GameIsScored
  <2>2. CASE h # g
    BY <1>1, <2>2 DEF ScoreInv, PerGame, GameIsScored
  <2> QED BY <2>1, <2>2
<1>3. (PerGame(queue) /\ PerGame(inbox) /\ PerGame(published)
       /\ PerGame(worth) /\ PerGame(total) /\ PerGame(chain))'
  BY <1>1 DEF ScoreInv, PerGame
<1>4. subscribed' = [h \in Games |-> <<h>>]
  BY <1>1 DEF ScoreInv
<1>5. \A h \in Games : inbox'[h] # <<>> => h \in (delivering \cup handling)'
  BY <1>1 DEF ScoreInv, PerGame
<1>6. OneLoop'
  BY <1>1 DEF OneLoop, Away
<1> QED BY <1>2, <1>3, <1>4, <1>5, <1>6 DEF ScoreInv

\* What happens counts from the delivery on, and what was before stays.
LEMMA ScorePublish ==
  ASSUME ScoreInv, NEW g \in Games, NEW e \in Events, Publish(g, e)
  PROVE  ScoreInv'
<1> DEFINE run == Append(published[g], e)
<1>1. /\ queue' = [queue EXCEPT ![g] = Append(queue[g], e)]
      /\ published' = [published EXCEPT ![g] = run]
      /\ worth' = [worth EXCEPT ![g] = Summed(worth[g], published'[g])]
      /\ inbox' = inbox /\ total' = total /\ chain' = chain /\ subscribed' = subscribed
      /\ Away /\ delivering' = delivering /\ handling' = handling
      /\ Len(queue[g]) < MaxPerTick
  BY DEF Publish, loops, totals
<1>2. /\ published'[g] = run /\ queue'[g] = Append(queue[g], e)
      /\ worth'[g] = Summed(worth[g], run)
  BY <1>1 DEF ScoreInv, PerGame
<1>3. inbox[g] = <<>>
  BY <1>1 DEF ScoreInv, Away
<1>4. GameIsScored(g)'
  <2>1. Scored(published[g], <<>>, queue[g], worth[g], total[g], chain[g])
    BY <1>3 DEF ScoreInv, GameIsScored
  <2>2. Waits(published[g], <<>>, queue[g]) /\ Sums(published[g], worth[g])
    BY <2>1 DEF Scored
  <2>3. published[g] \in Seq(Events) /\ queue[g] \in Seq(Events)
        /\ Len(queue[g]) <= Len(published[g])
    BY <2>2 DEF Waits
  <2>4. /\ Len(published[g]) \in Nat /\ Len(queue[g]) \in Nat
        /\ Len(run) = Len(published[g]) + 1 /\ Len(Append(queue[g], e)) = Len(queue[g]) + 1
    BY <2>3
  <2> DEFINE h == Len(published[g]) - Len(queue[g])
  <2>5. h \in 0 .. Len(published[g]) /\ Len(run) - Len(Append(queue[g], e)) - 0 = h
    <3>1. \A a, b \in Nat : b <= a => a - b \in 0 .. a /\ (a + 1) - (b + 1) - 0 = a - b
      OBVIOUS
    <3> HIDE DEF run
    <3> QED BY <2>3, <2>4, <3>1
  <2>6. Waits(run, <<>>, Append(queue[g], e))
    BY <2>2, EventWaits
  <2>7. Sums(run, Summed(worth[g], run)) /\ Summed(worth[g], run)[h] = worth[g][h]
    BY <2>2, <2>3, <2>5, SumsGrow
  <2>8. Chained(run, h) = Chained(published[g], h)
    <3>1. h + 1 \in 1 .. Len(published[g]) + 1
      <4> HIDE DEF h
      <4> QED BY <2>4, <2>5
    <3>2. EatenBefore(run, h + 1) = EatenBefore(published[g], h + 1)
      BY <2>3, <3>1, EatenIsPast
    <3> QED BY <3>2 DEF Chained
  <2>9. total[g] = worth[g][h] /\ chain[g] = Chained(published[g], h)
    <3>1. Len(<<>>) = 0 /\ Len(published[g]) - Len(queue[g]) - 0 = h
      BY <2>4
    <3> QED BY <2>1, <3>1 DEF Scored
  <2>10. Len(Append(queue[g], e)) + Len(<<>>) <= MaxPerTick
    BY <1>1, <2>4, ScoreAssumption
  <2>11. Len(run) - Len(Append(queue[g], e)) - Len(<<>>) = h
    <3>1. Len(<<>>) = 0
      OBVIOUS
    <3> HIDE DEF run
    <3> QED BY <2>5, <3>1
  <2> HIDE DEF h, run
  <2>12. Scored(run, <<>>, Append(queue[g], e), Summed(worth[g], run), total[g], chain[g])
    BY <2>6, <2>7, <2>8, <2>9, <2>10, <2>11 DEF Scored
  <2> QED BY <1>1, <1>2, <1>3, <2>12 DEF GameIsScored
<1>5. ASSUME NEW h \in Games PROVE GameIsScored(h)'
  <2>1. CASE h # g
    BY <1>1, <2>1 DEF ScoreInv, PerGame, GameIsScored
  <2> QED BY <1>4, <2>1
<1>6. (PerGame(queue) /\ PerGame(inbox) /\ PerGame(published)
       /\ PerGame(worth) /\ PerGame(total) /\ PerGame(chain))'
  BY <1>1 DEF ScoreInv, PerGame
<1>7. OneLoop'
  BY <1>1 DEF OneLoop, Away
<1> QED BY <1>1, <1>5, <1>6, <1>7 DEF ScoreInv

LEMMA ScoreDeliver ==
  ASSUME ScoreInv, NEW g \in Games, DeliverEvents(g)
  PROVE  ScoreInv'
<1>1. /\ queue' = queue /\ inbox' = inbox /\ published' = published /\ worth' = worth
      /\ total' = total /\ chain' = chain /\ subscribed' = subscribed
      /\ Away /\ delivering' = {g} /\ handling' = handling
  BY DEF DeliverEvents, busVars, totals, history
<1>2. \A h \in Games : GameIsScored(h)'
  BY <1>1 DEF ScoreInv, GameIsScored
<1>3. OneLoop'
  BY <1>1 DEF OneLoop, Away
<1>4. \A h \in Games : inbox[h] = <<>>
  BY <1>1 DEF ScoreInv, Away
<1>5. (PerGame(queue) /\ PerGame(inbox) /\ PerGame(published)
       /\ PerGame(worth) /\ PerGame(total) /\ PerGame(chain))'
  BY <1>1 DEF ScoreInv, PerGame
<1> QED BY <1>1, <1>2, <1>3, <1>4, <1>5 DEF ScoreInv

\* The broker's event goes to the one inbox that subscribed, which has room:
\* what waits in the two is together no more than the inbox can hold.
LEMMA OneCopy ==
  ASSUME ScoreInv, NEW g \in Games, CopyToSubscribers(g), NEW s \in Games
  PROVE  inbox'[s] = IF s = g THEN Append(inbox[s], Head(queue[g])) ELSE inbox[s]
<1>1. Scored(published[s], inbox[s], queue[s], worth[s], total[s], chain[s])
  BY DEF ScoreInv, GameIsScored
<1>2. /\ inbox[s] \in Seq(Events) /\ queue[s] \in Seq(Events)
      /\ Len(queue[s]) + Len(inbox[s]) <= MaxPerTick
  BY <1>1 DEF Scored, Waits
<1>3. queue[g] \in Seq(Events) /\ queue[g] # <<>>
  BY DEF ScoreInv, GameIsScored, Scored, Waits, CopyToSubscribers
<1>4. Head(queue[g]) \in Events
  BY <1>3, HeadTailProperties
<1>5. subscribed[g] = <<g>> /\ DOMAIN <<g>> = {1} /\ <<g>>[1] = g
  BY DEF ScoreInv
<1> DEFINE room == InboxCapacity - Len(inbox[s])
           slots == {i \in DOMAIN subscribed[g] : subscribed[g][i] = s}
           due == Cardinality(slots)
           copies == [i \in 1 .. Copies(g, s) |-> Head(queue[g])]
<1>6. Copies(g, s) = IF due < room THEN due ELSE room
  BY DEF Copies
<1>7. inbox'[s] = inbox[s] \o copies
  BY DEF CopyToSubscribers
<1>8. Len(inbox[s]) \in Nat /\ Len(queue[s]) \in Nat /\ MaxPerTick <= InboxCapacity
      /\ MaxPerTick \in Nat /\ InboxCapacity \in Nat
  BY <1>2, LenProperties, ScoreAssumption
<1>9. \A a, b, m, n \in Nat : a + b <= m /\ m <= n =>
        n - b \in Nat /\ (a # 0 => n - b >= 1)
  OBVIOUS
<1>10. CASE s = g
  <2>1. Len(queue[s]) # 0
    BY <1>3, <1>10, EmptySeq
  <2>2. slots = {1}
    BY <1>5, <1>10
  <2>3. due = 1
    BY <2>2, FS_Singleton
  <2>4. room \in Nat /\ room >= 1
    BY <1>2, <1>8, <1>9, <2>1
  <2> HIDE DEF room, due
  <2>5. Copies(g, s) = 1
    BY <1>6, <2>3, <2>4
  <2>6. copies = <<Head(queue[g])>>
    BY <2>5
  <2>7. Append(inbox[s], Head(queue[g])) = inbox[s] \o <<Head(queue[g])>>
    BY <1>2, <1>4, AppendIsConcat
  <2> QED BY <1>7, <1>10, <2>6, <2>7
<1>11. CASE s # g
  <2>1. slots = {}
    BY <1>5, <1>11
  <2>2. due = 0
    BY <2>1, FS_EmptySet
  <2>3. room \in Nat
    BY <1>2, <1>8, <1>9
  <2> HIDE DEF room, due
  <2>4. Copies(g, s) = 0
    BY <1>6, <2>2, <2>3
  <2>5. copies = <<>>
    BY <2>4
  <2>6. inbox[s] \o <<>> = inbox[s]
    BY <1>2, ConcatEmptySeq
  <2> QED BY <1>7, <1>11, <2>5, <2>6
<1> QED BY <1>10, <1>11

LEMMA ScoreCopy ==
  ASSUME ScoreInv, NEW g \in Games, CopyToSubscribers(g)
  PROVE  ScoreInv'
<1>1. /\ queue' = [queue EXCEPT ![g] = Tail(queue[g])] /\ queue[g] # <<>>
      /\ published' = published /\ worth' = worth
      /\ total' = total /\ chain' = chain /\ subscribed' = subscribed
      /\ g \in delivering /\ delivering' = delivering /\ handling' = handling
      /\ PerGame(inbox)'
  BY DEF CopyToSubscribers, loops, totals, history, PerGame
<1>2. inbox'[g] = Append(inbox[g], Head(queue[g])) /\ queue'[g] = Tail(queue[g])
  BY <1>1, OneCopy DEF ScoreInv, PerGame
<1>3. GameIsScored(g)'
  <2>1. Scored(published[g], inbox[g], queue[g], worth[g], total[g], chain[g])
    BY DEF ScoreInv, GameIsScored
  <2>2. /\ Waits(published[g], inbox[g], queue[g])
        /\ Len(queue[g]) + Len(inbox[g]) <= MaxPerTick
    BY <2>1 DEF Scored
  <2>3. /\ Waits(published[g], inbox'[g], queue'[g])
        /\ Len(inbox'[g]) = Len(inbox[g]) + 1 /\ Len(queue'[g]) = Len(queue[g]) - 1
    <3>1. LET box == Append(inbox[g], Head(queue[g])) IN
          /\ Waits(published[g], box, Tail(queue[g]))
          /\ Len(box) = Len(inbox[g]) + 1 /\ Len(Tail(queue[g])) = Len(queue[g]) - 1
      BY <1>1, <2>2, EventMoves
    <3> QED BY <1>2, <3>1, Zenon
  <2>4. /\ Len(published[g]) \in Nat /\ Len(inbox[g]) \in Nat /\ Len(queue[g]) \in Nat
    BY <2>2, LenProperties DEF Waits
  <2>5. /\ Len(queue'[g]) + Len(inbox'[g]) = Len(queue[g]) + Len(inbox[g])
        /\ Len(published[g]) - Len(queue'[g]) - Len(inbox'[g])
             = Len(published[g]) - Len(queue[g]) - Len(inbox[g])
    <3> DEFINE p == Len(published[g])
               q == Len(queue[g])
               n == Len(inbox[g])
    <3>1. Len(queue'[g]) = q - 1 /\ Len(inbox'[g]) = n + 1
      BY <2>3, Zenon
    <3>2. (q - 1) + (n + 1) = q + n /\ p - (q - 1) - (n + 1) = p - q - n
      <4>1. p \in Nat /\ q \in Nat /\ n \in Nat
        BY <2>4, Zenon
      <4> HIDE DEF p, q, n
      <4> QED BY <4>1
    <3> QED BY <3>1, <3>2, Zenon
  <2>6. Scored(published[g], inbox'[g], queue'[g], worth[g], total[g], chain[g])
    BY <2>1, <2>2, <2>3, <2>5 DEF Scored
  <2> QED BY <1>1, <2>6 DEF GameIsScored
<1>4. ASSUME NEW h \in Games, h # g
      PROVE  inbox'[h] = inbox[h] /\ queue'[h] = queue[h]
  BY <1>1, <1>4, OneCopy DEF ScoreInv, PerGame
<1>5. ASSUME NEW h \in Games PROVE GameIsScored(h)'
  <2>1. CASE h # g
    BY <1>1, <1>4, <2>1 DEF ScoreInv, GameIsScored
  <2> QED BY <1>3, <2>1
<1>6. \A h \in Games : inbox'[h] # <<>> => h \in (delivering \cup handling)'
  BY <1>1, <1>4 DEF ScoreInv
<1>7. (PerGame(queue) /\ PerGame(inbox) /\ PerGame(published)
       /\ PerGame(worth) /\ PerGame(total) /\ PerGame(chain))'
  BY <1>1 DEF ScoreInv, PerGame
<1>8. OneLoop'
  BY <1>1 DEF ScoreInv, OneLoop, Away
<1> QED BY <1>1, <1>5, <1>6, <1>7, <1>8 DEF ScoreInv

LEMMA ScoreDelivered ==
  ASSUME ScoreInv, NEW g \in Games, AllDelivered(g)
  PROVE  ScoreInv'
<1>1. /\ queue' = queue /\ inbox' = inbox /\ published' = published /\ worth' = worth
      /\ total' = total /\ chain' = chain /\ subscribed' = subscribed
      /\ g \in delivering /\ queue[g] = <<>> /\ delivering' = {} /\ handling' = {g}
  BY DEF AllDelivered, busVars, totals, history
<1>2. delivering = {g} /\ handling = {}
  BY <1>1 DEF ScoreInv, OneLoop, Away
<1>3. \A h \in Games : GameIsScored(h)'
  BY <1>1 DEF ScoreInv, GameIsScored
<1>4. OneLoop'
  BY <1>1 DEF OneLoop
<1>5. \A h \in Games : inbox'[h] # <<>> => h \in (delivering \cup handling)'
  BY <1>1, <1>2 DEF ScoreInv
<1>6. (PerGame(queue) /\ PerGame(inbox) /\ PerGame(published)
       /\ PerGame(worth) /\ PerGame(total) /\ PerGame(chain))'
  BY <1>1 DEF ScoreInv, PerGame
<1> QED BY <1>1, <1>3, <1>4, <1>5, <1>6 DEF ScoreInv

\* The first of the inbox is the event after the last that was handled.
LEMMA ScoreHandle ==
  ASSUME ScoreInv, NEW g \in Games, HandleOne(g)
  PROVE  ScoreInv'
<1> DEFINE run == published[g]
           h == Len(run) - Len(queue[g]) - Len(inbox[g])
           after == Handle([total |-> total[g], chain |-> chain[g]], Head(inbox[g]))
<1>1. /\ inbox' = [inbox EXCEPT ![g] = Tail(inbox[g])] /\ inbox[g] # <<>>
      /\ total' = [total EXCEPT ![g] = after.total]
      /\ chain' = [chain EXCEPT ![g] = after.chain]
      /\ queue' = queue /\ published' = published /\ worth' = worth /\ subscribed' = subscribed
      /\ g \in handling /\ delivering' = delivering /\ handling' = handling
  BY DEF HandleOne, loops, history
<1>2. inbox'[g] = Tail(inbox[g]) /\ total'[g] = after.total /\ chain'[g] = after.chain
  BY <1>1 DEF ScoreInv, PerGame
<1>3. Scored(run, inbox[g], queue[g], worth[g], total[g], chain[g])
  BY DEF ScoreInv, GameIsScored
<1>4. /\ Waits(run, inbox[g], queue[g]) /\ Len(queue[g]) + Len(inbox[g]) <= MaxPerTick
      /\ Sums(run, worth[g]) /\ total[g] = worth[g][h] /\ chain[g] = Chained(run, h)
  BY <1>3 DEF Scored
<1>5. /\ Waits(run, Tail(inbox[g]), queue[g]) /\ Len(Tail(inbox[g])) = Len(inbox[g]) - 1
      /\ Head(inbox[g]) = run[h + 1] /\ Len(inbox[g]) \in Nat \ {0}
  BY <1>1, <1>4, EventTaken
<1>6. /\ run \in Seq(Events) /\ Len(run) \in Nat /\ Len(queue[g]) \in Nat
      /\ Len(inbox[g]) + Len(queue[g]) <= Len(run)
  BY <1>4, LenProperties DEF Waits
<1>7. /\ h \in Nat /\ h < Len(run) /\ h + 1 - 1 = h
      /\ Len(run) - Len(queue[g]) - Len(Tail(inbox[g])) = h + 1
      /\ Len(queue[g]) + Len(Tail(inbox[g])) <= MaxPerTick
  <2> DEFINE p == Len(run)
             q == Len(queue[g])
             n == Len(inbox[g])
             m == Len(Tail(inbox[g]))
  <2>1. /\ p \in Nat /\ q \in Nat /\ n \in Nat \ {0} /\ m = n - 1
        /\ n + q <= p /\ q + n <= MaxPerTick
    BY <1>4, <1>5, <1>6, Zenon
  <2>2. MaxPerTick \in Nat
    BY ScoreAssumption
  <2> HIDE DEF p, q, n, m
  <2>3. /\ p - q - n \in Nat /\ p - q - n < p /\ p - q - n + 1 - 1 = p - q - n
        /\ p - q - m = p - q - n + 1 /\ q + m <= MaxPerTick
    BY <2>1, <2>2
  <2> QED BY <2>3, Zenon DEF p, q, n, m
<1>8. total[g] \in Int /\ worth[g][h + 1] = worth[g][h] + WorthOf(run, h + 1)
  <2> HIDE DEF h, run
  <2>1. h \in 0 .. Len(run) /\ h + 1 \in 1 .. Len(run)
    BY <1>6, <1>7
  <2> QED BY <1>4, <1>7, <2>1 DEF Sums
<1>9. after.total = total[g] + WorthOf(run, h + 1) /\ after.chain = Chained(run, h + 1)
  <2> HIDE DEF h
  <2> QED BY <1>4, <1>5, <1>6, <1>7, <1>8, HandleIsWorth
<1>10. Scored(run, Tail(inbox[g]), queue[g], worth[g], after.total, after.chain)
  <2> HIDE DEF h, after, run
  <2> QED BY <1>4, <1>5, <1>7, <1>8, <1>9 DEF Scored
<1>11. GameIsScored(g)'
  <2> HIDE DEF after
  <2> QED BY <1>1, <1>2, <1>10 DEF GameIsScored
<1>12. ASSUME NEW k \in Games PROVE GameIsScored(k)'
  <2>1. CASE k # g
    BY <1>1, <2>1 DEF ScoreInv, PerGame, GameIsScored
  <2> QED BY <1>11, <2>1
<1>13. \A k \in Games : inbox'[k] # <<>> => k \in (delivering \cup handling)'
  BY <1>1 DEF ScoreInv, PerGame
<1>14. (PerGame(queue) /\ PerGame(inbox) /\ PerGame(published)
        /\ PerGame(worth) /\ PerGame(total) /\ PerGame(chain))'
  <2> HIDE DEF after
  <2> QED BY <1>1 DEF ScoreInv, PerGame
<1>15. OneLoop'
  BY <1>1 DEF ScoreInv, OneLoop, Away
<1> QED BY <1>1, <1>12, <1>13, <1>14, <1>15 DEF ScoreInv

LEMMA ScoreHandled ==
  ASSUME ScoreInv, NEW g \in Games, AllHandled(g)
  PROVE  ScoreInv'
<1>1. /\ queue' = queue /\ inbox' = inbox /\ published' = published /\ worth' = worth
      /\ total' = total /\ chain' = chain /\ subscribed' = subscribed
      /\ g \in handling /\ inbox[g] = <<>> /\ delivering' = delivering /\ handling' = {}
  BY DEF AllHandled, busVars, totals, history
<1>2. delivering = {} /\ handling = {g}
  BY <1>1 DEF ScoreInv, OneLoop, Away
<1>3. \A h \in Games : GameIsScored(h)'
  BY <1>1 DEF ScoreInv, GameIsScored
<1>4. OneLoop'
  BY <1>1, <1>2 DEF OneLoop, Away
<1>5. \A h \in Games : inbox'[h] = <<>>
  BY <1>1, <1>2 DEF ScoreInv
<1>6. (PerGame(queue) /\ PerGame(inbox) /\ PerGame(published)
       /\ PerGame(worth) /\ PerGame(total) /\ PerGame(chain))'
  BY <1>1 DEF ScoreInv, PerGame
<1> QED BY <1>1, <1>3, <1>4, <1>5, <1>6 DEF ScoreInv

\* A copy has the history and the score of its source and a bus of its own,
\* and nothing of the source was waiting.
LEMMA ScoreClone ==
  ASSUME ScoreInv, NEW g \in Games, NEW c \in Games, Clone(c, g)
  PROVE  ScoreInv'
<1>1. /\ queue' = [queue EXCEPT ![c] = <<>>] /\ inbox' = [inbox EXCEPT ![c] = <<>>]
      /\ published' = [published EXCEPT ![c] = published[g]]
      /\ worth' = [worth EXCEPT ![c] = worth[g]]
      /\ total' = [total EXCEPT ![c] = total[g]] /\ chain' = [chain EXCEPT ![c] = chain[g]]
      /\ subscribed' = [subscribed EXCEPT ![c] = <<c>>]
      /\ Away /\ delivering' = delivering /\ handling' = handling /\ queue[g] = <<>>
  BY DEF Clone, CopyGame, InitBus, loops
<1>2. inbox[g] = <<>>
  BY <1>1 DEF ScoreInv, Away
<1>3. ASSUME NEW h \in Games PROVE GameIsScored(h)'
  <2>1. CASE h = c
    <3>1. Scored(published[g], <<>>, <<>>, worth[g], total[g], chain[g])
      BY <1>1, <1>2 DEF ScoreInv, GameIsScored
    <3> QED BY <1>1, <2>1, <3>1 DEF ScoreInv, PerGame, GameIsScored
  <2>2. CASE h # c
    BY <1>1, <2>2 DEF ScoreInv, PerGame, GameIsScored
  <2> QED BY <2>1, <2>2
<1>4. (PerGame(queue) /\ PerGame(inbox) /\ PerGame(published)
       /\ PerGame(worth) /\ PerGame(total) /\ PerGame(chain))'
  BY <1>1 DEF ScoreInv, PerGame
<1>5. subscribed' = [h \in Games |-> <<h>>]
  BY <1>1 DEF ScoreInv
<1>6. \A h \in Games : inbox'[h] # <<>> => h \in (delivering \cup handling)'
  BY <1>1 DEF ScoreInv, PerGame
<1>7. OneLoop'
  BY <1>1 DEF OneLoop, Away
<1> QED BY <1>3, <1>4, <1>5, <1>6, <1>7 DEF ScoreInv

LEMMA ScoreUntouched ==
  ASSUME ScoreInv, UNCHANGED vars
  PROVE  ScoreInv'
<1>1. /\ queue' = queue /\ inbox' = inbox /\ published' = published /\ worth' = worth
      /\ total' = total /\ chain' = chain /\ subscribed' = subscribed
      /\ delivering' = delivering /\ handling' = handling
  BY DEF vars, busVars, loops, totals, history
<1> QED BY <1>1 DEF ScoreInv, GameIsScored, PerGame, OneLoop, Away

LEMMA ScoreInvariance == Spec => []ScoreInv
<1>1. Init => ScoreInv
  BY ScoreInit
<1>2. ScoreInv /\ [Next]_vars => ScoreInv'
  <2> SUFFICES ASSUME ScoreInv, [Next]_vars PROVE ScoreInv'
    OBVIOUS
  <2>1. CASE UNCHANGED vars
    BY <2>1, ScoreUntouched
  <2>2. ASSUME NEW g \in Games, StartRun(g) PROVE ScoreInv'
    BY <2>2, ScoreStartRun
  <2>3. ASSUME NEW g \in Games, NEW e \in Events, Publish(g, e) PROVE ScoreInv'
    BY <2>3, ScorePublish
  <2>4. ASSUME NEW g \in Games, DeliverEvents(g) PROVE ScoreInv'
    BY <2>4, ScoreDeliver
  <2>5. ASSUME NEW g \in Games, CopyToSubscribers(g) PROVE ScoreInv'
    BY <2>5, ScoreCopy
  <2>6. ASSUME NEW g \in Games, AllDelivered(g) PROVE ScoreInv'
    BY <2>6, ScoreDelivered
  <2>7. ASSUME NEW g \in Games, HandleOne(g) PROVE ScoreInv'
    BY <2>7, ScoreHandle
  <2>8. ASSUME NEW g \in Games, AllHandled(g) PROVE ScoreInv'
    BY <2>8, ScoreHandled
  <2>9. ASSUME NEW g \in Games, NEW c \in Games, Clone(c, g) PROVE ScoreInv'
    BY <2>9, ScoreClone
  <2> QED BY <2>1, <2>2, <2>3, <2>4, <2>5, <2>6, <2>7, <2>8, <2>9 DEF Next
<1> QED BY <1>1, <1>2, PTL DEF Spec

\* Whatever games run, are copied, simulated and started over, the total of
\* each is what its own events are worth: nothing is scored twice, lost, out of
\* order or in another game (score.c, game_clone).
THEOREM TotalAlwaysWorth == Spec => []TotalIsWorth
<1>1. ScoreInv => TotalIsWorth
  <2> SUFFICES ASSUME ScoreInv, Away, NEW g \in Games
               PROVE  /\ total[g] = worth[g][Len(published[g]) - Len(queue[g])]
                      /\ inbox[g] = <<>>
    BY DEF TotalIsWorth
  <2>1. inbox[g] = <<>>
    BY DEF ScoreInv, Away
  <2>2. Scored(published[g], <<>>, queue[g], worth[g], total[g], chain[g])
    BY <2>1 DEF ScoreInv, GameIsScored
  <2>3. Len(published[g]) \in Nat /\ Len(queue[g]) \in Nat
    BY <2>2, LenProperties DEF Scored, Waits
  <2>4. Len(published[g]) - Len(queue[g]) - Len(<<>>) = Len(published[g]) - Len(queue[g])
    BY <2>3
  <2>5. total[g] = worth[g][Len(published[g]) - Len(queue[g])]
    BY <2>2, <2>4 DEF Scored
  <2> QED BY <2>1, <2>5
<1> QED BY <1>1, ScoreInvariance, PTL

-----------------------------------------------------------------------------
(* Tables *)

\* Tables of places, whatever is in them.
IsTable(table) == table = [p \in 1 .. Places |-> table[p]]

Tabular(f) ==
  /\ f = [t \in Tables |-> f[t]]
  /\ \A t \in Tables : IsTable(f[t])

\* Nothing stands in f that was not heard of.
HeardOf(f, heard) ==
  \A t \in Tables, p \in 1 .. Places : f[t][p] # 0 => f[t][p] \in heard[t]

\* The first of some places is one of them, and none is before it.
LEMMA FirstPlace ==
  ASSUME NEW S \in SUBSET (1 .. Places), S # {}
  PROVE  First(S) \in S /\ \A q \in S : First(S) <= q
<1>1. S \subseteq Nat /\ Places \in Nat
  BY HighScoreAssumption
<1>2. PICK p \in S : \A q \in S : ~(<<q, p>> \in OpToRel(<, Nat))
  BY <1>1, NatLessThanWellFounded, WFMin
<1>3. \A q \in S : <<q, p>> \in Nat \X Nat /\ ~(q < p)
  <2>1. OpToRel(<, Nat) = {ss \in Nat \X Nat : ss[1] < ss[2]}
    BY DEF OpToRel
  <2> QED BY <1>1, <1>2, <2>1
<1>4. ASSUME NEW q \in S PROVE p <= q
  <2>1. p \in Nat /\ q \in Nat
    BY <1>1
  <2>2. ~(q < p)
    BY <1>3
  <2> QED BY <2>1, <2>2
<1> QED BY <1>4 DEF First

LEMMA EmptyIsTabular == Tabular(Empty) /\ \A heard : HeardOf(Empty, heard)
  BY DEF Tabular, IsTable, Empty, HeardOf

LEMMA InsertKeepsTable ==
  ASSUME NEW table, NEW s, IsTable(table), Qualifies(table, s)
  PROVE  /\ IsTable(Insert(table, s))
         /\ \A p \in 1 .. Places :
              \/ Insert(table, s)[p] = s
              \/ \E q \in 1 .. Places : Insert(table, s)[p] = table[q]
<1> DEFINE place == First(Place(table, s))
<1>1. place \in 1 .. Places
  BY FirstPlace DEF Qualifies, Place
<1>2. Insert(table, s) = [p \in 1 .. Places |-> IF p < place THEN table[p]
                             ELSE IF p = place THEN s ELSE table[p - 1]]
  BY DEF Insert
<1> HIDE DEF place
<1>3. \A p \in 1 .. Places : p < place \/ p = place \/ p - 1 \in 1 .. Places
  BY <1>1, HighScoreAssumption
<1> QED BY <1>2, <1>3 DEF IsTable

-----------------------------------------------------------------------------
(* The invariant of the scores *)

\* What is in the flash driver: a store has the table in RAM staged and is not
\* yet through the block; a reset has cleared RAM before.
DriverAgrees ==
  /\ pc \in {"off", "ready", "erase", "program"}
  /\ pc = "erase" => doing \in {"store", "reset"}
  /\ pc = "erase" /\ doing = "store" => staging = scores
  /\ pc = "erase" /\ doing = "reset" => scores = Empty
  /\ pc = "program" =>
       /\ doing = "store" /\ staging = scores
       /\ page.parts \in 0 .. QuadWords - 1

\* The page is read through its fields only.
PageIsPage ==
  /\ page = [record |-> page.record, parts |-> page.parts]
  /\ page.parts \in -1 .. QuadWords

OnlyHeard ==
  /\ known = [t \in Tables |-> known[t]]
  /\ Tabular(scores) /\ Tabular(page.record)
  /\ HeardOf(page.record, known)
  /\ pc # "off" => HeardOf(scores, known)

ScoresInv == DriverAgrees /\ PageIsPage /\ OnlyHeard /\ RamIsStored

LEMMA ScoresStart == ASSUME ScoresInit PROVE ScoresInv
<1>1. /\ scores = Empty /\ pc = "off" /\ known = [t \in Tables |-> {}]
      /\ page.record = Empty /\ page.parts \in {-1, 0}
      /\ page = [record |-> page.record, parts |-> page.parts]
  BY DEF ScoresInit
<1>2. page.parts \in -1 .. QuadWords
  BY <1>1, HighScoreAssumption
<1> QED BY <1>1, <1>2, EmptyIsTabular
        DEF ScoresInv, DriverAgrees, PageIsPage, OnlyHeard, RamIsStored

\* What a page comes to is what is on it or nothing.
LEMMA LoadedPage ==
  ASSUME ScoresInv
  PROVE  Tabular(Load(page)) /\ HeardOf(Load(page), known)
  BY EmptyIsTabular DEF ScoresInv, OnlyHeard, Load

LEMMA BootKeeps == ASSUME ScoresInv, HighScoreInit PROVE ScoresInv'
<1>1. /\ pc' = "ready" /\ scores' = Load(page)
      /\ UNCHANGED <<page, doing, staging, known>>
  BY DEF HighScoreInit
<1>2. OnlyHeard'
  BY <1>1, LoadedPage DEF ScoresInv, OnlyHeard
<1> QED BY <1>1, <1>2 DEF ScoresInv, DriverAgrees, PageIsPage, RamIsStored, Load

\* A reset clears RAM and goes to the driver, or fails before it.
LEMMA ResetKeeps ==
  ASSUME ScoresInv, pc = "ready", Forget, Begin("reset", staging), UNCHANGED known
  PROVE  ScoresInv'
<1>1. /\ scores' = Empty /\ UNCHANGED <<page, known>> /\ doing' = "reset"
      /\ pc' = "erase" \/ (pc' = "ready" /\ is_ok' = FALSE)
  BY DEF Forget, Begin
<1>2. OnlyHeard'
  BY <1>1, EmptyIsTabular DEF ScoresInv, OnlyHeard
<1> QED BY <1>1, <1>2 DEF ScoresInv, DriverAgrees, PageIsPage, RamIsStored

\* A score that is offered is heard of before it gets a place.
LEMMA OfferKeeps ==
  ASSUME ScoresInv, NEW t, NEW s, Offer(t, s)
  PROVE  ScoresInv'
<1>1. /\ pc = "ready" /\ known' = [known EXCEPT ![t] = @ \cup ({s} \ {0})]
  BY DEF Offer, Hears
<1>2. /\ known' = [u \in Tables |-> known'[u]]
      /\ \A u \in Tables : known[u] \subseteq known'[u] /\ (u = t /\ s # 0 => s \in known'[u])
  BY <1>1 DEF ScoresInv, OnlyHeard
<1>3. \A f : HeardOf(f, known) => HeardOf(f, known')
  BY <1>2 DEF HeardOf
<1>4. CASE ~Qualifies(scores[t], s)
  <2>1. UNCHANGED <<scores, page, pc, doing, staging, is_ok>>
    BY <1>4 DEF Offer, flash
  <2>2. OnlyHeard'
    BY <1>2, <1>3, <2>1 DEF ScoresInv, OnlyHeard
  <2> QED BY <1>1, <2>1, <2>2 DEF ScoresInv, DriverAgrees, PageIsPage, RamIsStored
<1>5. CASE Qualifies(scores[t], s)
  <2>1. /\ scores' = [scores EXCEPT ![t] = Insert(scores[t], s)]
        /\ UNCHANGED page /\ doing' = "store"
        /\ (pc' = "erase" /\ staging' = scores') \/ (pc' = "ready" /\ is_ok' = FALSE)
    BY <1>5 DEF Offer, Begin
  <2>2. scores' = [u \in Tables |-> scores'[u]]
    BY <2>1 DEF ScoresInv, OnlyHeard, Tabular
  <2>3. ASSUME NEW u \in Tables
        PROVE  /\ IsTable(scores'[u])
               /\ \A p \in 1 .. Places : scores'[u][p] # 0 => scores'[u][p] \in known'[u]
    <3>1. /\ IsTable(scores[u])
          /\ \A p \in 1 .. Places : scores[u][p] # 0 => scores[u][p] \in known'[u]
      BY <1>1, <1>2 DEF ScoresInv, OnlyHeard, Tabular, HeardOf
    <3>2. CASE u = t
      <4>1. scores'[u] = Insert(scores[u], s)
        BY <2>1, <3>2 DEF ScoresInv, OnlyHeard, Tabular
      <4>2. /\ IsTable(Insert(scores[u], s))
            /\ \A p \in 1 .. Places :
                 \/ Insert(scores[u], s)[p] = s
                 \/ \E q \in 1 .. Places : Insert(scores[u], s)[p] = scores[u][q]
        <5>1. Qualifies(scores[u], s)
          BY <1>5, <3>2
        <5> QED BY <3>1, <5>1, InsertKeepsTable
      <4> QED BY <1>2, <3>1, <3>2, <4>1, <4>2
    <3>3. CASE u # t
      <4>1. scores'[u] = scores[u]
        BY <2>1, <3>3 DEF ScoresInv, OnlyHeard, Tabular
      <4> QED BY <3>1, <4>1
    <3> QED BY <3>2, <3>3
  <2>4. Tabular(scores') /\ HeardOf(scores', known')
    BY <2>2, <2>3 DEF Tabular, HeardOf
  <2>5. OnlyHeard'
    BY <1>2, <1>3, <2>1, <2>4 DEF ScoresInv, OnlyHeard
  <2> QED BY <2>1, <2>5 DEF ScoresInv, DriverAgrees, PageIsPage, RamIsStored
<1> QED BY <1>4, <1>5

-----------------------------------------------------------------------------
(* The driver *)

\* What is left of an operation that was cut short.
LEMMA InterruptedPage ==
  ASSUME PageIsPage, NEW p \in Interrupted
  PROVE  /\ p.record = page.record /\ p.parts \in -1 .. QuadWords
         /\ p = [record |-> p.record, parts |-> p.parts]
<1>1. CASE p = page
  BY <1>1 DEF PageIsPage
<1>2. CASE p = [page EXCEPT !.parts = -1]
  BY <1>2, HighScoreAssumption DEF PageIsPage
<1> QED BY <1>1, <1>2 DEF Interrupted

\* RAM stays as it is, the driver reports a failure or is gone.
LEMMA CutKeeps ==
  ASSUME ScoresInv, page' \in Interrupted, UNCHANGED <<scores, known>>, pc # "off",
         pc' = "off" \/ (pc' = "ready" /\ is_ok' = FALSE)
  PROVE  ScoresInv'
<1>1. PageIsPage' /\ page'.record = page.record
  BY InterruptedPage DEF ScoresInv, PageIsPage
<1>2. OnlyHeard'
  BY <1>1 DEF ScoresInv, OnlyHeard
<1> QED BY <1>1, <1>2 DEF ScoresInv, DriverAgrees, RamIsStored

LEMMA PowerCutKeeps == ASSUME ScoresInv, PowerCut PROVE ScoresInv'
  BY CutKeeps DEF PowerCut, Interrupted

LEMMA EraseKeeps == ASSUME ScoresInv, EraseEnds PROVE ScoresInv'
<1>1. /\ pc = "erase" /\ page'.record = Empty /\ page'.parts = 0
      /\ page' = [record |-> page'.record, parts |-> page'.parts]
      /\ UNCHANGED <<scores, doing, staging>>
  BY DEF EraseEnds
<1>2. PageIsPage'
  BY <1>1, HighScoreAssumption DEF PageIsPage
<1>3. Load(page') = Empty
  BY <1>1, HighScoreAssumption DEF Load
<1>4. CASE doing = "reset"
  <2>1. pc' = "ready" /\ known' = [t \in Tables |-> {}] /\ scores' = Empty
    BY <1>1, <1>4 DEF EraseEnds, ScoresInv, DriverAgrees
  <2>2. OnlyHeard'
    BY <1>1, <2>1, EmptyIsTabular DEF OnlyHeard
  <2> QED BY <1>2, <1>3, <2>1, <2>2 DEF ScoresInv, DriverAgrees, RamIsStored
<1>5. CASE doing # "reset"
  <2>1. pc' = "program" /\ UNCHANGED known /\ doing = "store" /\ staging = scores
    BY <1>1, <1>5 DEF EraseEnds, ScoresInv, DriverAgrees
  <2>2. OnlyHeard'
    BY <1>1, <2>1, EmptyIsTabular DEF ScoresInv, OnlyHeard
  <2>3. 0 \in 0 .. QuadWords - 1
    BY HighScoreAssumption
  <2> QED BY <1>1, <1>2, <2>1, <2>2, <2>3 DEF ScoresInv, DriverAgrees, RamIsStored
<1> QED BY <1>4, <1>5

\* Each quad-word brings the record in RAM closer to the page.
LEMMA ProgramKeeps == ASSUME ScoresInv, Program PROVE ScoresInv'
<1>1. /\ pc = "program" /\ page'.record = scores /\ page'.parts = page.parts + 1
      /\ page' = [record |-> page'.record, parts |-> page'.parts]
      /\ page.parts \in 0 .. QuadWords - 1
      /\ staging = scores /\ doing = "store"
      /\ UNCHANGED <<scores, doing, staging, known>>
  BY DEF Program, ScoresInv, DriverAgrees
<1>2. PageIsPage'
  BY <1>1, HighScoreAssumption DEF PageIsPage
<1>3. OnlyHeard'
  BY <1>1 DEF ScoresInv, OnlyHeard
<1>4. CASE page.parts + 1 = QuadWords
  <2>1. pc' = "ready" /\ Load(page') = scores
    BY <1>1, <1>4, HighScoreAssumption DEF Program, Load
  <2> QED BY <1>1, <1>2, <1>3, <2>1 DEF ScoresInv, DriverAgrees, RamIsStored
<1>5. CASE page.parts + 1 # QuadWords
  <2>1. pc' = "program" /\ page'.parts \in 0 .. QuadWords - 1
    BY <1>1, <1>5, HighScoreAssumption DEF Program
  <2> QED BY <1>1, <1>2, <1>3, <2>1 DEF ScoresInv, DriverAgrees, RamIsStored
<1> QED BY <1>4, <1>5

LEMMA FlashKeeps == ASSUME ScoresInv, Flash PROVE ScoresInv'
<1>1. CASE EraseFails
  BY <1>1, CutKeeps DEF EraseFails, Fails
<1>2. CASE ProgramFails
  BY <1>2, CutKeeps DEF ProgramFails, Fails, Interrupted
<1> QED BY <1>1, <1>2, EraseKeeps, ProgramKeeps DEF Flash

-----------------------------------------------------------------------------
(* The board *)

\* What looks like a request is the one that was made last and not dropped.
RequestAgrees == IsSpecValid(retained) => asked = retained.test_id

OttInv == ScoresInv /\ RequestAgrees

\* Nothing that a power cut leaves looks like a request.
LEMMA GarbageIsInvalid == ASSUME NEW spec \in Garbage PROVE ~IsSpecValid(spec)
<1>1. CASE spec = Invalid
  BY <1>1 DEF Invalid, IsSpecValid
<1>2. CASE \E id \in 1 .. TestCount : spec = [Requested(id) EXCEPT !.checksum = FALSE]
  BY <1>2 DEF Requested, IsSpecValid
<1>3. CASE spec = Requested(TestCount + 1)
  BY <1>3, OttAssumption DEF Requested, IsSpecValid
<1> QED BY <1>1, <1>2, <1>3 DEF Garbage

LEMMA OttStart == OttInit => OttInv
  BY ScoresStart, GarbageIsInvalid DEF OttInit, OttInv, RequestAgrees

\* Nothing is on its way in the driver of a board that starts anew.
LEMMA ResetBoardKeeps ==
  ASSUME ScoresInv, SystemReset
  PROVE  ScoresInv'
  BY DEF SystemReset, ScoresInv, DriverAgrees, PageIsPage, OnlyHeard, RamIsStored

LEMMA ScoresUntouched == ASSUME ScoresInv, UNCHANGED scoreVars PROVE ScoresInv'
  BY DEF scoreVars, flash, ScoresInv, DriverAgrees, PageIsPage, OnlyHeard, RamIsStored, Load

LEMMA TestKeeps == ASSUME ScoresInv, Test PROVE ScoresInv'
<1>1. CASE TestErases
  BY <1>1, ResetKeeps DEF TestErases, Testing
<1>2. CASE TestErased
  BY <1>2, BootKeeps DEF TestErased
<1>3. CASE TestOffers
  BY <1>3, OfferKeeps DEF TestOffers
<1>4. CASE TestRestores
  BY <1>4, ResetKeeps DEF TestRestores, Testing
<1>5. CASE TestGivesUp \/ TestEnds \/ OtherTestEnds
  BY <1>5, ScoresUntouched DEF TestGivesUp, TestEnds, OtherTestEnds
<1> QED BY <1>1, <1>2, <1>3, <1>4, <1>5 DEF Test

LEMMA ScoresStep == ASSUME ScoresInv, [OttNext]_allVars PROVE ScoresInv'
<1>1. CASE PowerOn
  BY <1>1, BootKeeps DEF PowerOn
<1>2. CASE ExecutePending
  BY <1>2, ScoresUntouched DEF ExecutePending
<1>3. CASE Test
  BY <1>3, TestKeeps
<1>4. CASE (\E id \in 1 .. TestCount : Schedule(id)) \/ ResetCommand
  BY <1>4, ResetBoardKeeps DEF Schedule, ResetCommand
<1>5. CASE HighScoreCommand
  BY <1>5, ResetKeeps DEF HighScoreCommand, Reset
<1>6. CASE \E t \in Tables, s \in 1 .. MaxScore : RunEnds(t, s)
  BY <1>6, OfferKeeps DEF RunEnds
<1>7. CASE FlashWorks
  BY <1>7, FlashKeeps DEF FlashWorks
<1>8. CASE PinReset \/ PowerFails
  BY <1>8, PowerCutKeeps DEF PinReset, PowerFails
<1>9. CASE UNCHANGED allVars
  BY <1>9, ScoresUntouched DEF allVars
<1> QED BY <1>1, <1>2, <1>3, <1>4, <1>5, <1>6, <1>7, <1>8, <1>9 DEF OttNext

\* The request changes with what was asked for, and only a boot that finds one
\* starts a test.
LEMMA RequestStep ==
  ASSUME RequestAgrees, [OttNext]_allVars
  PROVE  /\ RequestAgrees'
         /\ running' # 0 /\ running' # running => asked = running' /\ asked' = 0
<1>1. CASE ExecutePending
  <2>1. CASE IsSpecValid(retained)
    <3>1. running' = retained.test_id /\ asked' = 0 /\ retained' = Invalid
      BY <1>1, <2>1 DEF ExecutePending, RunPending
    <3>2. ~IsSpecValid(retained')
      BY <3>1 DEF Invalid, IsSpecValid
    <3> QED BY <2>1, <3>1, <3>2 DEF RequestAgrees
  <2>2. CASE ~IsSpecValid(retained)
    BY <1>1, <2>2 DEF ExecutePending, RequestAgrees
  <2> QED BY <2>1, <2>2
<1>2. ASSUME NEW id \in 1 .. TestCount, Schedule(id)
      PROVE  RequestAgrees' /\ running' = 0
  <2>1. running' = 0
    BY <1>2 DEF Schedule, SystemReset, TestGone
  <2>2. CASE retained' = Requested(id) /\ asked' = id
    BY <2>1, <2>2 DEF RequestAgrees, Requested
  <2>3. CASE retained' \in Garbage
    BY <2>1, <2>3, GarbageIsInvalid DEF RequestAgrees
  <2> QED BY <1>2, <2>2, <2>3 DEF Schedule
<1>3. CASE PowerFails
  BY <1>3, GarbageIsInvalid DEF PowerFails, TestGone, RequestAgrees
<1>4. ASSUME UNCHANGED <<retained, asked>>, running' = 0 \/ running' = running
      PROVE  /\ RequestAgrees'
             /\ running' # 0 /\ running' # running => asked = running' /\ asked' = 0
  BY <1>4 DEF RequestAgrees
<1>5. CASE ResetCommand \/ PinReset
  BY <1>4, <1>5 DEF ResetCommand, PinReset, SystemReset, TestGone
<1>6. CASE Test
  BY <1>4, <1>6 DEF Test, TestErases, TestGivesUp, TestErased, TestOffers, TestRestores,
     TestEnds, OtherTestEnds, KeepsRequest, GoIdle, TestGone
<1>7. CASE PowerOn \/ HighScoreCommand \/ FlashWorks
             \/ \E t \in Tables, s \in 1 .. MaxScore : RunEnds(t, s)
  BY <1>4, <1>7 DEF PowerOn, HighScoreCommand, FlashWorks, RunEnds, ottVars
<1>8. CASE UNCHANGED allVars
  BY <1>4, <1>8 DEF allVars, ottVars
<1> QED BY <1>1, <1>2, <1>3, <1>5, <1>6, <1>7, <1>8 DEF OttNext

LEMMA OttInductive == OttSpec => []OttInv
<1>1. OttInv /\ [OttNext]_allVars => OttInv'
  BY ScoresStep, RequestStep DEF OttInv
<1> QED BY <1>1, OttStart, PTL DEF OttSpec

\* ott.c: the request is dropped before the test runs, so a test runs once for
\* each time it was asked for, whatever it does to the board, and no RAM that
\* lost its power starts one.
THEOREM EveryTestRunsOnce == OttSpec => TestRunsOnce
<1>1. OttInv /\ [OttNext]_allVars =>
        [running' # 0 /\ running' # running => asked = running' /\ asked' = 0]_allVars
  BY RequestStep DEF OttInv
<1> QED BY <1>1, OttInductive, PTL DEF OttSpec, TestRunsOnce

\* high_score.c: what the panel shows is what is stored, unless the operation
\* on the flash that ran last reported a failure.
THEOREM RamAlwaysStored == OttSpec => []RamIsStored
<1>1. OttInv => RamIsStored
  BY DEF OttInv, ScoresInv
<1> QED BY <1>1, OttInductive, PTL

\* high_score.c, flash_bsp.c: no score comes up that nobody played, and none
\* comes back that was reset, wherever the flash or the power failed.
THEOREM NothingEverInvented == OttSpec => []NothingInvented
<1>1. ASSUME ScoresInv PROVE NothingInvented
  <2> SUFFICES ASSUME pc # "off", NEW t \in Tables, NEW x \in Range(scores[t]), x # 0
               PROVE  x \in known[t]
    BY DEF NothingInvented
  <2>1. DOMAIN scores[t] = 1 .. Places
    BY <1>1 DEF ScoresInv, OnlyHeard, Tabular, IsTable
  <2>2. PICK p \in 1 .. Places : x = scores[t][p]
    BY <2>1 DEF Range
  <2> QED BY <1>1, <2>2 DEF ScoresInv, OnlyHeard, HeardOf
<1>2. OttInv => NothingInvented
  BY <1>1 DEF OttInv
<1> QED BY <1>2, OttInductive, PTL
-----------------------------------------------------------------------------
(* The best of what a table was told, and the test that puts a table back: *)
(* both are about one table at a time, a row of places.                    *)

Rows == [1 .. Places -> 0 .. MaxScore]

\* No place holds more than one before it.
Descends(row) == \A p, q \in 1 .. Places : p <= q => row[q] <= row[p]

\* The row as what was told says it must be: count[s] scores of s or more.
Counts(row, count) ==
  \A p \in 1 .. Places, s \in 1 .. MaxScore : row[p] >= s <=> count[s] >= p

\* Where a score goes: behind what is as good, before what is worse.
LEMMA PlaceOfScore ==
  ASSUME NEW row \in Rows, Descends(row), NEW s \in 0 .. MaxScore, Qualifies(row, s)
  PROVE  LET k == First(Place(row, s))
         IN  /\ k \in 1 .. Places /\ s \in Nat
             /\ \A p \in 1 .. Places : row[p] \in Nat
             /\ \A p \in 1 .. Places : p < k => row[p] >= s
             /\ \A p \in 1 .. Places : p >= k => row[p] < s
<1> DEFINE S == Place(row, s)
<1>1. S \in SUBSET (1 .. Places) /\ S # {}
  BY DEF Qualifies, Place
<1>2. First(S) \in S /\ \A q \in S : First(S) <= q
  BY <1>1, FirstPlace
<1>3. /\ Places \in Nat /\ MaxScore \in Nat /\ First(S) \in 1 .. Places
      /\ s \in Nat /\ \A p \in 1 .. Places : row[p] \in Nat
  BY <1>1, <1>2, HighScoreAssumption DEF Rows
<1>4. \A p \in 1 .. Places : p \in S <=> row[p] < s
  BY <1>3 DEF Place
<1> HIDE DEF S
<1>5. ASSUME NEW p \in 1 .. Places, p < First(S)
      PROVE  row[p] >= s
  <2>1. p \notin S
    BY <1>2, <1>3, <1>5
  <2> QED BY <1>3, <1>4, <2>1
<1>6. ASSUME NEW p \in 1 .. Places, p >= First(S)
      PROVE  row[p] < s
  <2>1. row[First(S)] < s
    BY <1>2, <1>3, <1>4
  <2>2. row[p] <= row[First(S)]
    BY <1>3, <1>6 DEF Descends
  <2> QED BY <1>3, <2>1, <2>2
<1> QED BY <1>3, <1>5, <1>6 DEF S

\* The places of the row with the score in it, one by one.
LEMMA PlacesOfInsert ==
  ASSUME NEW row \in Rows, Descends(row), NEW s \in 0 .. MaxScore, Qualifies(row, s)
  PROVE  LET k == First(Place(row, s))
         IN  /\ Insert(row, s) \in Rows
             /\ \A p \in 1 .. Places :
                  /\ p < k => Insert(row, s)[p] = row[p]
                  /\ p = k => Insert(row, s)[p] = s
                  /\ p > k => p - 1 \in 1 .. Places /\ Insert(row, s)[p] = row[p - 1]
<1> DEFINE k == First(Place(row, s))
<1>1. k \in 1 .. Places /\ Places \in Nat
  BY PlaceOfScore, HighScoreAssumption
<1>2. Insert(row, s) = [p \in 1 .. Places |-> IF p < k THEN row[p]
                             ELSE IF p = k THEN s ELSE row[p - 1]]
  BY DEF Insert
<1> HIDE DEF k
<1>3. \A p \in 1 .. Places : p < k \/ p = k \/ (p > k /\ p - 1 \in 1 .. Places)
  BY <1>1
<1>4. Insert(row, s) \in Rows
  BY <1>2, <1>3 DEF Rows
<1>5. ASSUME NEW p \in 1 .. Places
      PROVE  /\ p < k => Insert(row, s)[p] = row[p]
             /\ p = k => Insert(row, s)[p] = s
             /\ p > k => p - 1 \in 1 .. Places /\ Insert(row, s)[p] = row[p - 1]
  BY <1>1, <1>2, <1>3
<1> QED BY <1>4, <1>5 DEF k

\* A score goes where the row keeps its order, and the row stays the best of
\* what was told, that score included.
LEMMA InsertKeepsBest ==
  ASSUME NEW row \in Rows, Descends(row), NEW s \in 0 .. MaxScore, Qualifies(row, s)
  PROVE  /\ Insert(row, s) \in Rows /\ Descends(Insert(row, s))
         /\ \A count \in [1 .. MaxScore -> Nat] : Counts(row, count) =>
              Counts(Insert(row, s),
                     [r \in 1 .. MaxScore |-> IF r <= s THEN count[r] + 1 ELSE count[r]])
<1> DEFINE k  == First(Place(row, s))
           nr == Insert(row, s)
<1>1. /\ k \in 1 .. Places /\ s \in Nat /\ Places \in Nat /\ MaxScore \in Nat
      /\ \A p \in 1 .. Places : row[p] \in Nat
      /\ \A p \in 1 .. Places : p < k => row[p] >= s
      /\ \A p \in 1 .. Places : p >= k => row[p] < s
  BY PlaceOfScore, HighScoreAssumption
<1>2. nr \in Rows
  BY PlacesOfInsert
<1>3. \A p \in 1 .. Places :
        /\ p < k => nr[p] = row[p]
        /\ p = k => nr[p] = s
        /\ p > k => p - 1 \in 1 .. Places /\ nr[p] = row[p - 1]
  BY PlacesOfInsert
<1> HIDE DEF k, nr
<1>4. ASSUME NEW p \in 1 .. Places, NEW q \in 1 .. Places, p <= q
      PROVE  nr[q] <= nr[p]
  <2>1. CASE q < k
    BY <1>1, <1>3, <1>4, <2>1 DEF Descends
  <2>2. CASE q = k
    BY <1>1, <1>3, <1>4, <2>2
  <2>3. CASE q > k /\ p < k
    <3>1. q - 1 \in 1 .. Places /\ p <= q - 1 /\ nr[q] = row[q - 1] /\ nr[p] = row[p]
      BY <1>1, <1>3, <2>3
    <3> QED BY <3>1 DEF Descends
  <2>4. CASE q > k /\ p = k
    <3>1. q - 1 \in 1 .. Places /\ q - 1 >= k /\ nr[q] = row[q - 1] /\ nr[p] = s
      BY <1>1, <1>3, <2>4
    <3> QED BY <1>1, <3>1
  <2>5. CASE q > k /\ p > k
    <3>1. /\ q - 1 \in 1 .. Places /\ p - 1 \in 1 .. Places /\ p - 1 <= q - 1
          /\ nr[q] = row[q - 1] /\ nr[p] = row[p - 1]
      BY <1>1, <1>3, <1>4, <2>5
    <3> QED BY <3>1 DEF Descends
  <2> QED BY <1>1, <2>1, <2>2, <2>3, <2>4, <2>5
<1>5. ASSUME NEW count \in [1 .. MaxScore -> Nat], Counts(row, count),
             NEW p \in 1 .. Places, NEW r \in 1 .. MaxScore
      PROVE  nr[p] >= r <=> (IF r <= s THEN count[r] + 1 ELSE count[r]) >= p
  <2>1. count[r] \in Nat /\ r \in Nat /\ p \in Nat /\ (row[p] >= r <=> count[r] >= p)
    BY <1>1, <1>5 DEF Counts
  <2>2. CASE p < k
    BY <1>1, <1>3, <2>1, <2>2
  <2>3. CASE p = k
    <3>1. p > 1 => p - 1 \in 1 .. Places /\ p - 1 < k
      BY <1>1, <2>3
    <3>2. p > 1 => row[p - 1] >= s /\ (row[p - 1] >= r <=> count[r] >= p - 1)
      BY <1>1, <1>5, <3>1 DEF Counts
    <3>3. p > 1 => row[p - 1] \in Nat
      BY <1>1, <3>1
    <3>4. nr[p] = s /\ row[p] < s /\ row[p] \in Nat
      BY <1>1, <1>3, <2>3
    <3> QED BY <1>1, <2>1, <3>2, <3>3, <3>4
  <2>4. CASE p > k
    <3>1. p - 1 \in 1 .. Places /\ p - 1 >= k /\ nr[p] = row[p - 1]
      BY <1>1, <1>3, <2>4
    <3>2. /\ row[p - 1] < s /\ row[p] < s /\ row[p - 1] \in Nat /\ row[p] \in Nat
          /\ row[p - 1] >= r <=> count[r] >= p - 1
      BY <1>1, <1>5, <2>4, <3>1 DEF Counts
    <3> QED BY <1>1, <2>1, <3>1, <3>2
  <2> QED BY <1>1, <2>2, <2>3, <2>4
<1>6. Descends(nr)
  BY <1>4 DEF Descends
<1>7. ASSUME NEW count \in [1 .. MaxScore -> Nat], Counts(row, count)
      PROVE  Counts(nr, [r \in 1 .. MaxScore |-> IF r <= s THEN count[r] + 1 ELSE count[r]])
  BY <1>5, <1>7 DEF Counts
<1> QED BY <1>2, <1>6, <1>7 DEF nr

\* A score that gets no place is no better than any that has one.
LEMMA RefusedKeepsBest ==
  ASSUME NEW row \in Rows, NEW s \in 0 .. MaxScore, ~Qualifies(row, s),
         NEW count \in [1 .. MaxScore -> Nat], Counts(row, count)
  PROVE  Counts(row, [r \in 1 .. MaxScore |-> IF r <= s THEN count[r] + 1 ELSE count[r]])
<1> SUFFICES ASSUME NEW p \in 1 .. Places, NEW r \in 1 .. MaxScore
             PROVE  row[p] >= r <=> (IF r <= s THEN count[r] + 1 ELSE count[r]) >= p
  BY DEF Counts
<1>1. /\ s \in Nat /\ r \in Nat /\ r >= 1 /\ p \in Nat /\ row[p] \in Nat /\ count[r] \in Nat
      /\ row[p] >= r <=> count[r] >= p
  BY HighScoreAssumption DEF Counts, Rows
<1>2. s = 0 \/ row[p] >= s
  <2>1. s > 0 => p \notin Place(row, s)
    BY DEF Qualifies
  <2> QED BY <1>1, <2>1 DEF Place
<1> QED BY <1>1, <1>2

\* What a boot reads tells the table what is in it.
LEMMA BootCounts ==
  ASSUME NEW row \in Rows, Descends(row)
  PROVE  LET count == [s \in 1 .. MaxScore |-> Cardinality({p \in 1 .. Places : row[p] >= s})]
         IN  count \in [1 .. MaxScore -> Nat] /\ Counts(row, count)
<1>1. Places \in Nat /\ MaxScore \in Nat /\ \A p \in 1 .. Places : row[p] \in Nat
  BY HighScoreAssumption DEF Rows
<1>2. ASSUME NEW s \in 1 .. MaxScore
      PROVE  /\ Cardinality({p \in 1 .. Places : row[p] >= s}) \in Nat
             /\ \A p \in 1 .. Places :
                  row[p] >= s <=> Cardinality({q \in 1 .. Places : row[q] >= s}) >= p
  <2> DEFINE S == {p \in 1 .. Places : row[p] >= s}
             R == {p \in 1 .. Places : row[p] < s}
  <2>1. s \in Nat /\ \A p \in 1 .. Places : p \in S <=> row[p] >= s
    BY <1>1
  <2>2. \A p \in 1 .. Places : p \in R <=> ~(row[p] >= s)
    BY <1>1, <2>1
  <2>3. CASE R = {}
    <3>1. S = 1 .. Places
      BY <2>2, <2>3
    <3>2. Cardinality(S) = Places
      <4>1. Cardinality(1 .. Places) = Places
        BY <1>1, FS_Interval
      <4> QED BY <3>1, <4>1
    <3> QED BY <1>1, <2>2, <2>3, <3>2
  <2>4. CASE R # {}
    <3>1. First(R) \in R /\ \A q \in R : First(R) <= q
      BY <2>4, FirstPlace
    <3>2. First(R) \in 1 .. Places /\ row[First(R)] < s
      BY <3>1
    <3> HIDE DEF R
    <3>3. ASSUME NEW p \in 1 .. Places
          PROVE  row[p] >= s <=> p <= First(R) - 1
      <4>1. p >= First(R) => row[p] <= row[First(R)]
        BY <3>2 DEF Descends
      <4>2. p < First(R) => p \notin R
        BY <1>1, <3>1, <3>2
      <4> QED BY <1>1, <2>1, <2>2, <3>2, <4>1, <4>2
    <3>4. S = 1 .. First(R) - 1
      BY <1>1, <3>2, <3>3
    <3>5. Cardinality(S) = First(R) - 1
      <4>1. Cardinality(1 .. First(R) - 1) = First(R) - 1
        BY <1>1, <3>2, FS_Interval
      <4> QED BY <3>4, <4>1
    <3> QED BY <1>1, <3>2, <3>3, <3>5
  <2> QED BY <2>3, <2>4
<1> QED BY <1>2 DEF Counts
-----------------------------------------------------------------------------
(* The invariant behind KeepsTheBest: the rows are in order wherever they  *)
(* are, and each counts what its table was told.                           *)

Ranked(f) ==
  /\ f \in [Tables -> Rows]
  /\ \A t \in Tables : Descends(f[t])

BestInv ==
  /\ Ranked(scores) /\ Ranked(page.record)
  /\ told \in [Tables -> [1 .. MaxScore -> Nat]]
  /\ pc # "off" => \A t \in Tables : Counts(scores[t], told[t])

LEMMA EmptyIsRanked == Ranked(Empty)
<1>1. \A t \in Tables : Empty[t] = [p \in 1 .. Places |-> 0]
  BY DEF Empty
<1>2. Empty \in [Tables -> Rows]
  <2>1. 0 \in 0 .. MaxScore
    BY HighScoreAssumption
  <2> QED BY <2>1 DEF Empty, Rows
<1>3. \A t \in Tables : Descends(Empty[t])
  <2> SUFFICES ASSUME NEW t \in Tables, NEW p \in 1 .. Places, NEW q \in 1 .. Places
               PROVE  Empty[t][q] <= Empty[t][p]
    BY DEF Descends
  <2>1. Empty[t][q] = 0 /\ Empty[t][p] = 0
    BY <1>1
  <2> QED BY <2>1
<1> QED BY <1>2, <1>3 DEF Ranked

\* Nothing is in the tables, and nothing was told.
LEMMA NothingTold ==
  ASSUME NEW count, count = [s \in 1 .. MaxScore |-> 0], NEW t \in Tables
  PROVE  count \in [1 .. MaxScore -> Nat] /\ Counts(Empty[t], count)
<1>1. \A p \in 1 .. Places : Empty[t][p] = 0
  BY DEF Empty
<1>2. MaxScore \in Nat /\ Places \in Nat
  BY HighScoreAssumption
<1> QED BY <1>1, <1>2 DEF Counts

LEMMA BestStart == ASSUME ScoresInit PROVE BestInv
<1>1. scores = Empty /\ page.record = Empty /\ pc = "off"
  BY DEF ScoresInit
<1>2. told \in [Tables -> [1 .. MaxScore -> Nat]]
  BY DEF ScoresInit
<1> QED BY <1>1, <1>2, EmptyIsRanked DEF BestInv

LEMMA BootKeepsBest == ASSUME BestInv, HighScoreInit PROVE BestInv'
<1>1. /\ pc' = "ready" /\ scores' = Load(page) /\ UNCHANGED page
      /\ told' = [t \in Tables |-> [s \in 1 .. MaxScore |->
                    Cardinality({p \in 1 .. Places : scores'[t][p] >= s})]]
  BY DEF HighScoreInit
<1>2. Ranked(scores')
  BY <1>1, EmptyIsRanked DEF Load, BestInv
<1>3. ASSUME NEW t \in Tables
      PROVE  told'[t] \in [1 .. MaxScore -> Nat] /\ Counts(scores'[t], told'[t])
  <2>1. scores'[t] \in Rows /\ Descends(scores'[t])
    BY <1>2 DEF Ranked
  <2>2. told'[t] = [s \in 1 .. MaxScore |->
                      Cardinality({p \in 1 .. Places : scores'[t][p] >= s})]
    BY <1>1
  <2> QED BY <2>1, <2>2, BootCounts
<1>4. told' \in [Tables -> [1 .. MaxScore -> Nat]]
  BY <1>1, <1>3
<1> QED BY <1>1, <1>2, <1>3, <1>4 DEF BestInv

LEMMA ForgetKeepsBest == ASSUME BestInv, Forget, UNCHANGED page PROVE BestInv'
<1>1. scores' = Empty /\ told' = [t \in Tables |-> [s \in 1 .. MaxScore |-> 0]]
  BY DEF Forget
<1>2. \A t \in Tables : Counts(scores'[t], told'[t])
  BY <1>1, NothingTold
<1>3. told' \in [Tables -> [1 .. MaxScore -> Nat]]
  BY <1>1
<1> QED BY <1>1, <1>2, <1>3, EmptyIsRanked DEF BestInv

LEMMA OfferKeepsBest ==
  ASSUME BestInv, NEW t \in Tables, NEW s \in 0 .. MaxScore, Offer(t, s)
  PROVE  BestInv'
<1> DEFINE heard == [r \in 1 .. MaxScore |-> IF r <= s THEN told[t][r] + 1 ELSE told[t][r]]
<1>1. pc # "off" /\ told' = [told EXCEPT ![t] = heard] /\ UNCHANGED page
  BY DEF Offer, Hears, Begin, flash
<1>2. told[t] \in [1 .. MaxScore -> Nat] /\ scores[t] \in Rows /\ Descends(scores[t])
  BY DEF BestInv, Ranked
<1>3. Counts(scores[t], told[t])
  BY <1>1 DEF BestInv
<1>4. told' \in [Tables -> [1 .. MaxScore -> Nat]]
  <2>1. heard \in [1 .. MaxScore -> Nat]
    <3>1. ASSUME NEW r \in 1 .. MaxScore
          PROVE  (IF r <= s THEN told[t][r] + 1 ELSE told[t][r]) \in Nat
      <4>1. told[t][r] \in Nat
        BY <1>2
      <4> QED BY <4>1
    <3> QED BY <3>1
  <2> HIDE DEF heard
  <2> QED BY <1>1, <2>1 DEF BestInv
<1>5. told'[t] = heard
  <2> HIDE DEF heard
  <2> QED BY <1>1 DEF BestInv
<1>6. \A u \in Tables : u # t => told'[u] = told[u]
  BY <1>1 DEF BestInv
<1>7. CASE Qualifies(scores[t], s)
  <2> DEFINE row == Insert(scores[t], s)
  <2>1. scores' = [scores EXCEPT ![t] = row]
    BY <1>7 DEF Offer
  <2>2. row \in Rows /\ Descends(row) /\ Counts(row, heard)
    BY <1>2, <1>3, <1>7, InsertKeepsBest
  <2> HIDE DEF row, heard
  <2>3. scores' \in [Tables -> Rows] /\ scores'[t] = row
    BY <2>1, <2>2 DEF BestInv, Ranked
  <2>4. \A u \in Tables : u # t => scores'[u] = scores[u]
    BY <2>1 DEF BestInv, Ranked
  <2>5. ASSUME NEW u \in Tables
        PROVE  Descends(scores'[u]) /\ Counts(scores'[u], told'[u])
    <3>1. CASE u = t
      BY <1>5, <2>2, <2>3, <3>1
    <3>2. CASE u # t
      BY <1>1, <1>6, <2>4, <3>2 DEF BestInv, Ranked
    <3> QED BY <3>1, <3>2
  <2> QED BY <1>1, <1>4, <2>3, <2>5 DEF BestInv, Ranked
<1>8. CASE ~Qualifies(scores[t], s)
  <2>1. UNCHANGED scores
    BY <1>8 DEF Offer
  <2>2. Counts(scores[t], heard)
    BY <1>2, <1>3, <1>8, RefusedKeepsBest
  <2> HIDE DEF heard
  <2>3. \A u \in Tables : Counts(scores[u], told'[u])
    BY <1>1, <1>5, <1>6, <2>2 DEF BestInv
  <2> QED BY <1>1, <1>4, <2>1, <2>3 DEF BestInv
<1> QED BY <1>7, <1>8

\* What the flash does to the page leaves a ranked record in it.
LEMMA PageKeepsBest ==
  ASSUME BestInv, UNCHANGED <<scores, told>>, Ranked(page'.record),
         pc = "off" => pc' = "off"
  PROVE  BestInv'
  BY DEF BestInv

LEMMA CutKeepsBest ==
  ASSUME ScoresInv, BestInv, page' \in Interrupted, UNCHANGED <<scores, told>>, pc # "off"
  PROVE  BestInv'
<1>1. page'.record = page.record
  BY InterruptedPage DEF ScoresInv
<1>2. Ranked(page'.record)
  BY <1>1 DEF BestInv
<1> QED BY <1>2, PageKeepsBest

LEMMA FlashKeepsBest == ASSUME ScoresInv, BestInv, Flash PROVE BestInv'
<1>1. CASE EraseEnds
  <2>1. page'.record = Empty /\ UNCHANGED <<scores, told>> /\ pc # "off"
    BY <1>1 DEF EraseEnds
  <2> QED BY <2>1, EmptyIsRanked, PageKeepsBest
<1>2. CASE Program
  <2>1. page'.record = scores /\ UNCHANGED <<scores, told>> /\ pc # "off"
    BY <1>2 DEF Program, ScoresInv, DriverAgrees
  <2> QED BY <2>1, PageKeepsBest DEF BestInv
<1>3. CASE EraseFails
  BY <1>3, CutKeepsBest DEF EraseFails
<1>4. CASE ProgramFails
  BY <1>4, CutKeepsBest DEF ProgramFails, Interrupted
<1> QED BY <1>1, <1>2, <1>3, <1>4 DEF Flash

LEMMA PowerCutKeepsBest == ASSUME ScoresInv, BestInv, PowerCut PROVE BestInv'
  BY CutKeepsBest DEF PowerCut, Interrupted

-----------------------------------------------------------------------------
(* The invariant behind TestLeavesTables: while the test puts the tables   *)
(* back, each is what was saved, but for the places not yet offered.       *)

\* A row without its first k places, moved up.
Shifted(row, k) == [p \in 1 .. Places |-> IF p + k <= Places THEN row[p + k] ELSE 0]

\* How many places of the n-th table have still to be offered.
Missing(n) == IF n < at_table THEN 0 ELSE IF n = at_table THEN at_place ELSE Places

TestInv ==
  /\ Ranked(saved)
  /\ at_table \in 1 .. Len(TableOrder) + 1 /\ at_place \in 1 .. Places
  /\ step = "restore" =>
       /\ mode = "test" /\ pc # "off"
       /\ \A n \in 1 .. Len(TableOrder) :
            scores[TableOrder[n]] = Shifted(saved[TableOrder[n]], Missing(n))
       /\ pc = "ready" /\ ~spoiled => is_ok

LEMMA SameRow ==
  ASSUME NEW a \in Rows, NEW b \in Rows, \A p \in 1 .. Places : a[p] = b[p]
  PROVE  a = b
<1>1. a = [p \in 1 .. Places |-> a[p]] /\ b = [p \in 1 .. Places |-> b[p]]
  BY DEF Rows
<1>2. [p \in 1 .. Places |-> a[p]] = [p \in 1 .. Places |-> b[p]]
  OBVIOUS
<1> QED BY <1>1, <1>2, Zenon

\* Offering the last of the missing places puts it in front of those after it,
\* also where it ties with them, and a free place changes nothing.
LEMMA OfferRestores ==
  ASSUME NEW row \in Rows, Descends(row), NEW k \in 1 .. Places
  PROVE  /\ Shifted(row, k) \in Rows /\ Descends(Shifted(row, k))
         /\ Shifted(row, k - 1) = IF Qualifies(Shifted(row, k), row[k])
                                  THEN Insert(Shifted(row, k), row[k])
                                  ELSE Shifted(row, k)
<1> DEFINE f == Shifted(row, k)
           g == Shifted(row, k - 1)
<1>1. /\ Places \in Nat /\ MaxScore \in Nat /\ row[k] \in 0 .. MaxScore /\ row[k] \in Nat
      /\ \A p \in 1 .. Places : row[p] \in 0 .. MaxScore /\ row[p] \in Nat
  BY HighScoreAssumption DEF Rows
<1>2. \A p \in 1 .. Places : p + k <= Places => p + k \in 1 .. Places
  BY <1>1
<1>3. \A p \in 1 .. Places : p + (k - 1) <= Places => p + (k - 1) \in 1 .. Places
  BY <1>1
<1>4. f \in Rows /\ g \in Rows
  BY <1>1, <1>2, <1>3 DEF Shifted, Rows
<1>5. \A p \in 1 .. Places : f[p] = IF p + k <= Places THEN row[p + k] ELSE 0
  BY DEF Shifted
<1>6. \A p \in 1 .. Places : g[p] = IF p + (k - 1) <= Places THEN row[p + (k - 1)] ELSE 0
  BY DEF Shifted
<1> HIDE DEF f, g
<1>7. ASSUME NEW p \in 1 .. Places, NEW q \in 1 .. Places, p <= q
      PROVE  f[q] <= f[p]
  <2>1. CASE q + k <= Places
    <3>1. p + k \in 1 .. Places /\ q + k \in 1 .. Places /\ p + k <= q + k /\ p + k <= Places
      BY <1>1, <1>2, <1>7, <2>1
    <3>2. row[q + k] <= row[p + k]
      BY <3>1 DEF Descends
    <3> QED BY <1>5, <2>1, <3>1, <3>2
  <2>2. CASE ~(q + k <= Places)
    <3>1. f[q] = 0 /\ f[p] \in 0 .. MaxScore
      BY <1>4, <1>5, <2>2 DEF Rows
    <3> QED BY <1>1, <3>1
  <2> QED BY <2>1, <2>2
<1>8. Descends(f)
  BY <1>7 DEF Descends
\* Against f, g has the place k in front and the rest behind it.
<1>9. g[1] = row[k] /\ \A p \in 1 .. Places : p > 1 => p - 1 \in 1 .. Places /\ g[p] = f[p - 1]
  <2>1. 1 \in 1 .. Places /\ 1 + (k - 1) = k /\ k <= Places
    BY <1>1
  <2>2. g[1] = row[k]
    BY <1>6, <2>1
  <2>3. ASSUME NEW p \in 1 .. Places, p > 1
        PROVE  p - 1 \in 1 .. Places /\ g[p] = f[p - 1]
    <3>1. p - 1 \in 1 .. Places /\ (p - 1) + k = p + (k - 1)
      BY <1>1, <2>3
    <3> QED BY <1>5, <1>6, <3>1
  <2> QED BY <2>2, <2>3
<1>10. \A p \in 1 .. Places : f[p] <= row[k] /\ f[p] \in Nat
  <2> TAKE p \in 1 .. Places
  <2>1. CASE p + k <= Places
    <3>1. p + k \in 1 .. Places /\ k <= p + k
      BY <1>1, <1>2, <2>1
    <3>2. row[p + k] <= row[k] /\ row[p + k] \in Nat
      BY <1>1, <3>1 DEF Descends
    <3> QED BY <1>5, <2>1, <3>2
  <2>2. CASE ~(p + k <= Places)
    BY <1>1, <1>5, <2>2
  <2> QED BY <2>1, <2>2
<1>11. f[Places] = 0 /\ Places \in 1 .. Places
  <2>1. Places \in 1 .. Places /\ ~(Places + k <= Places)
    BY <1>1
  <2> QED BY <1>5, <2>1
<1>12. CASE Qualifies(f, row[k])
  <2> DEFINE nf    == Insert(f, row[k])
             place == First(Place(f, row[k]))
  <2>1. /\ place \in 1 .. Places
        /\ \A p \in 1 .. Places : p < place => f[p] >= row[k]
    BY <1>1, <1>4, <1>8, <1>12, PlaceOfScore
  <2>2. /\ nf \in Rows
        /\ \A p \in 1 .. Places :
             /\ p < place => nf[p] = f[p]
             /\ p = place => nf[p] = row[k]
             /\ p > place => p - 1 \in 1 .. Places /\ nf[p] = f[p - 1]
    BY <1>1, <1>4, <1>8, <1>12, PlacesOfInsert
  <2> HIDE DEF nf, place
  <2>3. \A p \in 1 .. Places : p < place => f[p] = row[k]
    BY <1>1, <1>10, <2>1
  <2>4. ASSUME NEW p \in 1 .. Places
        PROVE  g[p] = nf[p]
    <3>1. CASE p > place
      <4>1. p > 1
        BY <2>1, <3>1
      <4> QED BY <1>9, <2>2, <3>1, <4>1
    <3>2. CASE p <= place
      <4>1. nf[p] = row[k]
        BY <2>1, <2>2, <2>3, <3>2
      <4>2. CASE p = 1
        BY <1>9, <4>1, <4>2
      <4>3. CASE p # 1
        <5>1. p > 1 /\ p - 1 \in 1 .. Places /\ p - 1 < place
          BY <1>1, <2>1, <3>2, <4>3
        <5> QED BY <1>9, <2>3, <4>1, <5>1
      <4> QED BY <4>2, <4>3
    <3> QED BY <2>1, <3>1, <3>2
  <2>5. g = nf
    BY <1>4, <2>2, <2>4, SameRow
  <2> QED BY <1>4, <1>8, <1>12, <2>5 DEF nf, f, g
<1>13. CASE ~Qualifies(f, row[k])
  <2>1. row[k] = 0
    <3>1. Places \notin Place(f, row[k]) \/ ~(row[k] > 0)
      BY <1>13 DEF Qualifies
    <3> QED BY <1>1, <1>11, <3>1 DEF Place
  <2>2. \A p \in 1 .. Places : f[p] = 0
    BY <1>10, <2>1
  <2>3. ASSUME NEW p \in 1 .. Places
        PROVE  g[p] = f[p]
    <3>1. CASE p = 1
      BY <1>9, <2>1, <2>2, <3>1
    <3>2. CASE p # 1
      <4>1. p > 1
        BY <3>2
      <4> QED BY <1>9, <2>2, <4>1
    <3> QED BY <3>1, <3>2
  <2>4. g = f
    BY <1>4, <2>3, SameRow
  <2> QED BY <1>4, <1>8, <1>13, <2>4 DEF f, g
<1> QED BY <1>12, <1>13
LEMMA FirstMissing ==
  ASSUME NEW row \in Rows
  PROVE  Shifted(row, 0) = row /\ Shifted(row, Places) = [p \in 1 .. Places |-> 0]
<1>1. Places \in Nat
  BY HighScoreAssumption
<1>2. \A p \in 1 .. Places : p + 0 = p /\ p <= Places /\ ~(p + Places <= Places)
  BY <1>1
<1>3. row = [p \in 1 .. Places |-> row[p]]
  BY DEF Rows
<1>4. Shifted(row, 0) = [p \in 1 .. Places |-> row[p]]
  BY <1>2 DEF Shifted
<1>5. Shifted(row, Places) = [p \in 1 .. Places |-> 0]
  BY <1>2 DEF Shifted
<1> QED BY <1>3, <1>4, <1>5

\* The loops start with everything missing, end with nothing missing, and go
\* on by one place of one table.
LEMMA LoopsOfOffers ==
  ASSUME at_table \in 1 .. Len(TableOrder) + 1, at_place \in 1 .. Places
  PROVE  /\ FirstOffer =>
              /\ at_table' \in 1 .. Len(TableOrder) + 1 /\ at_place' \in 1 .. Places
              /\ \A n \in 1 .. Len(TableOrder) : Missing(n)' = Places
         /\ AllOffered => \A n \in 1 .. Len(TableOrder) : Missing(n) = 0
         /\ ~AllOffered => at_table \in 1 .. Len(TableOrder)
         /\ ~AllOffered /\ NextOffer =>
              /\ at_table' \in 1 .. Len(TableOrder) + 1 /\ at_place' \in 1 .. Places
              /\ \A n \in 1 .. Len(TableOrder) :
                   Missing(n)' = IF n = at_table THEN at_place - 1 ELSE Missing(n)
<1>1. Len(TableOrder) \in Nat /\ Places \in Nat \ {0}
  BY OttAssumption, HighScoreAssumption
<1>2. ASSUME FirstOffer
      PROVE  /\ at_table' \in 1 .. Len(TableOrder) + 1 /\ at_place' \in 1 .. Places
             /\ \A n \in 1 .. Len(TableOrder) : Missing(n)' = Places
  BY <1>1, <1>2 DEF FirstOffer, Missing
<1>3. ASSUME AllOffered, NEW n \in 1 .. Len(TableOrder)
      PROVE  Missing(n) = 0
  BY <1>1, <1>3 DEF AllOffered, Missing
<1>4. ASSUME ~AllOffered
      PROVE  at_table \in 1 .. Len(TableOrder)
  BY <1>1, <1>4 DEF AllOffered
<1>5. ASSUME ~AllOffered, NextOffer
      PROVE  /\ at_table' \in 1 .. Len(TableOrder) + 1 /\ at_place' \in 1 .. Places
             /\ \A n \in 1 .. Len(TableOrder) :
                  Missing(n)' = IF n = at_table THEN at_place - 1 ELSE Missing(n)
  <2>1. CASE at_place > 1
    <3>1. at_place' = at_place - 1 /\ at_table' = at_table
      BY <1>5, <2>1 DEF NextOffer
    <3> QED BY <1>1, <2>1, <3>1 DEF Missing
  <2>2. CASE ~(at_place > 1)
    <3>1. at_place = 1 /\ at_place' = Places /\ at_table' = at_table + 1
      BY <1>1, <1>5, <2>2 DEF NextOffer
    <3> QED BY <1>1, <1>4, <1>5, <3>1 DEF Missing
  <2> QED BY <2>1, <2>2
<1> QED BY <1>2, <1>3, <1>4, <1>5

\* The test is gone: there is nothing it has to keep.
LEMMA GoneKeepsTest ==
  ASSUME TestInv, TestGone
  PROVE  TestInv'
<1>1. step' = "begin" /\ saved' = Empty /\ FirstOffer
  BY DEF TestGone
<1>2. at_table' \in 1 .. Len(TableOrder) + 1 /\ at_place' \in 1 .. Places
  BY <1>1, LoopsOfOffers DEF TestInv
<1> QED BY <1>1, <1>2, EmptyIsRanked DEF TestInv

LEMMA TestStart == ASSUME OttInit PROVE TestInv
<1>1. Len(TableOrder) \in Nat /\ Places \in Nat \ {0}
  BY OttAssumption, HighScoreAssumption
<1>2. step = "begin" /\ saved = Empty /\ at_table = 1 /\ at_place = Places
  BY DEF OttInit
<1> QED BY <1>1, <1>2, EmptyIsRanked DEF TestInv

\* Nothing but the test, and the flash it waits for, goes on during the test.
LEMMA OthersKeepTest ==
  ASSUME TestInv, UNCHANGED locals, mode # "test"
  PROVE  TestInv'
<1>1. step # "restore"
  BY DEF TestInv
<1> QED BY <1>1 DEF TestInv, locals

LEMMA SameKeepsTest ==
  ASSUME TestInv, UNCHANGED <<locals, mode, scores, pc, is_ok>>
  PROVE  TestInv'
<1>1. UNCHANGED <<step, at_table, at_place, saved, spoiled>>
  BY DEF locals
<1>2. \A n : Missing(n)' = Missing(n)
  BY <1>1 DEF Missing
<1> QED BY <1>1, <1>2 DEF TestInv

LEMMA FlashKeepsTest ==
  ASSUME TestInv, FlashWorks
  PROVE  TestInv'
<1>1. /\ UNCHANGED <<mode, step, at_table, at_place, saved, scores>> /\ pc' # "off"
  BY DEF FlashWorks, Flash, EraseEnds, EraseFails, Fails, Program, ProgramFails
<1>2. \A n : Missing(n)' = Missing(n)
  BY <1>1 DEF Missing
<1>3. mode = "test" => spoiled' = (spoiled \/ ~is_ok')
  BY DEF FlashWorks, Marks
<1>4. CASE step = "restore"
  <2>1. mode = "test"
    BY <1>4 DEF TestInv
  <2>2. ~spoiled' => is_ok'
    BY <1>3, <2>1
  <2> QED BY <1>1, <1>2, <2>1, <2>2 DEF TestInv
<1>5. CASE step # "restore"
  BY <1>1, <1>5 DEF TestInv
<1> QED BY <1>4, <1>5

\* The test empties the tables before it puts back what was in them.
LEMMA RestoreStarts ==
  ASSUME TestInv, TestRestores
  PROVE  TestInv'
<1>1. /\ scores' = Empty /\ UNCHANGED <<mode, saved>> /\ mode = "test" /\ FirstOffer
      /\ pc' = "erase" \/ (pc' = "ready" /\ is_ok' = FALSE)
      /\ spoiled' = (spoiled \/ ~is_ok')
  BY DEF TestRestores, Testing, Forget, Begin, Marks
<1>2. /\ at_table' \in 1 .. Len(TableOrder) + 1 /\ at_place' \in 1 .. Places
      /\ \A n \in 1 .. Len(TableOrder) : Missing(n)' = Places
  BY <1>1, LoopsOfOffers DEF TestInv
<1>3. ASSUME NEW n \in 1 .. Len(TableOrder)
      PROVE  scores'[TableOrder[n]] = Shifted(saved[TableOrder[n]], Missing(n)')
  <2>1. TableOrder[n] \in Tables
    BY OttAssumption
  <2>2. saved[TableOrder[n]] \in Rows
    BY <2>1 DEF TestInv, Ranked
  <2>3. scores'[TableOrder[n]] = [p \in 1 .. Places |-> 0]
    BY <1>1, <2>1 DEF Empty
  <2> QED BY <1>2, <2>2, <2>3, FirstMissing
<1> QED BY <1>1, <1>2, <1>3 DEF TestInv

\* It offers one place of one table, and no other table moves.
LEMMA OfferKeepsTest ==
  ASSUME BestInv, TestInv, TestOffers
  PROVE  TestInv'
<1> DEFINE t == TableOrder[at_table]
           s == Offered
<1>1. /\ Offer(t, s) /\ ~AllOffered /\ NextOffer
      /\ UNCHANGED <<mode, step, saved>> /\ spoiled' = (spoiled \/ ~is_ok')
  BY Zenon DEF TestOffers, Marks
<1>2. /\ at_table \in 1 .. Len(TableOrder)
      /\ at_table' \in 1 .. Len(TableOrder) + 1 /\ at_place' \in 1 .. Places
      /\ \A n \in 1 .. Len(TableOrder) :
           Missing(n)' = IF n = at_table THEN at_place - 1 ELSE Missing(n)
  BY <1>1, LoopsOfOffers DEF TestInv
<1>3. CASE step = "restore"
  <2>1. /\ mode = "test" /\ s = saved[t][at_place] /\ at_place \in 1 .. Places
        /\ scores[t] = Shifted(saved[t], Missing(at_table)) /\ t \in Tables
    BY <1>2, <1>3, OttAssumption DEF TestInv, Offered
  <2>2. Missing(at_table) = at_place
    BY <1>2, OttAssumption DEF Missing
  <2>3. saved[t] \in Rows /\ Descends(saved[t])
    BY <2>1 DEF TestInv, Ranked
  <2>4. Shifted(saved[t], at_place - 1) = IF Qualifies(scores[t], s)
                                          THEN Insert(scores[t], s) ELSE scores[t]
    BY <2>1, <2>2, <2>3, OfferRestores
  <2>5. scores' = IF Qualifies(scores[t], s)
                  THEN [scores EXCEPT ![t] = Insert(scores[t], s)] ELSE scores
    BY <1>1, Zenon DEF Offer
  <2>6. t \in DOMAIN scores
    BY <2>1 DEF BestInv, Ranked
  <2>7. scores'[t] = Shifted(saved[t], at_place - 1)
    BY <2>4, <2>5, <2>6
  <2>8. ASSUME NEW n \in 1 .. Len(TableOrder)
        PROVE  scores'[TableOrder[n]] = Shifted(saved[TableOrder[n]], Missing(n)')
    <3>1. CASE n = at_table
      BY <1>2, <2>7, <3>1
    <3>2. CASE n # at_table
      <4>1. TableOrder[n] # t /\ Missing(n)' = Missing(n)
        BY <1>2, <3>2, OttAssumption
      <4>2. scores'[TableOrder[n]] = scores[TableOrder[n]]
        BY <2>5, <4>1
      <4> QED BY <1>3, <4>1, <4>2 DEF TestInv
    <3> QED BY <3>1, <3>2
  <2>9. pc' # "off"
    BY <1>1 DEF Offer, Begin, flash
  <2> QED BY <1>1, <1>2, <2>1, <2>8, <2>9 DEF TestInv
<1>4. CASE step # "restore"
  BY <1>1, <1>2, <1>4 DEF TestInv
<1> QED BY <1>3, <1>4
LEMMA TestKeepsTest ==
  ASSUME BestInv, TestInv, Test
  PROVE  TestInv'
<1>1. CASE TestErases
  <2>1. /\ step' = "erased" /\ saved' = Load(page)
        /\ UNCHANGED <<at_table, at_place>>
    BY <1>1 DEF TestErases
  <2>2. Ranked(saved')
    BY <2>1, EmptyIsRanked DEF Load, BestInv
  <2> QED BY <2>1, <2>2 DEF TestInv
<1>2. CASE TestErased
  <2>1. step' = "fill" /\ UNCHANGED saved /\ FirstOffer
    BY <1>2 DEF TestErased
  <2>2. at_table' \in 1 .. Len(TableOrder) + 1 /\ at_place' \in 1 .. Places
    BY <2>1, LoopsOfOffers DEF TestInv
  <2> QED BY <2>1, <2>2 DEF TestInv
<1>3. CASE TestOffers
  BY <1>3, OfferKeepsTest
<1>4. CASE TestRestores
  BY <1>4, RestoreStarts
<1>5. CASE TestGivesUp \/ TestEnds \/ OtherTestEnds
  BY <1>5, GoneKeepsTest DEF TestGivesUp, TestEnds, OtherTestEnds, GoIdle
<1> QED BY <1>1, <1>2, <1>3, <1>4, <1>5 DEF Test

LEMMA TestStep == ASSUME BestInv, TestInv, [OttNext]_allVars PROVE TestInv'
<1>1. CASE PowerOn
  BY <1>1, OthersKeepTest DEF PowerOn
<1>2. CASE ExecutePending
  BY <1>2, OthersKeepTest DEF ExecutePending
<1>3. CASE Test
  BY <1>3, TestKeepsTest
<1>4. CASE (\E id \in 1 .. TestCount : Schedule(id)) \/ ResetCommand
  BY <1>4, GoneKeepsTest DEF Schedule, ResetCommand, SystemReset
<1>5. CASE HighScoreCommand
  BY <1>5, OthersKeepTest DEF HighScoreCommand, Listening, ottVars
<1>6. CASE \E t \in Tables, s \in 1 .. MaxScore : RunEnds(t, s)
  BY <1>6, OthersKeepTest DEF RunEnds, ottVars
<1>7. CASE FlashWorks
  BY <1>7, FlashKeepsTest
<1>8. CASE PinReset \/ PowerFails
  BY <1>8, GoneKeepsTest DEF PinReset, PowerFails
<1>9. CASE UNCHANGED allVars
  BY <1>9, SameKeepsTest DEF allVars, ottVars, scoreVars, flash
<1> QED BY <1>1, <1>2, <1>3, <1>4, <1>5, <1>6, <1>7, <1>8, <1>9 DEF OttNext

\* What the test offers are scores.
LEMMA OfferedIsScore ==
  ASSUME TestInv, TestOffers
  PROVE  TableOrder[at_table] \in Tables /\ Offered \in 0 .. MaxScore
<1>1. at_table \in 1 .. Len(TableOrder) /\ at_place \in 1 .. Places
  BY LoopsOfOffers DEF TestInv, TestOffers
<1>2. TableOrder[at_table] \in Tables
  BY <1>1, OttAssumption
<1>3. Written \in [Tables -> Rows] /\ saved \in [Tables -> Rows]
  BY OttAssumption DEF TestInv, Ranked, Contents, Rows
<1> QED BY <1>1, <1>2, <1>3 DEF Offered, Rows

LEMMA BestStep ==
  ASSUME ScoresInv, BestInv, TestInv, [OttNext]_allVars
  PROVE  BestInv'
<1>1. CASE PowerOn \/ TestErased
  BY <1>1, BootKeepsBest DEF PowerOn, TestErased
<1>2. CASE TestErases \/ TestRestores \/ HighScoreCommand
  BY <1>2, ForgetKeepsBest DEF TestErases, TestRestores, HighScoreCommand, Reset, Begin
<1>3. CASE TestOffers
  <2>1. Offer(TableOrder[at_table], Offered)
    BY <1>3, Zenon DEF TestOffers
  <2> QED BY <1>3, <2>1, OfferedIsScore, OfferKeepsBest
<1>4. ASSUME NEW t \in Tables, NEW s \in 1 .. MaxScore, RunEnds(t, s)
      PROVE  BestInv'
  <2>1. s \in 0 .. MaxScore /\ Offer(t, s)
    BY <1>4, HighScoreAssumption DEF RunEnds
  <2> QED BY <2>1, OfferKeepsBest
<1>5. CASE FlashWorks
  BY <1>5, FlashKeepsBest DEF FlashWorks
<1>6. CASE PinReset \/ PowerFails
  BY <1>6, PowerCutKeepsBest DEF PinReset, PowerFails
<1>7. CASE ExecutePending \/ TestGivesUp \/ TestEnds \/ OtherTestEnds \/ UNCHANGED allVars
  <2>1. UNCHANGED scoreVars
    BY <1>7, Zenon DEF ExecutePending, TestGivesUp, TestEnds, OtherTestEnds, allVars
  <2> QED BY <2>1 DEF scoreVars, flash, BestInv
<1>8. CASE (\E id \in 1 .. TestCount : Schedule(id)) \/ ResetCommand
  <2>1. pc' = "off" /\ UNCHANGED <<scores, page, told>>
    BY <1>8 DEF Schedule, ResetCommand, SystemReset
  <2> QED BY <2>1 DEF BestInv
<1> QED BY <1>1, <1>2, <1>3, <1>4, <1>5, <1>6, <1>7, <1>8 DEF OttNext, Test

LEMMA TablesInductive == OttSpec => [](BestInv /\ TestInv)
<1>1. OttInit => BestInv /\ TestInv
  BY BestStart, TestStart DEF OttInit
<1>2. OttInv /\ (BestInv /\ TestInv) /\ [OttNext]_allVars => (BestInv /\ TestInv)'
  BY BestStep, TestStep DEF OttInv
<1> QED BY <1>1, <1>2, OttInductive, PTL DEF OttSpec

\* high_score.c: a table holds the best of what it was told since the boot, in
\* order and each as often as it was told, whichever scores tie, however many
\* find no place, and whatever became of the flash.
THEOREM AlwaysKeepsTheBest == OttSpec => []KeepsTheBest
<1>1. BestInv => KeepsTheBest
  BY DEF BestInv, KeepsTheBest, Counts
<1> QED BY <1>1, TablesInductive, PTL

\* ott_high_score.c: the test that overwrites every table leaves them stored
\* as it found them, ties and free places included, unless the flash failed.
THEOREM TestAlwaysLeavesTables == OttSpec => []TestLeavesTables
<1>1. ASSUME ScoresInv, BestInv, TestInv PROVE TestLeavesTables
  <2> SUFFICES ASSUME mode = "test", step = "restore", AllOffered, pc = "ready", ~spoiled
               PROVE  Load(page) = saved
    BY DEF TestLeavesTables
  <2>1. Load(page) = scores
    BY <1>1 DEF TestInv, ScoresInv, RamIsStored
  <2>2. \A n \in 1 .. Len(TableOrder) : Missing(n) = 0
    BY <1>1, LoopsOfOffers DEF TestInv
  <2>3. ASSUME NEW t \in Tables
        PROVE  scores[t] = saved[t]
    <3>1. PICK n \in 1 .. Len(TableOrder) : t = TableOrder[n]
      BY OttAssumption
    <3>2. scores[t] = Shifted(saved[t], 0)
      BY <1>1, <2>2, <3>1 DEF TestInv
    <3>3. saved[t] \in Rows
      BY <1>1 DEF TestInv, Ranked
    <3> QED BY <3>2, <3>3, FirstMissing
  <2>4. scores = saved
    BY <1>1, <2>3 DEF BestInv, TestInv, Ranked
  <2> QED BY <2>1, <2>4
<1>2. OttInv /\ (BestInv /\ TestInv) => TestLeavesTables
  BY <1>1 DEF OttInv
<1> QED BY <1>2, OttInductive, TablesInductive, PTL
=============================================================================
