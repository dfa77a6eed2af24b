----------------------------- MODULE GameProofs -----------------------------
(***************************************************************************)
(* The ghost house and a run of the game, for every maze, every table of   *)
(* levels and any number of steps in a tick.                               *)
(*                                                                         *)
(* First the house alone: the order of the releases, and that no waiting   *)
(* ghost has reached what it waits for.  The two need each other: Clyde    *)
(* may retire the global counter past whoever else is waiting, and only    *)
(* what they have not reached shows that nobody is.                        *)
(*                                                                         *)
(* Then the run: nobody passes the gate who may not, every meeting is      *)
(* settled, the house keeps its order under everything that happens in a   *)
(* run, the frightened window and the blue ghosts agree, the events of a   *)
(* tick fit the bus, and a run is what Run promises.                       *)
(***************************************************************************)
EXTENDS Game, TLAPS, FiniteSetTheorems, SequenceTheorems

-----------------------------------------------------------------------------
(* The ghost house *)

\* A drawn duration is never zero unless its nominal one is.
LEMMA JitteredPositive ==
  ASSUME NEW n \in Nat \ {0}, NEW d \in Jittered(n)
  PROVE  d \in Nat \ {0}
  BY HouseAssumption DEF Jittered

\* A drawn limit is zero exactly where the table says zero.
LEMMA DotLimitsZero ==
  ASSUME NEW n \in Nat, NEW d \in DotLimits(n)
  PROVE  d \in Nat /\ (d = 0 <=> n = 0)
<1>1. CASE n = 0
  BY <1>1 DEF DotLimits
<1>2. CASE n # 0
  <2>1. PICK m \in n - DotJitter .. n + DotJitter : d = IF m < 1 THEN 1 ELSE m
    BY <1>2 DEF DotLimits
  <2>2. m \in Int
    BY <2>1, HouseAssumption
  <2> QED
    BY <1>2, <2>1, <2>2
<1> QED
  BY <1>1, <1>2

LEMMA HouseGhosts == StartsInHouse \subseteq {1, 2, 3} /\ StartsInHouse \subseteq Ghosts
  BY HouseAssumption DEF Ghosts, GHOST_BLINKY

\* The most preferred of those waiting.
LEMMA WaitingGhostIsFirst ==
  ASSUME waiting \subseteq StartsInHouse, waiting # {}
  PROVE  /\ WaitingGhost \in waiting
         /\ \A h \in waiting : WaitingGhost <= h
<1>1. \E g \in waiting : \A h \in waiting : g <= h
  <2>1. waiting \subseteq {1, 2, 3}
    BY HouseGhosts
  <2>2. CASE 1 \in waiting
    BY <2>1, <2>2
  <2>3. CASE 1 \notin waiting /\ 2 \in waiting
    BY <2>1, <2>3
  <2>4. CASE 1 \notin waiting /\ 2 \notin waiting
    <3>1. \A h \in waiting : h = 3
      BY <2>1, <2>4
    <3>2. PICK g : g \in waiting
      BY Zenon
    <3> QED
      BY <3>1, <3>2
  <2> QED
    BY <2>2, <2>3, <2>4
<1> DEFINE First(g) == g \in waiting /\ \A h \in waiting : g <= h
<1>2. WaitingGhost = CHOOSE g : First(g)
  BY Zenon DEF WaitingGhost
<1>3. \E g : First(g)
  BY <1>1
<1> HIDE DEF First
<1>4. First(WaitingGhost)
  BY <1>2, <1>3, Zenon
<1> QED
  BY <1>4 DEF First

\* What drawing the house at some level leaves behind.
LEMMA DrawnHouse ==
  ASSUME NEW l \in 1 .. Levels, DrawHouse(l)
  PROVE  /\ dots_idle' = 0 /\ house_idle_limit' \in Nat \ {0}
         /\ ghost_dot_limit' \in [Ghosts -> Nat]
         /\ \A g \in Ghosts : ghost_dot_limit'[g] = 0 <=> DotLimit[l][g] = 0
<1>1. house_idle_limit' \in Nat \ {0}
  <2>1. IdleLimit[l] \in Nat \ {0}
    BY HouseAssumption
  <2> QED
    BY <2>1, JitteredPositive DEF DrawHouse
<1>2. ASSUME NEW g \in Ghosts
      PROVE  /\ ghost_dot_limit'[g] \in Nat
             /\ ghost_dot_limit'[g] = 0 <=> DotLimit[l][g] = 0
  <2>1. DotLimit[l][g] \in Nat
    BY HouseAssumption
  <2>2. ghost_dot_limit'[g] \in DotLimits(DotLimit[l][g])
    BY DEF DrawHouse
  <2> QED
    BY <2>1, <2>2, DotLimitsZero
<1>3. ghost_dot_limit' \in [Ghosts -> Nat]
  <2>1. ghost_dot_limit' = [g \in Ghosts |-> ghost_dot_limit'[g]]
    BY DEF DrawHouse
  <2> QED
    BY <1>2, <2>1
<1> QED
  BY <1>1, <1>2, <1>3 DEF DrawHouse

-----------------------------------------------------------------------------
(* What the house keeps to, whoever drives it: HouseInv without the level, the
   lives and the pellets, which are the environment's. *)

HouseShape ==
  /\ waiting \subseteq StartsInHouse
  /\ ghost_dot_limit \in [Ghosts -> Nat]
  /\ ghost_dot_counter \in [Ghosts -> Nat]
  /\ global_dot_counter \in Nat
  /\ is_global_dot_counter_active \in BOOLEAN
  /\ dots_idle \in Nat /\ house_idle_limit \in Nat
  /\ dots_idle < house_idle_limit

HouseFacts == HouseShape /\ ReleasedInOrder /\ WaitersNotDue

\* A level that loads: whoever has a limit waits for it with a count of zero.
LEMMA LoadHouseFacts ==
  ASSUME NEW l \in 1 .. Levels, LoadHouse(l)
  PROVE  HouseFacts'
<1>1. DrawHouse(l)
  BY DEF LoadHouse
<1>2. HouseShape'
  <2>1. is_global_dot_counter_active' \in BOOLEAN
    BY Zenon DEF LoadHouse
  <2> QED
    BY <1>1, <2>1, DrawnHouse DEF LoadHouse, HouseShape
<1>3. ReleasedInOrder'
  <2> SUFFICES ASSUME NEW g \in StartsInHouse, NEW h \in StartsInHouse,
                      g < h, g \in waiting'
               PROVE  h \in waiting'
    BY DEF ReleasedInOrder
  <2>1. g \in Ghosts /\ h \in Ghosts
    BY HouseGhosts
  <2>2. DotLimit[l][g] \in Nat /\ DotLimit[l][h] \in Nat
    BY <2>1, HouseAssumption
  <2>3. DotLimit[l][g] # 0
    BY <1>1, <2>1, DrawnHouse DEF LoadHouse
  <2>4. DotLimit[l][h] # 0
    BY <2>2, <2>3, TablesInOrder
  <2> QED
    BY <1>1, <2>1, <2>4, DrawnHouse DEF LoadHouse
<1>4. WaitersNotDue'
  <2>1. ~is_global_dot_counter_active'
    BY Zenon DEF LoadHouse
  <2> SUFFICES ASSUME NEW g \in waiting'
               PROVE  ghost_dot_counter'[g] < ghost_dot_limit'[g]
    BY <2>1 DEF WaitersNotDue
  <2>2. g \in Ghosts /\ ghost_dot_limit'[g] # 0
    BY HouseGhosts DEF LoadHouse
  <2>3. ghost_dot_limit'[g] \in Nat
    BY <1>1, <2>2, DrawnHouse
  <2> QED
    BY <2>2, <2>3 DEF LoadHouse
<1> QED
  BY <1>2, <1>3, <1>4 DEF HouseFacts

\* A death: everyone is back, and the global counter starts at zero.
LEMMA RefillHouseFacts ==
  ASSUME HouseFacts, level \in 1 .. Levels, RefillHouse
  PROVE  HouseFacts'
<1>1. DrawHouse(level)
  BY DEF RefillHouse
<1>2. is_global_dot_counter_active' = TRUE
  BY Zenon DEF RefillHouse
<1>3. HouseShape'
  BY <1>1, <1>2, DrawnHouse DEF RefillHouse, HouseShape, HouseFacts
<1>4. ReleasedInOrder'
  BY DEF RefillHouse, ReleasedInOrder
<1>5. WaitersNotDue'
  <2> SUFFICES ASSUME NEW g \in waiting'
               PROVE  global_dot_counter' < GlobalRelease[g]
    BY <1>2 DEF WaitersNotDue
  <2>1. GlobalRelease[g] \in Nat \ {0}
    BY HouseAssumption DEF RefillHouse
  <2> QED
    BY <2>1 DEF RefillHouse
<1> QED
  BY <1>3, <1>4, <1>5 DEF HouseFacts

\* Whoever the idle timer or a counter lets out first, the rest keep in order.
LEMMA FirstReleasedInOrder ==
  ASSUME HouseFacts, waiting # {}, waiting' = waiting \ {WaitingGhost}
  PROVE  ReleasedInOrder'
<1> SUFFICES ASSUME NEW g \in StartsInHouse, NEW h \in StartsInHouse,
                    g < h, g \in waiting, g # WaitingGhost
             PROVE  h \in waiting /\ h # WaitingGhost
  BY DEF ReleasedInOrder
<1>1. h \in waiting
  BY DEF HouseFacts, ReleasedInOrder
<1>2. WaitingGhost <= g /\ WaitingGhost \in {1, 2, 3} /\ g \in {1, 2, 3} /\ h \in {1, 2, 3}
  BY WaitingGhostIsFirst, HouseGhosts DEF HouseFacts, HouseShape
<1> QED
  BY <1>1, <1>2

-----------------------------------------------------------------------------
(* A pellet is eaten. *)

\* At Clyde's release point nobody else is left waiting: their own are lower,
\* and the counter has not passed them.
LEMMA ClydeIsLast ==
  ASSUME HouseFacts, is_global_dot_counter_active,
         ClydeIsDue(global_dot_counter + 1)
  PROVE  waiting = {GHOST_CLYDE}
<1> SUFFICES ASSUME NEW g \in waiting, g # 3
             PROVE  FALSE
  BY DEF ClydeIsDue, GHOST_CLYDE
<1>1. g \in StartsInHouse /\ 3 \in StartsInHouse
  BY DEF HouseFacts, HouseShape, ClydeIsDue, GHOST_CLYDE
<1>2. g < 3
  BY <1>1, HouseGhosts
<1>3. GlobalRelease[g] < GlobalRelease[3]
  BY <1>1, <1>2, TablesInOrder
<1>4. global_dot_counter < GlobalRelease[g]
  BY DEF HouseFacts, WaitersNotDue
<1>5. global_dot_counter + 1 >= GlobalRelease[3]
  BY DEF ClydeIsDue, GHOST_CLYDE
<1>6. /\ global_dot_counter \in Nat
      /\ GlobalRelease[g] \in Nat /\ GlobalRelease[3] \in Nat
  BY <1>1, HouseAssumption DEF HouseFacts, HouseShape
<1> QED
  BY <1>3, <1>4, <1>5, <1>6

\* The global counter: whoever it passes is let out in the same step.
LEMMA CountGloballyKeeps ==
  ASSUME HouseFacts, CountGlobally, dots_idle' = 0,
         UNCHANGED <<ghost_dot_limit, house_idle_limit>>
  PROVE  HouseFacts'
<1> DEFINE count == global_dot_counter + 1
<1>1. HouseShape /\ waiting # {}
  BY DEF HouseFacts, CountGlobally
<1>2. is_global_dot_counter_active /\ ghost_dot_counter' = ghost_dot_counter
  BY Zenon DEF CountGlobally
<1>3. CASE /\ ClydeIsDue(count)
           /\ waiting' = waiting \ {GHOST_CLYDE}
           /\ is_global_dot_counter_active' = FALSE /\ global_dot_counter' = 0
  <2>1. waiting' = {}
    BY <1>2, <1>3, ClydeIsLast
  <2>2. is_global_dot_counter_active' \in BOOLEAN
    BY <1>3, Zenon
  <2>3. HouseShape'
    BY <1>1, <1>2, <1>3, <2>1, <2>2 DEF HouseShape
  <2> QED
    BY <2>1, <2>3 DEF HouseFacts, ReleasedInOrder, WaitersNotDue
<1>4. CASE /\ ~ClydeIsDue(count)
           /\ waiting' = IF NextIsDue(count) THEN waiting \ {WaitingGhost}
                                             ELSE waiting
           /\ global_dot_counter' = count
           /\ UNCHANGED is_global_dot_counter_active
  <2>1. is_global_dot_counter_active' /\ is_global_dot_counter_active' \in BOOLEAN
    BY <1>1, <1>2, <1>4, Zenon DEF HouseShape
  <2>2. HouseShape'
    BY <1>1, <1>2, <1>4, <2>1 DEF HouseShape
  <2>3. ReleasedInOrder'
    <3>1. CASE NextIsDue(count)
      BY <1>1, <1>4, <3>1, FirstReleasedInOrder
    <3>2. CASE ~NextIsDue(count)
      BY <1>4, <3>2 DEF HouseFacts, ReleasedInOrder
    <3> QED
      BY <3>1, <3>2
  <2>4. ASSUME NEW g \in waiting'
        PROVE  count < GlobalRelease[g]
    <3>1. g \in waiting /\ g \in StartsInHouse /\ g \in {1, 2, 3}
      BY <1>1, <1>4, HouseGhosts DEF HouseShape
    <3>2. /\ GlobalRelease[g] \in Nat /\ count \in Nat
          /\ \A h \in waiting : GlobalRelease[h] \in Nat
      BY <1>1, <3>1, HouseAssumption DEF HouseShape
    <3>3. CASE g = 3
      BY <1>4, <3>1, <3>2, <3>3 DEF ClydeIsDue, GHOST_CLYDE
    <3>4. CASE g # 3
      <4> DEFINE w == WaitingGhost
      <4>1. w \in waiting /\ w <= g /\ w \in {1, 2, 3}
        BY <1>1, <3>1, WaitingGhostIsFirst, HouseGhosts DEF HouseShape
      <4>2. w \in {1, 2}
        BY <3>1, <3>4, <4>1
      <4>3. GlobalRelease[w] <= GlobalRelease[g]
        <5>1. CASE w = g
          BY <3>2, <5>1
        <5>2. CASE w < g
          BY <1>1, <3>1, <3>2, <4>1, <5>2, TablesInOrder DEF HouseShape
        <5> QED
          BY <3>1, <4>1, <5>1, <5>2
      <4>4. CASE NextIsDue(count)
        \* one step past w's point: g is another, with a higher one
        <5>1. w # g
          BY <1>4, <4>4
        <5>2. GlobalRelease[w] < GlobalRelease[g]
          BY <1>1, <3>1, <4>1, <5>1, TablesInOrder DEF HouseShape
        <5>3. global_dot_counter < GlobalRelease[w]
          BY <1>2, <4>1 DEF HouseFacts, WaitersNotDue
        <5> QED
          BY <1>1, <3>2, <4>1, <5>2, <5>3 DEF HouseShape
      <4>5. CASE ~NextIsDue(count)
        <5>1. count < GlobalRelease[w]
          BY <3>2, <4>1, <4>2, <4>5 DEF NextIsDue, GHOST_PINKY, GHOST_INKY
        <5> QED
          BY <3>2, <4>1, <4>3, <5>1
      <4> QED
        BY <4>4, <4>5
    <3> QED
      BY <3>3, <3>4
  <2>5. WaitersNotDue'
    BY <1>4, <2>1, <2>4 DEF WaitersNotDue
  <2> QED
    BY <2>2, <2>3, <2>5 DEF HouseFacts
<1> QED
  BY <1>3, <1>4 DEF CountGlobally

\* A personal counter: only the next in line's moves, and at its limit he goes.
LEMMA CountPersonallyKeeps ==
  ASSUME HouseFacts, CountPersonally, dots_idle' = 0,
         UNCHANGED <<ghost_dot_limit, house_idle_limit>>
  PROVE  HouseFacts'
<1> DEFINE w == WaitingGhost
           count == ghost_dot_counter[w] + 1
<1>1. HouseShape /\ waiting # {}
  BY DEF HouseFacts, CountPersonally
<1>2. ~is_global_dot_counter_active /\ ~is_global_dot_counter_active'
      /\ is_global_dot_counter_active' \in BOOLEAN
  BY <1>1, Zenon DEF CountPersonally, HouseShape
<1>3. w \in waiting /\ w \in Ghosts
  BY <1>1, WaitingGhostIsFirst, HouseGhosts DEF HouseShape
<1>4. /\ ghost_dot_counter' = [ghost_dot_counter EXCEPT ![w] = count]
      /\ waiting' = IF count >= ghost_dot_limit[w] THEN waiting \ {w} ELSE waiting
      /\ global_dot_counter' = global_dot_counter
  BY DEF CountPersonally
<1>5. HouseShape'
  <2>1. ghost_dot_counter' \in [Ghosts -> Nat]
    BY <1>1, <1>3, <1>4 DEF HouseShape
  <2>2. waiting' \subseteq StartsInHouse
    BY <1>1, <1>4 DEF HouseShape
  <2> QED
    BY <1>1, <1>2, <1>4, <2>1, <2>2 DEF HouseShape
<1>6. ReleasedInOrder'
  <2>1. CASE count >= ghost_dot_limit[w]
    BY <1>1, <1>4, <2>1, FirstReleasedInOrder
  <2>2. CASE ~(count >= ghost_dot_limit[w])
    BY <1>4, <2>2 DEF HouseFacts, ReleasedInOrder
  <2> QED
    BY <2>1, <2>2
<1>7. ASSUME NEW g \in waiting'
      PROVE  ghost_dot_counter'[g] < ghost_dot_limit[g]
  <2>1. g \in waiting /\ g \in Ghosts
    BY <1>1, <1>4, HouseGhosts DEF HouseShape
  <2>2. ghost_dot_counter[g] \in Nat /\ ghost_dot_limit[g] \in Nat
    BY <1>1, <2>1 DEF HouseShape
  <2>3. CASE g = w
    BY <1>1, <1>3, <1>4, <2>1, <2>2, <2>3 DEF HouseShape
  <2>4. CASE g # w
    <3>1. ghost_dot_counter'[g] = ghost_dot_counter[g]
      BY <1>1, <1>4, <2>1, <2>4 DEF HouseShape
    <3> QED
      BY <1>2, <2>1, <3>1 DEF HouseFacts, WaitersNotDue
  <2> QED
    BY <2>3, <2>4
<1>8. WaitersNotDue'
  BY <1>2, <1>7 DEF WaitersNotDue
<1> QED
  BY <1>5, <1>6, <1>8 DEF HouseFacts

LEMMA CountDotKeeps ==
  ASSUME HouseFacts, CountDot
  PROVE  HouseFacts'
<1>1. CASE NobodyWaits
  <2>1. UNCHANGED counters
    BY <1>1, Zenon DEF NobodyWaits
  <2>2. /\ is_global_dot_counter_active' = is_global_dot_counter_active
        /\ ghost_dot_counter' = ghost_dot_counter
        /\ global_dot_counter' = global_dot_counter
    BY <2>1, Zenon DEF counters
  <2>3. waiting = {} /\ waiting' = {}
    BY <1>1 DEF NobodyWaits
  <2>4. HouseShape'
    BY <2>2, <2>3 DEF CountDot, HouseShape, HouseFacts
  <2> QED
    BY <2>3, <2>4 DEF HouseFacts, ReleasedInOrder, WaitersNotDue
<1> QED
  BY <1>1, CountGloballyKeeps, CountPersonallyKeeps DEF CountDot

\* The idle timer lets out the first, and moves no counter.
LEMMA IdleKeeps ==
  ASSUME HouseFacts, AdvanceHouseIdleTimer
  PROVE  HouseFacts'
<1>1. HouseShape
  BY DEF HouseFacts
<1>2. UNCHANGED counters
  BY Zenon DEF AdvanceHouseIdleTimer
<1>3. /\ is_global_dot_counter_active' = is_global_dot_counter_active
      /\ ghost_dot_counter' = ghost_dot_counter
      /\ global_dot_counter' = global_dot_counter
  BY <1>2, Zenon DEF counters
<1>4. waiting' \subseteq waiting
  BY DEF AdvanceHouseIdleTimer
<1>5. HouseShape'
  BY <1>1, <1>3, <1>4 DEF HouseShape, AdvanceHouseIdleTimer
<1>6. ReleasedInOrder'
  <2>1. CASE waiting' = waiting
    BY <2>1 DEF HouseFacts, ReleasedInOrder
  <2>2. CASE waiting # {} /\ waiting' = waiting \ {WaitingGhost}
    BY <2>2, FirstReleasedInOrder
  <2> QED
    BY <2>1, <2>2 DEF AdvanceHouseIdleTimer
<1>7. WaitersNotDue'
  <2>1. ghost_dot_limit' = ghost_dot_limit
    BY DEF AdvanceHouseIdleTimer
  <2> QED
    BY <1>3, <1>4, <2>1 DEF HouseFacts, WaitersNotDue
<1> QED
  BY <1>5, <1>6, <1>7 DEF HouseFacts

-----------------------------------------------------------------------------
\* HouseInv is inductive as it stands; the facts and the environment's part.
HouseSurroundings ==
  level \in 1 .. Levels /\ lives \in 0 .. StartingLives /\ remaining \in 0 .. TotalPellets

LEMMA HouseInvParts == HouseInv <=> HouseSurroundings /\ HouseFacts
  BY DEF HouseInv, HouseTypeOK, HouseSurroundings, HouseFacts, HouseShape

\* The house as the first level is loaded.
LEMMA HouseLoadedFacts == HouseLoaded => HouseFacts
<1> SUFFICES ASSUME HouseLoaded
             PROVE  HouseFacts
  OBVIOUS
<1> USE DEF HouseLoaded
<1>1. 1 \in 1 .. Levels
  BY HouseAssumption
<1>2. ASSUME NEW g \in Ghosts
      PROVE  /\ ghost_dot_limit[g] \in Nat
             /\ ghost_dot_limit[g] = 0 <=> DotLimit[1][g] = 0
  <2>1. DotLimit[1][g] \in Nat /\ ghost_dot_limit[g] \in DotLimits(DotLimit[1][g])
    BY <1>1, HouseAssumption
  <2> QED
    BY <2>1, DotLimitsZero
<1>3. HouseShape
  <2>1. house_idle_limit \in Nat \ {0}
    BY <1>1, HouseAssumption, JitteredPositive
  <2>2. ghost_dot_limit \in [Ghosts -> Nat]
    <3>1. ghost_dot_limit = [g \in Ghosts |-> ghost_dot_limit[g]]
      OBVIOUS
    <3> QED
      BY <1>2, <3>1
  <2>3. is_global_dot_counter_active \in BOOLEAN
    BY Zenon
  <2> QED
    BY <2>1, <2>2, <2>3 DEF HouseShape
<1>4. ReleasedInOrder
  <2> SUFFICES ASSUME NEW g \in StartsInHouse, NEW h \in StartsInHouse,
                      g < h, g \in waiting
               PROVE  h \in waiting
    BY DEF ReleasedInOrder
  <2>1. g \in Ghosts /\ h \in Ghosts
    BY HouseGhosts
  <2>2. DotLimit[1][g] \in Nat /\ DotLimit[1][h] \in Nat /\ DotLimit[1][g] # 0
    BY <1>1, <1>2, <2>1, HouseAssumption
  <2>3. DotLimit[1][h] # 0
    BY <1>1, <2>2, TablesInOrder
  <2> QED
    BY <1>2, <2>1, <2>3
<1>5. WaitersNotDue
  <2>1. ~is_global_dot_counter_active
    BY Zenon
  <2> SUFFICES ASSUME NEW g \in waiting
               PROVE  ghost_dot_counter[g] < ghost_dot_limit[g]
    BY <2>1 DEF WaitersNotDue
  <2>2. g \in Ghosts /\ ghost_dot_limit[g] # 0
    BY HouseGhosts
  <2>3. ghost_dot_limit[g] \in Nat
    BY <1>2, <2>2
  <2> QED
    BY <2>2, <2>3
<1> QED
  BY <1>3, <1>4, <1>5 DEF HouseFacts

LEMMA HouseInvInit == HouseInit => HouseInv
<1>1. HouseInit => HouseSurroundings
  BY HouseAssumption DEF HouseInit, HouseLoaded, HouseSurroundings
<1> QED
  BY <1>1, HouseLoadedFacts, HouseInvParts DEF HouseInit

LEMMA HouseFactsUnchanged ==
  ASSUME HouseFacts, UNCHANGED houseVars
  PROVE  HouseFacts'
<1>1. UNCHANGED counters /\ UNCHANGED waiting /\ UNCHANGED ghost_dot_limit
      /\ UNCHANGED dots_idle /\ UNCHANGED house_idle_limit
  BY Zenon DEF houseVars
<1>2. UNCHANGED ghost_dot_counter /\ UNCHANGED global_dot_counter
      /\ UNCHANGED is_global_dot_counter_active
  BY <1>1, Zenon DEF counters
<1> QED
  BY <1>1, <1>2, Zenon DEF HouseFacts, HouseShape, ReleasedInOrder, WaitersNotDue

LEMMA HouseInvNext == HouseInv /\ [HouseNext]_allHouseVars => HouseInv'
<1> SUFFICES ASSUME HouseSurroundings, HouseFacts, [HouseNext]_allHouseVars
             PROVE  HouseSurroundings' /\ HouseFacts'
  <2>1. HouseSurroundings' /\ HouseFacts' => HouseInv'
    BY DEF HouseInv, HouseTypeOK, HouseSurroundings, HouseFacts, HouseShape
  <2> QED
    BY <2>1, HouseInvParts
<1>1. CASE EatDot
  <2>1. HouseSurroundings'
    BY <1>1, HouseAssumption DEF EatDot, IsRunning, HouseSurroundings
  <2> QED
    BY <1>1, <2>1, CountDotKeeps DEF EatDot
<1>2. CASE LoseLife
  <2>1. HouseSurroundings'
    BY <1>2, HouseAssumption DEF LoseLife, IsRunning, HouseSurroundings
  <2>2. CASE UNCHANGED houseVars
    BY <2>1, <2>2, HouseFactsUnchanged
  <2>3. CASE RefillHouse
    BY <2>1, <2>3, RefillHouseFacts DEF HouseSurroundings
  <2> QED
    BY <1>2, <2>2, <2>3 DEF LoseLife
<1>3. CASE NextLevel
  <2>1. HouseSurroundings' /\ level + 1 \in 1 .. Levels
    BY <1>3, HouseAssumption DEF NextLevel, HouseSurroundings
  <2> QED
    BY <1>3, <2>1, LoadHouseFacts DEF NextLevel
<1>4. CASE IdleTick
  <2>1. HouseSurroundings'
    BY <1>4 DEF IdleTick, HouseSurroundings
  <2> QED
    BY <1>4, <2>1, IdleKeeps DEF IdleTick
<1>5. CASE UNCHANGED allHouseVars
  <2>1. HouseSurroundings'
    BY <1>5 DEF allHouseVars, HouseSurroundings
  <2>2. UNCHANGED houseVars
    BY <1>5, Zenon DEF allHouseVars
  <2> QED
    BY <2>1, <2>2, HouseFactsUnchanged
<1> QED
  BY <1>1, <1>2, <1>3, <1>4, <1>5 DEF HouseNext

-----------------------------------------------------------------------------
\* The house is of its type, whatever the tables of levels say.
THEOREM HouseTypeSafe == HouseSpec => []HouseTypeOK
<1>1. HouseInv => HouseTypeOK
  BY DEF HouseInv
<1> QED
  BY <1>1, HouseInvInit, HouseInvNext, PTL DEF HouseSpec

\* Pinky, Inky and Clyde leave in that order, whichever mechanism releases them
\* (prv_count_dot_for_the_house, prv_advance_house_idle_timer).
THEOREM HouseReleasedInOrder == HouseSpec => []ReleasedInOrder
<1>1. HouseInv => ReleasedInOrder
  BY DEF HouseInv
<1> QED
  BY <1>1, HouseInvInit, HouseInvNext, PTL DEF HouseSpec

\* Nobody is kept in once the counter he waits for is at his figure.
THEOREM HouseWaitersNotDue == HouseSpec => []WaitersNotDue
<1>1. HouseInv => WaitersNotDue
  BY DEF HouseInv
<1> QED
  BY <1>1, HouseInvInit, HouseInvNext, PTL DEF HouseSpec

\* The global counter is handed back in an empty house only.
THEOREM HouseHandsBackEmpty == HouseSpec => HandedBackEmpty
<1>1. HouseInv /\ [HouseNext]_allHouseVars
        => [is_global_dot_counter_active /\ ~is_global_dot_counter_active'
              /\ level' = level => waiting' = {}]_allHouseVars
  <2> SUFFICES ASSUME HouseFacts, HouseSurroundings, HouseNext,
                      is_global_dot_counter_active,
                      ~is_global_dot_counter_active', level' = level
               PROVE  waiting' = {}
    BY HouseInvParts
  <2>1. CASE EatDot
    <3>1. CASE NobodyWaits
      BY <3>1 DEF NobodyWaits
    <3>2. CASE CountGlobally
      <4>1. CASE /\ ClydeIsDue(global_dot_counter + 1)
                 /\ waiting' = waiting \ {GHOST_CLYDE}
        BY <4>1, ClydeIsLast
      <4>2. CASE UNCHANGED is_global_dot_counter_active
        BY <4>2, Zenon
      <4> QED
        BY <3>2, <4>1, <4>2 DEF CountGlobally
    <3>3. CASE CountPersonally
      BY <3>3, Zenon DEF CountPersonally
    <3> QED
      BY <2>1, <3>1, <3>2, <3>3, Zenon DEF EatDot, CountDot
  <2>2. CASE LoseLife
    <3>1. CASE UNCHANGED houseVars
      BY <3>1, Zenon DEF houseVars, counters
    <3>2. CASE RefillHouse
      BY <3>2, Zenon DEF RefillHouse
    <3> QED
      BY <2>2, <3>1, <3>2 DEF LoseLife
  <2>3. CASE NextLevel
    BY <2>3 DEF NextLevel, HouseSurroundings
  <2>4. CASE IdleTick
    BY <2>4, Zenon DEF IdleTick, AdvanceHouseIdleTimer, counters
  <2> QED
    BY <2>1, <2>2, <2>3, <2>4, Zenon DEF HouseNext
<1> QED
  BY <1>1, HouseInvInit, HouseInvNext, PTL DEF HouseSpec, HandedBackEmpty

-----------------------------------------------------------------------------
(* The run *)

\* Where in game_tick a run is on.
Playing == {"pacman", "pacman_meets", "cleared", "ghosts", "ghost_meets"}

Progress ==
  /\ level \in 1 .. Levels /\ turn \in Nat
  /\ pc \in Playing => state = "RUNNING"

Field == pellets \subseteq Pellets /\ remaining = Cardinality(pellets)

Board ==
  /\ pacman \in Cells /\ ghosts \in [Ghosts -> Cells]
  /\ HouseFlagsAgree /\ MeetingsSettled

\* Whoever waits is behind the gate, and whoever Pacman meets is not: so that
\* no meeting disturbs the queue in the house.
GameInv == Progress /\ Field /\ Board /\ HouseFacts

-----------------------------------------------------------------------------
(* Steps *)

\* Pacman does not get into the house: the gate is its only door.
LEMMA PacmanStaysOut ==
  ASSUME NEW c \in Cells \ House, NEW d \in PacmanReach(c)
  PROVE  d \in Cells \ House
<1>1. d = c \/ (d \in Neighbours[c] /\ d \notin Gate)
  BY DEF PacmanReach
<1>2. d \in Cells
  BY <1>1, ReachAssumption
<1>3. d \notin House
  BY <1>1, <1>2, ReachAssumption
<1> QED BY <1>2, <1>3

\* Nor does a ghost that is out.
LEMMA GhostStaysOut ==
  ASSUME NEW c \in Cells, NEW is_in \in BOOLEAN, NEW d \in GhostReach(c, is_in)
  PROVE  d \in Cells /\ (c \notin House /\ ~is_in => d \notin House)
<1>1. d \in Neighbours[c] /\ (~is_in => d \notin Gate)
  BY DEF GhostReach
<1>2. d \in Cells
  BY <1>1, ReachAssumption
<1> QED BY <1>1, <1>2, ReachAssumption

\* The names inside the tuples of what an action leaves alone.
LEMMA HouseUntouched ==
  ASSUME UNCHANGED allHouseVars
  PROVE  /\ UNCHANGED level /\ UNCHANGED lives /\ UNCHANGED remaining
         /\ UNCHANGED houseVars /\ UNCHANGED waiting
  BY Zenon DEF allHouseVars, houseVars

LEMMA BoardUntouched ==
  ASSUME UNCHANGED board
  PROVE  UNCHANGED pacman /\ UNCHANGED ghosts /\ UNCHANGED in_house /\ UNCHANGED mode
  BY Zenon DEF board

LEMMA RulesUntouched ==
  ASSUME UNCHANGED rules
  PROVE  UNCHANGED state /\ UNCHANGED config
  BY Zenon DEF rules

-----------------------------------------------------------------------------
(* Placing everybody *)

\* Nobody starts on Pacman's cell, and who starts behind the gate is flagged.
LEMMA StartsAgree ==
  /\ PacmanStart \in Cells /\ PacmanStart \notin House
  /\ GhostStart \in [Ghosts -> Cells]
  /\ \A g \in Ghosts : GhostStart[g] # PacmanStart
  /\ StartsInHouse = {g \in Ghosts : GhostStart[g] \in House}
  BY GameAssumption, HouseGhosts

LEMMA PlacedBoard ==
  ASSUME PlaceEntities, waiting' \subseteq StartsInHouse
  PROVE  Board'
<1>1. pacman' = PacmanStart /\ ghosts' = GhostStart /\ in_house' = StartsInHouse
  BY DEF PlaceEntities
<1>2. HouseFlagsAgree'
  BY <1>1, StartsAgree DEF HouseFlagsAgree
<1>3. MeetingsSettled'
  BY <1>1, StartsAgree DEF MeetingsSettled
<1> QED BY <1>1, <1>2, <1>3, StartsAgree DEF Board

LEMMA LoadedLevel ==
  ASSUME NEW l \in 1 .. Levels, LoadLevel(l)
  PROVE  level' \in 1 .. Levels /\ Field' /\ Board' /\ HouseFacts'
<1>1. level' = l /\ Field'
  BY DEF LoadLevel, Field
<1>2. LoadHouse(l) /\ PlaceEntities
  BY DEF LoadLevel
<1>3. waiting' \subseteq StartsInHouse
  BY <1>2 DEF LoadHouse
<1> QED BY <1>1, <1>2, <1>3, PlacedBoard, LoadHouseFacts

-----------------------------------------------------------------------------
(* Meetings *)

\* No ghost that Pacman eats is waiting in the house.
LEMMA EatenDoNotWait ==
  ASSUME Board PROVE waiting \ Eaten = waiting
  BY DEF Board, HouseFlagsAgree, Eaten, Met

\* The pen is behind the gate.
LEMMA PenIsHouse ==
  GHOST_PINKY \in Ghosts /\ GhostStart[GHOST_PINKY] \in House
                         /\ GhostStart[GHOST_PINKY] \in Cells
<1>1. GHOST_PINKY \in StartsInHouse
  BY GameAssumption, HouseAssumption DEF GHOST_PINKY, GHOST_BLINKY
<1> QED BY <1>1, GameAssumption

LEMMA PenKeepsBoard ==
  ASSUME Board, SendToPen(Eaten), UNCHANGED pacman
  PROVE  /\ ghosts' \in [Ghosts -> Cells] /\ HouseFlagsAgree' /\ waiting' = waiting
         /\ \A g \in Ghosts :
              ghosts'[g] = IF g \in Eaten THEN GhostStart[GHOST_PINKY] ELSE ghosts[g]
<1>1. \A g \in Ghosts :
        ghosts'[g] = IF g \in Eaten THEN GhostStart[GHOST_PINKY] ELSE ghosts[g]
  BY DEF SendToPen
<1>2. waiting' = waiting /\ in_house' = in_house \cup Eaten
  BY EatenDoNotWait DEF SendToPen
<1>3. ghosts' \in [Ghosts -> Cells]
  BY PenIsHouse DEF SendToPen, Board
<1>4. HouseFlagsAgree'
  <2>1. Eaten \subseteq Ghosts
    BY DEF Eaten, Met
  <2>2. in_house' = {g \in Ghosts : ghosts'[g] \in House}
    BY <1>1, <1>2, <2>1, PenIsHouse DEF Board, HouseFlagsAgree
  <2>3. waiting' \subseteq in_house' /\ pacman' \notin House
    BY <1>2 DEF Board, HouseFlagsAgree
  <2> QED BY <2>2, <2>3 DEF HouseFlagsAgree
<1> QED BY <1>1, <1>2, <1>3, <1>4

LEMMA ResolveKeeps ==
  ASSUME GameInv, ResolveMeetings
  PROVE  /\ Board' /\ HouseFacts' /\ Field' /\ level' \in 1 .. Levels
         /\ UNCHANGED turn
<1>1. /\ UNCHANGED config /\ UNCHANGED pellets /\ UNCHANGED level
      /\ UNCHANGED remaining /\ UNCHANGED turn
  BY DEF ResolveMeetings
<1>2. Field' /\ level' \in 1 .. Levels
  BY <1>1 DEF GameInv, Field, Progress
<1>3. CASE Killers = {} /\ SendToPen(Eaten)
            /\ UNCHANGED <<state, lives, pacman, clocks, fresh, ghost_dot_limit,
                           counters, dots_idle, house_idle_limit>>
  <2>1. /\ ghosts' \in [Ghosts -> Cells] /\ HouseFlagsAgree' /\ waiting' = waiting
        /\ \A g \in Ghosts :
             ghosts'[g] = IF g \in Eaten THEN GhostStart[GHOST_PINKY] ELSE ghosts[g]
    BY <1>3, PenKeepsBoard DEF GameInv
  <2>2. ASSUME NEW g \in Ghosts, config.has_ghosts
        PROVE  ghosts'[g] # pacman'
    <3>1. g \notin Eaten => ghosts[g] # pacman
      BY <1>3, <2>2 DEF Eaten, Met
    <3>2. GhostStart[GHOST_PINKY] # pacman
      BY PenIsHouse DEF GameInv, Board, HouseFlagsAgree
    <3> QED BY <1>3, <2>1, <3>1, <3>2
  <2>3. MeetingsSettled'
    BY <1>1, <2>2 DEF MeetingsSettled
  <2>4. HouseFacts'
    <3>1. UNCHANGED houseVars
      BY <1>3, <2>1 DEF houseVars
    <3> QED BY <3>1, HouseFactsUnchanged DEF GameInv
  <2>5. pacman' \in Cells
    BY <1>3 DEF GameInv, Board
  <2> QED BY <1>1, <1>2, <2>1, <2>3, <2>4, <2>5 DEF Board
<1>4. CASE LastLifeLost
  <2>1. state' = "OVER" /\ SendToPen(Eaten) /\ UNCHANGED pacman
    BY <1>4 DEF LastLifeLost
  <2>2. ghosts' \in [Ghosts -> Cells] /\ HouseFlagsAgree' /\ waiting' = waiting
    BY <2>1, PenKeepsBoard DEF GameInv
  <2>3. MeetingsSettled'
    BY <2>1 DEF MeetingsSettled
  <2>4. HouseFacts'
    <3>1. UNCHANGED houseVars
      BY <1>4, <2>2 DEF LastLifeLost, houseVars
    <3> QED BY <3>1, HouseFactsUnchanged DEF GameInv
  <2>5. pacman' \in Cells
    BY <2>1 DEF GameInv, Board
  <2> QED BY <1>1, <1>2, <2>2, <2>3, <2>4, <2>5 DEF Board
<1>5. CASE LifeLost
  <2>1. PlaceEntities /\ RefillHouse
    BY <1>5 DEF LifeLost
  <2>2. waiting' \subseteq StartsInHouse
    BY <2>1 DEF RefillHouse
  <2> QED
    BY <1>1, <1>2, <2>1, <2>2, PlacedBoard, RefillHouseFacts DEF GameInv, Progress
<1> QED BY <1>3, <1>4, <1>5 DEF ResolveMeetings

-----------------------------------------------------------------------------
(* Pellets and the idle timer *)

\* A pellet or an idle tick lets ghosts out and never one in.
LEMMA OnlyReleases ==
  ASSUME CountDot \/ AdvanceHouseIdleTimer
  PROVE  waiting' \subseteq waiting
<1>1. CASE CountDot
  BY <1>1 DEF CountDot, NobodyWaits, CountGlobally, CountPersonally
<1>2. CASE AdvanceHouseIdleTimer
  BY <1>2 DEF AdvanceHouseIdleTimer
<1> QED BY <1>1, <1>2

LEMMA FieldIsFinite ==
  ASSUME Field
  PROVE  IsFiniteSet(pellets) /\ remaining \in Nat /\ (remaining = 0 <=> pellets = {})
<1>1. IsFiniteSet(pellets)
  BY GameAssumption, FS_Subset DEF Field
<1> QED BY <1>1, FS_CardinalityType, FS_EmptySet DEF Field

LEMMA EatKeeps ==
  ASSUME Field, HouseFacts, NEW c, EatUnderPacman(c)
  PROVE  /\ Field' /\ HouseFacts' /\ waiting' \subseteq waiting
         /\ pellets' = pellets \/ \E p \in pellets : pellets' = pellets \ {p}
<1>1. CASE c \notin pellets /\ UNCHANGED <<pellets, remaining, mode, clocks, events, houseVars>>
  <2>1. UNCHANGED pellets /\ UNCHANGED remaining /\ UNCHANGED houseVars
    BY <1>1
  <2>2. UNCHANGED waiting
    BY <2>1, Zenon DEF houseVars
  <2> QED BY <2>1, <2>2, HouseFactsUnchanged DEF Field
<1>2. CASE c \in pellets /\ pellets' = pellets \ {c} /\ remaining' = remaining - 1 /\ CountDot
  <2>1. Cardinality(pellets \ {c}) = Cardinality(pellets) - 1
    BY <1>2, FieldIsFinite, FS_RemoveElement
  <2>2. Field'
    BY <1>2, <2>1 DEF Field
  <2> QED BY <1>2, <2>2, CountDotKeeps, OnlyReleases
<1> QED BY <1>1, <1>2 DEF EatUnderPacman

-----------------------------------------------------------------------------
(* Each step of a tick *)

LEMMA StartKeeps ==
  ASSUME Start, GameInv
  PROVE  GameInv'
<1>1. LoadLevel(1) /\ 1 \in 1 .. Levels
  BY HouseAssumption DEF Start
<1>2. turn' = turn /\ state' = "RUNNING"
  BY DEF Start
<1> QED BY <1>1, <1>2, LoadedLevel DEF GameInv, Progress

LEMMA TickBeginsKeeps ==
  ASSUME GameInv, TickBegins
  PROVE  GameInv'
<1>1. /\ UNCHANGED rules /\ UNCHANGED pacman /\ UNCHANGED ghosts /\ UNCHANGED in_house
      /\ UNCHANGED pellets /\ UNCHANGED turn /\ UNCHANGED level /\ UNCHANGED remaining
  BY DEF TickBegins
<1>2. HouseFacts' /\ waiting' \subseteq waiting
  BY IdleKeeps, OnlyReleases DEF TickBegins, GameInv
<1>3. pc = "idle" /\ state = "RUNNING"
  BY DEF TickBegins
<1>4. Board'
  BY <1>1, <1>2, <1>3, RulesUntouched DEF GameInv, Board, HouseFlagsAgree, MeetingsSettled
<1> QED BY <1>1, <1>2, <1>3, <1>4, RulesUntouched DEF GameInv, Progress, Field

LEMMA PacmanStepsKeeps ==
  ASSUME GameInv, PacmanSteps
  PROVE  GameInv'
<1>1. /\ UNCHANGED rules /\ UNCHANGED ghosts /\ UNCHANGED in_house /\ UNCHANGED turn
      /\ UNCHANGED level
      /\ pc = "pacman" /\ pc' = "pacman_meets"
  BY DEF PacmanSteps
<1>2. PICK c \in PacmanReach(pacman) : pacman' = c /\ EatUnderPacman(c)
  BY DEF PacmanSteps
<1>3. pacman' \in Cells \ House
  BY <1>2, PacmanStaysOut DEF GameInv, Board, HouseFlagsAgree
<1>4. Field' /\ HouseFacts' /\ waiting' \subseteq waiting
  BY <1>2, EatKeeps DEF GameInv
<1>5. HouseFlagsAgree' /\ MeetingsSettled'
  BY <1>1, <1>3, <1>4 DEF GameInv, Board, HouseFlagsAgree, MeetingsSettled
<1>6. state' = "RUNNING"
  BY <1>1, RulesUntouched DEF GameInv, Progress, Playing
<1> QED BY <1>1, <1>3, <1>4, <1>5, <1>6 DEF GameInv, Progress, Board

\* What comes after a meeting: at "cleared" and "ghosts" the run goes on.
LEMMA MeetsKeeps ==
  ASSUME GameInv, ResolveMeetings, pc' \in Playing => state' = "RUNNING"
  PROVE  GameInv'
  BY ResolveKeeps DEF GameInv, Progress

LEMMA CheckLevelClearedKeeps ==
  ASSUME GameInv, CheckLevelCleared
  PROVE  GameInv'
<1>1. pc = "cleared" /\ state = "RUNNING" /\ UNCHANGED turn
  BY DEF CheckLevelCleared, GameInv, Progress, Playing
<1>2. CASE pc' = "pacman" /\ UNCHANGED <<rules, board, pellets, clocks, fresh, allHouseVars>>
  <2>1. UNCHANGED rules /\ UNCHANGED board /\ UNCHANGED pellets /\ UNCHANGED allHouseVars
    BY <1>2
  <2> QED
    BY <1>1, <1>2, <2>1, RulesUntouched, BoardUntouched, HouseUntouched, HouseFactsUnchanged
       DEF GameInv, Progress, Field, Board, HouseFlagsAgree, MeetingsSettled
<1>3. CASE /\ state' = "WON" /\ pc' = "deliver"
           /\ UNCHANGED <<config, board, pellets, clocks, fresh, allHouseVars>>
  <2>1. UNCHANGED board /\ UNCHANGED pellets /\ UNCHANGED allHouseVars
    BY <1>3
  <2>2. pc' \notin Playing
    BY <1>3 DEF Playing
  <2> QED
    BY <1>1, <1>3, <2>1, <2>2, BoardUntouched, HouseUntouched, HouseFactsUnchanged
       DEF GameInv, Progress, Field, Board, HouseFlagsAgree, MeetingsSettled
<1>4. CASE level < Levels /\ LoadLevel(level + 1) /\ UNCHANGED rules
  <2>1. level + 1 \in 1 .. Levels
    BY <1>4, HouseAssumption DEF GameInv, Progress
  <2> QED
    BY <1>1, <1>4, <2>1, LoadedLevel, RulesUntouched DEF GameInv, Progress
<1> QED BY <1>2, <1>3, <1>4 DEF CheckLevelCleared

LEMMA GhostStepsKeeps ==
  ASSUME GameInv, GhostSteps
  PROVE  GameInv'
<1>1. /\ UNCHANGED rules /\ UNCHANGED pacman /\ UNCHANGED turn /\ UNCHANGED pellets
      /\ UNCHANGED allHouseVars
      /\ pc = "ghosts" /\ pc' = "ghost_meets"
  BY DEF GhostSteps
<1>2. turn \in Ghosts
  <2>1. turn \in Nat /\ turn < N
    BY DEF GhostSteps, GameInv, Progress
  <2> QED BY <2>1, HouseAssumption DEF Ghosts
<1>3. PICK c \in IF turn \in waiting THEN {ghosts[turn]}
                 ELSE GhostReach(ghosts[turn], turn \in in_house) :
        /\ ghosts' = [ghosts EXCEPT ![turn] = c]
        /\ in_house' = IF c \in House THEN in_house ELSE in_house \ {turn}
  BY DEF GhostSteps
<1>4. ghosts[turn] \in Cells /\ (turn \in in_house <=> ghosts[turn] \in House)
  BY <1>2 DEF GameInv, Board, HouseFlagsAgree
<1>5. c \in Cells /\ (c \in House => turn \in in_house)
  <2>1. CASE turn \in waiting
    BY <1>3, <1>4, <2>1
  <2>2. CASE turn \notin waiting
    <3>1. c \in GhostReach(ghosts[turn], turn \in in_house)
      BY <1>3, <2>2
    <3>2. (turn \in in_house) \in BOOLEAN
      OBVIOUS
    <3>3. c \in Cells /\ (ghosts[turn] \notin House /\ turn \notin in_house => c \notin House)
      BY <1>4, <3>1, <3>2, GhostStaysOut
    <3> QED BY <1>4, <3>3
  <2> QED BY <2>1, <2>2
<1>6. turn \in waiting => c \in House
  BY <1>3, <1>4 DEF GameInv, Board, HouseFlagsAgree
<1>7. ghosts' \in [Ghosts -> Cells]
  BY <1>3, <1>5 DEF GameInv, Board
<1>8. \A g \in Ghosts : ghosts'[g] = IF g = turn THEN c ELSE ghosts[g]
  BY <1>3 DEF GameInv, Board
<1>9. HouseFlagsAgree'
  <2>1. in_house' = {g \in Ghosts : ghosts'[g] \in House}
    BY <1>2, <1>3, <1>5, <1>8 DEF GameInv, Board, HouseFlagsAgree
  <2>2. waiting' \subseteq in_house'
    BY <1>1, <1>3, <1>6, HouseUntouched DEF GameInv, Board, HouseFlagsAgree
  <2> QED BY <1>1, <2>1, <2>2 DEF GameInv, Board, HouseFlagsAgree
<1>10. MeetingsSettled'
  BY <1>1 DEF MeetingsSettled
<1>11. Board'
  BY <1>1, <1>7, <1>9, <1>10 DEF GameInv, Board
<1>12. state' = "RUNNING"
  BY <1>1, RulesUntouched DEF GameInv, Progress, Playing
<1> QED
  BY <1>1, <1>11, <1>12, HouseUntouched, HouseFactsUnchanged DEF GameInv, Progress, Field

\* The steps that only hand on the turn, and those of no consequence.
LEMMA PassingKeeps ==
  ASSUME GameInv, UNCHANGED rules, UNCHANGED board, UNCHANGED pellets, UNCHANGED allHouseVars,
         turn' \in Nat,
         pc' \in Playing => pc \in Playing,
         pc \in {"pacman_meets", "ghost_meets"} => pc' = pc
  PROVE  GameInv'
<1>1. Progress' /\ Field'
  BY RulesUntouched, HouseUntouched DEF GameInv, Progress, Field
<1>2. Board'
  BY RulesUntouched, BoardUntouched, HouseUntouched
     DEF GameInv, Board, HouseFlagsAgree, MeetingsSettled
<1> QED BY <1>1, <1>2, HouseUntouched, HouseFactsUnchanged DEF GameInv

-----------------------------------------------------------------------------
LEMMA GameInvInit == Init => GameInv
<1> SUFFICES ASSUME Init PROVE GameInv
  OBVIOUS
<1>1. HouseFacts /\ waiting \subseteq StartsInHouse /\ level = 1 /\ remaining = TotalPellets
  BY HouseLoadedFacts DEF Init, HouseLoaded
<1>2. Progress
  BY <1>1, HouseAssumption DEF Init, Progress, Playing
<1>3. Field
  BY <1>1, GameAssumption DEF Init, Field
<1>4. Board
  BY <1>1, StartsAgree DEF Init, Board, HouseFlagsAgree, MeetingsSettled
<1> QED BY <1>1, <1>2, <1>3, <1>4 DEF GameInv

LEMMA GameInvStep == GameInv /\ [Next]_gameVars => GameInv'
<1> SUFFICES ASSUME GameInv, [Next]_gameVars PROVE GameInv'
  OBVIOUS
<1>1. CASE Start
  BY <1>1, StartKeeps
<1>2. CASE TickBegins
  BY <1>2, TickBeginsKeeps
<1>3. CASE PacmanSteps
  BY <1>3, PacmanStepsKeeps
<1>4. CASE PacmanMeets
  <2>1. ResolveMeetings /\ (pc' \in Playing => state' = "RUNNING")
    BY <1>4 DEF PacmanMeets, Playing
  <2> QED BY <2>1, MeetsKeeps
<1>5. CASE CheckLevelCleared
  BY <1>5, CheckLevelClearedKeeps
<1>6. CASE PacmanRests
  BY <1>6, PassingKeeps DEF PacmanRests, Playing
<1>7. CASE GhostSteps
  BY <1>7, GhostStepsKeeps
<1>8. CASE GhostMeets
  <2>1. ResolveMeetings /\ (pc' \in Playing => state' = "RUNNING")
    BY <1>8 DEF GhostMeets, Playing
  <2> QED BY <2>1, MeetsKeeps
<1>9. CASE GhostRests
  <2>1. turn' \in Nat
    BY <1>9 DEF GhostRests, GameInv, Progress
  <2> QED BY <1>9, <2>1, PassingKeeps DEF GhostRests, Playing
<1>10. CASE Deliver
  BY <1>10, PassingKeeps DEF Deliver, Playing
<1>11. CASE UNCHANGED gameVars
  <2>1. /\ UNCHANGED rules /\ UNCHANGED board /\ UNCHANGED pellets
        /\ UNCHANGED allHouseVars /\ UNCHANGED progress
    BY <1>11, Zenon DEF gameVars
  <2>2. UNCHANGED turn /\ UNCHANGED pc
    BY <2>1, Zenon DEF progress
  <2> QED BY <2>1, <2>2, PassingKeeps DEF GameInv, Progress
<1> QED
  BY <1>1, <1>2, <1>3, <1>4, <1>5, <1>6, <1>7, <1>8, <1>9, <1>10, <1>11 DEF Next

LEMMA GameInductive == Spec => []GameInv
<1> QED BY GameInvInit, GameInvStep, PTL DEF Spec

-----------------------------------------------------------------------------
\* Whoever shares Pacman's cell is dealt with before anybody moves on, for any
\* number of ghosts, on any maze and at any speed.
THEOREM MeetingsAlwaysSettled == Spec => []MeetingsSettled
<1>1. GameInv => MeetingsSettled
  BY DEF GameInv, Board
<1> QED BY <1>1, GameInductive, PTL

\* The flags of the ghosts agree with the cells they are on, and Pacman never
\* gets into the house, on every maze whose house is shut but for its gate.
THEOREM HouseFlagsAlwaysAgree == Spec => []HouseFlagsAgree
<1>1. GameInv => HouseFlagsAgree
  BY DEF GameInv, Board
<1> QED BY <1>1, GameInductive, PTL

\* The order of the ghost house, proved there for an environment of its own,
\* holds in the game, meals in the maze and runs begun anew included.
THEOREM HouseInOrderInGame == Spec => [](ReleasedInOrder /\ WaitersNotDue)
<1>1. GameInv => ReleasedInOrder /\ WaitersNotDue
  BY DEF GameInv, HouseFacts
<1> QED BY <1>1, GameInductive, PTL

-----------------------------------------------------------------------------
(* The frightened window *)

PacmanPhase == {"pacman", "pacman_meets", "cleared"}
GhostPhase  == {"ghosts", "ghost_meets"}

IsDepth(depth) ==
  /\ depth[GhostStart[GHOST_PINKY]] = MaxGhostSteps
  /\ \A c \in Cells : depth[c] >= 0 =>
       c \in House /\ \A d \in Neighbours[c] : depth[d] >= depth[c] - 1
Depth == CHOOSE depth \in [Cells -> -1 .. MaxGhostSteps] : IsDepth(depth)

Blue == {g \in Ghosts : mode[g] = "FRIGHTENED"}

\* The most steps ghost g may still take before this tick is over.
StepsToGo(g) ==
  IF pc \in PacmanPhase THEN MaxGhostSteps
  ELSE IF pc \in GhostPhase
  THEN IF g = turn THEN left ELSE IF g > turn THEN MaxGhostSteps ELSE 0
  ELSE 0

\* A ghost that is not blue while the window is open was eaten in this tick,
\* and is so deep in the house that the tick ends before it is out.
IsIndoors(g) == g \notin waiting /\ StepsToGo(g) <= Depth[ghosts[g]]

WindowInv ==
  /\ frightened \in Nat /\ left \in Nat
  /\ pc \in GhostPhase => left <= MaxGhostSteps
  /\ \A g \in Ghosts : mode[g] = "FRIGHTENED" => frightened > 0
  /\ \A g \in Ghosts : mode[g] # "FRIGHTENED" /\ frightened > 0 => IsIndoors(g)

LEMMA JitteredNat ==
  ASSUME NEW n \in Nat, NEW d \in Jittered(n)
  PROVE  d \in Nat
  BY HouseAssumption DEF Jittered

LEMMA DepthIsThere == Depth \in [Cells -> -1 .. MaxGhostSteps] /\ IsDepth(Depth)
<1>1. \E depth \in [Cells -> -1 .. MaxGhostSteps] : IsDepth(depth)
  BY PenAssumption DEF IsDepth
<1> QED BY <1>1 DEF Depth

LEMMA WindowShape ==
  ASSUME WindowInv
  PROVE  frightened \in Nat /\ left \in Nat /\ (pc \in GhostPhase => left <= MaxGhostSteps)
  BY DEF WindowInv

LEMMA StepsToGoType ==
  ASSUME left \in Nat, pc \in GhostPhase => left <= MaxGhostSteps, NEW g
  PROVE  StepsToGo(g) \in Nat /\ StepsToGo(g) <= MaxGhostSteps
  BY GameAssumption DEF StepsToGo

\* Everybody is back at the start and nobody is blue.
LEMMA PlacedWindow ==
  ASSUME PlaceEntities, left' \in Nat, pc' \in GhostPhase => left' <= MaxGhostSteps
  PROVE  WindowInv'
<1>1. frightened' = 0 /\ \A g \in Ghosts : mode'[g] = "SCATTER"
  BY DEF PlaceEntities
<1> QED BY <1>1 DEF WindowInv

\* Everybody has just turned blue.
LEMMA BlueWindow ==
  ASSUME frightened' \in Nat \ {0}, \A g \in Ghosts : mode'[g] = "FRIGHTENED",
         left' \in Nat, pc' \in GhostPhase => left' <= MaxGhostSteps
  PROVE  WindowInv'
  BY DEF WindowInv

\* The tick goes on, and nobody has more steps to go than before.
LEMMA WindowGoesOn ==
  ASSUME GameInv, WindowInv, UNCHANGED mode, UNCHANGED frightened, UNCHANGED ghosts,
         waiting' \subseteq waiting,
         left' \in Nat, pc' \in GhostPhase => left' <= MaxGhostSteps,
         \A g \in Ghosts : StepsToGo(g)' <= StepsToGo(g)
  PROVE  WindowInv'
<1>1. ASSUME NEW g \in Ghosts, mode'[g] # "FRIGHTENED" /\ frightened' > 0
      PROVE  IsIndoors(g)'
  <2>1. IsIndoors(g)
    BY <1>1 DEF WindowInv
  <2>2. g \notin waiting'
    BY <2>1 DEF IsIndoors
  <2>3. StepsToGo(g) <= Depth[ghosts[g]] /\ StepsToGo(g)' <= StepsToGo(g)
    BY <2>1 DEF IsIndoors
  <2>4. StepsToGo(g) \in Nat /\ StepsToGo(g)' \in Nat
    BY WindowShape, GameAssumption DEF StepsToGo
  <2>5. ghosts'[g] = ghosts[g] /\ Depth[ghosts[g]] \in Int
    BY DepthIsThere DEF GameInv, Board
  <2>6. StepsToGo(g)' <= Depth[ghosts'[g]]
    BY <2>3, <2>4, <2>5
  <2> QED BY <2>2, <2>6 DEF IsIndoors
<1> QED BY <1>1 DEF WindowInv

LEMMA TickBeginsWindow ==
  ASSUME WindowInv, TickBegins
  PROVE  WindowInv'
<1>1. frightened' \in Nat /\ left' \in Nat /\ pc' = "pacman"
  BY GameAssumption DEF WindowInv, TickBegins, AdvanceTimers, clocks
<1>2. \A g \in Ghosts : mode'[g] = ModeOf(g, frightened', phase_index', remaining')
  BY DEF TickBegins, ApplyMode
<1>3. \A g \in Ghosts : mode'[g] = "FRIGHTENED" <=> frightened' > 0
  BY <1>1, <1>2 DEF ModeOf, Scheduled
<1> QED BY <1>1, <1>3 DEF WindowInv, GhostPhase

\* What a pellet does to the window and to the events.
LEMMA EatEffect ==
  ASSUME GameInv, NEW c, EatUnderPacman(c)
  PROVE  \/ /\ UNCHANGED mode /\ UNCHANGED frightened
            /\ events' \in {events, Append(events, "PELLET_EATEN")}
         \/ /\ frightened' \in Nat \ {0}
            /\ \A g \in Ghosts : mode'[g] = "FRIGHTENED"
            /\ events' = events \o <<"PELLET_EATEN", "FRIGHTENED_STARTED">>
<1>1. CASE UNCHANGED <<pellets, remaining, mode, clocks, events, houseVars>>
  BY <1>1 DEF clocks
<1>2. CASE events' = Append(events, "PELLET_EATEN") /\ UNCHANGED <<mode, clocks>>
  BY <1>2 DEF clocks
<1>3. CASE StartFrightened
  <2>1. PICK window \in Jittered(FrightenedTicks[level]) :
          IF window = 0
          THEN events' = Append(events, "PELLET_EATEN") /\ UNCHANGED <<mode, clocks>>
          ELSE /\ events' = events \o <<"PELLET_EATEN", "FRIGHTENED_STARTED">>
               /\ frightened' = window /\ ApplyMode
    BY <1>3 DEF StartFrightened
  <2>2. window \in Nat
    BY JitteredNat, GameAssumption DEF GameInv, Progress
  <2>3. CASE window = 0
    BY <2>1, <2>3 DEF clocks
  <2>4. CASE window # 0
    <3>1. frightened' \in Nat \ {0} /\ frightened' > 0
      BY <2>1, <2>2, <2>4
    <3>2. \A g \in Ghosts : mode'[g] = ModeOf(g, frightened', phase_index', remaining')
      BY <2>1, <2>4 DEF ApplyMode
    <3>3. \A g \in Ghosts : mode'[g] = "FRIGHTENED"
      BY <3>1, <3>2 DEF ModeOf
    <3> QED BY <2>1, <2>4, <3>1, <3>3
  <2> QED BY <2>3, <2>4
<1> QED BY <1>1, <1>2, <1>3 DEF EatUnderPacman

LEMMA PacmanStepsWindow ==
  ASSUME GameInv, WindowInv, PacmanSteps
  PROVE  WindowInv'
<1>1. /\ pc = "pacman" /\ pc' = "pacman_meets" /\ left > 0 /\ left' = left - 1
      /\ UNCHANGED ghosts /\ UNCHANGED turn
  BY DEF PacmanSteps
<1>2. PICK c : EatUnderPacman(c)
  BY DEF PacmanSteps
<1>3. left \in Nat /\ left' \in Nat /\ pc' \notin GhostPhase
  BY <1>1, WindowShape DEF GhostPhase
<1>4. waiting' \subseteq waiting
  BY <1>2, EatKeeps DEF GameInv
<1>5. \A g \in Ghosts : StepsToGo(g)' <= StepsToGo(g)
  BY <1>1, GameAssumption DEF StepsToGo, PacmanPhase, GhostPhase
<1> QED BY <1>1, <1>2, <1>3, <1>4, <1>5, EatEffect, BlueWindow, WindowGoesOn

\* What a meeting does to those who met: all are sent home in their first
\* colour, or those eaten are in the pen and the others as they were.
LEMMA ResolveEffect ==
  ASSUME GameInv, ResolveMeetings
  PROVE  /\ UNCHANGED turn /\ UNCHANGED left
         /\ events' = events \o [i \in 1 .. Cardinality(Eaten) |-> "GHOST_EATEN"]
         /\ Eaten \subseteq Blue
         /\ \/ PlaceEntities
            \/ /\ UNCHANGED frightened /\ UNCHANGED waiting
               /\ \A g \in Eaten : g \notin waiting
               /\ \A g \in Ghosts : ghosts'[g] = IF g \in Eaten THEN GhostStart[GHOST_PINKY]
                                                              ELSE ghosts[g]
               /\ \A g \in Ghosts : mode'[g] = IF g \in Eaten THEN "SCATTER" ELSE mode[g]
<1>1. /\ UNCHANGED turn /\ UNCHANGED left
      /\ events' = events \o [i \in 1 .. Cardinality(Eaten) |-> "GHOST_EATEN"]
  BY DEF ResolveMeetings
<1>2. Eaten \subseteq Blue
  BY DEF Eaten, Killers, Met, Blue
<1>3. PlaceEntities \/ (SendToPen(Eaten) /\ UNCHANGED clocks)
  BY DEF ResolveMeetings, LifeLost, LastLifeLost
<1>4. ASSUME SendToPen(Eaten), UNCHANGED clocks
      PROVE  /\ UNCHANGED frightened /\ UNCHANGED waiting
             /\ \A g \in Eaten : g \notin waiting
             /\ \A g \in Ghosts : ghosts'[g] = IF g \in Eaten THEN GhostStart[GHOST_PINKY]
                                                            ELSE ghosts[g]
             /\ \A g \in Ghosts : mode'[g] = IF g \in Eaten THEN "SCATTER" ELSE mode[g]
  <2>1. waiting \ Eaten = waiting
    BY EatenDoNotWait DEF GameInv
  <2> QED BY <1>4, <2>1 DEF SendToPen, clocks
<1> QED BY <1>1, <1>2, <1>3, <1>4

LEMMA MeetsWindow ==
  ASSUME GameInv, WindowInv, ResolveMeetings,
         \/ pc \in PacmanPhase /\ pc' \notin GhostPhase
         \/ pc \in GhostPhase /\ pc' \notin PacmanPhase
  PROVE  WindowInv'
<1>1. UNCHANGED turn /\ UNCHANGED left
  BY ResolveEffect
<1>2. left' \in Nat /\ (pc' \in GhostPhase => left' <= MaxGhostSteps)
  BY <1>1 DEF WindowInv
<1>3. CASE PlaceEntities
  BY <1>2, <1>3, PlacedWindow
<1>4. CASE /\ UNCHANGED frightened /\ UNCHANGED waiting
           /\ \A g \in Eaten : g \notin waiting
           /\ \A g \in Ghosts : ghosts'[g] = IF g \in Eaten THEN GhostStart[GHOST_PINKY]
                                                          ELSE ghosts[g]
           /\ \A g \in Ghosts : mode'[g] = IF g \in Eaten THEN "SCATTER" ELSE mode[g]
  <2>1. ASSUME NEW g \in Ghosts
        PROVE  /\ StepsToGo(g)' \in Nat /\ StepsToGo(g) \in Nat
               /\ StepsToGo(g)' <= MaxGhostSteps
               /\ StepsToGo(g)' <= StepsToGo(g)
    <3>1. left \in Nat /\ (pc \in GhostPhase => left <= MaxGhostSteps) /\ MaxGhostSteps \in Nat
      BY WindowShape, GameAssumption
    <3>2. StepsToGo(g) \in Nat /\ StepsToGo(g) <= MaxGhostSteps
      BY <3>1, StepsToGoType
    <3>3. CASE pc \in PacmanPhase
      <4>1. StepsToGo(g) = MaxGhostSteps
        BY <3>3 DEF StepsToGo
      <4>2. StepsToGo(g)' \in Nat /\ StepsToGo(g)' <= MaxGhostSteps
        BY <1>1, <1>2, <3>1 DEF StepsToGo
      <4> QED BY <3>2, <4>1, <4>2
    <3>4. CASE pc \in GhostPhase /\ pc' \in GhostPhase
      <4>1. StepsToGo(g)' = StepsToGo(g)
        BY <1>1, <3>4 DEF StepsToGo, PacmanPhase, GhostPhase
      <4> QED BY <3>2, <4>1
    <3>5. CASE pc \in GhostPhase /\ pc' \notin GhostPhase
      <4>1. pc' \notin PacmanPhase
        BY <3>5 DEF PacmanPhase, GhostPhase
      <4>2. StepsToGo(g)' = 0
        BY <3>5, <4>1 DEF StepsToGo
      <4> QED BY <3>1, <3>2, <4>2
    <3> QED BY <3>3, <3>4, <3>5
  <2>2. ASSUME NEW g \in Ghosts, mode'[g] # "FRIGHTENED", frightened' > 0
        PROVE  IsIndoors(g)'
    <3>1. CASE g \in Eaten
      <4>1. ghosts'[g] = GhostStart[GHOST_PINKY] /\ g \notin waiting'
        BY <1>4, <3>1
      <4>2. Depth[ghosts'[g]] = MaxGhostSteps
        BY <4>1, DepthIsThere DEF IsDepth
      <4> QED BY <2>1, <4>1, <4>2 DEF IsIndoors
    <3>2. CASE g \notin Eaten
      <4>1. ghosts'[g] = ghosts[g] /\ mode[g] # "FRIGHTENED" /\ frightened > 0
        BY <1>4, <2>2, <3>2
      <4>2. IsIndoors(g)
        BY <4>1 DEF WindowInv
      <4>3. ghosts[g] \in Cells
        BY DEF GameInv, Board
      <4>4. Depth[ghosts[g]] \in Int
        BY <4>3, DepthIsThere
      <4> QED BY <1>4, <2>1, <4>1, <4>2, <4>4 DEF IsIndoors
    <3> QED BY <3>1, <3>2
  <2> QED BY <1>2, <1>4, <2>2 DEF WindowInv
<1> QED BY <1>3, <1>4, ResolveEffect

\* A step costs a ghost no more depth than it costs of what it may still go.
LEMMA GhostStepsWindow ==
  ASSUME GameInv, WindowInv, GhostSteps
  PROVE  WindowInv'
<1>1. /\ pc = "ghosts" /\ pc' = "ghost_meets" /\ left > 0 /\ left' = left - 1
      /\ UNCHANGED turn /\ UNCHANGED mode /\ UNCHANGED frightened /\ UNCHANGED waiting
  BY HouseUntouched DEF GhostSteps, clocks
<1>2. PICK c : /\ turn \notin waiting => c \in Neighbours[ghosts[turn]]
               /\ ghosts' = [ghosts EXCEPT ![turn] = c]
  BY Zenon DEF GhostSteps, GhostReach
<1>3. turn \in Ghosts
  <2>1. turn \in Nat /\ turn < N
    BY DEF GhostSteps, GameInv, Progress
  <2> QED BY <2>1, HouseAssumption DEF Ghosts
<1>4. left' \in Nat /\ left' <= MaxGhostSteps /\ left \in Nat
  <2>1. left \in Nat /\ left <= MaxGhostSteps /\ MaxGhostSteps \in Nat
    BY <1>1, WindowShape, GameAssumption DEF GhostPhase
  <2> QED BY <1>1, <2>1
<1>5. \A g \in Ghosts : ghosts'[g] = IF g = turn THEN c ELSE ghosts[g]
  BY <1>2 DEF GameInv, Board
<1>6. ASSUME NEW g \in Ghosts, mode'[g] # "FRIGHTENED" /\ frightened' > 0
      PROVE  IsIndoors(g)'
  <2>1. IsIndoors(g)
    BY <1>1, <1>6 DEF WindowInv
  <2>2. CASE g = turn
    <3>1. StepsToGo(g) = left /\ StepsToGo(g)' = left - 1
      BY <1>1, <2>2 DEF StepsToGo, PacmanPhase, GhostPhase
    <3>2. turn \notin waiting /\ left <= Depth[ghosts[turn]]
      BY <2>1, <2>2, <3>1 DEF IsIndoors
    <3>3. ghosts[turn] \in Cells /\ c \in Neighbours[ghosts[turn]]
      BY <1>2, <1>3, <3>2 DEF GameInv, Board
    <3>4. Depth[ghosts[turn]] \in Int /\ c \in Cells /\ Depth[c] \in Int
      BY <3>3, DepthIsThere, ReachAssumption
    <3>5. Depth[c] >= Depth[ghosts[turn]] - 1
      <4>1. Depth[ghosts[turn]] >= 0
        BY <1>1, <1>4, <3>2, <3>4
      <4> QED BY <3>3, <4>1, DepthIsThere DEF IsDepth
    <3>6. StepsToGo(g)' <= Depth[ghosts'[g]]
      BY <1>4, <1>5, <2>2, <3>1, <3>2, <3>4, <3>5
    <3> QED BY <1>1, <2>2, <3>2, <3>6 DEF IsIndoors
  <2>3. CASE g # turn
    <3>1. StepsToGo(g)' = StepsToGo(g)
      BY <1>1, <2>3 DEF StepsToGo, PacmanPhase, GhostPhase
    <3> QED BY <1>1, <1>5, <2>1, <2>3, <3>1 DEF IsIndoors
  <2> QED BY <2>2, <2>3
<1> QED BY <1>1, <1>4, <1>6 DEF WindowInv

LEMMA WindowStep == GameInv /\ WindowInv /\ [Next]_gameVars => WindowInv'
<1> SUFFICES ASSUME GameInv, WindowInv, [Next]_gameVars PROVE WindowInv'
  OBVIOUS
<1> USE DEF PacmanPhase, GhostPhase
<1>1. CASE Start
  BY <1>1, PlacedWindow DEF Start, LoadLevel, WindowInv
<1>2. CASE TickBegins
  BY <1>2, TickBeginsWindow
<1>3. CASE PacmanSteps
  BY <1>3, PacmanStepsWindow
<1>4. CASE PacmanMeets
  BY <1>4, MeetsWindow DEF PacmanMeets
<1>5. CASE CheckLevelCleared
  <2>1. pc = "cleared" /\ pc' \in {"pacman", "deliver"} /\ left' = left /\ turn' = turn
    BY <1>5 DEF CheckLevelCleared
  <2>2. left' \in Nat /\ pc' \notin GhostPhase
    BY <2>1 DEF WindowInv
  <2>3. CASE PlaceEntities
    BY <2>2, <2>3, PlacedWindow
  <2>4. CASE UNCHANGED board /\ UNCHANGED clocks /\ UNCHANGED allHouseVars
    <3>1. \A g \in Ghosts : StepsToGo(g)' <= StepsToGo(g)
      BY <2>1, GameAssumption DEF StepsToGo
    <3>2. UNCHANGED frightened
      BY <2>4 DEF clocks
    <3> QED BY <2>2, <2>4, <3>1, <3>2, BoardUntouched, HouseUntouched, WindowGoesOn
  <2> QED BY <1>5, <2>3, <2>4 DEF CheckLevelCleared, LoadLevel
<1>6. CASE PacmanRests
  <2>1. /\ pc = "pacman" /\ pc' = "ghosts" /\ left' = MaxGhostSteps
        /\ UNCHANGED board /\ UNCHANGED clocks /\ UNCHANGED allHouseVars
    BY <1>6 DEF PacmanRests
  <2>2. \A g \in Ghosts : StepsToGo(g)' <= StepsToGo(g)
    BY <2>1, GameAssumption DEF StepsToGo
  <2>3. left' \in Nat /\ left' <= MaxGhostSteps /\ UNCHANGED frightened
    BY <2>1, GameAssumption DEF clocks
  <2> QED BY <2>1, <2>2, <2>3, BoardUntouched, HouseUntouched, WindowGoesOn
<1>7. CASE GhostSteps
  BY <1>7, GhostStepsWindow
<1>8. CASE GhostMeets
  BY <1>8, MeetsWindow DEF GhostMeets
<1>9. CASE GhostRests
  <2>1. /\ pc = "ghosts" /\ pc' = "ghosts" /\ turn' = turn + 1 /\ left' = MaxGhostSteps
        /\ turn \in Nat
        /\ UNCHANGED board /\ UNCHANGED clocks /\ UNCHANGED allHouseVars
    BY <1>9 DEF GhostRests, GameInv, Progress
  <2>2. \A g \in Ghosts : StepsToGo(g)' <= StepsToGo(g)
    <3>1. left \in Nat /\ left <= MaxGhostSteps /\ MaxGhostSteps \in Nat
      BY <2>1, WindowShape, GameAssumption
    <3>2. Ghosts \subseteq Int
      BY HouseAssumption DEF Ghosts
    <3> QED BY <2>1, <3>1, <3>2 DEF StepsToGo
  <2>3. left' \in Nat /\ left' <= MaxGhostSteps /\ UNCHANGED frightened
    BY <2>1, GameAssumption DEF clocks
  <2> QED BY <2>1, <2>2, <2>3, BoardUntouched, HouseUntouched, WindowGoesOn
<1>10. CASE Deliver
  <2>1. /\ pc' = "idle" /\ left' = 0
        /\ UNCHANGED board /\ UNCHANGED clocks /\ UNCHANGED allHouseVars
    BY <1>10 DEF Deliver
  <2>2. \A g \in Ghosts : StepsToGo(g)' = 0 /\ StepsToGo(g) >= 0
    BY <2>1, WindowShape, GameAssumption DEF StepsToGo
  <2>3. \A g \in Ghosts : StepsToGo(g)' <= StepsToGo(g)
    BY <2>2
  <2>4. UNCHANGED frightened
    BY <2>1 DEF clocks
  <2> QED BY <2>1, <2>3, <2>4, BoardUntouched, HouseUntouched, WindowGoesOn
<1>11. CASE UNCHANGED gameVars
  <2>1. /\ UNCHANGED board /\ UNCHANGED clocks /\ UNCHANGED allHouseVars
        /\ UNCHANGED progress
    BY <1>11, Zenon DEF gameVars
  <2>2. UNCHANGED turn /\ UNCHANGED pc /\ UNCHANGED left /\ UNCHANGED frightened
    BY <2>1 DEF progress, clocks
  <2>3. \A g \in Ghosts : StepsToGo(g)' <= StepsToGo(g)
    BY <2>2, WindowShape, GameAssumption DEF StepsToGo
  <2> QED
    BY <2>1, <2>2, <2>3, BoardUntouched, HouseUntouched, WindowGoesOn DEF WindowInv
<1> QED
  BY <1>1, <1>2, <1>3, <1>4, <1>5, <1>6, <1>7, <1>8, <1>9, <1>10, <1>11 DEF Next

\* The window and the ghosts agree in every frame, whatever the lengths of the
\* windows and the order of meals and deaths: a ghost that was eaten is in the
\* pen until the tick is over, and blue again from the next.
THEOREM WindowAlwaysAgrees == Spec => []WindowAgrees
<1>1. Init => WindowInv
  BY DEF Init, WindowInv, GhostPhase
<1>2. GameInv /\ WindowInv => WindowAgrees
  <2> SUFFICES ASSUME GameInv, WindowInv, NEW g \in Ghosts,
                      mode[g] # "FRIGHTENED", frightened > 0
               PROVE  g \in in_house \ waiting
    BY DEF WindowAgrees, WindowInv
  <2>1. g \notin waiting /\ StepsToGo(g) <= Depth[ghosts[g]]
    BY DEF WindowInv, IsIndoors
  <2>2. StepsToGo(g) \in Nat /\ ghosts[g] \in Cells
    BY StepsToGoType DEF WindowInv, GameInv, Board
  <2>3. Depth[ghosts[g]] >= 0
    BY <2>1, <2>2, DepthIsThere
  <2>4. ghosts[g] \in House
    BY <2>2, <2>3, DepthIsThere DEF IsDepth
  <2> QED BY <2>1, <2>4 DEF GameInv, Board, HouseFlagsAgree
<1> QED BY <1>1, <1>2, WindowStep, GameInductive, PTL DEF Spec

\* prv_resolve_meetings never finds an edible and a deadly ghost on one cell: a
\* deadly one in an open window sits in the pen, where Pacman does not get.
THEOREM MeetingsOfOneKind == Spec => []MeetsOneKind
<1>1. WindowAgrees /\ HouseFlagsAgree => MeetsOneKind
  <2> SUFFICES ASSUME WindowAgrees, HouseFlagsAgree,
                      NEW g \in Killers, NEW h \in Met \ Killers
               PROVE  FALSE
    BY DEF MeetsOneKind, Killers
  <2>1. /\ g \in Ghosts /\ ghosts[g] = pacman /\ mode[g] # "FRIGHTENED"
        /\ h \in Ghosts /\ mode[h] = "FRIGHTENED"
    BY DEF Killers, Met
  <2>2. g \in in_house
    BY <2>1 DEF WindowAgrees
  <2> QED BY <2>1, <2>2 DEF HouseFlagsAgree
<1> QED BY <1>1, WindowAlwaysAgrees, HouseFlagsAlwaysAgree, PTL

-----------------------------------------------------------------------------
(* The events of a tick *)

Published == {"PELLET_EATEN", "FRIGHTENED_STARTED", "GHOST_EATEN"}
Room(steps) == steps * (2 + N)

\* A blue ghost may yet be an event of this tick, and a step of Pacman's can
\* turn no more than all of them blue again.
EventsInv ==
  /\ events \in Seq(Published)
  /\ pc \in {"idle", "deliver"} \cup PacmanPhase \cup GhostPhase
  /\ pc = "idle" => events = <<>>
  /\ pc \in PacmanPhase =>
       /\ left <= MaxPacmanSteps
       /\ left = MaxPacmanSteps => pc = "pacman" /\ events = <<>>
       /\ left < MaxPacmanSteps =>
            Len(events) + Cardinality(Blue) <= Room(MaxPacmanSteps - left)
  /\ pc \in GhostPhase \cup {"deliver"} =>
       Len(events) + Cardinality(Blue) <= Room(MaxPacmanSteps)

LEMMA RoomGrows ==
  /\ \A k \in Nat : Room(k) \in Nat /\ Room(k + 1) = Room(k) + 2 + N
  /\ \A k, m \in Nat : k <= m => Room(k) <= Room(m)
<1>1. N \in {1, 2, 3, 4}
  BY HouseAssumption
<1> QED BY <1>1 DEF Room

\* There are no more blue ghosts than ghosts.
LEMMA BlueBound ==
  ASSUME NEW S \in SUBSET Ghosts
  PROVE  IsFiniteSet(S) /\ Cardinality(S) \in Nat /\ Cardinality(S) <= N
<1>1. 0 \in Int /\ N - 1 \in Int /\ N \in Nat /\ N >= 1
  BY HouseAssumption
<1>2. IsFiniteSet(Ghosts) /\ Cardinality(Ghosts) = N
  BY <1>1, FS_Interval DEF Ghosts
<1> QED BY <1>2, FS_Subset, FS_CardinalityType

LEMMA BlueUntouched ==
  ASSUME UNCHANGED mode
  PROVE  Blue' = Blue
  BY DEF Blue

\* Nobody is blue after everybody has been placed.
LEMMA PlacedBlue ==
  ASSUME PlaceEntities
  PROVE  Blue' = {} /\ Cardinality(Blue') = 0
  BY FS_EmptySet DEF Blue, PlaceEntities

\* The events and the blue ghosts before a step of Pacman's leave room for it.
LEMMA PacmanStepsEvents ==
  ASSUME GameInv, WindowInv, EventsInv, PacmanSteps
  PROVE  EventsInv'
<1>1. pc = "pacman" /\ pc' = "pacman_meets" /\ left > 0 /\ left' = left - 1
  BY DEF PacmanSteps
<1>2. PICK c : EatUnderPacman(c)
  BY DEF PacmanSteps
<1>3. /\ left \in Nat /\ MaxPacmanSteps \in Nat /\ left <= MaxPacmanSteps
      /\ events \in Seq(Published)
      /\ left = MaxPacmanSteps => events = <<>>
      /\ left < MaxPacmanSteps =>
           Len(events) + Cardinality(Blue) <= Room(MaxPacmanSteps - left)
  BY <1>1, WindowShape, GameAssumption DEF EventsInv, PacmanPhase
<1>4. /\ Room(MaxPacmanSteps - left) \in Nat
      /\ Room(MaxPacmanSteps - left') = Room(MaxPacmanSteps - left) + 2 + N
  <2>1. /\ MaxPacmanSteps - left \in Nat
        /\ MaxPacmanSteps - left' = (MaxPacmanSteps - left) + 1
    BY <1>1, <1>3
  <2> QED BY <2>1, RoomGrows
<1>5. /\ Cardinality(Blue) \in Nat /\ Cardinality(Blue) <= N
      /\ Cardinality(Blue') \in Nat /\ Cardinality(Blue') <= N
  BY BlueBound DEF Blue
<1>6. Len(events) <= Room(MaxPacmanSteps - left) /\ Len(events) \in Nat
  BY <1>3, <1>4, <1>5
<1>7. /\ events' \in Seq(Published)
      /\ Len(events') + Cardinality(Blue') <= Room(MaxPacmanSteps - left')
  <2>0. N \in Nat
    BY HouseAssumption
  <2>1. CASE UNCHANGED mode /\ events' \in {events, Append(events, "PELLET_EATEN")}
    <3>1. events' \in Seq(Published) /\ Len(events') \in {Len(events), Len(events) + 1}
      BY <1>3, <2>1 DEF Published
    <3>2. Cardinality(Blue') <= N
      BY <1>5
    <3>3. Len(events') + Cardinality(Blue') <= Len(events) + 1 + N
      BY <1>5, <1>6, <2>0, <3>1
    <3>4. Len(events) + 1 + N <= Room(MaxPacmanSteps - left')
      BY <1>4, <1>6, <2>0
    <3> QED BY <1>4, <1>5, <1>6, <2>0, <3>1, <3>3, <3>4
  <2>2. CASE events' = events \o <<"PELLET_EATEN", "FRIGHTENED_STARTED">>
    <3>1. events' \in Seq(Published) /\ Len(events') = Len(events) + 2
      BY <1>3, <2>2 DEF Published
    <3> QED BY <1>4, <1>5, <1>6, <2>0, <3>1
  <2> QED BY <1>2, <2>1, <2>2, EatEffect
<1>8. left' < MaxPacmanSteps /\ left' # MaxPacmanSteps /\ left' <= MaxPacmanSteps
  BY <1>1, <1>3
<1> QED BY <1>1, <1>7, <1>8 DEF EventsInv, PacmanPhase, GhostPhase

LEMMA MealsArePublished ==
  ASSUME NEW s \in Seq(Published), NEW n \in Nat
  PROVE  /\ s \o [i \in 1 .. n |-> "GHOST_EATEN"] \in Seq(Published)
         /\ Len(s \o [i \in 1 .. n |-> "GHOST_EATEN"]) = Len(s) + n
<1> DEFINE t == [i \in 1 .. n |-> "GHOST_EATEN"]
<1>1. \A i \in 1 .. n : t[i] \in Published
  BY DEF Published
<1>2. t \in [1 .. n -> Published]
  BY <1>1
<1>3. t \in Seq(Published)
  BY <1>2, SeqDef
<1>4. Len(t) = n
  BY <1>2, <1>3, LenProperties
<1> QED BY <1>3, <1>4, ConcatProperties

\* A meal makes of a blue ghost an event.
LEMMA MeetsEvents ==
  ASSUME GameInv, ResolveMeetings, events \in Seq(Published)
  PROVE  /\ UNCHANGED left /\ events' \in Seq(Published)
         /\ Len(events') + Cardinality(Blue') <= Len(events) + Cardinality(Blue)
<1>1. /\ UNCHANGED left /\ Eaten \subseteq Blue
      /\ events' = events \o [i \in 1 .. Cardinality(Eaten) |-> "GHOST_EATEN"]
  BY ResolveEffect
<1>2. /\ IsFiniteSet(Blue) /\ Cardinality(Blue) \in Nat
      /\ IsFiniteSet(Eaten) /\ Cardinality(Eaten) \in Nat /\ Cardinality(Eaten) <= Cardinality(Blue)
  <2>1. IsFiniteSet(Blue) /\ Cardinality(Blue) \in Nat
    BY BlueBound DEF Blue
  <2> QED BY <1>1, <2>1, FS_Subset, FS_CardinalityType
<1>3. events' \in Seq(Published) /\ Len(events') = Len(events) + Cardinality(Eaten)
  BY <1>1, <1>2, MealsArePublished
<1>4. CASE PlaceEntities
  BY <1>1, <1>2, <1>3, <1>4, PlacedBlue
<1>5. CASE \A g \in Ghosts : mode'[g] = IF g \in Eaten THEN "SCATTER" ELSE mode[g]
  <2>1. Blue' = Blue \ Eaten
    BY <1>5 DEF Blue
  <2>2. Cardinality(Blue') = Cardinality(Blue) - Cardinality(Blue \cap Eaten)
    BY <1>2, <2>1, FS_Difference
  <2>3. Blue \cap Eaten = Eaten
    BY <1>1
  <2>4. Cardinality(Blue') = Cardinality(Blue) - Cardinality(Eaten)
    BY <2>2, <2>3
  <2>5. Len(events) \in Nat
    OBVIOUS
  <2> QED BY <1>1, <1>2, <1>3, <2>4, <2>5
<1>6. \/ PlaceEntities
      \/ \A g \in Ghosts : mode'[g] = IF g \in Eaten THEN "SCATTER" ELSE mode[g]
  BY ResolveEffect
<1> QED BY <1>1, <1>3, <1>4, <1>5, <1>6

\* Nothing is published, and nobody turns blue.
LEMMA EventsGoOn ==
  ASSUME EventsInv, WindowInv, UNCHANGED events, UNCHANGED pc, UNCHANGED left, UNCHANGED mode
  PROVE  EventsInv'
  BY BlueUntouched DEF EventsInv

LEMMA EventsStep == GameInv /\ WindowInv /\ EventsInv /\ [Next]_gameVars => EventsInv'
<1> SUFFICES ASSUME GameInv, WindowInv, EventsInv, [Next]_gameVars PROVE EventsInv'
  OBVIOUS
<1> USE DEF PacmanPhase, GhostPhase
<1>0. /\ Cardinality(Blue) \in Nat /\ Cardinality(Blue') \in Nat
      /\ Cardinality(Blue') <= N /\ N \in Nat
      /\ left \in Nat /\ MaxPacmanSteps \in Nat \ {0}
      /\ events \in Seq(Published) /\ Len(events) \in Nat
  <2>1. Cardinality(Blue) \in Nat /\ Cardinality(Blue') \in Nat /\ Cardinality(Blue') <= N
    BY BlueBound DEF Blue
  <2>2. events \in Seq(Published) /\ Len(events) \in Nat
    BY DEF EventsInv
  <2> QED BY <2>1, <2>2, WindowShape, GameAssumption, HouseAssumption
<1>1. CASE Start
  BY <1>1 DEF Start, EventsInv
<1>2. CASE TickBegins
  <2>1. pc = "idle" /\ pc' = "pacman" /\ left' = MaxPacmanSteps /\ events' = events
    BY <1>2 DEF TickBegins
  <2> QED BY <1>0, <2>1 DEF EventsInv
<1>3. CASE PacmanSteps
  BY <1>3, PacmanStepsEvents
<1>4. CASE PacmanMeets
  <2>1. pc = "pacman_meets" /\ pc' \in {"cleared", "deliver"} /\ ResolveMeetings
    BY <1>4 DEF PacmanMeets
  <2>2. left < MaxPacmanSteps /\ Len(events) + Cardinality(Blue) <= Room(MaxPacmanSteps - left)
    BY <1>0, <2>1 DEF EventsInv
  <2>3. /\ UNCHANGED left /\ events' \in Seq(Published)
        /\ Len(events') + Cardinality(Blue') <= Len(events) + Cardinality(Blue)
    BY <1>0, <2>1, MeetsEvents
  <2>4. /\ Room(MaxPacmanSteps - left) \in Nat /\ Room(MaxPacmanSteps) \in Nat
        /\ Room(MaxPacmanSteps - left) <= Room(MaxPacmanSteps)
    <3>1. MaxPacmanSteps - left \in Nat /\ MaxPacmanSteps - left <= MaxPacmanSteps
      BY <1>0, <2>2
    <3> QED BY <1>0, <3>1, RoomGrows
  <2>5. Len(events') \in Nat
    BY <2>3
  <2>6. /\ Len(events') + Cardinality(Blue') <= Room(MaxPacmanSteps - left')
        /\ Len(events') + Cardinality(Blue') <= Room(MaxPacmanSteps)
    BY <1>0, <2>2, <2>3, <2>4, <2>5
  <2> QED BY <1>0, <2>1, <2>2, <2>3, <2>6 DEF EventsInv
<1>5. CASE CheckLevelCleared
  <2>1. pc = "cleared" /\ pc' \in {"pacman", "deliver"} /\ left' = left /\ events' = events
    BY <1>5 DEF CheckLevelCleared
  <2>2. Cardinality(Blue') <= Cardinality(Blue)
    <3>1. CASE PlaceEntities
      BY <1>0, <3>1, PlacedBlue
    <3>2. CASE UNCHANGED board
      BY <1>0, <3>2, BoardUntouched, BlueUntouched
    <3> QED BY <1>5, <3>1, <3>2 DEF CheckLevelCleared, LoadLevel
  <2>3. left < MaxPacmanSteps /\ Len(events) + Cardinality(Blue) <= Room(MaxPacmanSteps - left)
    BY <1>0, <2>1 DEF EventsInv
  <2>4. /\ Room(MaxPacmanSteps - left) \in Nat /\ Room(MaxPacmanSteps) \in Nat
        /\ Room(MaxPacmanSteps - left) <= Room(MaxPacmanSteps)
    <3>1. MaxPacmanSteps - left \in Nat /\ MaxPacmanSteps - left <= MaxPacmanSteps
      BY <1>0, <2>3
    <3> QED BY <1>0, <3>1, RoomGrows
  <2>5. /\ Len(events') + Cardinality(Blue') <= Room(MaxPacmanSteps - left')
        /\ Len(events') + Cardinality(Blue') <= Room(MaxPacmanSteps)
    BY <1>0, <2>1, <2>2, <2>3, <2>4
  <2> QED BY <1>0, <2>1, <2>3, <2>5 DEF EventsInv
<1>6. CASE PacmanRests
  <2>1. pc = "pacman" /\ pc' = "ghosts" /\ events' = events /\ UNCHANGED board
    BY <1>6 DEF PacmanRests
  <2>2. Blue' = Blue /\ Cardinality(Blue) <= N
    BY <1>0, <2>1, BoardUntouched, BlueUntouched
  <2>3. Len(events) + Cardinality(Blue) <= Room(MaxPacmanSteps)
    <3>1. CASE left = MaxPacmanSteps
      <4>1. Len(events) = 0
        BY <2>1, <3>1 DEF EventsInv
      <4>2. 1 \in Nat /\ 1 <= MaxPacmanSteps /\ Room(1) = 2 + N
        BY <1>0 DEF Room
      <4>3. 2 + N <= Room(MaxPacmanSteps) /\ Room(MaxPacmanSteps) \in Nat
        BY <1>0, <4>2, RoomGrows
      <4> QED BY <1>0, <2>2, <4>1, <4>3
    <3>2. CASE left # MaxPacmanSteps
      <4>1. left < MaxPacmanSteps /\ Len(events) + Cardinality(Blue) <= Room(MaxPacmanSteps - left)
        BY <1>0, <2>1, <3>2 DEF EventsInv
      <4>2. MaxPacmanSteps - left \in Nat /\ MaxPacmanSteps - left <= MaxPacmanSteps
        BY <1>0, <4>1
      <4>3. /\ Room(MaxPacmanSteps - left) <= Room(MaxPacmanSteps)
            /\ Room(MaxPacmanSteps - left) \in Nat /\ Room(MaxPacmanSteps) \in Nat
        BY <1>0, <4>2, RoomGrows
      <4> QED BY <1>0, <4>1, <4>3
    <3> QED BY <3>1, <3>2
  <2> QED BY <1>0, <2>1, <2>2, <2>3 DEF EventsInv
<1>7. CASE GhostSteps
  <2>1. pc = "ghosts" /\ pc' = "ghost_meets" /\ events' = events /\ UNCHANGED mode
    BY <1>7 DEF GhostSteps
  <2> QED BY <1>0, <2>1, BlueUntouched DEF EventsInv
<1>8. CASE GhostMeets
  <2>1. pc = "ghost_meets" /\ pc' \in {"ghosts", "deliver"} /\ ResolveMeetings
    BY <1>8 DEF GhostMeets
  <2>2. Len(events) + Cardinality(Blue) <= Room(MaxPacmanSteps)
    BY <2>1 DEF EventsInv
  <2>3. /\ events' \in Seq(Published)
        /\ Len(events') + Cardinality(Blue') <= Len(events) + Cardinality(Blue)
    BY <1>0, <2>1, MeetsEvents
  <2>4. Len(events') \in Nat /\ Room(MaxPacmanSteps) \in Nat
    <3>1. MaxPacmanSteps \in Nat
      BY <1>0
    <3>2. Room(MaxPacmanSteps) \in Nat
      BY <3>1, RoomGrows
    <3>3. Len(events') \in Nat
      BY <2>3
    <3> QED BY <3>2, <3>3
  <2>5. Len(events') + Cardinality(Blue') <= Room(MaxPacmanSteps)
    BY <1>0, <2>2, <2>3, <2>4
  <2> QED BY <2>1, <2>3, <2>5 DEF EventsInv
<1>9. CASE GhostRests
  <2>1. pc = "ghosts" /\ pc' = pc /\ events' = events /\ UNCHANGED board
    BY <1>9 DEF GhostRests
  <2> QED BY <1>0, <2>1, BoardUntouched, BlueUntouched DEF EventsInv
<1>10. CASE Deliver
  BY <1>10 DEF Deliver, EventsInv
<1>11. CASE UNCHANGED gameVars
  <2>1. UNCHANGED board /\ UNCHANGED progress /\ UNCHANGED events
    BY <1>11, Zenon DEF gameVars
  <2>2. UNCHANGED pc /\ UNCHANGED left
    BY <2>1 DEF progress
  <2> QED BY <2>1, <2>2, BoardUntouched, EventsGoOn
<1> QED
  BY <1>1, <1>2, <1>3, <1>4, <1>5, <1>6, <1>7, <1>8, <1>9, <1>10, <1>11 DEF Next

\* No tick publishes more than game.h promises the internal broker, for any
\* number of steps and whatever deaths, meals and new levels there are in it.
THEOREM EventsAlwaysFit == Spec => []EventsFitOneTick
<1>1. Init => WindowInv /\ EventsInv
  BY DEF Init, WindowInv, EventsInv, GhostPhase, PacmanPhase
<1>2. GameInv /\ WindowInv /\ EventsInv => EventsFitOneTick
  <2> SUFFICES ASSUME GameInv, WindowInv, EventsInv
               PROVE  Len(events) <= Room(MaxPacmanSteps)
    BY DEF EventsFitOneTick, Room
  <2>1. /\ Cardinality(Blue) \in Nat /\ Len(events) \in Nat /\ MaxPacmanSteps \in Nat
        /\ left \in Nat
    BY BlueBound, WindowShape, GameAssumption DEF Blue, EventsInv
  <2>2. Room(MaxPacmanSteps) \in Nat
    BY <2>1, RoomGrows
  <2>3. CASE Len(events) = 0
    BY <2>1, <2>2, <2>3
  <2>4. CASE pc \in PacmanPhase /\ left < MaxPacmanSteps
    <3>1. Len(events) + Cardinality(Blue) <= Room(MaxPacmanSteps - left)
      BY <2>4 DEF EventsInv
    <3>2. MaxPacmanSteps - left \in Nat /\ MaxPacmanSteps - left <= MaxPacmanSteps
      BY <2>1, <2>4
    <3>3. /\ Room(MaxPacmanSteps - left) <= Room(MaxPacmanSteps)
          /\ Room(MaxPacmanSteps - left) \in Nat
      BY <2>1, <3>2, RoomGrows
    <3> QED BY <2>1, <2>2, <3>1, <3>3
  <2>5. CASE pc \in GhostPhase \cup {"deliver"}
    <3>1. Len(events) + Cardinality(Blue) <= Room(MaxPacmanSteps)
      BY <2>5 DEF EventsInv
    <3> QED BY <2>1, <2>2, <3>1
  <2>6. pc = "idle" \/ (pc \in PacmanPhase /\ left = MaxPacmanSteps) => Len(events) = 0
    BY DEF EventsInv
  <2>7. pc \in PacmanPhase => left <= MaxPacmanSteps
    BY DEF EventsInv
  <2> QED BY <2>1, <2>3, <2>4, <2>5, <2>6, <2>7 DEF EventsInv
<1> QED BY <1>1, <1>2, WindowStep, EventsStep, GameInductive, PTL DEF Spec

-----------------------------------------------------------------------------
(* Types *)

\* What of TypeOK the invariants above do not say.
Shape ==
  /\ lives \in 0 .. StartingLives
  /\ state \in {"IDLE", "RUNNING", "OVER", "WON"} /\ config \in Config
  /\ mode \in [Ghosts -> Modes]
  /\ phase_remaining \in Nat /\ phase_index \in 0 .. Len(PhaseTicks)
  /\ turn \in 0 .. N /\ left \in 0 .. MaxPacmanSteps + MaxGhostSteps
  /\ fresh \in BOOLEAN

LEMMA PhaseDurations ==
  ASSUME NEW k \in Nat
  PROVE  PhaseDuration(k) \in Nat /\ Len(PhaseTicks) \in Nat
  BY GameAssumption DEF PhaseDuration

\* The scheduled mode is one of the modes, whatever the window and the phase.
LEMMA AppliedModes ==
  ASSUME ApplyMode
  PROVE  mode' \in [Ghosts -> Modes]
<1>1. \A g \in Ghosts : ModeOf(g, frightened', phase_index', remaining') \in Modes
  BY DEF ModeOf, Scheduled, Modes
<1> QED BY <1>1 DEF ApplyMode

LEMMA PlacedShape ==
  ASSUME PlaceEntities
  PROVE  /\ mode' \in [Ghosts -> Modes] /\ fresh' \in BOOLEAN
         /\ phase_remaining' \in Nat /\ phase_index' \in 0 .. Len(PhaseTicks)
<1>1. PhaseDuration(0) \in Nat /\ Len(PhaseTicks) \in Nat
  BY PhaseDurations
<1> QED BY <1>1, JitteredNat DEF PlaceEntities, Modes

\* The clocks of a tick.
LEMMA AdvancedShape ==
  ASSUME AdvanceTimers, phase_remaining \in Nat, phase_index \in 0 .. Len(PhaseTicks)
  PROVE  phase_remaining' \in Nat /\ phase_index' \in 0 .. Len(PhaseTicks)
<1>1. /\ Len(PhaseTicks) \in Nat /\ phase_index + 1 \in Nat
      /\ PhaseDuration(phase_index + 1) \in Nat
  <2>1. Len(PhaseTicks) \in Nat /\ phase_index + 1 \in Nat
    BY GameAssumption
  <2> QED BY <2>1, PhaseDurations
<1>2. CASE UNCHANGED phase_index /\ UNCHANGED phase_remaining
  BY <1>2
<1>3. CASE phase_remaining > 1 /\ phase_remaining' = phase_remaining - 1 /\ UNCHANGED phase_index
  BY <1>3
<1>4. CASE /\ phase_index < Len(PhaseTicks) /\ phase_index' = phase_index + 1
           /\ phase_remaining' \in Jittered(PhaseDuration(phase_index + 1))
  BY <1>1, <1>4, JitteredNat
<1> QED BY <1>2, <1>3, <1>4 DEF AdvanceTimers, clocks

LEMMA EatShape ==
  ASSUME GameInv, Shape, NEW c, EatUnderPacman(c)
  PROVE  mode' \in [Ghosts -> Modes] /\ UNCHANGED phase_index /\ UNCHANGED phase_remaining
<1>1. CASE UNCHANGED <<mode, clocks>>
  BY <1>1 DEF Shape, clocks
<1>2. CASE ApplyMode /\ UNCHANGED <<phase_index, phase_remaining>>
  BY <1>2, AppliedModes
<1>3. CASE UNCHANGED <<pellets, remaining, mode, clocks, events, houseVars>>
  BY <1>3 DEF Shape, clocks
<1> QED BY <1>1, <1>2, <1>3 DEF EatUnderPacman, StartFrightened

LEMMA MeetsShape ==
  ASSUME Shape, ResolveMeetings
  PROVE  Shape'
<1>1. UNCHANGED config /\ UNCHANGED turn /\ UNCHANGED left
  BY DEF ResolveMeetings
<1>2. ASSUME SendToPen(Eaten)
      PROVE  mode' \in [Ghosts -> Modes]
  BY <1>2 DEF SendToPen, Shape, Modes
<1>3. CASE /\ SendToPen(Eaten)
           /\ UNCHANGED <<state, lives, pacman, clocks, fresh, ghost_dot_limit,
                          counters, dots_idle, house_idle_limit>>
  BY <1>1, <1>2, <1>3 DEF Shape, clocks
<1>4. CASE LastLifeLost
  <2>1. 0 \in 0 .. StartingLives
    BY HouseAssumption
  <2> QED BY <1>1, <1>2, <1>4, <2>1 DEF LastLifeLost, Shape, clocks
<1>5. CASE lives > 1 /\ LifeLost
  <2>1. lives' \in 0 .. StartingLives
    BY <1>5, HouseAssumption DEF LifeLost, Shape
  <2>2. UNCHANGED state /\ PlaceEntities
    BY <1>5 DEF LifeLost
  <2> QED BY <1>1, <2>1, <2>2, PlacedShape DEF Shape
<1> QED BY <1>3, <1>4, <1>5 DEF ResolveMeetings

LEMMA ShapeStep == GameInv /\ WindowInv /\ Shape /\ [Next]_gameVars => Shape'
<1> SUFFICES ASSUME GameInv, WindowInv, Shape, [Next]_gameVars PROVE Shape'
  OBVIOUS
<1>0. /\ N \in Nat /\ StartingLives \in Nat
      /\ MaxPacmanSteps \in Nat /\ MaxGhostSteps \in Nat /\ left \in Nat
      /\ turn \in Nat
  BY HouseAssumption, GameAssumption, WindowShape DEF GameInv, Progress
<1>1. CASE Start
  <2>1. PlaceEntities /\ config' \in Config /\ lives' \in 0 .. StartingLives
    BY <1>0, <1>1, GameAssumption DEF Start, LoadLevel
  <2> QED BY <1>1, <2>1, PlacedShape DEF Start, Shape
<1>2. CASE TickBegins
  <2>1. phase_remaining' \in Nat /\ phase_index' \in 0 .. Len(PhaseTicks)
    BY <1>2, AdvancedShape DEF TickBegins, Shape
  <2>2. mode' \in [Ghosts -> Modes]
    BY <1>2, AppliedModes DEF TickBegins
  <2>3. left' = MaxPacmanSteps /\ fresh' = FALSE
    BY <1>2 DEF TickBegins
  <2>4. left' \in 0 .. MaxPacmanSteps + MaxGhostSteps
    BY <1>0, <2>3
  <2> QED BY <1>2, <2>1, <2>2, <2>3, <2>4, RulesUntouched DEF TickBegins, Shape
<1>3. CASE PacmanSteps
  <2>1. PICK c : EatUnderPacman(c)
    BY <1>3 DEF PacmanSteps
  <2>2. left' \in 0 .. MaxPacmanSteps + MaxGhostSteps
    BY <1>0, <1>3 DEF PacmanSteps, Shape
  <2> QED BY <1>3, <2>1, <2>2, EatShape, RulesUntouched DEF PacmanSteps, Shape
<1>4. CASE PacmanMeets \/ GhostMeets
  BY <1>4, MeetsShape DEF PacmanMeets, GhostMeets
<1>5. CASE CheckLevelCleared
  <2>1. UNCHANGED turn /\ UNCHANGED left
    BY <1>5 DEF CheckLevelCleared
  <2>2. CASE PlaceEntities /\ UNCHANGED rules /\ UNCHANGED lives
    BY <2>1, <2>2, PlacedShape, RulesUntouched DEF Shape
  <2>3. CASE /\ UNCHANGED config /\ state' \in {state, "WON"} /\ UNCHANGED fresh
             /\ UNCHANGED board /\ UNCHANGED clocks /\ UNCHANGED allHouseVars
    BY <2>1, <2>3, BoardUntouched, HouseUntouched DEF Shape, clocks
  <2> QED BY <1>5, <2>2, <2>3, RulesUntouched DEF CheckLevelCleared, LoadLevel
<1>6. CASE GhostSteps
  <2>1. left' \in 0 .. MaxPacmanSteps + MaxGhostSteps
    BY <1>0, <1>6 DEF GhostSteps, Shape
  <2> QED BY <1>6, <2>1, RulesUntouched, HouseUntouched DEF GhostSteps, Shape, clocks
<1>7. CASE PacmanRests \/ GhostRests \/ Deliver
  <2>1. turn' \in 0 .. N /\ left' \in 0 .. MaxPacmanSteps + MaxGhostSteps
    BY <1>0, <1>7 DEF PacmanRests, GhostRests, Deliver, Shape
  <2>2. /\ UNCHANGED rules /\ UNCHANGED board /\ UNCHANGED clocks
        /\ UNCHANGED allHouseVars /\ fresh' \in {fresh, FALSE}
    BY <1>7 DEF PacmanRests, GhostRests, Deliver
  <2> QED
    BY <2>1, <2>2, RulesUntouched, BoardUntouched, HouseUntouched DEF Shape, clocks
<1>8. CASE UNCHANGED gameVars
  <2>1. /\ UNCHANGED rules /\ UNCHANGED board /\ UNCHANGED clocks
        /\ UNCHANGED allHouseVars /\ UNCHANGED progress
    BY <1>8, Zenon DEF gameVars
  <2> QED
    BY <2>1, RulesUntouched, BoardUntouched, HouseUntouched DEF Shape, clocks, progress
<1> QED
  BY <1>1, <1>2, <1>3, <1>4, <1>5, <1>6, <1>7, <1>8 DEF Next

\* Every variable of a run keeps its type, for every maze and every table: no
\* clock, counter or number of lives goes below zero, and no phase is beyond
\* the plan.
THEOREM GameTypeSafe == Spec => []TypeOK
<1>1. Init => WindowInv /\ EventsInv /\ Shape
  <2> SUFFICES ASSUME Init PROVE WindowInv /\ EventsInv /\ Shape
    OBVIOUS
  <2>1. WindowInv /\ EventsInv
    BY DEF Init, WindowInv, EventsInv, GhostPhase, PacmanPhase
  <2>2. phase_remaining \in Nat /\ 0 \in 0 .. Len(PhaseTicks)
    BY PhaseDurations, JitteredNat DEF Init
  <2>3. /\ 0 \in 0 .. StartingLives /\ 0 \in 0 .. N
        /\ 0 \in 0 .. MaxPacmanSteps + MaxGhostSteps
    BY HouseAssumption, GameAssumption
  <2> QED BY <2>1, <2>2, <2>3 DEF Init, Shape, Config, DefaultConfig, Modes
<1>2. GameInv /\ WindowInv /\ EventsInv /\ Shape => TypeOK
  <2> SUFFICES ASSUME GameInv, WindowInv, EventsInv, Shape PROVE TypeOK
    OBVIOUS
  <2>1. remaining \in 0 .. TotalPellets
    <3>1. IsFiniteSet(pellets) /\ remaining \in Nat /\ remaining = Cardinality(pellets)
      BY FieldIsFinite DEF GameInv, Field
    <3>2. Cardinality(pellets) <= Cardinality(Pellets)
      BY GameAssumption, FS_Subset DEF GameInv, Field
    <3> QED BY <3>1, <3>2, GameAssumption, HouseAssumption
  <2>2. HouseTypeOK
    BY <2>1 DEF HouseTypeOK, HouseFacts, HouseShape, GameInv, Progress, Shape
  <2>3. in_house \subseteq Ghosts /\ frightened \in Nat
    BY DEF GameInv, Board, HouseFlagsAgree, WindowInv
  <2> QED
    BY <2>2, <2>3 DEF TypeOK, GameInv, Board, Field, Shape, EventsInv, Published,
                      PacmanPhase, GhostPhase
<1> QED BY <1>1, <1>2, WindowStep, EventsStep, ShapeStep, GameInductive, PTL DEF Spec

-----------------------------------------------------------------------------
(* A run is the one that Run promises. *)

LEMMA MeetingIsDeath ==
  ASSUME ResolveMeetings, state = "RUNNING"
  PROVE  AbstractRun!Die \/ UNCHANGED AbstractRun!vars
<1>1. UNCHANGED pellets /\ UNCHANGED level
  BY DEF ResolveMeetings
<1>2. CASE UNCHANGED <<state, lives, pacman, clocks, fresh, ghost_dot_limit,
                       counters, dots_idle, house_idle_limit>>
  BY <1>1, <1>2 DEF AbstractRun!vars
<1>3. CASE lives = 1 /\ LastLifeLost
  BY <1>1, <1>3 DEF LastLifeLost, AbstractRun!Die
<1>4. CASE lives > 1 /\ LifeLost
  <2>1. lives # 1
    BY <1>4
  <2> QED BY <1>1, <1>4, <2>1 DEF LifeLost, AbstractRun!Die
<1> QED BY <1>2, <1>3, <1>4 DEF ResolveMeetings

LEMMA RunStep == GameInv /\ [Next]_gameVars => [AbstractRun!Next]_(AbstractRun!vars)
<1> SUFFICES ASSUME GameInv, [Next]_gameVars
             PROVE  AbstractRun!Next \/ UNCHANGED AbstractRun!vars
  OBVIOUS
<1>1. CASE Start
  BY <1>1 DEF Start, LoadLevel, AbstractRun!Start, AbstractRun!Next
<1>2. CASE TickBegins
  BY <1>2, RulesUntouched DEF TickBegins, AbstractRun!vars
<1>3. CASE PacmanSteps
  <2>1. UNCHANGED rules /\ UNCHANGED level /\ UNCHANGED lives /\ state = "RUNNING"
    BY <1>3 DEF PacmanSteps, GameInv, Progress, Playing
  <2>2. PICK c \in PacmanReach(pacman) : EatUnderPacman(c)
    BY <1>3 DEF PacmanSteps
  <2>3. pellets' = pellets \/ \E p \in pellets : pellets' = pellets \ {p}
    BY <2>2, EatKeeps DEF GameInv
  <2> QED
    BY <2>1, <2>3, RulesUntouched DEF AbstractRun!vars, AbstractRun!Eat, AbstractRun!Next
<1>4. CASE PacmanMeets \/ GhostMeets
  <2>1. ResolveMeetings /\ state = "RUNNING"
    BY <1>4 DEF PacmanMeets, GhostMeets, GameInv, Progress, Playing
  <2> QED BY <2>1, MeetingIsDeath DEF AbstractRun!Next
<1>5. CASE CheckLevelCleared
  <2>1. state = "RUNNING"
    BY <1>5 DEF CheckLevelCleared, GameInv, Progress, Playing
  <2>2. remaining = 0 => pellets = {}
    BY FieldIsFinite DEF GameInv
  <2>3. CASE UNCHANGED <<rules, board, pellets, clocks, fresh, allHouseVars>>
    BY <2>3, RulesUntouched, HouseUntouched DEF AbstractRun!vars
  <2>4. CASE /\ remaining = 0 /\ level = Levels
             /\ state' = "WON"
             /\ UNCHANGED <<config, board, pellets, clocks, fresh, allHouseVars>>
    BY <2>1, <2>2, <2>4, HouseUntouched DEF AbstractRun!Win, AbstractRun!Next
  <2>5. CASE /\ remaining = 0 /\ level < Levels
             /\ LoadLevel(level + 1) /\ UNCHANGED <<rules, lives>>
    BY <2>1, <2>2, <2>5, RulesUntouched DEF LoadLevel, AbstractRun!Clear, AbstractRun!Next
  <2> QED BY <1>5, <2>3, <2>4, <2>5 DEF CheckLevelCleared
<1>6. CASE PacmanRests
  BY <1>6, RulesUntouched, HouseUntouched DEF PacmanRests, AbstractRun!vars
<1>7. CASE GhostSteps
  BY <1>7, RulesUntouched, HouseUntouched DEF GhostSteps, AbstractRun!vars
<1>8. CASE GhostRests
  BY <1>8, RulesUntouched, HouseUntouched DEF GhostRests, AbstractRun!vars
<1>9. CASE Deliver
  BY <1>9, RulesUntouched, HouseUntouched DEF Deliver, AbstractRun!vars
<1>10. CASE UNCHANGED gameVars
  <2>1. UNCHANGED rules /\ UNCHANGED pellets /\ UNCHANGED allHouseVars
    BY <1>10, Zenon DEF gameVars
  <2> QED BY <2>1, RulesUntouched, HouseUntouched DEF AbstractRun!vars
<1> QED
  BY <1>1, <1>2, <1>3, <1>4, <1>5, <1>6, <1>7, <1>8, <1>9, <1>10 DEF Next

\* Lives are only lost, pellets come back only with a new level, and a run
\* ends when its lives are spent or its last level is cleared, whichever comes
\* first: a run is never both won and lost, and nothing happens after it.
THEOREM GameImplementsRun == Spec => ImplementsRun
<1>1. Init => AbstractRun!Init
  BY DEF Init, HouseLoaded, AbstractRun!Init
<1> QED
  BY <1>1, RunStep, GameInductive, PTL DEF Spec, ImplementsRun, AbstractRun!Spec
=============================================================================
