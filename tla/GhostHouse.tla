----------------------------- MODULE GhostHouse -----------------------------
(***************************************************************************)
(* The ghost house of App/game: when Pinky, Inky and Clyde may leave it.   *)
(* Two schemes of counting pellets, of which one runs at a time, and a     *)
(* timer for a Pacman who does not eat.  Before the first death of a level *)
(* each waiting ghost has its own counter; a death puts those aside for a  *)
(* global one.                                                             *)
(*                                                                         *)
(* The module stands alone, with the rest of the game as an environment    *)
(* that eats, dies and clears levels (HouseNext), and is what Game builds  *)
(* on.  Time is in ticks of the game.                                      *)
(***************************************************************************)
EXTENDS Integers, FiniteSets

CONSTANTS
  N,              \* GHOST_COUNT: the ghosts are 0 .. N-1 in the code's order
  StartsInHouse,  \* ghosts whose start cell is house: all but Blinky
  Levels,         \* DIFFICULTY_FINAL_LEVEL
  DotLimit,       \* DotLimit[l][g]: the table's dots for ghost g at level l
  DotJitter,      \* HOUSE_DOT_JITTER
  IdleLimit,      \* IdleLimit[l]: the table's idle limit at level l
  MsJitter,       \* TIMING_JITTER_MS
  GlobalRelease,  \* GlobalRelease[g]: 7, 17 and 32 for Pinky, Inky and Clyde
  StartingLives,  \* GAME_STARTING_LIVES
  TotalPellets

Ghosts == 0 .. N - 1
GHOST_BLINKY == 0
GHOST_PINKY == 1
GHOST_INKY == 2
GHOST_CLYDE == 3

ASSUME HouseAssumption ==
  /\ N \in 1 .. 4 /\ StartsInHouse = Ghosts \ {GHOST_BLINKY}
  /\ Levels \in Nat \ {0} /\ StartingLives \in Nat \ {0}
  /\ TotalPellets \in Nat \ {0}
  /\ DotJitter \in Nat /\ MsJitter \in Nat
  /\ DotLimit \in [1 .. Levels -> [Ghosts -> Nat]]
  /\ IdleLimit \in [1 .. Levels -> Nat \ {0}]
  /\ GlobalRelease \in [StartsInHouse -> Nat \ {0}]

\* What the game depends on without saying so: in each of its tables a ghost
\* released later has no lower figure than one released earlier.
ASSUME TablesInOrder ==
  \A g, h \in StartsInHouse : g < h =>
    /\ GlobalRelease[g] < GlobalRelease[h]
    /\ \A l \in 1 .. Levels : DotLimit[l][g] > 0 => DotLimit[l][h] > 0

VARIABLES
  level, lives, remaining,  \* remaining: pellets left in the level
  waiting,             \* the ghosts with is_waiting_in_house
  ghost_dot_limit, ghost_dot_counter,
  global_dot_counter, is_global_dot_counter_active,
  dots_idle, house_idle_limit  \* in ticks

counters  == <<ghost_dot_counter, global_dot_counter,
               is_global_dot_counter_active>>
houseVars == <<waiting, ghost_dot_limit, counters, dots_idle, house_idle_limit>>

-----------------------------------------------------------------------------
\* prv_jitter_ms: up to MsJitter either way, and never more than half.
Jittered(nominal) ==
  LET half == nominal \div 2
      bound == IF half < MsJitter THEN half ELSE MsJitter
  IN  nominal - bound .. nominal + bound

\* What a level's limit may be drawn as: zero only if the table says zero,
\* because zero means "leaves at once".
DotLimits(nominal) ==
  IF nominal = 0 THEN {0}
  ELSE {IF n < 1 THEN 1 ELSE n : n \in nominal - DotJitter .. nominal + DotJitter}

\* prv_get_waiting_ghost: the most preferred ghost still shut in, N if none.
WaitingGhost ==
  IF waiting = {} THEN N ELSE CHOOSE g \in waiting : \A h \in waiting : g <= h

\* The part of prv_place_entities that concerns the house, at level l.
DrawHouse(l) ==
  /\ dots_idle' = 0
  /\ house_idle_limit' \in Jittered(IdleLimit[l])
  /\ ghost_dot_limit' \in [Ghosts -> UNION {DotLimits(DotLimit[l][g]) : g \in Ghosts}]
  /\ \A g \in Ghosts : ghost_dot_limit'[g] \in DotLimits(DotLimit[l][g])

\* prv_load_level: whoever has a limit of zero walks out at once.
LoadHouse(l) ==
  /\ DrawHouse(l)
  /\ waiting' = {g \in StartsInHouse : ghost_dot_limit'[g] # 0}
  /\ ghost_dot_counter' = [g \in Ghosts |-> 0]
  /\ global_dot_counter' = 0 /\ is_global_dot_counter_active' = FALSE

\* prv_lose_life with lives left: the personal counters are put aside.  The
\* mutant goes on counting with them.
RefillHousePersonally ==
  /\ DrawHouse(level)
  /\ waiting' = StartsInHouse
  /\ global_dot_counter' = 0
  /\ UNCHANGED <<ghost_dot_counter, is_global_dot_counter_active>>
RefillHouse ==
  /\ DrawHouse(level)
  /\ waiting' = StartsInHouse
  /\ is_global_dot_counter_active' = TRUE /\ global_dot_counter' = 0
  /\ UNCHANGED ghost_dot_counter

-----------------------------------------------------------------------------
(* prv_count_dot_for_the_house: a pellet was eaten. *)

NobodyWaits ==
  /\ waiting = {}
  /\ UNCHANGED <<waiting, counters>>

\* Taking Inky's release point for Clyde's.
ClydeIsDueEarly(count) ==
  /\ GHOST_CLYDE \in waiting
  /\ count >= GlobalRelease[GHOST_INKY]

\* Clyde indoors at his release point retires the global counter, whoever
\* else is waiting; the others are released only as the next in line.
ClydeIsDue(count) ==
  /\ GHOST_CLYDE \in waiting
  /\ count >= GlobalRelease[GHOST_CLYDE]
NextIsDue(count) ==
  /\ WaitingGhost \in {GHOST_PINKY, GHOST_INKY}
  /\ count >= GlobalRelease[WaitingGhost]

CountGlobally ==
  /\ waiting # {} /\ is_global_dot_counter_active
  /\ LET count == global_dot_counter + 1 IN
       \/ /\ ClydeIsDue(count)
          /\ waiting' = waiting \ {GHOST_CLYDE}
          /\ is_global_dot_counter_active' = FALSE /\ global_dot_counter' = 0
       \/ /\ ~ClydeIsDue(count)
          /\ waiting' = IF NextIsDue(count) THEN waiting \ {WaitingGhost}
                                            ELSE waiting
          /\ global_dot_counter' = count
          /\ UNCHANGED is_global_dot_counter_active
  /\ UNCHANGED ghost_dot_counter

\* Counting for every ghost at once instead of only the next one.
CountForAll ==
  /\ waiting # {} /\ ~is_global_dot_counter_active
  /\ ghost_dot_counter' = [g \in Ghosts |->
        ghost_dot_counter[g] + (IF g \in waiting THEN 1 ELSE 0)]
  /\ waiting' = {g \in waiting : ghost_dot_counter'[g] < ghost_dot_limit[g]}
  /\ UNCHANGED <<global_dot_counter, is_global_dot_counter_active>>

CountPersonally ==
  /\ waiting # {} /\ ~is_global_dot_counter_active
  /\ LET g == WaitingGhost
         count == ghost_dot_counter[g] + 1 IN
       /\ ghost_dot_counter' = [ghost_dot_counter EXCEPT ![g] = count]
       /\ waiting' = IF count >= ghost_dot_limit[g] THEN waiting \ {g} ELSE waiting
  /\ UNCHANGED <<global_dot_counter, is_global_dot_counter_active>>

CountDot ==
  /\ dots_idle' = 0
  /\ NobodyWaits \/ CountGlobally \/ CountPersonally
  /\ UNCHANGED <<ghost_dot_limit, house_idle_limit>>

-----------------------------------------------------------------------------
\* prv_advance_house_idle_timer.  The mutant starts over in every tick instead
\* of adding up.
AdvanceHouseIdleTimerStuck ==
  /\ IF waiting # {} /\ house_idle_limit = 1
     THEN waiting' = waiting \ {WaitingGhost} /\ dots_idle' = 0
     ELSE dots_idle' = 1 /\ UNCHANGED waiting
  /\ UNCHANGED <<ghost_dot_limit, counters, house_idle_limit>>

AdvanceHouseIdleTimer ==
  /\ IF waiting = {}
     THEN UNCHANGED <<waiting, dots_idle>>
     ELSE IF dots_idle + 1 >= house_idle_limit
     THEN waiting' = waiting \ {WaitingGhost} /\ dots_idle' = 0
     ELSE dots_idle' = dots_idle + 1 /\ UNCHANGED waiting
  /\ UNCHANGED <<ghost_dot_limit, counters, house_idle_limit>>

-----------------------------------------------------------------------------
(* The house on its own: any order of the events the game can produce. *)

HouseLoaded ==
  /\ level = 1 /\ remaining = TotalPellets
  /\ dots_idle = 0
  /\ house_idle_limit \in Jittered(IdleLimit[1])
  /\ ghost_dot_limit \in [Ghosts -> UNION {DotLimits(DotLimit[1][g]) : g \in Ghosts}]
  /\ \A g \in Ghosts : ghost_dot_limit[g] \in DotLimits(DotLimit[1][g])
  /\ waiting = {g \in StartsInHouse : ghost_dot_limit[g] # 0}
  /\ ghost_dot_counter = [g \in Ghosts |-> 0]
  /\ global_dot_counter = 0 /\ is_global_dot_counter_active = FALSE

HouseInit == HouseLoaded /\ lives = StartingLives

IsRunning == lives > 0 /\ remaining > 0

EatDot ==
  /\ IsRunning
  /\ remaining' = remaining - 1
  /\ CountDot
  /\ UNCHANGED <<level, lives>>

LoseLife ==
  /\ IsRunning
  /\ lives' = lives - 1
  /\ IF lives = 1 THEN UNCHANGED houseVars ELSE RefillHouse
  /\ UNCHANGED <<level, remaining>>

NextLevel ==
  /\ lives > 0 /\ remaining = 0 /\ level < Levels
  /\ level' = level + 1 /\ remaining' = TotalPellets
  /\ LoadHouse(level + 1)
  /\ UNCHANGED lives

IdleTick ==
  /\ IsRunning
  /\ AdvanceHouseIdleTimer
  /\ UNCHANGED <<level, lives, remaining>>

HouseNext == EatDot \/ LoseLife \/ NextLevel \/ IdleTick

allHouseVars == <<level, lives, remaining, houseVars>>

\* game_tick runs in every frame of a run, and a cleared level is replaced in
\* the step that cleared it.  Nothing makes Pacman eat or die.
HouseFairness == WF_allHouseVars(IdleTick) /\ WF_allHouseVars(NextLevel)

HouseSpec == HouseInit /\ [][HouseNext]_allHouseVars /\ HouseFairness

-----------------------------------------------------------------------------
HouseTypeOK ==
  /\ level \in 1 .. Levels /\ lives \in 0 .. StartingLives
  /\ remaining \in 0 .. TotalPellets
  /\ waiting \subseteq StartsInHouse
  /\ ghost_dot_limit \in [Ghosts -> Nat]
  /\ ghost_dot_counter \in [Ghosts -> Nat]
  /\ global_dot_counter \in Nat
  /\ is_global_dot_counter_active \in BOOLEAN
  /\ dots_idle \in Nat /\ house_idle_limit \in Nat
  /\ dots_idle < house_idle_limit

\* The ghosts leave in the order Pinky, Inky, Clyde, whichever of the two
\* counters or the idle timer lets each of them out: the three mechanisms
\* never let one out past another who is still waiting.
ReleasedInOrder ==
  \A g, h \in StartsInHouse : g < h /\ g \in waiting => h \in waiting

\* A ghost still waiting has not reached what it waits for, whatever deaths,
\* redrawn limits and handovers between the counters came before.
WaitersNotDue ==
  IF is_global_dot_counter_active
  THEN \A g \in waiting : global_dot_counter < GlobalRelease[g]
  ELSE \A g \in waiting : ghost_dot_counter[g] < ghost_dot_limit[g]

HouseInv == HouseTypeOK /\ ReleasedInOrder /\ WaitersNotDue

\* The global counter is handed back only in an empty house: within a life
\* nobody's wait switches from one scheme to the other.
HandedBackEmpty ==
  [][is_global_dot_counter_active /\ ~is_global_dot_counter_active'
       /\ level' = level => waiting' = {}]_allHouseVars

\* Standing still cannot keep them locked up (game.h, difficulty.h): unless
\* the run ends, everyone gets out.
IsOver == lives = 0 \/ (remaining = 0 /\ level = Levels)
NobodyLockedIn == \A g \in StartsInHouse : g \in waiting ~> g \notin waiting \/ IsOver
=============================================================================
