-------------------------------- MODULE Game --------------------------------
(***************************************************************************)
(* A run of the game (App/game): Pacman, the ghosts and what happens when  *)
(* they meet, in the order game_tick takes them.  The ghost house is the   *)
(* one of GhostHouse, with this module as its environment.                 *)
(*                                                                         *)
(* Time is in ticks.  How long a step takes is abstracted: in a tick an    *)
(* actor takes any number of steps up to the most the level table allows   *)
(* (MaxPacmanSteps, MaxGhostSteps), none once its elapsed time was zeroed. *)
(* Where it steps is any cell in reach: which one the player asks for, or  *)
(* ghost_path picks, is Walk's business.                                   *)
(***************************************************************************)
EXTENDS GhostHouse, Reach, Sequences

CONSTANTS
  PacmanStart,
  GhostStart,      \* GhostStart[g]
  Pellets, Power,  \* the cells that start a level with a pellet
  FrightenedTicks, \* FrightenedTicks[l]: zero for only points
  PhaseTicks,      \* the plan: scatter, chase, scatter, ... then chase
  Elroy,           \* Elroy[l]: pellets left when Blinky stops scattering
  MaxPacmanSteps, MaxGhostSteps,
  Configs          \* the rules a run may be started under

Modes == {"SCATTER", "CHASE", "FRIGHTENED"}
Config == [has_ghosts : BOOLEAN, has_power_pellets : BOOLEAN]
DefaultConfig == [has_ghosts |-> TRUE, has_power_pellets |-> TRUE]

ASSUME GameAssumption ==
  /\ GHOST_PINKY \in Ghosts
  /\ PacmanStart \in Cells \ House
  /\ GhostStart \in [Ghosts -> Cells \ {PacmanStart}]
  /\ \A g \in Ghosts : GhostStart[g] \in House <=> g \in StartsInHouse
  /\ Power \subseteq Pellets /\ Pellets \subseteq Cells \ House
  /\ IsFiniteSet(Pellets) /\ Cardinality(Pellets) = TotalPellets
  /\ FrightenedTicks \in [1 .. Levels -> Nat]
  /\ PhaseTicks \in Seq(Nat \ {0})
  /\ Elroy \in [1 .. Levels -> Nat]
  /\ MaxPacmanSteps \in Nat \ {0} /\ MaxGhostSteps \in Nat \ {0}
  /\ Configs \subseteq Config

\* What holds a ghost that was eaten back until its tick is over: from the pen
\* (where Pinky starts) more steps lead out of the house than a ghost can take
\* in one tick, two rows and the gate in the maze the game draws.  depth[c] is
\* how many steps from c surely stay indoors.
ASSUME PenAssumption ==
  \E depth \in [Cells -> -1 .. MaxGhostSteps] :
    /\ depth[GhostStart[GHOST_PINKY]] = MaxGhostSteps
    /\ \A c \in Cells : depth[c] >= 0 =>
         c \in House /\ \A d \in Neighbours[c] : depth[d] >= depth[c] - 1

VARIABLES
  state, config,
  pacman, ghosts,  \* the cells they are on
  in_house,        \* the ghosts with is_in_house: the gate opens for them
  mode,
  pellets,         \* the cells that still have one
  frightened,      \* frightened_remaining_ms, in ticks
  phase_index, phase_remaining,
  events,          \* published on the internal broker, not yet delivered
  pc,              \* where game_tick is
  turn, left,      \* whose steps it takes, and how many more it may
  fresh            \* the elapsed times were zeroed in this tick

board    == <<pacman, ghosts, in_house, mode>>
clocks   == <<frightened, phase_index, phase_remaining>>
progress == <<pc, turn, left, fresh>>
rules    == <<state, config>>
gameVars == <<rules, board, pellets, clocks, events, progress, allHouseVars>>

-----------------------------------------------------------------------------
(* prv_get_scheduled_mode, prv_get_elroy_stage and prv_apply_mode.  The code
   counts the plan's phases from zero. *)

Scheduled(phase) ==
  IF phase < Len(PhaseTicks) /\ phase % 2 = 0 THEN "SCATTER" ELSE "CHASE"

ModeOf(g, window, phase, remains) ==
  IF window > 0 THEN "FRIGHTENED"
  ELSE IF g = GHOST_BLINKY /\ remains <= Elroy[level] THEN "CHASE"
  ELSE Scheduled(phase)

ApplyMode ==
  mode' = [g \in Ghosts |-> ModeOf(g, frightened', phase_index', remaining')]

PhaseDuration(phase) == IF phase < Len(PhaseTicks) THEN PhaseTicks[phase + 1] ELSE 0

\* prv_advance_timers: the frightened window freezes the plan.
AdvanceTimers ==
  \/ /\ frightened > 0
     /\ frightened' = frightened - 1
     /\ UNCHANGED <<phase_index, phase_remaining>>
  \/ /\ frightened = 0 /\ phase_index >= Len(PhaseTicks)
     /\ UNCHANGED clocks
  \/ /\ frightened = 0 /\ phase_index < Len(PhaseTicks) /\ phase_remaining > 1
     /\ phase_remaining' = phase_remaining - 1
     /\ UNCHANGED <<frightened, phase_index>>
  \/ /\ frightened = 0 /\ phase_index < Len(PhaseTicks) /\ phase_remaining <= 1
     /\ phase_index' = phase_index + 1
     /\ phase_remaining' \in Jittered(PhaseDuration(phase_index + 1))
     /\ UNCHANGED frightened

\* prv_place_entities, but for the house (DrawHouse).
PlaceEntities ==
  /\ pacman' = PacmanStart /\ ghosts' = GhostStart
  /\ in_house' = StartsInHouse
  /\ mode' = [g \in Ghosts |-> "SCATTER"]
  /\ frightened' = 0
  /\ phase_index' = 0 /\ phase_remaining' \in Jittered(PhaseDuration(0))
  /\ fresh' = TRUE

\* prv_load_level.
LoadLevel(l) ==
  /\ level' = l
  /\ pellets' = Pellets /\ remaining' = Cardinality(Pellets)
  /\ PlaceEntities /\ LoadHouse(l)

-----------------------------------------------------------------------------
Init ==
  /\ state = "IDLE" /\ config = DefaultConfig
  /\ HouseLoaded /\ lives = 0
  /\ pacman = PacmanStart /\ ghosts = GhostStart /\ in_house = StartsInHouse
  /\ mode = [g \in Ghosts |-> "SCATTER"]
  /\ pellets = Pellets
  /\ frightened = 0 /\ phase_index = 0
  /\ phase_remaining \in Jittered(PhaseDuration(0))
  /\ events = <<>> /\ pc = "idle" /\ turn = 0 /\ left = 0 /\ fresh = TRUE

\* prv_begin_run, from any state a caller finds the game in: a fresh bus.
Start ==
  /\ pc = "idle"
  /\ config' \in Configs
  /\ state' = "RUNNING" /\ lives' = StartingLives
  /\ events' = <<>>
  /\ LoadLevel(1)
  /\ UNCHANGED <<pc, turn, left>>

\* game_tick up to Pacman's steps.
TickBegins ==
  /\ pc = "idle" /\ state = "RUNNING"
  /\ UNCHANGED <<rules, pacman, ghosts, in_house, pellets, events, turn,
                 level, lives, remaining>>
  /\ AdvanceTimers /\ AdvanceHouseIdleTimer /\ ApplyMode
  /\ pc' = "pacman" /\ left' = MaxPacmanSteps /\ fresh' = FALSE

\* prv_start_frightened: the window opens at once for everybody, and at the
\* levels where it has no length not at all.  The mutants leave the ghosts as
\* they are until the next tick, and publish once for each ghost.
StartFrightenedAtNextTick ==
  \E window \in Jittered(FrightenedTicks[level]) :
    IF window = 0
    THEN /\ events' = Append(events, "PELLET_EATEN")
         /\ UNCHANGED <<mode, clocks>>
    ELSE /\ events' = events \o <<"PELLET_EATEN", "FRIGHTENED_STARTED">>
         /\ frightened' = window
         /\ UNCHANGED <<mode, phase_index, phase_remaining>>
StartFrightenedForEach ==
  \E window \in Jittered(FrightenedTicks[level]) :
    IF window = 0
    THEN /\ events' = Append(events, "PELLET_EATEN")
         /\ UNCHANGED <<mode, clocks>>
    ELSE /\ events' = events \o <<"PELLET_EATEN">>
                             \o [g \in 1 .. N |-> "FRIGHTENED_STARTED"]
         /\ frightened' = window
         /\ UNCHANGED <<phase_index, phase_remaining>>
         /\ ApplyMode

StartFrightened ==
  \E window \in Jittered(FrightenedTicks[level]) :
    IF window = 0
    THEN /\ events' = Append(events, "PELLET_EATEN")
         /\ UNCHANGED <<mode, clocks>>
    ELSE /\ events' = events \o <<"PELLET_EATEN", "FRIGHTENED_STARTED">>
         /\ frightened' = window
         /\ UNCHANGED <<phase_index, phase_remaining>>
         /\ ApplyMode

\* The demotion of prv_load_level, made where it shows: without power pellets
\* all of them are ordinary ones.
IsPower(c) == c \in Power /\ config.has_power_pellets

\* prv_eat_under_pacman on cell c.
EatUnderPacman(c) ==
  \/ /\ c \notin pellets
     /\ UNCHANGED <<pellets, remaining, mode, clocks, events, houseVars>>
  \/ /\ c \in pellets
     /\ pellets' = pellets \ {c} /\ remaining' = remaining - 1
     /\ CountDot
     /\ IF IsPower(c)
        THEN StartFrightened
        ELSE events' = Append(events, "PELLET_EATEN") /\ UNCHANGED <<mode, clocks>>

\* pacman_advance and the first half of prv_move_pacman.
PacmanSteps ==
  /\ pc = "pacman" /\ left > 0 /\ ~fresh
  /\ \E c \in PacmanReach(pacman) :
       pacman' = c /\ EatUnderPacman(c)
  /\ pc' = "pacman_meets" /\ left' = left - 1
  /\ UNCHANGED <<rules, ghosts, in_house, turn, fresh, level, lives>>

PacmanRests ==
  /\ pc = "pacman"
  /\ pc' = "ghosts" /\ turn' = 0 /\ left' = MaxGhostSteps
  /\ UNCHANGED <<rules, board, pellets, clocks, events, fresh, allHouseVars>>

-----------------------------------------------------------------------------
(* prv_resolve_meetings.  One actor moves at a time, so that sharing a cell is
   the only way to meet: a swap needs both to have moved.  The ghosts are
   looked at in their order, up to the first that kills. *)

Met == {g \in Ghosts : config.has_ghosts /\ ghosts[g] = pacman}
Killers == {g \in Met : mode[g] # "FRIGHTENED"}

\* Returning after the first ghost eaten, instead of going on.
EatenFirstOnly ==
  {g \in Met \ Killers : \A k \in Met : g <= k}
Eaten == {g \in Met \ Killers : \A k \in Killers : g < k}

\* ghost_send_to_pen, for everyone eaten, to where Pinky starts.  The mutant
\* forgets that the gate has to open for them again.
SendToPenShut(G) ==
  /\ ghosts' = [g \in Ghosts |-> IF g \in G THEN GhostStart[GHOST_PINKY] ELSE ghosts[g]]
  /\ mode' = [g \in Ghosts |-> IF g \in G THEN "SCATTER" ELSE mode[g]]
  /\ waiting' = waiting \ G
  /\ UNCHANGED in_house
SendToPen(G) ==
  /\ ghosts' = [g \in Ghosts |-> IF g \in G THEN GhostStart[GHOST_PINKY] ELSE ghosts[g]]
  /\ mode' = [g \in Ghosts |-> IF g \in G THEN "SCATTER" ELSE mode[g]]
  /\ in_house' = in_house \cup G
  /\ waiting' = waiting \ G

\* prv_lose_life
LastLifeLost ==
  /\ lives' = 0 /\ state' = "OVER"
  /\ SendToPen(Eaten)
  /\ UNCHANGED <<pacman, clocks, fresh, ghost_dot_limit, counters,
                 dots_idle, house_idle_limit>>
LifeLost ==
  /\ lives' = lives - 1
  /\ PlaceEntities /\ RefillHouse
  /\ UNCHANGED state

\* What both callers do; each says itself where it goes on.
ResolveMeetings ==
  /\ events' = events \o [i \in 1 .. Cardinality(Eaten) |-> "GHOST_EATEN"]
  /\ \/ /\ Killers = {}
        /\ SendToPen(Eaten)
        /\ UNCHANGED <<state, lives, pacman, clocks, fresh, ghost_dot_limit,
                       counters, dots_idle, house_idle_limit>>
     \/ Killers # {} /\ lives = 1 /\ LastLifeLost
     \/ Killers # {} /\ lives > 1 /\ LifeLost
  /\ UNCHANGED <<config, pellets, level, remaining, turn, left>>

\* The second half of prv_move_pacman.  The mutant does not stop at the end of
\* the run, and a cleared level wins it again.
PacmanMeetsAnyway ==
  /\ pc = "pacman_meets"
  /\ ResolveMeetings
  /\ pc' = "cleared"
PacmanMeets ==
  /\ pc = "pacman_meets"
  /\ ResolveMeetings
  /\ pc' = IF state' = "RUNNING" THEN "cleared" ELSE "deliver"

\* prv_check_level_cleared
CheckLevelCleared ==
  /\ pc = "cleared"
  /\ \/ /\ remaining > 0
        /\ pc' = "pacman"
        /\ UNCHANGED <<rules, board, pellets, clocks, fresh, allHouseVars>>
     \/ /\ remaining = 0 /\ level = Levels
        /\ state' = "WON" /\ pc' = "deliver"
        /\ UNCHANGED <<config, board, pellets, clocks, fresh, allHouseVars>>
     \/ /\ remaining = 0 /\ level < Levels
        /\ LoadLevel(level + 1)
        /\ pc' = "pacman"
        /\ UNCHANGED <<rules, lives>>
  /\ UNCHANGED <<events, turn, left>>

-----------------------------------------------------------------------------
\* ghost_advance and the first half of prv_move_ghost: a ghost still waiting
\* stays, any other goes on, and the gate shuts behind it.
GhostSteps ==
  /\ pc = "ghosts" /\ config.has_ghosts /\ turn < N /\ left > 0 /\ ~fresh
  /\ \E c \in IF turn \in waiting THEN {ghosts[turn]}
              ELSE GhostReach(ghosts[turn], turn \in in_house) :
       /\ ghosts' = [ghosts EXCEPT ![turn] = c]
       /\ in_house' = IF c \in House THEN in_house ELSE in_house \ {turn}
  /\ pc' = "ghost_meets" /\ left' = left - 1
  /\ UNCHANGED <<rules, pacman, mode, pellets, clocks, events, turn, fresh,
                 allHouseVars>>

GhostMeets ==
  /\ pc = "ghost_meets"
  /\ ResolveMeetings
  /\ pc' = IF state' = "RUNNING" THEN "ghosts" ELSE "deliver"

GhostRests ==
  /\ pc = "ghosts" /\ config.has_ghosts /\ turn < N
  /\ turn' = turn + 1 /\ left' = MaxGhostSteps
  /\ UNCHANGED <<rules, board, pellets, clocks, events, pc, fresh, allHouseVars>>

\* prv_deliver_events at the end of game_tick, everything that was published.
Deliver ==
  /\ pc = "deliver" \/ (pc = "ghosts" /\ (turn = N \/ ~config.has_ghosts))
  /\ events' = <<>>
  /\ pc' = "idle" /\ turn' = 0 /\ left' = 0 /\ fresh' = FALSE
  /\ UNCHANGED <<rules, board, pellets, clocks, allHouseVars>>

Next ==
  \/ Start \/ TickBegins
  \/ PacmanSteps \/ PacmanMeets \/ CheckLevelCleared \/ PacmanRests
  \/ GhostSteps \/ GhostMeets \/ GhostRests
  \/ Deliver

Spec == Init /\ [][Next]_gameVars

-----------------------------------------------------------------------------
TypeOK ==
  /\ HouseTypeOK
  /\ state \in {"IDLE", "RUNNING", "OVER", "WON"} /\ config \in Config
  /\ pacman \in Cells /\ ghosts \in [Ghosts -> Cells]
  /\ in_house \subseteq Ghosts /\ mode \in [Ghosts -> Modes]
  /\ pellets \subseteq Pellets /\ remaining = Cardinality(pellets)
  /\ frightened \in Nat /\ phase_remaining \in Nat
  /\ phase_index \in 0 .. Len(PhaseTicks)
  /\ events \in Seq({"PELLET_EATEN", "FRIGHTENED_STARTED", "GHOST_EATEN"})
  /\ pc \in {"idle", "pacman", "pacman_meets", "cleared",
             "ghosts", "ghost_meets", "deliver"}
  /\ turn \in 0 .. N /\ left \in 0 .. MaxPacmanSteps + MaxGhostSteps
  /\ fresh \in BOOLEAN

\* Whoever shares Pacman's cell is dealt with before anybody moves on: with
\* several ghosts on it, after an eaten one, and in the step that ends a
\* level too.
MeetingsSettled ==
  state = "RUNNING" /\ config.has_ghosts /\ pc \notin {"pacman_meets", "ghost_meets"}
    => \A g \in Ghosts : ghosts[g] # pacman

\* The house flags of a ghost and the cell it stands on never disagree, so
\* that the gate is open for exactly those behind it, and Pacman never gets in.
HouseFlagsAgree ==
  /\ in_house = {g \in Ghosts : ghosts[g] \in House}
  /\ waiting \subseteq in_house
  /\ pacman \notin House

\* The window and the ghosts agree in every frame that is published: while it
\* is open only a ghost eaten in this very tick is not blue, and it is in the
\* pen; while it is closed none is.
WindowAgrees ==
  \A g \in Ghosts :
    /\ mode[g] = "FRIGHTENED" => frightened > 0
    /\ mode[g] # "FRIGHTENED" /\ frightened > 0 => g \in in_house \ waiting

\* Whom Pacman meets at one time is all edible or all deadly, so that the order
\* in which prv_resolve_meetings takes the ghosts on a cell decides nothing.
MeetsOneKind == Killers = {} \/ Killers = Met

\* A tick produces at most one pellet, one frightened start and one meal of
\* each ghost (game.h, where the internal broker gets its capacity; the inbox
\* of Score, with eight, holds them too) for each step Pacman takes in it, which
\* is one at most at the speeds of the table, whatever happens in it.
EventsFitOneTick == Len(events) <= MaxPacmanSteps * (2 + N)

\* The run is the one that Run promises, through every order of deaths, meals
\* and clears within a tick.
AbstractRun == INSTANCE Run
ImplementsRun == AbstractRun!Spec

\* What msg.h says of a ghost that was eaten: it sits in the pen un-frightened
\* while the others are still blue.
EatenStaysEaten ==
  [][\A g \in Ghosts :
       0 < frightened' /\ frightened' < frightened /\ mode[g] # "FRIGHTENED"
         => mode'[g] # "FRIGHTENED"]_gameVars
=============================================================================
