---------------------------- MODULE GameSession ----------------------------
(***************************************************************************)
(* A run as it is shown (App/game_session): the frame timer that drives    *)
(* it, the maze handed to the view, and who steers.  The game itself is    *)
(* what Run and Game say of it, reduced to what a frame can come to; the   *)
(* look-ahead search is reduced to the board it is rooted in.              *)
(*                                                                         *)
(* The operations are called by Shell, which is the specification.         *)
(***************************************************************************)
EXTENDS Integers, Sequences, FiniteSets

CONSTANTS
  Cells, StartCell,  \* what Pacman can stand on, and where he starts
  Levels

ASSUME SessionAssumption ==
  /\ StartCell \in Cells
  /\ Levels \in Nat \ {0}

VARIABLES
  game_state, level, pacman,
  maze,           \* the maze of the level in play
  player,         \* g_player: "HUMAN" or "LOOKAHEAD"
  frame_armed,    \* g_frame_timer is running
  frame_due,      \* g_is_frame_due
  drawn_level,    \* g_drawn_maze_level: 0 is GAME_SESSION_NO_LEVEL
  view_maze,      \* what game_view was last given
  view_infinite,  \* whether the view says LOOP
  decided,        \* the cell the agent last answered for, "none" if none
  root,           \* the run the search was last rooted in
  root_is_stale,  \* history: the board the search was rooted in is not the
                  \* one Pacman stepped onto his present cell in
  run             \* which run this is; only equality with the last matters

gameVars    == <<game_state, level, pacman, maze, run>>
frameVars   == <<frame_armed, frame_due>>
viewVars    == <<drawn_level, view_maze, view_infinite>>
agentVars   == <<player, decided, root, root_is_stale>>
sessionVars == <<gameVars, frameVars, viewVars, agentVars>>

Mazes == {<<"none">>, <<"CLASSIC">>} \cup {<<"RANDOM", r, l>> : r \in 0 .. 1, l \in 1 .. Levels}

\* The maze of level l of run r.
MazeOf(kind, r, l) == IF kind = "CLASSIC" THEN <<"CLASSIC">> ELSE <<"RANDOM", r, l>>

SessionInit ==
  /\ game_state = "IDLE" /\ level = 0 /\ pacman = StartCell /\ maze = <<"none">>
  /\ run = 0
  /\ frame_armed = FALSE /\ frame_due = FALSE
  /\ drawn_level = 0 /\ view_maze = <<"none">> /\ view_infinite = FALSE
  /\ player = "HUMAN" /\ decided = "none" /\ root = 0 /\ root_is_stale = TRUE

-----------------------------------------------------------------------------
\* game_session_init, which clears the view, and then game_session_start or
\* game_session_start_on_normal_maze.
StartRun(kind) ==
  /\ game_state' = "RUNNING" /\ level' = 1 /\ pacman' = StartCell
  /\ run' = 1 - run /\ maze' = MazeOf(kind, 1 - run, 1)
  /\ frame_due' = FALSE /\ frame_armed' = TRUE
  /\ drawn_level' = 0 /\ view_maze' = <<"none">> /\ view_infinite' = FALSE

\* prv_start_under_player_control and game_session_set_player: whoever takes
\* over has not answered for any cell yet.  The mutant forgets that.
HandOverStillDecided(to) ==
  player' = to /\ UNCHANGED <<decided, root, root_is_stale>>
HandOver(to) ==
  /\ player' = to /\ decided' = "none"
  /\ root_is_stale' = TRUE /\ UNCHANGED root

\* game_session_set_infinite, on the menu.
SetInfinite(on) == view_infinite' = on

\* prv_on_frame_due, in sw_timer_process: the timer is one-shot, so the
\* callback arms it again.  The mutant does not.
OnFrameDueOnce ==
  /\ frame_armed
  /\ frame_due' = TRUE /\ frame_armed' = FALSE
OnFrameDue ==
  /\ frame_armed
  /\ frame_due' = TRUE /\ frame_armed' = TRUE

\* What one game_tick can come to, with the board replaced or not: nothing to
\* see, a step to another cell, a death with lives left, the next level, or
\* the end of the run.
TickGame(replaced) ==
  \/ /\ ~replaced
     /\ pacman' \in Cells
     /\ UNCHANGED <<game_state, level, maze, run>>
  \/ /\ ~replaced
     /\ game_state' \in {"OVER", "WON"} /\ pacman' \in Cells
     /\ UNCHANGED <<level, maze, run>>
  \/ /\ replaced
     /\ level' \in {level, level + 1} /\ level' <= Levels
     /\ maze' = IF level' = level THEN maze ELSE MazeOf(maze[1], run, level')
     /\ pacman' = StartCell
     /\ UNCHANGED <<game_state, run>>

\* prv_is_new_cell and prv_service_lookahead, after the tick: a new search if
\* the cell is new, however Pacman came to stand on it.
ServiceAi(replaced) ==
  \/ /\ player = "HUMAN"
     /\ UNCHANGED <<decided, root, root_is_stale>>
  \/ /\ player = "LOOKAHEAD" /\ decided # pacman'
     /\ decided' = pacman' /\ root' = run' /\ root_is_stale' = FALSE
  \/ /\ player = "LOOKAHEAD" /\ decided = pacman'
     /\ root_is_stale' = (root_is_stale \/ replaced)
     /\ UNCHANGED <<decided, root>>

\* The maze goes to the view when the level is not the one drawn.  The mutant
\* compares with the level before the tick.
HandOverMazeLate ==
  IF drawn_level # level
  THEN drawn_level' = level /\ view_maze' = maze
  ELSE UNCHANGED <<drawn_level, view_maze>>
HandOverMaze ==
  IF drawn_level # level'
  THEN drawn_level' = level' /\ view_maze' = maze'
  ELSE UNCHANGED <<drawn_level, view_maze>>

\* game_session_service
SessionService ==
  IF ~frame_due
  THEN UNCHANGED sessionVars
  ELSE /\ frame_due' = FALSE
       /\ \E replaced \in BOOLEAN : TickGame(replaced) /\ ServiceAi(replaced)
       /\ HandOverMaze
       /\ UNCHANGED <<frame_armed, view_infinite, player>>

-----------------------------------------------------------------------------
\* The field on the panel is the maze in play, across runs that start over at
\* the level they left off and levels that change within a frame.
FieldIsTheMaze == view_maze \in {<<"none">>, maze}

\* The agent never plays on with a search of an earlier run, although a run
\* starts on the cell on which another may have ended.
SearchIsOfThisRun ==
  player = "LOOKAHEAD" /\ decided # "none" => root = run

\* What game_session.c says of the search: it is rooted in the board as Pacman
\* entered the cell.
RootedWhereHeStands ==
  player = "LOOKAHEAD" /\ decided # "none" => ~root_is_stale
=============================================================================
