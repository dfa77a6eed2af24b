------------------------------- MODULE Shell -------------------------------
(***************************************************************************)
(* The flow of the program (App/shell): loading, the pages of the menu,    *)
(* runs and their results, over the session of GameSession.  A pass of the *)
(* main loop is sw_timer_process, the keys that were pressed, and          *)
(* shell_service; here they come in any order and number.                  *)
(***************************************************************************)
EXTENDS GameSession

VARIABLES
  screen,
  timer,           \* sw_timer_is_active(&g_timer)
  has_logo,        \* g_has_logo_appeared
  selected_player, \* 0 PERSON, 1 MACHINE
  selected_maze,   \* 0 CLASSIC, 1 RANDOM
  page, option,    \* where the cursor is
  is_infinite,
  has_ai_played,
  is_drawn, is_selection_drawn, are_rows_drawn,
  panel,           \* what of the menu is on the panel
  offered          \* the tables the last run was offered to, in order

PERSON == 0
MACHINE == 1
Kind == IF selected_maze = 0 THEN "CLASSIC" ELSE "RANDOM"
Pages == {"PLAYER", "MAZE", "ENDLESS"}

choice    == <<selected_player, selected_maze, page, option, is_infinite>>
drawing   == <<is_drawn, is_selection_drawn, are_rows_drawn, panel>>
flow      == <<screen, timer, has_logo, has_ai_played, offered>>
shellVars == <<choice, drawing, flow, sessionVars>>

\* What a page lists the choice of.
ChoiceOn(p) == CASE p = "PLAYER"  -> selected_player
                 [] p = "MAZE"    -> selected_maze
                 [] p = "ENDLESS" -> IF is_infinite THEN 1 ELSE 0

\* prv_does_page_show_scores
ShowsScores(p) == p = "MAZE" /\ selected_player = PERSON

\* The menu as it is meant to look: the page's options and heading, the table
\* under the heading, and the cursor.
Wanted == [page |-> page, heading |-> ShowsScores(page),
           table |-> IF ShowsScores(page) THEN selected_maze ELSE "blank",
           cursor |-> option]

Init ==
  /\ SessionInit
  /\ screen = "LOADING" /\ timer = TRUE /\ has_logo = FALSE
  /\ selected_player = PERSON /\ selected_maze = 0
  /\ page = "PLAYER" /\ option = 0 /\ is_infinite = FALSE
  /\ has_ai_played = FALSE /\ offered = <<>>
  /\ is_drawn = FALSE /\ is_selection_drawn = FALSE /\ are_rows_drawn = FALSE
  /\ panel = [page |-> "none", heading |-> FALSE, table |-> "blank", cursor |-> 0]

\* prv_enter: the timer runs if the screen has a length.
Enter(s, timed) == screen' = s /\ is_drawn' = FALSE /\ timer' = timed

\* prv_open_page: the cursor is on what the page has been told before.  The
\* mutant leaves the rows of the page before.
OpenPageKeepingRows(p) ==
  /\ page' = p /\ option' = ChoiceOn(p)
  /\ is_selection_drawn' = FALSE /\ UNCHANGED are_rows_drawn
OpenPage(p) ==
  /\ page' = p /\ option' = ChoiceOn(p)
  /\ is_selection_drawn' = FALSE /\ are_rows_drawn' = FALSE

\* prv_start_run of the selected game: every run begins under a person's
\* control and is handed to the machine if it is the machine's.
BeginRun ==
  /\ StartRun(Kind)
  /\ HandOver(IF selected_player = MACHINE THEN "LOOKAHEAD" ELSE "HUMAN")
  /\ has_ai_played' = (selected_player = MACHINE)
  /\ offered' = <<>>
  /\ Enter("GAME", FALSE)

\* prv_finish_run: offered to the table of its maze, unless the machine played.
\* The mutant offers whatever the run.
FinishRunOfAnyone ==
  /\ offered' = Append(offered, Kind)
  /\ Enter("SCORE", TRUE)
FinishRun ==
  /\ offered' = IF has_ai_played THEN offered ELSE Append(offered, Kind)
  /\ Enter("SCORE", TRUE)

-----------------------------------------------------------------------------
(* sw_timer_process *)

TimerExpires ==
  /\ timer /\ timer' = FALSE
  /\ UNCHANGED <<choice, drawing, screen, has_logo, has_ai_played, offered, sessionVars>>

FrameTimerExpires ==
  /\ OnFrameDue
  /\ UNCHANGED <<choice, drawing, flow, gameVars, viewVars, agentVars>>

-----------------------------------------------------------------------------
(* shell_service, by screen *)

LogoAppears ==
  /\ screen = "LOADING" /\ ~has_logo /\ ~timer
  /\ has_logo' = TRUE /\ timer' = TRUE
  /\ UNCHANGED <<choice, drawing, screen, has_ai_played, offered, sessionVars>>

LoadingEnds ==
  /\ screen = "LOADING" /\ has_logo /\ ~timer
  /\ Enter("MENU", FALSE)
  /\ UNCHANGED <<choice, is_selection_drawn, are_rows_drawn, panel, has_logo,
                 has_ai_played, offered, sessionVars>>

\* prv_draw_menu when the screen is new, which clears it first, and
\* prv_draw_selection: the rows if the page is new, the scores where there are
\* some, the cursor.
DrawMenu ==
  /\ screen = "MENU" /\ (~is_drawn \/ ~is_selection_drawn)
  /\ LET is_new == ~is_drawn \/ ~are_rows_drawn
     IN  panel' = [page    |-> IF is_new THEN page ELSE panel.page,
                   heading |-> IF is_new THEN ShowsScores(page) ELSE panel.heading,
                   table   |-> IF ShowsScores(page) THEN option
                               ELSE IF is_new THEN "blank" ELSE panel.table,
                   cursor  |-> option]
  /\ is_drawn' = TRUE /\ are_rows_drawn' = TRUE /\ is_selection_drawn' = TRUE
  /\ UNCHANGED <<choice, flow, sessionVars>>

ServiceGame ==
  /\ screen = "GAME"
  /\ SessionService
  /\ IF game_state' # "RUNNING"
     THEN FinishRun
     ELSE UNCHANGED <<screen, is_drawn, timer, offered>>
  /\ UNCHANGED <<choice, is_selection_drawn, are_rows_drawn, panel, has_logo,
                 has_ai_played>>

DrawScore ==
  /\ screen = "SCORE" /\ ~is_drawn
  /\ is_drawn' = TRUE
  /\ UNCHANGED <<choice, is_selection_drawn, are_rows_drawn, panel, flow, sessionVars>>

\* The score was up long enough: the next run of an endless mode, or the menu.
ScoreEnds ==
  /\ screen = "SCORE" /\ is_drawn /\ ~timer
  /\ IF is_infinite /\ selected_player = MACHINE
     THEN BeginRun
     ELSE /\ Enter("MENU", FALSE)
          /\ UNCHANGED <<has_ai_played, offered, sessionVars>>
  /\ UNCHANGED <<choice, is_selection_drawn, are_rows_drawn, panel, has_logo>>

Service == LogoAppears \/ LoadingEnds \/ DrawMenu \/ ServiceGame \/ DrawScore \/ ScoreEnds

-----------------------------------------------------------------------------
(* The keys *)

\* shell_press_start.  Which page of the menu is the last depends on who plays.
TurnPage ==
  /\ screen = "MENU"
  /\ \/ page = "PLAYER" /\ OpenPage("MAZE")
     \/ page = "MAZE" /\ selected_player = MACHINE /\ OpenPage("ENDLESS")
  /\ UNCHANGED <<selected_player, selected_maze, is_infinite, is_drawn, panel,
                 flow, sessionVars>>
StartPressed ==
  /\ screen = "MENU"
  /\ page = "ENDLESS" \/ (page = "MAZE" /\ selected_player = PERSON)
  /\ BeginRun
  /\ UNCHANGED <<choice, is_selection_drawn, are_rows_drawn, panel, has_logo>>
ScoreCutShort ==
  /\ screen = "SCORE"
  /\ OpenPage("PLAYER") /\ Enter("MENU", FALSE)
  /\ UNCHANGED <<selected_player, selected_maze, is_infinite, panel, has_logo,
                 has_ai_played, offered, sessionVars>>
PressStart == TurnPage \/ StartPressed \/ ScoreCutShort

\* shell_press_back, from the west key or the board button.
PressBack ==
  /\ screen = "MENU" /\ page # "PLAYER"
  /\ OpenPage(IF page = "MAZE" THEN "PLAYER" ELSE "MAZE")
  /\ UNCHANGED <<selected_player, selected_maze, is_infinite, is_drawn, panel,
                 flow, sessionVars>>

\* shell_move_selection up or down: the highlighted option is the choice, and
\* choosing a person switches the endless mode off.  The mutant leaves it on.
MoveSelectionStayingEndless ==
  /\ screen = "MENU"
  /\ option' = 1 - option /\ is_selection_drawn' = FALSE
  /\ \/ page = "PLAYER" /\ selected_player' = option'
        /\ UNCHANGED <<selected_maze, is_infinite, sessionVars>>
     \/ page = "MAZE" /\ selected_maze' = option'
        /\ UNCHANGED <<selected_player, is_infinite, sessionVars>>
     \/ page = "ENDLESS" /\ is_infinite' = (option' = 1) /\ SetInfinite(is_infinite')
        /\ UNCHANGED <<selected_player, selected_maze, gameVars, frameVars,
                       drawn_level, view_maze, agentVars>>
  /\ UNCHANGED <<page, is_drawn, are_rows_drawn, panel, flow>>
MoveSelection ==
  /\ screen = "MENU"
  /\ option' = 1 - option /\ is_selection_drawn' = FALSE
  /\ \/ /\ page = "PLAYER" /\ option' = PERSON
        /\ selected_player' = PERSON
        /\ is_infinite' = FALSE /\ SetInfinite(FALSE)
        /\ UNCHANGED <<selected_maze, gameVars, frameVars, drawn_level, view_maze,
                       agentVars>>
     \/ /\ page = "PLAYER" /\ option' = MACHINE
        /\ selected_player' = MACHINE
        /\ UNCHANGED <<selected_maze, is_infinite, sessionVars>>
     \/ /\ page = "MAZE"
        /\ selected_maze' = option'
        /\ UNCHANGED <<selected_player, is_infinite, sessionVars>>
     \/ /\ page = "ENDLESS"
        /\ is_infinite' = (option' = 1) /\ SetInfinite(is_infinite')
        /\ UNCHANGED <<selected_player, selected_maze, gameVars, frameVars,
                       drawn_level, view_maze, agentVars>>
  /\ UNCHANGED <<page, is_drawn, are_rows_drawn, panel, flow>>

\* shell_press_user_button: back where there is a page to go back to, start
\* otherwise.
PressUserButton == PressBack \/ (~(screen = "MENU" /\ page # "PLAYER") /\ PressStart)

Next ==
  \/ TimerExpires \/ FrameTimerExpires
  \/ Service
  \/ PressStart \/ MoveSelection \/ PressUserButton

\* The main loop never stops and nothing in it blocks: timers that have run
\* out are seen and the screen is serviced.  Nobody has to press a key.
Fairness ==
  /\ WF_shellVars(TimerExpires) /\ WF_shellVars(FrameTimerExpires)
  /\ WF_shellVars(Service)

Spec == Init /\ [][Next]_shellVars /\ Fairness

-----------------------------------------------------------------------------
\* The page about the endless mode, and the mode itself, are the machine's
\* only, however the menu was walked: no one else could switch it off.  And the
\* HUD never says LOOP of a run that ends.
LoopIsTheMachines ==
  /\ is_infinite \/ page = "ENDLESS" => selected_player = MACHINE
  /\ view_infinite => is_infinite

\* The menu that is up is the one that was chosen: the page, the heading, the
\* table under it and the cursor, with each of them redrawn on its own.
MenuIsShown ==
  /\ option = ChoiceOn(page)
  /\ screen = "MENU" /\ is_drawn /\ is_selection_drawn => panel = Wanted

\* A run that ended has been offered once to the table of its own maze if a
\* person played it, and to none if the machine did (FR-034, FR-041).
ScoreIsOffered ==
  /\ screen = "GAME" => offered = <<>> /\ game_state = "RUNNING"
  /\ screen = "SCORE" =>
       offered = IF player = "LOOKAHEAD" THEN <<>> ELSE <<maze[1]>>

\* A run goes on being shown, frame after frame, until it ends: the one-shot
\* timer behind the frames never stays spent.
FramesKeepComing == screen = "GAME" ~> frame_due \/ screen # "GAME"
=============================================================================
