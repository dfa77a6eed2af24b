----------------------------- MODULE ShellProofs -----------------------------
(***************************************************************************)
(* The flow of the program for any maze of cells and any number of levels: *)
(* the menu that is up is the one that was chosen, a run is the one the    *)
(* menu promised for as long as it is played and its result is shown, and  *)
(* what the view and the look-ahead search hold is of that run.            *)
(***************************************************************************)
EXTENDS Shell, TLAPS

-----------------------------------------------------------------------------
(* The invariant *)

\* What the menu has been told, and that the cursor is on it.
Choices ==
  /\ selected_player \in {PERSON, MACHINE} /\ selected_maze \in {0, 1}
  /\ page \in Pages /\ option \in {0, 1} /\ is_infinite \in BOOLEAN
  /\ option = ChoiceOn(page)

\* Rows that are up are those of this page.  The selection is drawn over them
\* on its own, so that this is what keeps the rest of the panel right.
RowsAreThePages ==
  screen = "MENU" /\ is_drawn /\ are_rows_drawn =>
    /\ panel.page = page /\ panel.heading = ShowsScores(page)
    /\ ~ShowsScores(page) => panel.table = "blank"

\* What was chosen cannot change before the result of the run is off the
\* screen: only the menu changes it.
RunIsTheChosen ==
  screen \in {"GAME", "SCORE"} =>
    /\ maze[1] = Kind
    /\ player = IF has_ai_played THEN "LOOKAHEAD" ELSE "HUMAN"

\* The view is empty, or has the maze of the level whose number is kept.
ViewIsOfTheLevel ==
  /\ level \in Nat
  /\ \/ drawn_level = 0 /\ view_maze = <<"none">>
     \/ drawn_level = level /\ view_maze = maze

ShellInv ==
  /\ Choices /\ LoopIsTheMachines
  /\ RowsAreThePages /\ MenuIsShown
  /\ RunIsTheChosen /\ ScoreIsOffered
  /\ ViewIsOfTheLevel /\ SearchIsOfThisRun

-----------------------------------------------------------------------------
(* What the invariant reads *)

menuVars == <<selected_player, selected_maze, page, option, is_infinite>>

LEMMA ChoicesUntouched ==
  ASSUME UNCHANGED menuVars
  PROVE  /\ Choices => Choices'
         /\ Kind' = Kind /\ ChoiceOn(page)' = ChoiceOn(page)
         /\ ShowsScores(page)' = ShowsScores(page) /\ Wanted' = Wanted
  BY DEF menuVars, Choices, Kind, ChoiceOn, ShowsScores, Wanted

LEMMA LoopUntouched ==
  ASSUME UNCHANGED menuVars, view_infinite' => view_infinite,
         LoopIsTheMachines
  PROVE  LoopIsTheMachines'
  BY DEF menuVars, LoopIsTheMachines

LEMMA MenuUntouched ==
  ASSUME UNCHANGED menuVars, UNCHANGED drawing,
         screen' = "MENU" => screen = "MENU",
         RowsAreThePages, MenuIsShown
  PROVE  RowsAreThePages' /\ MenuIsShown'
<1> USE ChoicesUntouched
<1>1. RowsAreThePages'
  BY DEF drawing, RowsAreThePages, menuVars
<1>2. MenuIsShown'
  BY DEF drawing, MenuIsShown, menuVars
<1> QED BY <1>1, <1>2

\* A screen that has just been entered has nothing on it.
LEMMA MenuCleared ==
  ASSUME screen' # "MENU" \/ ~is_drawn', option' = ChoiceOn(page)'
  PROVE  RowsAreThePages' /\ MenuIsShown'
  BY DEF RowsAreThePages, MenuIsShown

LEMMA SessionUntouched ==
  ASSUME UNCHANGED <<gameVars, drawn_level, view_maze, agentVars>>,
         ViewIsOfTheLevel, SearchIsOfThisRun
  PROVE  ViewIsOfTheLevel' /\ SearchIsOfThisRun'
  BY DEF gameVars, agentVars, ViewIsOfTheLevel, SearchIsOfThisRun

\* Off the screens of a run nothing is promised about one.
LEMMA NoRun ==
  ASSUME screen' \notin {"GAME", "SCORE"}
  PROVE  RunIsTheChosen' /\ ScoreIsOffered'
  BY DEF RunIsTheChosen, ScoreIsOffered

LEMMA RunUntouched ==
  ASSUME UNCHANGED menuVars, UNCHANGED <<gameVars, agentVars>>,
         UNCHANGED <<screen, has_ai_played, offered>>,
         RunIsTheChosen, ScoreIsOffered
  PROVE  RunIsTheChosen' /\ ScoreIsOffered'
<1> USE ChoicesUntouched
<1>1. RunIsTheChosen'
  BY DEF RunIsTheChosen, gameVars, agentVars
<1>2. ScoreIsOffered'
  BY DEF ScoreIsOffered, gameVars, agentVars
<1> QED BY <1>1, <1>2

-----------------------------------------------------------------------------
(* Runs *)

\* A run that starts belongs to whom the menu says, in the maze it says.
LEMMA BeginRunKeeps ==
  ASSUME ShellInv, BeginRun, UNCHANGED choice
  PROVE  ShellInv'
<1> USE DEF PERSON, MACHINE
<1>1. UNCHANGED menuVars
  BY DEF choice, menuVars
<1>2. Choices' /\ Kind' = Kind
  BY <1>1, ChoicesUntouched DEF ShellInv
<1>3. LoopIsTheMachines'
  BY <1>1, LoopUntouched DEF ShellInv, BeginRun, StartRun
<1>4. RowsAreThePages' /\ MenuIsShown'
  BY <1>2, MenuCleared DEF BeginRun, Enter, Choices
<1>5. RunIsTheChosen'
  <2>1. maze' = MazeOf(Kind, 1 - run, 1)
    BY DEF BeginRun, StartRun
  <2>2. maze'[1] = Kind
    BY <2>1 DEF MazeOf, Kind
  <2> QED BY <1>2, <2>2 DEF RunIsTheChosen, BeginRun, HandOver
<1>6. ScoreIsOffered'
  BY DEF ScoreIsOffered, BeginRun, StartRun, Enter
<1>7. ViewIsOfTheLevel'
  BY DEF ViewIsOfTheLevel, BeginRun, StartRun
<1>8. SearchIsOfThisRun'
  BY DEF SearchIsOfThisRun, BeginRun, HandOver
<1> QED BY <1>2, <1>3, <1>4, <1>5, <1>6, <1>7, <1>8 DEF ShellInv

\* Whatever a tick comes to, the maze is of the same kind, and it is another
\* one only with another level.
LEMMA TickKeepsKind ==
  ASSUME level \in Nat, maze[1] = Kind, NEW replaced \in BOOLEAN, TickGame(replaced)
  PROVE  /\ level' \in Nat /\ maze'[1] = maze[1] /\ run' = run
         /\ level' = level => maze' = maze
<1>1. CASE ~replaced
  BY <1>1 DEF TickGame
<1>2. CASE replaced
  <2>1. /\ level' \in {level, level + 1} /\ run' = run
        /\ maze' = IF level' = level THEN maze ELSE MazeOf(maze[1], run, level')
    BY <1>2 DEF TickGame
  <2>2. MazeOf(maze[1], run, level')[1] = maze[1]
    BY DEF MazeOf, Kind
  <2> QED BY <2>1, <2>2
<1> QED BY <1>1, <1>2

\* A frame: the view follows the level, and a cell answered for is of this run.
LEMMA ServiceKeeps ==
  ASSUME ViewIsOfTheLevel, SearchIsOfThisRun, maze[1] = Kind, SessionService
  PROVE  /\ ViewIsOfTheLevel' /\ SearchIsOfThisRun'
         /\ maze'[1] = maze[1] /\ player' = player /\ view_infinite' = view_infinite
<1>1. CASE ~frame_due
  <2>1. UNCHANGED sessionVars
    BY <1>1 DEF SessionService
  <2> QED BY <2>1, SessionUntouched DEF sessionVars, gameVars, viewVars, agentVars
<1>2. CASE frame_due
  <2>1. /\ HandOverMaze /\ player' = player /\ view_infinite' = view_infinite
        /\ \E replaced \in BOOLEAN : TickGame(replaced) /\ ServiceAi(replaced)
    BY <1>2 DEF SessionService
  <2>2. PICK replaced \in BOOLEAN : TickGame(replaced) /\ ServiceAi(replaced)
    BY <2>1
  <2>3. /\ level' \in Nat /\ maze'[1] = maze[1] /\ run' = run
        /\ level' = level => maze' = maze
    BY <2>2, TickKeepsKind DEF ViewIsOfTheLevel
  <2>4. ViewIsOfTheLevel'
    BY <2>1, <2>3 DEF ViewIsOfTheLevel, HandOverMaze
  <2>5. SearchIsOfThisRun'
    BY <2>1, <2>2, <2>3 DEF SearchIsOfThisRun, ServiceAi
  <2> QED BY <2>1, <2>3, <2>4, <2>5
<1> QED BY <1>1, <1>2

LEMMA ServiceGameKeeps ==
  ASSUME ShellInv, ServiceGame
  PROVE  ShellInv'
<1>1. screen = "GAME" /\ maze[1] = Kind
  BY DEF ShellInv, ServiceGame, RunIsTheChosen
<1>2. /\ UNCHANGED menuVars
      /\ UNCHANGED <<is_selection_drawn, are_rows_drawn, panel, has_ai_played>>
  BY DEF ServiceGame, choice, menuVars
<1>3. Choices' /\ Kind' = Kind
  BY <1>2, ChoicesUntouched DEF ShellInv
<1>4. /\ ViewIsOfTheLevel' /\ SearchIsOfThisRun'
      /\ maze'[1] = Kind /\ player' = player /\ view_infinite' = view_infinite
  BY <1>1, ServiceKeeps DEF ShellInv, ServiceGame
<1>5. LoopIsTheMachines'
  BY <1>2, <1>4, LoopUntouched DEF ShellInv
<1>6. screen' \in {"GAME", "SCORE"} /\ (screen' = "GAME" <=> game_state' = "RUNNING")
  BY <1>1 DEF ServiceGame, FinishRun, Enter
<1>7. RowsAreThePages' /\ MenuIsShown'
  BY <1>3, <1>6, MenuCleared DEF Choices
<1>8. RunIsTheChosen'
  BY <1>1, <1>2, <1>3, <1>4 DEF RunIsTheChosen, ShellInv
<1>9. ScoreIsOffered'
  <2>1. offered = <<>> /\ player = IF has_ai_played THEN "LOOKAHEAD" ELSE "HUMAN"
    BY <1>1 DEF ShellInv, ScoreIsOffered, RunIsTheChosen
  <2>2. CASE game_state' = "RUNNING"
    BY <1>1, <1>6, <2>1, <2>2 DEF ScoreIsOffered, ServiceGame
  <2>3. CASE game_state' # "RUNNING"
    <3>1. offered' = IF has_ai_played THEN <<>> ELSE <<Kind>>
      BY <2>1, <2>3 DEF ServiceGame, FinishRun
    <3> QED BY <1>4, <1>6, <2>1, <2>3, <3>1 DEF ScoreIsOffered
  <2> QED BY <2>2, <2>3
<1> QED BY <1>3, <1>4, <1>5, <1>7, <1>8, <1>9 DEF ShellInv

-----------------------------------------------------------------------------
(* The screens around a run *)

\* A step that only waits, or that takes down a screen it drew itself.
LEMMA FlowKeeps ==
  ASSUME ShellInv, UNCHANGED <<choice, view_infinite, gameVars, drawn_level, view_maze, agentVars>>,
         UNCHANGED <<is_selection_drawn, are_rows_drawn, panel, has_ai_played, offered>>,
         \/ UNCHANGED <<screen, is_drawn>>
         \/ screen' = "MENU" /\ ~is_drawn'
         \/ screen' = screen /\ screen # "MENU"
  PROVE  ShellInv'
<1>1. UNCHANGED menuVars
  BY DEF choice, menuVars
<1>2. Choices'
  BY <1>1, ChoicesUntouched DEF ShellInv
<1>3. LoopIsTheMachines'
  BY <1>1, LoopUntouched DEF ShellInv
<1>4. RowsAreThePages' /\ MenuIsShown'
  BY <1>1, <1>2, MenuUntouched, MenuCleared DEF ShellInv, drawing, Choices
<1>5. RunIsTheChosen' /\ ScoreIsOffered'
  BY <1>1, RunUntouched, NoRun DEF ShellInv
<1>6. ViewIsOfTheLevel' /\ SearchIsOfThisRun'
  BY SessionUntouched DEF ShellInv
<1> QED BY <1>2, <1>3, <1>4, <1>5, <1>6 DEF ShellInv

LEMMA DrawMenuKeeps ==
  ASSUME ShellInv, DrawMenu
  PROVE  ShellInv'
<1>1. /\ UNCHANGED menuVars /\ UNCHANGED view_infinite
      /\ UNCHANGED <<gameVars, drawn_level, view_maze, agentVars>>
      /\ UNCHANGED <<screen, has_ai_played, offered>> /\ screen = "MENU"
  BY DEF DrawMenu, choice, menuVars, flow, sessionVars, viewVars
<1>2. Choices'
  BY <1>1, ChoicesUntouched DEF ShellInv
<1>3. LoopIsTheMachines'
  BY <1>1, LoopUntouched DEF ShellInv
<1>4. /\ panel'.page = page /\ panel'.heading = ShowsScores(page)
      /\ panel'.table = Wanted.table /\ panel'.cursor = option
  BY <1>1 DEF DrawMenu, ShellInv, RowsAreThePages, Wanted, Choices, ChoiceOn, ShowsScores
<1>5. panel' = Wanted
  BY <1>4 DEF DrawMenu, Wanted
<1>6. RowsAreThePages' /\ MenuIsShown'
  BY <1>1, <1>2, <1>5, ChoicesUntouched DEF RowsAreThePages, MenuIsShown, Wanted, Choices
<1>7. RunIsTheChosen' /\ ScoreIsOffered'
  BY <1>1, RunUntouched DEF ShellInv
<1>8. ViewIsOfTheLevel' /\ SearchIsOfThisRun'
  BY <1>1, SessionUntouched DEF ShellInv
<1> QED BY <1>2, <1>3, <1>6, <1>7, <1>8 DEF ShellInv

LEMMA ScoreEndsKeeps ==
  ASSUME ShellInv, ScoreEnds
  PROVE  ShellInv'
<1>1. CASE is_infinite /\ selected_player = MACHINE
  BY <1>1, BeginRunKeeps DEF ScoreEnds
<1>2. CASE ~(is_infinite /\ selected_player = MACHINE)
  BY <1>2, FlowKeeps DEF ScoreEnds, Enter, sessionVars, viewVars
<1> QED BY <1>1, <1>2

LEMMA ServiceStepKeeps ==
  ASSUME ShellInv, Service
  PROVE  ShellInv'
<1>1. CASE LogoAppears
  BY <1>1, FlowKeeps DEF LogoAppears, drawing, sessionVars, viewVars
<1>2. CASE LoadingEnds
  BY <1>2, FlowKeeps DEF LoadingEnds, Enter, sessionVars, viewVars
<1>3. CASE DrawMenu
  BY <1>3, DrawMenuKeeps
<1>4. CASE ServiceGame
  BY <1>4, ServiceGameKeeps
<1>5. CASE DrawScore
  BY <1>5, FlowKeeps DEF DrawScore, flow, sessionVars, viewVars
<1>6. CASE ScoreEnds
  BY <1>6, ScoreEndsKeeps
<1> QED BY <1>1, <1>2, <1>3, <1>4, <1>5, <1>6 DEF Service

-----------------------------------------------------------------------------
(* The keys *)

\* A page is opened on what it has been told, and has no rows yet.
LEMMA OpenPageKeeps ==
  ASSUME ShellInv, NEW p \in Pages, OpenPage(p), p = "ENDLESS" => selected_player = MACHINE,
         UNCHANGED <<selected_player, selected_maze, is_infinite, panel, sessionVars>>,
         UNCHANGED <<has_ai_played, offered>>, screen' = "MENU"
  PROVE  ShellInv'
<1> USE DEF PERSON, MACHINE
<1>1. Choices'
  <2>1. /\ selected_player \in {0, 1} /\ selected_maze \in {0, 1} /\ is_infinite \in BOOLEAN
        /\ UNCHANGED <<selected_player, selected_maze, is_infinite>>
        /\ page' = p /\ option' = ChoiceOn(p)
    BY DEF ShellInv, OpenPage, Choices
  <2>2. ChoiceOn(p) \in {0, 1} /\ ChoiceOn(page)' = ChoiceOn(p)
    BY <2>1 DEF ChoiceOn, Pages
  <2> QED BY <2>1, <2>2 DEF Choices
<1>2. LoopIsTheMachines'
  BY DEF ShellInv, OpenPage, LoopIsTheMachines, sessionVars, viewVars
<1>3. RowsAreThePages' /\ MenuIsShown'
  BY <1>1 DEF OpenPage, RowsAreThePages, MenuIsShown, Choices
<1>4. RunIsTheChosen' /\ ScoreIsOffered'
  BY NoRun
<1>5. ViewIsOfTheLevel' /\ SearchIsOfThisRun'
  BY SessionUntouched DEF ShellInv, sessionVars, viewVars
<1> QED BY <1>1, <1>2, <1>3, <1>4, <1>5 DEF ShellInv

LEMMA PressStartKeeps ==
  ASSUME ShellInv, PressStart
  PROVE  ShellInv'
<1>1. CASE TurnPage
  <2>1. \/ OpenPage("MAZE")
        \/ selected_player = MACHINE /\ OpenPage("ENDLESS")
    BY <1>1 DEF TurnPage
  <2> QED BY <1>1, <2>1, OpenPageKeeps DEF TurnPage, flow, Pages
<1>2. CASE StartPressed
  BY <1>2, BeginRunKeeps DEF StartPressed
<1>3. CASE ScoreCutShort
  BY <1>3, OpenPageKeeps DEF ScoreCutShort, Enter, Pages
<1> QED BY <1>1, <1>2, <1>3 DEF PressStart

LEMMA PressBackKeeps ==
  ASSUME ShellInv, PressBack
  PROVE  ShellInv'
<1>1. \/ OpenPage("PLAYER")
      \/ OpenPage("MAZE")
  BY DEF PressBack
<1> QED BY <1>1, OpenPageKeeps DEF PressBack, flow, Pages

\* The cursor moves: the page keeps its rows, and the rows stay right because
\* who plays is not asked on a page that shows scores.
LEMMA MoveSelectionKeeps ==
  ASSUME ShellInv, MoveSelection
  PROVE  ShellInv'
<1> USE DEF PERSON, MACHINE
<1>1. /\ screen = "MENU" /\ option \in {0, 1}
      /\ option' = 1 - option /\ is_selection_drawn' = FALSE
      /\ UNCHANGED <<page, is_drawn, are_rows_drawn, panel, flow>>
  BY DEF ShellInv, Choices, MoveSelection
<1>2. Choices'
  <2>1. /\ selected_player \in {0, 1} /\ selected_maze \in {0, 1} /\ is_infinite \in BOOLEAN
        /\ page \in Pages
    BY DEF ShellInv, Choices
  <2>2. option' \in {0, 1}
    BY <1>1
  <2>3. /\ selected_player' \in {0, 1} /\ selected_maze' \in {0, 1}
        /\ is_infinite' \in BOOLEAN
    BY <2>1, <2>2 DEF MoveSelection
  <2>4. option' = ChoiceOn(page)'
    BY <1>1, <2>2 DEF MoveSelection, ChoiceOn
  <2> QED BY <1>1, <2>1, <2>2, <2>3, <2>4 DEF Choices
<1>3. LoopIsTheMachines'
  BY <1>1 DEF ShellInv, Choices, MoveSelection, LoopIsTheMachines, SetInfinite,
              sessionVars, viewVars
<1>4. ShowsScores(page)' = ShowsScores(page)
  BY <1>1 DEF MoveSelection, ShowsScores
<1>5. RowsAreThePages' /\ MenuIsShown'
  BY <1>1, <1>2, <1>4 DEF ShellInv, RowsAreThePages, MenuIsShown, Choices, flow
<1>6. RunIsTheChosen' /\ ScoreIsOffered'
  BY <1>1, NoRun DEF flow
<1>7. ViewIsOfTheLevel' /\ SearchIsOfThisRun'
  <2>1. UNCHANGED <<gameVars, drawn_level, view_maze, agentVars>>
    BY DEF MoveSelection, sessionVars, viewVars
  <2> QED BY <2>1, SessionUntouched DEF ShellInv
<1> QED BY <1>2, <1>3, <1>5, <1>6, <1>7 DEF ShellInv

-----------------------------------------------------------------------------
LEMMA ShellInvInit == Init => ShellInv
<1> SUFFICES ASSUME Init
             PROVE  ShellInv
  OBVIOUS
<1>1. Choices
  BY DEF Init, Choices, ChoiceOn, Pages, PERSON, MACHINE
<1>2. LoopIsTheMachines
  BY DEF Init, SessionInit, LoopIsTheMachines
<1>3. RowsAreThePages /\ MenuIsShown
  BY <1>1 DEF Init, RowsAreThePages, MenuIsShown, Choices
<1>4. RunIsTheChosen /\ ScoreIsOffered
  BY DEF Init, RunIsTheChosen, ScoreIsOffered
<1>5. ViewIsOfTheLevel /\ SearchIsOfThisRun
  BY DEF Init, SessionInit, ViewIsOfTheLevel, SearchIsOfThisRun
<1> QED BY <1>1, <1>2, <1>3, <1>4, <1>5 DEF ShellInv

LEMMA ShellInvStep == ShellInv /\ [Next]_shellVars => ShellInv'
<1> SUFFICES ASSUME ShellInv, [Next]_shellVars
             PROVE  ShellInv'
  OBVIOUS
<1>1. CASE TimerExpires
  BY <1>1, FlowKeeps DEF TimerExpires, drawing, sessionVars, viewVars
<1>2. CASE FrameTimerExpires
  BY <1>2, FlowKeeps DEF FrameTimerExpires, drawing, flow, viewVars
<1>3. CASE Service
  BY <1>3, ServiceStepKeeps
<1>4. CASE PressStart
  BY <1>4, PressStartKeeps
<1>5. CASE MoveSelection
  BY <1>5, MoveSelectionKeeps
<1>6. CASE PressUserButton
  BY <1>6, PressBackKeeps, PressStartKeeps DEF PressUserButton
<1>7. CASE UNCHANGED shellVars
  BY <1>7, FlowKeeps DEF shellVars, drawing, flow, sessionVars, viewVars
<1> QED BY <1>1, <1>2, <1>3, <1>4, <1>5, <1>6, <1>7 DEF Next

LEMMA ShellInductive == Spec => []ShellInv
  BY ShellInvInit, ShellInvStep, PTL DEF Spec

-----------------------------------------------------------------------------
\* The endless mode and the page that asks for it are the machine's, and the
\* HUD says LOOP of no run that ends, however the menu was walked and however
\* often runs began and ended (shell_move_selection, shell_press_start,
\* game_session_init).
THEOREM LoopAlwaysTheMachines == Spec => []LoopIsTheMachines
<1>1. ShellInv => LoopIsTheMachines
  BY DEF ShellInv
<1> QED BY <1>1, ShellInductive, PTL

\* The panel shows the menu that was chosen although rows, scores and cursor
\* are redrawn each for its own reason (prv_draw_menu, prv_draw_selection).
THEOREM MenuAlwaysShown == Spec => []MenuIsShown
<1>1. ShellInv => MenuIsShown
  BY DEF ShellInv
<1> QED BY <1>1, ShellInductive, PTL

\* A person's run is offered once, to the table of the maze it was played in,
\* and the machine's to none, in the endless mode too (prv_finish_run).
THEOREM ScoreAlwaysOffered == Spec => []ScoreIsOffered
<1>1. ShellInv => ScoreIsOffered
  BY DEF ShellInv
<1> QED BY <1>1, ShellInductive, PTL

\* What game_view holds is the maze in play or nothing, through levels that
\* change within a frame and runs that start over (game_session_service).
THEOREM FieldAlwaysTheMaze == Spec => []FieldIsTheMaze
<1>1. ShellInv => FieldIsTheMaze
  BY DEF ShellInv, ViewIsOfTheLevel, FieldIsTheMaze
<1> QED BY <1>1, ShellInductive, PTL

\* No answer of the look-ahead comes from the search of an earlier run
\* (prv_is_new_cell, game_session_set_player).
THEOREM SearchAlwaysOfThisRun == Spec => []SearchIsOfThisRun
<1>1. ShellInv => SearchIsOfThisRun
  BY DEF ShellInv
<1> QED BY <1>1, ShellInductive, PTL
=============================================================================
