# MicroPacControllerMan in TLA+

A Pacman on a bare-metal STM32U545: C, no operating system, one cooperative
main loop and one interrupt (SysTick, 1 kHz).  This directory holds TLA+ models
of its parts, the TLC configurations that check them on small instances, and
proofs, checked by TLAPS, that some of the properties hold for every value of the
constants.  `PROJECT.json` lists, by machine, which definition models which lines,
which run checks what, a mutation of the model that each property catches, and
every hazard of the code at its line.

Paths below are relative to `src/Firmware`.

## 1. Inventory

### 1.1 Parts

| Part | State it keeps | Operations | What makes it correct |
|---|---|---|---|
| `App/game` | board, lives, level, pellets, phase plan, frightened window, ghost house, an event bus of its own | begin a run, tick, clone, press a key | every meeting settled before anybody moves on; one life per death; a level or run ended once; gate and house flags agree; events fit the bus |
| `App/ghost`, `App/pacman` | position, direction, elapsed time, house flags | advance, send to pen, set mode | a ghost is never locked in, never walks back in, finds its way out; Pacman never enters the house, and makes each turn he is queued for |
| `App/score` | total, ghost chain, inbox | init, handle events | total is what happened in this game, however often it is restarted or copied |
| `App/difficulty` | constant tables | look up by level | monotone where the game depends on it |
| `App/game_session` | frame timer, level drawn, who plays, cell the agent answered for | start, service, hand over, press | one frame per period for ever; the field shown is the maze in play; the search is rooted in the present board |
| `App/shell` | screen, page, cursor, choices, redraw flags, a timer | press start / back / user button, move selection, service | the menu shown is the one chosen; a run is offered once, to its own table, never for the machine; the endless mode is the machine's |
| `App/high_score`, `Bsp/flash_bsp` | two tables in RAM, one flash page | init, offer, reset | nothing invented by a power cut; best scores kept; RAM and flash agree unless the flash failed |
| `App/app_main` | console bindings | boot, main loop, commands | boot order; each pass serves everything |
| `App/pacman_lookahead`, `App/agent` | a depth-first search spread over frames | root, think under a budget, answer | resumable at any point, has an answer at any time |
| `App/ghost_path`, `App/playfield` | none, cells | pure functions | next step is a legal neighbour, around the edges too, back only where there is no other, through the gate only on the way out |
| `App/maze_gen` | generator state | generate | connected, symmetric, all pellets reachable |
| `App/game_view`, `App/render`, `sprite_set`; `Services/gfx`, `framebuffer`, `sprite` | last drawn board, clip, pixels | draw the difference | what is on the panel is the board |
| `Services/circular_buffer`, `msg_queue` | read, write, count, borrowed storage | push, pop, clear, length | a bounded FIFO |
| `Services/console`, `Bsp/uart_bsp` | a lock-free ring, line buffer | poll (interrupt), read (loop) | a FIFO under any interleaving; an overrun does not stop reception |
| `Services/msg_broker`, `msg_subscriber`, `active_object` | an input queue, inboxes, subscriptions, drop counters | subscribe, publish, process, poll | order; no duplicate; each loss counted; nobody stalls anybody |
| `Services/sw_timer`, `Bsp/systick_bsp` | table of one-shot timers, a 32-bit tick | init, start, stop, process | fires once, not early, not much late, across the wrap |
| `Bsp/joystick`, `switch`, `user_button` | a shift register of samples, debounced state, latch, for each of six keys | sample (interrupt), take (loop) | each press told once, no bounce told, none lost between the two threads |
| `Bsp/retain_ram`, `Test/Target/ott.c` | a request in RAM that survives reset | schedule and reset, run at boot | a test runs once for each time it was asked for, never by chance, and leaves the scores it found |
| `Services/crc`, `delay`; `Bsp/dio`, `spi`, `rng`; display drivers | registers | input and output | - |

### 1.2 How they interact

* The interrupt polls the keys, then the console.  Everything else runs in the main
  loop: `ott_poll` (the console, until it is empty), `sw_timer_process`, the keys,
  `shell_service`.  Only `volatile` variables cross the border; the latches of the
  keys are read and cleared with the interrupt held off, the console's ring is not.
* `app_main` boots to the game, or to the on-target test that is requested in RAM
  that a reset does not clear; a console command writes the request and resets.
* Timers call back inside `sw_timer_process`; callbacks set flags
  (`g_is_frame_due`) and arm their own timer again.
* `shell` calls `game_session`, which calls `game_tick`.  The game publishes
  what happens on a bus inside the `game_t`; `score` subscribes to it.  That is the
  only broker there is; the rest of the program reads the state of the game.
* The look-ahead player copies the `game_t`, bus included, and simulates it.
* `shell` offers results to `high_score`, which writes the flash page.

### 1.3 What is hard

Interleavings of the interrupt with the loop's reads; counters that wrap; full
queues; flags read in one place and cleared in another (redraws, frames, the cell
already answered for); the order of deaths, meals and clears within one tick; a
structure with pointers into itself that is copied; power cuts and flash errors
between steps; the things that must go on for ever (frames, reception, releases
from the house).  `PROJECT.json` lists them at their lines, with the properties
that would catch them.

## 2. Modules

| Module | Models | Built on |
|---|---|---|
| `BoundedFifo` | abstract: what a bounded queue promises | - |
| `CircularBuffer` | `circular_buffer.c`, `msg_queue.c` | implements `BoundedFifo` |
| `MsgBroker` | `msg_broker.c`, `msg_subscriber.c`, `active_object.c` | extends `CircularBuffer`: its input queue |
| `Console` | receive half of `console.c`, `uart_bsp.c` | implements `BoundedFifo` |
| `Inputs` | `switch.c`, `joystick.c`, `user_button.c` | - |
| `Interrupt` | the tick interrupt and the pass of `app_main.c` that takes what it left | extends `Console` and `Inputs` |
| `Deadlines` | abstract: what one-shot timers promise, in time that does not wrap | - |
| `SwTimer` | `sw_timer.c`, `systick_bsp.c` | implements `Deadlines` |
| `Playfield` | `playfield.c` as a step sees it | - |
| `Reach` | which cells a step of Pacman or a ghost may lead to | - |
| `Steps` | abstract: `Game`'s steps, for Pacman and one ghost | extends `Reach` |
| `Walk` | `pacman.c`, `ghost.c`, `ghost_path.c`, `agent.c`: who decides where to go | extends `Playfield`, implements `Steps` |
| `Run` | abstract: lives, levels, pellets and the end of a run | - |
| `GhostHouse` | the house of `game.c` (release counters, idle timer) | - |
| `Game` | the rest of `game.c`, with any reachable cell as the next | extends `GhostHouse` and `Reach`, implements `Run` |
| `Score` | `score.c` and the bus of `game.c`, several games | - |
| `GameSession` | `game_session.c` | its operations are called by `Shell` |
| `Shell` | `shell.c` | extends `GameSession` |
| `HighScore` | `high_score.c`, `flash_bsp.c` | its operations are called by `Ott` |
| `Ott` | the boot of `app_main.c`, `ott.c`, `retain_ram.c`, the high-score test | extends `HighScore` |
| `Search` | the search of `pacman_lookahead.c` | - |
| `*Proofs` | theorems about the module they are named after and those it extends; `ScoreProofs` about `Score` and `Ott` | |
| `MC*` | instances too large to write into a `.cfg` | |

So a level of detail rests on the one above it: `Walk` chooses among the cells
`Steps` allows, `Game` plays with any of these and is a `Run`; `MsgBroker` and
`Interrupt` run the rings in place, and the rings are `BoundedFifo`s there.

Names of variables and operators follow the code.  How state and steps
correspond, where it is not one to one:

* **Console.** One call of the poll from the interrupt is one step.
  `console_read_character` is three (see that head moved, copy the slot, store
  tail), because an interrupt may come between any two accesses of `volatile`
  variables.  The copied character is a variable of the loop.
* **Inputs.** The six keys are one code; a switch's state and the key's own are set
  together and are one variable.  The module also keeps, as history, what a player did
  to the contact without the shift register: a *press* is a contact closed for a whole
  window after it was last open for a whole window.  Presses not told yet are counted up to 2.
* **Interrupt.** One interrupt is one step: a poll of all keys, with the contacts at any
  level, and one turn of the console's loop; further turns, for characters that came
  meanwhile, are `PollAgain`.  `at` is the place in the pass: in `ott_poll`, taking key
  *i*, or away.  `sw_timer_process`, in between, touches nothing of this.
* **SwTimer.** The tick counts modulo `W`; a pass is: sample, then one step per
  timer.  The interrupt may tick between any two of these steps, so a timer is
  judged by a sample up to `MaxLag` ticks old.  `Age` variables that do not wrap
  exist only to state the properties.
* **MsgBroker.** A message is the number of its acceptance, `topic_of` its
  topic.  The input queue is the ring of `CircularBuffer` with its indices, `input_queue`
  the sequence it stands for.  `received` and `lost` are history of which the code keeps the counts.
* **GhostHouse.** `waiting` is the set of ghosts with `is_waiting_in_house`.
  Times are ticks.  A random draw (`prv_jitter_ms`, the dot limits) is any
  value in its range.
* **Game.** A tick is split at every step of an actor, at the settling of
  meetings and at the test for a cleared level (`pc`), because it is the order of
  these that goes wrong.  How many steps an actor takes in a tick is any number up
  to a bound; where it goes is any cell in reach.  So the model has every path
  Pacman, the ghosts and the player can produce, and more; `Walk` shows that they
  take no other.
* **Walk.** Pacman and one ghost, which is any of the four; the other ghosts are where
  Blinky is (any of `BlinkyCells`) and the loss of a life to one of them at any moment.
  One step of one of them at a time, in any order, so any pace; the player asks for any
  direction and the game changes the mode of the ghost whenever it likes.  Only a
  meeting holds everything up.  A choice is made by quantifiers (the candidate none is
  better than, the first of equals) where the code loops.
* **Score.** An address is the name of the game it points into; copying a game
  copies names, and the repair after it (`game_clone`) renews them.
  A delivery is the two loops of the code, an event a step: the broker's until its queue is
  empty, then Score's until its inbox is.  `worth` is history: what each beginning of the
  run is worth, by what the events are and without the counters of the code.
* **GameSession and Shell.** A game tick is reduced to what it can come to
  (nothing, a step, a death, a level, an end).  The pass of the main loop is the
  interleaving of the timers' expiry, the keys and `shell_service` in any order,
  which allows more than the fixed order of the loop.  `panel` is what is on the
  screen: page, heading, table, cursor.
* **HighScore.** The page is how many quad-words of which record are in it, or
  garbled.  Erasing and programming are steps, and a power cut can come before,
  after or within each.  A CRC is assumed to tell a whole record from anything else.
  `told` is history: for each score, how many at least as good a table was told since the
  boot.
* **Ott.** `mode` is how far the board is: off, booting, in the game, in a test, idle
  after one.  The reset pin may be pressed and the power may go at any step, the ones
  inside the flash driver too; a test may so be cut anywhere, which is all that a crash
  or a hang is to what follows.  A reset keeps the request in RAM, a power cut leaves
  `Garbage` there, which may look like a request with a wrong checksum or with a test
  that is no more.  The test's loops over tables and places are the cursor `at_table`,
  `at_place`; each turn is an offer, of the zeros of free places too.  `asked` and
  `spoiled` are history.
* **Search.** The simulated game is a tree: a frozen game draws no random number, so
  what a leg comes to (which turns are open, the ticks it takes, when Pacman leaves his
  cell, whether the run is over, what the end is worth from each of the two food fields)
  depends only on the way taken.  A position is that way.  `level` is the stack
  `g_level[0 .. g_top]`; what is above the top is written before it is read.
  Each turn of the loop in `prv_advance` is a step; a call of
  `pacman_lookahead_think` is `Think`, some of these steps, and `Pause` or `Return`.
  What a leg that the budget cuts short is worth is taken to be what the whole leg is:
  it decides nothing but which legal way is given when not even one deepening was done.
  The depth asked for is always `MaxDepth`, as in `game_session.c`.
  Two references stand beside the loop.  `Worth` is what a position is worth when nothing
  is cut short: the best of the ends behind it.  `Recursion` is the search as a recursion
  that is never put down: a function of calls, a call being a position, a place in the loop
  over the branches (0 before it, `Branches + 1` behind it) and what it knows so far, the
  ticks it has left included.  `Decision` takes one depth of it after the other.

## 3. Runs

| Run | Question | Bounds, and why they are enough |
|---|---|---|
| `msg_broker` | Order, no duplicates, each loss counted, no stall, the ring underneath a bounded queue | 2 topics and subscribers, queues of 2, 4 publications: one inbox full while the other is not, an input queue that is full, both its indices wrapping, subscribers with one topic or both, a new beginning at any moment |
| `interrupt` | Is each press told once, whenever the interrupt strikes; is the receive ring a queue; does reception survive an overrun? | 3 slots, 2 characters: both indices wrap, one slot always unused; one key, a window of 2 samples: bounces shorter than the window, and two whole windows while the loop is away. Keys share no state, and the theorem is for any set of them |
| `sw_timer` | Once, never early, at most two lags late | 2 timers, tick modulo 8, timeouts 0, 1, 3, lag 2: the tick wraps many times; a timeout and two lags stay below the modulus, as they do by a factor of millions in the code |
| `ghost_house` | Do the three ways out agree on the order, hand over properly and let everyone out? | 4 ghosts, 3 levels, 3 lives, 6 pellets, small jitter: a death before, between and after releases, all counters reached and missed |
| `game` | Is a run the run that `Run` promises, with every meeting settled, gate and flags agreeing, the window and the blue ghosts agreeing, and the events fitting the bus? | 2 ghosts (one in the house), 8 cells, 3 pellets of which one is a power pellet, 2 levels, 2 lives; a level where a power pellet opens a window and one where it does not; both ghosts on Pacman at once, both edible or both deadly (never one of each: `MeetingsOfOneKind`) |
| `walk` | Do Pacman and the ghosts take only the steps that `Game` knows, no ghost back without need, every queued turn made, every ghost out of the house? | the arcade's house, as large as it is, in a maze of 11 by 7 with a dead end and two tunnels that cross; each of the 4 ghosts, in every mode, from every cell it gets to |
| `score` | Is the score what happened in this game? | The game being played and one copy, 4 events, queues of 2: a copy from each state, restarts of either, a delivery of one game while events of the other wait, a chain longer than it counts |
| `shell` | Is what is shown what was chosen, who steers right, what is offered right, and do frames keep coming? | all pages and screens; 3 cells, 2 levels: two runs in a row that begin where the last ended |
| `ott` | Does a test run once and only when asked for, what does it leave of the scores, and what do power cuts, resets and flash errors at every step leave of them? | 2 tables of 2 places, scores to 2, a record of 2 quad-words in a program of 3, 3 scores told to a table between boots, 2 tests: ties, free places, tables the test's own scores would push others out of |
| `search` | Is the answer legal at any moment, the best to the depth it claims, and the recursion's however it is sliced, and does each call end, each turn leaving less to do? | 2 branches, 2 deep, 52 trees: legs closed, walked in vain, short and long in each pair; budgets that end in the first deepening, in the second, and after both; slices smaller and larger than a leg; a food field that changes before, within and after a search |
| `game_eaten_ghost`, `shell_stale_search` | see section 6 | the instances above |

The largest are `score` (6.5 million states), `ott` (1.3 million), `game` (232 000), `walk` (185 000) and
`interrupt` (177 000).

Every passing run has, for each of its properties, a mutant: a
plausible mistake in the code (written beside the definition it would replace)
that TLC shows to violate the property.  Where deadlock is not checked
(`game`, `ghost_house`) the system may really stop: a run ends.

### Fairness

Only liveness needs it, and there is little: the main loop never blocks and the
interrupt never stops.

* `Interrupt`: ticks that find something on the line go on, so an overrun is cleared,
  and the loop runs on.  Nothing is asked of the contacts.  `PressIsAnswered` also
  needs the loop to leave `ott_poll` again and again, and says so: that loops as long as
  it finds characters, which come more slowly than they are read.
* `Walk`: a ghost that may move does (each tick gives it time), and a meeting is settled.
  `FindsItsWayOut` is for runs whose frightened windows end: in one a ghost flees and
  does not look for the exit, and only power pellets open one.
* `MsgBroker`: the owner of the broker goes on processing.  Nothing is assumed of
  subscribers; that is the point of `BrokerNeverStalls`.
* `GhostHouse`: `game_tick` runs in every frame of a run and the cleared level
  is replaced in the step that cleared it.  Nothing makes Pacman eat or die.
* `Search`: a call that has begun runs on.  Nobody has to make the next one.
* `Shell`: expired timers are seen and the screen is serviced.  Nobody has to
  press a key.

## 4. What is proved

Proofs are for every value of the constants that satisfies the named assumptions
of the module.

* **`MsgBrokerProofs`.** First the ring: type, agreement of count and indices (the write
  index is the slot `count` places after the read index), and that the ring implements
  `BoundedFifo`.  Assumption: capacity in 1 .. 65535, the width of its indices.  The
  refinement maps the ring to the sequence of its `count` slots from `read` on; the
  invariant says of each slot that it holds an element only where the sequence reaches,
  which is what uninitialized storage requires.  Then the broker: `InOrder`, and that the ring is
  still a bounded queue when the broker does the pushing and popping, for any number of
  topics, subscribers and messages and any capacities.  The invariant is `InOrder`, the types, and
  that no number in a queue is above the last accepted; each way a message moves (not
  wanted, copied, missed, taken) has a lemma about three sequences that knows nothing of
  the broker.  Last `CopiesAccounted`.  `AccountInv` adds to it that nobody subscribes once
  messages flow (`Registered`, as the order of the boot has it: who is due a copy never
  changes) and that what was lost is older than all that waits (`LostIsPast`), without
  which a message could be lost a second time and its copy be counted twice.  The counters
  are cardinalities of sets of copies, and each way a message moves adds one copy or none.
* **`InterruptProofs`.** First the receive ring: type, `ReadIsStable` (the interrupt never
  changes the slot a read is about to copy, nor does a character already copied differ
  from the slot), and that the lock-free ring implements a queue of `Capacity - 1`
  characters under every interleaving.  Assumption: capacity in 2 .. 255.  The inductive
  invariant relates the position of the read (`pc`) to head and tail: after the first step
  of a read head and tail differ, and only the reader can make them equal.  Then the keys:
  `PressesAccounted`, for any set of keys, window and interleaving, and that the ring is a
  queue in the composed board.  `KeysInv` is the strengthening: the register holds the run
  of equal samples and the one before it, so that "all samples equal" is "steady for a
  window"; the state the code keeps is the one the history tells; the latch is set exactly
  if a press waits; and each stage of a press has had time to pass (`TimeHasPassed`),
  without which the clause about two presses is not inductive.
* **`SwTimerProofs`.** `TimersConsistent` and the refinement of `Deadlines`, for any width of the
  tick, table, timeouts and lag that fit into one turn of it (`TimerAssumption`), under
  the condition `ArmsNoLater`.  Each conjunct needs the others: that a timer is
  younger than a turn, without which the difference of ticks is not its age, follows from
  the pass having judged it rightly until now.  The invariant adds that a slot nobody has taken yet
  is as it was at the start.
* **`ScoreProofs`, the running score.** `TotalIsWorth`, for any games, points, length of the
  chain and queues as deep as a tick needs.  `ScoreInv` says of each game that what waits in
  its inbox and on its bus is the end of its own run (`Waits`), and that total and chain are
  those of the run before it (`Scored`), with each Score subscribed to its own bus once.
  An inbox has room for each copy because it and the bus together hold no more than one
  tick's events (`ScoreAssumption`; `EventsFitOneTick` bounds these in `Game`).  The lemma that matters is `HandleIsWorth`: the chain, a counter that stops at its
  limit, stands for the number of ghosts since the last power pellet.
* **`ScoreProofs`, the stored scores.** `TestRunsOnce`, `RamIsStored` and `NothingInvented`, for any tables,
  places, block, record and number of tests, over a reset, a power cut or a failure of
  the flash at any step.  `RequestAgrees` says that whatever looks like a request is the
  one made last and not yet dropped.  `ScoresInv` says what the flash driver is at: a store
  has staged what RAM shows, a reset has cleared RAM before it, and what the page
  records, whole or not, has been heard of (or is forgotten together with the page).
  Then `KeepsTheBest` and `TestLeavesTables`.  The first is `Counts` of each table, and
  inductive with the tables being in order (`BestInv`): an insertion by rank shifts
  exactly the scores below it.  For the second, `TestInv` says how far the restoring is: a
  table of which *m* places are still missing holds the last of the saved ones, moved up
  by *m*, so that the next offer, not below any of them, comes first.
* **`WalkProofs`.** `NoTurningBack`, `TurnIsKept` and the safety half of `ImplementsSteps`
  in every maze that satisfies `PlayfieldAssumption`.  `WalkInv` adds to the types that
  the flag of the ghost and its cell agree and Pacman is out of the house
  (`BehindTheGate`), that the cell behind a ghost is the one it came from, around the
  edges too (`CameFromBehind`), and that what he is queued to do was asked last.
  `PlayfieldReach` shows that such a maze gives all that `ReachAssumption`, and so `Game`,
  asks: neighbours are symmetric although each is a step modulo the width.
* **`GameProofs`, the house.** Type, `ReleasedInOrder`, `WaitersNotDue` and
  `HandedBackEmpty` of `GhostHouse`, for any tables of levels, with at most four
  ghosts.  `HouseInv`, the conjunction of the first three, is inductive as it stands, but
  no conjunct is by itself: Clyde may retire the global counter whoever else is
  waiting, and only because no waiting ghost has reached a figure lower than his
  can nobody else be waiting then.  Assumptions: `HouseAssumption` (types) and
  `TablesInOrder`, which the tables of the code satisfy and the code nowhere
  says it needs: a later ghost's figures are not lower than an earlier one's.
* **`GameProofs`, the run.** `MeetingsSettled`, `HouseFlagsAgree`, `ReleasedInOrder` (with
  `WaitersNotDue`) in a whole game, and that it implements `Run`, for any maze, table,
  number of steps and at most four ghosts.  The invariant `GameInv` joins the progress of
  the run, the field (the count of pellets left is the number of cells that have one), the
  board and the house's own invariant (`HouseFacts`, a lemma for each operation the game
  calls).  None can be proved alone: that whoever waits is behind the gate, and whom
  Pacman meets is not, is what keeps a meeting from disturbing the queue in the house.
  Assumptions: `GameAssumption`, `ReachAssumption`, and the house's.
  On top of it: the types (`GameTypeSafe`), `WindowAgrees` and `EventsFitOneTick`.  The
  window needs `PenAssumption`, which the attempt to prove it brought to light: a ghost that
  was eaten is not blue for the rest of the tick, and could it leave the pen in that time
  it would be met in the open, unblue in an open window.  So more steps lead out of the pen
  than a ghost takes in a tick, as in the maze of the game; `WindowInv` weighs the steps a
  ghost may still take against its depth in the house.  It follows that whom Pacman meets
  at one time is all edible or all deadly (`MeetsOneKind`): the order in which
  `prv_resolve_meetings` takes the ghosts on a cell decides nothing.  The events need the blue ghosts
  counted in (`EventsInv`): each may yet be an event, and a step of Pacman's adds at most
  a pellet, a window, and all the ghosts blue again.
* **`ShellProofs`.** All that `Shell` and `GameSession` promise of safety:
  `LoopIsTheMachines`, `MenuIsShown`, `ScoreIsOffered`, `FieldIsTheMaze` and
  `SearchIsOfThisRun`, for any cells and levels.  `MenuIsShown` speaks of a panel with no
  redraw pending; `RowsAreThePages` is what is true of it while the cursor is still to be
  drawn.  `ScoreIsOffered` needs `RunIsTheChosen`: the choice in the menu stays the
  one the run was started with until its result is off the screen.  `FieldIsTheMaze`
  follows from `ViewIsOfTheLevel`: a view that was told the level's number has its maze.
* **`SearchProofs`.** Type, with the bound on the stack (`top <= MaxDepth`: the last
  place of `g_level`; a leg is walked only on a clone that exists), and
  `AnswerIsLegal`, for every tree, budget, slice and depth.  The inductive invariant
  adds to the types that the levels below the top name an open way
  (`StackAgrees`: a level that was entered is not deeper than the deepening goes) and
  that whatever is the best, or is being walked, at the root is a way out of it as
  long as a deepening is under way (`RootIsLegal`): what an abandoned search left on the
  stack may belong to another board, and the flag is what keeps it from being read.
  Assumption of this and all that follows: `SearchAssumption` (types, no empty set of trees
  or budgets).

  `CompleteIsBest` needs what the stack knows (`BestInv`).  In a deepening that is neither
  truncated, cut nor of two fields, each level holds the best of the ways before its `next`,
  the first of equals, and the level above it stands at its `pending` way (`CleanKnows`); and
  an answer comes only from a deepening that has begun (`AnsweredIsBegun`), so that a field
  that changes before the first deepening changes no answer.  When a level closes, its value
  is among the ends behind its position and none of them is better; that is all `Worth` asks,
  so no recursion is met on the way.

  `TurnsRunOut` is the part of `ThinkReturns` that is about the code: seven numbers, the
  most telling first, of which each turn of the loop lowers the first that it changes.
  `RankIsNatural` says that they are natural numbers, and there is no endless chain of such
  tuples; what is left to the fairness is that a call that has begun runs on.

  `SlicesDoNotShow` compares the loop with `Recursion`.  First, that this function exists
  and obeys its equation (`RecursionIsCall`): a call makes only calls that are deeper, or at
  the same position further on, and what holds of a call whenever it holds of all nearer ones
  holds of every call, because a set of such pairs of numbers has a least element.  (The
  library's induction theorems take an operator and cannot be used; its theorem on
  well-founded relations, `WFMin`, is about sets and can.)  Solutions for ever larger sets of
  calls are joined to one.  Then the invariant (`ChoiceInv`): the decision, taken from what
  has been chosen and is left to spend now, is the one taken at the start.  Within a
  deepening that is said of the stack: each level is a call (`Frame`, `Place`), the top one
  goes on by itself, each other with what comes of the one above it, and the root's call
  comes to the `r` that the decision is taken of (`ComesTo`).  A turn of the loop is one
  turn of the recursion's call on top (`TopTurns`), a new call (`TopCalls`) or its result
  given to the one below (`TopReturns`); where a slice ends is in none of these.
  `Framed` says that the two ways a level has of knowing whether it found a way agree, and
  `NotBegun` that a search that has not begun a deepening has spent nothing, which is why a
  food field may still change then.

The inductive invariants were checked by TLC on the runs before they were proved.

Only model-checked: all liveness (fairness and ENABLED are beyond the prover), the fairness
`Steps` asks of a ghost included.  Every safety property of a passing run is also a theorem.

## 5. What is not modelled

* Drawing (`render`, `gfx`, `framebuffer`, `sprite`): straight-line code whose result is an
  image.  `game_view`'s differences could be modelled against drawing everything; they are
  left for later.
* `maze_gen`: a random search over grids.  What it promises is `PlayfieldAssumption` and
  `GameAssumption`, of which the proofs need every line; that it keeps its promise is
  beyond an instance TLC can enumerate.
* `difficulty`: constant tables.  That they satisfy the assumptions about them
  (`TablesInOrder` above all) was read, not checked.
* What the look-ahead search sees at a leaf (the scan, the weights): a number.
* How long a step takes (`prv_get_*_period_ms`, the tunnel): any number of steps per tick
  in `Game`, any order of steps in `Walk`.
* The state that the game reports to its view (`game_get_state_message`), transmission
  over the UART, the console's line editor, the report of progress.
* CRC and delay, drivers, registers, training material, and vendored code, which is
  nearly all of the repository by size.

## 6. Disagreements found

Two are shown by a run that TLC must refute.

1. `game_eaten_ghost`: `prv_apply_mode` (`App/game/game.c:415`) makes every
   ghost blue again in the tick after it was eaten, while `Services/msg/msg.h:179`
   says that it sits in the pen un-frightened while the others are still blue, and
   `score.c:25` counts on at most four meals in a window.
2. `shell_stale_search`: the search is restarted only if Pacman's cell differs from the
   last one answered for.  A death or a new level that puts him back on that cell
   leaves a search rooted in the board before it; `game_session.c:75` says it is rooted
   in the board as he entered the cell.

Others, seen while modelling:

* Starting a run (`shell.c:599`) clears the view, and with it the LOOP flag that the
  menu had set; nothing sets it again, so an endless run does not show LOOP, while
  `shell.h` says that the HUD does.
* If the budget ends in a leg before Pacman has left his cell, the leg is skipped like
  one walked in vain (`pacman_lookahead.c:814`).  If it is the last leg of the deepening,
  the deepening is closed as complete without that branch and replaces the answer of a
  complete one, while `pacman_lookahead.h` says that a truncated look never does.  TLC
  shows it in eight steps if `~is_best_cut` is taken out of `CompleteIsBest`.
* The food field may be replaced between two slices, so the values of one deepening can be
  from two fields; the test `test_a_search_paid_for_in_slices_...` says that a slice
  boundary must not change the answer.  TLC shows it if `~is_mixed` is taken
  out of `SlicesDoNotShow`.
* A walk for the food field that is under way when a search begins goes on over the
  new root's maze, and an equal number of pellets counts as the same pellets, in another
  run or another maze too (`pacman_lookahead.c:378`).
* `game.h:139` says that the limits of the house hold for the level; they are drawn
  again at each death (`game.c`, `prv_lose_life`, `prv_place_entities`).
* `sw_timer_process` samples the tick once.  A callback that arms *another* timer
  later in the table makes it appear to have run for 2^32 ticks.  No callback of this
  program does (`SwTimer!ArmsNoLater` is the condition); `sw_timer.h` does not ask for it.
* `sw_timer_is_active` stays true after the timeout until the next pass.
* The broker answers `NO_SUBSCRIBER` also when there are subscribers whose inboxes
  are all full.
* `highscore reset` leaves the old scores on the panel until the next redraw.
* `ghost_path.h` speaks of a breadth-first search and the shortest route (its first lines
  and the comments of its functions); the code takes the open step that is nearest as
  the crow flies (`ghost_path.c:35`), as DEC-049 decided.
* `ghost.c:41` says that Inky looks one cell ahead of Pacman; `INKY_LOOK_AHEAD` is 2.
* The version comment of `high_score` and the high-score test (`ott_high_score.c:23`, `:54`) speak
  of three tables; there are two.

## 7. Plan

Done: the rings, the broker, the timers, the board's interrupt and boot, the game with its
house and its walkers, the score, the shell and the search.  Left, in this order:

1. **Proofs.** For the liveness properties what `TurnsRunOut` is for `ThinkReturns`: a rank
   that each step of the helpful kind lowers and no other step raises, for
   `BrokerNeverStalls` and `FramesKeepComing` first.
2. **Tables.** `Difficulty`: its rows as functions of the level, against the assumptions.
3. **Search.** The food field against the distance to the nearest pellet; a repair of the
   two cases that `CompleteIsBest` and `SlicesDoNotShow` leave out would be shown by
   dropping `~is_best_cut` and `~is_mixed`.
4. **View.** `GameView`: drawing differences against drawing everything.
5. **Bounds.** `interrupt` with two keys and a longer window (505 000 states for two keys).
