------------------------------ MODULE Interrupt ------------------------------
(***************************************************************************)
(* The two threads of the board (App/app_main): the SysTick interrupt,     *)
(* which polls the keys and the serial line every millisecond, and the     *)
(* main loop, which in every pass answers the console until it is empty,   *)
(* takes the presses of the keys one after the other, and then is away     *)
(* for as long as shell_service needs to play and draw.                    *)
(***************************************************************************)
EXTENDS Console, Inputs

CONSTANT Order   \* the keys in the order prv_poll_input takes their presses

ASSUME OrderAssumption ==
  /\ Order \in Seq(Keys)
  /\ \A k \in Keys : \E i \in 1 .. Len(Order) : Order[i] = k

VARIABLE at   \* 0: in ott_poll, i: about to take key i, beyond: in the service

consoleVars == vars
boardVars == <<consoleVars, keyVars, at>>

BoardInit == Init /\ KeysInit /\ at = 0

-----------------------------------------------------------------------------
\* prv_on_systick, with the contacts at whatever level.
OnSystick ==
  /\ \E level \in [Keys -> BOOLEAN] : PollKeys(level)
  /\ \/ PollReceive
     \/ rdr = Nothing /\ ~ore /\ UNCHANGED consoleVars
  /\ UNCHANGED at

\* The loop of console_poll_receive, for a character that came meanwhile.
PollAgain == PollReceive /\ UNCHANGED <<keyVars, at>>

-----------------------------------------------------------------------------
\* ott_poll returns at the first look at an empty ring.
OttPoll ==
  /\ at = 0
  /\ ReadCharacterStep
  /\ at' = IF pc = "idle" /\ tail = head THEN 1 ELSE 0
  /\ UNCHANGED keyVars

\* One taking of prv_poll_input.
PollInput ==
  /\ at \in 1 .. Len(Order)
  /\ TakePress(Order[at])
  /\ at' = at + 1
  /\ UNCHANGED consoleVars

ShellService ==
  /\ at = Len(Order) + 1
  /\ at' = 0
  /\ UNCHANGED <<consoleVars, keyVars>>

MainLoop == OttPoll \/ PollInput \/ ShellService

\* The line, at any time.
LineArrives == (\E c \in Characters : Arrive(c)) /\ UNCHANGED <<keyVars, at>>

BoardNext == OnSystick \/ PollAgain \/ MainLoop \/ LineArrives

\* The interrupt strikes for ever and the loop runs for ever.  Fairness is
\* asked of a tick with something to receive only, so that it forces nothing
\* of the contacts.
BoardFairness ==
  /\ WF_boardVars(OnSystick /\ PollReceive)
  /\ WF_boardVars(MainLoop)

BoardSpec == BoardInit /\ [][BoardNext]_boardVars /\ BoardFairness

-----------------------------------------------------------------------------
\* Whatever the contacts do and whenever the interrupt strikes, what the loop
\* will be told of a key is whether it was pressed since: a bounce is no
\* press, no press is told twice, and none is swallowed by the other thread.
\* Two presses are told as one only if the loop was away for two whole
\* windows, which is what a press and a release need (switch.h).
PressesAccounted ==
  \A k \in Keys :
    /\ is_latched[k] <=> presses[k] > 0
    /\ presses[k] > 1 => since[k] = 2 * Samples

\* Every press of every key reaches the game, whenever in the pass it is made,
\* provided the loop gets out of ott_poll: that loops for as long as it finds
\* characters, of which a tick brings one and a read takes microseconds.
PressIsAnswered ==
  []<>(at # 0) => \A k \in Keys : presses[k] > 0 ~> presses[k] = 0
=============================================================================
