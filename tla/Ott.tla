--------------------------------- MODULE Ott ---------------------------------
(***************************************************************************)
(* How a boot goes (App/app_main, Test/Target/ott, Bsp/retain_ram): to the *)
(* game, or to the one on-target test that was asked for on the console.   *)
(* The request outlives the reset that follows it in RAM that no start-up  *)
(* code clears; a power cut leaves that RAM with anything in it.  One of   *)
(* the tests overwrites the stored scores and puts them back.              *)
(*                                                                         *)
(* A test may crash or hang at any point, and the board may be reset by    *)
(* its pin or lose its power at any point, in the flash operations too.    *)
(***************************************************************************)
EXTENDS HighScore, Sequences

CONSTANTS
  TestCount,    \* ott_scenarios_get_count
  ScoreTest,    \* the id of the high-score test
  TableOrder,   \* the tables in the order of their numbers
  Written       \* Written[t]: what the test stores in table t, best first

ASSUME OttAssumption ==
  /\ TestCount \in Nat /\ ScoreTest \in 1 .. TestCount
  /\ Written \in Contents
  /\ TableOrder \in Seq(Tables) /\ Tables = {TableOrder[n] : n \in DOMAIN TableOrder}
  /\ \A m, n \in DOMAIN TableOrder : TableOrder[m] = TableOrder[n] => m = n

VARIABLES
  mode,      \* "off", "boot", "game", "test", "idle"
  retained,  \* the request in retained RAM
  running,   \* the test this boot is for, 0 if none
  step,      \* how far the high-score test is
  at_table, at_place,  \* the loops of the offers it makes before the next step
  saved,     \* the tables as it found them
  spoiled,   \* history: an operation of the test on the flash has failed
  asked      \* history: the test asked for and neither begun nor lost, or 0

locals  == <<step, at_table, at_place, saved, spoiled>>
ottVars == <<mode, retained, running, locals, asked>>
allVars == <<scoreVars, ottVars>>

-----------------------------------------------------------------------------
\* prv_is_spec_valid; magic_word and checksum say whether they match.
IsSpecValid(spec) ==
  spec.magic_word /\ spec.test_id \in 1 .. TestCount /\ spec.checksum

\* prv_invalidate_spec writes zeros; the CRC of zeros is not zero.
Invalid == [magic_word |-> FALSE, test_id |-> 0, checksum |-> FALSE]
Requested(id) == [magic_word |-> TRUE, test_id |-> id, checksum |-> TRUE]

\* What is in that RAM when no request is: anything without the magic word,
\* which is all alike; a write that was cut short; the request of a program
\* that had more tests.
Garbage ==
  {Invalid} \cup {[Requested(id) EXCEPT !.checksum = FALSE] : id \in 1 .. TestCount}
            \cup {Requested(TestCount + 1)}

OttInit ==
  /\ ScoresInit
  /\ mode = "off" /\ retained \in Garbage /\ running = 0
  /\ step = "begin" /\ at_table = 1 /\ at_place = Places
  /\ saved = Empty /\ spoiled = FALSE
  /\ asked = 0

-----------------------------------------------------------------------------
\* app_main as far as high_score_init.
PowerOn ==
  /\ mode = "off" /\ mode' = "boot"
  /\ HighScoreInit
  /\ UNCHANGED <<retained, running, locals, asked>>

\* ott_execute_pending.  The request is dropped before the test runs; the
\* mutant drops it when the test has ended.
RunPendingKeeping ==
  /\ running' = retained.test_id /\ mode' = "test"
  /\ asked' = 0
  /\ UNCHANGED retained
RunPending ==
  /\ running' = retained.test_id /\ mode' = "test"
  /\ asked' = 0
  /\ retained' = Invalid

ExecutePending ==
  /\ mode = "boot"
  /\ IF IsSpecValid(retained)
     THEN RunPending
     ELSE mode' = "game" /\ UNCHANGED <<retained, running, asked>>
  /\ UNCHANGED <<scoreVars, locals>>

\* The loops over the tables, and in each from its last place to its first.
FirstOffer == at_table' = 1 /\ at_place' = Places
NextOffer ==
  IF at_place > 1 THEN at_place' = at_place - 1 /\ UNCHANGED at_table
                  ELSE at_place' = Places /\ at_table' = at_table + 1
AllOffered == at_table > Len(TableOrder)

\* The test and its local variables are gone, by its end or by a reset.
TestGone ==
  /\ running' = 0
  /\ step' = "begin" /\ FirstOffer
  /\ saved' = Empty /\ spoiled' = FALSE

\* Back from the test the board idles: only the console is served.
GoIdle == mode' = "idle" /\ TestGone

-----------------------------------------------------------------------------
(* The console, while the loop is not away in the flash driver.  *)

Listening == mode \in {"game", "idle"} /\ pc = "ready"

\* NVIC_SystemReset: RAM keeps what it holds.
SystemReset ==
  /\ mode' = "off" /\ pc' = "off" /\ TestGone
  /\ UNCHANGED <<scores, page, doing, staging, is_ok, told, known>>

\* `ott <name>`: prv_schedule_and_reset, which the power or the reset pin may
\* cut short in the middle of the write.
Schedule(id) ==
  /\ Listening
  /\ \/ retained' = Requested(id) /\ asked' = id
     \/ retained' \in Garbage /\ asked' = 0
  /\ SystemReset

\* `reset`
ResetCommand ==
  /\ Listening
  /\ SystemReset
  /\ UNCHANGED <<retained, asked>>

\* `highscore reset`
HighScoreCommand == Listening /\ Reset /\ UNCHANGED ottVars

\* A run of the game ends.
RunEnds(t, s) == mode = "game" /\ Offer(t, s) /\ UNCHANGED ottVars

-----------------------------------------------------------------------------
(* ott_high_score_run.  That an erased page reads back empty, which it     *)
(* checks, is so by the model of the flash.                                *)

Testing(at) == mode = "test" /\ running = ScoreTest /\ pc = "ready" /\ step = at
KeepsRequest == UNCHANGED <<retained, asked>>
Marks == spoiled' = (spoiled \/ ~is_ok')

TestErases ==
  /\ Testing("begin")
  /\ saved' = Load(page)
  /\ Forget /\ Begin("reset", staging) /\ UNCHANGED known
  /\ step' = "erased"
  /\ Marks /\ UNCHANGED <<mode, running, at_table, at_place>> /\ KeepsRequest

TestGivesUp ==
  /\ Testing("erased") /\ ~is_ok
  /\ GoIdle
  /\ UNCHANGED scoreVars /\ KeepsRequest

TestErased ==
  /\ Testing("erased") /\ is_ok
  /\ HighScoreInit
  /\ step' = "fill" /\ FirstOffer
  /\ UNCHANGED <<mode, running, saved, spoiled>> /\ KeepsRequest

\* What the loops offer next, the zero of a free place included.
Offered == (IF step = "fill" THEN Written ELSE saved)[TableOrder[at_table]][at_place]

TestOffers ==
  /\ Testing("fill") \/ Testing("restore")
  /\ ~AllOffered
  /\ Offer(TableOrder[at_table], Offered)
  /\ NextOffer
  /\ Marks /\ UNCHANGED <<mode, running, step, saved>> /\ KeepsRequest

\* Reading back, which leaves nothing that the reset of prv_restore does not
\* overwrite, and that reset.  The mutant restores on top of what it wrote.
TestRestoresOnTop ==
  /\ Testing("fill") /\ AllOffered
  /\ step' = "restore" /\ FirstOffer
  /\ UNCHANGED <<scoreVars, mode, running, saved, spoiled>> /\ KeepsRequest
TestRestores ==
  /\ Testing("fill") /\ AllOffered
  /\ Forget /\ Begin("reset", staging) /\ UNCHANGED known
  /\ step' = "restore" /\ FirstOffer
  /\ Marks /\ UNCHANGED <<mode, running, saved>> /\ KeepsRequest

TestEnds ==
  /\ Testing("restore") /\ AllOffered
  /\ GoIdle
  /\ UNCHANGED scoreVars /\ KeepsRequest

OtherTestEnds ==
  /\ mode = "test" /\ running # ScoreTest
  /\ GoIdle
  /\ UNCHANGED scoreVars /\ KeepsRequest

Test == TestErases \/ TestGivesUp \/ TestErased \/ TestOffers \/ TestRestores
          \/ TestEnds \/ OtherTestEnds

-----------------------------------------------------------------------------
FlashWorks ==
  /\ Flash
  /\ IF mode = "test" THEN Marks ELSE UNCHANGED spoiled
  /\ UNCHANGED <<mode, retained, running, step, at_table, at_place, saved, asked>>

\* The reset pin, pressed by whoever finds the board hung; it cuts a flash
\* operation short as the power does.
PinReset ==
  /\ PowerCut
  /\ mode' = "off" /\ TestGone
  /\ UNCHANGED <<retained, asked>>

PowerFails ==
  /\ PowerCut
  /\ mode' = "off" /\ TestGone
  /\ retained' \in Garbage /\ asked' = 0

OttNext ==
  \/ PowerOn \/ ExecutePending \/ Test
  \/ \E id \in 1 .. TestCount : Schedule(id)
  \/ ResetCommand \/ HighScoreCommand
  \/ \E t \in Tables, s \in 1 .. MaxScore : RunEnds(t, s)
  \/ FlashWorks \/ PinReset \/ PowerFails

OttSpec == OttInit /\ [][OttNext]_allVars

-----------------------------------------------------------------------------
\* A test runs once for each time it was asked for, and only then: a test that
\* crashes the board does not run again at the next boot, and no garbage in
\* RAM starts one (ott.c: the request is dropped before the test runs).
TestRunsOnce ==
  [][running' # 0 /\ running' # running => asked = running' /\ asked' = 0]_allVars

\* A high-score test that ran to its end leaves the stored tables as it found
\* them, ties and free places included, unless the flash itself failed.
TestLeavesTables ==
  mode = "test" /\ step = "restore" /\ AllOffered /\ pc = "ready" /\ ~spoiled =>
    Load(page) = saved
=============================================================================
