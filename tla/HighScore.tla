------------------------------ MODULE HighScore ------------------------------
(***************************************************************************)
(* The tables of best scores (App/high_score) in the one flash page they   *)
(* are kept in (Bsp/flash_bsp), with the power going at any moment and the *)
(* flash controller failing at any step.                                   *)
(*                                                                         *)
(* The page is what can be told from reading it: how many quad-words of    *)
(* which record are in it, the rest being erased, or that it is garbled.   *)
(* The record fills only the first of the quad-words that are programmed.  *)
(* A CRC is assumed to tell a whole record from anything else.             *)
(***************************************************************************)
EXTENDS Integers, FiniteSets, Functions

CONSTANTS
  Tables,       \* the games that have a table of their own
  Places,       \* HIGH_SCORE_COUNT
  MaxScore,     \* bound: a run scores 0 .. MaxScore
  QuadWords,    \* in a block: FLASH_BSP_BLOCK_SIZE / QUAD_WORD_SIZE
  RecordParts,  \* of which this many hold the record
  MaxOffers     \* bound: the scores a table is told between two boots

ASSUME HighScoreAssumption ==
  /\ Places \in Nat \ {0} /\ MaxScore \in Nat \ {0} /\ MaxOffers \in Nat
  /\ RecordParts \in 1 .. QuadWords /\ QuadWords \in Nat

Contents == [Tables -> [1 .. Places -> 0 .. MaxScore]]
Empty == [t \in Tables |-> [p \in 1 .. Places |-> 0]]

VARIABLES
  scores,   \* g_scores
  page,     \* [record, parts]: parts is -1 for a garbled page
  pc,       \* "off", "ready", or in flash_bsp: "erase", "program"
  doing,    \* the operation that is in flash_bsp: "store" or "reset"
  staging,  \* g_staging
  is_ok,    \* what the last operation on the flash reported
  told,     \* history: told[t][s] is how many scores of s or more table t was
            \* told since the boot, which itself tells it what is stored
  known     \* history: the scores offered since the last reset that worked

flash == <<page, pc, doing, staging, is_ok>>
scoreVars == <<scores, flash, told, known>>

-----------------------------------------------------------------------------
(* high_score_init's checks, and high_score_offer's insertion *)

Load(p) == IF p.parts >= RecordParts THEN p.record ELSE Empty

Place(table, score) == {p \in 1 .. Places : score > table[p]}
Qualifies(table, score) == score > 0 /\ Place(table, score) # {}
First(S) == CHOOSE p \in S : \A q \in S : p <= q

\* Overwriting the place instead of moving down what is below it.
InsertOverwriting(table, score) ==
  [table EXCEPT ![First(Place(table, score))] = score]
Insert(table, score) ==
  LET place == First(Place(table, score))
  IN  [p \in 1 .. Places |-> IF p < place THEN table[p]
                             ELSE IF p = place THEN score ELSE table[p - 1]]

-----------------------------------------------------------------------------
ScoresInit ==
  /\ scores = Empty /\ pc = "off" /\ doing = "store"
  /\ page \in {[record |-> Empty, parts |-> n] : n \in {-1, 0}}
  /\ staging = Empty /\ is_ok = TRUE
  /\ told = [t \in Tables |-> [s \in 1 .. MaxScore |-> 0]]
  /\ known = [t \in Tables |-> {}]

\* high_score_init, called at each boot.
HighScoreInit ==
  /\ pc' = "ready" /\ is_ok' = TRUE
  /\ scores' = Load(page)
  /\ told' = [t \in Tables |-> [s \in 1 .. MaxScore |->
        Cardinality({p \in 1 .. Places : scores'[t][p] >= s})]]
  /\ UNCHANGED <<page, doing, staging, known>>

\* flash_bsp_replace and flash_bsp_erase up to the erase: where the controller
\* does not unlock, nothing is touched.
Begin(what, record) ==
  /\ doing' = what
  /\ \/ pc' = "erase" /\ staging' = record /\ UNCHANGED is_ok
     \/ pc' = "ready" /\ is_ok' = FALSE /\ staging' = record
  /\ UNCHANGED page

\* The history of what a table was told.
Hears(t, s) ==
  /\ told[t][1] < MaxOffers
  /\ told' = [told EXCEPT ![t] = [r \in 1 .. MaxScore |-> IF r <= s THEN @[r] + 1 ELSE @[r]]]
  /\ known' = [known EXCEPT ![t] = @ \cup ({s} \ {0})]

\* high_score_offer, to where the record goes to flash.  The mutant stores
\* what the table was.
OfferStoringFirst(t, s) ==
  /\ pc = "ready"
  /\ Hears(t, s)
  /\ IF Qualifies(scores[t], s)
     THEN /\ scores' = [scores EXCEPT ![t] = Insert(@, s)]
          /\ Begin("store", scores)
     ELSE UNCHANGED <<scores, flash>>
Offer(t, s) ==
  /\ pc = "ready"
  /\ Hears(t, s)
  /\ IF Qualifies(scores[t], s)
     THEN /\ scores' = [scores EXCEPT ![t] = Insert(@, s)]
          /\ Begin("store", scores')
     ELSE UNCHANGED <<scores, flash>>

Forget ==
  /\ scores' = Empty
  /\ told' = [t \in Tables |-> [s \in 1 .. MaxScore |-> 0]]

\* high_score_reset
Reset ==
  /\ pc = "ready"
  /\ Forget
  /\ Begin("reset", staging)
  /\ UNCHANGED known

-----------------------------------------------------------------------------
(* In the flash controller.  An erase that fails, or that the power leaves
   half done, leaves the page as it was or garbled. *)

Interrupted == {page, [page EXCEPT !.parts = -1]}

Fails == pc' = "ready" /\ is_ok' = FALSE

\* What a reset reports when the page is erased; a store goes on to program.
\* The mutant lets a reset report success without having erased anything.
EraseEndsUnerased ==
  /\ pc = "erase"
  /\ page' = IF doing = "reset" THEN page ELSE [record |-> Empty, parts |-> 0]
  /\ IF doing = "reset"
     THEN /\ pc' = "ready" /\ is_ok' = TRUE
          /\ known' = [t \in Tables |-> {}]
     ELSE pc' = "program" /\ UNCHANGED <<is_ok, known>>
  /\ UNCHANGED <<scores, doing, staging, told>>
EraseEnds ==
  /\ pc = "erase"
  /\ page' = [record |-> Empty, parts |-> 0]
  /\ IF doing = "reset"
     THEN /\ pc' = "ready" /\ is_ok' = TRUE
          /\ known' = [t \in Tables |-> {}]
     ELSE pc' = "program" /\ UNCHANGED <<is_ok, known>>
  /\ UNCHANGED <<scores, doing, staging, told>>

EraseFails ==
  /\ pc = "erase"
  /\ page' \in Interrupted /\ Fails
  /\ UNCHANGED <<scores, doing, staging, told, known>>

\* One quad-word, in the order of the block; the last one reports success.
Program ==
  /\ pc = "program"
  /\ page' = [record |-> staging, parts |-> page.parts + 1]
  /\ IF page.parts + 1 = QuadWords
     THEN pc' = "ready" /\ is_ok' = TRUE
     ELSE UNCHANGED <<pc, is_ok>>
  /\ UNCHANGED <<scores, doing, staging, told, known>>

\* The quad-word that failed may hold anything.
ProgramFails ==
  /\ pc = "program" /\ Fails
  /\ page' \in (IF page.parts < RecordParts THEN Interrupted ELSE {page})
  /\ UNCHANGED <<scores, doing, staging, told, known>>

PowerCut ==
  /\ pc # "off" /\ pc' = "off"
  /\ page' \in (IF pc = "erase" \/ (pc = "program" /\ page.parts < RecordParts)
                THEN Interrupted ELSE {page})
  /\ UNCHANGED <<scores, doing, staging, is_ok, told, known>>

\* What the flash controller does of itself.
Flash == EraseEnds \/ EraseFails \/ Program \/ ProgramFails

-----------------------------------------------------------------------------
\* What the panel shows is what the next boot will show, unless an operation
\* on the flash failed: across stores that failed and were made good later,
\* resets, cuts and boots.
RamIsStored == pc = "ready" /\ is_ok => Load(page) = scores

\* A table holds the best of what it was told since the boot, in order, each
\* as often as it was told (a score that ties keeps behind the first).
KeepsTheBest ==
  pc # "off" => \A t \in Tables, p \in 1 .. Places, s \in 1 .. MaxScore :
    scores[t][p] >= s <=> told[t][s] >= p

\* No score comes up that nobody played, and none comes back after a reset
\* that reported success, whatever was cut short or failed in between.
NothingInvented ==
  pc # "off" => \A t \in Tables : Range(scores[t]) \ {0} \subseteq known[t]
=============================================================================
