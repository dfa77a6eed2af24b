------------------------------- MODULE Search -------------------------------
(***************************************************************************)
(* The look-ahead player's search (App/pacman_lookahead): a depth-first    *)
(* walk, one depth after the other, paid for in simulated ticks, that can  *)
(* be put down between any two legs and taken up in the next frame.  It    *)
(* keeps on a stack of its own what a recursion would keep in its frames.  *)
(*                                                                         *)
(* The future of the game is a tree.  A position is the way to it: the     *)
(* branches taken from the root, which is the copy made by                 *)
(* pacman_lookahead_restart.  What a leg comes to is part of the tree,     *)
(* because a frozen game draws no random numbers.  A branch is its place   *)
(* in g_branch_order, and NONE is 0.                                       *)
(***************************************************************************)
EXTENDS Integers, SequencesExt

CONSTANTS
  Branches,   \* PACMAN_LOOKAHEAD_BRANCH_COUNT
  MaxDepth,   \* PACMAN_LOOKAHEAD_MAX_DEPTH
  Budgets,    \* what a search may be given to spend, in ticks
  Slices,     \* what a call of it may spend
  Walks,      \* how many calls one walk for the food field may take
  Trees       \* the futures searched

NONE == 0
Positions == UNION {[1 .. n -> 1 .. Branches] : n \in 0 .. MaxDepth}
Tree == [open    : [Positions -> SUBSET (1 .. Branches)],  \* pacman_may_step
         running : [Positions -> BOOLEAN],
         ticks   : [Positions -> Nat \ {0}],  \* of the leg that leads here
         first   : [Positions -> Nat \ {0}],  \* until he leaves his cell on it;
                                              \* more than ticks if he never does
         value   : [Positions -> [0 .. 1 -> Int]]]  \* prv_evaluate, by food field

ASSUME SearchAssumption ==
  /\ Branches \in Nat \ {0} /\ MaxDepth \in Nat \ {0}
  /\ Budgets \subseteq Nat \ {0} /\ Slices \subseteq Nat \ {0} /\ Walks \subseteq Nat
  /\ Trees \subseteq Tree /\ Trees # {} /\ Budgets # {}

VARIABLES
  tree,        \* g_root
  budget,      \* history: what the search was given
  ticks_left, slice_left,
  pc,          \* "new" before any search, "idle", or "thinking": in prv_advance
  level,       \* g_level[0 .. g_top], as a stack; what is above it is dead
  target_depth, is_deepening_active, is_truncated, is_finished,
  best, reached_depth,
  field, walk, \* the food field in use, and what is left of a walk for the other
  is_cut,      \* history: the budget cut a leg of this deepening short
  is_best_cut, \* history: or one of the deepening that the answer is from
  is_mixed     \* history: the field changed since this search first used it

answer   == <<best, reached_depth, is_best_cut>>
deepening == <<target_depth, is_deepening_active, is_truncated, is_cut>>
budgets  == <<budget, ticks_left, slice_left>>
food     == <<field, walk, is_mixed>>
vars == <<tree, budgets, pc, level, deepening, is_finished, answer, food>>

\* g_top, the level it is the top of, and where that one stands.
top == Len(level) - 1
Now == level[top + 1]
Root == level[1]
position == [n \in 1 .. top |-> level[n].pending]

\* prv_open_level
Opened == [next |-> 1, best_value |-> 0, best_direction |-> NONE,
           pending |-> NONE, has_branch |-> FALSE, is_entered |-> FALSE]

Evaluate(p) == tree.value[p][field]

Init ==
  /\ tree = (CHOOSE t \in Trees : TRUE) /\ budget = (CHOOSE n \in Budgets : TRUE)
  /\ ticks_left = 0 /\ slice_left = 0
  /\ pc = "new"
  /\ level = <<Opened>>
  /\ target_depth = 1 /\ is_deepening_active = FALSE /\ is_truncated = FALSE
  /\ is_finished = TRUE /\ best = NONE /\ reached_depth = 0
  /\ field = 0 /\ walk = 0
  /\ is_cut = FALSE /\ is_best_cut = FALSE /\ is_mixed = FALSE

-----------------------------------------------------------------------------
\* prv_start_food_field: unless a walk is under way or no pellet has gone.
StartFoodField ==
  /\ walk' \in (IF walk = 0 THEN Walks ELSE {walk})
  /\ is_mixed' = FALSE
  /\ UNCHANGED field

\* pacman_lookahead_restart, between two calls.  The mutant keeps the answer
\* of the search before.
RestartKeepingBest ==
  /\ pc # "thinking" /\ pc' = "idle"
  /\ tree' \in Trees
  /\ budget' \in Budgets /\ ticks_left' = budget' /\ slice_left' = 0
  /\ target_depth' = 1 /\ is_deepening_active' = FALSE /\ is_truncated' = FALSE
  /\ is_finished' = ~tree'.running[<<>>]
  /\ is_cut' = FALSE
  /\ StartFoodField
  /\ UNCHANGED <<level, answer>>
Restart ==
  /\ pc # "thinking" /\ pc' = "idle"
  /\ tree' \in Trees
  /\ budget' \in Budgets /\ ticks_left' = budget' /\ slice_left' = 0
  /\ target_depth' = 1 /\ is_deepening_active' = FALSE /\ is_truncated' = FALSE
  /\ is_finished' = ~tree'.running[<<>>]
  /\ best' = NONE /\ reached_depth' = 0
  /\ is_cut' = FALSE /\ is_best_cut' = FALSE
  /\ StartFoodField
  /\ UNCHANGED level

\* prv_advance_food_field: the fields change places when the walk is done.
AdvanceFoodField ==
  /\ walk' = IF walk = 0 THEN 0 ELSE walk - 1
  /\ field' = IF walk = 1 THEN 1 - field ELSE field
  /\ is_mixed' = (is_mixed \/ (walk = 1 /\ (is_deepening_active \/ target_depth > 1 \/ is_finished)))

\* pacman_lookahead_think up to prv_advance.
Think ==
  /\ pc = "idle" /\ pc' = "thinking"
  /\ slice_left' \in Slices
  /\ AdvanceFoodField
  /\ UNCHANGED <<tree, budget, ticks_left, level, deepening,
                 is_finished, answer>>

-----------------------------------------------------------------------------
(* prv_advance: what one turn of its loop may do *)

Looping == pc = "thinking" /\ ~is_finished

BeginDeepening ==
  /\ Looping /\ ~is_deepening_active
  /\ is_deepening_active' = TRUE /\ is_truncated' = FALSE /\ is_cut' = FALSE
  /\ level' = <<Opened>>
  /\ UNCHANGED <<tree, budgets, pc, target_depth, is_finished, answer, food>>

\* prv_close_deepening: a truncated one is thrown away, unless there is no
\* other.  The mutant believes it.
CloseDeepeningAnyway(truncated) ==
  /\ is_deepening_active' = FALSE
  /\ best' = IF Root.best_direction # NONE THEN Root.best_direction ELSE best
  /\ reached_depth' = target_depth
  /\ is_best_cut' = is_cut
  /\ is_finished' = (truncated \/ target_depth >= MaxDepth)
  /\ target_depth' = IF is_finished' THEN target_depth ELSE target_depth + 1
CloseDeepening(truncated) ==
  /\ is_deepening_active' = FALSE
  /\ \/ /\ truncated
        /\ best' = IF best = NONE THEN Root.best_direction ELSE best
        /\ is_finished' = TRUE
        /\ UNCHANGED <<target_depth, reached_depth, is_best_cut>>
     \/ /\ ~truncated
        /\ IF Root.best_direction # NONE
           THEN /\ best' = Root.best_direction
                /\ reached_depth' = target_depth /\ is_best_cut' = is_cut
           ELSE UNCHANGED answer
        /\ is_finished' = (target_depth >= MaxDepth)
        /\ target_depth' = IF is_finished' THEN target_depth ELSE target_depth + 1

\* prv_close_level: strictly better wins, so the first of equals does.
CloseLevel(value, truncated) ==
  /\ is_truncated' = truncated
  /\ \/ top = 0 /\ CloseDeepening(truncated) /\ UNCHANGED level
     \/ /\ top > 0
        /\ LET parent == level[top]
           IN  level' = [Front(level) EXCEPT ![top] =
                 IF parent.has_branch /\ value <= parent.best_value THEN parent
                 ELSE [parent EXCEPT !.has_branch = TRUE, !.best_value = value,
                                     !.best_direction = parent.pending]]
        /\ UNCHANGED <<target_depth, is_deepening_active, is_finished, answer>>
  /\ UNCHANGED <<tree, budgets, pc, is_cut, food>>

IsLeaf == top >= target_depth \/ ticks_left = 0 \/ ~tree.running[position]

\* Asking again whenever a level is come back to.
LeafAgain ==
  /\ Looping /\ is_deepening_active
  /\ IsLeaf
  /\ CloseLevel(Evaluate(position), is_truncated \/ ticks_left = 0)
Leaf ==
  /\ Looping /\ is_deepening_active /\ ~Now.is_entered
  /\ IsLeaf
  /\ CloseLevel(Evaluate(position), is_truncated \/ ticks_left = 0)

Enter ==
  /\ Looping /\ is_deepening_active /\ ~Now.is_entered
  /\ ~IsLeaf
  /\ level' = [level EXCEPT ![top + 1].is_entered = TRUE]
  /\ UNCHANGED <<tree, budgets, pc, deepening, is_finished, answer, food>>

AtBranch(b) ==
  Looping /\ is_deepening_active /\ Now.is_entered /\ b = Now.next /\ b <= Branches

LevelDone ==
  /\ Looping /\ is_deepening_active /\ Now.is_entered /\ Now.next > Branches
  /\ CloseLevel(IF Now.has_branch THEN Now.best_value ELSE Evaluate(position), is_truncated)

\* The mutant forgets to go on to the next branch.
WallStaying ==
  /\ \E b \in (1 .. Branches) \ tree.open[position] : AtBranch(b)
  /\ UNCHANGED vars
Wall ==
  /\ \E b \in (1 .. Branches) \ tree.open[position] : AtBranch(b)
  /\ level' = [level EXCEPT ![top + 1].next = @ + 1]
  /\ UNCHANGED <<tree, budgets, pc, deepening, is_finished, answer, food>>

\* The mutant forgets to leave the branches of this level out.
OutOfBudgetStaying ==
  /\ \E b \in tree.open[position] : AtBranch(b)
  /\ ticks_left = 0
  /\ is_truncated' = TRUE
  /\ UNCHANGED <<tree, budgets, pc, level, target_depth, is_deepening_active,
                 is_cut, is_finished, answer, food>>
OutOfBudget ==
  /\ \E b \in tree.open[position] : AtBranch(b)
  /\ ticks_left = 0
  /\ is_truncated' = TRUE
  /\ level' = [level EXCEPT ![top + 1].next = Branches + 1]
  /\ UNCHANGED <<tree, budgets, pc, target_depth, is_deepening_active,
                 is_cut, is_finished, answer, food>>

\* The slice is spent: put down before the branch is taken.
Pause ==
  /\ \E b \in tree.open[position] : AtBranch(b)
  /\ ticks_left > 0 /\ slice_left = 0
  /\ pc' = "idle"
  /\ UNCHANGED <<tree, budgets, level, deepening, is_finished, answer, food>>

\* prv_walk_to_next_decision: a leg is paid for to its end, or the budget's.
Spent(to) == IF tree.ticks[to] < ticks_left THEN tree.ticks[to] ELSE ticks_left

\* It is not priced if he never left his cell on it.
Leg ==
  /\ ticks_left > 0 /\ slice_left > 0
  /\ \E b \in tree.open[position] :
       /\ AtBranch(b)
       /\ LET to    == Append(position, b)
              spent == Spent(to)
          IN  /\ ticks_left' = ticks_left - spent
              /\ slice_left' = IF spent >= slice_left THEN 0 ELSE slice_left - spent
              /\ is_cut' = (is_cut \/ spent < tree.ticks[to])
              /\ IF spent < tree.first[to]
                 THEN level' = [level EXCEPT ![top + 1].next = b + 1]
                 ELSE level' = Append([level EXCEPT ![top + 1].next = b + 1,
                                                    ![top + 1].pending = b], Opened)
  /\ UNCHANGED <<tree, budget, pc, target_depth, is_deepening_active,
                 is_truncated, is_finished, answer, food>>

Return ==
  /\ pc = "thinking" /\ is_finished /\ pc' = "idle"
  /\ UNCHANGED <<tree, budgets, level, deepening, is_finished, answer, food>>

Advance == BeginDeepening \/ Leaf \/ Enter \/ LevelDone \/ Wall \/ OutOfBudget
             \/ Pause \/ Leg \/ Return

Next == Restart \/ Think \/ Advance

\* A call runs to its end; nobody has to make one.
Spec == Init /\ [][Next]_vars /\ WF_vars(Advance)

-----------------------------------------------------------------------------
\* pacman_lookahead_get_direction
Direction ==
  IF ~tree.running[<<>>] THEN NONE
  ELSE IF best # NONE THEN best
  ELSE IF tree.open[<<>>] = {} THEN NONE
  ELSE CHOOSE b \in tree.open[<<>>] : \A c \in tree.open[<<>>] : b <= c

\* The stack fits the memory there is for it: g_level has a place more than there
\* are clones, and a leg is walked on a clone.
Level == [next : 1 .. Branches + 1, best_value : Int, best_direction : 0 .. Branches,
          pending : 0 .. Branches, has_branch : BOOLEAN, is_entered : BOOLEAN]
FlagsOK ==
  /\ is_deepening_active \in BOOLEAN /\ is_truncated \in BOOLEAN
  /\ is_finished \in BOOLEAN
TypeOK ==
  /\ tree \in Trees /\ ticks_left \in Nat /\ slice_left \in Nat
  /\ pc \in {"new", "idle", "thinking"}
  /\ level \in Seq(Level) /\ top \in 0 .. MaxDepth
  /\ target_depth \in 1 .. MaxDepth /\ reached_depth \in 0 .. MaxDepth
  /\ best \in 0 .. Branches /\ field \in 0 .. 1 /\ walk \in Nat
  /\ FlagsOK

\* The levels below the top name the way to it, and a deepening opens no level
\* beyond the one its leaves are priced on.
StackAgrees ==
  /\ \A n \in 1 .. top : level[n].pending # NONE
  /\ is_deepening_active =>
       /\ top <= target_depth
       /\ \A n \in 1 .. top + 1 : level[n].is_entered => n <= target_depth

\* What was chosen or is being looked at at the root is a way out of it.
RootIsLegal ==
  LET legal == tree.open[<<>>] \cup {NONE}
  IN  /\ best \in legal
      /\ is_deepening_active => Root.best_direction \in legal /\ Root.pending \in legal

IInv == TypeOK /\ StackAgrees /\ RootIsLegal

\* There is an answer at any moment, and it is a way out of the cell he is in:
\* before the first slice, in the middle of a search and after a truncation.
AnswerIsLegal ==
  pc # "new" /\ tree.running[<<>>] /\ tree.open[<<>>] # {}
    => Direction \in tree.open[<<>>]

-----------------------------------------------------------------------------
(* What a search is for, in a tree t and with the food field f *)

\* Where a leg leads at all: the rules allow the turn and the timing makes it.
Ways(t, p) == {b \in t.open[p] : t.first[Append(p, b)] <= t.ticks[Append(p, b)]}

\* Where a search of depth d that nothing cuts short looks no further, and the
\* ends it comes to from p: none of what it passes on the way there is one.
IsEnd(t, p, d) == Len(p) >= d \/ ~t.running[p] \/ Ways(t, p) = {}
Upto(p, n) == [i \in 1 .. n |-> p[i]]
Ends(t, p, d) ==
  {q \in Positions :
     /\ Len(p) <= Len(q) /\ Upto(q, Len(p)) = p /\ IsEnd(t, q, d)
     /\ \A n \in Len(p) .. Len(q) - 1 :
          ~IsEnd(t, Upto(q, n), d) /\ q[n + 1] \in Ways(t, Upto(q, n))}

\* A position is worth the best of the ends behind it: nobody plays against him.
Worth(t, f, p, d) == Max({t.value[q][f] : q \in Ends(t, p, d)})

\* The first of the best ways out of the root.
IsBestWay(t, f, b, d) ==
  /\ b \in Ways(t, <<>>)
  /\ \A c \in Ways(t, <<>>) :
       \/ Worth(t, f, <<b>>, d) > Worth(t, f, <<c>>, d)
       \/ Worth(t, f, <<b>>, d) = Worth(t, f, <<c>>, d) /\ b <= c

\* An answer said to be of depth d compares every way out, each looked at d
\* deep, whatever was put down and taken up in between.  Left out are answers
\* from a deepening in which a leg was cut short before he had left his cell: it
\* is skipped like a leg walked in vain, and if it was the last one the deepening
\* is believed without it.  Left out too are searches in which the food field
\* changed, whose values are of two fields.
CompleteIsBest ==
  reached_depth > 0 /\ ~is_best_cut /\ ~is_mixed => IsBestWay(tree, field, best, reached_depth)

\* A call always comes back: the loop in it ends at the slice, at the budget or
\* at the end of the tree, whichever positions are walled in or walked in vain.
ThinkReturns == pc = "thinking" ~> pc # "thinking"

\* What a call of think has left to do, the most telling first: whether it runs,
\* its slice, the depths still to search, whether one is begun, how deep the stack
\* is, whether the level on top has been looked at, and the branches it has left.
Rank == <<IF pc = "thinking" THEN 1 ELSE 0,
          slice_left,
          IF is_finished THEN 0 ELSE MaxDepth + 1 - target_depth,
          IF is_deepening_active THEN 0 ELSE 1,
          top,
          IF Now.is_entered THEN 0 ELSE 1,
          Branches + 1 - Now.next>>
Below(r, s) == \E i \in DOMAIN r : r[i] < s[i] /\ \A j \in 1 .. i - 1 : r[j] = s[j]

\* No turn of the loop is for nothing, wherever it goes: each leaves less to do
\* than there was, so no call can go round without end.
TurnsRunOut == [][pc = "thinking" => Below(Rank', Rank)]_vars

-----------------------------------------------------------------------------
(* The recursion that the loop stands for, with the budget handed through. *)

\* What a call knows of its position, and what it has left to spend.
Sofar == [value : Int, way : 0 .. Branches, left : Nat, truncated : BOOLEAN]
Begun(left, truncated) ==
  [value |-> 0, way |-> NONE, left |-> left, truncated |-> truncated]

\* The way b was looked at and came to r: strictly better wins.
Tried(s, b, r) ==
  IF s.way # NONE /\ r.value <= s.value
  THEN [s EXCEPT !.left = r.left, !.truncated = r.truncated]
  ELSE [r EXCEPT !.way = b]

\* A call is where it stands, where its loop is, and what it has so far: place 0
\* is before the loop and Branches + 1 behind it.  Where a search of depth d ends
\* there is no loop.
Calls(d) ==
  {x \in Positions \X (0 .. Branches + 1) \X Sofar : x[2] = 0 \/ Len(x[1]) < d}

\* What it comes to, if R says so of the calls it makes and of the rest of itself.
Call(t, f, d, R, x) ==
  LET p      == x[1]
      b      == x[2]
      s      == x[3]
      to     == Append(p, b)
      spent  == IF t.ticks[to] < s.left THEN t.ticks[to] ELSE s.left
      isLeaf == Len(p) >= d \/ s.left = 0 \/ ~t.running[p]
      priced == [s EXCEPT !.value = t.value[p][f]]
  IN  IF b = 0
      THEN IF isLeaf THEN [priced EXCEPT !.truncated = @ \/ s.left = 0] ELSE R[<<p, 1, s>>]
      ELSE IF b > Branches
      THEN IF s.way = NONE THEN priced ELSE s
      ELSE IF b \notin t.open[p]
      THEN R[<<p, b + 1, s>>]
      ELSE IF s.left = 0
      THEN R[<<p, Branches + 1, [s EXCEPT !.truncated = TRUE]>>]
      ELSE IF spent < t.first[to]
      THEN R[<<p, b + 1, [s EXCEPT !.left = @ - spent]>>]
      ELSE R[<<p, b + 1, Tried(s, b, R[<<to, 0, Begun(s.left - spent, s.truncated)>>])>>]
Recursion(t, f, d) == LET R[x \in Calls(d)] == Call(t, f, d, R, x) IN R

\* One depth after the other: what was decided before depth d, and what is then.
Stages == (1 .. MaxDepth + 1) \X [best : 0 .. Branches, reached : 0 .. MaxDepth, left : Nat]
Decide(D, d, a, r) ==
  IF r.truncated
  THEN [best |-> IF a.best = NONE THEN r.way ELSE a.best, reached |-> a.reached, left |-> r.left]
  ELSE IF r.way = NONE
  THEN D[<<d + 1, [a EXCEPT !.left = r.left]>>]
  ELSE D[<<d + 1, [best |-> r.way, reached |-> d, left |-> r.left]>>]
Decisions(t, f) ==
  LET D[x \in Stages] ==
        IF x[1] > MaxDepth THEN x[2]
        ELSE Decide(D, x[1], x[2], Recursion(t, f, x[1])[<<<<>>, 0, Begun(x[2].left, FALSE)>>])
  IN  D

Decision == Decisions(tree, field)[<<1, [best |-> NONE, reached |-> 0, left |-> budget]>>]

\* A search paid for in slices answers what the recursion would have, paid for
\* at once: the slices, the stack and the flags on it are not to be seen.
SlicesDoNotShow ==
  pc # "new" /\ is_finished /\ tree.running[<<>>] /\ ~is_mixed =>
    /\ best = Decision.best
    /\ reached_depth = Decision.reached
=============================================================================
