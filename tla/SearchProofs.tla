---------------------------- MODULE SearchProofs ----------------------------
(***************************************************************************)
(* For every tree, budget, slice and depth: that the search has a legal    *)
(* answer at any moment, that what it answers to a depth is the best way   *)
(* out to that depth, that no turn of its loop is for nothing, and that a  *)
(* search paid for in slices chooses what the recursion would have chosen, *)
(* paid for at once.                                                       *)
(***************************************************************************)
EXTENDS Search, SequenceTheorems, WellFoundedInduction, TLAPS

LEMMA FirstExists ==
  ASSUME NEW S \in SUBSET Nat, S # {}
  PROVE  \E b \in S : \A c \in S : b <= c
<1> DEFINE R == OpToRel(<, Nat)
<1>1. \A x, y \in Nat : <<y, x>> \in R <=> y < x
  BY DEF OpToRel
<1>2. IsWellFoundedOn(R, Nat)
  BY NatLessThanWellFounded
<1> HIDE DEF R
<1>3. PICK x \in S : \A y \in S : ~ (<<y, x>> \in R)
  BY <1>2, WFMin
<1>4. \A y \in S : ~ (y < x)
  <2> TAKE y \in S
  <2>1. x \in Nat /\ y \in Nat
    OBVIOUS
  <2> QED BY <1>1, <1>3, <2>1
<1>5. \A y \in S : x <= y
  BY <1>4
<1> QED BY <1>5

-----------------------------------------------------------------------------
(* Where the levels stand *)

LEMMA StackShape ==
  ASSUME TypeOK
  PROVE  /\ Len(level) = top + 1 /\ top \in Nat /\ top + 1 \in 1 .. Len(level)
         /\ \A n \in 1 .. Len(level) : level[n] \in Level
         /\ Now \in Level /\ Root \in Level
<1>1. Len(level) \in Nat /\ level \in [1 .. Len(level) -> Level]
  BY LenProperties DEF TypeOK
<1>2. Len(level) = top + 1 /\ top \in Nat
  BY <1>1 DEF TypeOK, top
<1> QED BY <1>1, <1>2 DEF Now, Root

LEMMA PositionTyped ==
  ASSUME TypeOK, StackAgrees, SearchAssumption
  PROVE  /\ position \in Positions
         /\ Len(position) = top
         /\ top = 0 => position = <<>>
<1>1. \A n \in 1 .. top : level[n].pending \in 1 .. Branches
  <2> TAKE n \in 1 .. top
  <2>1. level[n] \in Level /\ level[n].pending # NONE
    BY StackShape DEF StackAgrees
  <2> QED BY <2>1 DEF Level, NONE, SearchAssumption
<1>2. position \in [1 .. top -> 1 .. Branches]
  BY <1>1 DEF position
<1>3. top \in 0 .. MaxDepth
  BY DEF TypeOK
<1>4. position \in Positions
  BY <1>2, <1>3 DEF Positions
<1>5. position \in Seq(1 .. Branches) /\ Len(position) = top
  BY <1>2, <1>3, LenProperties, SeqDef
<1>6. ASSUME top = 0 PROVE position = <<>>
  BY <1>5, <1>6, EmptySeq
<1> QED BY <1>4, <1>5, <1>6

LEMMA TreeTyped ==
  ASSUME TypeOK, StackAgrees, SearchAssumption
  PROVE  /\ Evaluate(position) \in Int
         /\ tree.open[position] \subseteq 1 .. Branches
         /\ tree.open[<<>>] \subseteq 1 .. Branches
<1>1. tree \in Tree /\ field \in 0 .. 1
  BY DEF TypeOK, SearchAssumption
<1>2. position \in Positions
  BY PositionTyped
<1>3. <<>> \in Positions
  <2>1. <<>> \in [1 .. 0 -> 1 .. Branches]
    BY EmptySeq, LenProperties
  <2> QED BY <2>1 DEF Positions, SearchAssumption
<1> QED BY <1>1, <1>2, <1>3 DEF Tree, Evaluate

-----------------------------------------------------------------------------
(* How a turn of the loop may change the stack *)

\* What no turn of the loop touches while a deepening is under way.
Undisturbed ==
  /\ is_deepening_active /\ is_deepening_active' = is_deepening_active
  /\ tree' = tree /\ target_depth' = target_depth /\ best' = best

\* The level on top may become e: it keeps its best way, and what it looks at is
\* a way out of where it stands.
MayBecome(e) ==
  /\ e \in Level
  /\ e.is_entered => top + 1 <= target_depth
  /\ e.best_direction = Now.best_direction
  /\ e.pending = Now.pending \/ e.pending \in tree.open[position]

LEMMA ChangedStack ==
  ASSUME TypeOK, NEW e \in Level
  PROVE  LET s == [level EXCEPT ![top + 1] = e]
         IN  /\ s \in Seq(Level) /\ Len(s) = top + 1
             /\ \A n \in 1 .. top : s[n] = level[n]
             /\ s[top + 1] = e
<1>1. level \in Seq(Level) /\ Len(level) = top + 1 /\ top \in Nat
  BY StackShape DEF TypeOK
<1>2. top + 1 \in 1 .. Len(level)
  BY <1>1
<1> DEFINE s == [level EXCEPT ![top + 1] = e]
<1>3. /\ s \in Seq(Level) /\ Len(s) = Len(level)
      /\ \A j \in 1 .. Len(level) : s[j] = IF j = top + 1 THEN e ELSE level[j]
  BY <1>1, <1>2, ExceptSeq
<1> QED BY <1>1, <1>3

\* The root stays legal when the level on top changes.
LEMMA RootStays ==
  ASSUME IInv, SearchAssumption, Undisturbed, NEW e, MayBecome(e)
  PROVE  /\ [level EXCEPT ![top + 1] = e][1].best_direction \in tree.open[<<>>] \cup {NONE}
         /\ [level EXCEPT ![top + 1] = e][1].pending \in tree.open[<<>>] \cup {NONE}
<1> DEFINE s == [level EXCEPT ![top + 1] = e]
<1> DEFINE legal == tree.open[<<>>] \cup {NONE}
<1>1. TypeOK /\ StackAgrees /\ e \in Level
  BY DEF IInv, MayBecome
<1>2. Root.best_direction \in legal /\ Root.pending \in legal
  BY DEF IInv, RootIsLegal, Undisturbed
<1>3. top \in Nat /\ s[top + 1] = e /\ \A n \in 1 .. top : s[n] = level[n]
  BY <1>1, ChangedStack, StackShape
<1> HIDE DEF s
<1>4. ASSUME top = 0 PROVE s[1].best_direction \in legal /\ s[1].pending \in legal
  <2>1. position = <<>> /\ Now = Root /\ s[1] = e
    BY <1>1, <1>3, <1>4, PositionTyped DEF Now, Root
  <2>2. e.best_direction = Root.best_direction
    BY <2>1 DEF MayBecome
  <2>3. e.pending = Root.pending \/ e.pending \in tree.open[<<>>]
    BY <2>1 DEF MayBecome
  <2> QED BY <1>2, <2>1, <2>2, <2>3
<1>5. ASSUME top # 0 PROVE s[1].best_direction \in legal /\ s[1].pending \in legal
  <2>1. s[1] = Root
    BY <1>3, <1>5 DEF Root
  <2> QED BY <1>2, <2>1
<1> QED BY <1>4, <1>5 DEF s

LEMMA TopChanges ==
  ASSUME IInv, SearchAssumption, Undisturbed, NEW e, MayBecome(e),
         level' = [level EXCEPT ![top + 1] = e]
  PROVE  level' \in Seq(Level) /\ top' = top /\ StackAgrees' /\ RootIsLegal'
<1>1. TypeOK /\ StackAgrees /\ e \in Level
  BY DEF IInv, MayBecome
<1>2. /\ level' \in Seq(Level) /\ Len(level') = top + 1 /\ top \in Nat
      /\ \A n \in 1 .. top : level'[n] = level[n]
      /\ level'[top + 1] = e
  BY <1>1, ChangedStack, StackShape
<1>3. top' = top
  <2>1. Len(level) = top + 1
    BY <1>1, StackShape
  <2>2. Len(level') = Len(level) /\ Len(level) \in Nat
    BY <1>2, <2>1
  <2> QED BY <2>2 DEF top
<1>4. StackAgrees'
  <2>1. \A n \in 1 .. top' : level'[n].pending # NONE
    BY <1>1, <1>2, <1>3 DEF StackAgrees
  <2>2. top' <= target_depth'
    BY <1>1, <1>3 DEF StackAgrees, Undisturbed
  <2>3. \A n \in 1 .. top' + 1 : level'[n].is_entered => n <= target_depth'
    <3> TAKE n \in 1 .. top' + 1
    <3>1. n \in 1 .. top \/ n = top + 1
      BY <1>2, <1>3
    <3>2. CASE n \in 1 .. top
      BY <1>1, <1>2, <3>2 DEF StackAgrees, Undisturbed
    <3>3. CASE n = top + 1
      BY <1>2, <3>3 DEF MayBecome, Undisturbed
    <3> QED BY <3>1, <3>2, <3>3
  <2> QED BY <2>1, <2>2, <2>3 DEF StackAgrees
<1>5. RootIsLegal'
  <2>1. level'[1].best_direction \in tree.open[<<>>] \cup {NONE}
    BY RootStays
  <2>2. level'[1].pending \in tree.open[<<>>] \cup {NONE}
    BY RootStays
  <2> QED BY <2>1, <2>2 DEF RootIsLegal, Root, Undisturbed, IInv
<1> QED BY <1>2, <1>3, <1>4, <1>5

LEMMA OpenedTyped ==
  ASSUME SearchAssumption
  PROVE  /\ Opened \in Level /\ ~Opened.is_entered
         /\ Opened.pending = NONE /\ Opened.best_direction = NONE
BY DEF Opened, Level, NONE, SearchAssumption

LEMMA LevelOpens ==
  ASSUME IInv, SearchAssumption, Undisturbed, NEW e, MayBecome(e),
         e.pending \in tree.open[position], top + 1 <= target_depth,
         level' = Append([level EXCEPT ![top + 1] = e], Opened)
  PROVE  /\ level' \in Seq(Level) /\ top' = top + 1 /\ top' \in 0 .. MaxDepth
         /\ StackAgrees' /\ RootIsLegal'
<1> DEFINE s == [level EXCEPT ![top + 1] = e]
<1>1. TypeOK /\ StackAgrees /\ e \in Level
  BY DEF IInv, MayBecome
<1>2. /\ s \in Seq(Level) /\ Len(s) = top + 1 /\ top \in Nat
      /\ \A n \in 1 .. top : s[n] = level[n]
      /\ s[top + 1] = e
  BY <1>1, ChangedStack, StackShape
<1>3. s[1].best_direction \in tree.open[<<>>] \cup {NONE}
  BY RootStays
<1>4. s[1].pending \in tree.open[<<>>] \cup {NONE}
  BY RootStays
<1>5. level' = Append(s, Opened)
  OBVIOUS
<1> HIDE DEF s
<1>6. /\ level' \in Seq(Level) /\ Len(level') = top + 2
      /\ \A n \in 1 .. top + 1 : level'[n] = s[n]
      /\ level'[top + 2] = Opened
  <2>1. Opened \in Level
    BY OpenedTyped
  <2>2. /\ Append(s, Opened) \in Seq(Level)
        /\ Len(Append(s, Opened)) = Len(s) + 1
        /\ \A i \in 1 .. Len(s) : Append(s, Opened)[i] = s[i]
        /\ Append(s, Opened)[Len(s) + 1] = Opened
    BY <1>2, <2>1, AppendProperties
  <2>3. Len(s) + 1 = top + 2
    BY <1>2
  <2> QED BY <1>2, <1>5, <2>2, <2>3
<1>7. top' = top + 1
  <2>1. top' = Len(level') - 1
    BY DEF top
  <2> QED BY <1>2, <1>6, <2>1
<1>8. top' <= target_depth /\ top' \in 0 .. MaxDepth
  BY <1>1, <1>2, <1>7 DEF TypeOK, SearchAssumption
<1>9. StackAgrees'
  <2>1. \A n \in 1 .. top' : level'[n].pending # NONE
    <3> TAKE n \in 1 .. top'
    <3>1. n \in 1 .. top \/ n = top + 1
      BY <1>2, <1>7
    <3>2. CASE n \in 1 .. top
      <4>1. level'[n] = level[n]
        BY <1>2, <1>6, <3>2
      <4> QED BY <1>1, <3>2, <4>1 DEF StackAgrees
    <3>3. CASE n = top + 1
      <4>1. level'[n] = e
        BY <1>2, <1>6, <3>3
      <4>2. 0 \notin tree.open[position]
        BY <1>1, TreeTyped
      <4> QED BY <4>1, <4>2 DEF NONE
    <3> QED BY <3>1, <3>2, <3>3
  <2>2. \A n \in 1 .. top' + 1 : level'[n].is_entered => n <= target_depth
    <3> TAKE n \in 1 .. top' + 1
    <3>1. n \in 1 .. top + 1 \/ n = top + 2
      BY <1>2, <1>7
    <3>2. CASE n \in 1 .. top + 1
      <4>1. top + 1 <= target_depth /\ target_depth \in Nat
        BY <1>1 DEF TypeOK
      <4> QED BY <1>2, <3>2, <4>1
    <3>3. CASE n = top + 2
      <4>1. level'[n] = Opened
        BY <1>6, <3>3
      <4> QED BY <4>1, OpenedTyped
    <3> QED BY <3>1, <3>2, <3>3
  <2> QED BY <1>8, <2>1, <2>2 DEF StackAgrees, Undisturbed
<1>10. RootIsLegal'
  <2>1. level'[1] = s[1]
    BY <1>2, <1>6
  <2> QED BY <1>3, <1>4, <2>1 DEF RootIsLegal, Root, Undisturbed, IInv
<1> QED BY <1>6, <1>7, <1>8, <1>9, <1>10

\* What a level on the way down may become when the one above it closes.
MayTake(parent, e) ==
  /\ e \in Level
  /\ e.pending = parent.pending /\ e.is_entered = parent.is_entered
  /\ e.best_direction \in {parent.best_direction, parent.pending}

LEMMA LevelCloses ==
  ASSUME IInv, SearchAssumption, Undisturbed, top > 0,
         NEW e, MayTake(level[top], e),
         level' = [Front(level) EXCEPT ![top] = e]
  PROVE  /\ level' \in Seq(Level) /\ top' = top - 1 /\ top' \in 0 .. MaxDepth
         /\ StackAgrees' /\ RootIsLegal'
<1>1. TypeOK /\ StackAgrees /\ e \in Level
  BY DEF IInv, MayTake
<1>2. /\ Len(level) = top + 1 /\ top \in Nat \ {0} /\ top <= MaxDepth
      /\ \A n \in 1 .. top + 1 : level[n] \in Level
  BY <1>1, StackShape DEF TypeOK, SearchAssumption
<1>3. /\ Front(level) \in Seq(Level) /\ Len(Front(level)) = top
      /\ \A n \in 1 .. top : Front(level)[n] = level[n]
  <2>1. Front(level) = SubSeq(level, 1, top)
    BY <1>2 DEF Front
  <2>2. /\ SubSeq(level, 1, top) \in Seq(Level)
        /\ Len(SubSeq(level, 1, top)) = IF 1 <= top THEN top - 1 + 1 ELSE 0
        /\ \A i \in 1 .. top - 1 + 1 : SubSeq(level, 1, top)[i] = level[1 + i - 1]
    BY <1>2, SubSeqProperties
  <2> QED BY <1>2, <2>1, <2>2
<1>4. /\ level' \in Seq(Level) /\ Len(level') = top
      /\ \A n \in 1 .. top : level'[n] = IF n = top THEN e ELSE level[n]
  <2>1. top \in 1 .. Len(Front(level))
    BY <1>2, <1>3
  <2>2. /\ [Front(level) EXCEPT ![top] = e] \in Seq(Level)
        /\ Len([Front(level) EXCEPT ![top] = e]) = Len(Front(level))
        /\ \A j \in 1 .. Len(Front(level)) :
             [Front(level) EXCEPT ![top] = e][j] = IF j = top THEN e ELSE Front(level)[j]
    BY <1>1, <1>3, <2>1, ExceptSeq
  <2> QED BY <1>3, <2>2
<1>5. top' = top - 1
  <2>1. top' = Len(level') - 1
    BY DEF top
  <2> QED BY <1>4, <2>1
<1>6. StackAgrees'
  <2>1. \A n \in 1 .. top' : level'[n].pending # NONE
    <3> TAKE n \in 1 .. top'
    <3>1. n \in 1 .. top /\ level'[n] = level[n]
      BY <1>2, <1>4, <1>5
    <3> QED BY <1>1, <3>1 DEF StackAgrees
  <2>2. top' <= target_depth'
    <3>1. top <= target_depth /\ target_depth \in Nat
      BY <1>1 DEF StackAgrees, Undisturbed, TypeOK
    <3> QED BY <1>2, <1>5, <3>1 DEF Undisturbed
  <2>3. \A n \in 1 .. top' + 1 : level'[n].is_entered => n <= target_depth'
    <3> TAKE n \in 1 .. top' + 1
    <3>1. n \in 1 .. top /\ n \in 1 .. top + 1
      BY <1>2, <1>5
    <3>2. level'[n].is_entered = level[n].is_entered
      BY <1>4, <3>1 DEF MayTake
    <3> QED BY <1>1, <3>1, <3>2 DEF StackAgrees, Undisturbed
  <2> QED BY <2>1, <2>2, <2>3 DEF StackAgrees
<1>7. RootIsLegal'
  <2>1. /\ best \in tree.open[<<>>] \cup {NONE}
        /\ Root.best_direction \in tree.open[<<>>] \cup {NONE}
        /\ Root.pending \in tree.open[<<>>] \cup {NONE}
    BY DEF IInv, RootIsLegal, Undisturbed
  <2>2. /\ level'[1].best_direction \in {Root.best_direction, Root.pending}
        /\ level'[1].pending = Root.pending
    <3>1. CASE top = 1
      BY <1>4, <3>1 DEF MayTake, Root
    <3>2. CASE top # 1
      BY <1>2, <1>4, <3>2 DEF Root
    <3> QED BY <3>1, <3>2
  <2> QED BY <2>1, <2>2 DEF RootIsLegal, Root, Undisturbed
<1> QED BY <1>2, <1>4, <1>5, <1>6, <1>7

-----------------------------------------------------------------------------
(* The invariant, step by step *)

LEMMA Start == ASSUME SearchAssumption, Init PROVE IInv
<1>1. tree \in Trees
  BY DEF Init, SearchAssumption
<1>2. level \in Seq(Level) /\ Len(level) = 1 /\ level[1] = Opened
  BY OpenedTyped DEF Init
<1>3. top = 0
  BY <1>2 DEF top
<1>4. TypeOK
  <2>1. FlagsOK
    BY Zenon DEF Init, FlagsOK
  <2> QED BY <1>1, <1>2, <1>3, <2>1 DEF Init, TypeOK, SearchAssumption, NONE
<1>5. StackAgrees
  BY <1>3 DEF Init, StackAgrees
<1>6. RootIsLegal
  BY DEF Init, RootIsLegal, NONE
<1> QED BY <1>4, <1>5, <1>6 DEF IInv

LEMMA StepRestart == ASSUME SearchAssumption, IInv, Restart PROVE IInv'
<1>1. TypeOK /\ StackAgrees
  BY DEF IInv
<1>2. level' = level /\ top' = top
  BY DEF Restart, top
<1>3. FlagsOK'
  <2>1. is_finished' = (~tree'.running[<<>>])
    BY Zenon DEF Restart
  <2>2. is_finished' \in BOOLEAN
    BY <2>1
  <2>3. is_deepening_active' = FALSE /\ is_truncated' = FALSE
    BY Zenon DEF Restart
  <2> QED BY <2>2, <2>3 DEF FlagsOK
<1>4. walk' \in Nat /\ field' = field
  BY <1>1 DEF Restart, StartFoodField, TypeOK, SearchAssumption
<1>5. TypeOK'
  BY <1>1, <1>2, <1>3, <1>4 DEF TypeOK, Restart, SearchAssumption, NONE
<1>6. StackAgrees'
  BY <1>1, <1>2 DEF StackAgrees, Restart
<1>7. RootIsLegal'
  BY DEF RootIsLegal, Restart
<1> QED BY <1>5, <1>6, <1>7 DEF IInv

\* A step that leaves the stack, the deepening and the answer alone.
LEMMA StackKept ==
  ASSUME IInv, level' = level, tree' = tree, best' = best,
         target_depth' = target_depth, is_deepening_active' = is_deepening_active
  PROVE  top' = top /\ StackAgrees' /\ RootIsLegal'
<1>1. top' = top
  BY DEF top
<1>2. StackAgrees'
  BY <1>1 DEF IInv, StackAgrees
<1>3. RootIsLegal'
  BY DEF IInv, RootIsLegal, Root
<1> QED BY <1>1, <1>2, <1>3

LEMMA FlagsKept ==
  ASSUME TypeOK, is_deepening_active' = is_deepening_active,
         is_truncated' = is_truncated, is_finished' = is_finished
  PROVE  FlagsOK'
BY Zenon DEF TypeOK, FlagsOK

LEMMA StepThink == ASSUME SearchAssumption, IInv, Think PROVE IInv'
<1>1. TypeOK
  BY DEF IInv
<1>2. top' = top /\ StackAgrees' /\ RootIsLegal'
  BY StackKept DEF Think, deepening, answer
<1>3. walk' \in Nat /\ field' \in 0 .. 1
  BY <1>1 DEF Think, AdvanceFoodField, TypeOK
<1>4. FlagsOK'
  BY <1>1, FlagsKept DEF Think, deepening
<1>5. TypeOK'
  BY <1>1, <1>2, <1>3, <1>4 DEF Think, TypeOK, SearchAssumption, deepening, answer
<1> QED BY <1>2, <1>5 DEF IInv

LEMMA StepPause == ASSUME SearchAssumption, IInv, Pause \/ Return PROVE IInv'
<1>1. TypeOK
  BY DEF IInv
<1>2. /\ pc' = "idle"
      /\ UNCHANGED <<tree, budgets, level, deepening, is_finished, answer, food>>
  BY DEF Pause, Return
<1>3. top' = top /\ StackAgrees' /\ RootIsLegal'
  BY <1>2, StackKept DEF deepening, answer
<1>4. FlagsOK'
  BY <1>1, <1>2, FlagsKept DEF deepening
<1>5. TypeOK'
  BY <1>1, <1>2, <1>3, <1>4 DEF TypeOK, budgets, deepening, answer, food
<1> QED BY <1>3, <1>5 DEF IInv

LEMMA StepBegin == ASSUME SearchAssumption, IInv, BeginDeepening PROVE IInv'
<1>1. TypeOK
  BY DEF IInv
<1>2. level' = <<Opened>> /\ Opened \in Level
  BY OpenedTyped DEF BeginDeepening
<1>3. level' \in Seq(Level) /\ Len(level') = 1 /\ level'[1] = Opened
  BY <1>2
<1>4. top' = 0
  <2>1. top' = Len(level') - 1
    BY DEF top
  <2> QED BY <1>3, <2>1
<1>5. TypeOK'
  <2>1. FlagsOK'
    BY <1>1, Zenon DEF BeginDeepening, TypeOK, FlagsOK
  <2> QED BY <1>1, <1>3, <1>4, <2>1
      DEF TypeOK, BeginDeepening, budgets, answer, food, SearchAssumption
<1>6. StackAgrees'
  <2>1. target_depth' \in Nat
    BY <1>5 DEF TypeOK
  <2>2. \A n \in 1 .. top' + 1 : ~level'[n].is_entered
    BY <1>3, <1>4, OpenedTyped
  <2> QED BY <1>4, <2>1, <2>2 DEF StackAgrees
<1>7. RootIsLegal'
  <2>1. Root' = Opened
    BY <1>3 DEF Root
  <2> QED BY <2>1, OpenedTyped DEF RootIsLegal, BeginDeepening, answer, IInv
<1> QED BY <1>5, <1>6, <1>7 DEF IInv

\* The steps that change the level on top only.
LEMMA StepEnter == ASSUME SearchAssumption, IInv, Enter PROVE IInv'
<1> DEFINE e == [Now EXCEPT !.is_entered = TRUE]
<1>1. TypeOK /\ Now \in Level
  BY StackShape DEF IInv
<1>2. /\ is_deepening_active
      /\ UNCHANGED <<tree, budgets, pc, deepening, is_finished, answer, food>>
  BY DEF Enter
<1>3. Undisturbed
  BY <1>2 DEF Undisturbed, deepening, answer
<1>4. top + 1 <= target_depth
  BY <1>1, StackShape DEF Enter, IsLeaf, TypeOK
<1>5. MayBecome(e)
  BY <1>1, <1>4 DEF MayBecome, Level
<1>6. level' = [level EXCEPT ![top + 1] = e]
  BY DEF Enter, Now
<1>7. level' \in Seq(Level) /\ top' = top /\ StackAgrees' /\ RootIsLegal'
  BY <1>3, <1>5, <1>6, TopChanges
<1>8. FlagsOK'
  BY <1>1, <1>2, FlagsKept DEF deepening
<1>9. TypeOK'
  BY <1>1, <1>2, <1>7, <1>8 DEF TypeOK, budgets, deepening, answer, food
<1> QED BY <1>7, <1>9 DEF IInv

\* At a branch the level on top has been entered, and goes on to some next one.
LEMMA AtBranchMayBecome ==
  ASSUME SearchAssumption, IInv, NEW b, AtBranch(b), NEW n \in 1 .. Branches + 1
  PROVE  /\ MayBecome([Now EXCEPT !.next = n]) /\ is_deepening_active
         /\ top + 1 <= target_depth /\ Now.next = b
<1>1. TypeOK /\ StackAgrees /\ Now \in Level /\ top \in Nat
  BY StackShape DEF IInv
<1>2. is_deepening_active /\ Now.is_entered /\ Now.next = b
  BY DEF AtBranch
<1>3. top + 1 <= target_depth
  BY <1>1, <1>2 DEF StackAgrees, Now
<1> QED BY <1>1, <1>2, <1>3 DEF MayBecome, Level

LEMMA StepWall == ASSUME SearchAssumption, IInv, Wall PROVE IInv'
<1>1. PICK b \in 1 .. Branches : AtBranch(b)
  BY DEF Wall
<1> DEFINE e == [Now EXCEPT !.next = b + 1]
<1>2. TypeOK
  BY DEF IInv
<1>3. MayBecome(e) /\ is_deepening_active /\ Now.next = b
  <2>1. b + 1 \in 1 .. Branches + 1
    BY DEF SearchAssumption
  <2> QED BY <1>1, <2>1, AtBranchMayBecome
<1>4. UNCHANGED <<tree, budgets, pc, deepening, is_finished, answer, food>>
  BY DEF Wall
<1>5. Undisturbed
  BY <1>3, <1>4 DEF Undisturbed, deepening, answer
<1>6. level' = [level EXCEPT ![top + 1] = e]
  BY <1>3 DEF Wall, Now
<1>7. level' \in Seq(Level) /\ top' = top /\ StackAgrees' /\ RootIsLegal'
  BY <1>3, <1>5, <1>6, TopChanges
<1>8. FlagsOK'
  BY <1>2, <1>4, FlagsKept DEF deepening
<1>9. TypeOK'
  BY <1>2, <1>4, <1>7, <1>8 DEF TypeOK, budgets, deepening, answer, food
<1> QED BY <1>7, <1>9 DEF IInv

LEMMA StepOutOfBudget == ASSUME SearchAssumption, IInv, OutOfBudget PROVE IInv'
<1>1. PICK b : AtBranch(b)
  BY DEF OutOfBudget
<1> DEFINE e == [Now EXCEPT !.next = Branches + 1]
<1>2. TypeOK
  BY DEF IInv
<1>3. MayBecome(e) /\ is_deepening_active
  <2>1. Branches + 1 \in 1 .. Branches + 1
    BY DEF SearchAssumption
  <2> QED BY <1>1, <2>1, AtBranchMayBecome
<1>4. /\ UNCHANGED <<tree, budgets, pc, target_depth, is_deepening_active,
                     is_finished, answer, food>>
      /\ is_truncated' = TRUE
  BY DEF OutOfBudget
<1>5. Undisturbed
  BY <1>3, <1>4 DEF Undisturbed, answer
<1>6. level' = [level EXCEPT ![top + 1] = e]
  BY DEF OutOfBudget, Now
<1>7. level' \in Seq(Level) /\ top' = top /\ StackAgrees' /\ RootIsLegal'
  BY <1>3, <1>5, <1>6, TopChanges
<1>8. FlagsOK'
  BY <1>2, <1>4, Zenon DEF TypeOK, FlagsOK
<1>9. TypeOK'
  BY <1>2, <1>4, <1>7, <1>8 DEF TypeOK, budgets, answer, food
<1> QED BY <1>7, <1>9 DEF IInv

\* A leg leads to a position, and costs no more than there is.
LEMMA LegTyped ==
  ASSUME SearchAssumption, IInv, NEW b \in 1 .. Branches, top + 1 <= target_depth
  PROVE  LET to == Append(position, b)
         IN  to \in Positions /\ Spent(to) \in Nat /\ ticks_left - Spent(to) \in Nat
<1> DEFINE to == Append(position, b)
<1>1. TypeOK /\ StackAgrees
  BY DEF IInv
<1>2. /\ top \in Nat /\ top + 1 \in 0 .. MaxDepth
  BY <1>1, StackShape DEF TypeOK, SearchAssumption
<1>3. position \in Seq(1 .. Branches) /\ Len(position) = top
  <2>1. position \in [1 .. top -> 1 .. Branches]
    <3>1. /\ position \in Positions /\ Len(position) = top
      BY <1>1, PositionTyped
    <3>2. PICK n \in 0 .. MaxDepth : position \in [1 .. n -> 1 .. Branches]
      BY <3>1 DEF Positions
    <3>3. n = top
      BY <3>1, <3>2, LenProperties, SeqDef
    <3> QED BY <3>2, <3>3
  <2> QED BY <1>1, <1>2, <2>1, PositionTyped, SeqDef
<1>4. to \in Positions
  <2>1. to \in Seq(1 .. Branches) /\ Len(to) = top + 1
    BY <1>3, AppendProperties
  <2>2. to \in [1 .. top + 1 -> 1 .. Branches]
    BY <2>1, LenProperties
  <2> QED BY <1>2, <2>2 DEF Positions
<1> HIDE DEF to
<1>5. tree.ticks[to] \in Nat /\ ticks_left \in Nat
  BY <1>1, <1>4 DEF TypeOK, SearchAssumption, Tree
<1>6. Spent(to) \in Nat /\ ticks_left - Spent(to) \in Nat
  BY <1>5 DEF Spent
<1> QED BY <1>4, <1>6 DEF to

LEMMA StepLeg == ASSUME SearchAssumption, IInv, Leg PROVE IInv'
<1>1. PICK b \in tree.open[position] :
        /\ AtBranch(b)
        /\ LET to    == Append(position, b)
               spent == Spent(to)
           IN  /\ ticks_left' = ticks_left - spent
               /\ slice_left' = IF spent >= slice_left THEN 0 ELSE slice_left - spent
               /\ IF spent < tree.first[to]
                  THEN level' = [level EXCEPT ![top + 1].next = b + 1]
                  ELSE level' = Append([level EXCEPT ![top + 1].next = b + 1,
                                                     ![top + 1].pending = b], Opened)
  BY DEF Leg
<1>2. /\ is_truncated' = is_truncated
      /\ UNCHANGED <<tree, budget, pc, target_depth, is_deepening_active,
                     is_finished, answer, food>>
  BY DEF Leg
<1>3. TypeOK /\ StackAgrees
  BY DEF IInv
<1>4. b \in 1 .. Branches /\ b + 1 \in 1 .. Branches + 1
  BY <1>1, <1>3, TreeTyped DEF SearchAssumption
<1> DEFINE skipped == [Now EXCEPT !.next = b + 1]
<1> DEFINE taken == [skipped EXCEPT !.pending = b]
<1>5. /\ MayBecome(skipped) /\ is_deepening_active
      /\ top + 1 <= target_depth
  BY <1>1, <1>4, AtBranchMayBecome
<1>6. Now \in Level
  BY <1>3, StackShape
<1>7. MayBecome(taken) /\ taken.pending \in tree.open[position]
  <2>1. skipped \in Level /\ skipped.best_direction = Now.best_direction
    BY <1>5 DEF MayBecome
  <2> HIDE DEF skipped
  <2>2. b \in 0 .. Branches
    BY <1>4
  <2>3. /\ taken \in Level /\ taken.pending = b
        /\ taken.best_direction = skipped.best_direction
    BY <2>1, <2>2 DEF Level
  <2> QED BY <1>1, <1>5, <2>1, <2>3 DEF MayBecome
<1>8. Undisturbed
  BY <1>2, <1>5 DEF Undisturbed, answer
<1>9. /\ level' \in Seq(Level) /\ top' \in 0 .. MaxDepth
      /\ StackAgrees' /\ RootIsLegal'
  <2>1. CASE level' = [level EXCEPT ![top + 1] = skipped]
    <3>1. level' \in Seq(Level) /\ top' = top /\ StackAgrees' /\ RootIsLegal'
      BY <1>5, <1>8, <2>1, TopChanges
    <3> QED BY <1>3, <3>1 DEF TypeOK
  <2>2. CASE level' = Append([level EXCEPT ![top + 1] = taken], Opened)
    BY <1>5, <1>7, <1>8, <2>2, LevelOpens
  <2>3. [level EXCEPT ![top + 1].next = b + 1] = [level EXCEPT ![top + 1] = skipped]
    BY DEF Now
  <2>4. [level EXCEPT ![top + 1].next = b + 1, ![top + 1].pending = b]
          = [level EXCEPT ![top + 1] = taken]
    <3>1. level \in Seq(Level) /\ top + 1 \in 1 .. Len(level)
      BY <1>3, StackShape DEF TypeOK
    <3>2. level \in [1 .. Len(level) -> Level]
      BY <3>1, LenProperties
    <3> QED BY <3>1, <3>2 DEF Now
  <2> QED BY <1>1, <2>1, <2>2, <2>3, <2>4
<1>10. ticks_left' \in Nat /\ slice_left' \in Nat
  <2>1. LET to == Append(position, b)
        IN  Spent(to) \in Nat /\ ticks_left - Spent(to) \in Nat
    BY <1>4, <1>5, LegTyped
  <2>2. slice_left \in Nat
    BY <1>3 DEF TypeOK
  <2> QED BY <1>1, <2>1, <2>2
<1>11. FlagsOK'
  BY <1>2, <1>3, FlagsKept
<1>12. TypeOK'
  BY <1>2, <1>3, <1>9, <1>10, <1>11 DEF TypeOK, answer, food
<1> QED BY <1>9, <1>12 DEF IInv

\* A deepening closed: the answer is the root's best way, or stays.
LEMMA DeepeningCloses ==
  ASSUME SearchAssumption, IInv, is_deepening_active, NEW truncated \in BOOLEAN,
         CloseDeepening(truncated), is_truncated' = truncated, level' = level,
         UNCHANGED <<tree, budgets, pc, is_cut, food>>
  PROVE  IInv'
<1>1. TypeOK /\ StackAgrees /\ Root \in Level /\ top' = top
  BY StackShape DEF IInv, top
<1>2. /\ best \in tree.open[<<>>] \cup {NONE}
      /\ Root.best_direction \in tree.open[<<>>] \cup {NONE}
  BY DEF IInv, RootIsLegal
<1>3. best' \in {best, Root.best_direction}
  BY DEF CloseDeepening, answer
<1>4. is_deepening_active' = FALSE
  BY DEF CloseDeepening
<1>5. target_depth' \in 1 .. MaxDepth /\ reached_depth' \in 0 .. MaxDepth
  <2>1. target_depth \in 1 .. MaxDepth /\ reached_depth \in 0 .. MaxDepth
    BY <1>1 DEF TypeOK
  <2>2. CASE truncated
    BY <2>1, <2>2 DEF CloseDeepening
  <2>3. CASE ~truncated
    <3>1. /\ is_finished' = (target_depth >= MaxDepth)
          /\ target_depth' = IF is_finished' THEN target_depth ELSE target_depth + 1
          /\ reached_depth' \in {reached_depth, target_depth}
      BY <2>3 DEF CloseDeepening, answer
    <3>2. CASE target_depth >= MaxDepth
      <4>1. target_depth' = target_depth
        BY <3>1, <3>2, Zenon
      <4> QED BY <2>1, <3>1, <4>1
    <3>3. CASE ~(target_depth >= MaxDepth)
      <4>1. target_depth' = target_depth + 1
        BY <3>1, <3>3, Zenon
      <4>2. target_depth + 1 \in 1 .. MaxDepth
        BY <2>1, <3>3 DEF SearchAssumption
      <4> QED BY <2>1, <3>1, <4>1, <4>2
    <3> QED BY <3>2, <3>3
  <2> QED BY <2>2, <2>3
<1>6. FlagsOK'
  <2>1. is_finished' = TRUE \/ is_finished' = (target_depth >= MaxDepth)
    BY DEF CloseDeepening
  <2>2. is_finished' \in BOOLEAN
    <3>1. (target_depth >= MaxDepth) \in BOOLEAN
      OBVIOUS
    <3> QED BY <2>1, <3>1, Zenon
  <2> QED BY <1>4, <2>2, Zenon DEF FlagsOK
<1>7. TypeOK'
  BY <1>1, <1>2, <1>3, <1>5, <1>6 DEF TypeOK, Level, budgets, food
<1>8. StackAgrees'
  BY <1>1, <1>4 DEF StackAgrees
<1>9. RootIsLegal'
  BY <1>2, <1>3, <1>4 DEF RootIsLegal
<1> QED BY <1>7, <1>8, <1>9 DEF IInv

LEMMA StepClose ==
  ASSUME SearchAssumption, IInv, is_deepening_active,
         NEW value \in Int, NEW truncated \in BOOLEAN, CloseLevel(value, truncated)
  PROVE  IInv'
<1>1. TypeOK /\ StackAgrees
  BY DEF IInv
<1>2. /\ is_truncated' = truncated
      /\ UNCHANGED <<tree, budgets, pc, is_cut, food>>
  BY DEF CloseLevel
<1>3. CASE top = 0 /\ CloseDeepening(truncated) /\ UNCHANGED level
  BY <1>2, <1>3, DeepeningCloses
<1>4. CASE top > 0
  <2> DEFINE parent == level[top]
  <2> DEFINE better == [parent EXCEPT !.has_branch = TRUE, !.best_value = value,
                                      !.best_direction = parent.pending]
  <2> DEFINE e == IF parent.has_branch /\ value <= parent.best_value THEN parent ELSE better
  <2>1. parent \in Level
    BY <1>1, <1>4, StackShape
  <2>2. /\ level' = [Front(level) EXCEPT ![top] = e]
        /\ UNCHANGED <<target_depth, is_deepening_active, is_finished, answer>>
    <3>1. top # 0
      BY <1>4
    <3> QED BY <3>1, Zenon DEF CloseLevel
  <2>3. Undisturbed
    BY <1>2, <2>2 DEF Undisturbed, answer
  <2>4. MayTake(parent, e)
    <3>1. MayTake(parent, parent)
      BY <2>1 DEF MayTake
    <3>2. MayTake(parent, better)
      <4> HIDE DEF parent
      <4>1. parent.pending \in 0 .. Branches
        BY <2>1 DEF Level
      <4>2. /\ better \in Level /\ better.pending = parent.pending
            /\ better.is_entered = parent.is_entered
            /\ better.best_direction = parent.pending
        BY <2>1, <4>1 DEF Level
      <4> QED BY <4>2 DEF MayTake
    <3>3. e = parent \/ e = better
      OBVIOUS
    <3> HIDE DEF e, better, parent
    <3> QED BY <3>1, <3>2, <3>3
  <2>5. /\ level' \in Seq(Level) /\ top' \in 0 .. MaxDepth
        /\ StackAgrees' /\ RootIsLegal'
    <3> HIDE DEF e
    <3> QED BY <1>4, <2>2, <2>3, <2>4, LevelCloses
  <2>6. FlagsOK'
    <3>1. is_truncated' \in BOOLEAN
      BY <1>2
    <3>2. is_deepening_active' = is_deepening_active /\ is_finished' = is_finished
      BY <2>2
    <3> QED BY <1>1, <3>1, <3>2, Zenon DEF TypeOK, FlagsOK
  <2>7. TypeOK'
    BY <1>1, <1>2, <2>2, <2>5, <2>6 DEF TypeOK, budgets, answer, food
  <2> QED BY <2>5, <2>7 DEF IInv
<1> QED BY <1>3, <1>4 DEF CloseLevel

LEMMA StepLeaf == ASSUME SearchAssumption, IInv, Leaf PROVE IInv'
<1>1. TypeOK /\ StackAgrees
  BY DEF IInv
<1>2. Evaluate(position) \in Int
  BY <1>1, TreeTyped
<1>3. (is_truncated \/ ticks_left = 0) \in BOOLEAN
  BY <1>1 DEF TypeOK, FlagsOK
<1>4. is_deepening_active /\ CloseLevel(Evaluate(position), is_truncated \/ ticks_left = 0)
  BY DEF Leaf
<1> QED BY <1>2, <1>3, <1>4, StepClose

LEMMA StepLevelDone == ASSUME SearchAssumption, IInv, LevelDone PROVE IInv'
<1> DEFINE value == IF Now.has_branch THEN Now.best_value ELSE Evaluate(position)
<1>1. TypeOK /\ StackAgrees /\ Now \in Level
  BY StackShape DEF IInv
<1>2. value \in Int
  BY <1>1, TreeTyped DEF Level
<1>3. is_truncated \in BOOLEAN
  BY <1>1, Zenon DEF TypeOK, FlagsOK
<1>4. is_deepening_active /\ CloseLevel(value, is_truncated)
  BY DEF LevelDone
<1> HIDE DEF value
<1> QED BY <1>2, <1>3, <1>4, StepClose

-----------------------------------------------------------------------------
(* Theorems *)

LEMMA Inductive == SearchAssumption => (IInv /\ [Next]_vars => IInv')
<1> SUFFICES ASSUME SearchAssumption, IInv, [Next]_vars PROVE IInv'
  OBVIOUS
<1>1. CASE Restart
  BY <1>1, StepRestart
<1>2. CASE Think
  BY <1>2, StepThink
<1>3. CASE BeginDeepening
  BY <1>3, StepBegin
<1>4. CASE Leaf
  BY <1>4, StepLeaf
<1>5. CASE Enter
  BY <1>5, StepEnter
<1>6. CASE LevelDone
  BY <1>6, StepLevelDone
<1>7. CASE Wall
  BY <1>7, StepWall
<1>8. CASE OutOfBudget
  BY <1>8, StepOutOfBudget
<1>9. CASE Pause \/ Return
  BY <1>9, StepPause
<1>10. CASE Leg
  BY <1>10, StepLeg
<1>11. CASE UNCHANGED vars
  <2>1. UNCHANGED <<tree, budgets, pc, level, deepening, is_finished, answer, food>>
    BY <1>11 DEF vars
  <2>2. TypeOK
    BY DEF IInv
  <2>3. top' = top /\ StackAgrees' /\ RootIsLegal'
    BY <2>1, StackKept DEF deepening, answer
  <2>4. FlagsOK'
    BY <2>1, <2>2, FlagsKept DEF deepening
  <2>5. TypeOK'
    BY <2>1, <2>2, <2>3, <2>4 DEF TypeOK, budgets, deepening, answer, food
  <2> QED BY <2>3, <2>5 DEF IInv
<1> QED BY <1>1, <1>2, <1>3, <1>4, <1>5, <1>6, <1>7, <1>8, <1>9, <1>10, <1>11
    DEF Next, Advance

THEOREM Invariance == Spec => []IInv
<1>1. Init => IInv
  BY Start, SearchAssumption
<1>2. IInv /\ [Next]_vars => IInv'
  BY Inductive, SearchAssumption
<1> QED BY <1>1, <1>2, PTL DEF Spec

\* The search keeps to its types and to the memory its stack has: whatever
\* the tree, no level is opened beyond the deepest that g_level has and no leg
\* is walked on a clone that is not there.
THEOREM TypeCorrect == Spec => []TypeOK
<1>1. IInv => TypeOK
  BY DEF IInv
<1> QED BY <1>1, Invariance, PTL

\* pacman_lookahead_get_direction gives a way out of the cell at any moment
\* after the first restart, for every tree, budget, slice and depth.
THEOREM AnswerAlwaysLegal == Spec => []AnswerIsLegal
<1>1. IInv => AnswerIsLegal
  <2> SUFFICES ASSUME IInv, tree.running[<<>>], tree.open[<<>>] # {}
               PROVE  Direction \in tree.open[<<>>]
    BY DEF AnswerIsLegal
  <2>1. CASE best # NONE
    BY <2>1 DEF Direction, IInv, RootIsLegal
  <2>2. CASE best = NONE
    <3>1. tree.open[<<>>] \subseteq Nat
      BY TreeTyped, SearchAssumption DEF IInv, SearchAssumption
    <3>2. \E b \in tree.open[<<>>] : \A c \in tree.open[<<>>] : b <= c
      BY <3>1, FirstExists
    <3>3. Direction = CHOOSE b \in tree.open[<<>>] : \A c \in tree.open[<<>>] : b <= c
      BY <2>2 DEF Direction
    <3> QED BY <3>2, <3>3, Zenon
  <2> QED BY <2>1, <2>2
<1> QED BY <1>1, Invariance, PTL

-----------------------------------------------------------------------------
(* Positions and the ends behind them *)

LEMMA PositionShape ==
  ASSUME SearchAssumption, NEW p \in Positions
  PROVE  /\ Len(p) \in 0 .. MaxDepth
         /\ p \in [1 .. Len(p) -> 1 .. Branches]
         /\ p \in Seq(1 .. Branches)
         /\ Upto(p, Len(p)) = p
<1>1. PICK n \in 0 .. MaxDepth : p \in [1 .. n -> 1 .. Branches]
  BY DEF Positions
<1>2. n \in Nat
  BY <1>1 DEF SearchAssumption
<1>3. p \in Seq(1 .. Branches) /\ Len(p) = n
  BY <1>1, <1>2, LenProperties, SeqDef
<1>4. Upto(p, Len(p)) = p
  BY <1>1, <1>3 DEF Upto
<1> QED BY <1>1, <1>3, <1>4

LEMMA PositionMade ==
  ASSUME SearchAssumption, NEW n \in 0 .. MaxDepth, NEW p \in [1 .. n -> 1 .. Branches]
  PROVE  p \in Positions /\ Len(p) = n
<1>1. n \in Nat
  BY DEF SearchAssumption
<1> QED BY <1>1, LenProperties, SeqDef DEF Positions

\* A branch more.
LEMMA PositionGrows ==
  ASSUME SearchAssumption, NEW p \in Positions, Len(p) < MaxDepth, NEW b \in 1 .. Branches
  PROVE  /\ Append(p, b) \in Positions /\ Len(Append(p, b)) = Len(p) + 1
         /\ Append(p, b)[Len(p) + 1] = b
         /\ \A i \in 1 .. Len(p) : Append(p, b)[i] = p[i]
         /\ Upto(Append(p, b), Len(p)) = p
<1>1. /\ Len(p) \in 0 .. MaxDepth /\ p \in Seq(1 .. Branches)
      /\ Upto(p, Len(p)) = p
  BY PositionShape
<1> DEFINE q == Append(p, b)
<1>2. /\ q \in Seq(1 .. Branches) /\ Len(q) = Len(p) + 1
      /\ q[Len(p) + 1] = b /\ \A i \in 1 .. Len(p) : q[i] = p[i]
  BY <1>1, AppendProperties
<1> HIDE DEF q
<1>3. Len(p) + 1 \in 0 .. MaxDepth
  BY <1>1 DEF SearchAssumption
<1>4. q \in [1 .. Len(p) + 1 -> 1 .. Branches]
  BY <1>2, LenProperties
<1>5. q \in Positions
  BY <1>3, <1>4, PositionMade
<1>6. Upto(q, Len(p)) = p
  <2>1. Upto(q, Len(p)) = Upto(p, Len(p))
    BY <1>2 DEF Upto
  <2> QED BY <1>1, <2>1
<1> QED BY <1>2, <1>5, <1>6 DEF q

\* The beginning of the beginning.
LEMMA UptoUpto ==
  ASSUME NEW q, NEW n \in Nat, NEW m \in 0 .. n
  PROVE  Upto(Upto(q, n), m) = Upto(q, m)
BY DEF Upto

\* A beginning that is one longer is the shorter one and a branch.
LEMMA UptoGrows ==
  ASSUME SearchAssumption, NEW p \in Positions, Len(p) < MaxDepth,
         NEW q \in Positions, Len(p) < Len(q), Upto(q, Len(p)) = p
  PROVE  /\ q[Len(p) + 1] \in 1 .. Branches
         /\ Upto(q, Len(p) + 1) = Append(p, q[Len(p) + 1])
<1> DEFINE n == Len(p)
<1> DEFINE b == q[n + 1]
<1>1. /\ n \in Nat /\ p \in Seq(1 .. Branches) /\ p \in [1 .. n -> 1 .. Branches]
      /\ Len(q) \in Nat /\ q \in [1 .. Len(q) -> 1 .. Branches]
  BY PositionShape DEF SearchAssumption
<1>2. n < Len(q)
  OBVIOUS
<1>3. /\ Len(Append(p, b)) = n + 1 /\ Append(p, b)[n + 1] = b
      /\ \A i \in 1 .. n : Append(p, b)[i] = p[i]
      /\ Append(p, b) \in Positions
  <2>1. b \in 1 .. Branches
    <3> HIDE DEF n
    <3> QED BY <1>1, <1>2
  <2> QED BY <2>1, PositionGrows
<1>4. Upto(q, n) = p
  OBVIOUS
<1> HIDE DEF n
<1>5. b \in 1 .. Branches
  BY <1>1, <1>2
<1> HIDE DEF b
<1>6. Append(p, b) \in [1 .. n + 1 -> 1 .. Branches]
  <2>1. ASSUME NEW r \in Positions PROVE r \in [1 .. Len(r) -> 1 .. Branches]
    BY PositionShape
  <2>2. Append(p, b) \in [1 .. Len(Append(p, b)) -> 1 .. Branches]
    BY <1>3, <2>1
  <2>3. Len(Append(p, b)) = n + 1
    BY <1>3
  <2> QED BY <2>2, <2>3, Zenon
<1>7. \A i \in 1 .. n : q[i] = p[i]
  BY <1>1, <1>4 DEF Upto
<1>8. \A i \in 1 .. n + 1 : Upto(q, n + 1)[i] = Append(p, b)[i]
  <2> TAKE i \in 1 .. n + 1
  <2>1. Upto(q, n + 1)[i] = q[i]
    BY DEF Upto
  <2>2. CASE i = n + 1
    BY <2>1, <2>2, <1>3 DEF b
  <2>3. CASE i # n + 1
    <3>1. i \in 1 .. n
      BY <1>1, <2>3
    <3> QED BY <3>1, <2>1, <1>3, <1>7
  <2> QED BY <2>2, <2>3
<1>9. Upto(q, n + 1) = Append(p, b)
  <2>1. Upto(q, n + 1) = [i \in 1 .. n + 1 |-> Upto(q, n + 1)[i]]
    BY DEF Upto
  <2>2. Append(p, b) = [i \in 1 .. n + 1 |-> Append(p, b)[i]]
    BY <1>6
  <2> QED BY <2>1, <2>2, <1>8
<1> QED BY <1>5, <1>9 DEF n, b

LEMMA EndsOfEnd ==
  ASSUME SearchAssumption, NEW t, NEW p \in Positions, NEW d, IsEnd(t, p, d)
  PROVE  Ends(t, p, d) = {p}
<1>1. Len(p) \in Nat /\ Upto(p, Len(p)) = p
  BY PositionShape DEF SearchAssumption
<1>2. p \in Ends(t, p, d)
  BY <1>1 DEF Ends
<1>3. ASSUME NEW q \in Ends(t, p, d) PROVE q = p
  <2>1. /\ q \in Positions /\ Len(p) <= Len(q) /\ Upto(q, Len(p)) = p
        /\ \A n \in Len(p) .. Len(q) - 1 : ~IsEnd(t, Upto(q, n), d)
    BY DEF Ends
  <2>2. Len(q) \in Nat /\ Upto(q, Len(q)) = q
    BY <2>1, PositionShape DEF SearchAssumption
  <2>3. CASE Len(q) = Len(p)
    BY <2>1, <2>2, <2>3
  <2>4. CASE Len(q) # Len(p)
    <3>1. Len(p) \in Len(p) .. Len(q) - 1
      BY <1>1, <2>1, <2>2, <2>4
    <3>2. ~IsEnd(t, Upto(q, Len(p)), d)
      BY <2>1, <3>1
    <3> QED BY <2>1, <3>2
  <2> QED BY <2>3, <2>4
<1> QED BY <1>2, <1>3

\* What is behind p is what is behind the ways from it.
LEMMA EndsBehind ==
  ASSUME SearchAssumption, NEW t, NEW p \in Positions, NEW d \in 1 .. MaxDepth, ~IsEnd(t, p, d),
         Ways(t, p) \subseteq 1 .. Branches
  PROVE  /\ \A q \in Ends(t, p, d) : \E b \in Ways(t, p) : q \in Ends(t, Append(p, b), d)
         /\ \A b \in Ways(t, p) : Ends(t, Append(p, b), d) \subseteq Ends(t, p, d)
<1>1. Len(p) \in Nat /\ Upto(p, Len(p)) = p /\ Len(p) < MaxDepth
  BY PositionShape DEF SearchAssumption, IsEnd
<1>2. ASSUME NEW q \in Ends(t, p, d) PROVE \E b \in Ways(t, p) : q \in Ends(t, Append(p, b), d)
  <2>1. /\ q \in Positions /\ Len(p) <= Len(q) /\ Upto(q, Len(p)) = p /\ IsEnd(t, q, d)
        /\ \A n \in Len(p) .. Len(q) - 1 :
             ~IsEnd(t, Upto(q, n), d) /\ q[n + 1] \in Ways(t, Upto(q, n))
    BY DEF Ends
  <2>2. Len(q) \in Nat /\ Upto(q, Len(q)) = q
    BY <2>1, PositionShape DEF SearchAssumption
  <2>3. Len(p) # Len(q)
    BY <2>1, <2>2
  <2>4. Len(p) < Len(q) /\ Len(p) \in Len(p) .. Len(q) - 1
    BY <1>1, <2>1, <2>2, <2>3
  <2> DEFINE b == q[Len(p) + 1]
  <2>5. b \in Ways(t, p)
    BY <2>1, <2>4
  <2>6. Upto(q, Len(p) + 1) = Append(p, b)
    BY <1>1, <2>1, <2>4, UptoGrows
  <2>7. b \in 1 .. Branches
    BY <2>5
  <2> HIDE DEF b
  <2>8. Len(Append(p, b)) = Len(p) + 1
    BY <1>1, <2>7, PositionGrows
  <2>9. Len(p) + 1 <= Len(q)
    BY <1>1, <2>2, <2>4
  <2>10. \A n \in Len(p) + 1 .. Len(q) - 1 : n \in Len(p) .. Len(q) - 1
    BY <1>1, <2>2
  <2>11. q \in Ends(t, Append(p, b), d)
    BY <2>1, <2>6, <2>8, <2>9, <2>10 DEF Ends
  <2> QED BY <2>5, <2>11
<1>3. ASSUME NEW b \in Ways(t, p), NEW q \in Ends(t, Append(p, b), d) PROVE q \in Ends(t, p, d)
  <2>1. b \in 1 .. Branches
    OBVIOUS
  <2>2. /\ Len(Append(p, b)) = Len(p) + 1 /\ Append(p, b)[Len(p) + 1] = b
        /\ Upto(Append(p, b), Len(p)) = p
    BY <1>1, <2>1, PositionGrows
  <2>3. /\ q \in Positions /\ Len(p) + 1 <= Len(q) /\ IsEnd(t, q, d)
        /\ Upto(q, Len(p) + 1) = Append(p, b)
        /\ \A n \in Len(p) + 1 .. Len(q) - 1 :
             ~IsEnd(t, Upto(q, n), d) /\ q[n + 1] \in Ways(t, Upto(q, n))
    BY <2>2 DEF Ends
  <2>4. Len(q) \in Nat
    BY <2>3, PositionShape DEF SearchAssumption
  <2>5. Upto(q, Len(p)) = p
    <3>1. Upto(Upto(q, Len(p) + 1), Len(p)) = Upto(q, Len(p))
      <4>1. Len(p) + 1 \in Nat /\ Len(p) \in 0 .. Len(p) + 1
        BY <1>1
      <4> QED BY <4>1, UptoUpto
    <3> QED BY <2>2, <2>3, <3>1
  <2>6. q[Len(p) + 1] = b
    <3>1. Upto(q, Len(p) + 1)[Len(p) + 1] = q[Len(p) + 1]
      BY <1>1 DEF Upto
    <3> QED BY <2>2, <2>3, <3>1
  <2>7. ASSUME NEW n \in Len(p) .. Len(q) - 1
        PROVE  ~IsEnd(t, Upto(q, n), d) /\ q[n + 1] \in Ways(t, Upto(q, n))
    <3>1. CASE n = Len(p)
      BY <2>5, <2>6, <3>1
    <3>2. CASE n # Len(p)
      <4>1. n \in Len(p) + 1 .. Len(q) - 1
        BY <1>1, <2>4, <3>2
      <4> QED BY <2>3, <4>1
    <3> QED BY <3>1, <3>2
  <2>8. Len(p) <= Len(q)
    BY <1>1, <2>3, <2>4
  <2> QED BY <2>3, <2>5, <2>7, <2>8 DEF Ends
<1> QED BY <1>2, <1>3

-----------------------------------------------------------------------------
(* What a position comes to, as the best of its ends *)

Comes(t, f, v, p, d) ==
  /\ v \in Int
  /\ \E q \in Ends(t, p, d) : t.value[q][f] = v
  /\ \A q \in Ends(t, p, d) : t.value[q][f] <= v

LEMMA ComesIsWorth ==
  ASSUME NEW t, NEW f, NEW p, NEW d, NEW v, Comes(t, f, v, p, d),
         \A q \in Positions : t.value[q][f] \in Int
  PROVE  Worth(t, f, p, d) = v
<1> DEFINE S == {t.value[q][f] : q \in Ends(t, p, d)}
<1>1. S \subseteq Int
  BY DEF Ends
<1>2. v \in S /\ v \in Int
  BY DEF Comes
<1>3. \A x \in S : v >= x
  <2> TAKE x \in S
  <2>1. PICK q \in Ends(t, p, d) : x = t.value[q][f]
    OBVIOUS
  <2>2. t.value[q][f] <= v
    BY DEF Comes
  <2> QED BY <1>1, <1>2, <2>1, <2>2
<1> HIDE DEF S
<1>4. \A x \in S : (\A y \in S : x >= y) => x = v
  <2> SUFFICES ASSUME NEW x \in S, \A y \in S : x >= y PROVE x = v
    OBVIOUS
  <2>1. x >= v /\ v >= x /\ x \in Int
    BY <1>1, <1>2, <1>3
  <2> QED BY <1>2, <2>1
<1>5. Max(S) = v
  <2>1. Max(S) = CHOOSE x \in S : \A y \in S : x >= y
    BY DEF Max
  <2> QED BY <1>2, <1>3, <1>4, <2>1, Zenon
<1> QED BY <1>5 DEF Worth, S

LEMMA EndComes ==
  ASSUME SearchAssumption, NEW t, NEW f, NEW p \in Positions, NEW d, IsEnd(t, p, d),
         t.value[p][f] \in Int
  PROVE  Comes(t, f, t.value[p][f], p, d)
<1>1. Ends(t, p, d) = {p}
  BY EndsOfEnd
<1> DEFINE v == t.value[p][f]
<1>2. v <= v
  OBVIOUS
<1> QED BY <1>1, <1>2 DEF Comes

-----------------------------------------------------------------------------
(* What a level knows of the ways from where it stands: e is the level, p the *)
(* position, and the ways before limit have been looked at.                  *)

Seen(t, p, limit) == {b \in Ways(t, p) : b < limit}

Knows(t, f, e, p, limit, d) ==
  /\ e.has_branch <=> Seen(t, p, limit) # {}
  /\ Seen(t, p, limit) = {} => e.best_direction = NONE
  /\ Seen(t, p, limit) # {} =>
       /\ e.best_direction \in Seen(t, p, limit)
       /\ Comes(t, f, e.best_value, Append(p, e.best_direction), d)
  /\ \A c \in Seen(t, p, limit) :
       \E v \in Int :
         /\ Comes(t, f, v, Append(p, c), d) /\ v <= e.best_value
         /\ c < e.best_direction => v < e.best_value

LEMMA KnowsNothing ==
  ASSUME NEW t, NEW f, NEW p, NEW d, Ways(t, p) \subseteq 1 .. Branches
  PROVE  Knows(t, f, Opened, p, 1, d)
<1>1. Seen(t, p, 1) = {}
  BY DEF Seen
<1> QED BY <1>1 DEF Knows, Opened

\* A way is looked at: the better of the two stays, and the first of equals.
Updated(e, v) ==
  IF e.has_branch /\ v <= e.best_value THEN e
  ELSE [e EXCEPT !.has_branch = TRUE, !.best_value = v, !.best_direction = e.pending]

LEMMA SeenGrows ==
  ASSUME NEW t, NEW p, NEW b \in Int, Ways(t, p) \subseteq Int
  PROVE  /\ b \in Ways(t, p) => Seen(t, p, b + 1) = Seen(t, p, b) \cup {b}
         /\ b \notin Ways(t, p) => Seen(t, p, b + 1) = Seen(t, p, b)
BY DEF Seen

LEMMA KnowsMore ==
  ASSUME NEW t, NEW f, NEW e \in Level, NEW p, NEW d, NEW b \in Ways(t, p), Ways(t, p) \subseteq Int,
         e.pending = b, Knows(t, f, e, p, b, d),
         NEW v \in Int, Comes(t, f, v, Append(p, b), d)
  PROVE  Knows(t, f, Updated(e, v), p, b + 1, d)
<1>1. Seen(t, p, b + 1) = Seen(t, p, b) \cup {b} /\ b \in Int
  BY SeenGrows
<1>2. \A c \in Seen(t, p, b) : c \in Int /\ c < b
  BY DEF Seen
<1> DEFINE u == Updated(e, v)
<1>3. e.best_value \in Int /\ e.has_branch \in BOOLEAN
  BY DEF Level
<1>4. CASE e.has_branch /\ v <= e.best_value
  <2>1. u = e
    BY <1>4 DEF Updated
  <2>2. Seen(t, p, b) # {} /\ e.best_direction \in Seen(t, p, b)
        /\ Comes(t, f, e.best_value, Append(p, e.best_direction), d)
    BY <1>4 DEF Knows
  <2>3. ASSUME NEW c \in Seen(t, p, b + 1)
        PROVE  \E w \in Int : /\ Comes(t, f, w, Append(p, c), d) /\ w <= e.best_value
                              /\ c < e.best_direction => w < e.best_value
    <3>1. CASE c = b
      <4>1. e.best_direction < b /\ e.best_direction \in Int
        BY <1>2, <2>2
      <4>2. ~(c < e.best_direction)
        BY <1>1, <3>1, <4>1
      <4> QED BY <1>4, <3>1, <4>2
    <3>2. CASE c # b
      <4>1. c \in Seen(t, p, b)
        BY <1>1, <3>2
      <4> QED BY <4>1 DEF Knows
    <3> QED BY <3>1, <3>2
  <2>4. Knows(t, f, e, p, b + 1, d)
    BY <1>1, <1>4, <2>2, <2>3 DEF Knows
  <2> QED BY <2>1, <2>4
<1>5. CASE ~(e.has_branch /\ v <= e.best_value)
  <2>1. /\ u = [e EXCEPT !.has_branch = TRUE, !.best_value = v, !.best_direction = e.pending]
    BY <1>5 DEF Updated
  <2>2. u.has_branch /\ u.best_value = v /\ u.best_direction = b
    BY <2>1 DEF Level
  <2> HIDE DEF u
  <2>3. ASSUME NEW c \in Seen(t, p, b + 1)
        PROVE  \E w \in Int : /\ Comes(t, f, w, Append(p, c), d) /\ w <= v
                              /\ c < b => w < v
    <3>1. CASE c = b
      <4>1. v <= v /\ ~(b < b)
        BY <1>1
      <4> QED BY <3>1, <4>1
    <3>2. CASE c # b
      <4>1. c \in Seen(t, p, b)
        BY <1>1, <3>2
      <4>2. e.has_branch
        BY <4>1 DEF Knows
      <4>3. e.best_value < v
        BY <1>3, <1>5, <4>2
      <4>4. PICK w \in Int : Comes(t, f, w, Append(p, c), d) /\ w <= e.best_value
        BY <4>1 DEF Knows
      <4>5. w <= v /\ w < v
        BY <1>3, <4>3, <4>4
      <4> QED BY <4>4, <4>5
    <3> QED BY <3>1, <3>2
  <2>4. b \in Seen(t, p, b + 1) /\ Seen(t, p, b + 1) # {}
    BY <1>1
  <2>5. Knows(t, f, u, p, b + 1, d)
    BY <2>2, <2>3, <2>4 DEF Knows
  <2> QED BY <2>5 DEF u
<1> QED BY <1>4, <1>5

\* Knowledge is of the best found, not of where the level goes next.
LEMMA KnowsSame ==
  ASSUME NEW t, NEW f, NEW e, NEW g, NEW p, NEW limit, NEW d, Knows(t, f, e, p, limit, d),
         g.has_branch = e.has_branch, g.best_value = e.best_value,
         g.best_direction = e.best_direction
  PROVE  Knows(t, f, g, p, limit, d)
BY DEF Knows

LEMMA KnowsSkip ==
  ASSUME NEW t, NEW f, NEW e, NEW p, NEW d, NEW b \in Int, Ways(t, p) \subseteq Int, b \notin Ways(t, p),
         Knows(t, f, e, p, b, d)
  PROVE  Knows(t, f, e, p, b + 1, d)
<1>1. Seen(t, p, b + 1) = Seen(t, p, b)
  BY SeenGrows
<1> QED BY <1>1 DEF Knows

\* When all ways are looked at, the level knows what its position comes to.
LEMMA KnowsAll ==
  ASSUME SearchAssumption, NEW t, NEW f, NEW e \in Level, NEW p \in Positions, NEW d \in 1 .. MaxDepth,
         Len(p) < d, t.running[p], Ways(t, p) \subseteq 1 .. Branches,
         t.value[p][f] \in Int, \A q \in Positions : t.value[q][f] \in Int,
         Knows(t, f, e, p, Branches + 1, d)
  PROVE  Comes(t, f, IF e.has_branch THEN e.best_value ELSE t.value[p][f], p, d)
<1>1. Seen(t, p, Branches + 1) = Ways(t, p)
  BY DEF Seen, SearchAssumption
<1>2. CASE ~e.has_branch
  <2>1. Ways(t, p) = {}
    BY <1>1, <1>2 DEF Knows
  <2>2. IsEnd(t, p, d)
    BY <2>1 DEF IsEnd
  <2>3. Comes(t, f, t.value[p][f], p, d)
    BY <2>2, EndComes
  <2> QED BY <1>2, <2>3
<1>3. CASE e.has_branch
  <2>1. /\ Ways(t, p) # {} /\ e.best_direction \in Ways(t, p)
        /\ Comes(t, f, e.best_value, Append(p, e.best_direction), d)
    BY <1>1, <1>3 DEF Knows
  <2>2. ~IsEnd(t, p, d)
    <3>1. Len(p) \in Int /\ d \in Int
      BY PositionShape DEF SearchAssumption
    <3>2. ~(Len(p) >= d)
      BY <3>1
    <3> QED BY <2>1, <3>2 DEF IsEnd
  <2>3. /\ \A q \in Ends(t, p, d) : \E b \in Ways(t, p) : q \in Ends(t, Append(p, b), d)
        /\ \A b \in Ways(t, p) : Ends(t, Append(p, b), d) \subseteq Ends(t, p, d)
    BY <2>2, EndsBehind
  <2>4. e.best_value \in Int
    BY DEF Level
  <2>5. \E q \in Ends(t, p, d) : t.value[q][f] = e.best_value
    BY <2>1, <2>3 DEF Comes
  <2>6. ASSUME NEW q \in Ends(t, p, d) PROVE t.value[q][f] <= e.best_value
    <3>1. PICK b \in Ways(t, p) : q \in Ends(t, Append(p, b), d)
      BY <2>3
    <3>2. PICK v \in Int : Comes(t, f, v, Append(p, b), d) /\ v <= e.best_value
      BY <1>1, <3>1 DEF Knows
    <3>3. t.value[q][f] <= v
      BY <3>1, <3>2 DEF Comes
    <3>4. t.value[q][f] \in Int
      BY DEF Ends
    <3> QED BY <2>4, <3>2, <3>3, <3>4
  <2>7. Comes(t, f, e.best_value, p, d)
    BY <2>4, <2>5, <2>6 DEF Comes
  <2> QED BY <1>3, <2>7
<1> QED BY <1>2, <1>3

\* And, at the root, which way is best.
LEMMA KnowsBest ==
  ASSUME SearchAssumption, NEW t, NEW f, NEW e \in Level, NEW d \in 1 .. MaxDepth,
         Ways(t, <<>>) \subseteq 1 .. Branches, \A q \in Positions : t.value[q][f] \in Int,
         Knows(t, f, e, <<>>, Branches + 1, d), e.best_direction # NONE
  PROVE  IsBestWay(t, f, e.best_direction, d)
<1>1. Seen(t, <<>>, Branches + 1) = Ways(t, <<>>)
  BY DEF Seen, SearchAssumption
<1>2. /\ e.best_direction \in Ways(t, <<>>)
      /\ Comes(t, f, e.best_value, Append(<<>>, e.best_direction), d)
  BY <1>1 DEF Knows
<1>3. \A b : Append(<<>>, b) = <<b>>
  OBVIOUS
<1>4. Worth(t, f, <<e.best_direction>>, d) = e.best_value
  BY <1>2, <1>3, ComesIsWorth
<1>5. ASSUME NEW c \in Ways(t, <<>>)
      PROVE  \/ Worth(t, f, <<e.best_direction>>, d) > Worth(t, f, <<c>>, d)
             \/ Worth(t, f, <<e.best_direction>>, d) = Worth(t, f, <<c>>, d) /\ e.best_direction <= c
  <2>1. PICK v \in Int : /\ Comes(t, f, v, Append(<<>>, c), d) /\ v <= e.best_value
                         /\ c < e.best_direction => v < e.best_value
    BY <1>1 DEF Knows
  <2>2. Worth(t, f, <<c>>, d) = v
    BY <1>3, <2>1, ComesIsWorth
  <2>3. c \in Int /\ e.best_direction \in Int /\ e.best_value \in Int
    BY <1>2 DEF Level
  <2>4. e.best_value > v \/ (e.best_value = v /\ e.best_direction <= c)
    BY <2>1, <2>3
  <2> QED BY <1>4, <2>2, <2>4
<1> QED BY <1>2, <1>5 DEF IsBestWay

-----------------------------------------------------------------------------
(* What a whole stack knows *)

\* Where level n stands.
At(s, n) == [i \in 1 .. n - 1 |-> s[i].pending]

\* A level on the way to the one on top, which is looking behind its pending way.
OnTheWay(t, f, e, p, d) ==
  /\ Len(p) < d /\ t.running[p] /\ e.is_entered
  /\ e.pending \in Ways(t, p) /\ e.next = e.pending + 1
  /\ Knows(t, f, e, p, e.pending, d)

\* The level on top, which is between two ways.
OnTop(t, f, e, p, d) ==
  /\ e.is_entered => Len(p) < d /\ t.running[p]
  /\ ~e.is_entered => e = Opened
  /\ Knows(t, f, e, p, e.next, d)

StackKnows(t, f, s, d) ==
  /\ \A n \in 1 .. Len(s) - 1 : OnTheWay(t, f, s[n], At(s, n), d)
  /\ OnTop(t, f, s[Len(s)], At(s, Len(s)), d)

LEMMA AtSame ==
  ASSUME NEW s, NEW r, NEW n \in Nat,
         \A i \in 1 .. n - 1 : r[i].pending = s[i].pending
  PROVE  At(r, n) = At(s, n)
BY DEF At

LEMMA TopGoesOn ==
  ASSUME NEW t, NEW f, NEW d, NEW s \in Seq(Level), Len(s) > 0, StackKnows(t, f, s, d),
         NEW e \in Level, OnTop(t, f, e, At(s, Len(s)), d)
  PROVE  StackKnows(t, f, [s EXCEPT ![Len(s)] = e], d)
<1> DEFINE r == [s EXCEPT ![Len(s)] = e]
<1> DEFINE m == Len(s)
<1>1. m \in Nat /\ m \in 1 .. Len(s)
  BY LenProperties
<1>2. /\ r \in Seq(Level) /\ Len(r) = m
      /\ \A j \in 1 .. m : r[j] = IF j = m THEN e ELSE s[j]
  BY <1>1, ExceptSeq
<1>3. /\ \A n \in 1 .. m - 1 : OnTheWay(t, f, s[n], At(s, n), d)
      /\ OnTop(t, f, e, At(s, m), d)
  BY DEF StackKnows
<1> HIDE DEF m, r
<1>4. \A i \in 1 .. m - 1 : r[i] = s[i]
  <2> TAKE i \in 1 .. m - 1
  <2>1. i \in 1 .. m /\ i # m
    BY <1>1
  <2> QED BY <1>2, <2>1
<1>5. ASSUME NEW n \in 1 .. m PROVE At(r, n) = At(s, n)
  <2>1. \A i \in 1 .. n - 1 : i \in 1 .. m - 1
    BY <1>1
  <2>2. \A i \in 1 .. n - 1 : r[i].pending = s[i].pending
    BY <1>4, <2>1
  <2>3. n \in Nat
    BY <1>1
  <2> QED BY <2>2, <2>3, AtSame
<1>6. \A n \in 1 .. m - 1 : OnTheWay(t, f, r[n], At(r, n), d)
  <2> TAKE n \in 1 .. m - 1
  <2>1. n \in 1 .. m
    BY <1>1
  <2>2. r[n] = s[n] /\ At(r, n) = At(s, n)
    BY <1>4, <1>5, <2>1
  <2> QED BY <1>3, <2>2
<1>7. OnTop(t, f, r[m], At(r, m), d)
  <2>1. m \in 1 .. m
    BY <1>1 DEF m
  <2>2. r[m] = e
    BY <1>2, <2>1
  <2>3. At(r, m) = At(s, m)
    BY <1>5, <2>1
  <2> QED BY <1>3, <2>2, <2>3
<1>8. StackKnows(t, f, r, d)
  BY <1>2, <1>6, <1>7 DEF StackKnows
<1> QED BY <1>8 DEF r

\* A tree with a food field: what of its type the search needs.
IsFuture(t, f) ==
  \A q \in Positions : t.value[q][f] \in Int /\ Ways(t, q) \subseteq 1 .. Branches

LEMMA AtNext ==
  ASSUME NEW s, NEW n \in Nat
  PROVE  At(s, n + 1) = [i \in 1 .. n |-> s[i].pending]
<1>1. PICK k \in Nat : k = n + 1
  OBVIOUS
<1>2. k - 1 = n
  BY <1>1
<1>3. At(s, k) = [i \in 1 .. k - 1 |-> s[i].pending]
  BY DEF At
<1>4. At(s, k) = [i \in 1 .. n |-> s[i].pending]
  BY <1>2, <1>3, Zenon
<1> QED BY <1>1, <1>4, Zenon

LEMMA AtLength ==
  ASSUME SearchAssumption, NEW s, NEW n \in Nat \ {0}, At(s, n) \in Positions
  PROVE  Len(At(s, n)) = n - 1
<1> DEFINE p == At(s, n)
<1>1. PICK k \in Nat : p \in [1 .. k -> 1 .. Branches]
  <2>1. p \in Seq(1 .. Branches)
    BY PositionShape
  <2> QED BY <2>1, LenProperties
<1>2. 1 .. n - 1 = 1 .. k
  <2>1. DOMAIN p = 1 .. n - 1 /\ DOMAIN p = 1 .. k
    BY <1>1 DEF At
  <2> QED BY <2>1
<1>3. k = n - 1
  <2>1. n - 1 \in Nat /\ k \in Nat
    BY <1>1
  <2>2. \A i \in Nat : i \in 1 .. n - 1 <=> i \in 1 .. k
    BY <1>2
  <2>3. k <= n - 1
    <3>1. k = 0 \/ k \in 1 .. k
      BY <2>1
    <3> QED BY <2>1, <2>2, <3>1
  <2>4. n - 1 <= k
    <3>1. n - 1 = 0 \/ n - 1 \in 1 .. n - 1
      BY <2>1
    <3> QED BY <2>1, <2>2, <3>1
  <2> QED BY <2>1, <2>3, <2>4
<1>4. Len(p) = k
  BY <1>1, LenProperties, SeqDef
<1> QED BY <1>3, <1>4

LEMMA AtGrows ==
  ASSUME SearchAssumption, NEW s, NEW n \in 1 .. MaxDepth, At(s, n) \in Positions,
         s[n].pending \in 1 .. Branches
  PROVE  /\ Len(At(s, n)) = n - 1
         /\ At(s, n + 1) = Append(At(s, n), s[n].pending)
         /\ At(s, n + 1) \in Positions
<1> DEFINE p == At(s, n)
<1> DEFINE b == s[n].pending
<1> DEFINE q == Append(p, b)
<1>1. n \in Nat /\ n <= MaxDepth /\ MaxDepth \in Nat /\ n > 0
  BY DEF SearchAssumption
<1>2. Len(p) = n - 1
  BY <1>1, AtLength
<1>3. Len(p) < MaxDepth
  BY <1>1, <1>2
<1>4. /\ q \in Positions /\ Len(q) = n /\ q[n] = b
      /\ \A i \in 1 .. n - 1 : q[i] = p[i]
  <2>1. /\ q \in Positions /\ Len(q) = Len(p) + 1 /\ q[Len(p) + 1] = b
        /\ \A i \in 1 .. Len(p) : q[i] = p[i]
    BY <1>3, PositionGrows
  <2>2. Len(p) + 1 = n
    BY <1>1, <1>2
  <2> HIDE DEF p, b, q
  <2> QED BY <1>2, <2>1, <2>2
<1>5. \A i \in 1 .. n - 1 : p[i] = s[i].pending
  BY DEF At
<1>6. q \in [1 .. n -> 1 .. Branches]
  <2>1. q \in [1 .. Len(q) -> 1 .. Branches]
    BY <1>4, PositionShape
  <2> HIDE DEF q
  <2> QED BY <1>4, <2>1
<1> HIDE DEF q, p
<1>7. At(s, n + 1) = q
  <2>1. At(s, n + 1) = [i \in 1 .. n |-> s[i].pending]
    BY <1>1, AtNext
  <2>2. q = [i \in 1 .. n |-> q[i]]
    BY <1>6
  <2>3. \A i \in 1 .. n : q[i] = s[i].pending
    <3> TAKE i \in 1 .. n
    <3>1. CASE i = n
      BY <1>4, <3>1
    <3>2. CASE i # n
      <4>1. i \in 1 .. n - 1
        BY <1>1, <3>2
      <4> QED BY <1>4, <1>5, <4>1
    <3> QED BY <3>1, <3>2
  <2> QED BY <2>1, <2>2, <2>3
<1> QED BY <1>2, <1>4, <1>7 DEF p, q

LEMMA WayTaken ==
  ASSUME SearchAssumption, NEW t, NEW f, IsFuture(t, f), NEW d \in 1 .. MaxDepth,
         NEW s \in Seq(Level), Len(s) > 0, StackKnows(t, f, s, d),
         At(s, Len(s)) \in Positions,
         NEW e \in Level, OnTheWay(t, f, e, At(s, Len(s)), d)
  PROVE  StackKnows(t, f, Append([s EXCEPT ![Len(s)] = e], Opened), d)
<1> DEFINE m == Len(s)
<1> DEFINE p == At(s, m)
<1> DEFINE u == [s EXCEPT ![Len(s)] = e]
<1> DEFINE r == Append(u, Opened)
<1>1. m \in Nat /\ m \in 1 .. Len(s) /\ m > 0
  BY LenProperties
<1>2. /\ u \in Seq(Level) /\ Len(u) = m
      /\ \A j \in 1 .. m : u[j] = IF j = m THEN e ELSE s[j]
  BY <1>1, ExceptSeq
<1>3. \A n \in 1 .. m - 1 : OnTheWay(t, f, s[n], At(s, n), d)
  BY DEF StackKnows
<1>4. OnTheWay(t, f, e, p, d) /\ p \in Positions
  OBVIOUS
<1> HIDE DEF u
<1>5. /\ Len(r) = m + 1 /\ r[m + 1] = Opened
      /\ \A j \in 1 .. m : r[j] = u[j]
  BY <1>1, <1>2, OpenedTyped, AppendProperties
<1> HIDE DEF m, r
<1>6. \A i \in 1 .. m - 1 : r[i] = s[i]
  <2> TAKE i \in 1 .. m - 1
  <2>1. i \in 1 .. m /\ i # m
    BY <1>1
  <2> QED BY <1>2, <1>5, <2>1
<1>7. r[m] = e
  <2>1. m \in 1 .. m
    BY <1>1 DEF m
  <2> QED BY <1>2, <1>5, <2>1
<1>8. ASSUME NEW n \in 1 .. m PROVE At(r, n) = At(s, n)
  <2>1. \A i \in 1 .. n - 1 : i \in 1 .. m - 1
    BY <1>1
  <2>2. \A i \in 1 .. n - 1 : r[i].pending = s[i].pending
    BY <1>6, <2>1
  <2>3. n \in Nat
    BY <1>1
  <2> QED BY <2>2, <2>3, AtSame
<1>9. At(r, m) = p /\ m \in 1 .. m
  BY <1>1, <1>8
<1> HIDE DEF p
<1>10. \A n \in 1 .. m : OnTheWay(t, f, r[n], At(r, n), d)
  <2> TAKE n \in 1 .. m
  <2>1. CASE n = m
    BY <1>4, <1>7, <1>9, <2>1
  <2>2. CASE n # m
    <3>1. n \in 1 .. m - 1
      BY <1>1, <2>2
    <3>2. r[n] = s[n] /\ At(r, n) = At(s, n)
      BY <1>6, <1>8, <3>1
    <3> QED BY <1>3, <3>1, <3>2
  <2> QED BY <2>1, <2>2
<1>11. At(r, m + 1) \in Positions
  <2>1. e.pending \in 1 .. Branches
    BY <1>4 DEF OnTheWay, IsFuture
  <2>2. m <= MaxDepth
    <3>1. Len(p) < d /\ Len(p) \in Nat
      BY <1>4, PositionShape DEF OnTheWay, SearchAssumption
    <3>2. Len(p) = m - 1
      <4>1. m \in Nat \ {0} /\ At(s, m) \in Positions
        BY <1>1, <1>4 DEF p
      <4> QED BY <4>1, AtLength DEF p
    <3> QED BY <1>1, <3>1, <3>2 DEF SearchAssumption
  <2>3. m \in 1 .. MaxDepth
    BY <1>1, <2>2 DEF SearchAssumption
  <2> QED BY <1>4, <1>7, <1>9, <2>1, <2>3, AtGrows
<1>12. OnTop(t, f, r[m + 1], At(r, m + 1), d)
  <2>1. Ways(t, At(r, m + 1)) \subseteq 1 .. Branches
    BY <1>11 DEF IsFuture
  <2>2. Knows(t, f, Opened, At(r, m + 1), 1, d)
    BY <2>1, KnowsNothing
  <2>3. Opened.next = 1 /\ ~Opened.is_entered
    BY DEF Opened
  <2> QED BY <1>5, <2>2, <2>3 DEF OnTop
<1>13. StackKnows(t, f, r, d)
  <2>1. Len(r) = m + 1 /\ Len(r) - 1 = m
    BY <1>1, <1>5
  <2>2. \A n \in 1 .. Len(r) - 1 : OnTheWay(t, f, r[n], At(r, n), d)
    BY <1>10, <2>1, Zenon
  <2>3. OnTop(t, f, r[Len(r)], At(r, Len(r)), d)
    BY <1>12, <2>1, Zenon
  <2> QED BY <2>2, <2>3, Zenon DEF StackKnows
<1> QED BY <1>13 DEF r, u, m

LEMMA UpdatedSame ==
  ASSUME NEW e \in Level, NEW v \in Int
  PROVE  LET u == Updated(e, v)
         IN  u \in Level /\ u.next = e.next /\ u.is_entered = e.is_entered /\ u.pending = e.pending
<1> DEFINE u == [e EXCEPT !.has_branch = TRUE, !.best_value = v, !.best_direction = e.pending]
<1>1. u \in Level /\ u.next = e.next /\ u.is_entered = e.is_entered /\ u.pending = e.pending
  BY DEF Level
<1>2. Updated(e, v) = e \/ Updated(e, v) = u
  BY DEF Updated
<1> HIDE DEF u
<1> QED BY <1>1, <1>2

\* The level on top closes with what its position comes to, and r is left.
LEMMA WayLookedAt ==
  ASSUME SearchAssumption, NEW t, NEW f, IsFuture(t, f), NEW d \in 1 .. MaxDepth,
         NEW s \in Seq(Level), NEW m \in Nat \ {0}, Len(s) = m + 1, StackKnows(t, f, s, d),
         At(s, m) \in Positions,
         NEW v, Comes(t, f, v, At(s, m + 1), d),
         NEW r, Len(r) = m, \A i \in 1 .. m - 1 : r[i] = s[i], r[m] = Updated(s[m], v)
  PROVE  StackKnows(t, f, r, d)
<1> DEFINE p == At(s, m)
<1> DEFINE e == s[m]
<1>1. m \in Nat /\ m > 0 /\ m \in 1 .. m /\ m \in 1 .. Len(s) - 1 /\ e \in Level
  OBVIOUS
<1>2. \A n \in 1 .. m : OnTheWay(t, f, s[n], At(s, n), d)
  <2>1. Len(s) - 1 = m
    OBVIOUS
  <2> QED BY <2>1, Zenon DEF StackKnows
<1>3. ASSUME NEW n \in 1 .. m PROVE At(r, n) = At(s, n)
  <2>1. \A i \in 1 .. n - 1 : i \in 1 .. m - 1
    BY <1>1
  <2>2. \A i \in 1 .. n - 1 : r[i].pending = s[i].pending
    BY <2>1
  <2>3. n \in Nat
    BY <1>1
  <2> QED BY <2>2, <2>3, AtSame
<1>4. OnTheWay(t, f, e, p, d) /\ p \in Positions /\ Len(p) = m - 1
  BY <1>1, <1>2, AtLength
<1>5. e.pending \in Ways(t, p) /\ e.pending \in 1 .. Branches /\ Ways(t, p) \subseteq Int
  BY <1>4 DEF OnTheWay, IsFuture
<1>6. m \in 1 .. MaxDepth
  <2>1. m - 1 < d
    BY <1>4 DEF OnTheWay
  <2> QED BY <1>1, <2>1 DEF SearchAssumption
<1>7. At(s, m + 1) = Append(p, e.pending)
  BY <1>5, <1>6, AtGrows
<1> DEFINE u == Updated(e, v)
<1>8. v \in Int /\ Comes(t, f, v, Append(p, e.pending), d)
  BY <1>7 DEF Comes
<1>9. /\ u.next = e.next /\ u.is_entered = e.is_entered
  BY <1>1, <1>8, UpdatedSame
<1> HIDE DEF p, e
<1>10. Knows(t, f, u, p, e.pending + 1, d)
  <2>1. Knows(t, f, e, p, e.pending, d)
    BY <1>4 DEF OnTheWay
  <2> QED BY <1>1, <1>5, <1>8, <2>1, KnowsMore
<1> HIDE DEF u
<1>11. OnTop(t, f, u, p, d)
  <2>1. e.is_entered /\ Len(p) < d /\ t.running[p] /\ e.next = e.pending + 1
    BY <1>4 DEF OnTheWay
  <2> QED BY <1>9, <1>10, <2>1 DEF OnTop
<1>12. \A n \in 1 .. m - 1 : OnTheWay(t, f, r[n], At(r, n), d)
  <2> TAKE n \in 1 .. m - 1
  <2>1. n \in 1 .. m
    BY <1>1
  <2>2. r[n] = s[n] /\ At(r, n) = At(s, n)
    BY <1>3, <2>1
  <2> QED BY <1>2, <2>1, <2>2
<1>13. r[m] = u /\ At(r, m) = p
  BY <1>1, <1>3 DEF u, e, p
<1>14. OnTop(t, f, r[m], At(r, m), d)
  BY <1>11, <1>13
<1> QED BY <1>12, <1>14 DEF StackKnows

-----------------------------------------------------------------------------
(* The invariant behind CompleteIsBest *)

\* A deepening that nothing has spoilt knows of all it has looked at which way
\* is best, on every level.
CleanKnows ==
  is_deepening_active /\ ~is_truncated /\ ~is_cut /\ ~is_mixed
    => StackKnows(tree, field, level, target_depth)

\* A search with an answer to a depth counts as begun, so that a change of the
\* food field is seen to mix it.
AnsweredIsBegun == reached_depth > 0 => is_finished \/ target_depth > 1

BestInv == IInv /\ CleanKnows /\ CompleteIsBest /\ AnsweredIsBegun

LEMMA FutureTyped ==
  ASSUME SearchAssumption, TypeOK
  PROVE  IsFuture(tree, field)
<1>1. tree \in Tree /\ field \in 0 .. 1
  BY DEF TypeOK, SearchAssumption
<1> SUFFICES ASSUME NEW q \in Positions
             PROVE  tree.value[q][field] \in Int /\ Ways(tree, q) \subseteq 1 .. Branches
  BY DEF IsFuture
<1>2. tree.value[q] \in [0 .. 1 -> Int] /\ tree.open[q] \subseteq 1 .. Branches
  BY <1>1 DEF Tree
<1>3. tree.value[q][field] \in Int
  BY <1>1, <1>2
<1>4. Ways(tree, q) \subseteq 1 .. Branches
  BY <1>2 DEF Ways
<1> QED BY <1>3, <1>4

\* What an answer rests on is left alone.
LEMMA AnswerStays ==
  ASSUME BestInv, tree' = tree, field' = field, is_mixed' = is_mixed,
         UNCHANGED answer, target_depth' = target_depth, is_finished' = is_finished
  PROVE  CompleteIsBest' /\ AnsweredIsBegun'
<1>1. best' = best /\ reached_depth' = reached_depth /\ is_best_cut' = is_best_cut
  BY DEF answer
<1>2. CompleteIsBest'
  BY <1>1 DEF BestInv, CompleteIsBest
<1>3. AnsweredIsBegun'
  BY <1>1 DEF BestInv, AnsweredIsBegun
<1> QED BY <1>2, <1>3

LEMMA BestStart == ASSUME SearchAssumption, Init PROVE BestInv
<1>1. IInv
  BY Start
<1>2. CleanKnows /\ CompleteIsBest /\ AnsweredIsBegun
  BY DEF Init, CleanKnows, CompleteIsBest, AnsweredIsBegun
<1> QED BY <1>1, <1>2 DEF BestInv

LEMMA BestRestart == ASSUME SearchAssumption, BestInv, Restart, IInv' PROVE BestInv'
<1>1. CleanKnows' /\ CompleteIsBest' /\ AnsweredIsBegun'
  BY DEF Restart, CleanKnows, CompleteIsBest, AnsweredIsBegun
<1> QED BY <1>1 DEF BestInv

LEMMA BestThink == ASSUME SearchAssumption, BestInv, Think, IInv' PROVE BestInv'
<1>1. /\ UNCHANGED <<tree, budget, ticks_left, level, deepening, is_finished, answer>>
      /\ AdvanceFoodField
  BY DEF Think
<1>2. UNCHANGED <<tree, level, target_depth, is_deepening_active, is_truncated, is_cut,
                 is_finished, best, reached_depth, is_best_cut>>
  BY <1>1 DEF deepening, answer
<1>3. ASSUME ~is_mixed', is_deepening_active \/ target_depth > 1 \/ is_finished
      PROVE  ~is_mixed /\ field' = field
  BY <1>1, <1>3 DEF AdvanceFoodField
<1>4. CleanKnows'
  <2> SUFFICES ASSUME is_deepening_active', ~is_truncated', ~is_cut', ~is_mixed'
               PROVE  StackKnows(tree', field', level', target_depth')
    BY DEF CleanKnows
  <2>1. ~is_mixed /\ field' = field
    BY <1>2, <1>3
  <2>2. StackKnows(tree, field, level, target_depth)
    BY <1>2, <2>1 DEF BestInv, CleanKnows
  <2> QED BY <1>2, <2>1, <2>2
<1>5. CompleteIsBest'
  <2> SUFFICES ASSUME reached_depth' > 0, ~is_best_cut', ~is_mixed'
               PROVE  IsBestWay(tree', field', best', reached_depth')
    BY DEF CompleteIsBest
  <2>1. reached_depth > 0 /\ ~is_best_cut
    BY <1>2
  <2>2. is_finished \/ target_depth > 1
    BY <2>1 DEF BestInv, AnsweredIsBegun
  <2>3. ~is_mixed /\ field' = field
    BY <1>3, <2>2
  <2>4. IsBestWay(tree, field, best, reached_depth)
    BY <2>1, <2>3 DEF BestInv, CompleteIsBest
  <2> QED BY <1>2, <2>3, <2>4
<1>6. AnsweredIsBegun'
  BY <1>2 DEF BestInv, AnsweredIsBegun
<1> QED BY <1>4, <1>5, <1>6 DEF BestInv

LEMMA WhereItStands ==
  ASSUME SearchAssumption, IInv
  PROVE  /\ level \in Seq(Level) /\ Len(level) = top + 1 /\ top \in Nat
         /\ At(level, top + 1) = position /\ position \in Positions /\ Len(position) = top
         /\ Now \in Level /\ target_depth \in 1 .. MaxDepth
         /\ IsFuture(tree, field)
         /\ StackKnows(tree, field, level, target_depth)
              => OnTop(tree, field, Now, position, target_depth)
<1>1. TypeOK /\ StackAgrees
  BY DEF IInv
<1>2. /\ level \in Seq(Level) /\ Len(level) = top + 1 /\ top \in Nat
      /\ Now \in Level /\ target_depth \in 1 .. MaxDepth
  BY <1>1, StackShape DEF TypeOK
<1>3. /\ position \in Positions /\ Len(position) = top
      /\ IsFuture(tree, field)
  BY <1>1, PositionTyped, FutureTyped
<1>4. At(level, top + 1) = position
  <2>1. At(level, top + 1) = [i \in 1 .. top |-> level[i].pending]
    BY <1>2, AtNext
  <2> QED BY <2>1, Zenon DEF position
<1>5. StackKnows(tree, field, level, target_depth)
        => OnTop(tree, field, Now, position, target_depth)
  <2>1. Now = level[Len(level)] /\ position = At(level, Len(level))
    BY <1>2, <1>4 DEF Now
  <2> QED BY <2>1 DEF StackKnows
<1> QED BY <1>2, <1>3, <1>4, <1>5

\* The level on top goes on to e.
LEMMA CleanGoesOn ==
  ASSUME SearchAssumption, BestInv, tree' = tree, field' = field,
         target_depth' = target_depth, NEW e \in Level,
         level' = [level EXCEPT ![top + 1] = e],
         StackKnows(tree, field, level, target_depth),
         OnTop(tree, field, e, position, target_depth)
  PROVE  StackKnows(tree', field', level', target_depth')
<1>1. /\ level \in Seq(Level) /\ Len(level) = top + 1 /\ top \in Nat
      /\ At(level, top + 1) = position
  BY WhereItStands DEF BestInv
<1>2. Len(level) > 0 /\ position = At(level, Len(level))
      /\ level' = [level EXCEPT ![Len(level)] = e]
  BY <1>1
<1>3. StackKnows(tree, field, [level EXCEPT ![Len(level)] = e], target_depth)
  <2>1. OnTop(tree, field, e, At(level, Len(level)), target_depth)
    BY <1>2
  <2> QED BY <1>1, <1>2, <2>1, TopGoesOn
<1> QED BY <1>2, <1>3

LEMMA BestBegin == ASSUME SearchAssumption, BestInv, BeginDeepening, IInv' PROVE BestInv'
<1>1. /\ level' = <<Opened>>
      /\ UNCHANGED <<tree, target_depth, is_finished, answer, food>>
  BY DEF BeginDeepening
<1>2. field' = field /\ is_mixed' = is_mixed
  BY <1>1 DEF food
<1>3. CompleteIsBest' /\ AnsweredIsBegun'
  BY <1>1, <1>2, AnswerStays
<1>4. StackKnows(tree, field, <<Opened>>, target_depth)
  <2> DEFINE s == <<Opened>>
  <2>1. Len(s) = 1 /\ s[1] = Opened
    OBVIOUS
  <2>2. At(s, 1) = <<>>
    <3>1. At(s, 1) = [i \in 1 .. 0 |-> s[i].pending]
      BY DEF At
    <3>2. At(s, 1) \in [1 .. 0 -> {s[i].pending : i \in 1 .. 0}]
      BY <3>1
    <3> QED BY <3>2, EmptySeq, LenProperties, SeqDef
  <2>3. <<>> \in Positions
    <3>1. <<>> \in [1 .. 0 -> 1 .. Branches]
      BY EmptySeq, LenProperties
    <3> QED BY <3>1 DEF Positions, SearchAssumption
  <2>4. Ways(tree, <<>>) \subseteq 1 .. Branches
    BY <2>3, WhereItStands DEF BestInv, IsFuture
  <2>5. Knows(tree, field, Opened, <<>>, 1, target_depth)
    BY <2>4, KnowsNothing
  <2>6. OnTop(tree, field, Opened, <<>>, target_depth)
    BY <2>5 DEF OnTop, Opened
  <2> HIDE DEF s
  <2>7. OnTop(tree, field, s[Len(s)], At(s, Len(s)), target_depth)
    BY <2>1, <2>2, <2>6
  <2>8. \A n \in 1 .. Len(s) - 1 : OnTheWay(tree, field, s[n], At(s, n), target_depth)
    BY <2>1
  <2> QED BY <2>7, <2>8 DEF StackKnows, s
<1>5. CleanKnows'
  BY <1>1, <1>2, <1>4 DEF CleanKnows
<1> QED BY <1>3, <1>5 DEF BestInv

LEMMA BestEnter == ASSUME SearchAssumption, BestInv, Enter, IInv' PROVE BestInv'
<1> DEFINE e == [Now EXCEPT !.is_entered = TRUE]
<1>1. /\ UNCHANGED <<tree, budgets, pc, deepening, is_finished, answer, food>>
      /\ ~Now.is_entered /\ ~IsLeaf
      /\ level' = [level EXCEPT ![top + 1].is_entered = TRUE]
  BY DEF Enter
<1>2. /\ field' = field /\ is_mixed' = is_mixed /\ target_depth' = target_depth
      /\ is_deepening_active' = is_deepening_active /\ is_truncated' = is_truncated
      /\ is_cut' = is_cut /\ tree' = tree
  BY <1>1 DEF food, deepening
<1>3. CompleteIsBest' /\ AnsweredIsBegun'
  BY <1>1, <1>2, AnswerStays
<1>4. level' = [level EXCEPT ![top + 1] = e]
  BY <1>1 DEF Now
<1>5. CleanKnows'
  <2> SUFFICES ASSUME is_deepening_active', ~is_truncated', ~is_cut', ~is_mixed'
               PROVE  StackKnows(tree', field', level', target_depth')
    BY DEF CleanKnows
  <2>1. StackKnows(tree, field, level, target_depth)
    BY <1>2 DEF BestInv, CleanKnows
  <2>2. /\ OnTop(tree, field, Now, position, target_depth) /\ Now \in Level
        /\ Len(position) = top /\ top \in Nat /\ target_depth \in 1 .. MaxDepth
    BY <2>1, WhereItStands DEF BestInv
  <2>3. Len(position) < target_depth /\ tree.running[position]
    BY <1>1, <2>2 DEF IsLeaf, SearchAssumption
  <2>4. /\ e \in Level /\ e.is_entered /\ e.next = Now.next
        /\ e.has_branch = Now.has_branch /\ e.best_value = Now.best_value
        /\ e.best_direction = Now.best_direction
    BY <2>2 DEF Level
  <2> HIDE DEF e
  <2>5. Knows(tree, field, e, position, e.next, target_depth)
    <3>1. Knows(tree, field, Now, position, e.next, target_depth)
      BY <2>2, <2>4 DEF OnTop
    <3> QED BY <2>4, <3>1, KnowsSame
  <2>6. OnTop(tree, field, e, position, target_depth)
    BY <2>3, <2>4, <2>5 DEF OnTop
  <2> QED BY <1>2, <1>4, <2>1, <2>4, <2>6, CleanGoesOn DEF e
<1> QED BY <1>3, <1>5 DEF BestInv

\* The next branch of an entered level that is no way out is passed over.
LEMMA PassedOver ==
  ASSUME SearchAssumption, BestInv, NEW b \in 1 .. Branches, AtBranch(b),
         b \notin Ways(tree, position),
         StackKnows(tree, field, level, target_depth)
  PROVE  /\ [Now EXCEPT !.next = b + 1] \in Level
         /\ OnTop(tree, field, [Now EXCEPT !.next = b + 1], position, target_depth)
<1> DEFINE e == [Now EXCEPT !.next = b + 1]
<1>1. /\ OnTop(tree, field, Now, position, target_depth) /\ Now \in Level
      /\ IsFuture(tree, field) /\ position \in Positions
  BY WhereItStands DEF BestInv
<1>2. Now.is_entered /\ Now.next = b
  BY DEF AtBranch
<1>3. /\ e \in Level /\ e.next = b + 1 /\ e.is_entered = Now.is_entered
      /\ e.has_branch = Now.has_branch /\ e.best_value = Now.best_value
      /\ e.best_direction = Now.best_direction
  BY <1>1 DEF Level, SearchAssumption
<1> HIDE DEF e
<1>4. Ways(tree, position) \subseteq Int
  BY <1>1 DEF IsFuture
<1>5. Knows(tree, field, Now, position, b + 1, target_depth)
  <2>1. Knows(tree, field, Now, position, b, target_depth)
    BY <1>1, <1>2 DEF OnTop
  <2> QED BY <1>4, <2>1, KnowsSkip
<1>6. Knows(tree, field, e, position, b + 1, target_depth)
  BY <1>3, <1>5, KnowsSame
<1>7. OnTop(tree, field, e, position, target_depth)
  BY <1>1, <1>2, <1>3, <1>6 DEF OnTop
<1> QED BY <1>3, <1>7 DEF e

LEMMA BestWall == ASSUME SearchAssumption, BestInv, Wall, IInv' PROVE BestInv'
<1>1. PICK b \in (1 .. Branches) \ tree.open[position] : AtBranch(b)
  BY DEF Wall
<1> DEFINE e == [Now EXCEPT !.next = b + 1]
<1>2. /\ UNCHANGED <<tree, budgets, pc, deepening, is_finished, answer, food>>
      /\ level' = [level EXCEPT ![top + 1].next = @ + 1]
  BY DEF Wall
<1>3. /\ field' = field /\ is_mixed' = is_mixed /\ target_depth' = target_depth
      /\ is_deepening_active' = is_deepening_active /\ is_truncated' = is_truncated
      /\ is_cut' = is_cut /\ tree' = tree
  BY <1>2 DEF food, deepening
<1>4. CompleteIsBest' /\ AnsweredIsBegun'
  BY <1>2, <1>3, AnswerStays
<1>5. level' = [level EXCEPT ![top + 1] = e]
  BY <1>1, <1>2 DEF Now, AtBranch
<1>6. CleanKnows'
  <2> SUFFICES ASSUME is_deepening_active', ~is_truncated', ~is_cut', ~is_mixed'
               PROVE  StackKnows(tree', field', level', target_depth')
    BY DEF CleanKnows
  <2>1. StackKnows(tree, field, level, target_depth)
    BY <1>3 DEF BestInv, CleanKnows
  <2>2. b \notin Ways(tree, position) /\ b \in 1 .. Branches
    BY <1>1 DEF Ways
  <2>3. e \in Level /\ OnTop(tree, field, e, position, target_depth)
    BY <1>1, <2>1, <2>2, PassedOver
  <2> HIDE DEF e
  <2> QED BY <1>3, <1>5, <2>1, <2>3, CleanGoesOn
<1> QED BY <1>4, <1>6 DEF BestInv

LEMMA BestOutOfBudget == ASSUME SearchAssumption, BestInv, OutOfBudget, IInv' PROVE BestInv'
<1>1. /\ UNCHANGED <<tree, target_depth, is_finished, answer, food>>
      /\ is_truncated' = TRUE
  BY DEF OutOfBudget
<1>2. field' = field /\ is_mixed' = is_mixed
  BY <1>1 DEF food
<1>3. CompleteIsBest' /\ AnsweredIsBegun'
  BY <1>1, <1>2, AnswerStays
<1>4. CleanKnows'
  BY <1>1 DEF CleanKnows
<1> QED BY <1>3, <1>4 DEF BestInv

LEMMA BestKept ==
  ASSUME SearchAssumption, BestInv, IInv',
         UNCHANGED <<tree, level, deepening, is_finished, answer, food>>
  PROVE  BestInv'
<1>1. /\ field' = field /\ is_mixed' = is_mixed /\ target_depth' = target_depth
      /\ is_deepening_active' = is_deepening_active /\ is_truncated' = is_truncated
      /\ is_cut' = is_cut /\ tree' = tree /\ level' = level
  BY DEF food, deepening
<1>2. CompleteIsBest' /\ AnsweredIsBegun'
  BY <1>1, AnswerStays
<1>3. CleanKnows'
  BY <1>1 DEF BestInv, CleanKnows
<1> QED BY <1>2, <1>3 DEF BestInv

LEMMA BestLeg == ASSUME SearchAssumption, BestInv, Leg, IInv' PROVE BestInv'
<1>1. PICK b \in tree.open[position] :
        /\ AtBranch(b)
        /\ LET to    == Append(position, b)
               spent == Spent(to)
           IN  /\ is_cut' = (is_cut \/ spent < tree.ticks[to])
               /\ IF spent < tree.first[to]
                  THEN level' = [level EXCEPT ![top + 1].next = b + 1]
                  ELSE level' = Append([level EXCEPT ![top + 1].next = b + 1,
                                                     ![top + 1].pending = b], Opened)
  BY DEF Leg
<1>2. /\ is_truncated' = is_truncated
      /\ UNCHANGED <<tree, budget, pc, target_depth, is_deepening_active,
                     is_truncated, is_finished, answer, food>>
  BY DEF Leg
<1>3. field' = field /\ is_mixed' = is_mixed
  BY <1>2 DEF food
<1>4. CompleteIsBest' /\ AnsweredIsBegun'
  BY <1>2, <1>3, AnswerStays
<1>5. CleanKnows'
  <2> SUFFICES ASSUME is_deepening_active', ~is_truncated', ~is_cut', ~is_mixed'
               PROVE  StackKnows(tree', field', level', target_depth')
    BY DEF CleanKnows
  <2> DEFINE to == Append(position, b)
  <2>1. ~is_cut /\ ~(Spent(to) < tree.ticks[to])
    BY <1>1
  <2>2. StackKnows(tree, field, level, target_depth)
    BY <1>2, <1>3, <2>1 DEF BestInv, CleanKnows
  <2>3. /\ OnTop(tree, field, Now, position, target_depth) /\ Now \in Level
        /\ Len(position) = top /\ top \in Nat /\ target_depth \in 1 .. MaxDepth
        /\ position \in Positions /\ IsFuture(tree, field)
        /\ level \in Seq(Level) /\ Len(level) = top + 1 /\ At(level, top + 1) = position
    BY <2>2, WhereItStands DEF BestInv
  <2>4. Now.is_entered /\ Now.next = b /\ b <= Branches
    BY <1>1 DEF AtBranch
  <2>5. b \in 1 .. Branches
    <3>1. TypeOK /\ StackAgrees
      BY DEF BestInv, IInv
    <3> QED BY <3>1, TreeTyped
  <2>6. tree.ticks[to] \in Nat /\ tree.first[to] \in Nat /\ ticks_left \in Nat
    <3>1. TypeOK /\ tree \in Tree
      BY DEF BestInv, IInv, TypeOK, SearchAssumption
    <3>2. Len(position) < target_depth
      BY <2>3, <2>4 DEF OnTop
    <3>3. Len(position) < MaxDepth
      BY <2>3, <3>2 DEF SearchAssumption
    <3>4. to \in Positions
      BY <2>3, <2>5, <3>3, PositionGrows
    <3> HIDE DEF to
    <3> QED BY <3>1, <3>4 DEF Tree, TypeOK
  <2>7. b \in Ways(tree, position) <=> ~(Spent(to) < tree.first[to])
    <3> HIDE DEF to
    <3>1. Spent(to) = tree.ticks[to]
      BY <2>1, <2>6 DEF Spent
    <3>2. b \in Ways(tree, position) <=> tree.first[to] <= tree.ticks[to]
      BY <1>1 DEF Ways, to
    <3> QED BY <2>6, <3>1, <3>2
  <2> HIDE DEF to
  <2> DEFINE skipped == [Now EXCEPT !.next = b + 1]
  <2> DEFINE taken == [skipped EXCEPT !.pending = b]
  <2>8. CASE b \notin Ways(tree, position)
    <3>1. level' = [level EXCEPT ![top + 1].next = b + 1]
      BY <1>1, <2>7, <2>8 DEF to
    <3>2. level' = [level EXCEPT ![top + 1] = skipped]
      BY <3>1 DEF Now
    <3>3. skipped \in Level /\ OnTop(tree, field, skipped, position, target_depth)
      BY <1>1, <2>2, <2>5, <2>8, PassedOver
    <3> HIDE DEF skipped
    <3> QED BY <1>2, <1>3, <2>2, <3>2, <3>3, CleanGoesOn
  <2>9. CASE b \in Ways(tree, position)
    <3>1. level' = Append([level EXCEPT ![top + 1].next = b + 1,
                                        ![top + 1].pending = b], Opened)
      BY <1>1, <2>7, <2>9 DEF to
    <3>2. [level EXCEPT ![top + 1].next = b + 1, ![top + 1].pending = b]
            = [level EXCEPT ![top + 1] = taken]
      <4>1. level \in [1 .. Len(level) -> Level] /\ top + 1 \in 1 .. Len(level)
        BY <2>3, LenProperties
      <4> QED BY <4>1 DEF Now
    <3>3. /\ taken \in Level /\ taken.pending = b /\ taken.next = b + 1
          /\ taken.is_entered = Now.is_entered
          /\ taken.has_branch = Now.has_branch /\ taken.best_value = Now.best_value
          /\ taken.best_direction = Now.best_direction
      <4>1. /\ skipped \in Level /\ skipped.next = b + 1
            /\ skipped.is_entered = Now.is_entered
            /\ skipped.has_branch = Now.has_branch /\ skipped.best_value = Now.best_value
            /\ skipped.best_direction = Now.best_direction
        <5>1. Now \in Level /\ b + 1 \in 1 .. Branches + 1
          BY <2>3, <2>5 DEF SearchAssumption
        <5> QED BY <5>1 DEF Level
      <4>2. b \in 0 .. Branches
        BY <2>5
      <4> HIDE DEF skipped
      <4> QED BY <4>1, <4>2 DEF Level
    <3> HIDE DEF taken
    <3>4. Knows(tree, field, taken, position, b, target_depth)
      <4>1. Knows(tree, field, Now, position, b, target_depth)
        BY <2>3, <2>4 DEF OnTop
      <4> QED BY <3>3, <4>1, KnowsSame
    <3>5. OnTheWay(tree, field, taken, position, target_depth)
      <4>1. Len(position) < target_depth /\ tree.running[position]
        BY <2>3, <2>4 DEF OnTop
      <4> QED BY <2>4, <2>9, <3>3, <3>4, <4>1 DEF OnTheWay
    <3>6. StackKnows(tree, field, Append([level EXCEPT ![Len(level)] = taken], Opened), target_depth)
      <4>1. Len(level) > 0 /\ At(level, Len(level)) = position
        BY <2>3
      <4>2. OnTheWay(tree, field, taken, At(level, Len(level)), target_depth)
        BY <3>5, <4>1
      <4>3. At(level, Len(level)) \in Positions
        BY <2>3, <4>1
      <4> QED BY <2>2, <2>3, <3>3, <4>1, <4>2, <4>3, WayTaken
    <3>7. level' = Append([level EXCEPT ![Len(level)] = taken], Opened)
      BY <2>3, <3>1, <3>2
    <3> QED BY <1>2, <1>3, <3>6, <3>7
  <2> QED BY <2>8, <2>9
<1> QED BY <1>4, <1>5 DEF BestInv

\* A level closes with a value, and a deepening with an answer.
LEMMA BestClose ==
  ASSUME SearchAssumption, BestInv, IInv', is_deepening_active,
         NEW value \in Int, NEW truncated \in BOOLEAN, CloseLevel(value, truncated),
         is_truncated => truncated,
         ~truncated /\ ~is_cut /\ ~is_mixed
           => Comes(tree, field, value, position, target_depth),
         top = 0 /\ ~truncated /\ ~is_cut /\ ~is_mixed /\ Root.best_direction # NONE
           => IsBestWay(tree, field, Root.best_direction, target_depth)
  PROVE  BestInv'
<1>1. /\ is_truncated' = truncated
      /\ UNCHANGED <<tree, budgets, pc, is_cut, food>>
  BY DEF CloseLevel
<1>2. field' = field /\ is_mixed' = is_mixed /\ tree' = tree /\ is_cut' = is_cut
  BY <1>1 DEF food
<1>3. /\ level \in Seq(Level) /\ Len(level) = top + 1 /\ top \in Nat
      /\ At(level, top + 1) = position /\ position \in Positions /\ Len(position) = top
      /\ target_depth \in 1 .. MaxDepth /\ IsFuture(tree, field)
  BY WhereItStands DEF BestInv
<1>4. CASE top = 0 /\ CloseDeepening(truncated) /\ UNCHANGED level
  <2>1. CleanKnows'
    BY <1>4 DEF CloseDeepening, CleanKnows
  <2>2. CASE truncated
    <3>1. /\ best' = (IF best = NONE THEN Root.best_direction ELSE best)
          /\ is_finished' = TRUE
          /\ UNCHANGED <<target_depth, reached_depth, is_best_cut>>
      BY <1>4, <2>2 DEF CloseDeepening
    <3>2. CompleteIsBest'
      <4> SUFFICES ASSUME reached_depth' > 0, ~is_best_cut', ~is_mixed'
                   PROVE  IsBestWay(tree', field', best', reached_depth')
        BY DEF CompleteIsBest
      <4>1. IsBestWay(tree, field, best, reached_depth)
        BY <1>2, <3>1 DEF BestInv, CompleteIsBest
      <4>2. best \in 1 .. Branches
        <5>1. <<>> \in Positions
          BY <1>3, <1>4, PositionTyped DEF BestInv, IInv
        <5> QED BY <1>3, <4>1, <5>1 DEF IsBestWay, IsFuture
      <4>3. best' = best
        BY <3>1, <4>2 DEF NONE
      <4> QED BY <1>2, <3>1, <4>1, <4>3
    <3>3. AnsweredIsBegun'
      BY <3>1 DEF AnsweredIsBegun
    <3> QED BY <2>1, <3>2, <3>3 DEF BestInv
  <2>3. CASE ~truncated
    <3>1. /\ IF Root.best_direction # NONE
             THEN /\ best' = Root.best_direction
                  /\ reached_depth' = target_depth /\ is_best_cut' = is_cut
             ELSE UNCHANGED answer
          /\ is_finished' = (target_depth >= MaxDepth)
          /\ target_depth' = IF is_finished' THEN target_depth ELSE target_depth + 1
      BY <1>4, <2>3 DEF CloseDeepening
    <3>2. CompleteIsBest'
      <4>1. CASE Root.best_direction # NONE
        <5>1. /\ best' = Root.best_direction
              /\ reached_depth' = target_depth /\ is_best_cut' = is_cut
          BY <3>1, <4>1
        <5> QED BY <1>2, <1>4, <2>3, <4>1, <5>1 DEF CompleteIsBest
      <4>2. CASE Root.best_direction = NONE
        <5>1. best' = best /\ reached_depth' = reached_depth /\ is_best_cut' = is_best_cut
          BY <3>1, <4>2 DEF answer
        <5> QED BY <1>2, <5>1 DEF BestInv, CompleteIsBest
      <4> QED BY <4>1, <4>2
    <3>3. AnsweredIsBegun'
      <4>1. CASE is_finished'
        BY <4>1 DEF AnsweredIsBegun
      <4>2. CASE ~is_finished'
        <5>1. target_depth' = target_depth + 1
          BY <3>1, <4>2
        <5>2. target_depth' > 1
          BY <1>3, <5>1 DEF SearchAssumption
        <5> QED BY <5>2 DEF AnsweredIsBegun
      <4> QED BY <4>1, <4>2
    <3> QED BY <2>1, <3>2, <3>3 DEF BestInv
  <2> QED BY <2>2, <2>3
<1>5. CASE top > 0
  <2> DEFINE parent == level[top]
  <2> DEFINE u == Updated(parent, value)
  <2>1. /\ level' = [Front(level) EXCEPT ![top] = u]
        /\ UNCHANGED <<target_depth, is_deepening_active, is_finished, answer>>
    <3>1. top # 0
      BY <1>5
    <3>2. /\ level' = [Front(level) EXCEPT ![top] =
                 IF parent.has_branch /\ value <= parent.best_value THEN parent
                 ELSE [parent EXCEPT !.has_branch = TRUE, !.best_value = value,
                                     !.best_direction = parent.pending]]
          /\ UNCHANGED <<target_depth, is_deepening_active, is_finished, answer>>
      BY <3>1, Zenon DEF CloseLevel
    <3> QED BY <3>2, Zenon DEF Updated
  <2>2. CompleteIsBest' /\ AnsweredIsBegun'
    BY <1>2, <2>1, AnswerStays
  <2>3. CleanKnows'
    <3> SUFFICES ASSUME is_deepening_active', ~is_truncated', ~is_cut', ~is_mixed'
                 PROVE  StackKnows(tree', field', level', target_depth')
      BY DEF CleanKnows
    <3>1. ~truncated /\ ~is_truncated /\ ~is_cut /\ ~is_mixed
      BY <1>1, <1>2
    <3>2. StackKnows(tree, field, level, target_depth)
      BY <3>1 DEF BestInv, CleanKnows
    <3>3. Comes(tree, field, value, At(level, top + 1), target_depth)
      BY <1>3, <3>1
    <3>4. top \in Nat \ {0} /\ parent \in Level
      BY <1>3, <1>5
    <3>5. At(level, top) \in Positions
      <4>1. OnTheWay(tree, field, level[top], At(level, top), target_depth)
        BY <1>3, <3>2, <3>4 DEF StackKnows
      <4>2. At(level, top) = [i \in 1 .. top - 1 |-> position[i]]
        BY <1>3, <3>4 DEF At, position
      <4>3. position \in [1 .. top -> 1 .. Branches] /\ top - 1 \in 0 .. MaxDepth
        BY <1>3, <3>4, PositionShape DEF SearchAssumption
      <4>4. At(level, top) \in [1 .. top - 1 -> 1 .. Branches]
        BY <3>4, <4>2, <4>3
      <4> QED BY <4>3, <4>4, PositionMade
    <3>6. /\ Front(level) \in Seq(Level) /\ Len(Front(level)) = top
          /\ \A n \in 1 .. top : Front(level)[n] = level[n]
      <4>1. Front(level) = SubSeq(level, 1, top)
        BY <1>3 DEF Front
      <4>2. /\ SubSeq(level, 1, top) \in Seq(Level)
            /\ Len(SubSeq(level, 1, top)) = IF 1 <= top THEN top - 1 + 1 ELSE 0
            /\ \A i \in 1 .. top - 1 + 1 : SubSeq(level, 1, top)[i] = level[1 + i - 1]
        BY <1>3, <3>4, SubSeqProperties
      <4> QED BY <3>4, <4>1, <4>2
    <3>7. u \in Level
      BY <3>4, UpdatedSame
    <3> HIDE DEF u, parent
    <3>8. /\ Len(level') = top
          /\ \A n \in 1 .. top : level'[n] = IF n = top THEN u ELSE level[n]
      <4>1. top \in 1 .. Len(Front(level))
        BY <3>4, <3>6
      <4>2. /\ Len([Front(level) EXCEPT ![top] = u]) = Len(Front(level))
            /\ \A j \in 1 .. Len(Front(level)) :
                 [Front(level) EXCEPT ![top] = u][j] = IF j = top THEN u ELSE Front(level)[j]
        BY <3>6, <3>7, <4>1, ExceptSeq
      <4> QED BY <2>1, <3>6, <4>2
    <3>9. level'[top] = Updated(level[top], value) /\ \A i \in 1 .. top - 1 : level'[i] = level[i]
      <4>1. top \in 1 .. top /\ \A i \in 1 .. top - 1 : i \in 1 .. top /\ i # top
        BY <3>4
      <4> QED BY <3>8, <4>1 DEF u, parent
    <3>10. StackKnows(tree, field, level', target_depth)
      BY <1>3, <3>2, <3>3, <3>4, <3>5, <3>8, <3>9, WayLookedAt
    <3> QED BY <1>2, <2>1, <3>10
  <2> QED BY <2>2, <2>3 DEF BestInv
<1> QED BY <1>4, <1>5 DEF CloseLevel

LEMMA BestLeaf == ASSUME SearchAssumption, BestInv, Leaf, IInv' PROVE BestInv'
<1> DEFINE truncated == is_truncated \/ ticks_left = 0
<1>1. /\ is_deepening_active /\ ~Now.is_entered /\ IsLeaf
      /\ CloseLevel(Evaluate(position), truncated)
  BY DEF Leaf
<1>2. /\ position \in Positions /\ Len(position) = top /\ top \in Nat
      /\ IsFuture(tree, field)
      /\ StackKnows(tree, field, level, target_depth)
           => OnTop(tree, field, Now, position, target_depth)
  BY WhereItStands DEF BestInv
<1>3. Evaluate(position) \in Int
  BY <1>2 DEF Evaluate, IsFuture
<1>4. truncated \in BOOLEAN
  BY DEF BestInv, IInv, TypeOK, FlagsOK
<1>5. ASSUME ~truncated
      PROVE  Comes(tree, field, Evaluate(position), position, target_depth)
  <2>1. IsEnd(tree, position, target_depth)
    BY <1>1, <1>2, <1>5 DEF IsLeaf, IsEnd
  <2>2. tree.value[position][field] \in Int
    BY <1>3 DEF Evaluate
  <2> QED BY <1>2, <2>1, <2>2, EndComes DEF Evaluate
\* A root that has not been looked at has no best way yet.
<1>6. ASSUME top = 0, ~truncated, ~is_cut, ~is_mixed, Root.best_direction # NONE
      PROVE  IsBestWay(tree, field, Root.best_direction, target_depth)
  <2>1. StackKnows(tree, field, level, target_depth)
    BY <1>1, <1>6 DEF BestInv, CleanKnows
  <2>2. Now = Opened
    BY <1>1, <1>2, <2>1 DEF OnTop
  <2>3. Root = Opened
    BY <1>6, <2>2 DEF Root, Now
  <2> QED BY <1>6, <2>3 DEF Opened
<1> HIDE DEF truncated
<1>7. is_truncated => truncated
  BY DEF truncated
<1> QED BY <1>1, <1>3, <1>4, <1>5, <1>6, <1>7, BestClose

LEMMA BestLevelDone == ASSUME SearchAssumption, BestInv, LevelDone, IInv' PROVE BestInv'
<1> DEFINE value == IF Now.has_branch THEN Now.best_value ELSE Evaluate(position)
<1>1. /\ is_deepening_active /\ Now.is_entered /\ Now.next > Branches
      /\ CloseLevel(value, is_truncated)
  BY DEF LevelDone
<1>2. /\ position \in Positions /\ Len(position) = top /\ top \in Nat
      /\ Now \in Level /\ target_depth \in 1 .. MaxDepth
      /\ IsFuture(tree, field)
      /\ StackKnows(tree, field, level, target_depth)
           => OnTop(tree, field, Now, position, target_depth)
  BY WhereItStands DEF BestInv
<1>3. /\ tree.value[position][field] \in Int /\ Ways(tree, position) \subseteq 1 .. Branches
      /\ \A q \in Positions : tree.value[q][field] \in Int
  BY <1>2 DEF IsFuture
<1>4. value \in Int
  BY <1>2, <1>3 DEF Evaluate, Level
<1>5. is_truncated \in BOOLEAN
  BY DEF BestInv, IInv, TypeOK, FlagsOK
<1>6. ASSUME ~is_truncated, ~is_cut, ~is_mixed
      PROVE  /\ Len(position) < target_depth /\ tree.running[position]
             /\ Knows(tree, field, Now, position, Branches + 1, target_depth)
  <2>1. OnTop(tree, field, Now, position, target_depth)
    BY <1>1, <1>2, <1>6 DEF BestInv, CleanKnows
  <2>2. Now.next = Branches + 1
    BY <1>1, <1>2 DEF Level, SearchAssumption
  <2> QED BY <1>1, <2>1, <2>2 DEF OnTop
<1>7. ASSUME ~is_truncated, ~is_cut, ~is_mixed
      PROVE  Comes(tree, field, value, position, target_depth)
  BY <1>2, <1>3, <1>6, <1>7, KnowsAll DEF Evaluate
<1>8. ASSUME top = 0, ~is_truncated, ~is_cut, ~is_mixed, Root.best_direction # NONE
      PROVE  IsBestWay(tree, field, Root.best_direction, target_depth)
  <2>1. position = <<>> /\ Root = Now
    BY <1>8, PositionTyped DEF BestInv, IInv, Root, Now
  <2>2. Knows(tree, field, Root, <<>>, Branches + 1, target_depth)
    BY <1>6, <1>8, <2>1
  <2>3. Root \in Level /\ Ways(tree, <<>>) \subseteq 1 .. Branches
    BY <1>2, <1>3, <2>1
  <2> QED BY <1>2, <1>3, <1>8, <2>2, <2>3, KnowsBest
<1> HIDE DEF value
<1> QED BY <1>1, <1>4, <1>5, <1>7, <1>8, BestClose

LEMMA BestInductive == SearchAssumption => (BestInv /\ [Next]_vars => BestInv')
<1> SUFFICES ASSUME SearchAssumption, BestInv, [Next]_vars PROVE BestInv'
  OBVIOUS
<1>1. IInv'
  BY Inductive DEF BestInv
<1>2. CASE Restart
  BY <1>1, <1>2, BestRestart
<1>3. CASE Think
  BY <1>1, <1>3, BestThink
<1>4. CASE BeginDeepening
  BY <1>1, <1>4, BestBegin
<1>5. CASE Leaf
  BY <1>1, <1>5, BestLeaf
<1>6. CASE Enter
  BY <1>1, <1>6, BestEnter
<1>7. CASE LevelDone
  BY <1>1, <1>7, BestLevelDone
<1>8. CASE Wall
  BY <1>1, <1>8, BestWall
<1>9. CASE OutOfBudget
  BY <1>1, <1>9, BestOutOfBudget
<1>10. CASE Pause \/ Return
  BY <1>1, <1>10, BestKept DEF Pause, Return
<1>11. CASE Leg
  BY <1>1, <1>11, BestLeg
<1>12. CASE UNCHANGED vars
  BY <1>1, <1>12, BestKept DEF vars
<1> QED BY <1>2, <1>3, <1>4, <1>5, <1>6, <1>7, <1>8, <1>9, <1>10, <1>11, <1>12
    DEF Next, Advance

\* pacman_lookahead's answer to a depth is the first of the best ways out of the
\* cell, each looked at to that depth, for every tree, budget, slice and depth:
\* neither the stack nor where a slice put it down shows in what is chosen.
THEOREM CompleteAlwaysBest == Spec => []CompleteIsBest
<1>1. Init => BestInv
  BY BestStart, SearchAssumption
<1>2. BestInv /\ [Next]_vars => BestInv'
  BY BestInductive, SearchAssumption
<1>3. BestInv => CompleteIsBest
  BY DEF BestInv
<1> QED BY <1>1, <1>2, <1>3, PTL DEF Spec

-----------------------------------------------------------------------------
(* That no turn of the loop is for nothing *)

LEMMA BelowAt ==
  ASSUME NEW a1, NEW a2, NEW a3, NEW a4, NEW a5, NEW a6, NEW a7,
         NEW b1, NEW b2, NEW b3, NEW b4, NEW b5, NEW b6, NEW b7,
         \/ a1 < b1
         \/ a1 = b1 /\ a2 < b2
         \/ a1 = b1 /\ a2 = b2 /\ a3 < b3
         \/ a1 = b1 /\ a2 = b2 /\ a3 = b3 /\ a4 < b4
         \/ a1 = b1 /\ a2 = b2 /\ a3 = b3 /\ a4 = b4 /\ a5 < b5
         \/ a1 = b1 /\ a2 = b2 /\ a3 = b3 /\ a4 = b4 /\ a5 = b5 /\ a6 < b6
         \/ a1 = b1 /\ a2 = b2 /\ a3 = b3 /\ a4 = b4 /\ a5 = b5 /\ a6 = b6 /\ a7 < b7
  PROVE  Below(<<a1, a2, a3, a4, a5, a6, a7>>, <<b1, b2, b3, b4, b5, b6, b7>>)
<1> DEFINE r == <<a1, a2, a3, a4, a5, a6, a7>>
<1> DEFINE s == <<b1, b2, b3, b4, b5, b6, b7>>
<1>1. /\ r[1] = a1 /\ r[2] = a2 /\ r[3] = a3 /\ r[4] = a4 /\ r[5] = a5 /\ r[6] = a6 /\ r[7] = a7
      /\ DOMAIN r = 1 .. 7
  OBVIOUS
<1>2. /\ s[1] = b1 /\ s[2] = b2 /\ s[3] = b3 /\ s[4] = b4 /\ s[5] = b5 /\ s[6] = b6 /\ s[7] = b7
  OBVIOUS
<1> HIDE DEF r, s
<1>3. \A i \in 1 .. 7 : \A j \in 1 .. i - 1 :
        \/ j = 1 \/ (j = 2 /\ i > 2) \/ (j = 3 /\ i > 3)
        \/ (j = 4 /\ i > 4) \/ (j = 5 /\ i > 5) \/ (j = 6 /\ i > 6)
  OBVIOUS
<1>4. \E i \in 1 .. 7 : r[i] < s[i] /\ \A j \in 1 .. i - 1 : r[j] = s[j]
  BY <1>1, <1>2, <1>3
<1> QED BY <1>1, <1>4 DEF Below, r, s

\* The rank is of natural numbers, so it cannot fall for ever.
LEMMA RankTyped == ASSUME SearchAssumption, IInv PROVE Rank \in [1 .. 7 -> Nat]
<1>1. /\ slice_left \in Nat /\ top \in Nat /\ target_depth \in 1 .. MaxDepth /\ Now \in Level
  BY StackShape DEF IInv, TypeOK
<1>2. Now.next \in 1 .. Branches + 1
  BY <1>1 DEF Level
<1>3. /\ MaxDepth + 1 - target_depth \in Nat /\ Branches + 1 - Now.next \in Nat
  BY <1>1, <1>2 DEF SearchAssumption
<1>4. /\ (IF pc = "thinking" THEN 1 ELSE 0) \in Nat
      /\ (IF is_finished THEN 0 ELSE MaxDepth + 1 - target_depth) \in Nat
      /\ (IF is_deepening_active THEN 0 ELSE 1) \in Nat
      /\ (IF Now.is_entered THEN 0 ELSE 1) \in Nat
  BY <1>3
<1> QED BY <1>1, <1>3, <1>4 DEF Rank

\* The level on top becomes e.
LEMMA TopBecomes ==
  ASSUME IInv, NEW e \in Level, level' = [level EXCEPT ![top + 1] = e]
  PROVE  top' = top /\ Now' = e
<1>1. TypeOK /\ Len(level) = top + 1 /\ top \in Nat
  BY StackShape DEF IInv
<1>2. Len(level') = top + 1 /\ level'[top + 1] = e
  BY <1>1, ChangedStack
<1>3. top' = top
  BY <1>1, <1>2 DEF top
<1>4. Now' = level'[top' + 1]
  BY DEF Now
<1> QED BY <1>2, <1>3, <1>4

LEMMA LegFalls ==
  ASSUME SearchAssumption, IInv, Leg
  PROVE  slice_left' < slice_left
<1>1. PICK b \in tree.open[position] :
        /\ AtBranch(b)
        /\ LET to    == Append(position, b)
               spent == Spent(to)
           IN  slice_left' = IF spent >= slice_left THEN 0 ELSE slice_left - spent
  BY DEF Leg
<1>2. slice_left > 0 /\ ticks_left > 0 /\ slice_left \in Nat /\ ticks_left \in Nat
  BY DEF Leg, IInv, TypeOK
<1> DEFINE to == Append(position, b)
<1>3. b \in 1 .. Branches /\ top + 1 <= target_depth
  <2>1. b \in 1 .. Branches /\ top \in Nat
    BY TreeTyped, StackShape DEF IInv
  <2>2. Branches + 1 \in 1 .. Branches + 1
    BY DEF SearchAssumption
  <2> QED BY <1>1, <2>1, <2>2, AtBranchMayBecome
<1>4. to \in Positions
  BY <1>3, LegTyped
<1> HIDE DEF to
<1>5. tree.ticks[to] \in Nat \ {0}
  BY <1>4 DEF IInv, TypeOK, SearchAssumption, Tree
<1>6. Spent(to) \in Nat \ {0}
  BY <1>2, <1>5 DEF Spent
<1>7. slice_left' = IF Spent(to) >= slice_left THEN 0 ELSE slice_left - Spent(to)
  BY <1>1 DEF to
<1> QED BY <1>2, <1>6, <1>7

\* A level closes: there is one less, or one depth less to search.
LEMMA CloseFalls ==
  ASSUME SearchAssumption, IInv, Looping, is_deepening_active,
         NEW value, NEW truncated, CloseLevel(value, truncated)
  PROVE  Below(Rank', Rank)
<1> DEFINE depths == IF is_finished THEN 0 ELSE MaxDepth + 1 - target_depth
<1>1. /\ target_depth \in 1 .. MaxDepth /\ MaxDepth \in Nat
      /\ level \in Seq(Level) /\ Len(level) = top + 1 /\ top \in Nat /\ ~is_finished
  BY StackShape DEF IInv, TypeOK, SearchAssumption, Looping
<1>2. pc' = pc /\ slice_left' = slice_left
  BY DEF CloseLevel, budgets
<1>3. CASE top = 0 /\ CloseDeepening(truncated)
  <2>1. depths' < depths
    <3>1. CASE is_finished'
      BY <1>1, <3>1
    <3>2. CASE ~is_finished'
      <4>1. target_depth' = target_depth + 1
        BY <1>3, <3>2 DEF CloseDeepening
      <4> QED BY <1>1, <3>2, <4>1
    <3> QED BY <3>1, <3>2
  <2> HIDE DEF depths
  <2> QED BY <1>2, <2>1, BelowAt DEF Rank, depths
<1>4. CASE top > 0
  <2>1. /\ UNCHANGED <<target_depth, is_deepening_active, is_finished, answer>>
        /\ Len(level') = Len(Front(level))
    <3>1. top # 0
      BY <1>1, <1>4
    <3>2. /\ UNCHANGED <<target_depth, is_deepening_active, is_finished, answer>>
          /\ \E e : level' = [Front(level) EXCEPT ![top] = e]
      BY <3>1, Zenon DEF CloseLevel
    <3> QED BY <3>2
  <2>2. Len(Front(level)) = top
    <3>1. Front(level) = SubSeq(level, 1, top)
      BY <1>1 DEF Front
    <3> QED BY <1>1, <1>4, <3>1, SubSeqProperties
  <2>3. top' = Len(level') - 1
    BY DEF top
  <2>4. top' < top
    BY <1>1, <2>1, <2>2, <2>3
  <2> QED BY <1>2, <2>1, <2>4, BelowAt DEF Rank
<1> QED BY <1>3, <1>4 DEF CloseLevel

\* Only the level on top changes.
OnlyTop ==
  UNCHANGED <<pc, slice_left, target_depth, is_deepening_active, is_finished>>

LEMMA TopFalls ==
  ASSUME SearchAssumption, IInv, OnlyTop, NEW e \in Level,
         level' = [level EXCEPT ![top + 1] = e],
         \/ e.is_entered /\ ~Now.is_entered
         \/ e.is_entered = Now.is_entered /\ e.next > Now.next
  PROVE  Below(Rank', Rank)
<1>1. top' = top /\ Now' = e
  BY TopBecomes
<1>2. /\ Branches \in Nat /\ Now \in Level /\ e.next \in Int /\ Now.next \in Int
  BY StackShape DEF IInv, Level, SearchAssumption
<1> DEFINE looked == IF Now.is_entered THEN 0 ELSE 1
<1> DEFINE looked_e == IF e.is_entered THEN 0 ELSE 1
<1> DEFINE rest == Branches + 1 - Now.next
<1> DEFINE rest_e == Branches + 1 - e.next
<1>3. looked' = looked_e /\ rest' = rest_e
  BY <1>1
<1>4. looked_e < looked \/ (looked_e = looked /\ rest_e < rest)
  BY <1>2
<1>5. looked' < looked \/ (looked' = looked /\ rest' < rest)
  BY <1>3, <1>4
<1> HIDE DEF looked, rest
<1> QED BY <1>1, <1>5, BelowAt DEF OnlyTop, Rank, looked, rest

LEMMA TurnFalls ==
  ASSUME SearchAssumption, IInv, pc = "thinking", Next
  PROVE  Below(Rank', Rank)
<1>1. /\ Now \in Level /\ top \in Nat /\ Branches \in Nat /\ target_depth \in 1 .. MaxDepth
      /\ is_truncated \in BOOLEAN
  BY StackShape DEF IInv, TypeOK, FlagsOK, SearchAssumption
<1>2. ~Restart /\ ~Think
  BY DEF Restart, Think
<1>3. CASE BeginDeepening
  <2> DEFINE idle == IF is_deepening_active THEN 0 ELSE 1
  <2>1. /\ pc' = pc /\ slice_left' = slice_left
        /\ target_depth' = target_depth /\ is_finished' = is_finished
    BY <1>3 DEF BeginDeepening, budgets
  <2>2. idle' < idle
    BY <1>3 DEF BeginDeepening
  <2> HIDE DEF idle
  <2> QED BY <2>1, <2>2, BelowAt DEF Rank, idle
<1>4. CASE Leaf
  BY <1>4, CloseFalls DEF Leaf
<1>5. CASE LevelDone
  BY <1>5, CloseFalls DEF LevelDone
<1>6. CASE Enter
  <2> DEFINE e == [Now EXCEPT !.is_entered = TRUE]
  <2>1. level' = [level EXCEPT ![top + 1] = e] /\ ~Now.is_entered
    BY <1>6 DEF Enter, Now
  <2>2. e \in Level /\ e.is_entered
    BY <1>1 DEF Level
  <2>3. OnlyTop
    BY <1>6 DEF Enter, OnlyTop, budgets, deepening
  <2> HIDE DEF e
  <2> QED BY <2>1, <2>2, <2>3, TopFalls
<1>7. CASE Wall
  <2>1. PICK b \in 1 .. Branches : AtBranch(b)
    BY <1>7 DEF Wall
  <2> DEFINE e == [Now EXCEPT !.next = b + 1]
  <2>2. Now.next = b
    BY <2>1 DEF AtBranch
  <2>3. level' = [level EXCEPT ![top + 1] = e]
    BY <1>7, <2>2 DEF Wall, Now
  <2>4. b + 1 \in 1 .. Branches + 1 /\ b + 1 > b
    BY <1>1
  <2>5. e \in Level /\ e.next = b + 1 /\ e.is_entered = Now.is_entered
    BY <1>1, <2>4 DEF Level
  <2>6. OnlyTop
    BY <1>7 DEF Wall, OnlyTop, budgets, deepening
  <2> HIDE DEF e
  <2> QED BY <2>2, <2>3, <2>4, <2>5, <2>6, TopFalls
<1>8. CASE OutOfBudget
  <2>1. PICK b : AtBranch(b)
    BY <1>8 DEF OutOfBudget
  <2> DEFINE e == [Now EXCEPT !.next = Branches + 1]
  <2>2. Now.next \in 1 .. Branches
    BY <1>1, <2>1 DEF AtBranch, Level
  <2>3. level' = [level EXCEPT ![top + 1] = e]
    BY <1>8 DEF OutOfBudget, Now
  <2>4. Branches + 1 \in 1 .. Branches + 1 /\ Branches + 1 > Now.next
    BY <1>1, <2>2
  <2>5. e \in Level /\ e.next = Branches + 1 /\ e.is_entered = Now.is_entered
    BY <1>1, <2>4 DEF Level
  <2>6. OnlyTop
    BY <1>8 DEF OutOfBudget, OnlyTop, budgets
  <2> HIDE DEF e
  <2> QED BY <2>3, <2>4, <2>5, <2>6, TopFalls
<1>9. CASE Pause \/ Return
  <2> DEFINE runs == IF pc = "thinking" THEN 1 ELSE 0
  <2>1. runs' < runs
    BY <1>9 DEF Pause, Return
  <2> HIDE DEF runs
  <2> QED BY <2>1, BelowAt DEF Rank, runs
<1>10. CASE Leg
  <2>1. pc' = pc /\ slice_left' < slice_left
    BY <1>10, LegFalls DEF Leg
  <2> QED BY <2>1, BelowAt DEF Rank
<1> QED BY <1>2, <1>3, <1>4, <1>5, <1>6, <1>7, <1>8, <1>9, <1>10 DEF Next, Advance

\* What a call of pacman_lookahead_think has left to do is a tuple of natural
\* numbers, whatever the tree and however deep the search.
THEOREM RankIsNatural == Spec => [](Rank \in [1 .. 7 -> Nat])
<1>1. IInv => Rank \in [1 .. 7 -> Nat]
  BY RankTyped, SearchAssumption
<1> QED BY <1>1, Invariance, PTL

\* Every turn of prv_advance's loop lowers it, so no call goes round without end:
\* a walled-in cell, a leg walked in vain and an empty budget all make headway.
THEOREM TurnsAlwaysRunOut == Spec => TurnsRunOut
<1>1. IInv /\ [Next]_vars => [pc = "thinking" => Below(Rank', Rank)]_vars
  <2> SUFFICES ASSUME IInv, Next, pc = "thinking" PROVE Below(Rank', Rank)
    OBVIOUS
  <2> QED BY TurnFalls, SearchAssumption
<1> QED BY <1>1, Invariance, PTL DEF Spec, TurnsRunOut

-----------------------------------------------------------------------------
(* The recursion is well defined: there is a function that obeys it *)

LEMMA Induction ==
  ASSUME NEW T, 0 \in T, \A n \in Nat : n \in T => n + 1 \in T
  PROVE  Nat \subseteq T
<1> SUFFICES ASSUME Nat \ T # {} PROVE FALSE
  OBVIOUS
<1>1. PICK n \in Nat \ T : \A m \in Nat \ T : n <= m
  <2>1. Nat \ T \in SUBSET Nat
    OBVIOUS
  <2> QED BY <2>1, FirstExists
<1>2. n - 1 \in Nat
  BY <1>1
<1>3. n - 1 \in T
  BY <1>1, <1>2
<1>4. (n - 1) + 1 \in T
  BY <1>2, <1>3
<1> QED BY <1>2, <1>4

\* A tree of the type, with one of the two food fields.
IsTree(t, f) == t \in Tree /\ f \in 0 .. 1

LEMMA TreeFacts ==
  ASSUME SearchAssumption, NEW t, NEW f, IsTree(t, f), NEW p \in Positions
  PROVE  /\ t.open[p] \subseteq 1 .. Branches /\ t.running[p] \in BOOLEAN
         /\ t.ticks[p] \in Nat \ {0} /\ t.first[p] \in Nat \ {0}
         /\ t.value[p][f] \in Int
<1>1. t \in Tree /\ f \in 0 .. 1
  BY DEF IsTree
<1>2. t.value[p] \in [0 .. 1 -> Int]
  BY <1>1 DEF Tree
<1> QED BY <1>1, <1>2 DEF Tree

LEMMA BegunTyped ==
  ASSUME SearchAssumption, NEW left \in Nat, NEW truncated \in BOOLEAN
  PROVE  Begun(left, truncated) \in Sofar
BY DEF Begun, Sofar, NONE, SearchAssumption

LEMMA TriedTyped ==
  ASSUME NEW s \in Sofar, NEW b \in 1 .. Branches, NEW r \in Sofar
  PROVE  Tried(s, b, r) \in Sofar
<1>1. [s EXCEPT !.left = r.left, !.truncated = r.truncated] \in Sofar
  BY DEF Sofar
<1>2. [r EXCEPT !.way = b] \in Sofar
  BY DEF Sofar
<1> QED BY <1>1, <1>2 DEF Tried

LEMMA CallShape ==
  ASSUME SearchAssumption, NEW d \in 1 .. MaxDepth, NEW x \in Calls(d)
  PROVE  /\ x[1] \in Positions /\ x[2] \in 0 .. Branches + 1 /\ x[3] \in Sofar
         /\ x = <<x[1], x[2], x[3]>>
         /\ Len(x[1]) \in 0 .. MaxDepth
         /\ x[2] # 0 => Len(x[1]) < d
<1>1. x \in Positions \X (0 .. Branches + 1) \X Sofar /\ (x[2] = 0 \/ Len(x[1]) < d)
  BY DEF Calls
<1>2. x[1] \in Positions
  BY <1>1
<1> QED BY <1>1, <1>2, PositionShape

LEMMA CallMade ==
  ASSUME NEW d, NEW p \in Positions, NEW b \in 0 .. Branches + 1, NEW s \in Sofar,
         b = 0 \/ Len(p) < d
  PROVE  <<p, b, s>> \in Calls(d)
BY DEF Calls

\* The calls that are deeper than n levels above the deepest position, or on that
\* level and within m places of the end of the loop.
Within(d, n, m) ==
  {x \in Calls(d) : \/ MaxDepth - Len(x[1]) < n
                    \/ MaxDepth - Len(x[1]) = n /\ Branches + 1 - x[2] < m}

\* A call makes only calls nearer to the end than itself.
LEMMA CallsAreNearer ==
  ASSUME SearchAssumption, NEW t, NEW f, IsTree(t, f), NEW d \in 1 .. MaxDepth,
         NEW x \in Calls(d), NEW g, NEW h,
         \A y \in Within(d, MaxDepth - Len(x[1]), Branches + 1 - x[2]) :
           g[y] \in Sofar /\ h[y] = g[y]
  PROVE  Call(t, f, d, g, x) \in Sofar /\ Call(t, f, d, h, x) = Call(t, f, d, g, x)
<1> DEFINE p == x[1]
<1> DEFINE b == x[2]
<1> DEFINE s == x[3]
<1> DEFINE to == Append(p, b)
<1> DEFINE spent == IF t.ticks[to] < s.left THEN t.ticks[to] ELSE s.left
<1> DEFINE child == <<to, 0, Begun(s.left - spent, s.truncated)>>
<1>1. /\ p \in Positions /\ b \in 0 .. Branches + 1 /\ s \in Sofar
      /\ Len(p) \in 0 .. MaxDepth /\ (b # 0 => Len(p) < d)
      /\ MaxDepth \in Nat /\ Branches \in Nat /\ d <= MaxDepth
  BY CallShape DEF SearchAssumption
<1>2. /\ s.value \in Int /\ s.way \in 0 .. Branches /\ s.left \in Nat
      /\ s.truncated \in BOOLEAN
  BY <1>1 DEF Sofar
<1>3. t.value[p][f] \in Int /\ t.open[p] \subseteq 1 .. Branches
  BY <1>1, TreeFacts
<1> DEFINE Is(y) == g[y] \in Sofar /\ h[y] = g[y]
<1>4. ASSUME NEW c \in 1 .. Branches + 1, c > b, NEW u \in Sofar, Len(p) < d
      PROVE  Is(<<p, c, u>>)
  <2>1. <<p, c, u>> \in Calls(d)
    BY <1>1, <1>4, CallMade
  <2>2. Branches + 1 - c < Branches + 1 - b
    BY <1>1, <1>4
  <2> HIDE DEF p, b
  <2>3. <<p, c, u>> \in Within(d, MaxDepth - Len(p), Branches + 1 - b)
    BY <2>1, <2>2 DEF Within
  <2> QED BY <2>3 DEF p, b
<1>5. ASSUME b \in 1 .. Branches
      PROVE  /\ Is(child)
             /\ spent \in Nat /\ s.left - spent \in Nat
  <2>1. Len(p) < MaxDepth
    BY <1>1, <1>5
  <2>2. to \in Positions /\ Len(to) = Len(p) + 1
    BY <1>1, <1>5, <2>1, PositionGrows
  <2> HIDE DEF to
  <2>3. t.ticks[to] \in Nat
    BY <2>2, TreeFacts
  <2>4. spent \in Nat /\ s.left - spent \in Nat
    BY <1>2, <2>3
  <2> HIDE DEF spent
  <2>5. Begun(s.left - spent, s.truncated) \in Sofar
    BY <1>2, <2>4, BegunTyped
  <2> DEFINE e == Begun(s.left - spent, s.truncated)
  <2>6. child \in Calls(d)
    <3>1. 0 \in 0 .. Branches + 1 /\ e \in Sofar
      BY <1>1, <2>5
    <3> HIDE DEF e
    <3>2. <<to, 0, e>> \in Calls(d)
      BY <2>2, <3>1, CallMade
    <3> QED BY <3>2 DEF e
  <2>7. MaxDepth - Len(to) < MaxDepth - Len(p)
    BY <1>1, <2>2
  <2> HIDE DEF p, b, s
  <2>8. child \in Within(d, MaxDepth - Len(p), Branches + 1 - b)
    BY <2>6, <2>7 DEF Within
  <2> QED BY <2>4, <2>8 DEF p, b, s
<1> DEFINE priced == [s EXCEPT !.value = t.value[p][f]]
<1>6. priced \in Sofar /\ [priced EXCEPT !.truncated = @ \/ s.left = 0] \in Sofar
  BY <1>1, <1>2, <1>3 DEF Sofar
<1> DEFINE stopped == [s EXCEPT !.truncated = TRUE]
<1> DEFINE passed == [s EXCEPT !.left = @ - spent]
<1>7. stopped \in Sofar
  BY <1>1 DEF Sofar
<1>8. ASSUME b \in 1 .. Branches PROVE passed \in Sofar
  BY <1>1, <1>5, <1>8 DEF Sofar
<1>9. ASSUME b \in 1 .. Branches PROVE Tried(s, b, g[child]) \in Sofar
  <2>1. g[child] \in Sofar
    BY <1>5, <1>9
  <2> HIDE DEF s, b, child
  <2> QED BY <1>1, <1>9, <2>1, TriedTyped
<1> DEFINE CallOf(R) ==
      IF b = 0
      THEN IF Len(p) >= d \/ s.left = 0 \/ ~t.running[p]
           THEN [priced EXCEPT !.truncated = @ \/ s.left = 0] ELSE R[<<p, 1, s>>]
      ELSE IF b > Branches
      THEN IF s.way = NONE THEN priced ELSE s
      ELSE IF b \notin t.open[p]
      THEN R[<<p, b + 1, s>>]
      ELSE IF s.left = 0
      THEN R[<<p, Branches + 1, stopped>>]
      ELSE IF spent < t.first[to]
      THEN R[<<p, b + 1, passed>>]
      ELSE R[<<p, b + 1, Tried(s, b, R[child])>>]
<1>10. Call(t, f, d, g, x) = CallOf(g) /\ Call(t, f, d, h, x) = CallOf(h)
  BY DEF Call
<1>11. CallOf(g) \in Sofar /\ CallOf(h) = CallOf(g)
  <2> HIDE DEF p, b, s, to, spent, child, priced, stopped, passed
  <2>1. CASE b = 0
    <3>1. CASE Len(p) >= d \/ s.left = 0 \/ ~t.running[p]
      BY <1>6, <2>1, <3>1
    <3>2. CASE ~ (Len(p) >= d \/ s.left = 0 \/ ~t.running[p])
      <4>1. Is(<<p, 1, s>>)
        <5>1. 1 \in 1 .. Branches + 1 /\ 1 > b
          BY <1>1, <2>1
        <5>2. Len(p) < d /\ s \in Sofar
          BY <1>1, <3>2
        <5> HIDE DEF Is
        <5> QED BY <1>4, <5>1, <5>2
      <4>2. CallOf(g) = g[<<p, 1, s>>] /\ CallOf(h) = h[<<p, 1, s>>]
        BY <2>1, <3>2, Zenon
      <4> HIDE DEF CallOf
      <4> QED BY <4>1, <4>2
    <3> QED BY <3>1, <3>2
  <2>2. CASE b > Branches
    BY <1>1, <1>6, <2>2
  <2>3. CASE b \in 1 .. Branches
    <3>1. ASSUME NEW c \in {b + 1, Branches + 1}, NEW u \in Sofar PROVE Is(<<p, c, u>>)
      <4>1. c \in 1 .. Branches + 1 /\ c > b /\ Len(p) < d
        BY <1>1, <2>3
      <4> HIDE DEF Is
      <4> QED BY <1>4, <4>1
    <3>2. CASE b \notin t.open[p]
      BY <1>1, <2>3, <3>1, <3>2
    <3>3. CASE b \in t.open[p] /\ s.left = 0
      BY <1>7, <2>3, <3>1, <3>3
    <3>4. CASE b \in t.open[p] /\ s.left # 0 /\ spent < t.first[to]
      BY <1>8, <2>3, <3>1, <3>4
    <3>5. CASE b \in t.open[p] /\ s.left # 0 /\ ~ (spent < t.first[to])
      <4>1. Is(<<p, b + 1, Tried(s, b, g[child])>>) /\ h[child] = g[child]
        BY <1>5, <1>9, <2>3, <3>1
      <4>2. /\ CallOf(g) = g[<<p, b + 1, Tried(s, b, g[child])>>]
            /\ CallOf(h) = h[<<p, b + 1, Tried(s, b, h[child])>>]
        <5>1. ~(b = 0) /\ ~(b > Branches) /\ ~(s.left = 0)
          BY <1>1, <2>3, <3>5
        <5> QED BY <3>5, <5>1, Zenon
      <4> HIDE DEF CallOf
      <4> QED BY <4>1, <4>2
    <3> QED BY <3>2, <3>3, <3>4, <3>5
  <2> QED BY <1>1, <2>1, <2>2, <2>3
<1> QED BY <1>10, <1>11

\* How far a call is from the end of everything.
LEMMA CallsEnd ==
  ASSUME SearchAssumption, NEW d \in 1 .. MaxDepth, NEW x \in Calls(d)
  PROVE  /\ MaxDepth - Len(x[1]) \in 0 .. MaxDepth
         /\ Branches + 1 - x[2] \in 0 .. Branches + 1
<1>1. Len(x[1]) \in 0 .. MaxDepth /\ x[2] \in 0 .. Branches + 1
  BY CallShape
<1> QED BY <1>1 DEF SearchAssumption

\* What is true of a call whenever it is of the nearer ones is true of all.
LEMMA NearerInduction ==
  ASSUME SearchAssumption, NEW d \in 1 .. MaxDepth, NEW S,
         \A x \in Calls(d) :
           Within(d, MaxDepth - Len(x[1]), Branches + 1 - x[2]) \subseteq S => x \in S
  PROVE  Calls(d) \subseteq S
<1> SUFFICES ASSUME Calls(d) \ S # {} PROVE FALSE
  OBVIOUS
<1> DEFINE left(x) == MaxDepth - Len(x[1])
<1> DEFINE place(x) == Branches + 1 - x[2]
<1>1. ASSUME NEW x \in Calls(d) PROVE left(x) \in Nat /\ place(x) \in Nat
  BY CallsEnd, <1>1 DEF SearchAssumption
<1> HIDE DEF left, place
<1>2. PICK v \in Calls(d) \ S : \A x \in Calls(d) \ S : left(v) <= left(x)
  <2> DEFINE L == {left(x) : x \in Calls(d) \ S}
  <2>1. L \in SUBSET Nat /\ L # {}
    BY <1>1
  <2> HIDE DEF L
  <2>2. PICK n \in L : \A l \in L : n <= l
    BY <2>1, FirstExists
  <2> QED BY <2>2 DEF L
<1> DEFINE C == {x \in Calls(d) \ S : left(x) = left(v)}
<1>3. PICK x \in C : \A y \in C : place(x) <= place(y)
  <2> DEFINE P == {place(y) : y \in C}
  <2>1. P \in SUBSET Nat /\ P # {}
    BY <1>1
  <2> HIDE DEF P, C
  <2>2. PICK n \in P : \A l \in P : n <= l
    BY <2>1, FirstExists
  <2> QED BY <2>2 DEF P
<1>4. ASSUME NEW y \in Within(d, left(x), place(x)) PROVE y \in S
  <2>1. y \in Calls(d) /\ (left(y) < left(x) \/ (left(y) = left(x) /\ place(y) < place(x)))
    BY DEF Within, left, place
  <2>2. left(x) \in Nat /\ place(x) \in Nat /\ left(y) \in Nat /\ place(y) \in Nat
    BY <1>1, <2>1
  <2> SUFFICES ASSUME y \notin S PROVE FALSE
    OBVIOUS
  <2>3. left(x) <= left(y)
    BY <1>2, <2>1
  <2>4. left(y) = left(x) /\ place(y) < place(x)
    BY <2>1, <2>2, <2>3
  <2>5. place(x) <= place(y)
    BY <1>3, <2>1, <2>4
  <2> QED BY <2>2, <2>4, <2>5
<1>5. x \in Calls(d) /\ x \notin S
  OBVIOUS
<1> QED BY <1>4, <1>5 DEF left, place

Solves(t, f, d, g, E) == g \in [E -> Sofar] /\ \A x \in E : g[x] = Call(t, f, d, g, x)

LEMMA SolutionGrows ==
  ASSUME SearchAssumption, NEW t, NEW f, IsTree(t, f), NEW d \in 1 .. MaxDepth,
         NEW n \in Nat, NEW m \in Nat, \E g : Solves(t, f, d, g, Within(d, n, m))
  PROVE  \E h : Solves(t, f, d, h, Within(d, n, m + 1))
<1> DEFINE E == Within(d, n, m)
<1> DEFINE F == Within(d, n, m + 1)
<1>1. PICK g : Solves(t, f, d, g, E)
  OBVIOUS
<1> DEFINE h == [x \in F |-> IF x \in E THEN g[x] ELSE Call(t, f, d, g, x)]
<1>2. E \subseteq F /\ F \subseteq Calls(d)
  <2> SUFFICES ASSUME NEW x \in E PROVE x \in F
    BY DEF Within
  <2>1. Branches + 1 - x[2] \in Int
    BY CallShape DEF Within, SearchAssumption
  <2> QED BY <2>1 DEF Within
<1>3. ASSUME NEW x \in F, NEW y \in Within(d, MaxDepth - Len(x[1]), Branches + 1 - x[2])
      PROVE  y \in E
  <2>1. x \in Calls(d) /\ y \in Calls(d)
    BY <1>2 DEF Within
  <2>2. ASSUME NEW z \in Calls(d)
        PROVE  MaxDepth - Len(z[1]) \in Int /\ Branches + 1 - z[2] \in Int
    BY CallsEnd, <2>2
  <2> DEFINE left(z) == MaxDepth - Len(z[1])
  <2> DEFINE place(z) == Branches + 1 - z[2]
  <2>3. /\ left(x) \in Int /\ place(x) \in Int /\ left(y) \in Int /\ place(y) \in Int
    BY <2>1, <2>2
  <2>4. left(x) < n \/ (left(x) = n /\ place(x) < m + 1)
    BY DEF Within
  <2>5. left(y) < left(x) \/ (left(y) = left(x) /\ place(y) < place(x))
    BY DEF Within
  <2>6. left(y) < n \/ (left(y) = n /\ place(y) < m)
    <3> HIDE DEF left, place
    <3> QED BY <2>3, <2>4, <2>5
  <2> QED BY <2>1, <2>6 DEF Within
<1>4. \A y \in E : g[y] \in Sofar /\ h[y] = g[y]
  BY <1>1, <1>2 DEF Solves
<1> HIDE DEF E, F, h
<1>5. ASSUME NEW x \in F
      PROVE  Call(t, f, d, g, x) \in Sofar /\ Call(t, f, d, h, x) = Call(t, f, d, g, x)
  <2>1. \A y \in Within(d, MaxDepth - Len(x[1]), Branches + 1 - x[2]) :
          g[y] \in Sofar /\ h[y] = g[y]
    BY <1>3, <1>4
  <2> QED BY <1>2, <2>1, CallsAreNearer
<1>6. h \in [F -> Sofar]
  BY <1>4, <1>5 DEF h
<1>7. ASSUME NEW x \in F PROVE h[x] = Call(t, f, d, h, x)
  <2>1. CASE x \in E
    <3>1. g[x] = Call(t, f, d, g, x)
      BY <1>1, <2>1 DEF Solves
    <3> QED BY <1>4, <1>5, <2>1, <3>1
  <2>2. CASE x \notin E
    <3>1. h[x] = Call(t, f, d, g, x)
      BY <2>2 DEF h
    <3> QED BY <1>5, <3>1
  <2> QED BY <2>1, <2>2
<1>8. Solves(t, f, d, h, F)
  BY <1>6, <1>7 DEF Solves
<1> QED BY <1>8 DEF F

LEMMA SolutionExists ==
  ASSUME SearchAssumption, NEW t, NEW f, IsTree(t, f), NEW d \in 1 .. MaxDepth
  PROVE  \E g : Solves(t, f, d, g, Calls(d))
<1> DEFINE Has(n, m) == \E g : Solves(t, f, d, g, Within(d, n, m))
<1> DEFINE T == {n \in Nat : Has(n, 0)}
<1> DEFINE left(x) == MaxDepth - Len(x[1])
<1> DEFINE place(x) == Branches + 1 - x[2]
<1>0. MaxDepth \in Nat /\ Branches \in Nat
  BY DEF SearchAssumption
<1>1. ASSUME NEW x \in Calls(d)
      PROVE  left(x) \in 0 .. MaxDepth /\ place(x) \in 0 .. Branches + 1
  BY CallsEnd, <1>1
<1> DEFINE In(x, n, m) == left(x) < n \/ (left(x) = n /\ place(x) < m)
<1>7. \A n, m : Within(d, n, m) = {x \in Calls(d) : In(x, n, m)}
  BY DEF Within
<1> HIDE DEF left, place
<1>2. 0 \in T
  <2>1. Within(d, 0, 0) = {}
    BY <1>1, <1>7
  <2> DEFINE g == [x \in {} |-> x]
  <2>2. Solves(t, f, d, g, Within(d, 0, 0))
    BY <2>1 DEF Solves
  <2> QED BY <2>2
<1>3. ASSUME NEW n \in Nat, n \in T PROVE n + 1 \in T
  <2> DEFINE U == {m \in Nat : Has(n, m)}
  <2>1. 0 \in U
    BY <1>3
  <2>2. ASSUME NEW m \in Nat, m \in U PROVE m + 1 \in U
    BY <2>2, SolutionGrows
  <2> HIDE DEF U
  <2>3. Nat \subseteq U
    BY <2>1, <2>2, Induction
  <2>4. Branches + 2 \in U
    BY <2>3 DEF SearchAssumption
  <2>5. Within(d, n, Branches + 2) = Within(d, n + 1, 0)
    <3>1. ASSUME NEW x \in Calls(d) PROVE In(x, n, Branches + 2) <=> In(x, n + 1, 0)
      BY <1>0, <1>1, <3>1
    <3> HIDE DEF In
    <3> QED BY <1>7, <3>1
  <2> QED BY <2>4, <2>5 DEF U
<1> HIDE DEF T
<1>4. Nat \subseteq T
  BY <1>2, <1>3, Induction
<1>5. MaxDepth + 1 \in T
  BY <1>4 DEF SearchAssumption
<1>6. Within(d, MaxDepth + 1, 0) = Calls(d)
  <2>1. ASSUME NEW x \in Calls(d) PROVE In(x, MaxDepth + 1, 0)
    BY <1>0, <1>1, <2>1
  <2> HIDE DEF In
  <2> QED BY <1>7, <2>1
<1> QED BY <1>5, <1>6 DEF T

\* Whatever obeys the equation comes to what a call may come to.
LEMMA SolutionTyped ==
  ASSUME SearchAssumption, NEW t, NEW f, IsTree(t, f), NEW d \in 1 .. MaxDepth, NEW g,
         \A x \in Calls(d) : g[x] = Call(t, f, d, g, x)
  PROVE  \A x \in Calls(d) : g[x] \in Sofar
<1> DEFINE S == {x \in Calls(d) : g[x] \in Sofar}
<1>1. ASSUME NEW x \in Calls(d),
             Within(d, MaxDepth - Len(x[1]), Branches + 1 - x[2]) \subseteq S
      PROVE  x \in S
  <2>1. \A y \in Within(d, MaxDepth - Len(x[1]), Branches + 1 - x[2]) : g[y] \in Sofar /\ g[y] = g[y]
    BY <1>1
  <2>2. Call(t, f, d, g, x) \in Sofar
    BY <2>1, CallsAreNearer
  <2> QED BY <2>2
<1> HIDE DEF S
<1>2. Calls(d) \subseteq S
  BY <1>1, NearerInduction
<1> QED BY <1>2 DEF S

\* The recursion of Search is what its equation says.
THEOREM RecursionIsCall ==
  ASSUME SearchAssumption, NEW t, NEW f, IsTree(t, f), NEW d \in 1 .. MaxDepth
  PROVE  Solves(t, f, d, Recursion(t, f, d), Calls(d))
<1>1. PICK g : Solves(t, f, d, g, Calls(d))
  BY SolutionExists
<1>2. g = [x \in Calls(d) |-> Call(t, f, d, g, x)]
  <2>1. g = [x \in Calls(d) |-> g[x]]
    BY <1>1 DEF Solves
  <2> QED BY <1>1, <2>1 DEF Solves
<1> DEFINE R == Recursion(t, f, d)
<1>3. R = CHOOSE r : r = [x \in Calls(d) |-> Call(t, f, d, r, x)]
  BY DEF Recursion
<1> HIDE DEF R
<1>4. R = [x \in Calls(d) |-> Call(t, f, d, R, x)]
  BY <1>2, <1>3
<1>5. \A x \in Calls(d) : R[x] = Call(t, f, d, R, x)
  BY <1>4
<1>6. \A x \in Calls(d) : R[x] \in Sofar
  BY <1>5, SolutionTyped
<1>7. R \in [Calls(d) -> Sofar]
  BY <1>4, <1>6
<1> QED BY <1>5, <1>7 DEF R, Solves

\* It, turn by turn.
LEMMA RecursionTyped ==
  ASSUME SearchAssumption, NEW t, NEW f, IsTree(t, f), NEW d \in 1 .. MaxDepth,
         NEW p \in Positions, NEW b \in 0 .. Branches + 1, NEW s \in Sofar,
         b = 0 \/ Len(p) < d
  PROVE  /\ Recursion(t, f, d)[<<p, b, s>>] \in Sofar
         /\ Recursion(t, f, d)[<<p, b, s>>] = Call(t, f, d, Recursion(t, f, d), <<p, b, s>>)
<1>1. <<p, b, s>> \in Calls(d)
  BY CallMade
<1>2. Solves(t, f, d, Recursion(t, f, d), Calls(d))
  BY RecursionIsCall
<1> QED BY <1>1, <1>2 DEF Solves

\* The turns one by one.
Priced(t, f, p, s) ==
  [[s EXCEPT !.value = t.value[p][f]] EXCEPT !.truncated = @ \/ s.left = 0]
Returned(t, f, p, s) == IF s.way = NONE THEN [s EXCEPT !.value = t.value[p][f]] ELSE s
Stopped(s) == [s EXCEPT !.truncated = TRUE]
Without(s, spent) == [s EXCEPT !.left = @ - spent]
CostOf(t, to, left) == IF t.ticks[to] < left THEN t.ticks[to] ELSE left

LEMMA RecursionComes ==
  ASSUME SearchAssumption, NEW t, NEW f, IsTree(t, f), NEW d \in 1 .. MaxDepth,
         NEW p \in Positions, NEW s \in Sofar
  PROVE  LET R      == Recursion(t, f, d)
             isLeaf == Len(p) >= d \/ s.left = 0 \/ ~t.running[p]
         IN  /\ isLeaf => R[<<p, 0, s>>] = Priced(t, f, p, s)
             /\ ~isLeaf => R[<<p, 0, s>>] = R[<<p, 1, s>>]
<1> DEFINE x == <<p, 0, s>>
<1> DEFINE R == Recursion(t, f, d)
<1> DEFINE isLeaf == Len(p) >= d \/ s.left = 0 \/ ~t.running[p]
<1>1. 0 \in 0 .. Branches + 1
  BY DEF SearchAssumption
<1>2. R[x] = Call(t, f, d, R, x)
  BY <1>1, RecursionTyped
<1> HIDE DEF R
<1>3. x[1] = p /\ x[2] = 0 /\ x[3] = s
  OBVIOUS
<1> HIDE DEF x
<1>4. R[x] = IF isLeaf THEN Priced(t, f, p, s) ELSE R[<<p, 1, s>>]
  BY <1>2, <1>3, Zenon DEF Call, Priced
<1> HIDE DEF isLeaf
<1>5. /\ isLeaf => R[x] = Priced(t, f, p, s)
      /\ ~isLeaf => R[x] = R[<<p, 1, s>>]
  BY <1>4, Zenon
<1> QED BY <1>5, Zenon DEF isLeaf, x, R

LEMMA RecursionReturns ==
  ASSUME SearchAssumption, NEW t, NEW f, IsTree(t, f), NEW d \in 1 .. MaxDepth,
         NEW p \in Positions, NEW s \in Sofar, Len(p) < d
  PROVE  Recursion(t, f, d)[<<p, Branches + 1, s>>] = Returned(t, f, p, s)
<1> DEFINE c == Branches + 1
<1> DEFINE x == <<p, c, s>>
<1> DEFINE R == Recursion(t, f, d)
<1>1. c \in 0 .. Branches + 1 /\ ~(c = 0) /\ c > Branches
  BY DEF SearchAssumption
<1>2. R[x] = Call(t, f, d, R, x)
  BY <1>1, RecursionTyped
<1> HIDE DEF R, c
<1>3. x[1] = p /\ x[2] = c /\ x[3] = s
  OBVIOUS
<1> HIDE DEF x
<1>4. R[x] = Returned(t, f, p, s)
  BY <1>1, <1>2, <1>3, Zenon DEF Call, Returned
<1> QED BY <1>4, Zenon DEF R, x, c

\* A turn of a call's loop at the way b.
Turn(t, R, p, b, s, to, spent) ==
  IF b \notin t.open[p] THEN R[<<p, b + 1, s>>]
  ELSE IF s.left = 0 THEN R[<<p, Branches + 1, Stopped(s)>>]
  ELSE IF spent < t.first[to] THEN R[<<p, b + 1, Without(s, spent)>>]
  ELSE R[<<p, b + 1, Tried(s, b, R[<<to, 0, Begun(s.left - spent, s.truncated)>>])>>]

LEMMA RecursionTurns ==
  ASSUME SearchAssumption, NEW t, NEW f, IsTree(t, f), NEW d \in 1 .. MaxDepth,
         NEW p \in Positions, NEW b \in 1 .. Branches, NEW s \in Sofar, Len(p) < d
  PROVE  Recursion(t, f, d)[<<p, b, s>>]
           = Turn(t, Recursion(t, f, d), p, b, s, Append(p, b), CostOf(t, Append(p, b), s.left))
<1> DEFINE x == <<p, b, s>>
<1> DEFINE R == Recursion(t, f, d)
<1>1. b \in 0 .. Branches + 1 /\ ~(b = 0) /\ ~(b > Branches)
  BY DEF SearchAssumption
<1>2. R[x] = Call(t, f, d, R, x)
  BY <1>1, RecursionTyped
<1> HIDE DEF R
<1>3. x[1] = p /\ x[2] = b /\ x[3] = s
  OBVIOUS
<1> HIDE DEF x
<1>4. R[x] = Turn(t, R, p, b, s, Append(p, b), CostOf(t, Append(p, b), s.left))
  BY <1>1, <1>2, <1>3, Zenon DEF Call, Stopped, Without, CostOf, Turn
<1> QED BY <1>4, Zenon DEF R, x

-----------------------------------------------------------------------------
(* So is the choice of one depth after the other *)

Chosen == [best : 0 .. Branches, reached : 0 .. MaxDepth, left : Nat]

\* What a deepening is told of what was chosen before it, and what it comes to.
Deepened(t, f, d, left) == Recursion(t, f, d)[<<<<>>, 0, Begun(left, FALSE)>>]

LEMMA DeepenedTyped ==
  ASSUME SearchAssumption, NEW t, NEW f, IsTree(t, f), NEW d \in 1 .. MaxDepth,
         NEW left \in Nat
  PROVE  Deepened(t, f, d, left) \in Sofar
<1>1. <<>> \in Positions
  <2>1. <<>> \in [1 .. 0 -> 1 .. Branches]
    BY EmptySeq, LenProperties
  <2> QED BY <2>1 DEF Positions, SearchAssumption
<1>2. Begun(left, FALSE) \in Sofar
  BY BegunTyped
<1>3. 0 \in 0 .. Branches + 1
  BY DEF SearchAssumption
<1> QED BY <1>1, <1>2, <1>3, RecursionTyped DEF Deepened

\* A deepening asks only for the next one.
LEMMA DecideAsksNext ==
  ASSUME SearchAssumption, NEW d \in 1 .. MaxDepth, NEW a \in Chosen, NEW r \in Sofar,
         NEW D, NEW E, \A c \in Chosen : E[<<d + 1, c>>] = D[<<d + 1, c>>]
  PROVE  Decide(E, d, a, r) = Decide(D, d, a, r)
<1>1. [a EXCEPT !.left = r.left] \in Chosen
  BY DEF Chosen, Sofar
<1>2. [best |-> r.way, reached |-> d, left |-> r.left] \in Chosen
  BY DEF Chosen, Sofar, SearchAssumption
<1> QED BY <1>1, <1>2 DEF Decide

Stage(t, f, D, x) ==
  IF x[1] > MaxDepth THEN x[2] ELSE Decide(D, x[1], x[2], Deepened(t, f, x[1], x[2].left))
LastStages(n) == {x \in Stages : MaxDepth + 1 - x[1] < n}

LEMMA StageTyped ==
  ASSUME SearchAssumption, NEW x \in Stages
  PROVE  /\ x[1] \in 1 .. MaxDepth + 1 /\ x[2] \in Chosen /\ x = <<x[1], x[2]>>
         /\ MaxDepth + 1 - x[1] \in 0 .. MaxDepth
<1>1. x[1] \in 1 .. MaxDepth + 1 /\ x[2] \in Chosen /\ x = <<x[1], x[2]>>
  BY DEF Stages, Chosen
<1> QED BY <1>1 DEF SearchAssumption

LEMMA DecisionsGrow ==
  ASSUME SearchAssumption, NEW t, NEW f, IsTree(t, f), NEW n \in Nat,
         NEW D, \A x \in LastStages(n) : D[x] = Stage(t, f, D, x)
  PROVE  \E E : \A x \in LastStages(n + 1) : E[x] = Stage(t, f, E, x)
<1> DEFINE E == [x \in LastStages(n + 1) |-> IF x \in LastStages(n) THEN D[x] ELSE Stage(t, f, D, x)]
<1>1. ASSUME NEW x \in LastStages(n) PROVE x \in LastStages(n + 1) /\ E[x] = D[x]
  <2>1. x \in Stages /\ MaxDepth + 1 - x[1] < n
    BY DEF LastStages
  <2>2. MaxDepth + 1 - x[1] < n + 1
    BY <2>1, StageTyped
  <2> QED BY <2>1, <2>2 DEF LastStages
<1> HIDE DEF E
<1>2. ASSUME NEW x \in LastStages(n + 1) PROVE Stage(t, f, E, x) = Stage(t, f, D, x)
  <2>1. /\ x[1] \in 1 .. MaxDepth + 1 /\ x[2] \in Chosen /\ MaxDepth + 1 - x[1] < n + 1
        /\ MaxDepth \in Nat
    BY StageTyped DEF LastStages, SearchAssumption
  <2>2. CASE x[1] > MaxDepth
    BY <2>2 DEF Stage
  <2>3. CASE ~(x[1] > MaxDepth)
    <3>1. x[1] \in 1 .. MaxDepth
      BY <2>1, <2>3
    <3>2. ASSUME NEW c \in Chosen PROVE E[<<x[1] + 1, c>>] = D[<<x[1] + 1, c>>]
      <4> DEFINE y == <<x[1] + 1, c>>
      <4>1. y \in Stages
        BY <3>1, <2>1 DEF Stages, Chosen
      <4>2. MaxDepth + 1 - y[1] < n
        BY <2>1, <3>1
      <4>3. y \in LastStages(n)
        BY <4>1, <4>2 DEF LastStages
      <4> HIDE DEF y
      <4>4. E[y] = D[y]
        BY <4>3, <1>1
      <4> QED BY <4>4 DEF y
    <3>3. Deepened(t, f, x[1], x[2].left) \in Sofar
      BY <2>1, <3>1, DeepenedTyped DEF Chosen
    <3> DEFINE r == Deepened(t, f, x[1], x[2].left)
    <3> HIDE DEF r
    <3>4. Decide(E, x[1], x[2], r) = Decide(D, x[1], x[2], r)
      <4> DEFINE d == x[1]
      <4> DEFINE a == x[2]
      <4>1. r \in Sofar /\ d \in 1 .. MaxDepth /\ a \in Chosen
        BY <2>1, <3>1, <3>3 DEF r
      <4>2. \A c \in Chosen : E[<<d + 1, c>>] = D[<<d + 1, c>>]
        BY <3>2
      <4> HIDE DEF d, a
      <4>3. Decide(E, d, a, r) = Decide(D, d, a, r)
        BY <4>1, <4>2, DecideAsksNext
      <4> QED BY <4>3 DEF d, a
    <3> QED BY <3>4, Zenon DEF Stage, r
  <2> QED BY <2>2, <2>3
<1>3. ASSUME NEW x \in LastStages(n + 1) PROVE E[x] = Stage(t, f, E, x)
  <2>1. CASE x \in LastStages(n)
    BY <1>1, <1>2, <2>1
  <2>2. CASE x \notin LastStages(n)
    <3>1. E[x] = Stage(t, f, D, x)
      BY <2>2 DEF E
    <3> QED BY <1>2, <3>1
  <2> QED BY <2>1, <2>2
<1> QED BY <1>3

LEMMA DecisionsAreStages ==
  ASSUME SearchAssumption, NEW t, NEW f, IsTree(t, f)
  PROVE  \A x \in Stages : Decisions(t, f)[x] = Stage(t, f, Decisions(t, f), x)
<1> DEFINE T == {n \in Nat : \E D : \A x \in LastStages(n) : D[x] = Stage(t, f, D, x)}
<1>0. MaxDepth \in Nat
  BY DEF SearchAssumption
<1>1. 0 \in T
  <2>1. LastStages(0) = {}
    BY StageTyped DEF LastStages
  <2> QED BY <2>1
<1>2. ASSUME NEW n \in Nat, n \in T PROVE n + 1 \in T
  BY <1>2, DecisionsGrow
<1> HIDE DEF T
<1>3. MaxDepth + 1 \in T
  BY <1>0, <1>1, <1>2, Induction
<1>4. LastStages(MaxDepth + 1) = Stages
  BY <1>0, StageTyped DEF LastStages
<1>5. PICK D : \A x \in Stages : D[x] = Stage(t, f, D, x)
  BY <1>3, <1>4 DEF T
<1> DEFINE E == [x \in Stages |-> D[x]]
<1>6. ASSUME NEW x \in Stages PROVE Stage(t, f, E, x) = Stage(t, f, D, x)
  <2>1. x[1] \in 1 .. MaxDepth + 1 /\ x[2] \in Chosen
    BY StageTyped
  <2>2. CASE x[1] > MaxDepth
    BY <2>2 DEF Stage
  <2>3. CASE ~(x[1] > MaxDepth)
    <3>1. x[1] \in 1 .. MaxDepth
      BY <1>0, <2>1, <2>3
    <3>2. ASSUME NEW c \in Chosen PROVE E[<<x[1] + 1, c>>] = D[<<x[1] + 1, c>>]
      BY <1>0, <3>1 DEF Stages, Chosen
    <3>3. Deepened(t, f, x[1], x[2].left) \in Sofar
      BY <2>1, <3>1, DeepenedTyped DEF Chosen
    <3> HIDE DEF E
    <3> DEFINE r == Deepened(t, f, x[1], x[2].left)
    <3> HIDE DEF r
    <3>4. Decide(E, x[1], x[2], r) = Decide(D, x[1], x[2], r)
      <4> DEFINE d == x[1]
      <4> DEFINE a == x[2]
      <4>1. r \in Sofar /\ d \in 1 .. MaxDepth /\ a \in Chosen
        BY <2>1, <3>1, <3>3 DEF r
      <4>2. \A c \in Chosen : E[<<d + 1, c>>] = D[<<d + 1, c>>]
        BY <3>2
      <4> HIDE DEF d, a
      <4>3. Decide(E, d, a, r) = Decide(D, d, a, r)
        BY <4>1, <4>2, DecideAsksNext
      <4> QED BY <4>3 DEF d, a
    <3> QED BY <3>4, Zenon DEF Stage, r
  <2> QED BY <2>2, <2>3
<1>7. E = [x \in Stages |-> Stage(t, f, E, x)]
  <2>1. \A x \in Stages : D[x] = Stage(t, f, E, x)
    <3> HIDE DEF E
    <3> QED BY <1>5, <1>6
  <2>2. [x \in Stages |-> D[x]] = [x \in Stages |-> Stage(t, f, E, x)]
    <3> HIDE DEF E
    <3> QED BY <2>1
  <2> QED BY <2>2, Zenon
<1> HIDE DEF E
<1> DEFINE C == Decisions(t, f)
<1>8. C = CHOOSE r : r = [x \in Stages |-> Stage(t, f, r, x)]
  BY DEF Decisions, Stage, Deepened
<1> HIDE DEF C
<1>9. C = [x \in Stages |-> Stage(t, f, C, x)]
  BY <1>7, <1>8
<1>10. \A x \in Stages : C[x] = Stage(t, f, C, x)
  BY <1>9
<1> QED BY <1>10 DEF C

\* The choice, one deepening after the other.
LEMMA DecisionsDeepen ==
  ASSUME SearchAssumption, NEW t, NEW f, IsTree(t, f), NEW d \in 1 .. MaxDepth, NEW a \in Chosen
  PROVE  Decisions(t, f)[<<d, a>>] = Decide(Decisions(t, f), d, a, Deepened(t, f, d, a.left))
<1> DEFINE x == <<d, a>>
<1> DEFINE D == Decisions(t, f)
<1>1. x \in Stages /\ ~(d > MaxDepth)
  BY DEF Stages, Chosen, SearchAssumption
<1>2. D[x] = Stage(t, f, D, x)
  BY <1>1, DecisionsAreStages
<1>3. x[1] = d /\ x[2] = a
  OBVIOUS
<1> HIDE DEF x, D
<1> QED BY <1>1, <1>2, <1>3, Zenon DEF Stage, x, D

LEMMA DecisionsEnd ==
  ASSUME SearchAssumption, NEW t, NEW f, IsTree(t, f), NEW a \in Chosen
  PROVE  Decisions(t, f)[<<MaxDepth + 1, a>>] = a
<1> DEFINE c == MaxDepth + 1
<1> DEFINE x == <<c, a>>
<1> DEFINE D == Decisions(t, f)
<1>1. x \in Stages /\ c > MaxDepth
  BY DEF Stages, Chosen, SearchAssumption
<1>2. D[x] = Stage(t, f, D, x)
  BY <1>1, DecisionsAreStages
<1>3. x[1] = c /\ x[2] = a
  OBVIOUS
<1> HIDE DEF x, D, c
<1> QED BY <1>1, <1>2, <1>3, Zenon DEF Stage, x, D, c

-----------------------------------------------------------------------------
(* What the recursion would still come to, if it stood where the stack does *)

\* What a level has found, as the recursion has it, and where its loop is.
Frame(e, left, truncated) ==
  [value |-> e.best_value, way |-> e.best_direction, left |-> left, truncated |-> truncated]
Place(e) == IF e.is_entered THEN e.next ELSE 0

\* How a level goes on when the call for its pending way has come to w.
GoesOn(R, s, n, w) ==
  R[<<At(s, n), s[n].next, Tried(Frame(s[n], w.left, w.truncated), s[n].pending, w)>>]

\* The call for each level comes to v[n]; the one on top goes on by itself, each of
\* the others with what comes of the one above it.
Continues(R, s, left, truncated, v) ==
  /\ v \in [1 .. Len(s) -> Sofar]
  /\ v[Len(s)] = R[<<At(s, Len(s)), Place(s[Len(s)]), Frame(s[Len(s)], left, truncated)>>]
  /\ \A n \in 1 .. Len(s) - 1 : v[n] = GoesOn(R, s, n, v[n + 1])
ComesTo(R, s, left, truncated, r) ==
  \E v : Continues(R, s, left, truncated, v) /\ r = v[1]

LEMMA GoesOnSame ==
  ASSUME NEW R, NEW s, NEW z, NEW n \in Nat, NEW w,
         \A i \in 1 .. n : z[i] = s[i], n > 0
  PROVE  GoesOn(R, z, n, w) = GoesOn(R, s, n, w)
<1>1. z[n] = s[n] /\ \A i \in 1 .. n - 1 : z[i].pending = s[i].pending
  OBVIOUS
<1>2. At(z, n) = At(s, n)
  BY <1>1, AtSame
<1> QED BY <1>1, <1>2, Zenon DEF GoesOn

\* A turn of the loop on top.
LEMMA TopTurns ==
  ASSUME NEW R, NEW s \in Seq(Level), Len(s) > 0, NEW left, NEW truncated, NEW r,
         ComesTo(R, s, left, truncated, r),
         NEW e \in Level, NEW left2, NEW truncated2,
         R[<<At(s, Len(s)), Place(s[Len(s)]), Frame(s[Len(s)], left, truncated)>>]
           = R[<<At(s, Len(s)), Place(e), Frame(e, left2, truncated2)>>]
  PROVE  ComesTo(R, [s EXCEPT ![Len(s)] = e], left2, truncated2, r)
<1> DEFINE z == [s EXCEPT ![Len(s)] = e]
<1> DEFINE m == Len(s)
<1>1. PICK v : Continues(R, s, left, truncated, v) /\ r = v[1]
  BY DEF ComesTo
<1>2. m \in Nat /\ m \in 1 .. Len(s) /\ m > 0
  BY LenProperties
<1>3. /\ Len(z) = m /\ \A j \in 1 .. m : z[j] = IF j = m THEN e ELSE s[j]
  BY <1>2, ExceptSeq
<1>4. /\ v \in [1 .. m -> Sofar]
      /\ v[m] = R[<<At(s, m), Place(s[m]), Frame(s[m], left, truncated)>>]
      /\ \A n \in 1 .. m - 1 : v[n] = GoesOn(R, s, n, v[n + 1])
  BY <1>1 DEF Continues
<1>5. v[m] = R[<<At(s, m), Place(e), Frame(e, left2, truncated2)>>]
  BY <1>4
<1> HIDE DEF z, m
<1>6. z[m] = e /\ \A i \in 1 .. m - 1 : z[i] = s[i]
  <2>1. m \in 1 .. m /\ \A i \in 1 .. m - 1 : i \in 1 .. m /\ i # m
    BY <1>2
  <2> QED BY <1>3, <2>1
<1>7. At(z, m) = At(s, m)
  BY <1>2, <1>6, AtSame
<1>8. ASSUME NEW n \in 1 .. m - 1 PROVE v[n] = GoesOn(R, z, n, v[n + 1])
  <2>1. n \in Nat /\ n > 0 /\ \A i \in 1 .. n : z[i] = s[i]
    BY <1>2, <1>6
  <2>2. GoesOn(R, z, n, v[n + 1]) = GoesOn(R, s, n, v[n + 1])
    BY <2>1, GoesOnSame
  <2> QED BY <1>4, <2>2
<1>9. v[m] = R[<<At(z, m), Place(z[m]), Frame(z[m], left2, truncated2)>>]
  BY <1>5, <1>6, <1>7
<1>10. Continues(R, z, left2, truncated2, v)
  <2>1. Len(z) = m
    BY <1>3
  <2> QED BY <1>4, <1>8, <1>9, <2>1 DEF Continues
<1> QED BY <1>1, <1>10 DEF ComesTo, z, m

\* A way is taken: the call for it is on top.
Pushed(s, e) == Append([s EXCEPT ![Len(s)] = e], Opened)
IsTaken(R, s, left, truncated, e, left2, truncated2, w) ==
  LET p == At(s, Len(s))
  IN  /\ s \in Seq(Level) /\ Len(s) \in 1 .. MaxDepth /\ p \in Positions
      /\ e \in Level /\ e.pending \in 1 .. Branches /\ w \in Sofar
      /\ w = R[<<Append(p, e.pending), 0, Begun(left2, truncated2)>>]
      /\ R[<<p, Place(s[Len(s)]), Frame(s[Len(s)], left, truncated)>>]
           = R[<<p, e.next, Tried(Frame(e, w.left, w.truncated), e.pending, w)>>]

LEMMA TopCalls ==
  ASSUME SearchAssumption, NEW R, NEW s, NEW left, NEW truncated, NEW r, NEW e,
         NEW left2, NEW truncated2, NEW w,
         IsTaken(R, s, left, truncated, e, left2, truncated2, w),
         ComesTo(R, s, left, truncated, r)
  PROVE  ComesTo(R, Pushed(s, e), left2, truncated2, r)
<1>0. /\ s \in Seq(Level) /\ Len(s) \in 1 .. MaxDepth /\ At(s, Len(s)) \in Positions
      /\ e \in Level /\ e.pending \in 1 .. Branches /\ w \in Sofar
      /\ w = R[<<Append(At(s, Len(s)), e.pending), 0, Begun(left2, truncated2)>>]
      /\ R[<<At(s, Len(s)), Place(s[Len(s)]), Frame(s[Len(s)], left, truncated)>>]
           = R[<<At(s, Len(s)), e.next, Tried(Frame(e, w.left, w.truncated), e.pending, w)>>]
  BY DEF IsTaken
<1> DEFINE c == [s EXCEPT ![Len(s)] = e]
<1> DEFINE z == Append(c, Opened)
<1> DEFINE m == Len(s)
<1>1. PICK v : Continues(R, s, left, truncated, v) /\ r = v[1]
  BY DEF ComesTo
<1>2. m \in Nat /\ m \in 1 .. Len(s) /\ m > 0 /\ m + 1 > 0
  BY <1>0, LenProperties
<1>3. /\ c \in Seq(Level) /\ Len(c) = m
      /\ \A j \in 1 .. m : c[j] = IF j = m THEN e ELSE s[j]
  BY <1>0, <1>2, ExceptSeq
<1>4. /\ v \in [1 .. m -> Sofar]
      /\ v[m] = R[<<At(s, m), Place(s[m]), Frame(s[m], left, truncated)>>]
      /\ \A n \in 1 .. m - 1 : v[n] = GoesOn(R, s, n, v[n + 1])
  BY <1>1 DEF Continues
<1>5. v[m] = R[<<At(s, m), e.next, Tried(Frame(e, w.left, w.truncated), e.pending, w)>>]
  BY <1>0, <1>4
<1>6. w = R[<<Append(At(s, m), e.pending), 0, Begun(left2, truncated2)>>]
  BY <1>0
<1>7. /\ m \in 1 .. MaxDepth /\ At(s, m) \in Positions
      /\ e.pending \in 1 .. Branches /\ w \in Sofar
  BY <1>0
<1> HIDE DEF c
<1>8. /\ Len(z) = m + 1 /\ z[m + 1] = Opened
      /\ \A j \in 1 .. m : z[j] = c[j]
  <2>1. Opened \in Level
    BY OpenedTyped
  <2> HIDE DEF m
  <2> QED BY <1>3, <2>1, AppendProperties
<1> HIDE DEF z, m
<1>9. z[m] = e /\ \A i \in 1 .. m - 1 : z[i] = s[i]
  <2>1. m \in 1 .. m /\ \A i \in 1 .. m - 1 : i \in 1 .. m /\ i # m
    BY <1>2
  <2> QED BY <1>3, <1>8, <2>1
<1>10. At(z, m) = At(s, m)
  BY <1>2, <1>9, AtSame
<1>11. At(z, m + 1) = Append(At(s, m), e.pending)
  <2>1. At(z, m) \in Positions /\ z[m].pending \in 1 .. Branches
    BY <1>7, <1>9, <1>10
  <2>2. At(z, m + 1) = Append(At(z, m), z[m].pending)
    BY <1>7, <2>1, AtGrows
  <2> QED BY <1>9, <1>10, <2>2
<1> DEFINE u == [n \in 1 .. m + 1 |-> IF n = m + 1 THEN w ELSE v[n]]
<1>12. /\ u \in [1 .. m + 1 -> Sofar] /\ u[m + 1] = w
       /\ \A n \in 1 .. m : u[n] = v[n]
  <2>1. m \in Nat /\ m + 1 \in 1 .. m + 1
    BY <1>2
  <2>2. ASSUME NEW n \in 1 .. m PROVE n \in 1 .. m + 1 /\ n # m + 1
    BY <2>1
  <2>3. ASSUME NEW n \in 1 .. m + 1, n # m + 1 PROVE n \in 1 .. m
    BY <2>1, <2>3
  <2>4. v \in [1 .. m -> Sofar] /\ w \in Sofar
    BY <1>4, <1>7
  <2> QED BY <2>1, <2>2, <2>3, <2>4
<1> HIDE DEF u
<1>13. ASSUME NEW n \in 1 .. m PROVE u[n] = GoesOn(R, z, n, u[n + 1])
  <2>1. CASE n = m
    <3>1. u[n] = v[m] /\ u[n + 1] = w
      BY <1>12, <2>1
    <3>2. GoesOn(R, z, m, w) = R[<<At(s, m), e.next, Tried(Frame(e, w.left, w.truncated), e.pending, w)>>]
      BY <1>9, <1>10, Zenon DEF GoesOn
    <3> QED BY <1>5, <2>1, <3>1, <3>2
  <2>2. CASE n # m
    <3>1. n \in 1 .. m - 1 /\ n \in Nat /\ n > 0 /\ n + 1 \in 1 .. m
      BY <1>2, <2>2
    <3>2. \A i \in 1 .. n : z[i] = s[i]
      BY <1>2, <1>9, <3>1
    <3>3. GoesOn(R, z, n, v[n + 1]) = GoesOn(R, s, n, v[n + 1])
      BY <3>1, <3>2, GoesOnSame
    <3>4. u[n] = v[n] /\ u[n + 1] = v[n + 1]
      BY <1>12, <3>1
    <3> QED BY <1>4, <3>1, <3>3, <3>4
  <2> QED BY <2>1, <2>2
<1>14. u[m + 1] = R[<<At(z, m + 1), Place(z[m + 1]), Frame(z[m + 1], left2, truncated2)>>]
  <2>1. Place(Opened) = 0 /\ Frame(Opened, left2, truncated2) = Begun(left2, truncated2)
    BY DEF Place, Frame, Opened, Begun
  <2> QED BY <1>6, <1>8, <1>11, <1>12, <2>1
<1>15. Continues(R, z, left2, truncated2, u)
  <2>1. Len(z) = m + 1 /\ 1 .. Len(z) - 1 = 1 .. m
    BY <1>2, <1>8
  <2>2. u[Len(z)] = R[<<At(z, Len(z)), Place(z[Len(z)]), Frame(z[Len(z)], left2, truncated2)>>]
    BY <1>14, <2>1
  <2>3. \A n \in 1 .. Len(z) - 1 : u[n] = GoesOn(R, z, n, u[n + 1])
    BY <1>13, <2>1
  <2>4. u \in [1 .. Len(z) -> Sofar]
    BY <1>12, <2>1
  <2> QED BY <2>2, <2>3, <2>4, Zenon DEF Continues
<1>16. u[1] = r
  BY <1>1, <1>2, <1>12
<1> QED BY <1>15, <1>16 DEF ComesTo, Pushed, z, c, m

\* The call on top returns w to the level below it, the m-th.
IsReturned(R, s, m, left, truncated, w, z, left2, truncated2) ==
  /\ m \in Nat \ {0} /\ Len(s) = m + 1 /\ Len(z) = m
  /\ w = R[<<At(s, m + 1), Place(s[m + 1]), Frame(s[m + 1], left, truncated)>>]
  /\ \A i \in 1 .. m - 1 : z[i] = s[i]
  /\ Place(z[m]) = s[m].next
  /\ Frame(z[m], left2, truncated2)
       = Tried(Frame(s[m], w.left, w.truncated), s[m].pending, w)

LEMMA TopReturns ==
  ASSUME NEW R, NEW s, NEW m, NEW left, NEW truncated, NEW r, NEW w, NEW z, NEW left2,
         NEW truncated2,
         IsReturned(R, s, m, left, truncated, w, z, left2, truncated2),
         ComesTo(R, s, left, truncated, r)
  PROVE  ComesTo(R, z, left2, truncated2, r)
<1>0. /\ m \in Nat \ {0} /\ Len(s) = m + 1 /\ Len(z) = m
      /\ w = R[<<At(s, m + 1), Place(s[m + 1]), Frame(s[m + 1], left, truncated)>>]
      /\ \A i \in 1 .. m - 1 : z[i] = s[i]
      /\ Place(z[m]) = s[m].next
      /\ Frame(z[m], left2, truncated2)
           = Tried(Frame(s[m], w.left, w.truncated), s[m].pending, w)
  BY DEF IsReturned
<1>1. PICK v : Continues(R, s, left, truncated, v) /\ r = v[1]
  BY DEF ComesTo
<1>2. m + 1 - 1 = m
  BY <1>0
<1>3. /\ v \in [1 .. m + 1 -> Sofar]
      /\ v[m + 1] = w
      /\ \A n \in 1 .. m : v[n] = GoesOn(R, s, n, v[n + 1])
  BY <1>0, <1>1, <1>2 DEF Continues
<1>4. At(z, m) = At(s, m)
  BY <1>0, AtSame
<1> DEFINE u == [n \in 1 .. m |-> v[n]]
<1>5. /\ u \in [1 .. m -> Sofar] /\ \A n \in 1 .. m : u[n] = v[n]
  BY <1>0, <1>3
<1> HIDE DEF u
<1>6. u[m] = R[<<At(z, m), Place(z[m]), Frame(z[m], left2, truncated2)>>]
  <2>1. m \in 1 .. m
    BY <1>0
  <2>2. u[m] = v[m]
    BY <1>5, <2>1
  <2>3. v[m] = GoesOn(R, s, m, w)
    BY <1>3, <2>1
  <2> QED BY <1>0, <1>4, <2>2, <2>3 DEF GoesOn
<1>7. ASSUME NEW n \in 1 .. m - 1 PROVE u[n] = GoesOn(R, z, n, u[n + 1])
  <2>1. n \in Nat /\ n > 0 /\ n \in 1 .. m /\ n + 1 \in 1 .. m /\ \A i \in 1 .. n : z[i] = s[i]
    BY <1>0
  <2>2. GoesOn(R, z, n, v[n + 1]) = GoesOn(R, s, n, v[n + 1])
    BY <2>1, GoesOnSame
  <2>3. u[n] = v[n] /\ u[n + 1] = v[n + 1]
    BY <1>5, <2>1
  <2> QED BY <1>3, <2>1, <2>2, <2>3
<1>8. Continues(R, z, left2, truncated2, u)
  BY <1>0, <1>5, <1>6, <1>7 DEF Continues
<1>9. u[1] = r
  BY <1>0, <1>1, <1>5
<1> QED BY <1>8, <1>9 DEF ComesTo

-----------------------------------------------------------------------------
(* That the search comes to what the recursion would *)

\* A level says whether it has a best way in two ways, and only the one on top may
\* not have been looked at yet.
Framed ==
  is_deepening_active =>
    \A n \in 1 .. Len(level) :
      /\ level[n].has_branch <=> level[n].best_direction # NONE
      /\ level[n].is_entered \/ (n = Len(level) /\ level[n].next = 1)

\* Before the first deepening nothing has been chosen or spent.
NotBegun ==
  ~is_deepening_active /\ target_depth = 1 /\ ~is_finished
    => best = NONE /\ reached_depth = 0 /\ ticks_left = budget

SoChosen(left) == [best |-> best, reached |-> reached_depth, left |-> left]

\* What will be chosen stays what it was at the beginning: as chosen now, or to be
\* chosen from here on, or, within a deepening, once the stack has come to the end.
ChoiceStays ==
  ~is_mixed /\ pc # "new" /\ tree.running[<<>>] =>
    /\ is_finished => best = Decision.best /\ reached_depth = Decision.reached
    /\ ~is_finished /\ ~is_deepening_active
         => Decision = Decisions(tree, field)[<<target_depth, SoChosen(ticks_left)>>]
    /\ ~is_finished /\ is_deepening_active
         => \E r \in Sofar :
              /\ ComesTo(Recursion(tree, field, target_depth), level, ticks_left, is_truncated, r)
              /\ Decision = Decide(Decisions(tree, field), target_depth, SoChosen(0), r)

ChoiceInv == IInv /\ Framed /\ NotBegun /\ ChoiceStays

LEMMA TopStands ==
  ASSUME SearchAssumption, IInv
  PROVE  /\ IsTree(tree, field) /\ target_depth \in 1 .. MaxDepth
         /\ level \in Seq(Level) /\ Len(level) = top + 1 /\ top \in Nat /\ Len(level) > 0
         /\ Now = level[Len(level)] /\ Now \in Level
         /\ At(level, Len(level)) = position /\ position \in Positions /\ Len(position) = top
         /\ ticks_left \in Nat /\ is_truncated \in BOOLEAN
         /\ Frame(Now, ticks_left, is_truncated) \in Sofar
         /\ is_deepening_active /\ Now.is_entered => Len(position) < target_depth
<1>1. TypeOK /\ StackAgrees
  BY DEF IInv
<1>2. /\ level \in Seq(Level) /\ Len(level) = top + 1 /\ top \in Nat
      /\ At(level, top + 1) = position /\ position \in Positions /\ Len(position) = top
      /\ Now \in Level /\ target_depth \in 1 .. MaxDepth
  BY WhereItStands
<1>3. IsTree(tree, field)
  BY <1>1 DEF IsTree, TypeOK, SearchAssumption
<1>4. ticks_left \in Nat /\ is_truncated \in BOOLEAN
  BY <1>1 DEF TypeOK, FlagsOK
<1>5. Frame(Now, ticks_left, is_truncated) \in Sofar
  BY <1>2, <1>4 DEF Frame, Sofar, Level
<1>6. Now = level[Len(level)]
  BY <1>2 DEF Now
<1>7. ASSUME is_deepening_active, Now.is_entered PROVE Len(position) < target_depth
  <2>1. top + 1 \in 1 .. top + 1
    BY <1>2
  <2>2. top + 1 <= target_depth
    BY <1>1, <1>7, <2>1 DEF StackAgrees, Now
  <2> QED BY <1>2, <2>2
<1>8. Len(level) > 0 /\ At(level, Len(level)) = position
  BY <1>2
<1> QED BY <1>2, <1>3, <1>4, <1>5, <1>6, <1>7, <1>8

\* What is chosen is chosen of a tree, a field and a budget, and these stay.
LEMMA DecisionStays ==
  ASSUME tree' = tree, field' = field, budget' = budget
  PROVE  Decision' = Decision
BY DEF Decision

LEMMA ChoiceStart == ASSUME SearchAssumption, Init PROVE ChoiceInv
<1>1. IInv
  BY Start
<1>2. Framed /\ NotBegun /\ ChoiceStays
  BY DEF Init, Framed, NotBegun, ChoiceStays
<1> QED BY <1>1, <1>2 DEF ChoiceInv

LEMMA ChoiceRestart == ASSUME SearchAssumption, ChoiceInv, Restart, IInv' PROVE ChoiceInv'
<1>1. /\ is_deepening_active' = FALSE /\ target_depth' = 1 /\ ticks_left' = budget'
      /\ best' = NONE /\ reached_depth' = 0 /\ is_finished' = ~tree'.running[<<>>]
  BY DEF Restart
<1>2. Framed'
  BY <1>1 DEF Framed
<1>3. NotBegun'
  BY <1>1 DEF NotBegun
<1>4. SoChosen(ticks_left)' = [best |-> NONE, reached |-> 0, left |-> budget']
  BY <1>1 DEF SoChosen
<1>5. Decision' = Decisions(tree', field')[<<target_depth', SoChosen(ticks_left)'>>]
  BY <1>1, <1>4 DEF Decision
<1>6. ChoiceStays'
  BY <1>1, <1>5 DEF ChoiceStays
<1> QED BY <1>2, <1>3, <1>6 DEF ChoiceInv

\* Nothing but the food field and the place in the frame changes.
LEMMA ChoiceKept ==
  ASSUME SearchAssumption, ChoiceInv, IInv', pc # "new",
         UNCHANGED <<tree, budget, ticks_left, level, deepening, is_finished, answer>>,
         ~is_mixed' => ~is_mixed,
         ~is_mixed' /\ (is_deepening_active \/ target_depth > 1 \/ is_finished) => field' = field
  PROVE  ChoiceInv'
<1>1. UNCHANGED <<tree, budget, ticks_left, level, target_depth, is_deepening_active,
                 is_truncated, is_finished, best, reached_depth>>
  BY DEF deepening, answer
<1>2. Framed' /\ NotBegun'
  BY <1>1 DEF ChoiceInv, Framed, NotBegun
<1>3. ChoiceStays'
  <2> SUFFICES ASSUME ~is_mixed', tree'.running[<<>>]
               PROVE  ChoiceStays'
    BY DEF ChoiceStays
  <2>1. ~is_mixed /\ pc # "new" /\ tree.running[<<>>]
    BY <1>1
  <2>2. CASE is_deepening_active \/ target_depth > 1 \/ is_finished
    <3>1. field' = field /\ Decision' = Decision
      BY <1>1, <2>2, DecisionStays
    <3>2. SoChosen(ticks_left)' = SoChosen(ticks_left) /\ SoChosen(0)' = SoChosen(0)
      BY <1>1 DEF SoChosen
    <3> QED BY <1>1, <2>1, <3>1, <3>2 DEF ChoiceInv, ChoiceStays
  <2>3. CASE ~(is_deepening_active \/ target_depth > 1 \/ is_finished)
    <3>1. target_depth = 1
      BY <2>3, TopStands DEF ChoiceInv, SearchAssumption
    <3>2. best = NONE /\ reached_depth = 0 /\ ticks_left = budget
      BY <2>3, <3>1 DEF ChoiceInv, NotBegun
    <3>3. SoChosen(ticks_left)' = [best |-> NONE, reached |-> 0, left |-> budget']
      BY <1>1, <3>2 DEF SoChosen
    <3>4. Decision' = Decisions(tree', field')[<<target_depth', SoChosen(ticks_left)'>>]
      BY <1>1, <3>1, <3>3 DEF Decision
    <3>5. ~is_finished' /\ ~is_deepening_active'
      BY <1>1, <2>3
    <3> QED BY <3>4, <3>5 DEF ChoiceStays
  <2> QED BY <2>2, <2>3
<1> QED BY <1>2, <1>3 DEF ChoiceInv

LEMMA ChoiceThink == ASSUME SearchAssumption, ChoiceInv, Think, IInv' PROVE ChoiceInv'
<1>1. /\ UNCHANGED <<tree, budget, ticks_left, level, deepening, is_finished, answer>>
      /\ AdvanceFoodField /\ pc # "new"
  BY DEF Think
<1>2. ~is_mixed' => ~is_mixed
  BY <1>1 DEF AdvanceFoodField
<1>3. ~is_mixed' /\ (is_deepening_active \/ target_depth > 1 \/ is_finished) => field' = field
  BY <1>1 DEF AdvanceFoodField
<1> QED BY <1>1, <1>2, <1>3, ChoiceKept

\* What has been paid for before a deepening is not what it leaves.
LEMMA DecideForgets ==
  ASSUME NEW D, NEW d, NEW r, NEW left, NEW left2
  PROVE  Decide(D, d, SoChosen(left), r) = Decide(D, d, SoChosen(left2), r)
<1>1. [SoChosen(left) EXCEPT !.left = r.left] = [SoChosen(left2) EXCEPT !.left = r.left]
  BY DEF SoChosen
<1>2. SoChosen(left).best = SoChosen(left2).best
  BY DEF SoChosen
<1>3. SoChosen(left).reached = SoChosen(left2).reached
  BY DEF SoChosen
<1> QED BY <1>1, <1>2, <1>3 DEF Decide

LEMMA ChosenTyped ==
  ASSUME SearchAssumption, IInv, NEW left \in Nat
  PROVE  SoChosen(left) \in Chosen
BY DEF IInv, TypeOK, SoChosen, Chosen

LEMMA ChoiceBegin ==
  ASSUME SearchAssumption, ChoiceInv, BeginDeepening, IInv' PROVE ChoiceInv'
<1>1. /\ level' = <<Opened>> /\ is_deepening_active' = TRUE /\ is_truncated' = FALSE
      /\ pc = "thinking" /\ ~is_finished /\ ~is_deepening_active
      /\ UNCHANGED <<tree, budgets, pc, target_depth, is_finished, answer, food>>
  BY DEF BeginDeepening, Looping
<1>2. UNCHANGED <<field, is_mixed, budget, ticks_left, best, reached_depth>>
  BY <1>1 DEF food, budgets, answer
<1>3. Len(<<Opened>>) = 1 /\ <<Opened>>[1] = Opened
  OBVIOUS
<1>4. Framed'
  BY <1>1, <1>3 DEF Framed, Opened
<1>5. NotBegun'
  BY <1>1 DEF NotBegun
<1>6. ChoiceStays'
  <2> SUFFICES ASSUME ~is_mixed', tree'.running[<<>>]
               PROVE  \E r \in Sofar :
                        /\ ComesTo(Recursion(tree, field, target_depth), <<Opened>>, ticks_left, FALSE, r)
                        /\ Decision = Decide(Decisions(tree, field), target_depth, SoChosen(0), r)
    <3>1. Decision' = Decision /\ SoChosen(0)' = SoChosen(0)
      BY <1>1, <1>2, DecisionStays DEF SoChosen
    <3> QED BY <1>1, <1>2, <3>1 DEF ChoiceStays
  <2> DEFINE R == Recursion(tree, field, target_depth)
  <2> DEFINE r == Deepened(tree, field, target_depth, ticks_left)
  <2>1. /\ IsTree(tree, field) /\ target_depth \in 1 .. MaxDepth /\ ticks_left \in Nat
        /\ SoChosen(ticks_left) \in Chosen
    BY TopStands, ChosenTyped DEF ChoiceInv
  <2>2. r \in Sofar
    BY <2>1, DeepenedTyped
  <2>3. Decision = Decisions(tree, field)[<<target_depth, SoChosen(ticks_left)>>]
    BY <1>1, <1>2 DEF ChoiceInv, ChoiceStays
  <2>4. Decision = Decide(Decisions(tree, field), target_depth, SoChosen(ticks_left), r)
    <3>1. SoChosen(ticks_left).left = ticks_left
      BY DEF SoChosen
    <3> QED BY <2>1, <2>3, <3>1, DecisionsDeepen
  <2>5. Decision = Decide(Decisions(tree, field), target_depth, SoChosen(0), r)
    BY <2>4, DecideForgets
  <2>6. At(<<Opened>>, 1) = <<>>
    <3> DEFINE s == <<Opened>>
    <3>1. At(s, 1) = [i \in 1 .. 0 |-> s[i].pending]
      BY DEF At
    <3>2. At(s, 1) \in [1 .. 0 -> {s[i].pending : i \in 1 .. 0}]
      BY <3>1
    <3> QED BY <3>2, EmptySeq, LenProperties, SeqDef
  <2>7. ComesTo(R, <<Opened>>, ticks_left, FALSE, r)
    <3> DEFINE s == <<Opened>>
    <3> DEFINE v == [n \in 1 .. 1 |-> r]
    <3>1. v \in [1 .. 1 -> Sofar] /\ v[1] = r
      BY <2>2
    <3>2. /\ Place(Opened) = 0
          /\ Frame(Opened, ticks_left, FALSE) = Begun(ticks_left, FALSE)
      BY DEF Place, Frame, Opened, Begun
    <3>3. r = R[<<At(s, 1), Place(s[1]), Frame(s[1], ticks_left, FALSE)>>]
      BY <1>3, <2>6, <3>2 DEF Deepened
    <3> HIDE DEF v, s, r, R
    <3>4. Len(s) = 1
      BY DEF s
    <3>5. Continues(R, s, ticks_left, FALSE, v)
      BY <3>1, <3>3, <3>4 DEF Continues
    <3> QED BY <3>1, <3>5 DEF ComesTo, s
  <2> QED BY <2>2, <2>5, <2>7
<1> QED BY <1>4, <1>5, <1>6 DEF ChoiceInv

\* A turn within a deepening, which the recursion takes too.
LEMMA ChoiceTurns ==
  ASSUME SearchAssumption, ChoiceInv, IInv', Framed',
         is_deepening_active, ~is_finished, pc' = "thinking", pc = "thinking",
         UNCHANGED <<tree, budget, target_depth, is_deepening_active, is_finished,
                     answer, food>>,
         \A r \in Sofar :
           ComesTo(Recursion(tree, field, target_depth), level, ticks_left, is_truncated, r)
             => ComesTo(Recursion(tree, field, target_depth), level', ticks_left', is_truncated', r)
  PROVE  ChoiceInv'
<1>1. UNCHANGED <<best, reached_depth, field, is_mixed>>
  BY DEF answer, food
<1>2. NotBegun'
  BY DEF NotBegun
<1>3. Decision' = Decision /\ SoChosen(0)' = SoChosen(0)
  BY <1>1, DecisionStays DEF SoChosen
<1>4. ChoiceStays'
  BY <1>1, <1>3 DEF ChoiceInv, ChoiceStays
<1> QED BY <1>2, <1>4 DEF ChoiceInv

\* The level on top becomes e, which has looked at its position.
LEMMA FramedTop ==
  ASSUME SearchAssumption, ChoiceInv, is_deepening_active, NEW e \in Level,
         e.is_entered, e.has_branch = Now.has_branch, e.best_direction = Now.best_direction,
         level' = [level EXCEPT ![top + 1] = e]
  PROVE  Framed'
<1>1. /\ level \in Seq(Level) /\ Len(level) = top + 1 /\ top \in Nat
      /\ Now = level[Len(level)]
  BY TopStands DEF ChoiceInv
<1>2. /\ Len(level') = top + 1 /\ level'[top + 1] = e
      /\ \A n \in 1 .. top : level'[n] = level[n]
  BY ChangedStack DEF ChoiceInv, IInv
<1>3. \A n \in 1 .. top + 1 :
        /\ level[n].has_branch <=> level[n].best_direction # NONE
        /\ level[n].is_entered \/ n = top + 1
  BY <1>1 DEF ChoiceInv, Framed
<1>4. ASSUME NEW n \in 1 .. top + 1
      PROVE  /\ level'[n].has_branch <=> level'[n].best_direction # NONE
             /\ level'[n].is_entered
  <2>1. CASE n = top + 1
    <3>1. e.has_branch <=> e.best_direction # NONE
      <4>1. Now.has_branch <=> Now.best_direction # NONE
        BY <1>1, <1>3
      <4> QED BY <4>1
    <3> QED BY <1>2, <2>1, <3>1
  <2>2. CASE n # top + 1
    <3>1. n \in 1 .. top
      BY <1>1, <2>2
    <3> QED BY <1>2, <1>3, <2>2, <3>1
  <2> QED BY <2>1, <2>2
<1> QED BY <1>2, <1>4 DEF Framed

\* A turn on top that takes no way.
LEMMA ChoiceTop ==
  ASSUME SearchAssumption, ChoiceInv, IInv', is_deepening_active, ~is_finished,
         pc' = "thinking", pc = "thinking",
         UNCHANGED <<tree, budget, target_depth, is_deepening_active, is_finished,
                     answer, food>>,
         NEW e \in Level, e.is_entered, e.has_branch = Now.has_branch,
         e.best_direction = Now.best_direction, level' = [level EXCEPT ![top + 1] = e],
         LET R == Recursion(tree, field, target_depth)
         IN  R[<<position, Place(Now), Frame(Now, ticks_left, is_truncated)>>]
               = R[<<position, e.next, Frame(e, ticks_left', is_truncated')>>]
  PROVE  ChoiceInv'
<1> DEFINE R == Recursion(tree, field, target_depth)
<1>1. Framed'
  BY FramedTop
<1>2. /\ level \in Seq(Level) /\ Len(level) > 0 /\ Len(level) = top + 1
      /\ Now = level[Len(level)] /\ At(level, Len(level)) = position
  BY TopStands DEF ChoiceInv
<1>3. R[<<position, Place(Now), Frame(Now, ticks_left, is_truncated)>>]
        = R[<<position, Place(e), Frame(e, ticks_left', is_truncated')>>]
  BY DEF Place
<1>4. level' = [level EXCEPT ![Len(level)] = e]
  BY <1>2
<1> HIDE DEF R
<1>6. R[<<At(level, Len(level)), Place(level[Len(level)]),
          Frame(level[Len(level)], ticks_left, is_truncated)>>]
        = R[<<At(level, Len(level)), Place(e), Frame(e, ticks_left', is_truncated')>>]
  BY <1>2, <1>3
<1>5. ASSUME NEW r \in Sofar, ComesTo(R, level, ticks_left, is_truncated, r)
      PROVE  ComesTo(R, level', ticks_left', is_truncated', r)
  <2>1. ComesTo(R, [level EXCEPT ![Len(level)] = e], ticks_left', is_truncated', r)
    BY <1>2, <1>5, <1>6, TopTurns
  <2> QED BY <1>4, <2>1
<1> QED BY <1>1, <1>5, ChoiceTurns DEF R

LEMMA ChoiceEnter == ASSUME SearchAssumption, ChoiceInv, Enter, IInv' PROVE ChoiceInv'
<1> DEFINE e == [Now EXCEPT !.is_entered = TRUE]
<1> DEFINE s == Frame(Now, ticks_left, is_truncated)
<1>1. /\ UNCHANGED <<tree, budgets, pc, deepening, is_finished, answer, food>>
      /\ ~Now.is_entered /\ ~IsLeaf /\ pc = "thinking" /\ is_deepening_active /\ ~is_finished
      /\ level' = [level EXCEPT ![top + 1].is_entered = TRUE]
  BY DEF Enter, Looping
<1>2. UNCHANGED <<budget, ticks_left, target_depth, is_deepening_active, is_truncated>>
  BY <1>1 DEF budgets, deepening
<1>3. /\ IsTree(tree, field) /\ target_depth \in 1 .. MaxDepth
      /\ Now \in Level /\ position \in Positions /\ Len(position) = top /\ s \in Sofar
      /\ Now = level[Len(level)] /\ Len(level) = top + 1 /\ top \in Nat
  BY TopStands DEF ChoiceInv
<1>4. level' = [level EXCEPT ![top + 1] = e]
  BY <1>1 DEF Now
<1>5. Now.next = 1
  <2>1. Len(level) \in 1 .. Len(level)
    BY <1>3
  <2> QED BY <1>1, <1>3, <2>1 DEF ChoiceInv, Framed
<1>6. /\ e \in Level /\ e.is_entered /\ e.next = 1
      /\ e.has_branch = Now.has_branch /\ e.best_value = Now.best_value
      /\ e.best_direction = Now.best_direction
  BY <1>3, <1>5 DEF Level
<1>7. Frame(e, ticks_left, is_truncated) = s /\ Place(Now) = 0
  BY <1>1, <1>6 DEF Frame, Place
<1>8. ~(Len(position) >= target_depth \/ s.left = 0 \/ ~tree.running[position])
  BY <1>1, <1>3 DEF IsLeaf, Frame
<1> HIDE DEF e, s
<1>9. Recursion(tree, field, target_depth)[<<position, 0, s>>]
        = Recursion(tree, field, target_depth)[<<position, 1, s>>]
  BY <1>3, <1>8, RecursionComes
<1>10. LET R == Recursion(tree, field, target_depth)
       IN  R[<<position, Place(Now), Frame(Now, ticks_left, is_truncated)>>]
             = R[<<position, e.next, Frame(e, ticks_left', is_truncated')>>]
  BY <1>2, <1>6, <1>7, <1>9 DEF s
<1> QED BY <1>1, <1>2, <1>4, <1>6, <1>10, ChoiceTop

\* Where a branch is to be looked at.
LEMMA BranchStands ==
  ASSUME SearchAssumption, ChoiceInv, NEW b \in 1 .. Branches, AtBranch(b)
  PROVE  /\ pc = "thinking" /\ is_deepening_active /\ ~is_finished
         /\ Now.is_entered /\ Place(Now) = b /\ Now.next = b /\ Now \in Level
         /\ IsTree(tree, field) /\ target_depth \in 1 .. MaxDepth
         /\ position \in Positions /\ Len(position) < target_depth
         /\ Frame(Now, ticks_left, is_truncated) \in Sofar
<1>1. /\ pc = "thinking" /\ is_deepening_active /\ ~is_finished
      /\ Now.is_entered /\ Now.next = b
  BY DEF AtBranch, Looping
<1> QED BY <1>1, TopStands DEF ChoiceInv, Place

\* The level on top goes on to another branch.
SkipTo(e, c) == [e EXCEPT !.next = c]
LEMMA SkippedTo ==
  ASSUME NEW e \in Level, NEW c \in 1 .. Branches + 1, NEW left, NEW truncated
  PROVE  /\ SkipTo(e, c) \in Level /\ SkipTo(e, c).next = c
         /\ SkipTo(e, c).is_entered = e.is_entered
         /\ SkipTo(e, c).has_branch = e.has_branch
         /\ SkipTo(e, c).best_direction = e.best_direction
         /\ Frame(SkipTo(e, c), left, truncated) = Frame(e, left, truncated)
<1> DEFINE z == SkipTo(e, c)
<1>1. /\ z \in Level /\ z.next = c /\ z.is_entered = e.is_entered
      /\ z.has_branch = e.has_branch /\ z.best_value = e.best_value
      /\ z.best_direction = e.best_direction
  BY DEF Level, SkipTo
<1> HIDE DEF z
<1>2. Frame(z, left, truncated) = Frame(e, left, truncated)
  BY <1>1 DEF Frame
<1> QED BY <1>1, <1>2 DEF z

LEMMA FrameFields ==
  ASSUME NEW e, NEW left, NEW truncated
  PROVE  /\ Frame(e, left, truncated).left = left
         /\ Frame(e, left, truncated).truncated = truncated
         /\ Frame(e, left, truncated).value = e.best_value
         /\ Frame(e, left, truncated).way = e.best_direction
BY DEF Frame

LEMMA FrameStops ==
  ASSUME NEW e \in Level, NEW left \in Nat, NEW truncated \in BOOLEAN
  PROVE  Stopped(Frame(e, left, truncated)) = Frame(e, left, TRUE)
<1> DEFINE s == Frame(e, left, truncated)
<1> DEFINE z == Frame(e, left, TRUE)
<1>1. s \in Sofar /\ z \in Sofar
  BY DEF Frame, Sofar, Level
<1>2. s.value = z.value /\ s.way = z.way /\ s.left = z.left /\ z.truncated = TRUE
  BY DEF Frame
<1> HIDE DEF s, z
<1>3. Stopped(s) = z
  BY <1>1, <1>2 DEF Sofar, Stopped
<1> QED BY <1>3 DEF s, z

LEMMA FrameWithout ==
  ASSUME NEW e \in Level, NEW left \in Nat, NEW truncated \in BOOLEAN,
         NEW n \in Nat, NEW rest \in Nat, rest = left - n
  PROVE  Without(Frame(e, left, truncated), n) = Frame(e, rest, truncated)
<1> DEFINE s == Frame(e, left, truncated)
<1> DEFINE z == Frame(e, rest, truncated)
<1>1. s \in Sofar /\ z \in Sofar
  BY DEF Frame, Sofar, Level
<1>2. /\ s.value = z.value /\ s.way = z.way /\ z.left = s.left - n
      /\ s.truncated = z.truncated
  BY DEF Frame
<1> HIDE DEF s, z
<1>3. Without(s, n) = z
  BY <1>1, <1>2 DEF Sofar, Without
<1> QED BY <1>3 DEF s, z

LEMMA ChoiceWall == ASSUME SearchAssumption, ChoiceInv, Wall, IInv' PROVE ChoiceInv'
<1>1. PICK b \in (1 .. Branches) \ tree.open[position] : AtBranch(b)
  BY DEF Wall
<1> DEFINE e == SkipTo(Now, b + 1)
<1> DEFINE s == Frame(Now, ticks_left, is_truncated)
<1>2. /\ UNCHANGED <<tree, budgets, pc, deepening, is_finished, answer, food>>
      /\ level' = [level EXCEPT ![top + 1].next = @ + 1]
  BY DEF Wall
<1>3. UNCHANGED <<budget, ticks_left, target_depth, is_deepening_active, is_truncated>>
  BY <1>2 DEF budgets, deepening
<1>4. /\ pc = "thinking" /\ is_deepening_active /\ ~is_finished
      /\ Now.is_entered /\ Place(Now) = b /\ Now.next = b /\ Now \in Level
      /\ IsTree(tree, field) /\ target_depth \in 1 .. MaxDepth
      /\ position \in Positions /\ Len(position) < target_depth /\ s \in Sofar
  BY <1>1, BranchStands
<1>5. level' = [level EXCEPT ![top + 1] = e]
  BY <1>2, <1>4 DEF Now, SkipTo
<1>6. /\ e \in Level /\ e.next = b + 1 /\ e.is_entered = Now.is_entered
      /\ e.has_branch = Now.has_branch /\ e.best_direction = Now.best_direction
      /\ Frame(e, ticks_left, is_truncated) = s
  <2> DEFINE c == b + 1
  <2>1. c \in 1 .. Branches + 1
    BY DEF SearchAssumption
  <2> HIDE DEF c
  <2>2. /\ SkipTo(Now, c) \in Level /\ SkipTo(Now, c).next = c
        /\ SkipTo(Now, c).is_entered = Now.is_entered
        /\ SkipTo(Now, c).has_branch = Now.has_branch
        /\ SkipTo(Now, c).best_direction = Now.best_direction
        /\ Frame(SkipTo(Now, c), ticks_left, is_truncated) = Frame(Now, ticks_left, is_truncated)
    <3>1. Now \in Level
      BY <1>4
    <3> QED BY <2>1, <3>1, SkippedTo
  <2> QED BY <2>2 DEF c
<1> HIDE DEF e, s
<1>7. Recursion(tree, field, target_depth)[<<position, b, s>>]
        = Recursion(tree, field, target_depth)[<<position, b + 1, s>>]
  <2> DEFINE R == Recursion(tree, field, target_depth)
  <2> DEFINE to == Append(position, b)
  <2> DEFINE spent == CostOf(tree, to, s.left)
  <2>1. R[<<position, b, s>>] = Turn(tree, R, position, b, s, to, spent)
    BY <1>4, RecursionTurns
  <2> HIDE DEF R, to, spent
  <2>2. Turn(tree, R, position, b, s, to, spent) = R[<<position, b + 1, s>>]
    BY <1>1, Zenon DEF Turn
  <2> QED BY <2>1, <2>2, Zenon DEF R
<1>8. LET R == Recursion(tree, field, target_depth)
      IN  R[<<position, Place(Now), Frame(Now, ticks_left, is_truncated)>>]
            = R[<<position, e.next, Frame(e, ticks_left', is_truncated')>>]
  BY <1>3, <1>4, <1>6, <1>7 DEF s
<1> QED BY <1>2, <1>3, <1>4, <1>5, <1>6, <1>8, ChoiceTop

LEMMA ChoiceOutOfBudget ==
  ASSUME SearchAssumption, ChoiceInv, OutOfBudget, IInv' PROVE ChoiceInv'
<1>1. PICK b \in tree.open[position] : AtBranch(b)
  BY DEF OutOfBudget
<1> DEFINE e == SkipTo(Now, Branches + 1)
<1> DEFINE s == Frame(Now, ticks_left, is_truncated)
<1>2. /\ UNCHANGED <<tree, budgets, pc, target_depth, is_deepening_active, is_finished, answer, food>>
      /\ level' = [level EXCEPT ![top + 1].next = Branches + 1]
      /\ ticks_left = 0 /\ is_truncated' = TRUE
  BY DEF OutOfBudget
<1>3. UNCHANGED <<budget, ticks_left>>
  BY <1>2 DEF budgets
<1>4. b \in 1 .. Branches
  BY TreeTyped DEF ChoiceInv, IInv
<1>5. /\ pc = "thinking" /\ is_deepening_active /\ ~is_finished
      /\ Now.is_entered /\ Place(Now) = b /\ Now.next = b /\ Now \in Level
      /\ IsTree(tree, field) /\ target_depth \in 1 .. MaxDepth
      /\ position \in Positions /\ Len(position) < target_depth /\ s \in Sofar
  BY <1>1, <1>4, BranchStands
<1>6. level' = [level EXCEPT ![top + 1] = e]
  BY <1>2 DEF Now, SkipTo
<1>7. /\ e \in Level /\ e.next = Branches + 1 /\ e.is_entered = Now.is_entered
      /\ e.has_branch = Now.has_branch /\ e.best_direction = Now.best_direction
      /\ Frame(e, ticks_left, TRUE) = Frame(Now, ticks_left, TRUE)
  <2> DEFINE c == Branches + 1
  <2>1. c \in 1 .. Branches + 1
    BY DEF SearchAssumption
  <2> HIDE DEF c
  <2>2. /\ SkipTo(Now, c) \in Level /\ SkipTo(Now, c).next = c
        /\ SkipTo(Now, c).is_entered = Now.is_entered
        /\ SkipTo(Now, c).has_branch = Now.has_branch
        /\ SkipTo(Now, c).best_direction = Now.best_direction
        /\ Frame(SkipTo(Now, c), ticks_left, TRUE) = Frame(Now, ticks_left, TRUE)
    <3> DEFINE yes == TRUE
    <3>1. Now \in Level
      BY <1>5
    <3> HIDE DEF yes
    <3>2. Frame(SkipTo(Now, c), ticks_left, yes) = Frame(Now, ticks_left, yes)
      BY <2>1, <3>1, SkippedTo
    <3> QED BY <2>1, <3>1, <3>2, SkippedTo DEF yes
  <2> QED BY <2>2 DEF c
<1>8. s.left = 0 /\ Stopped(s) = Frame(Now, ticks_left, TRUE)
  <2>1. ticks_left \in Nat /\ is_truncated \in BOOLEAN
    BY TopStands DEF ChoiceInv
  <2>2. Stopped(s) = Frame(Now, ticks_left, TRUE)
    BY <1>5, <2>1, FrameStops
  <2>3. s.left = ticks_left
    BY FrameFields
  <2> QED BY <1>2, <2>2, <2>3
<1> HIDE DEF e, s
<1>9. Recursion(tree, field, target_depth)[<<position, b, s>>]
        = Recursion(tree, field, target_depth)[<<position, Branches + 1, Stopped(s)>>]
  <2> DEFINE R == Recursion(tree, field, target_depth)
  <2> DEFINE to == Append(position, b)
  <2> DEFINE spent == CostOf(tree, to, s.left)
  <2>1. R[<<position, b, s>>] = Turn(tree, R, position, b, s, to, spent)
    BY <1>4, <1>5, RecursionTurns
  <2> HIDE DEF R, to, spent
  <2>2. Turn(tree, R, position, b, s, to, spent) = R[<<position, Branches + 1, Stopped(s)>>]
    BY <1>1, <1>8, Zenon DEF Turn
  <2> QED BY <2>1, <2>2, Zenon DEF R
<1>10. LET R == Recursion(tree, field, target_depth)
       IN  R[<<position, Place(Now), Frame(Now, ticks_left, is_truncated)>>]
             = R[<<position, e.next, Frame(e, ticks_left', is_truncated')>>]
  BY <1>2, <1>3, <1>5, <1>7, <1>8, <1>9 DEF s
<1> QED BY <1>2, <1>3, <1>5, <1>6, <1>7, <1>10, ChoiceTop

LEMMA ChoicePause == ASSUME SearchAssumption, ChoiceInv, Pause \/ Return, IInv' PROVE ChoiceInv'
<1>1. /\ UNCHANGED <<tree, budgets, level, deepening, is_finished, answer, food>>
      /\ pc = "thinking"
  BY DEF Pause, Return, AtBranch, Looping
<1>2. /\ UNCHANGED <<tree, budget, ticks_left, level, deepening, is_finished, answer>>
      /\ field' = field /\ is_mixed' = is_mixed
  BY <1>1 DEF budgets, food
<1> QED BY <1>1, <1>2, ChoiceKept

LEMMA ChoiceStutter ==
  ASSUME SearchAssumption, ChoiceInv, UNCHANGED vars, IInv' PROVE ChoiceInv'
<1>1. /\ UNCHANGED <<tree, budget, ticks_left, level, deepening, is_finished, answer>>
      /\ field' = field /\ is_mixed' = is_mixed /\ pc' = pc
  BY DEF vars, budgets, food
<1>2. CASE pc # "new"
  BY <1>1, <1>2, ChoiceKept
<1>3. CASE pc = "new"
  <2>1. Framed' /\ NotBegun'
    <3>1. UNCHANGED <<budget, ticks_left, level, target_depth, is_deepening_active,
                      is_finished, best, reached_depth>>
      BY <1>1 DEF deepening, answer
    <3> QED BY <3>1 DEF ChoiceInv, Framed, NotBegun
  <2>2. ChoiceStays'
    BY <1>1, <1>3 DEF ChoiceStays
  <2> QED BY <2>1, <2>2 DEF ChoiceInv
<1> QED BY <1>2, <1>3

\* Of what was known before a way is tried, only the best is kept.
LEMMA TriedForgets ==
  ASSUME NEW x \in Level, NEW y \in Level, x.best_value = y.best_value,
         x.best_direction = y.best_direction, NEW left \in Nat, NEW truncated \in BOOLEAN,
         NEW b \in 1 .. Branches, NEW w \in Sofar
  PROVE  Tried(Frame(x, left, truncated), b, w) = Tried(Frame(y, w.left, w.truncated), b, w)
<1> DEFINE s == Frame(x, left, truncated)
<1> DEFINE z == Frame(y, w.left, w.truncated)
<1>1. s \in Sofar /\ z \in Sofar
  BY DEF Frame, Sofar, Level
<1>2. s.value = z.value /\ s.way = z.way
  BY DEF Frame
<1> HIDE DEF s, z
<1>3. [s EXCEPT !.left = w.left, !.truncated = w.truncated]
        = [z EXCEPT !.left = w.left, !.truncated = w.truncated]
  BY <1>1, <1>2 DEF Sofar
<1>4. Tried(s, b, w) = Tried(z, b, w)
  BY <1>2, <1>3, Zenon DEF Tried
<1> QED BY <1>4 DEF s, z

\* A way is taken on top: the level for it is on the stack.
LEMMA FramedTaken ==
  ASSUME SearchAssumption, ChoiceInv, is_deepening_active, NEW e \in Level,
         e.is_entered, e.has_branch = Now.has_branch, e.best_direction = Now.best_direction,
         level' = Append([level EXCEPT ![top + 1] = e], Opened)
  PROVE  Framed'
<1> DEFINE c == [level EXCEPT ![top + 1] = e]
<1>1. /\ level \in Seq(Level) /\ Len(level) = top + 1 /\ top \in Nat
      /\ Now = level[Len(level)]
  BY TopStands DEF ChoiceInv
<1>2. /\ c \in Seq(Level) /\ Len(c) = top + 1 /\ c[top + 1] = e
      /\ \A n \in 1 .. top : c[n] = level[n]
  BY ChangedStack DEF ChoiceInv, IInv
<1> HIDE DEF c
<1>3. /\ Len(level') = top + 2 /\ level'[top + 2] = Opened
      /\ \A n \in 1 .. top + 1 : level'[n] = c[n]
  <2>1. Opened \in Level /\ level' = Append(c, Opened)
    BY OpenedTyped DEF c
  <2> QED BY <1>1, <1>2, <2>1, AppendProperties
<1>4. \A n \in 1 .. top + 1 :
        /\ level[n].has_branch <=> level[n].best_direction # NONE
        /\ level[n].is_entered \/ n = top + 1
  BY <1>1 DEF ChoiceInv, Framed
<1>5. Now.has_branch <=> Now.best_direction # NONE
  BY <1>1, <1>4
<1>6. ASSUME NEW n \in 1 .. top + 1
      PROVE  /\ level'[n].has_branch <=> level'[n].best_direction # NONE
             /\ level'[n].is_entered
  <2>1. CASE n = top + 1
    <3>1. level'[n] = e
      BY <1>2, <1>3, <2>1
    <3> QED BY <1>5, <3>1
  <2>2. CASE n # top + 1
    <3>1. n \in 1 .. top
      BY <1>1, <2>2
    <3> QED BY <1>2, <1>3, <1>4, <2>2, <3>1
  <2> QED BY <2>1, <2>2
<1>7. ASSUME NEW n \in 1 .. top + 2
      PROVE  /\ level'[n].has_branch <=> level'[n].best_direction # NONE
             /\ level'[n].is_entered \/ (n = top + 2 /\ level'[n].next = 1)
  <2>1. CASE n = top + 2
    BY <1>3, <2>1 DEF Opened
  <2>2. CASE n # top + 2
    <3>1. n \in 1 .. top + 1
      BY <1>1, <2>2
    <3> QED BY <1>6, <3>1
  <2> QED BY <2>1, <2>2
<1> QED BY <1>3, <1>7 DEF Framed

\* What a leg costs, as the recursion has it.
LEMMA LegCosts ==
  ASSUME SearchAssumption, ChoiceInv, NEW b \in 1 .. Branches, Len(position) < target_depth
  PROVE  /\ Append(position, b) \in Positions
         /\ Spent(Append(position, b)) = CostOf(tree, Append(position, b), ticks_left)
         /\ Spent(Append(position, b)) \in Nat
         /\ ticks_left - Spent(Append(position, b)) \in Nat
<1>1. top + 1 <= target_depth
  BY TopStands DEF ChoiceInv, SearchAssumption
<1>2. LET to == Append(position, b)
      IN  to \in Positions /\ Spent(to) \in Nat /\ ticks_left - Spent(to) \in Nat
  BY <1>1, LegTyped DEF ChoiceInv
<1>3. Spent(Append(position, b)) = CostOf(tree, Append(position, b), ticks_left)
  BY DEF Spent, CostOf
<1> QED BY <1>2, <1>3

\* The level on top takes the way b.
TakenTo(e, b, c) == [SkipTo(e, c) EXCEPT !.pending = b]
LEMMA TakenTyped ==
  ASSUME NEW e \in Level, NEW b \in 1 .. Branches, NEW c \in 1 .. Branches + 1
  PROVE  /\ TakenTo(e, b, c) \in Level /\ TakenTo(e, b, c).next = c
         /\ TakenTo(e, b, c).pending = b
         /\ TakenTo(e, b, c).is_entered = e.is_entered
         /\ TakenTo(e, b, c).has_branch = e.has_branch
         /\ TakenTo(e, b, c).best_value = e.best_value
         /\ TakenTo(e, b, c).best_direction = e.best_direction
<1> DEFINE z == SkipTo(e, c)
<1>1. /\ z \in Level /\ z.next = c /\ z.is_entered = e.is_entered
      /\ z.has_branch = e.has_branch /\ z.best_value = e.best_value
      /\ z.best_direction = e.best_direction
  BY DEF Level, SkipTo
<1>2. b \in 0 .. Branches
  OBVIOUS
<1> HIDE DEF z
<1> DEFINE y == [z EXCEPT !.pending = b]
<1>3. /\ y \in Level /\ y.next = c /\ y.pending = b /\ y.is_entered = e.is_entered
      /\ y.has_branch = e.has_branch /\ y.best_value = e.best_value
      /\ y.best_direction = e.best_direction
  BY <1>1, <1>2 DEF Level
<1>4. TakenTo(e, b, c) = y
  BY DEF TakenTo, z
<1> HIDE DEF y
<1> QED BY <1>3, <1>4

\* A leg that is not priced.
LEMMA ChoiceLegInVain ==
  ASSUME SearchAssumption, ChoiceInv, IInv', NEW b \in tree.open[position], AtBranch(b),
         ticks_left > 0, NEW to, to = Append(position, b), NEW spent, spent = Spent(to),
         spent < tree.first[to], ticks_left' = ticks_left - spent,
         level' = [level EXCEPT ![top + 1].next = b + 1],
         UNCHANGED <<tree, budget, pc, target_depth, is_deepening_active,
                     is_truncated, is_finished, answer, food>>
  PROVE  ChoiceInv'
<1>1. b \in 1 .. Branches
  BY TreeTyped DEF ChoiceInv, IInv
<1> DEFINE s == Frame(Now, ticks_left, is_truncated)
<1> DEFINE R == Recursion(tree, field, target_depth)
<1> DEFINE c == b + 1
<1> DEFINE e == SkipTo(Now, c)
<1>2. /\ pc = "thinking" /\ is_deepening_active /\ ~is_finished
      /\ Now.is_entered /\ Place(Now) = b /\ Now \in Level
      /\ IsTree(tree, field) /\ target_depth \in 1 .. MaxDepth
      /\ position \in Positions /\ Len(position) < target_depth /\ s \in Sofar
  BY <1>1, BranchStands
<1>3. /\ ticks_left \in Nat /\ is_truncated \in BOOLEAN
  BY TopStands DEF ChoiceInv
<1>4. /\ spent = CostOf(tree, to, ticks_left) /\ spent \in Nat /\ ticks_left' \in Nat
  BY <1>1, <1>2, LegCosts
<1>5. level' = [level EXCEPT ![top + 1] = e]
  BY DEF Now, SkipTo
<1>6. c \in 1 .. Branches + 1
  BY <1>1 DEF SearchAssumption
<1>7. R[<<position, b, s>>] = Turn(tree, R, position, b, s, to, spent)
  <2>1. R[<<position, b, s>>]
          = Turn(tree, R, position, b, s, Append(position, b), CostOf(tree, Append(position, b), s.left))
    BY <1>1, <1>2, RecursionTurns
  <2>2. s.left = ticks_left
    BY FrameFields
  <2> QED BY <1>4, <2>1, <2>2
<1> HIDE DEF c
<1>8. /\ e \in Level /\ e.next = c /\ e.is_entered = Now.is_entered
      /\ e.has_branch = Now.has_branch /\ e.best_direction = Now.best_direction
      /\ Frame(e, ticks_left', is_truncated) = Frame(Now, ticks_left', is_truncated)
  <2>1. Now \in Level
    BY <1>2
  <2> QED BY <1>6, <2>1, SkippedTo
<1>9. Without(s, spent) = Frame(Now, ticks_left', is_truncated)
  <2>1. Now \in Level
    BY <1>2
  <2> QED BY <1>3, <1>4, <2>1, FrameWithout
<1>10. ~(s.left = 0)
  BY <1>3, FrameFields
<1> HIDE DEF e, s, R
<1>11. R[<<position, b, s>>] = R[<<position, c, Without(s, spent)>>]
  BY <1>7, <1>10, Zenon DEF Turn, c
<1>12. LET Q == Recursion(tree, field, target_depth)
       IN  Q[<<position, Place(Now), Frame(Now, ticks_left, is_truncated)>>]
             = Q[<<position, e.next, Frame(e, ticks_left', is_truncated')>>]
  BY <1>2, <1>8, <1>9, <1>11 DEF s, R
<1> QED BY <1>2, <1>5, <1>8, <1>12, ChoiceTop

\* A leg that leads on.
LEMMA ChoiceLegOn ==
  ASSUME SearchAssumption, ChoiceInv, IInv', NEW b \in tree.open[position], AtBranch(b),
         ticks_left > 0, NEW to, to = Append(position, b), NEW spent, spent = Spent(to),
         ~(spent < tree.first[to]), ticks_left' = ticks_left - spent,
         level' = Append([level EXCEPT ![top + 1].next = b + 1,
                                       ![top + 1].pending = b], Opened),
         UNCHANGED <<tree, budget, pc, target_depth, is_deepening_active,
                     is_truncated, is_finished, answer, food>>
  PROVE  ChoiceInv'
<1>1. b \in 1 .. Branches
  BY TreeTyped DEF ChoiceInv, IInv
<1> DEFINE s == Frame(Now, ticks_left, is_truncated)
<1> DEFINE R == Recursion(tree, field, target_depth)
<1> DEFINE c == b + 1
<1> DEFINE e == TakenTo(Now, b, c)
<1> DEFINE w == R[<<to, 0, Begun(ticks_left', is_truncated)>>]
<1>2. /\ pc = "thinking" /\ is_deepening_active /\ ~is_finished
      /\ Now.is_entered /\ Place(Now) = b /\ Now \in Level
      /\ IsTree(tree, field) /\ target_depth \in 1 .. MaxDepth
      /\ position \in Positions /\ Len(position) < target_depth /\ s \in Sofar
  BY <1>1, BranchStands
<1>3. /\ ticks_left \in Nat /\ is_truncated \in BOOLEAN
      /\ level \in Seq(Level) /\ Len(level) = top + 1 /\ top \in Nat
      /\ At(level, Len(level)) = position /\ Len(position) = top
      /\ Now = level[Len(level)]
  BY TopStands DEF ChoiceInv
<1>4. /\ spent = CostOf(tree, to, ticks_left) /\ spent \in Nat /\ ticks_left' \in Nat
      /\ to \in Positions
  BY <1>1, <1>2, LegCosts
<1>5. level' = Append([level EXCEPT ![top + 1] = e], Opened)
  <2>1. level \in [1 .. Len(level) -> Level] /\ top + 1 \in 1 .. Len(level)
    BY <1>3, LenProperties
  <2>2. [level EXCEPT ![top + 1].next = b + 1, ![top + 1].pending = b]
          = [level EXCEPT ![top + 1] = e]
    BY <2>1 DEF Now, TakenTo, SkipTo
  <2> QED BY <2>2
<1>6. c \in 1 .. Branches + 1
  BY <1>1 DEF SearchAssumption
<1>7. R[<<position, b, s>>] = Turn(tree, R, position, b, s, to, spent)
  <2>1. R[<<position, b, s>>]
          = Turn(tree, R, position, b, s, Append(position, b), CostOf(tree, Append(position, b), s.left))
    BY <1>1, <1>2, RecursionTurns
  <2>2. s.left = ticks_left
    BY FrameFields
  <2> QED BY <1>4, <2>1, <2>2
<1> HIDE DEF c
<1>8. /\ e \in Level /\ e.next = c /\ e.pending = b /\ e.is_entered = Now.is_entered
      /\ e.has_branch = Now.has_branch /\ e.best_value = Now.best_value
      /\ e.best_direction = Now.best_direction
  <2>1. Now \in Level
    BY <1>2
  <2> QED BY <1>1, <1>6, <2>1, TakenTyped
<1>9. s.left = ticks_left /\ s.truncated = is_truncated /\ ~(s.left = 0)
  BY <1>3 DEF Frame
<1>10. w \in Sofar
  <2>1. Begun(ticks_left', is_truncated) \in Sofar
    BY <1>3, <1>4, BegunTyped
  <2>2. 0 \in 0 .. Branches + 1
    BY DEF SearchAssumption
  <2> QED BY <1>2, <1>4, <2>1, <2>2, RecursionTyped
<1> HIDE DEF e, s, R
<1>11. R[<<position, b, s>>] = R[<<position, c, Tried(s, b, w)>>]
  BY <1>7, <1>9, Zenon DEF Turn, c
<1>12. Tried(s, b, w) = Tried(Frame(e, w.left, w.truncated), b, w)
  <2> HIDE DEF w
  <2> QED BY <1>1, <1>2, <1>3, <1>8, <1>10, TriedForgets DEF s
<1>13. Framed'
  BY <1>2, <1>5, <1>8, FramedTaken
<1>14. ASSUME NEW r \in Sofar, ComesTo(R, level, ticks_left, is_truncated, r)
       PROVE  ComesTo(R, level', ticks_left', is_truncated', r)
  <2>1. R[<<position, Place(level[Len(level)]),
            Frame(level[Len(level)], ticks_left, is_truncated)>>]
          = R[<<position, e.next, Tried(Frame(e, w.left, w.truncated), b, w)>>]
    <3> HIDE DEF w
    <3>1. R[<<position, b, s>>]
            = R[<<position, e.next, Tried(Frame(e, w.left, w.truncated), b, w)>>]
      BY <1>8, <1>11, <1>12
    <3>2. R[<<position, b, s>>]
            = R[<<position, Place(level[Len(level)]),
                  Frame(level[Len(level)], ticks_left, is_truncated)>>]
      BY <1>2, <1>3 DEF s
    <3> QED BY <3>1, <3>2
  <2>2. w = R[<<Append(position, b), 0, Begun(ticks_left', is_truncated)>>]
    OBVIOUS
  <2>3. /\ Len(level) \in 1 .. MaxDepth /\ position \in Positions
        /\ At(level, Len(level)) = position /\ level \in Seq(Level)
        /\ e \in Level /\ e.pending = b /\ w \in Sofar
    BY <1>2, <1>3, <1>8, <1>10 DEF SearchAssumption
  <2> HIDE DEF w
  <2>4. level' = Pushed(level, e)
    BY <1>3, <1>5 DEF Pushed
  <2>5. ComesTo(R, level', ticks_left', is_truncated, r)
    <3>1. IsTaken(R, level, ticks_left, is_truncated, e, ticks_left', is_truncated, w)
      BY <1>1, <2>1, <2>2, <2>3 DEF IsTaken
    <3> QED BY <1>14, <2>4, <3>1, TopCalls
  <2> QED BY <2>5
<1> QED BY <1>2, <1>13, <1>14, ChoiceTurns DEF R

LEMMA ChoiceLeg == ASSUME SearchAssumption, ChoiceInv, Leg, IInv' PROVE ChoiceInv'
<1>1. PICK b \in tree.open[position] :
        /\ AtBranch(b)
        /\ LET to    == Append(position, b)
               spent == Spent(to)
           IN  /\ ticks_left' = ticks_left - spent
               /\ IF spent < tree.first[to]
                  THEN level' = [level EXCEPT ![top + 1].next = b + 1]
                  ELSE level' = Append([level EXCEPT ![top + 1].next = b + 1,
                                                     ![top + 1].pending = b], Opened)
  BY DEF Leg
<1>2. /\ ticks_left > 0
      /\ UNCHANGED <<tree, budget, pc, target_depth, is_deepening_active,
                     is_truncated, is_finished, answer, food>>
  BY DEF Leg
<1>3. PICK to : to = Append(position, b)
  OBVIOUS
<1>4. PICK spent : spent = Spent(to)
  OBVIOUS
<1>5. /\ ticks_left' = ticks_left - spent
      /\ IF spent < tree.first[to]
         THEN level' = [level EXCEPT ![top + 1].next = b + 1]
         ELSE level' = Append([level EXCEPT ![top + 1].next = b + 1,
                                            ![top + 1].pending = b], Opened)
  BY <1>1, <1>3, <1>4
<1>6. CASE spent < tree.first[to]
  BY <1>1, <1>2, <1>3, <1>4, <1>5, <1>6, ChoiceLegInVain
<1>7. CASE ~(spent < tree.first[to])
  BY <1>1, <1>2, <1>3, <1>4, <1>5, <1>7, ChoiceLegOn
<1> QED BY <1>6, <1>7

\* What comes of a level, and what is made of it in the one below.
LEMMA UpdatedFrame ==
  ASSUME NEW e \in Level, e.has_branch <=> e.best_direction # NONE, NEW v \in Int,
         NEW w \in Sofar, w.value = v
  PROVE  Frame(Updated(e, v), w.left, w.truncated)
           = Tried(Frame(e, w.left, w.truncated), e.pending, w)
<1> DEFINE s == Frame(e, w.left, w.truncated)
<1>1. /\ s \in Sofar /\ s.value = e.best_value /\ s.way = e.best_direction
      /\ s.left = w.left /\ s.truncated = w.truncated
  BY DEF Frame, Sofar, Level
<1>2. CASE e.has_branch /\ v <= e.best_value
  <2>1. Updated(e, v) = e
    BY <1>2 DEF Updated
  <2>2. s.way # NONE /\ w.value <= s.value
    BY <1>1, <1>2
  <2> HIDE DEF s
  <2>3. [s EXCEPT !.left = w.left, !.truncated = w.truncated] = s
    BY <1>1 DEF Sofar
  <2>4. Tried(s, e.pending, w) = s
    BY <2>2, <2>3, Zenon DEF Tried
  <2> QED BY <2>1, <2>4 DEF s
<1>3. CASE ~(e.has_branch /\ v <= e.best_value)
  <2> DEFINE u == Updated(e, v)
  <2>1. u.best_value = v /\ u.best_direction = e.pending
    BY <1>3 DEF Updated, Level
  <2>2. ~(s.way # NONE /\ w.value <= s.value)
    BY <1>1, <1>3
  <2>3. Frame(u, w.left, w.truncated) = [w EXCEPT !.way = e.pending]
    <3> HIDE DEF u
    <3> QED BY <2>1 DEF Frame, Sofar
  <2> HIDE DEF s
  <2>4. Tried(s, e.pending, w) = [w EXCEPT !.way = e.pending]
    BY <2>2, Zenon DEF Tried
  <2> QED BY <2>3, <2>4 DEF s
<1> QED BY <1>2, <1>3

\* What is left of the stack when the level on top closes.
LEMMA StackCloses ==
  ASSUME NEW s \in Seq(Level), NEW n \in Nat \ {0}, Len(s) = n + 1, NEW u \in Level,
         NEW z, z = [Front(s) EXCEPT ![n] = u]
  PROVE  /\ Len(z) = n /\ z[n] = u /\ \A i \in 1 .. n - 1 : z[i] = s[i]
<1>1. /\ Front(s) \in Seq(Level) /\ Len(Front(s)) = n
      /\ \A i \in 1 .. n : Front(s)[i] = s[i]
  <2>1. Front(s) = SubSeq(s, 1, n)
    BY DEF Front
  <2>2. /\ SubSeq(s, 1, n) \in Seq(Level)
        /\ Len(SubSeq(s, 1, n)) = IF 1 <= n THEN n - 1 + 1 ELSE 0
        /\ \A i \in 1 .. n - 1 + 1 : SubSeq(s, 1, n)[i] = s[1 + i - 1]
    BY SubSeqProperties
  <2> QED BY <2>1, <2>2
<1>2. /\ Len(z) = n /\ \A i \in 1 .. n : z[i] = IF i = n THEN u ELSE s[i]
  <2>1. n \in 1 .. Len(Front(s))
    BY <1>1
  <2>2. /\ Len([Front(s) EXCEPT ![n] = u]) = Len(Front(s))
        /\ \A j \in 1 .. Len(Front(s)) :
             [Front(s) EXCEPT ![n] = u][j] = IF j = n THEN u ELSE Front(s)[j]
    BY <1>1, <2>1, ExceptSeq
  <2> QED BY <1>1, <2>2
<1>3. n \in 1 .. n /\ \A i \in 1 .. n - 1 : i \in 1 .. n /\ i # n
  OBVIOUS
<1> QED BY <1>2, <1>3

\* A deepening is over.
LEMMA ChoiceDeepened ==
  ASSUME SearchAssumption, ChoiceInv, IInv', is_deepening_active, ~is_finished, pc = "thinking",
         NEW truncated \in BOOLEAN, CloseDeepening(truncated), top = 0,
         UNCHANGED <<tree, budget, ticks_left, pc, field, is_mixed>>,
         NEW w \in Sofar, w.way = Now.best_direction, w.left = ticks_left, w.truncated = truncated,
         w = Recursion(tree, field, target_depth)
               [<<position, Place(Now), Frame(Now, ticks_left, is_truncated)>>]
  PROVE  ChoiceInv'
<1> DEFINE R == Recursion(tree, field, target_depth)
<1> DEFINE D == Decisions(tree, field)
<1> DEFINE a == SoChosen(0)
<1>1. is_deepening_active' = FALSE /\ Framed'
  BY DEF CloseDeepening, Framed
<1>2. /\ IsTree(tree, field) /\ target_depth \in 1 .. MaxDepth /\ Len(level) = 1
      /\ Now = level[Len(level)] /\ At(level, Len(level)) = position /\ Root = Now
      /\ ticks_left \in Nat
  BY TopStands DEF ChoiceInv, Root, Now
<1>3. ~is_mixed /\ tree.running[<<>>] => Decision = Decide(D, target_depth, a, w)
  <2> SUFFICES ASSUME ~is_mixed, tree.running[<<>>]
               PROVE  Decision = Decide(D, target_depth, a, w)
    OBVIOUS
  <2>1. PICK r \in Sofar :
          /\ ComesTo(R, level, ticks_left, is_truncated, r)
          /\ Decision = Decide(D, target_depth, a, r)
    BY DEF ChoiceInv, ChoiceStays
  <2> HIDE DEF R, D, a
  <2>2. PICK v : Continues(R, level, ticks_left, is_truncated, v) /\ r = v[1]
    BY <2>1 DEF ComesTo
  <2>3. v[Len(level)] = R[<<At(level, Len(level)), Place(level[Len(level)]),
                           Frame(level[Len(level)], ticks_left, is_truncated)>>]
    BY <2>2 DEF Continues
  <2>4. r = w
    BY <1>2, <2>2, <2>3 DEF R
  <2> QED BY <2>1, <2>4
<1>4. Decision' = Decision
  BY DecisionStays
<1>5. a.best = best /\ a.reached = reached_depth
  BY DEF SoChosen
<1>6. CASE truncated
  <2>1. /\ best' = (IF best = NONE THEN Root.best_direction ELSE best)
        /\ is_finished' = TRUE /\ reached_depth' = reached_depth
    BY <1>6 DEF CloseDeepening
  <2>2. NotBegun'
    BY <2>1 DEF NotBegun
  <2>3. Decide(D, target_depth, a, w).best = best'
    <3>1. w.way = Root.best_direction
      BY <1>2
    <3> HIDE DEF D, a
    <3> QED BY <1>5, <1>6, <2>1, <3>1 DEF Decide
  <2>4. Decide(D, target_depth, a, w).reached = reached_depth'
    <3> HIDE DEF D, a
    <3> QED BY <1>5, <1>6, <2>1 DEF Decide
  <2> HIDE DEF D, a
  <2>5. ChoiceStays'
    BY <1>3, <1>4, <2>1, <2>3, <2>4 DEF ChoiceStays
  <2> QED BY <1>1, <2>2, <2>5 DEF ChoiceInv
<1>7. CASE ~truncated
  <2> DEFINE d == target_depth + 1
  <2> DEFINE c == SoChosen(ticks_left)'
  <2>1. /\ IF Root.best_direction # NONE
           THEN best' = Root.best_direction /\ reached_depth' = target_depth
           ELSE best' = best /\ reached_depth' = reached_depth
        /\ is_finished' = (target_depth >= MaxDepth)
        /\ target_depth' = IF is_finished' THEN target_depth ELSE target_depth + 1
    BY <1>7 DEF CloseDeepening, answer
  <2>2. NotBegun'
    <3>1. ~is_finished' => target_depth' > 1
      BY <1>2, <2>1 DEF SearchAssumption
    <3> QED BY <3>1 DEF NotBegun
  <2>3. c = [best |-> best', reached |-> reached_depth', left |-> ticks_left]
    BY DEF SoChosen
  <2>4. Decide(D, target_depth, a, w) = D[<<d, c>>]
    <3>1. CASE w.way = NONE
      <4>1. best' = best /\ reached_depth' = reached_depth
        BY <1>2, <2>1, <3>1
      <4>2. [a EXCEPT !.left = w.left] = c
        BY <2>3, <4>1 DEF SoChosen
      <4> HIDE DEF a, c, D
      <4> QED BY <1>7, <3>1, <4>2, Zenon DEF Decide, d
    <3>2. CASE w.way # NONE
      <4>1. best' = w.way /\ reached_depth' = target_depth
        BY <1>2, <2>1, <3>2
      <4>2. [best |-> w.way, reached |-> target_depth, left |-> w.left] = c
        BY <2>3, <4>1
      <4> HIDE DEF a, c, D
      <4> QED BY <1>7, <3>2, <4>2, Zenon DEF Decide, d
    <3> QED BY <3>1, <3>2
  <2>5. c \in Chosen
    BY <1>2, <2>3 DEF IInv, TypeOK, Chosen
  <2>6. c.best = best' /\ c.reached = reached_depth'
    BY <2>3
  <2>7. CASE target_depth >= MaxDepth
    <3>1. d = MaxDepth + 1 /\ is_finished'
      <4>1. d = MaxDepth + 1
        BY <1>2, <2>7 DEF SearchAssumption
      <4>2. is_finished' = (target_depth >= MaxDepth)
        BY <2>1
      <4> QED BY <2>7, <4>1, <4>2
    <3>2. ~is_mixed /\ tree.running[<<>>] => Decision = c
      <4> HIDE DEF c
      <4>1. Decisions(tree, field)[<<MaxDepth + 1, c>>] = c
        BY <1>2, <2>5, DecisionsEnd
      <4> HIDE DEF a, d
      <4> QED BY <1>3, <2>4, <3>1, <4>1
    <3> HIDE DEF c, a, d, D
    <3>3. ChoiceStays'
      BY <1>4, <2>6, <3>1, <3>2 DEF ChoiceStays
    <3> QED BY <1>1, <2>2, <3>3 DEF ChoiceInv
  <2>8. CASE ~(target_depth >= MaxDepth)
    <3>1. target_depth' = d /\ ~is_finished'
      BY <2>1, <2>8
    <3>2. ~is_mixed /\ tree.running[<<>>] => Decision = D[<<d, c>>]
      <4> HIDE DEF c, a, d, D
      <4> QED BY <1>3, <2>4
    <3>3. ChoiceStays'
      <4> SUFFICES ASSUME ~is_mixed', tree'.running[<<>>]
                   PROVE  Decision' = Decisions(tree', field')[<<target_depth', SoChosen(ticks_left)'>>]
        BY <1>1, <3>1 DEF ChoiceStays
      <4>1. Decision = D[<<d, c>>] /\ tree' = tree /\ field' = field
        BY <3>2
      <4> HIDE DEF c, d
      <4>2. Decisions(tree', field')[<<target_depth', c>>] = D[<<d, c>>]
        BY <3>1, <4>1
      <4> QED BY <1>4, <4>1, <4>2 DEF c
    <3> QED BY <1>1, <2>2, <3>3 DEF ChoiceInv
  <2> QED BY <2>7, <2>8
<1> QED BY <1>6, <1>7

\* A level is over, and the one below it knows what it came to.
LEMMA ChoiceReturns ==
  ASSUME SearchAssumption, ChoiceInv, IInv', is_deepening_active, ~is_finished, pc = "thinking",
         NEW value \in Int, CloseLevel(value, is_truncated'), top > 0,
         UNCHANGED <<tree, budget, ticks_left, pc, food>>,
         NEW w \in Sofar, w.value = value, w.left = ticks_left, w.truncated = is_truncated',
         w = Recursion(tree, field, target_depth)
               [<<position, Place(Now), Frame(Now, ticks_left, is_truncated)>>]
  PROVE  ChoiceInv'
<1> DEFINE R == Recursion(tree, field, target_depth)
<1> DEFINE parent == level[top]
<1> DEFINE u == Updated(parent, value)
<1>1. /\ level' = [Front(level) EXCEPT ![top] = u]
      /\ UNCHANGED <<target_depth, is_deepening_active, is_finished, answer>>
  <2>1. top # 0
    BY TopStands DEF ChoiceInv
  <2>2. /\ level' = [Front(level) EXCEPT ![top] =
               IF parent.has_branch /\ value <= parent.best_value THEN parent
               ELSE [parent EXCEPT !.has_branch = TRUE, !.best_value = value,
                                   !.best_direction = parent.pending]]
        /\ UNCHANGED <<target_depth, is_deepening_active, is_finished, answer>>
    BY <2>1, Zenon DEF CloseLevel
  <2> QED BY <2>2, Zenon DEF Updated
<1>2. /\ level \in Seq(Level) /\ Len(level) = top + 1 /\ top \in Nat \ {0}
      /\ Now = level[top + 1] /\ At(level, top + 1) = position
      /\ parent \in Level
  BY TopStands DEF ChoiceInv
<1>3. /\ \A n \in 1 .. top : level[n].has_branch <=> level[n].best_direction # NONE
      /\ \A n \in 1 .. top : level[n].is_entered
      /\ top \in 1 .. top /\ parent.pending # NONE
  <2>1. /\ \A n \in 1 .. Len(level) :
             /\ level[n].has_branch <=> level[n].best_direction # NONE
             /\ level[n].is_entered \/ (n = Len(level) /\ level[n].next = 1)
        /\ \A n \in 1 .. top : level[n].pending # NONE
    BY DEF ChoiceInv, Framed, IInv, StackAgrees
  <2>2. top \in 1 .. top /\ \A n \in 1 .. top : n \in 1 .. Len(level) /\ n # Len(level)
    BY <1>2
  <2> QED BY <2>1, <2>2
<1>4. /\ u \in Level /\ u.next = parent.next /\ u.is_entered = parent.is_entered
      /\ u.pending = parent.pending
  BY <1>2, UpdatedSame
<1>5. u.has_branch <=> u.best_direction # NONE
  <2>1. parent.has_branch <=> parent.best_direction # NONE
    BY <1>3
  <2>2. CASE parent.has_branch /\ value <= parent.best_value
    BY <2>1, <2>2 DEF Updated
  <2>3. CASE ~(parent.has_branch /\ value <= parent.best_value)
    <3>1. u.has_branch = TRUE /\ u.best_direction = parent.pending
      BY <1>2, <2>3 DEF Updated, Level
    <3> QED BY <1>3, <3>1
  <2> QED BY <2>2, <2>3
<1>6. Frame(u, ticks_left, is_truncated')
        = Tried(Frame(parent, w.left, w.truncated), parent.pending, w)
  <2>1. parent.has_branch <=> parent.best_direction # NONE
    BY <1>3
  <2> HIDE DEF parent
  <2> QED BY <1>2, <2>1, UpdatedFrame
<1>7. Place(u) = parent.next
  BY <1>3, <1>4 DEF Place
<1> HIDE DEF u
<1>8. /\ Len(level') = top /\ level'[top] = u
      /\ \A i \in 1 .. top - 1 : level'[i] = level[i]
  BY <1>1, <1>2, <1>4, StackCloses
<1>9. Framed'
  <2>1. ASSUME NEW n \in 1 .. top
        PROVE  /\ level'[n].has_branch <=> level'[n].best_direction # NONE
               /\ level'[n].is_entered
    <3>1. CASE n = top
      BY <1>3, <1>4, <1>5, <1>8, <3>1
    <3>2. CASE n # top
      <4>1. n \in 1 .. top - 1
        BY <1>2, <3>2
      <4> QED BY <1>3, <1>8, <4>1
    <3> QED BY <3>1, <3>2
  <2> QED BY <1>8, <2>1 DEF Framed
<1>10. IsReturned(R, level, top, ticks_left, is_truncated, w, level', ticks_left', is_truncated')
  <2>1. w = R[<<At(level, top + 1), Place(level[top + 1]),
                Frame(level[top + 1], ticks_left, is_truncated)>>]
    BY <1>2
  <2> HIDE DEF R
  <2> QED BY <1>2, <1>6, <1>7, <1>8, <2>1 DEF IsReturned, parent
<1> HIDE DEF R
<1>11. ASSUME NEW r \in Sofar, ComesTo(R, level, ticks_left, is_truncated, r)
       PROVE  ComesTo(R, level', ticks_left', is_truncated', r)
  BY <1>10, <1>11, TopReturns
<1> QED BY <1>1, <1>9, <1>11, ChoiceTurns DEF R

\* The level on top closes with a value, and that is what its call comes to.
LEMMA ChoiceClose ==
  ASSUME SearchAssumption, ChoiceInv, IInv', is_deepening_active, ~is_finished, pc = "thinking",
         NEW value \in Int, NEW truncated \in BOOLEAN, CloseLevel(value, truncated),
         Recursion(tree, field, target_depth)
             [<<position, Place(Now), Frame(Now, ticks_left, is_truncated)>>]
           = [value |-> value, way |-> Now.best_direction, left |-> ticks_left,
              truncated |-> truncated]
  PROVE  ChoiceInv'
<1> DEFINE w == [value |-> value, way |-> Now.best_direction, left |-> ticks_left,
                 truncated |-> truncated]
<1>1. /\ is_truncated' = truncated
      /\ UNCHANGED <<tree, budgets, pc, food>>
      /\ top = 0 => CloseDeepening(truncated)
  <2>1. top = 0 => ~(top > 0)
    BY TopStands DEF ChoiceInv
  <2> QED BY <2>1, Zenon DEF CloseLevel
<1>2. UNCHANGED <<budget, ticks_left, field, is_mixed>>
  BY <1>1 DEF budgets, food
<1>3. /\ w \in Sofar /\ w.value = value /\ w.way = Now.best_direction
      /\ w.left = ticks_left /\ w.truncated = truncated
  <2>1. Now \in Level /\ ticks_left \in Nat
    BY TopStands DEF ChoiceInv
  <2> QED BY <2>1 DEF Sofar, Level
<1>4. w = Recursion(tree, field, target_depth)
            [<<position, Place(Now), Frame(Now, ticks_left, is_truncated)>>]
  OBVIOUS
<1>5. top \in Nat
  BY TopStands DEF ChoiceInv
<1> HIDE DEF w
<1>6. CASE top = 0
  BY <1>1, <1>2, <1>3, <1>4, <1>6, ChoiceDeepened
<1>7. CASE top > 0
  BY <1>1, <1>2, <1>3, <1>4, <1>7, ChoiceReturns
<1> QED BY <1>5, <1>6, <1>7

LEMMA PricedIs ==
  ASSUME NEW t, NEW f, NEW p, NEW s \in Sofar, NEW z \in Sofar, z.value = t.value[p][f],
         z.way = s.way, z.left = s.left, z.truncated = (s.truncated \/ s.left = 0)
  PROVE  Priced(t, f, p, s) = z
<1> DEFINE y == [s EXCEPT !.value = t.value[p][f]]
<1>1. /\ y \in Sofar /\ y.value = z.value /\ y.way = z.way /\ y.left = z.left
      /\ y.truncated = s.truncated
  BY DEF Sofar
<1>2. Priced(t, f, p, s) = [y EXCEPT !.truncated = @ \/ s.left = 0]
  BY DEF Priced
<1> HIDE DEF y
<1>3. [y EXCEPT !.truncated = @ \/ s.left = 0] = z
  BY <1>1 DEF Sofar
<1> QED BY <1>2, <1>3

LEMMA ReturnedIs ==
  ASSUME NEW t, NEW f, NEW p, NEW s \in Sofar, NEW z \in Sofar,
         z.value = IF s.way = NONE THEN t.value[p][f] ELSE s.value,
         z.way = s.way, z.left = s.left, z.truncated = s.truncated
  PROVE  Returned(t, f, p, s) = z
<1>1. CASE s.way = NONE
  BY <1>1 DEF Sofar, Returned
<1>2. CASE s.way # NONE
  <2>1. s = z
    BY <1>2 DEF Sofar
  <2> QED BY <1>2, <2>1 DEF Returned
<1> QED BY <1>1, <1>2

LEMMA ChoiceLeaf == ASSUME SearchAssumption, ChoiceInv, Leaf, IInv' PROVE ChoiceInv'
<1> DEFINE truncated == is_truncated \/ ticks_left = 0
<1> DEFINE value == Evaluate(position)
<1> DEFINE s == Frame(Now, ticks_left, is_truncated)
<1> DEFINE w == [value |-> value, way |-> Now.best_direction, left |-> ticks_left,
                 truncated |-> truncated]
<1>1. /\ is_deepening_active /\ ~Now.is_entered /\ IsLeaf /\ ~is_finished /\ pc = "thinking"
      /\ CloseLevel(value, truncated)
  BY DEF Leaf, Looping
<1>2. /\ IsTree(tree, field) /\ target_depth \in 1 .. MaxDepth /\ Now \in Level
      /\ position \in Positions /\ Len(position) = top /\ s \in Sofar
      /\ ticks_left \in Nat /\ is_truncated \in BOOLEAN
  BY TopStands DEF ChoiceInv
<1>3. value \in Int /\ truncated \in BOOLEAN
  <2>1. value \in Int
    BY <1>2 DEF IsTree, Tree, Evaluate
  <2> QED BY <1>2, <2>1
<1>4. Place(Now) = 0
  BY <1>1 DEF Place
<1>5. s.left = ticks_left /\ s.truncated = is_truncated /\ s.way = Now.best_direction
  BY DEF Frame
<1>6. Len(position) >= target_depth \/ s.left = 0 \/ ~tree.running[position]
  BY <1>1, <1>2, <1>5 DEF IsLeaf
<1> HIDE DEF s
<1>7. Recursion(tree, field, target_depth)[<<position, 0, s>>] = Priced(tree, field, position, s)
  BY <1>2, <1>6, RecursionComes
<1>8. /\ w \in Sofar /\ w.value = value /\ w.way = Now.best_direction
      /\ w.left = ticks_left /\ w.truncated = truncated
  BY <1>2, <1>3 DEF Sofar, Level
<1> HIDE DEF w
<1>9. Priced(tree, field, position, s) = w
  <2>1. w.value = tree.value[position][field]
    BY <1>8 DEF Evaluate
  <2>2. w.truncated = (s.truncated \/ s.left = 0)
    BY <1>5, <1>8
  <2> QED BY <1>2, <1>5, <1>8, <2>1, <2>2, PricedIs
<1>10. Recursion(tree, field, target_depth)
           [<<position, Place(Now), Frame(Now, ticks_left, is_truncated)>>] = w
  BY <1>4, <1>7, <1>9 DEF s
<1> HIDE DEF truncated, value
<1> QED BY <1>1, <1>3, <1>10, ChoiceClose DEF w

LEMMA ChoiceLevelDone ==
  ASSUME SearchAssumption, ChoiceInv, LevelDone, IInv' PROVE ChoiceInv'
<1> DEFINE value == IF Now.has_branch THEN Now.best_value ELSE Evaluate(position)
<1> DEFINE s == Frame(Now, ticks_left, is_truncated)
<1> DEFINE w == [value |-> value, way |-> Now.best_direction, left |-> ticks_left,
                 truncated |-> is_truncated]
<1>1. /\ is_deepening_active /\ Now.is_entered /\ Now.next > Branches /\ ~is_finished
      /\ pc = "thinking" /\ CloseLevel(value, is_truncated)
  BY DEF LevelDone, Looping
<1>2. /\ IsTree(tree, field) /\ target_depth \in 1 .. MaxDepth /\ Now \in Level
      /\ position \in Positions /\ Len(position) < target_depth /\ s \in Sofar
      /\ ticks_left \in Nat /\ is_truncated \in BOOLEAN
      /\ Now = level[Len(level)] /\ Len(level) = top + 1 /\ top \in Nat
  BY <1>1, TopStands DEF ChoiceInv
<1>3. value \in Int
  <2>1. Evaluate(position) \in Int
    BY <1>2 DEF IsTree, Tree, Evaluate
  <2> QED BY <1>2, <2>1 DEF Level
<1>4. Place(Now) = Branches + 1
  <2>1. Now.next = Branches + 1
    BY <1>1, <1>2 DEF Level, SearchAssumption
  <2> QED BY <1>1, <2>1 DEF Place
<1>5. /\ s.left = ticks_left /\ s.truncated = is_truncated
      /\ s.way = Now.best_direction /\ s.value = Now.best_value
  BY DEF Frame
<1>6. Now.has_branch <=> Now.best_direction # NONE
  <2>1. Len(level) \in 1 .. Len(level)
    BY <1>2
  <2> QED BY <1>1, <1>2, <2>1 DEF ChoiceInv, Framed
<1> HIDE DEF s
<1>7. Recursion(tree, field, target_depth)[<<position, Branches + 1, s>>]
        = Returned(tree, field, position, s)
  BY <1>2, RecursionReturns
<1>8. /\ w \in Sofar /\ w.value = value /\ w.way = Now.best_direction
      /\ w.left = ticks_left /\ w.truncated = is_truncated
  BY <1>2, <1>3 DEF Sofar, Level
<1> HIDE DEF w
<1>9. Returned(tree, field, position, s) = w
  <2>1. w.value = IF s.way = NONE THEN tree.value[position][field] ELSE s.value
    BY <1>5, <1>6, <1>8 DEF Evaluate
  <2> QED BY <1>2, <1>5, <1>8, <2>1, ReturnedIs
<1>10. Recursion(tree, field, target_depth)
           [<<position, Place(Now), Frame(Now, ticks_left, is_truncated)>>] = w
  BY <1>4, <1>7, <1>9 DEF s
<1> HIDE DEF value
<1> QED BY <1>1, <1>2, <1>3, <1>10, ChoiceClose DEF w

LEMMA ChoiceInductive == SearchAssumption => (ChoiceInv /\ [Next]_vars => ChoiceInv')
<1> SUFFICES ASSUME SearchAssumption, ChoiceInv, [Next]_vars PROVE ChoiceInv'
  OBVIOUS
<1>1. IInv'
  BY Inductive DEF ChoiceInv
<1>2. CASE Restart
  BY <1>1, <1>2, ChoiceRestart
<1>3. CASE Think
  BY <1>1, <1>3, ChoiceThink
<1>4. CASE BeginDeepening
  BY <1>1, <1>4, ChoiceBegin
<1>5. CASE Leaf
  BY <1>1, <1>5, ChoiceLeaf
<1>6. CASE Enter
  BY <1>1, <1>6, ChoiceEnter
<1>7. CASE LevelDone
  BY <1>1, <1>7, ChoiceLevelDone
<1>8. CASE Wall
  BY <1>1, <1>8, ChoiceWall
<1>9. CASE OutOfBudget
  BY <1>1, <1>9, ChoiceOutOfBudget
<1>10. CASE Pause \/ Return
  BY <1>1, <1>10, ChoicePause
<1>11. CASE Leg
  BY <1>1, <1>11, ChoiceLeg
<1>12. CASE UNCHANGED vars
  BY <1>1, <1>12, ChoiceStutter
<1> QED BY <1>2, <1>3, <1>4, <1>5, <1>6, <1>7, <1>8, <1>9, <1>10, <1>11, <1>12
    DEF Next, Advance

\* A search of pacman_lookahead's that is over has chosen, and says it has looked as
\* deep, as the recursion with the same budget to spend at once: for every tree,
\* budget, depth and slicing, truncated or not.  Only a search in which the food
\* field changed is left out.
THEOREM SlicesNeverShow == Spec => []SlicesDoNotShow
<1>1. Init => ChoiceInv
  BY SearchAssumption, ChoiceStart
<1>2. ChoiceInv /\ [Next]_vars => ChoiceInv'
  BY SearchAssumption, ChoiceInductive
<1>3. ChoiceInv => SlicesDoNotShow
  BY DEF ChoiceInv, ChoiceStays, SlicesDoNotShow
<1> QED BY <1>1, <1>2, <1>3, PTL DEF Spec
=============================================================================
