------------------------------ MODULE MCSearch ------------------------------
(***************************************************************************)
(* Futures for Search: two branches, two deep.  The legs out of the root   *)
(* are closed, walked in vain, short or long in every pair; what is behind *)
(* them, and what it is worth, is one of a few patterns.                   *)
(***************************************************************************)
EXTENDS Search

\* A leg: its ticks and those until he leaves his cell; a wall has none.
Closed == <<1, 0>>
Stuck  == <<2, 3>>
Short  == <<1, 1>>
Long   == <<3, 2>>

\* What is behind them, and what <<1>>, <<2>>, <<1, 1>>, <<1, 2>>, <<2, 1>>,
\* <<2, 2>> are worth.
Patterns == {[behind |-> <<Short, Long>>,   worth |-> <<2, 1, 0, 0, 1, 2>>],
             [behind |-> <<Closed, Short>>, worth |-> <<0, 1, 3, 1, 1, 0>>],
             [behind |-> <<Stuck, Stuck>>,  worth |-> <<1, 1, 0, 0, 0, 0>>]}

Order(p) == IF Len(p) = 1 THEN p[1] ELSE 2 * p[1] + p[2]

FutureOf(first, second, pattern, isOver) ==
  LET Leg0(p) == LET way == Last(p) IN
        IF Len(p) = 2 THEN (IF p[1] = 1 THEN pattern.behind[way] ELSE pattern.behind[3 - way])
        ELSE IF way = 1 THEN first ELSE second
      LegTo(p) == IF p = <<>> THEN Short ELSE Leg0(p)
  IN  [open    |-> [p \in Positions |-> IF Len(p) = MaxDepth THEN {}
                      ELSE {b \in 1 .. Branches : LegTo(Append(p, b)) # Closed}],
       running |-> [p \in Positions |-> ~(isOver /\ p = <<1>>)],
       ticks   |-> [p \in Positions |-> LegTo(p)[1]],
       first   |-> [p \in Positions |-> IF LegTo(p) = Closed THEN 1 ELSE LegTo(p)[2]],
       value   |-> [p \in Positions |-> [f \in 0 .. 1 |->
                      IF p = <<>> THEN 1
                      ELSE IF f = 0 THEN pattern.worth[Order(p)] ELSE 2 - pattern.worth[Order(p)]]]]

MCTrees ==
  LET legs == {Closed, Stuck, Short, Long}
  IN  {FutureOf(a, b, c, FALSE) : a \in legs, b \in legs, c \in Patterns}
        \cup {FutureOf(Short, Long, c, TRUE) : c \in Patterns}
        \cup {[FutureOf(Short, Short, CHOOSE c \in Patterns : TRUE, FALSE)
                 EXCEPT !.running[<<>>] = FALSE]}
=============================================================================
