----------------------------- MODULE WalkProofs -----------------------------
(***************************************************************************)
(* Proofs about Walk, for every maze that meets PlayfieldAssumption: the   *)
(* ghosts and Pacman take the steps that Game lets them take, a ghost does *)
(* not turn back where it has another way, and a turn is kept.             *)
(***************************************************************************)
EXTENDS Walk, TLAPS

(* Walking around the edges: a coordinate one up and one down again. *)

LEMMA WrapInside ==
  ASSUME NEW W \in Nat, NEW x \in 0 .. W - 1 PROVE x % W = x
  OBVIOUS

LEMMA WrapOver == ASSUME NEW W \in Nat, W > 0 PROVE W % W = 0
  OBVIOUS

LEMMA WrapUnder == ASSUME NEW W \in Nat, W > 0 PROVE (-1) % W = W - 1
  OBVIOUS

LEMMA WrapsBack ==
  ASSUME NEW W \in Nat, W > 2, NEW x \in 0 .. W - 1
  PROVE /\ (x + 1) % W \in 0 .. W - 1 /\ (x - 1) % W \in 0 .. W - 1
        /\ (((x + 1) % W) - 1) % W = x
        /\ (((x - 1) % W) + 1) % W = x
        /\ (x + 1) % W # x /\ (x - 1) % W # x
        /\ (x + 1) % W # (x - 1) % W
<1>0. x % W = x
  BY WrapInside
<1>1. CASE x + 1 < W /\ x > 0
  <2>1. (x + 1) % W = x + 1 /\ (x - 1) % W = x - 1
    BY <1>1, WrapInside
  <2> QED BY <1>0, <1>1, <2>1
<1>2. CASE x + 1 = W
  <2>1. (x + 1) % W = 0 /\ (-1) % W = W - 1 /\ (x - 1) % W = x - 1
    BY <1>2, WrapOver, WrapUnder, WrapInside
  <2> QED BY <1>0, <1>2, <2>1
<1>3. CASE x = 0
  <2>1. (x + 1) % W = 1 /\ (x - 1) % W = W - 1 /\ W % W = 0
    BY <1>3, WrapOver, WrapUnder, WrapInside
  <2> QED BY <1>0, <1>3, <2>1
<1> QED BY <1>1, <1>2, <1>3

-----------------------------------------------------------------------------
(* Steps and directions *)

LEMMA Opposites ==
  ASSUME NEW d \in Directions
  PROVE Opposite(d) \in Directions /\ Opposite(Opposite(d)) = d
  BY DEF Opposite, Directions

LEMMA NoOpposite == Opposite("NONE") = "NONE"
  BY DEF Opposite

LEMMA InRange ==
  ASSUME NEW W \in Nat, W > 0, NEW x \in Int PROVE x % W \in 0 .. W - 1
  OBVIOUS

LEMMA StepInCells ==
  ASSUME NEW c \in Cells, NEW d \in Facings
  PROVE Step(c, d) \in Cells
<1>1. c[1] \in Int /\ c[2] \in Int /\ Width \in Nat /\ Width > 0 /\ Height \in Nat /\ Height > 0
  BY PlayfieldAssumption DEF Cells
<1>2. \A x, y \in Int : Wrap(x, y) \in Cells
  BY <1>1, InRange DEF Wrap, Cells
<1>3. /\ Wrap(c[1], c[2] - 1) \in Cells /\ Wrap(c[1], c[2] + 1) \in Cells
      /\ Wrap(c[1] - 1, c[2]) \in Cells /\ Wrap(c[1] + 1, c[2]) \in Cells
      /\ Wrap(c[1], c[2]) \in Cells
  BY <1>1, <1>2
<1> HIDE DEF Cells
<1> QED BY <1>3 DEF Step, CellAhead, Facings, Directions

\* One step and the opposite one; and four directions are four cells.
LEMMA StepsBack ==
  ASSUME NEW c \in Cells, NEW d \in Directions
  PROVE Step(Step(c, d), Opposite(d)) = c
<1> DEFINE x == c[1]
           y == c[2]
<1>1. x \in 0 .. Width - 1 /\ y \in 0 .. Height - 1 /\ c = <<x, y>>
  BY DEF Cells
<1>2. Width \in Nat /\ Width > 2 /\ Height \in Nat /\ Height > 2
  BY PlayfieldAssumption
<1>3. x % Width = x /\ y % Height = y
  BY <1>1, <1>2, WrapInside
<1>4. (((x + 1) % Width) - 1) % Width = x /\ (((x - 1) % Width) + 1) % Width = x
  BY <1>1, <1>2, WrapsBack
<1>5. (((y + 1) % Height) - 1) % Height = y /\ (((y - 1) % Height) + 1) % Height = y
  BY <1>1, <1>2, WrapsBack
<1> QED BY <1>1, <1>3, <1>4, <1>5 DEF Step, CellAhead, Wrap, Opposite, Directions

LEMMA StepsDiffer ==
  ASSUME NEW c \in Cells, NEW d \in Directions
  PROVE /\ Step(c, d) # c
        /\ \A e \in Directions : Step(c, d) = Step(c, e) => d = e
<1> DEFINE x == c[1]
           y == c[2]
<1>1. x \in 0 .. Width - 1 /\ y \in 0 .. Height - 1 /\ c = <<x, y>>
  BY DEF Cells
<1>2. Width \in Nat /\ Width > 2 /\ Height \in Nat /\ Height > 2
  BY PlayfieldAssumption
<1>3. x % Width = x /\ y % Height = y
  BY <1>1, <1>2, WrapInside
<1>4. (x + 1) % Width # x /\ (x - 1) % Width # x /\ (x + 1) % Width # (x - 1) % Width
  BY <1>1, <1>2, WrapsBack
<1>5. (y + 1) % Height # y /\ (y - 1) % Height # y /\ (y + 1) % Height # (y - 1) % Height
  BY <1>1, <1>2, WrapsBack
<1> QED BY <1>1, <1>3, <1>4, <1>5 DEF Step, CellAhead, Wrap, Directions

\* What Reach asks of the neighbours, the playfield gives: in particular they
\* are neighbours of each other.
THEOREM PlayfieldReach ==
  /\ Neighbours \in [Cells -> SUBSET Cells]
  /\ \A c, d \in Cells : d \in Neighbours[c] <=> c \in Neighbours[d]
  /\ \A c \in House \ Gate : Neighbours[c] \subseteq House
<1>1. \A c \in Cells : OpenNeighbours(c) \subseteq Cells
  BY StepInCells DEF OpenNeighbours, Facings
<1>2. ASSUME NEW c \in Cells, NEW d \in Cells, d \in Neighbours[c] PROVE c \in Neighbours[d]
  <2>1. IsWalkable(c) /\ d \in OpenNeighbours(c)
    BY <1>2 DEF Neighbours
  <2>2. PICK e \in Directions : d = Step(c, e) /\ IsWalkable(d)
    BY <2>1 DEF OpenNeighbours
  <2>3. c = Step(d, Opposite(e)) /\ Opposite(e) \in Directions
    BY <2>2, StepsBack, Opposites
  <2> QED BY <2>1, <2>2, <2>3 DEF Neighbours, OpenNeighbours
<1>3. ASSUME NEW c \in House \ Gate PROVE Neighbours[c] \subseteq House
  BY PlayfieldAssumption DEF Neighbours
<1> QED BY <1>1, <1>2, <1>3 DEF Neighbours

\* From outside the house only its gate can be stepped on.
LEMMA HouseIsShut ==
  ASSUME NEW c \in Cells \ Walls, c \notin House, NEW n \in Neighbours[c], n \in House
  PROVE n \in Gate
  BY PlayfieldReach, PlayfieldAssumption DEF Neighbours

-----------------------------------------------------------------------------
(* The invariant *)

\* A step that the ghost may take, and what becomes of it.
LEMMA MayGoReaches ==
  ASSUME WalkInv, NEW d \in Directions, MayGo(d)
  PROVE Step(ghost, d) \in Neighbours[ghost] /\ (is_in_house \/ Step(ghost, d) \notin Gate)
  BY StepInCells DEF WalkInv, MayGo, Neighbours, OpenNeighbours, IsWalkable

LEMMA OrderIsOfDirections ==
  /\ \A i \in 1 .. 4 : CandidateOrder[i] \in Directions
  /\ \A d \in Directions : \E i \in 1 .. 4 : CandidateOrder[i] = d
<1>1. /\ CandidateOrder[1] = "NORTH" /\ CandidateOrder[2] = "WEST"
      /\ CandidateOrder[3] = "SOUTH" /\ CandidateOrder[4] = "EAST"
  BY DEF CandidateOrder
<1> QED BY <1>1 DEF Directions

\* What a call of prv_find_step comes to, whatever the target: a rest, a step
\* in a direction that is not the way back, or the way back as the only way.
LEMMA StepTaken ==
  ASSUME WalkInv, NEW reference, TakesStep(reference, Opposite(heading))
  PROVE \/ Rests
        \/ \E d \in Directions : MayGo(d) /\ d # Opposite(heading) /\ GoesTo(d)
        \/ /\ Opposite(heading) \in Directions /\ MayGo(Opposite(heading))
           /\ \A d \in Directions : MayGo(d) => d = Opposite(heading)
           /\ GoesTo(Opposite(heading))
<1>1. heading \in Facings
  BY DEF WalkInv
<1>2. Opposite(heading) # "NONE" => Opposite(heading) \in Directions
  BY <1>1, Opposites, NoOpposite DEF Facings
<1>3. CASE Candidates(Opposite(heading)) = {}
  <2>1. \A d \in Directions : MayGo(d) => d = Opposite(heading)
    BY <1>3, OrderIsOfDirections DEF Candidates
  <2> QED BY <1>2, <1>3, <2>1 DEF TakesStep
<1>4. CASE Candidates(Opposite(heading)) # {}
  <2>1. PICK i \in Candidates(Opposite(heading)) : GoesTo(CandidateOrder[i])
    BY <1>4 DEF TakesStep
  <2> QED BY <2>1, OrderIsOfDirections DEF Candidates
<1> QED BY <1>3, <1>4

LEMMA MayStepReaches ==
  ASSUME WalkInv, NEW d \in Facings, MayStep(pacman, d)
  PROVE Step(pacman, d) \in Neighbours[pacman] \ Gate /\ Step(pacman, d) \in Cells \ Walls
<1>1. pacman \in Cells \ Walls /\ d \in Directions
  BY DEF WalkInv, MayStep, Facings
<1> QED BY <1>1, StepInCells DEF MayStep, Neighbours, OpenNeighbours, IsWalkable

LEMMA PacmanKeepsInv ==
  ASSUME WalkInv, PacmanAdvances
  PROVE WalkInv'
<1>1. /\ UNCHANGED <<queued_direction, asked, personality, ghost, heading, is_in_house>>
      /\ UNCHANGED <<is_waiting_in_house, mode, came_from>>
  BY DEF PacmanAdvances, ghostVars, houseFlags
<1>2. queued_direction \in Facings /\ facing \in Facings /\ pacman \in Cells \ Walls /\ pacman \notin House
  BY DEF WalkInv, BehindTheGate
<1>3. /\ pacman' \in Cells \ Walls /\ pacman' \notin House /\ facing' \in Facings
  <2>1. CASE \E d \in {queued_direction, facing} : MayStep(pacman, d) /\ Goes(d)
    <3>1. PICK d \in Facings : MayStep(pacman, d) /\ Goes(d)
      BY <2>1, <1>2
    <3>2. pacman' \in Neighbours[pacman] \ Gate /\ pacman' \in Cells \ Walls
      BY <3>1, MayStepReaches DEF Goes
    <3>3. pacman' \notin House
      BY <3>2, <1>2, HouseIsShut
    <3> QED BY <3>1, <3>2, <3>3 DEF Goes
  <2>2. CASE UNCHANGED <<pacman, facing>>
    BY <2>2, <1>2
  <2> QED BY <2>1, <2>2 DEF PacmanAdvances
<1> QED BY <1>1, <1>3 DEF WalkInv, BehindTheGate, CameFromBehind

LEMMA GhostKeepsInv ==
  ASSUME WalkInv, GhostAdvances
  PROVE WalkInv'
<1>1. /\ UNCHANGED <<pacman, facing, queued_direction, asked, personality, is_waiting_in_house, mode>>
      /\ is_in_house' = (is_in_house /\ ghost' \in House)
      /\ ~is_waiting_in_house
  BY DEF GhostAdvances, pacmanVars
<1>2. ghost \in Cells \ Walls /\ (is_in_house <=> ghost \in House)
  BY DEF WalkInv, BehindTheGate
<1>3. PICK reference : TakesStep(reference, Opposite(heading))
  BY DEF GhostAdvances
<1>4. CASE Rests
  BY <1>1, <1>4 DEF Rests, WalkInv, BehindTheGate, CameFromBehind
<1>5. ASSUME NEW d \in Directions, MayGo(d), GoesTo(d) PROVE WalkInv'
  <2>1. ghost' = Step(ghost, d) /\ heading' = d /\ came_from' = ghost
    BY <1>5 DEF GoesTo
  <2>2. ghost' \in Neighbours[ghost] /\ (is_in_house \/ ghost' \notin Gate)
    BY <1>5, <2>1, MayGoReaches
  <2>3. ghost' \in Cells \ Walls
    BY <1>2, <1>5, <2>1, StepInCells DEF MayGo, IsWalkable, Facings
  <2>4. ghost' \in House => is_in_house
    BY <1>2, <2>2, HouseIsShut
  <2>5. CameFromBehind'
    <3>1. d # "NONE" /\ came_from' = Step(ghost', Opposite(heading'))
      BY <1>2, <2>1, StepsBack DEF Directions
    <3> QED BY <3>1, <2>1 DEF CameFromBehind
  <2>6. heading' \in Facings
    BY <2>1 DEF Facings
  <2> QED BY <1>1, <2>3, <2>4, <2>5, <2>6 DEF WalkInv, BehindTheGate
<1> QED BY <1>3, <1>4, <1>5, StepTaken

LEMMA WalkInvStart == Init => WalkInv
<1> SUFFICES ASSUME Init PROVE WalkInv
  OBVIOUS
<1>1. personality \in Ghosts
  BY WalkAssumption DEF Init
<1>2. GhostStart[personality] \in Cells \ Walls /\ PacmanStart \in Cells \ (Walls \cup House)
  BY <1>1, PlayfieldAssumption
<1>3. BehindTheGate /\ is_in_house \in BOOLEAN /\ is_waiting_in_house \in BOOLEAN
  <2>1. is_in_house = (ghost \in House) /\ is_waiting_in_house = (ghost \in House)
    BY DEF Init
  <2>2. pacman \notin House
    BY <1>2 DEF Init
  <2>3. is_in_house \in BOOLEAN /\ is_waiting_in_house \in BOOLEAN
    BY <2>1
  <2>4. BehindTheGate
    <3>1. CASE ghost \in House
      BY <2>1, <2>2, <3>1 DEF BehindTheGate
    <3>2. CASE ghost \notin House
      BY <2>1, <2>2, <3>2 DEF BehindTheGate
    <3> QED BY <3>1, <3>2
  <2> QED BY <2>3, <2>4
<1>4. CameFromBehind /\ mode \in Modes /\ asked = queued_direction
  BY DEF Init, CameFromBehind, Modes
<1>5. facing \in Facings /\ queued_direction \in Facings /\ heading \in Facings
  BY DEF Init, Facings
<1>6. pacman \in Cells \ Walls /\ ghost \in Cells \ Walls
  BY <1>2 DEF Init
<1> QED BY <1>1, <1>3, <1>4, <1>5, <1>6 DEF WalkInv

LEMMA PlacingKeepsInv ==
  ASSUME WalkInv, PlaceEntities
  PROVE WalkInv'
<1>1. personality' \in Ghosts /\ personality' = personality
  BY DEF PlaceEntities, WalkInv
<1>2. GhostStart[personality] \in Cells \ Walls /\ PacmanStart \in Cells \ (Walls \cup House)
  BY <1>1, PlayfieldAssumption
<1>3. BehindTheGate' /\ is_in_house' \in BOOLEAN /\ is_waiting_in_house' \in BOOLEAN
  <2>1. is_in_house' = (ghost' \in House) /\ is_waiting_in_house' = (ghost' \in House)
    BY DEF PlaceEntities
  <2>2. pacman' \notin House
    BY <1>2 DEF PlaceEntities
  <2>3. is_in_house' \in BOOLEAN /\ is_waiting_in_house' \in BOOLEAN
    BY <2>1
  <2>4. BehindTheGate'
    <3>1. CASE ghost' \in House
      BY <2>1, <2>2, <3>1 DEF BehindTheGate
    <3>2. CASE ghost' \notin House
      BY <2>1, <2>2, <3>2 DEF BehindTheGate
    <3> QED BY <3>1, <3>2
  <2> QED BY <2>3, <2>4
<1>4. CameFromBehind' /\ mode' \in Modes /\ asked' = queued_direction'
  BY DEF PlaceEntities, CameFromBehind, Modes
<1>5. facing' \in Facings /\ queued_direction' \in Facings /\ heading' \in Facings
  BY DEF PlaceEntities, Facings
<1>6. pacman' \in Cells \ Walls /\ ghost' \in Cells \ Walls
  BY <1>2 DEF PlaceEntities
<1> QED BY <1>1, <1>3, <1>4, <1>5, <1>6 DEF WalkInv

LEMMA PenKeepsInv ==
  ASSUME WalkInv, SendToPen
  PROVE WalkInv'
<1>1. GhostStart["PINKY"] \in Cells \ Walls /\ GhostStart["PINKY"] \in House
  BY PlayfieldAssumption DEF Ghosts
<1>2. UNCHANGED <<pacman, facing, queued_direction, asked, personality>>
  BY DEF SendToPen, pacmanVars
<1> QED BY <1>1, <1>2 DEF SendToPen, WalkInv, BehindTheGate, CameFromBehind, Modes, Facings

LEMMA WalkInvStep == WalkInv /\ [Next]_walkVars => WalkInv'
<1> SUFFICES ASSUME WalkInv, [Next]_walkVars PROVE WalkInv'
  OBVIOUS
<1>1. ASSUME NEW d \in Directions, SetIntent(d) PROVE WalkInv'
  <2>1. /\ UNCHANGED <<pacman, facing, personality, ghost, heading, is_in_house>>
        /\ UNCHANGED <<is_waiting_in_house, mode, came_from>>
        /\ queued_direction' = d /\ asked' = d /\ d \in Facings
    BY <1>1 DEF SetIntent, ghostVars, houseFlags, Facings
  <2> QED BY <2>1 DEF WalkInv, BehindTheGate, CameFromBehind
<1>2. CASE PacmanAdvances
  BY <1>2, PacmanKeepsInv
<1>3. CASE GhostAdvances
  BY <1>3, GhostKeepsInv
<1>4. ASSUME NEW m \in Modes, SetMode(m) PROVE WalkInv'
  <2>1. /\ UNCHANGED <<pacman, facing, queued_direction, asked, personality, ghost, heading>>
        /\ UNCHANGED <<is_in_house, is_waiting_in_house, came_from>>
        /\ mode' \in Modes
    BY <1>4 DEF SetMode, pacmanVars, houseFlags
  <2> QED BY <2>1 DEF WalkInv, BehindTheGate, CameFromBehind
<1>5. CASE ReleaseFromHouse
  <2>1. /\ UNCHANGED <<pacman, facing, queued_direction, asked, personality, ghost, heading>>
        /\ UNCHANGED <<is_in_house, mode, came_from>>
        /\ is_waiting_in_house' = FALSE
    BY <1>5 DEF ReleaseFromHouse, pacmanVars
  <2> QED BY <2>1 DEF WalkInv, BehindTheGate, CameFromBehind
<1>6. CASE SendToPen
  BY <1>6, PenKeepsInv
<1>7. CASE PlaceEntities
  BY <1>7, PlacingKeepsInv
<1>8. CASE UNCHANGED walkVars
  BY <1>8 DEF walkVars, pacmanVars, ghostVars, houseFlags, WalkInv, BehindTheGate, CameFromBehind
<1> QED BY <1>1, <1>2, <1>3, <1>4, <1>5, <1>6, <1>7, <1>8 DEF Next

\* The walk keeps to its types; the gate is open for the ghosts behind it and
\* for no other; and Pacman never gets into the house.
THEOREM WalkInvariant == Spec => []WalkInv
  BY WalkInvStart, WalkInvStep, PTL DEF Spec

-----------------------------------------------------------------------------
(* What the steps promise *)

LEMMA CameFromElsewhere ==
  ASSUME WalkInv
  PROVE came_from # ghost
<1>1. ghost \in Cells /\ heading \in Facings
  BY DEF WalkInv
<1>2. CASE heading = "NONE"
  <2>1. Nowhere \notin Cells
    BY DEF Nowhere, Cells
  <2> QED BY <1>1, <1>2, <2>1 DEF WalkInv, CameFromBehind
<1>3. CASE heading # "NONE"
  <2>1. Opposite(heading) \in Directions
    BY <1>1, <1>3, Opposites DEF Facings
  <2> QED BY <1>1, <1>3, <2>1, StepsDiffer DEF WalkInv, CameFromBehind
<1> QED BY <1>2, <1>3

LEMMA GhostDoesNotTurn ==
  ASSUME WalkInv, GhostAdvances, came_from' = ghost, ghost' = came_from
  PROVE WaysOn = {came_from}
<1>1. ghost \in Cells \ Walls /\ heading \in Facings
  BY DEF WalkInv
<1>2. PICK reference : TakesStep(reference, Opposite(heading))
  BY DEF GhostAdvances
<1>3. ~Rests
  BY CameFromElsewhere DEF Rests
<1>4. ASSUME NEW d \in Directions, MayGo(d), GoesTo(d)
      PROVE d = Opposite(heading) /\ ghost' = Step(ghost, d)
  <2>1. ghost' = Step(ghost, d) /\ ghost' \in Cells
    BY <1>1, <1>4, StepInCells DEF GoesTo, Facings
  <2>2. heading # "NONE"
    <3>1. Nowhere \notin Cells
      BY DEF Nowhere, Cells
    <3> QED BY <2>1, <3>1 DEF WalkInv, CameFromBehind
  <2>3. Opposite(heading) \in Directions /\ came_from = Step(ghost, Opposite(heading))
    BY <1>1, <2>2, Opposites DEF WalkInv, CameFromBehind, Facings
  <2> QED BY <1>1, <2>1, <2>3, StepsDiffer
<1>5. CASE \E d \in Directions : MayGo(d) /\ d # Opposite(heading) /\ GoesTo(d)
  BY <1>4, <1>5
<1>6. ASSUME Opposite(heading) \in Directions, MayGo(Opposite(heading)),
             \A d \in Directions : MayGo(d) => d = Opposite(heading), GoesTo(Opposite(heading))
      PROVE WaysOn = {came_from}
  <2>1. came_from = Step(ghost, Opposite(heading))
    BY <1>4, <1>6
  <2>2. came_from \in WaysOn
    BY <1>6, <2>1, MayGoReaches DEF WaysOn
  <2>3. ASSUME NEW n \in WaysOn PROVE n = came_from
    <3>1. n \in Neighbours[ghost] /\ (is_in_house \/ n \notin Gate)
      BY <2>3 DEF WaysOn
    <3>2. PICK d \in Directions : n = Step(ghost, d) /\ IsWalkable(n)
      BY <1>1, <3>1 DEF Neighbours, OpenNeighbours
    <3>3. MayGo(d)
      BY <3>1, <3>2 DEF MayGo
    <3> QED BY <1>6, <2>1, <3>2, <3>3
  <2> QED BY <2>2, <2>3
<1> QED BY <1>2, <1>3, <1>5, <1>6, StepTaken

\* A ghost turns back only where there is no other way, whatever became of its
\* mode, its target or its flags since the last step.
THEOREM NeverTurnsBack == Spec => NoTurningBack
<1>1. WalkInv /\ [Next]_walkVars =>
        [came_from' = ghost /\ ghost' = came_from => WaysOn = {came_from}]_walkVars
  <2> SUFFICES ASSUME WalkInv, [Next]_walkVars, came_from' = ghost, ghost' = came_from
               PROVE WaysOn = {came_from}
    OBVIOUS
  <2>1. came_from # ghost /\ ghost # Nowhere
    <3>1. Nowhere \notin Cells
      BY DEF Nowhere, Cells
    <3> QED BY <3>1, CameFromElsewhere DEF WalkInv
  <2>2. CASE GhostAdvances
    BY <2>2, GhostDoesNotTurn
  <2>3. CASE UNCHANGED came_from
    BY <2>1, <2>3
  <2>4. CASE came_from' = Nowhere
    BY <2>1, <2>4
  <2>5. [Next]_walkVars => GhostAdvances \/ UNCHANGED came_from \/ came_from' = Nowhere
    BY DEF Next, walkVars, ghostVars, SetIntent, PacmanAdvances, SetMode, ReleaseFromHouse,
           SendToPen, PlaceEntities
  <2> QED BY <2>2, <2>3, <2>4, <2>5
<1> QED BY <1>1, WalkInvariant, PTL DEF Spec, NoTurningBack

\* A turn is made at the first cell where it is open.
THEOREM TurnIsAlwaysKept == Spec => TurnIsKept
<1> DEFINE Kept ==
      pacman' # pacman /\ asked' = asked /\ asked # "NONE" =>
        \/ pacman' = Step(pacman, asked)
        \/ ~MayStep(pacman, asked) /\ pacman' = Step(pacman, facing)
<1>1. WalkInv /\ [Next]_walkVars => [Kept]_walkVars
  <2> SUFFICES ASSUME WalkInv, [Next]_walkVars, pacman' # pacman, asked' = asked, asked # "NONE"
               PROVE \/ pacman' = Step(pacman, asked)
                     \/ ~MayStep(pacman, asked) /\ pacman' = Step(pacman, facing)
    OBVIOUS
  <2>1. [Next]_walkVars => PacmanAdvances \/ UNCHANGED pacman \/ asked' = "NONE"
    BY DEF Next, walkVars, pacmanVars, SetIntent, GhostAdvances, SetMode, ReleaseFromHouse,
           SendToPen, PlaceEntities
  <2>2. PacmanAdvances
    BY <2>1
  <2>3. asked = queued_direction
    BY DEF WalkInv
  <2> QED BY <2>2, <2>3 DEF PacmanAdvances, Goes
<1> QED BY <1>1, WalkInvariant, PTL DEF Spec, TurnIsKept

-----------------------------------------------------------------------------
(* Walk takes the steps of Steps *)

LEMMA StepsOfPacman ==
  ASSUME WalkInv, PacmanAdvances
  PROVE AsInGame!PacmanSteps
<1>1. UNCHANGED <<personality, ghost, is_in_house, is_waiting_in_house>>
  BY DEF PacmanAdvances, ghostVars, houseFlags
<1>2. queued_direction \in Facings /\ facing \in Facings
  BY DEF WalkInv
<1>3. pacman' = pacman \/ pacman' \in Neighbours[pacman] \ Gate
  BY <1>2, MayStepReaches DEF PacmanAdvances, Goes
<1> QED BY <1>1, <1>3 DEF AsInGame!PacmanSteps, AsInGame!PacmanReach

LEMMA StepsOfGhost ==
  ASSUME WalkInv, GhostAdvances
  PROVE AsInGame!GhostSteps \/ UNCHANGED AsInGame!stepVars
<1>1. /\ UNCHANGED <<pacman, personality, is_waiting_in_house>>
      /\ is_in_house' = (is_in_house /\ ghost' \in House)
      /\ ~is_waiting_in_house /\ ghost # pacman
  BY DEF GhostAdvances, pacmanVars, HasMet
<1>2. PICK reference : TakesStep(reference, Opposite(heading))
  BY DEF GhostAdvances
<1>3. CASE Rests
  <2>1. ghost' = ghost /\ (is_in_house <=> ghost \in House) /\ is_in_house \in BOOLEAN
    BY <1>3 DEF Rests, WalkInv, BehindTheGate
  <2>2. is_in_house' = is_in_house
    BY <1>1, <2>1
  <2> QED BY <1>1, <2>1, <2>2 DEF AsInGame!stepVars
<1>4. ASSUME NEW d \in Directions, MayGo(d), GoesTo(d) PROVE AsInGame!GhostSteps
  <2>1. ghost' \in Neighbours[ghost] /\ (is_in_house \/ ghost' \notin Gate)
    BY <1>4, MayGoReaches DEF GoesTo
  <2>2. ghost' \in AsInGame!GhostReach(ghost, is_in_house)
    BY <2>1 DEF AsInGame!GhostReach
  <2> QED BY <1>1, <2>2 DEF AsInGame!GhostSteps
<1> QED BY <1>2, <1>3, <1>4, StepTaken

\* Whatever Pacman and the ghosts decide, every step is one that Game allows.
THEOREM WalksAsInGame == Spec => AsInGame!StepsSafety
<1>1. Init => AsInGame!StepsInit
  BY DEF Init, AsInGame!StepsInit
<1>2. WalkInv /\ [Next]_walkVars => [AsInGame!StepsNext]_(AsInGame!stepVars)
  <2> SUFFICES ASSUME WalkInv, [Next]_walkVars
               PROVE AsInGame!StepsNext \/ UNCHANGED AsInGame!stepVars
    OBVIOUS
  <2>1. CASE PacmanAdvances
    BY <2>1, StepsOfPacman DEF AsInGame!StepsNext
  <2>2. CASE GhostAdvances
    BY <2>2, StepsOfGhost DEF AsInGame!StepsNext
  <2>3. CASE (\E d \in Directions : SetIntent(d)) \/ (\E m \in Modes : SetMode(m)) \/ UNCHANGED walkVars
    BY <2>3 DEF SetIntent, SetMode, walkVars, pacmanVars, ghostVars, houseFlags, AsInGame!stepVars
  <2>4. CASE ReleaseFromHouse
    BY <2>4 DEF ReleaseFromHouse, pacmanVars, AsInGame!StepsNext, AsInGame!Release
  <2>5. CASE SendToPen
    BY <2>5 DEF SendToPen, HasMet, pacmanVars, AsInGame!StepsNext, AsInGame!GoesToPen
  <2>6. CASE PlaceEntities
    BY <2>6 DEF PlaceEntities, AsInGame!StepsNext, AsInGame!PlaceBoth
  <2> QED BY <2>1, <2>2, <2>3, <2>4, <2>5, <2>6 DEF Next
<1> QED BY <1>1, <1>2, WalkInvariant, PTL DEF Spec, AsInGame!StepsSafety

=============================================================================
