---------------------------- MODULE SwTimerProofs ----------------------------
(***************************************************************************)
(* The timers for every width of the tick, number of timers and lag, as    *)
(* long as no callback arms a timer the pass has still to visit: the       *)
(* unsigned difference of ticks is the true age of a timer wherever the    *)
(* tick wraps, and each timer fires once, not early and not late.          *)
(***************************************************************************)
EXTENDS SwTimer, TLAPS

\* The slots that nobody has taken yet are as Init left them.
FreeSlots == \A i \in Slots : i > created => timeout_ms[i] = 0

TimerInv == IInv /\ FreeSlots

-----------------------------------------------------------------------------
(* The arithmetic of the tick *)

\* One more tick is one more of age, across the wrap too, while the age is
\* below a whole turn.
LEMMA DifferenceGrows ==
  ASSUME NEW a \in 0 .. W - 1, NEW b \in 0 .. W - 1, Minus(a, b) + 1 < W
  PROVE  /\ Incremented(a) \in 0 .. W - 1
         /\ Minus(Incremented(a), b) = Minus(a, b) + 1
  BY TimerAssumption DEF Minus, Incremented

LEMMA DifferenceOfSelf ==
  ASSUME NEW a \in 0 .. W - 1 PROVE Minus(a, a) = 0
  BY TimerAssumption DEF Minus

\* How old a timer was when the sample of the pass was taken.
LEMMA AgeAtSample ==
  ASSUME NEW a \in 0 .. W - 1, NEW s \in 0 .. W - 1, NEW b \in 0 .. W - 1,
         Minus(a, s) <= Minus(a, b)
  PROVE  Minus(s, b) = Minus(a, b) - Minus(a, s)
  BY TimerAssumption DEF Minus

\* A timer that is armed is younger than a turn of the tick.
LEMMA AgeIsBounded ==
  ASSUME TimerInv, NEW i \in Slots, is_active[i]
  PROVE  /\ age[i] \in Nat /\ timeout_ms[i] \in Nat /\ lag \in 0 .. MaxLag
         /\ age[i] <= timeout_ms[i] + lag + MaxLag
         /\ timeout_ms[i] + 2 * MaxLag < W
<1>1. /\ age[i] \in Nat /\ lag \in 0 .. MaxLag /\ timeout_ms[i] \in Timeouts \cup {0}
      /\ MaxLag \in Nat /\ W \in Nat
  BY TimerAssumption DEF TimerInv, IInv, TypeOK
<1>2. timeout_ms[i] \in Nat /\ timeout_ms[i] + 2 * MaxLag < W
  <2>1. CASE timeout_ms[i] = 0
    BY <1>1, <2>1, TimerAssumption
  <2>2. CASE timeout_ms[i] \in Timeouts
    BY <2>2, TimerAssumption
  <2> QED BY <1>1, <2>1, <2>2
<1>3. age[i] <= timeout_ms[i] + lag + MaxLag
  BY <1>1, <1>2 DEF TimerInv, IInv, TimersConsistent, PassIsConsistent
<1> QED BY <1>1, <1>2, <1>3

-----------------------------------------------------------------------------
(* The invariant *)

LEMMA TimerInit == Init => TimerInv
<1> SUFFICES ASSUME Init PROVE TimerInv
  OBVIOUS
<1>1. TypeOK
  BY TimerAssumption DEF Init, TypeOK, Slots
<1> QED BY <1>1 DEF Init, TimerInv, IInv, TimersConsistent, AgesAgree, PassIsConsistent, FreeSlots

LEMMA TickKeeps == ASSUME TimerInv, Tick PROVE TimerInv'
<1> USE DEF TimerInv, IInv
<1>0. /\ W \in Nat /\ MaxLag \in Nat /\ tick \in 0 .. W - 1 /\ now \in 0 .. W - 1
      /\ lag \in 0 .. MaxLag /\ lag < MaxLag /\ 2 * MaxLag < W
      /\ start_tick \in [Slots -> 0 .. W - 1] /\ age \in [Slots -> 0 .. W - 1]
  BY TimerAssumption DEF Tick, TypeOK
<1>1. /\ tick' = Incremented(tick) /\ lag' = lag + 1
      /\ UNCHANGED <<created, is_active, start_tick, timeout_ms, pc, index, now>>
      /\ age' = [i \in Slots |-> IF is_active[i] THEN age[i] + 1 ELSE 0]
  BY DEF Tick, loop
<1>2. \A i \in Slots : is_active[i] =>
        /\ age[i] + 1 < W
        /\ Minus(tick, start_tick[i]) = age[i]
        /\ Minus(tick', start_tick[i]) = age[i] + 1
  <2> SUFFICES ASSUME NEW i \in Slots, is_active[i]
               PROVE  /\ age[i] + 1 < W
                      /\ Minus(tick, start_tick[i]) = age[i]
                      /\ Minus(tick', start_tick[i]) = age[i] + 1
    OBVIOUS
  <2>1. age[i] + 1 < W
    BY <1>0, AgeIsBounded
  <2>2. Minus(tick, start_tick[i]) = age[i]
    BY DEF TimersConsistent, AgesAgree
  <2> QED BY <1>0, <1>1, <2>1, <2>2, DifferenceGrows
<1>3. TypeOK'
  <2>1. age' \in [Slots -> 0 .. W - 1]
    BY <1>0, <1>1, <1>2
  <2>2. tick' \in 0 .. W - 1
    BY <1>0, <1>1 DEF Incremented
  <2>3. lag' \in 0 .. MaxLag
    BY <1>0, <1>1
  <2> QED BY <1>1, <2>1, <2>2, <2>3 DEF TypeOK
<1>4. AgesAgree'
  BY <1>1, <1>2 DEF TimersConsistent, AgesAgree
<1>5. PassIsConsistent'
  <2>1. pc # "idle" => Minus(tick', now) = lag + 1
    BY <1>0, <1>1, DifferenceGrows DEF TimersConsistent, PassIsConsistent
  <2>2. ASSUME NEW i \in Slots, is_active[i]
        PROVE  IF Unvisited(i)
               THEN lag' <= age'[i] /\ age'[i] - lag' <= timeout_ms[i] + MaxLag
               ELSE age'[i] <= timeout_ms[i] + lag'
    <3>1. age'[i] = age[i] + 1 /\ age[i] \in Nat /\ timeout_ms[i] \in Nat
      BY <1>1, <2>2, AgeIsBounded
    <3>2. IF Unvisited(i)
          THEN lag <= age[i] /\ age[i] - lag <= timeout_ms[i] + MaxLag
          ELSE age[i] <= timeout_ms[i] + lag
      BY <2>2 DEF TimersConsistent, PassIsConsistent
    <3> QED BY <1>0, <1>1, <3>1, <3>2
  <2> QED BY <1>1, <2>1, <2>2 DEF PassIsConsistent, Unvisited
<1>6. FreeSlots'
  BY <1>1 DEF FreeSlots
<1> QED BY <1>3, <1>4, <1>5, <1>6 DEF TimersConsistent

LEMMA CreateKeeps == ASSUME TimerInv, Create PROVE TimerInv' /\ UNCHANGED <<is_active, timeout_ms, age>>
<1> USE DEF TimerInv, IInv
<1>1. /\ created \in 0 .. N /\ N \in Nat /\ created < N /\ 0 \in 0 .. W - 1
      /\ created + 1 \in Slots /\ created' = created + 1
  BY TimerAssumption DEF Create, TypeOK, Slots
<1>2. is_active' = is_active
  <2>1. ~is_active[created + 1]
    BY <1>1 DEF TimersConsistent, AgesAgree
  <2> QED BY <1>1, <2>1 DEF Create, TypeOK
<1>3. timeout_ms' = timeout_ms
  BY <1>1 DEF Create, TypeOK, FreeSlots
<1>4. start_tick' \in [Slots -> 0 .. W - 1]
  BY <1>1 DEF Create, TypeOK
<1>5. \A i \in Slots : is_active[i] => start_tick'[i] = start_tick[i]
  BY <1>1 DEF Create, TypeOK, TimersConsistent, AgesAgree
<1>6. UNCHANGED <<tick, pc, index, now, lag, age>>
  BY DEF Create, loop
<1>7. TypeOK'
  BY <1>1, <1>2, <1>3, <1>4, <1>6 DEF TypeOK
<1>8. AgesAgree'
  <2> SUFFICES ASSUME NEW i \in Slots, is_active[i]
               PROVE  i <= created' /\ Minus(tick', start_tick'[i]) = age'[i]
    BY <1>2 DEF AgesAgree
  <2>1. i <= created /\ Minus(tick, start_tick[i]) = age[i] /\ i \in Int
    BY DEF TimersConsistent, AgesAgree, Slots
  <2>2. start_tick'[i] = start_tick[i]
    BY <1>5
  <2>3. i <= created'
    BY <1>1, <2>1
  <2> QED BY <1>6, <2>1, <2>2, <2>3
<1>9. PassIsConsistent'
  BY <1>2, <1>3, <1>6 DEF TimersConsistent, PassIsConsistent, Unvisited
<1>10. FreeSlots'
  BY <1>1, <1>3 DEF FreeSlots, Slots
<1> QED BY <1>2, <1>3, <1>6, <1>7, <1>8, <1>9, <1>10 DEF TimersConsistent

\* Arming a timer, by a start or a reset: no pass in progress has still to
\* visit it.
LEMMA ArmingKeeps ==
  ASSUME TimerInv, ArmsNoLater, NEW i \in Slots, NEW t \in Timeouts \cup {0}, MayCall(i),
         start_tick' = [start_tick EXCEPT ![i] = tick],
         timeout_ms' = [timeout_ms EXCEPT ![i] = t],
         is_active' = [is_active EXCEPT ![i] = TRUE],
         age' = [age EXCEPT ![i] = 0],
         UNCHANGED <<tick, created, loop, lag>>
  PROVE  TimerInv'
<1> USE DEF TimerInv, IInv
<1>0. UNCHANGED <<tick, created, pc, index, now, lag>>
  BY DEF loop
<1>1. /\ W \in Nat /\ MaxLag \in Nat /\ 0 \in 0 .. W - 1 /\ tick \in 0 .. W - 1
      /\ lag \in 0 .. MaxLag /\ t \in Nat
  BY TimerAssumption DEF TypeOK
<1>2. TypeOK'
  BY <1>0, <1>1 DEF TypeOK
<1>3. /\ is_active'[i] /\ start_tick'[i] = tick /\ age'[i] = 0 /\ timeout_ms'[i] = t
      /\ i <= created
  BY DEF TypeOK, MayCall
<1>4. ASSUME NEW j \in Slots, j # i
      PROVE  /\ is_active'[j] = is_active[j] /\ start_tick'[j] = start_tick[j]
             /\ age'[j] = age[j] /\ timeout_ms'[j] = timeout_ms[j]
  BY <1>4 DEF TypeOK
<1>5. AgesAgree'
  <2> SUFFICES ASSUME NEW j \in Slots, is_active'[j]
               PROVE  j <= created /\ Minus(tick, start_tick'[j]) = age'[j]
    BY <1>0 DEF AgesAgree
  <2>1. CASE j = i
    BY <1>1, <1>3, <2>1, DifferenceOfSelf
  <2>2. CASE j # i
    BY <1>4, <2>2 DEF TimersConsistent, AgesAgree
  <2> QED BY <2>1, <2>2
<1>6. ~Unvisited(i)
  <2>1. CASE pc = "idle"
    BY <2>1 DEF Unvisited
  <2>2. CASE pc = "callback" /\ i \in MayArm[index]
    <3>1. index \in Slots
      BY <2>2 DEF TypeOK
    <3>2. i \in 1 .. index /\ index \in Int
      BY <2>2, <3>1 DEF ArmsNoLater, Slots
    <3> QED BY <2>2, <3>2 DEF Unvisited
  <2> QED BY <2>1, <2>2 DEF MayCall
<1>7. PassIsConsistent'
  <2>1. ASSUME NEW j \in Slots, is_active'[j]
        PROVE  IF Unvisited(j)
               THEN lag <= age'[j] /\ age'[j] - lag <= timeout_ms'[j] + MaxLag
               ELSE age'[j] <= timeout_ms'[j] + lag
    <3>1. CASE j = i
      BY <1>1, <1>3, <1>6, <3>1
    <3>2. CASE j # i
      BY <1>4, <2>1, <3>2 DEF TimersConsistent, PassIsConsistent
    <3> QED BY <3>1, <3>2
  <2> QED BY <1>0, <2>1 DEF TimersConsistent, PassIsConsistent, Unvisited
<1>8. FreeSlots'
  <2> SUFFICES ASSUME NEW j \in Slots, j > created PROVE timeout_ms'[j] = 0
    BY <1>0 DEF FreeSlots
  <2>1. j # i
    BY <1>3 DEF TypeOK, Slots
  <2> QED BY <1>4, <2>1 DEF FreeSlots
<1> QED BY <1>2, <1>5, <1>7, <1>8 DEF TimersConsistent

\* Disarming one, by a stop or because it fires, wherever the loop goes on to,
\* as long as the rest of the pass stays the same for the others.
LEMMA DisarmingKeeps ==
  ASSUME TimerInv, NEW i \in Slots,
         is_active' = [is_active EXCEPT ![i] = FALSE],
         age' = [age EXCEPT ![i] = 0],
         UNCHANGED <<tick, created, start_tick, timeout_ms, index, now, lag>>,
         pc' \in {"idle", "visit", "callback"}, pc' = "idle" <=> pc = "idle",
         \A j \in Slots \ {i} : Unvisited(j)' <=> Unvisited(j)
  PROVE  TimerInv'
<1> USE DEF TimerInv, IInv
<1>1. 0 \in 0 .. W - 1
  BY TimerAssumption
<1>2. TypeOK'
  BY <1>1 DEF TypeOK
<1>3. ASSUME NEW j \in Slots, is_active'[j]
      PROVE  j # i /\ is_active[j] /\ age'[j] = age[j]
  BY <1>3 DEF TypeOK
<1>4. AgesAgree'
  BY <1>3 DEF TimersConsistent, AgesAgree
<1>5. PassIsConsistent'
  <2>1. ASSUME NEW j \in Slots, is_active'[j]
        PROVE  IF Unvisited(j)'
               THEN lag <= age'[j] /\ age'[j] - lag <= timeout_ms[j] + MaxLag
               ELSE age'[j] <= timeout_ms[j] + lag
    BY <1>3, <2>1 DEF TimersConsistent, PassIsConsistent
  <2>2. pc' # "idle" => Minus(tick, now) = lag
    BY DEF TimersConsistent, PassIsConsistent
  <2> QED BY <2>1, <2>2 DEF PassIsConsistent
<1> QED BY <1>2, <1>4, <1>5 DEF TimersConsistent, FreeSlots

-----------------------------------------------------------------------------
(* The pass *)

LEMMA ProcessBeginsKeeps == ASSUME TimerInv, ProcessBegins PROVE TimerInv'
<1> USE DEF TimerInv, IInv
<1>1. /\ pc = "idle" /\ pc' = "visit" /\ index' = 1 /\ now' = tick /\ lag' = 0
      /\ UNCHANGED <<tick, created, is_active, start_tick, timeout_ms, age>>
  BY DEF ProcessBegins, timers
<1>2. TypeOK'
  BY <1>1, TimerAssumption DEF TypeOK, Slots
<1>3. AgesAgree'
  BY <1>1 DEF TimersConsistent, AgesAgree
<1>4. Minus(tick, tick) = 0
  BY DifferenceOfSelf DEF TypeOK
<1>5. \A i \in Slots : is_active[i] => 0 <= age[i] /\ age[i] - 0 <= timeout_ms[i] + MaxLag
  <2> SUFFICES ASSUME NEW i \in Slots, is_active[i]
               PROVE  0 <= age[i] /\ age[i] <= timeout_ms[i] + MaxLag
    BY AgeIsBounded
  <2>1. ~Unvisited(i)
    BY <1>1 DEF Unvisited
  <2>2. age[i] <= timeout_ms[i] + lag
    BY <2>1 DEF TimersConsistent, PassIsConsistent
  <2> QED BY <2>2, AgeIsBounded, TimerAssumption
<1>6. \A i \in Slots : Unvisited(i)'
  BY <1>1 DEF Unvisited, Slots
<1>7. PassIsConsistent'
  BY <1>1, <1>4, <1>5, <1>6 DEF PassIsConsistent
<1> QED BY <1>1, <1>2, <1>3, <1>7 DEF TimersConsistent, FreeSlots

\* Whether a slot the pass is at has expired, as the age says it.
LEMMA ExpiredByAge ==
  ASSUME TimerInv, pc = "visit", is_active[index]
  PROVE  /\ index \in Slots
         /\ HasExpired(index) <=> age[index] - lag >= timeout_ms[index]
<1> USE DEF TimerInv, IInv
<1>1. index \in Slots /\ Unvisited(index)
  BY DEF TypeOK, Unvisited, Slots
<1>2. /\ Minus(tick, start_tick[index]) = age[index] /\ Minus(tick, now) = lag
      /\ lag <= age[index]
  BY <1>1 DEF TimersConsistent, AgesAgree, PassIsConsistent
<1>3. Minus(now, start_tick[index]) = age[index] - lag
  BY <1>1, <1>2, AgeAtSample DEF TypeOK
<1> QED BY <1>1, <1>3 DEF HasExpired

\* Going on to the next slot leaves the others as they are.
LEMMA AdvancingKeeps ==
  ASSUME TimerInv, pc # "idle", Advance, UNCHANGED <<tick, created, timers, lag>>,
         is_active[index] => age[index] <= timeout_ms[index] + lag
  PROVE  TimerInv'
<1> USE DEF TimerInv, IInv
<1>0. UNCHANGED <<is_active, start_tick, timeout_ms, age>>
  BY DEF timers
<1>1. index \in Slots /\ N \in Nat /\ now \in 0 .. W - 1 /\ 0 \in 0 .. W - 1
  BY TimerAssumption DEF TypeOK
<1>2. /\ pc' \in {"idle", "visit"} /\ (pc' = "idle" => index' = 0)
      /\ (pc' = "visit" => index' = index + 1 /\ index < N /\ now' = now)
      /\ now' \in 0 .. W - 1
  BY <1>1 DEF Advance
<1>3. TypeOK'
  BY <1>0, <1>1, <1>2 DEF TypeOK, Slots
<1>4. AgesAgree'
  BY <1>0 DEF TimersConsistent, AgesAgree
<1>5. ASSUME NEW i \in Slots, Unvisited(i)' PROVE Unvisited(i)
  BY <1>1, <1>2, <1>5 DEF Unvisited, Slots, TypeOK
<1>6. ASSUME NEW i \in Slots, ~Unvisited(i)', i # index PROVE ~Unvisited(i)
  BY <1>1, <1>6 DEF Unvisited, Slots, TypeOK, Advance
<1>7. ASSUME NEW i \in Slots, i = index PROVE ~Unvisited(i)'
  BY <1>1, <1>2, <1>7 DEF Unvisited, Slots
<1>8. ASSUME NEW i \in Slots, is_active[i]
      PROVE  IF Unvisited(i)'
             THEN lag <= age[i] /\ age[i] - lag <= timeout_ms[i] + MaxLag
             ELSE age[i] <= timeout_ms[i] + lag
  <2>1. CASE i = index
    BY <1>7, <1>8, <2>1
  <2>2. CASE i # index
    BY <1>5, <1>6, <1>8, <2>2 DEF TimersConsistent, PassIsConsistent
  <2> QED BY <2>1, <2>2
<1>9. PassIsConsistent'
  BY <1>0, <1>2, <1>8 DEF TimersConsistent, PassIsConsistent
<1> QED BY <1>0, <1>3, <1>4, <1>9 DEF TimersConsistent, FreeSlots

LEMMA VisitPassesKeeps == ASSUME TimerInv, VisitPasses PROVE TimerInv'
<1>1. pc = "visit" /\ ~MustFire /\ Advance /\ UNCHANGED <<tick, created, timers, lag>>
  BY DEF VisitPasses
<1>2. index \in Slots
  BY <1>1 DEF TimerInv, IInv, TypeOK
<1>3. ASSUME is_active[index] PROVE age[index] <= timeout_ms[index] + lag
  <2>1. ~HasExpired(index)
    BY <1>1, <1>2, <1>3 DEF MustFire, TimerInv, IInv, TimersConsistent, AgesAgree
  <2> QED BY <1>1, <1>2, <1>3, <2>1, ExpiredByAge, AgeIsBounded
<1> QED BY <1>1, <1>3, AdvancingKeeps

LEMMA CallbackReturnsKeeps == ASSUME TimerInv, CallbackReturns PROVE TimerInv'
<1>1. pc = "callback" /\ Advance /\ UNCHANGED <<tick, created, timers, lag>>
  BY DEF CallbackReturns
<1>2. index \in Slots
  BY <1>1 DEF TimerInv, IInv, TypeOK
<1>3. ~Unvisited(index)
  BY <1>1, <1>2 DEF Unvisited, Slots
<1>4. is_active[index] => age[index] <= timeout_ms[index] + lag
  BY <1>2, <1>3 DEF TimerInv, IInv, TimersConsistent, PassIsConsistent
<1> QED BY <1>1, <1>4, AdvancingKeeps

LEMMA VisitFiresKeeps ==
  ASSUME TimerInv, VisitFires
  PROVE  TimerInv' /\ index \in Slots /\ is_active[index] /\ age[index] >= timeout_ms[index]
<1>1. /\ pc = "visit" /\ pc' = "callback" /\ is_active[index] /\ HasExpired(index)
      /\ is_active' = [is_active EXCEPT ![index] = FALSE]
      /\ age' = [age EXCEPT ![index] = 0]
      /\ UNCHANGED <<tick, created, start_tick, timeout_ms, index, now, lag>>
  BY DEF VisitFires, MustFire
<1>2. index \in Slots
  BY <1>1 DEF TimerInv, IInv, TypeOK
<1>3. age[index] >= timeout_ms[index]
  BY <1>1, <1>2, ExpiredByAge, AgeIsBounded
<1>4. \A j \in Slots \ {index} : Unvisited(j)' <=> Unvisited(j)
  BY <1>1, <1>2 DEF Unvisited, Slots
<1>5. TimerInv'
  BY <1>1, <1>2, <1>4, DisarmingKeeps
<1> QED BY <1>1, <1>2, <1>3, <1>5

-----------------------------------------------------------------------------
(* The calls of the program *)

LEMMA StartKeeps ==
  ASSUME TimerInv, ArmsNoLater, NEW i \in Slots, NEW t \in Timeouts, Start(i, t)
  PROVE  TimerInv'
  BY ArmingKeeps DEF Start

LEMMA ResetKeeps ==
  ASSUME TimerInv, ArmsNoLater, NEW i \in Slots, Reset(i)
  PROVE  TimerInv'
<1>1. /\ timeout_ms' = [timeout_ms EXCEPT ![i] = timeout_ms[i]]
      /\ is_active' = [is_active EXCEPT ![i] = TRUE]
      /\ timeout_ms[i] \in Timeouts \cup {0}
  BY DEF Reset, TimerInv, IInv, TypeOK
<1> QED BY <1>1, ArmingKeeps DEF Reset

LEMMA StopKeeps ==
  ASSUME TimerInv, NEW i \in Slots, Stop(i)
  PROVE  TimerInv'
<1>1. UNCHANGED <<pc, index, now>> /\ pc \in {"idle", "visit", "callback"}
  BY DEF Stop, loop, TimerInv, IInv, TypeOK
<1>2. \A j \in Slots \ {i} : Unvisited(j)' <=> Unvisited(j)
  BY <1>1 DEF Unvisited
<1> QED BY <1>1, <1>2, DisarmingKeeps DEF Stop

-----------------------------------------------------------------------------
\* Every step keeps the invariant, if no callback arms a later timer.
LEMMA TimerStep ==
  ASSUME TimerInv, ArmsNoLater, [Next]_vars
  PROVE  TimerInv'
<1>1. CASE Tick
  BY <1>1, TickKeeps
<1>2. CASE Create
  BY <1>2, CreateKeeps
<1>3. CASE Process
  BY <1>3, ProcessBeginsKeeps, VisitPassesKeeps, VisitFiresKeeps, CallbackReturnsKeeps
     DEF Process
<1>4. ASSUME NEW i \in Slots, Reset(i) \/ Stop(i) \/ \E t \in Timeouts : Start(i, t)
      PROVE  TimerInv'
  BY <1>4, ResetKeeps, StopKeeps, StartKeeps
<1>5. CASE UNCHANGED vars
  BY <1>5 DEF vars, timers, loop, TimerInv, IInv, TypeOK, TimersConsistent, AgesAgree,
     PassIsConsistent, Unvisited, FreeSlots
<1> QED BY <1>1, <1>2, <1>3, <1>4, <1>5 DEF Next

LEMMA TimerInductive == ASSUME ArmsNoLater PROVE Spec => []TimerInv
<1>1. TimerInv /\ [Next]_vars => TimerInv'
  BY TimerStep
<1> QED BY <1>1, TimerInit, PTL DEF Spec

\* sw_timer.c: whatever the callbacks arm among their own and earlier timers,
\* the difference of the 32-bit ticks is the age of every armed timer, and the
\* one sample of a pass tells the expired ones from the others.
THEOREM TimersAlwaysConsistent == ASSUME ArmsNoLater PROVE Spec => []TimersConsistent
<1>1. TimerInv => TimersConsistent
  BY DEF TimerInv, IInv
<1> QED BY <1>1, TimerInductive, PTL

-----------------------------------------------------------------------------
(* The promise to the program *)

Armed == {i \in Slots : is_active[i]}

LEMMA DeadlinesInit == Init => Abstract!Init
  BY DEF Init, Abstract!Init

LEMMA TickRefines == ASSUME TimerInv, Tick PROVE Abstract!Tick
<1>1. /\ lag < MaxLag /\ UNCHANGED <<is_active, timeout_ms>>
      /\ age' = [i \in Slots |-> IF is_active[i] THEN age[i] + 1 ELSE 0]
  BY DEF Tick
<1>2. \A i \in Armed : age[i] < timeout_ms[i] + 2 * MaxLag
  BY <1>1, AgeIsBounded, TimerAssumption DEF Armed
<1>3. age' = [i \in Slots |-> IF i \in Armed THEN age[i] + 1 ELSE 0]
  BY <1>1 DEF Armed
<1> QED BY <1>1, <1>2, <1>3 DEF Abstract!Tick, Armed

LEMMA ArmingRefines ==
  ASSUME TimerInv, NEW i \in Slots, is_active' = [is_active EXCEPT ![i] = TRUE]
  PROVE  Armed' = Armed \cup {i}
  BY DEF Armed, TimerInv, IInv, TypeOK

LEMMA DisarmingRefines ==
  ASSUME TimerInv, NEW i \in Slots, is_active' = [is_active EXCEPT ![i] = FALSE]
  PROVE  Armed' = Armed \ {i}
  BY DEF Armed, TimerInv, IInv, TypeOK

LEMMA DeadlinesStep ==
  ASSUME TimerInv, [Next]_vars
  PROVE  [Abstract!Next]_(Abstract!vars)
<1> USE DEF Abstract!Next, Abstract!vars
<1>1. CASE Tick
  BY <1>1, TickRefines
<1>2. CASE Create
  BY <1>2, CreateKeeps
<1>3. CASE Process
  <2>1. CASE ProcessBegins \/ VisitPasses \/ CallbackReturns
    BY <2>1 DEF ProcessBegins, VisitPasses, CallbackReturns, timers
  <2>2. CASE VisitFires
    <3>1. index \in Slots /\ is_active[index] /\ age[index] >= timeout_ms[index]
      BY <2>2, VisitFiresKeeps
    <3>2. PICK i \in Slots : i = index
      BY <3>1
    <3>3. Armed' = Armed \ {i} /\ i \in Armed
      BY <2>2, <3>1, <3>2, DisarmingRefines DEF VisitFires, Armed
    <3>4. Abstract!Fire(i)
      BY <2>2, <3>1, <3>2, <3>3 DEF VisitFires, Abstract!Fire, Abstract!Disarm, Armed
    <3> QED BY <3>4
  <2> QED BY <1>3, <2>1, <2>2 DEF Process
<1>4. ASSUME NEW i \in Slots, NEW t \in Timeouts, Start(i, t)
      PROVE  Abstract!Start(i, t)
  BY <1>4, ArmingRefines DEF Start, Abstract!Start, Armed
<1>5. ASSUME NEW i \in Slots, Reset(i)
      PROVE  Abstract!Reset(i)
  BY <1>5 DEF Reset, Abstract!Reset
<1>6. ASSUME NEW i \in Slots, Stop(i)
      PROVE  Abstract!Stop(i)
  BY <1>6, DisarmingRefines DEF Stop, Abstract!Stop, Abstract!Disarm, Armed
<1>7. CASE UNCHANGED vars
  BY <1>7 DEF vars, timers
<1> QED BY <1>1, <1>2, <1>3, <1>4, <1>5, <1>6, <1>7 DEF Next

\* sw_timer.c implements one-shot timers in time that does not wrap: each
\* arming is answered at most once, never before its timeout and never more
\* than two lags of the main loop after it.
THEOREM TimersMeetDeadlines == ASSUME ArmsNoLater PROVE Spec => ImplementsDeadlines
<1>1. TimerInv /\ [Next]_vars => [Abstract!Next]_(Abstract!vars)
  BY DeadlinesStep
<1> QED BY <1>1, TimerInductive, DeadlinesInit, PTL DEF Spec, ImplementsDeadlines, Abstract!Spec
=============================================================================
