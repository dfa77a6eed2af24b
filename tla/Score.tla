------------------------------- MODULE Score -------------------------------
(***************************************************************************)
(* The score and the bus it comes over (App/score, the bus of App/game),   *)
(* in several games at once: the one being played and the copies that the  *)
(* look-ahead simulates.  A game_t holds pointers into itself (its broker  *)
(* the address of its subscriber, its queues that of their storage), which *)
(* is what makes copying one delicate: here an address is the name of the  *)
(* game it points into.                                                    *)
(***************************************************************************)
EXTENDS Integers, Sequences, FiniteSets

CONSTANTS
  Games,
  PelletPoints, PowerPelletPoints, FirstGhostPoints,
  ChainLength,     \* SCORE_GHOST_CHAIN_LENGTH
  MaxPerTick,      \* events of one tick: what Game!EventsFitOneTick allows
  InboxCapacity,   \* SCORE_INBOX_CAPACITY
  MaxPublished     \* bound: events of one run

Events == {"PELLET", "POWER", "FRIGHTENED", "GHOST"}

ASSUME ScoreAssumption ==
  /\ PelletPoints \in Nat /\ PowerPelletPoints \in Nat /\ FirstGhostPoints \in Nat
  /\ ChainLength \in Nat \ {0} /\ MaxPublished \in Nat
  /\ MaxPerTick \in Nat \ {0} /\ InboxCapacity \in Nat /\ MaxPerTick <= InboxCapacity

VARIABLES
  subscribed,  \* subscribed[g]: the games whose Score the broker of g delivers
               \* to, in subscription order
  queue,       \* queue[g]: published on the broker of g, not yet delivered
  inbox,       \* inbox[g]: delivered to the Score of g, not yet handled
  total, chain,
  delivering,  \* the game whose broker is in msg_broker_process_all, if any
  handling,    \* the game whose Score is in score_process, if any
  published,   \* history: everything published in the run g is in
  worth        \* history: worth[g][n] is what the first n of these are worth

busVars == <<subscribed, queue, inbox>>
loops == <<delivering, handling>>
totals == <<total, chain>>
history == <<published, worth>>
vars == <<busVars, loops, totals, history>>

-----------------------------------------------------------------------------
\* The program is in neither of the two loops.
Away == delivering = {} /\ handling = {}

\* prv_get_ghost_points, for a ghost with k eaten before it in the window.
GhostPoints(k) ==
  FirstGhostPoints * 2 ^ (IF k < ChainLength THEN k ELSE ChainLength - 1)

\* prv_handle_msg on one event, with s the total and the chain.
Handle(s, e) ==
  CASE e = "PELLET"     -> [s EXCEPT !.total = @ + PelletPoints]
    [] e = "POWER"      -> [s EXCEPT !.total = @ + PowerPelletPoints]
    [] e = "GHOST"      -> [total |-> s.total + GhostPoints(s.chain),
                            chain |-> s.chain + (IF s.chain < ChainLength THEN 1 ELSE 0)]
    [] e = "FRIGHTENED" -> [s EXCEPT !.chain = 0]

Init ==
  /\ subscribed = [g \in Games |-> <<g>>]
  /\ queue = [g \in Games |-> <<>>] /\ inbox = [g \in Games |-> <<>>]
  /\ total = [g \in Games |-> 0] /\ chain = [g \in Games |-> 0]
  /\ delivering = {} /\ handling = {}
  /\ published = [g \in Games |-> <<>>]
  /\ worth = [g \in Games |-> [n \in {0} |-> 0]]

\* prv_init_bus: the broker forgets its subscribers and its queue, Score its
\* inbox, and then Score subscribes.
InitBus(g) ==
  /\ subscribed' = [subscribed EXCEPT ![g] = <<g>>]
  /\ queue' = [queue EXCEPT ![g] = <<>>]
  /\ inbox' = [inbox EXCEPT ![g] = <<>>]

\* prv_begin_run
StartRun(g) ==
  /\ Away
  /\ InitBus(g)
  /\ total' = [total EXCEPT ![g] = 0] /\ chain' = [chain EXCEPT ![g] = 0]
  /\ published' = [published EXCEPT ![g] = <<>>]
  /\ worth' = [worth EXCEPT ![g] = [n \in {0} |-> 0]]
  /\ UNCHANGED loops

-----------------------------------------------------------------------------
\* What an event of a run is worth (score.h, 10.6), said without counters: a
\* ghost by how many were eaten since the last power pellet that frightened.
EatenBefore(run, i) ==
  Cardinality({j \in 1 .. i - 1 : /\ run[j] = "GHOST"
                                  /\ \A k \in j .. i - 1 : run[k] # "FRIGHTENED"})
WorthOf(run, i) ==
  CASE run[i] = "PELLET"     -> PelletPoints
    [] run[i] = "POWER"      -> PowerPelletPoints
    [] run[i] = "FRIGHTENED" -> 0
    [] run[i] = "GHOST"      -> GhostPoints(EatenBefore(run, i))

\* The worth of every beginning of a run, from those of all but its last event.
Summed(worths, run) ==
  [n \in 0 .. Len(run) |->
    IF n < Len(run) THEN worths[n] ELSE worths[n - 1] + WorthOf(run, n)]

\* prv_publish, in the middle of a tick of g.
Publish(g, e) ==
  /\ Away
  /\ Len(queue[g]) < MaxPerTick /\ Len(published[g]) < MaxPublished
  /\ queue' = [queue EXCEPT ![g] = Append(@, e)]
  /\ published' = [published EXCEPT ![g] = Append(@, e)]
  /\ worth' = [worth EXCEPT ![g] = Summed(@, published'[g])]
  /\ UNCHANGED <<subscribed, inbox, totals, loops>>

\* prv_deliver_events at the end of a tick: first the broker of g delivers, and
\* then the Score of g handles what it holds, each to the last.
DeliverEvents(g) ==
  /\ Away /\ queue[g] # <<>>
  /\ delivering' = {g}
  /\ UNCHANGED <<handling, busVars, totals, history>>

\* msg_broker_process: the first event into the inbox of every subscriber, a
\* copy for each of its subscriptions, as long as it has room.
Copies(g, s) ==
  LET due  == Cardinality({i \in DOMAIN subscribed[g] : subscribed[g][i] = s})
      room == InboxCapacity - Len(inbox[s])
  IN  IF due < room THEN due ELSE room
CopyToSubscribers(g) ==
  /\ g \in delivering /\ queue[g] # <<>>
  /\ inbox' = [s \in Games |-> inbox[s] \o [i \in 1 .. Copies(g, s) |-> Head(queue[g])]]
  /\ queue' = [queue EXCEPT ![g] = Tail(@)]
  /\ UNCHANGED <<subscribed, loops, totals, history>>
AllDelivered(g) ==
  /\ g \in delivering /\ queue[g] = <<>>
  /\ delivering' = {} /\ handling' = {g}
  /\ UNCHANGED <<busVars, totals, history>>

\* active_object_process_one
HandleOne(g) ==
  /\ g \in handling /\ inbox[g] # <<>>
  /\ LET after == Handle([total |-> total[g], chain |-> chain[g]], Head(inbox[g]))
     IN  /\ total' = [total EXCEPT ![g] = after.total]
         /\ chain' = [chain EXCEPT ![g] = after.chain]
  /\ inbox' = [inbox EXCEPT ![g] = Tail(@)]
  /\ UNCHANGED <<subscribed, queue, loops, history>>
AllHandled(g) ==
  /\ g \in handling /\ inbox[g] = <<>>
  /\ handling' = {}
  /\ UNCHANGED <<delivering, busVars, totals, history>>

\* game_clone, between two ticks of the source: copy everything, addresses
\* included, then give the copy a bus of its own, which zeroes the score, and
\* put that back.  The mutant stops after the copy.
CopyGame(c, g) ==
  /\ Away /\ c # g /\ queue[g] = <<>>
  /\ total' = [total EXCEPT ![c] = total[g]] /\ chain' = [chain EXCEPT ![c] = chain[g]]
  /\ published' = [published EXCEPT ![c] = published[g]]
  /\ worth' = [worth EXCEPT ![c] = worth[g]]
  /\ UNCHANGED loops
CloneBytes(c, g) ==
  /\ CopyGame(c, g)
  /\ subscribed' = [subscribed EXCEPT ![c] = subscribed[g]]
  /\ queue' = [queue EXCEPT ![c] = queue[g]]
  /\ inbox' = [inbox EXCEPT ![c] = inbox[g]]
Clone(c, g) == CopyGame(c, g) /\ InitBus(c)

Next ==
  \E g \in Games :
    \/ StartRun(g)
    \/ \E e \in Events : Publish(g, e)
    \/ DeliverEvents(g)
    \/ CopyToSubscribers(g) \/ AllDelivered(g)
    \/ HandleOne(g) \/ AllHandled(g)
    \/ \E c \in Games : Clone(c, g)

Spec == Init /\ [][Next]_vars

-----------------------------------------------------------------------------
\* Between two deliveries the total of every game is what its own events are
\* worth, whichever games ran, were copied or simulated in between: no event is
\* scored twice, lost, taken out of its order or scored in the game it was
\* copied from.
TotalIsWorth ==
  Away => \A g \in Games :
    /\ total[g] = worth[g][Len(published[g]) - Len(queue[g])]
    /\ inbox[g] = <<>>
=============================================================================
