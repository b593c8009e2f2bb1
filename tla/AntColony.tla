------------------------------ MODULE AntColony -------------------------------
(***************************************************************************)
(* The travelling salesman example (agents/xjaf/aco/tsp): ants walk the    *)
(* nodes of a map, report the tour they made to the agent that keeps the   *)
(* map, walk it back and leave pheromone on its edges; then each starts an *)
(* ant in its place and stops.  Every ant has one message on its way at a  *)
(* time, to the map, from it, or to itself, and the search goes on for as  *)
(* long as these messages do.  What an ant tells the map besides is on its *)
(* way in report and update; nothing waits for it.  The levels themselves  *)
(* are left out: of the pheromone, trail keeps where the map has put some. *)
(***************************************************************************)
EXTENDS Naturals, SequencesExt

CONSTANTS
  Ants,           \* lines of ants: an ant and those that follow it
  Nodes,          \* the nodes of the map
  Dist,           \* the weight of each edge
  Tours,          \* bound: the orders in which ants may visit the nodes
  MaxValue,       \* Float.MAX_VALUE, the weight of no tour
  MaxStationary,  \* MAX_STATIONARY_ITERATIONS
  MaxLost,        \* bound: messages that are lost
  StopWhenDone    \* bound: the map may also be stopped when the search is done

ASSUME NodesFinite == IsFiniteSet(Nodes) /\ Cardinality(Nodes) > 1
ASSUME DistSymmetric ==
  /\ Dist \in [Nodes \X Nodes -> Nat]
  /\ \A i, j \in Nodes : Dist[<<i, j>>] = Dist[<<j, i>>]
ASSUME ToursVisitAll ==
  \A order \in Tours : order \in [1..Cardinality(Nodes) -> Nodes] /\ ToSet(order) = Nodes
ASSUME BoundsNat == {MaxValue, MaxStationary, MaxLost} \subseteq Nat
ASSUME StopBoolean == StopWhenDone \in BOOLEAN

VARIABLES
  running,         \* the map's agent is registered
  bestTour,        \* the best tour it knows
  bestTourWeight,
  stationary,      \* reports since then (nIterationsBestTourNotUpdated)
  done,            \* the map turns ants away
  started,         \* lines whose first ant was started
  phase,           \* of the ant of each line
  tour,            \* tourSoFar
  weight,          \* totalWeightSoFar
  at,              \* currentMapPosIndex
  mail,            \* the message that keeps the ant going
  report,          \* the line's UpdateBestTour on the way to the map, or None
  update,          \* the line's UpdatePheromone on the way to the map, or None
  path,            \* history: the tour the ant is walking back
  trail,           \* history: the edges of it on which the map has put pheromone
  shortest,        \* history: the least weight reported so far
  lost             \* history: messages lost, by line and kind (an update only
                   \* until the next ant of the line is started)

mapVars == <<running, bestTour, bestTourWeight, stationary, done>>
antVars == <<phase, tour, weight, at>>
walk == <<update, path, trail>>
vars == <<mapVars, started, antVars, mail, report, walk, shortest, lost>>

None == <<>>
Questions == {"MapSize?", "PheromoneLevels?", "EdgeWeight?"}
Answers == {"MapSize", "DONE", "PheromoneLevels", "EdgeWeight"}
Size == Cardinality(Nodes)

\* Where an ant is before it has begun.
Anywhere == CHOOSE n \in Nodes : TRUE

\* The sum of the weights of the edges that a tour takes.
WeightOf(nodes) ==
  FoldFunction(+, 0, [i \in 1..Len(nodes) - 1 |-> Dist[<<nodes[i], nodes[i + 1]>>]])

Init ==
  /\ running = TRUE
  /\ bestTour = <<>>
  /\ bestTourWeight = MaxValue
  /\ stationary = 0
  /\ done = FALSE
  /\ started = {}
  /\ phase = [a \in Ants |-> 0]
  /\ tour = [a \in Ants |-> <<>>]
  /\ weight = [a \in Ants |-> 0]
  /\ at = [a \in Ants |-> Anywhere]
  /\ mail = [a \in Ants |-> "none"]
  /\ report = [a \in Ants |-> None]
  /\ update = [a \in Ants |-> None]
  /\ path = [a \in Ants |-> <<>>]
  /\ trail = [a \in Ants |-> <<>>]
  /\ shortest = MaxValue
  /\ lost = {}

Send(a, message) == mail' = [mail EXCEPT ![a] = message]

-----------------------------------------------------------------------------
(* The map *)

\* Requests.  As the levels are left out, an ant may choose any node.
ReplyTo(question) ==
  CASE question = "MapSize?" -> IF done THEN "DONE" ELSE "MapSize"
    [] question = "PheromoneLevels?" -> "PheromoneLevels"
    [] question = "EdgeWeight?" -> "EdgeWeight"

Reply(a) ==
  /\ mail[a] \in Questions
  /\ Send(a, IF running THEN ReplyTo(mail[a]) ELSE "none")
  /\ UNCHANGED <<mapVars, started, antVars, report, walk, shortest, lost>>

TakeTour(r) ==
  /\ bestTour' = r.tour
  /\ bestTourWeight' = r.weight
KeepTour == UNCHANGED <<bestTour, bestTourWeight>>

\* Mutant: one more report is counted than there may be.
MutCountsOneMore(r) ==
  IF stationary > MaxStationary
  THEN done' = TRUE /\ KeepTour /\ UNCHANGED stationary
  ELSE /\ UNCHANGED done
       /\ IF bestTourWeight > r.weight
          THEN TakeTour(r) /\ stationary' = 0
          ELSE KeepTour /\ stationary' = stationary + 1

\* Mutant: the last report is taken for the best one.
MutTakesLast(r) ==
  IF stationary >= MaxStationary
  THEN done' = TRUE /\ KeepTour /\ UNCHANGED stationary
  ELSE /\ UNCHANGED done
       /\ TakeTour(r)
       /\ stationary' = IF bestTourWeight > r.weight THEN 0 ELSE stationary + 1

\* Mutant: the reports are not counted.
MutDoesNotCount(r) ==
  /\ UNCHANGED <<done, stationary>>
  /\ IF bestTourWeight > r.weight THEN TakeTour(r) ELSE KeepTour

\* Once the best tour was left alone often enough the search is done, and
\* this report is not looked at any more.
HandleReport(r) ==
  IF stationary >= MaxStationary
  THEN done' = TRUE /\ KeepTour /\ UNCHANGED stationary
  ELSE /\ UNCHANGED done
       /\ IF bestTourWeight > r.weight
          THEN TakeTour(r) /\ stationary' = 0
          ELSE KeepTour /\ stationary' = stationary + 1

UpdateBestTour(a) ==
  /\ report[a] # None
  /\ IF running THEN HandleReport(report[a])
     ELSE UNCHANGED <<bestTour, bestTourWeight, stationary, done>>
  /\ report' = [report EXCEPT ![a] = None]
  /\ UNCHANGED <<running, started, antVars, mail, walk, shortest, lost>>

\* The level of one edge is raised.  A map that is gone hears nothing.
UpdatePheromone(a) ==
  /\ update[a] # None
  /\ trail' = IF running THEN [trail EXCEPT ![a] = Append(@, update[a])] ELSE trail
  /\ update' = [update EXCEPT ![a] = None]
  /\ UNCHANGED <<mapVars, started, antVars, mail, report, path, shortest, lost>>

\* The CANCEL of the examples page.
Cancel ==
  /\ running
  /\ done' = TRUE
  /\ UNCHANGED <<running, bestTour, bestTourWeight, stationary, started, antVars, mail, report,
                 walk, shortest, lost>>

\* The map's agent is stopped: MDBConsumer drops what is sent to it.
StopMap ==
  /\ running
  /\ done => StopWhenDone
  /\ running' = FALSE
  /\ UNCHANGED <<bestTour, bestTourWeight, stationary, done, started, antVars, mail, report,
                 walk, shortest, lost>>

-----------------------------------------------------------------------------
(* The ants *)

\* onInit asks for the size of the map, or fails because there is none.
StartAnt(a) ==
  /\ a \notin started
  /\ started' = started \union {a}
  /\ Send(a, IF running THEN "MapSize?" ELSE "none")
  /\ UNCHANGED <<mapVars, antVars, report, walk, shortest, lost>>

\* The ant is turned away: it stays registered and does nothing more.
TurnAway(a) ==
  /\ mail[a] = "DONE"
  /\ Send(a, "none")
  /\ UNCHANGED <<mapVars, started, antVars, report, walk, shortest, lost>>

Begin(a) ==
  /\ mail[a] = "MapSize"
  /\ \E n \in {order[1] : order \in Tours} :
       /\ tour' = [tour EXCEPT ![a] = <<n>>]
       /\ at' = [at EXCEPT ![a] = n]
  /\ phase' = [phase EXCEPT ![a] = 1]
  /\ Send(a, "self")
  /\ UNCHANGED <<mapVars, started, weight, report, walk, shortest, lost>>

\* A message that is neither a question nor an answer about the map's size
\* makes the ant do what its phase says.
Handles(a, p) ==
  /\ mail[a] \in {"self", "PheromoneLevels", "EdgeWeight"}
  /\ phase[a] = p

AskLevels(a) ==
  /\ Handles(a, 1)
  /\ phase' = [phase EXCEPT ![a] = 2]
  /\ Send(a, "PheromoneLevels?")
  /\ UNCHANGED <<mapVars, started, tour, weight, at, report, walk, shortest, lost>>

\* The last node of the tour is followed by the first one.
ChooseNode(a) ==
  /\ Handles(a, 2)
  /\ \E n \in Nodes \ ToSet(tour[a]) :
       LET longer == Append(tour[a], n) IN
       /\ \E order \in Tours : IsPrefix(longer, order)
       /\ weight' = [weight EXCEPT ![a] = @ + Dist[<<at[a], n>>]]
       /\ IF Len(longer) = Size
          THEN /\ tour' = [tour EXCEPT ![a] = Append(longer, longer[1])]
               /\ at' = [at EXCEPT ![a] = longer[1]]
               /\ phase' = [phase EXCEPT ![a] = 3]
               /\ Send(a, "EdgeWeight?")
          ELSE /\ tour' = [tour EXCEPT ![a] = longer]
               /\ at' = [at EXCEPT ![a] = n]
               /\ phase' = [phase EXCEPT ![a] = 1]
               /\ Send(a, "self")
  /\ UNCHANGED <<mapVars, started, report, walk, shortest, lost>>

\* Mutant: the weight of the last edge is not added.
MutOpenTour(a) ==
  /\ Handles(a, 3)
  /\ phase' = [phase EXCEPT ![a] = 4]
  /\ Send(a, "self")
  /\ UNCHANGED <<mapVars, started, tour, weight, at, report, walk, shortest, lost>>

\* The weight of the edge back to the first node arrives.
CloseTour(a) ==
  /\ Handles(a, 3)
  /\ weight' = [weight EXCEPT ![a] = @ + Dist[<<tour[a][Size], tour[a][Size + 1]>>]]
  /\ phase' = [phase EXCEPT ![a] = 4]
  /\ Send(a, "self")
  /\ UNCHANGED <<mapVars, started, tour, at, report, walk, shortest, lost>>

\* Mutant: the first node stays at the end of the tour.
MutKeepsLast(a) ==
  /\ Handles(a, 4)
  /\ report' = [report EXCEPT ![a] = [tour |-> tour[a], weight |-> weight[a]]]
  /\ phase' = [phase EXCEPT ![a] = 5]
  /\ Send(a, "self")
  /\ path' = [path EXCEPT ![a] = tour[a]]
  /\ shortest' = IF weight[a] < shortest THEN weight[a] ELSE shortest
  /\ UNCHANGED <<mapVars, started, tour, weight, at, update, trail, lost>>

\* The tour is on its way to the map while the ant begins to walk it back.
ReportTour(a) ==
  /\ Handles(a, 4)
  /\ report' = [report EXCEPT ![a] = [tour |-> tour[a], weight |-> weight[a]]]
  /\ tour' = [tour EXCEPT ![a] = Front(@)]
  /\ phase' = [phase EXCEPT ![a] = 5]
  /\ Send(a, "self")
  /\ path' = [path EXCEPT ![a] = tour[a]]
  /\ shortest' = IF weight[a] < shortest THEN weight[a] ELSE shortest
  /\ UNCHANGED <<mapVars, started, weight, at, update, trail, lost>>

\* One edge back, with an UpdatePheromone for it.  Bound: a line has one of
\* these on the way at a time.
Backtrack(a) ==
  /\ Handles(a, 5)
  /\ tour[a] # <<>>
  /\ update[a] = None
  /\ tour' = [tour EXCEPT ![a] = Front(@)]
  /\ at' = [at EXCEPT ![a] = Last(tour[a])]
  /\ update' = [update EXCEPT ![a] = <<at[a], Last(tour[a])>>]
  /\ Send(a, "self")
  /\ UNCHANGED <<mapVars, started, phase, weight, report, path, trail, shortest, lost>>

\* Mutant: the ant is stopped and starts no other one.
MutStops(a) ==
  /\ Handles(a, 5)
  /\ tour[a] = <<>>
  /\ update[a] = None /\ report[a] = None
  /\ phase' = [phase EXCEPT ![a] = 0]
  /\ weight' = [weight EXCEPT ![a] = 0]
  /\ Send(a, "none")
  /\ path' = [path EXCEPT ![a] = <<>>]
  /\ trail' = [trail EXCEPT ![a] = <<>>]
  /\ lost' = lost \ {<<a, "update">>}
  /\ UNCHANGED <<mapVars, started, tour, at, report, update, shortest>>

\* The ant is back: it starts another one, whose init asks the map, and is
\* stopped.  Without a map that init fails, and the ant is not stopped.
\* Bound: what the ant has told the map of its tour is no longer on the way.
Replace(a) ==
  /\ Handles(a, 5)
  /\ tour[a] = <<>>
  /\ update[a] = None /\ report[a] = None
  /\ phase' = [phase EXCEPT ![a] = IF running THEN 0 ELSE 6]
  /\ weight' = [weight EXCEPT ![a] = IF running THEN 0 ELSE @]
  /\ at' = [at EXCEPT ![a] = IF running THEN Anywhere ELSE @]
  /\ Send(a, IF running THEN "MapSize?" ELSE "none")
  /\ path' = [path EXCEPT ![a] = <<>>]
  /\ trail' = [trail EXCEPT ![a] = <<>>]
  /\ lost' = lost \ {<<a, "update">>}
  /\ UNCHANGED <<mapVars, started, tour, report, update, shortest>>

-----------------------------------------------------------------------------
(* Faults *)

\* A send that fails is logged (MessageManagerBean), and so is a delivery
\* that finds the agent busy for too long.
LoseMail(a) ==
  /\ mail[a] # "none"
  /\ Cardinality(lost) < MaxLost
  /\ Send(a, "none")
  /\ lost' = lost \union {<<a, "mail">>}
  /\ UNCHANGED <<mapVars, started, antVars, report, walk, shortest>>

LoseReport(a) ==
  /\ report[a] # None
  /\ Cardinality(lost) < MaxLost
  /\ report' = [report EXCEPT ![a] = None]
  /\ lost' = lost \union {<<a, "report">>}
  /\ UNCHANGED <<mapVars, started, antVars, mail, walk, shortest>>

LoseUpdate(a) ==
  /\ update[a] # None
  /\ Cardinality(lost) < MaxLost
  /\ update' = [update EXCEPT ![a] = None]
  /\ lost' = lost \union {<<a, "update">>}
  /\ UNCHANGED <<mapVars, started, antVars, mail, report, path, trail, shortest>>

-----------------------------------------------------------------------------
MapStep(a) == Reply(a) \/ UpdateBestTour(a) \/ UpdatePheromone(a)
AntStep(a) ==
  \/ TurnAway(a) \/ Begin(a) \/ AskLevels(a) \/ ChooseNode(a) \/ CloseTour(a)
  \/ ReportTour(a) \/ Backtrack(a) \/ Replace(a)

Next ==
  \/ \E a \in Ants : MapStep(a) \/ AntStep(a) \/ StartAnt(a) \/ LoseMail(a) \/ LoseReport(a)
       \/ LoseUpdate(a)
  \/ Cancel
  \/ StopMap

Spec == Init /\ [][Next]_vars

\* The queue goes on delivering the messages of each line, to the map or to
\* the ant; which of them comes first is left open.
Fairness == \A a \in Ants : WF_vars(MapStep(a) \/ AntStep(a))
FairSpec == Spec /\ Fairness

-----------------------------------------------------------------------------
(* Properties *)

\* The fields of the map and of the ants keep their types; the counter of
\* reports stays within its limit.
TypeOK ==
  /\ {running, done} \subseteq BOOLEAN
  /\ bestTour \in Seq(Nodes)
  /\ {bestTourWeight, shortest} \subseteq Nat
  /\ stationary \in 0..MaxStationary
  /\ started \subseteq Ants
  /\ phase \in [Ants -> 0..6]
  /\ tour \in [Ants -> Seq(Nodes)]
  /\ weight \in [Ants -> Nat]
  /\ at \in [Ants -> Nodes]
  /\ mail \in [Ants -> Questions \union Answers \union {"self", "none"}]
  /\ report \in [Ants -> {None} \union [tour : Seq(Nodes), weight : Nat]]
  /\ update \in [Ants -> {None} \union (Nodes \X Nodes)]
  /\ path \in [Ants -> Seq(Nodes)]
  /\ trail \in [Ants -> Seq(Nodes \X Nodes)]
  /\ lost \subseteq Ants \X {"mail", "report", "update"}

IsTour(nodes) ==
  /\ Len(nodes) = Size + 1
  /\ nodes[1] = nodes[Size + 1]
  /\ ToSet(nodes) = Nodes

\* The best tour visits every node once and returns to its first one, and its
\* weight is the sum of its edges (Map.bestTour, bestTourWeight).
BestIsTour ==
  bestTour # <<>> => IsTour(bestTour) /\ bestTourWeight = WeightOf(bestTour)

\* While the search is on, the best tour is the shortest one of those reported
\* by any ant, as soon as all reports have arrived.
BestOfReported ==
  /\ running /\ ~done
  /\ \A a \in Ants : report[a] = None /\ <<a, "report">> \notin lost
  => bestTourWeight = shortest

\* When an ant has walked its tour back and its updates have arrived, the map
\* has put pheromone exactly once on each edge of it, the one that closes it
\* included, from its end to its begin, unless an update was lost.
EveryEdgeOnce ==
  \A a \in Ants :
    /\ phase[a] = 5 /\ tour[a] = <<>> /\ update[a] = None
    /\ running /\ <<a, "update">> \notin lost
    => /\ Len(trail[a]) = Size
       /\ ToSet(trail[a]) = {<<path[a][i + 1], path[a][i]>> : i \in 1..Size}

\* A line of ants goes on for as long as the search does: it comes to a halt
\* only when the map is done or gone, or when its message was lost.
LinesGoOn ==
  \A a \in started : mail[a] = "none" =>
    done \/ ~running \/ <<a, "mail">> \in lost

\* The search ends, whatever tours the ants make: the best tour can only get
\* better so often, and then no ant begins another tour.
SearchEnds == <>[](\A a \in Ants : mail[a] = "none")
=============================================================================
