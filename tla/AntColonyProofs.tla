--------------------------- MODULE AntColonyProofs ----------------------------
(***************************************************************************)
(* Proofs about AntColony, for any number of lines, any map and any        *)
(* bounds.  Typed adds to the types that a tour is closed when its last    *)
(* weight is asked for.  The other four invariants build on it: Onwards    *)
(* for the lines of ants, Kept for the best tour, Walked for the way back  *)
(* and Measured for what a tour weighs.  The weight is a fold over a set   *)
(* in an order the definition leaves open: that the sum exists, is unique  *)
(* and grows by the last edge is proved from the least number of a set.    *)
(***************************************************************************)
EXTENDS AntColony, FiniteSetTheorems, WellFoundedInduction, TLAPS

USE DEF None

-----------------------------------------------------------------------------
(* Types *)

Mails == Questions \union Answers \union {"self", "none"}
Losses == {"mail", "report", "update"}
Reports == [tour : Seq(Nodes), weight : Nat]

MapTypes ==
  /\ running \in BOOLEAN /\ done \in BOOLEAN
  /\ bestTour \in Seq(Nodes)
  /\ bestTourWeight \in Nat
  /\ stationary \in 0..MaxStationary

AntTypes ==
  /\ phase \in [Ants -> 0..6]
  /\ tour \in [Ants -> Seq(Nodes)]
  /\ weight \in [Ants -> Nat]
  /\ at \in [Ants -> Nodes]

OtherTypes ==
  /\ started \subseteq Ants
  /\ mail \in [Ants -> Mails]
  /\ report \in [Ants -> {None} \union Reports]
  /\ update \in [Ants -> {None} \union (Nodes \X Nodes)]
  /\ path \in [Ants -> Seq(Nodes)]
  /\ trail \in [Ants -> Seq(Nodes \X Nodes)]
  /\ shortest \in Nat
  /\ lost \subseteq Ants \X Losses

Closed == \A a \in Ants : phase[a] \in {3, 4} => Len(tour[a]) = Size + 1

Typed == MapTypes /\ AntTypes /\ OtherTypes /\ Closed

LEMMA SizeNat == Size \in Nat /\ Size > 1
  BY NodesFinite, FS_CardinalityType DEF Size

LEMMA AnywhereType == Anywhere \in Nodes
<1>1. Nodes # {}
  BY NodesFinite, FS_EmptySet
<1> QED
  BY <1>1 DEF Anywhere

LEMMA DistNat == \A i, j \in Nodes : Dist[<<i, j>>] \in Nat
  BY DistSymmetric

LEMMA MailsKnown == {"self", "none"} \union Questions \union Answers = Mails
  BY DEF Mails

LEMMA TypedInit == Init => Typed
<1> SUFFICES ASSUME Init
             PROVE  Typed
  OBVIOUS
<1>1. MapTypes
  <2>1. MaxValue \in Nat /\ 0 \in 0..MaxStationary
    BY BoundsNat
  <2>2. running \in BOOLEAN /\ done \in BOOLEAN
    BY Zenon DEF Init
  <2>3. <<>> \in Seq(Nodes)
    OBVIOUS
  <2> QED
    BY <2>1, <2>2, <2>3, Zenon DEF Init, MapTypes
<1>2. AntTypes /\ Closed
  BY AnywhereType DEF Init, AntTypes, Closed
<1>3. OtherTypes
  BY BoundsNat, MailsKnown DEF Init, OtherTypes
<1> QED
  BY <1>1, <1>2, <1>3 DEF Typed

\* What an ant does to its own fields.
LEMMA AntTypesStep ==
  ASSUME Typed, NEW a \in Ants, AntStep(a)
  PROVE  AntTypes' /\ Closed'
<1> USE DEF Typed, AntTypes, Closed
<1>1. CASE TurnAway(a)
  BY <1>1 DEF TurnAway, antVars
<1>2. CASE Begin(a)
  <2>1. PICK n \in {order[1] : order \in Tours} :
          tour' = [tour EXCEPT ![a] = <<n>>] /\ at' = [at EXCEPT ![a] = n]
    BY <1>2 DEF Begin
  <2>2. n \in Nodes
    <3>1. PICK order \in Tours : n = order[1]
      BY <2>1
    <3>2. order \in [1..Size -> Nodes]
      BY ToursVisitAll DEF Size
    <3> QED
      BY <3>1, <3>2, SizeNat
  <2>3. <<n>> \in Seq(Nodes)
    BY <2>2
  <2>4. UNCHANGED weight /\ phase' = [phase EXCEPT ![a] = 1]
    BY <1>2 DEF Begin
  <2> QED
    BY <2>1, <2>2, <2>3, <2>4
<1>3. CASE AskLevels(a)
  BY <1>3 DEF AskLevels
<1>4. CASE ChooseNode(a)
  <2>1. PICK n \in Nodes :
          LET longer == Append(tour[a], n) IN
          /\ weight' = [weight EXCEPT ![a] = @ + Dist[<<at[a], n>>]]
          /\ IF Len(longer) = Size
             THEN /\ tour' = [tour EXCEPT ![a] = Append(longer, longer[1])]
                  /\ at' = [at EXCEPT ![a] = longer[1]]
                  /\ phase' = [phase EXCEPT ![a] = 3]
             ELSE /\ tour' = [tour EXCEPT ![a] = longer]
                  /\ at' = [at EXCEPT ![a] = n]
                  /\ phase' = [phase EXCEPT ![a] = 1]
    BY <1>4 DEF ChooseNode
  <2> DEFINE longer == Append(tour[a], n)
  <2>2. longer \in Seq(Nodes) /\ Len(longer) > 0
    OBVIOUS
  <2>3. longer[1] \in Nodes
    BY <2>2
  <2>4. Append(longer, longer[1]) \in Seq(Nodes) /\ Len(Append(longer, longer[1])) = Len(longer) + 1
    BY <2>2, <2>3
  <2>5. weight' \in [Ants -> Nat]
    BY <2>1, DistNat
  <2> HIDE DEF longer
  <2>6. CASE Len(longer) = Size
    <3>1. /\ tour' = [tour EXCEPT ![a] = Append(longer, longer[1])]
          /\ at' = [at EXCEPT ![a] = longer[1]]
          /\ phase' = [phase EXCEPT ![a] = 3]
      BY <2>1, <2>6 DEF longer
    <3> QED
      BY <2>3, <2>4, <2>5, <2>6, <3>1
  <2>7. CASE Len(longer) # Size
    <3>1. /\ tour' = [tour EXCEPT ![a] = longer]
          /\ at' = [at EXCEPT ![a] = n]
          /\ phase' = [phase EXCEPT ![a] = 1]
      BY <2>1, <2>7 DEF longer
    <3> QED
      BY <2>2, <2>5, <3>1
  <2> QED
    BY <2>6, <2>7
<1>5. CASE CloseTour(a)
  <2>1. tour[a] \in Seq(Nodes) /\ Len(tour[a]) = Size + 1
    BY <1>5 DEF CloseTour, Handles
  <2>2. tour[a][Size] \in Nodes /\ tour[a][Size + 1] \in Nodes
    BY <2>1, SizeNat
  <2>3. Dist[<<tour[a][Size], tour[a][Size + 1]>>] \in Nat
    BY <2>2, DistNat
  <2> QED
    BY <1>5, <2>1, <2>3 DEF CloseTour
<1>6. CASE ReportTour(a)
  <2>1. Front(tour[a]) \in Seq(Nodes)
    BY DEF Front
  <2> QED
    BY <1>6, <2>1 DEF ReportTour
<1>7. CASE Backtrack(a)
  <2>1. Front(tour[a]) \in Seq(Nodes) /\ Last(tour[a]) \in Nodes
    BY <1>7 DEF Backtrack, Front, Last
  <2> QED
    BY <1>7, <2>1 DEF Backtrack, Handles
<1>8. CASE Replace(a)
  BY <1>8, AnywhereType DEF Replace
<1> QED
  BY <1>1, <1>2, <1>3, <1>4, <1>5, <1>6, <1>7, <1>8 DEF AntStep

\* The rest of a line: its messages and its histories.
LEMMA OtherTypesStep ==
  ASSUME Typed, NEW a \in Ants, AntStep(a)
  PROVE  OtherTypes'
<1> USE DEF Typed, OtherTypes
<1>1. {"self", "none", "MapSize?", "EdgeWeight?", "PheromoneLevels?"} \subseteq Mails
  BY DEF Mails, Questions
<1>2. PICK m \in Mails : mail' = [mail EXCEPT ![a] = m]
  BY <1>1 DEF AntStep, TurnAway, Begin, AskLevels, ChooseNode, CloseTour, ReportTour, Backtrack,
              Replace, Send
<1>3. mail' \in [Ants -> Mails]
  BY <1>2
<1>4. CASE ReportTour(a)
  <2>1. [tour |-> tour[a], weight |-> weight[a]] \in Reports
    BY DEF AntTypes, Reports
  <2> QED
    BY <1>3, <1>4, <2>1 DEF ReportTour, AntTypes
<1>5. CASE Backtrack(a)
  <2>1. <<at[a], Last(tour[a])>> \in Nodes \X Nodes
    BY <1>5 DEF Backtrack, Last, AntTypes
  <2> QED
    BY <1>3, <1>5, <2>1 DEF Backtrack
<1>6. CASE Replace(a)
  BY <1>3, <1>6 DEF Replace
<1>7. CASE TurnAway(a) \/ Begin(a) \/ AskLevels(a) \/ ChooseNode(a) \/ CloseTour(a)
  <2>1. UNCHANGED <<started, report, update, path, trail, shortest, lost>>
    BY <1>7 DEF TurnAway, Begin, AskLevels, ChooseNode, CloseTour, walk
  <2> QED
    BY <1>3, <2>1
<1> QED
  BY <1>4, <1>5, <1>6, <1>7 DEF AntStep

LEMMA TypedStep == Typed /\ [Next]_vars => Typed'
<1> SUFFICES ASSUME Typed, [Next]_vars
             PROVE  Typed'
  OBVIOUS
<1> USE DEF Typed
<1>1. ASSUME NEW a \in Ants, AntStep(a)
      PROVE  Typed'
  <2>1. UNCHANGED mapVars
    BY <1>1 DEF AntStep, TurnAway, Begin, AskLevels, ChooseNode, CloseTour, ReportTour, Backtrack,
                Replace
  <2>2. MapTypes'
    BY <2>1 DEF mapVars, MapTypes
  <2> QED
    BY <1>1, <2>2, AntTypesStep, OtherTypesStep
<1>2. ASSUME NEW a \in Ants, UpdateBestTour(a)
      PROVE  Typed'
  <2>1. report[a] \in Reports
    BY <1>2 DEF UpdateBestTour, OtherTypes
  <2>2. report[a].tour \in Seq(Nodes) /\ report[a].weight \in Nat
    BY <2>1 DEF Reports
  <2>3. MapTypes'
    <3>1. running' \in BOOLEAN /\ done' \in BOOLEAN
      BY <1>2, Zenon DEF UpdateBestTour, HandleReport, MapTypes
    <3>2. bestTour' \in Seq(Nodes) /\ bestTourWeight' \in Nat
      BY <1>2, <2>2 DEF UpdateBestTour, HandleReport, TakeTour, KeepTour, MapTypes
    <3>3. stationary' \in 0..MaxStationary
      BY <1>2, BoundsNat DEF UpdateBestTour, HandleReport, MapTypes
    <3> QED
      BY <3>1, <3>2, <3>3 DEF MapTypes
  <2>4. OtherTypes'
    BY <1>2 DEF UpdateBestTour, OtherTypes, walk
  <2> QED
    BY <1>2, <2>3, <2>4 DEF UpdateBestTour, antVars, AntTypes, Closed
<1>3. ASSUME NEW a \in Ants, Reply(a) \/ StartAnt(a) \/ LoseMail(a)
      PROVE  Typed'
  <2>1. PICK m \in Mails : mail' = [mail EXCEPT ![a] = m]
    BY <1>3 DEF Reply, ReplyTo, StartAnt, LoseMail, Send, Mails, Questions, Answers
  <2>2. mail' \in [Ants -> Mails]
    BY <2>1 DEF OtherTypes
  <2>3. UNCHANGED <<mapVars, antVars, report, update, path, trail, shortest>>
        /\ started' \subseteq Ants /\ lost' \subseteq Ants \X Losses
    BY <1>3 DEF Reply, StartAnt, LoseMail, walk, OtherTypes, Losses
  <2> QED
    BY <2>2, <2>3 DEF mapVars, antVars, MapTypes, AntTypes, OtherTypes, Closed
<1>4. ASSUME NEW a \in Ants, LoseReport(a)
      PROVE  Typed'
  <2>1. OtherTypes'
    BY <1>4 DEF LoseReport, walk, OtherTypes, Losses
  <2> QED
    BY <1>4, <2>1 DEF LoseReport, mapVars, antVars, MapTypes, AntTypes, Closed
<1>6. ASSUME NEW a \in Ants, UpdatePheromone(a) \/ LoseUpdate(a)
      PROVE  Typed'
  <2>1. update[a] \in Nodes \X Nodes
    BY <1>6 DEF UpdatePheromone, LoseUpdate, OtherTypes
  <2>2. trail' \in [Ants -> Seq(Nodes \X Nodes)]
    <3>1. trail' = trail \/ trail' = [trail EXCEPT ![a] = Append(trail[a], update[a])]
      BY <1>6 DEF UpdatePheromone, LoseUpdate
    <3>2. trail \in [Ants -> Seq(Nodes \X Nodes)]
      BY DEF OtherTypes
    <3>3. Append(trail[a], update[a]) \in Seq(Nodes \X Nodes)
      BY <2>1, <3>2
    <3> QED
      BY <3>1, <3>2, <3>3
  <2>3. update' = [update EXCEPT ![a] = None] /\ lost' \subseteq Ants \X Losses
        /\ UNCHANGED <<mapVars, started, antVars, mail, report, path, shortest>>
    BY <1>6 DEF UpdatePheromone, LoseUpdate, OtherTypes, Losses
  <2>4. OtherTypes'
    BY <2>2, <2>3 DEF OtherTypes
  <2> QED
    BY <2>3, <2>4 DEF mapVars, antVars, MapTypes, AntTypes, Closed
<1>5. CASE Cancel \/ StopMap \/ UNCHANGED vars
  <2>1. UNCHANGED <<bestTour, bestTourWeight, stationary, started, antVars, mail, report,
                    walk, shortest, lost>>
        /\ running' \in BOOLEAN /\ done' \in BOOLEAN
    BY <1>5 DEF Cancel, StopMap, vars, mapVars, MapTypes
  <2> QED
    BY <2>1 DEF antVars, walk, MapTypes, AntTypes, OtherTypes, Closed
<1> QED
  BY <1>1, <1>2, <1>3, <1>4, <1>5, <1>6 DEF Next, MapStep

\* For any lines, map and bounds: the fields of the map and of the ants, the
\* messages and the histories keep their types (Map, Ant).
THEOREM TypeCorrect == Spec => []TypeOK
<1>1. Typed => TypeOK
  BY DEF Typed, MapTypes, AntTypes, OtherTypes, TypeOK, Mails, Losses, Reports
<1> QED
  BY TypedInit, TypedStep, <1>1, PTL DEF Spec

-----------------------------------------------------------------------------
(* Lines of ants *)

\* An ant is only turned away by a map that is done.
Onwards ==
  /\ LinesGoOn
  /\ \A a \in Ants : mail[a] = "DONE" => done

LEMMA OnwardsStep == Typed /\ Onwards /\ [Next]_vars => Onwards'
<1> SUFFICES ASSUME Typed, Onwards, [Next]_vars
             PROVE  Onwards'
  OBVIOUS
<1>0. mail \in [Ants -> Mails] /\ started \subseteq Ants
  BY DEF Typed, OtherTypes
<1>1. /\ done => done'
      /\ running' => running
      /\ \A b \in Ants : <<b, "mail">> \in lost => <<b, "mail">> \in lost'
  <2> DEFINE Stays == \A b \in Ants : <<b, "mail">> \in lost => <<b, "mail">> \in lost'
  <2>1. ASSUME NEW a \in Ants, AntStep(a)
        PROVE  UNCHANGED mapVars /\ Stays
    <3>1. UNCHANGED mapVars /\ lost \ {<<a, "update">>} \subseteq lost'
      BY <2>1 DEF AntStep, TurnAway, Begin, AskLevels, ChooseNode, CloseTour, ReportTour, Backtrack,
                  Replace
    <3>2. \A b \in Ants : <<b, "mail">> # <<a, "update">>
      OBVIOUS
    <3> QED
      BY <3>1, <3>2
  <2>2. ASSUME NEW a \in Ants, \/ Reply(a) \/ StartAnt(a) \/ LoseMail(a) \/ LoseReport(a)
                               \/ UpdatePheromone(a) \/ LoseUpdate(a)
        PROVE  UNCHANGED mapVars /\ Stays
    <3>1. UNCHANGED mapVars /\ lost \subseteq lost'
      BY <2>2 DEF Reply, StartAnt, LoseMail, LoseReport, UpdatePheromone, LoseUpdate
    <3> QED
      BY <3>1
  <2>3. ASSUME NEW a \in Ants, UpdateBestTour(a)
        PROVE  (done => done') /\ UNCHANGED running /\ Stays
    BY <2>3 DEF UpdateBestTour, HandleReport
  <2>4. ASSUME Cancel \/ StopMap \/ UNCHANGED vars
        PROVE  (done => done') /\ (running' => running) /\ Stays
    <3>1. (done => done') /\ (running' => running) /\ UNCHANGED lost
      BY <2>4 DEF Cancel, StopMap, vars, mapVars
    <3> QED
      BY <3>1
  <2> HIDE DEF Stays
  <2>5. (done => done') /\ (running' => running) /\ Stays
    BY <2>1, <2>2, <2>3, <2>4 DEF Next, MapStep, mapVars
  <2> QED
    BY <2>5 DEF Stays
<1>2. ASSUME NEW a \in Ants, NEW m, mail' = [mail EXCEPT ![a] = m],
             started' \subseteq started \union {a},
             m = "none" => done' \/ ~running' \/ <<a, "mail">> \in lost',
             m = "DONE" => done'
      PROVE  Onwards'
  BY <1>0, <1>1, <1>2 DEF Onwards, LinesGoOn
<1>3. ASSUME UNCHANGED <<mail, started>>
      PROVE  Onwards'
  BY <1>0, <1>1, <1>3 DEF Onwards, LinesGoOn
<1>4. ASSUME NEW a \in Ants, Reply(a)
      PROVE  Onwards'
  <2>1. PICK m : mail' = [mail EXCEPT ![a] = m] /\ m = IF running THEN ReplyTo(mail[a]) ELSE "none"
    BY <1>4 DEF Reply, Send
  <2>2. m = "none" => ~running
    BY <1>4, <2>1 DEF Reply, ReplyTo, Questions
  <2>3. m = "DONE" => done
    BY <1>4, <2>1 DEF Reply, ReplyTo, Questions
  <2>4. UNCHANGED <<running, done, started>>
    BY <1>4 DEF Reply, mapVars
  <2>5. started' \subseteq started \union {a}
    BY <2>4
  <2>6. m = "none" => done' \/ ~running' \/ <<a, "mail">> \in lost'
    BY <2>2, <2>4
  <2>7. m = "DONE" => done'
    BY <2>3, <2>4
  <2> QED
    BY <1>2, <2>1, <2>5, <2>6, <2>7, Zenon
<1>5. ASSUME NEW a \in Ants, StartAnt(a) \/ Replace(a)
      PROVE  Onwards'
  <2>1. PICK m : /\ m = IF running THEN "MapSize?" ELSE "none"
                 /\ mail' = [mail EXCEPT ![a] = m]
    BY <1>5 DEF StartAnt, Replace, Send
  <2>2. running' = running /\ started' \subseteq started \union {a}
    BY <1>5 DEF StartAnt, Replace, mapVars
  <2>3. m = "none" => done' \/ ~running' \/ <<a, "mail">> \in lost'
    BY <2>1, <2>2
  <2>4. m = "DONE" => done'
    BY <2>1
  <2> QED
    BY <1>2, <2>1, <2>2, <2>3, <2>4, Zenon
<1>6. ASSUME NEW a \in Ants, TurnAway(a)
      PROVE  Onwards'
  BY <1>1, <1>2, <1>6 DEF TurnAway, Send, Onwards
<1>7. ASSUME NEW a \in Ants, LoseMail(a)
      PROVE  Onwards'
  BY <1>2, <1>7 DEF LoseMail, Send
<1>8. ASSUME NEW a \in Ants,
             Begin(a) \/ AskLevels(a) \/ ChooseNode(a) \/ CloseTour(a) \/ ReportTour(a) \/ Backtrack(a)
      PROVE  Onwards'
  <2>1. started' = started
        /\ \E m \in {"self", "PheromoneLevels?", "EdgeWeight?"} : mail' = [mail EXCEPT ![a] = m]
    BY <1>8 DEF Begin, AskLevels, ChooseNode, CloseTour, ReportTour, Backtrack, Send
  <2> QED
    BY <1>2, <2>1
<1>9. CASE \/ \E a \in Ants : UpdateBestTour(a) \/ LoseReport(a) \/ UpdatePheromone(a) \/ LoseUpdate(a)
           \/ Cancel \/ StopMap \/ UNCHANGED vars
  BY <1>3, <1>9 DEF UpdateBestTour, LoseReport, UpdatePheromone, LoseUpdate, Cancel, StopMap, vars
<1> QED
  BY <1>4, <1>5, <1>6, <1>7, <1>8, <1>9 DEF Next, MapStep, AntStep

\* For any lines, map and bounds: a line of ants comes to a halt only when the
\* map is done or gone, or when its message was lost (Ant.onMessage).
THEOREM AntsGoOn == Spec => []LinesGoOn
<1>1. Init => Onwards
  BY DEF Init, Onwards, LinesGoOn
<1>2. Onwards => LinesGoOn
  BY DEF Onwards
<1>3. (Typed /\ Onwards) /\ [Next]_vars => (Typed /\ Onwards)'
  BY TypedStep, OnwardsStep
<1> QED
  BY TypedInit, <1>1, <1>2, <1>3, PTL DEF Spec

-----------------------------------------------------------------------------
(* The way back *)

\* The edges of its tour of which an ant has told the map, while the map hears
\* of all of them.
Posted(a) == IF update[a] = None THEN trail[a] ELSE Append(trail[a], update[a])
Heard(a) == running /\ <<a, "update">> \notin lost

\* Where an ant is, what is left of its tour and where it has been since.
WayOf(a) ==
  /\ phase[a] # 5 => trail[a] = <<>> /\ update[a] = None /\ report[a] = None
  /\ phase[a] \in {3, 4} => at[a] = tour[a][Size + 1]
  /\ phase[a] = 5 =>
       /\ Len(path[a]) = Size + 1
       /\ \A i \in 1..Len(tour[a]) : tour[a][i] = path[a][i]
       /\ at[a] = path[a][Len(tour[a]) + 1]
  /\ phase[a] = 5 /\ Heard(a) =>
       /\ Len(tour[a]) + Len(Posted(a)) = Size
       /\ \A i \in 1..Len(Posted(a)) :
            Posted(a)[i] = <<path[a][Size + 2 - i], path[a][Size + 1 - i]>>

\* An ant that waits for the size of the map has not begun.
NotBegun(a) ==
  /\ a \notin started => mail[a] = "none" /\ phase[a] = 0
  /\ mail[a] \in {"MapSize?", "MapSize"} => phase[a] = 0

Walked == \A a \in Ants : NotBegun(a) /\ WayOf(a)

\* The ant that takes a step.
LEMMA WalkerStep ==
  ASSUME Typed, NEW a \in Ants, NotBegun(a), WayOf(a), AntStep(a)
  PROVE  WayOf(a)'
<1>0. /\ phase \in [Ants -> 0..6] /\ tour \in [Ants -> Seq(Nodes)] /\ at \in [Ants -> Nodes]
      /\ path \in [Ants -> Seq(Nodes)] /\ trail \in [Ants -> Seq(Nodes \X Nodes)]
      /\ update \in [Ants -> {None} \union (Nodes \X Nodes)]
      /\ report \in [Ants -> {None} \union Reports]
      /\ phase[a] \in {3, 4} => Len(tour[a]) = Size + 1
  BY DEF Typed, AntTypes, OtherTypes, Closed
<1>1. CASE TurnAway(a)
  BY <1>1, Zenon DEF TurnAway, antVars, walk, WayOf, Posted, Heard, mapVars
<1>2. CASE Begin(a) \/ AskLevels(a)
  <2>1. phase'[a] \in {1, 2} /\ UNCHANGED <<trail, update, report>> /\ phase[a] # 5
    BY <1>0, <1>2 DEF Begin, AskLevels, Handles, walk, NotBegun
  <2>2. /\ phase'[a] # 5 /\ phase'[a] \notin {3, 4}
        /\ trail'[a] = <<>> /\ update'[a] = None /\ report'[a] = None
    BY <2>1 DEF WayOf
  <2> QED
    BY <2>2, Zenon DEF WayOf
<1>3. CASE ChooseNode(a)
  <2>1. /\ UNCHANGED <<trail, update, report>>
        /\ trail[a] = <<>> /\ update[a] = None /\ report[a] = None
    BY <1>0, <1>3 DEF ChooseNode, Handles, walk, WayOf
  <2>2. phase'[a] \in {1, 3}
    BY <1>0, <1>3 DEF ChooseNode
  <2>3. ASSUME phase'[a] = 3
        PROVE  at'[a] = tour'[a][Size + 1]
    <3>1. PICK n \in Nodes :
            LET longer == Append(tour[a], n) IN
            IF Len(longer) = Size
            THEN /\ tour' = [tour EXCEPT ![a] = Append(longer, longer[1])]
                 /\ at' = [at EXCEPT ![a] = longer[1]]
                 /\ phase' = [phase EXCEPT ![a] = 3]
            ELSE phase' = [phase EXCEPT ![a] = 1]
      BY <1>3 DEF ChooseNode
    <3> DEFINE longer == Append(tour[a], n)
    <3>2. longer \in Seq(Nodes)
      BY <1>0
    <3>3. Len(longer) = Size
      BY <1>0, <2>3, <3>1
    <3>4. /\ tour' = [tour EXCEPT ![a] = Append(longer, longer[1])]
          /\ at' = [at EXCEPT ![a] = longer[1]]
      BY <3>1, <3>3
    <3> HIDE DEF longer
    <3>5. tour'[a] = Append(longer, longer[1]) /\ at'[a] = longer[1]
      BY <1>0, <3>4
    <3> QED
      BY <3>2, <3>3, <3>5, SizeNat
  <2> QED
    BY <2>1, <2>2, <2>3 DEF WayOf
<1>4. CASE CloseTour(a)
  <2>1. /\ phase[a] = 3 /\ phase'[a] = 4
        /\ UNCHANGED <<tour, at, trail, update, report>>
    BY <1>0, <1>4 DEF CloseTour, Handles, walk
  <2> QED
    BY <2>1 DEF WayOf
<1>5. CASE ReportTour(a)
  <2>1. /\ phase[a] = 4 /\ phase'[a] = 5
        /\ tour'[a] = SubSeq(tour[a], 1, Len(tour[a]) - 1)
        /\ path'[a] = tour[a]
        /\ UNCHANGED <<at, update, trail>>
    BY <1>0, <1>5 DEF ReportTour, Handles, Front
  <2>2. tour[a] \in Seq(Nodes) /\ Len(tour[a]) = Size + 1 /\ trail[a] = <<>> /\ update[a] = None
        /\ at[a] = tour[a][Size + 1]
    BY <1>0, <2>1 DEF WayOf
  <2>3. tour'[a] \in Seq(Nodes) /\ Len(tour'[a]) = Size
        /\ \A i \in 1..Size : tour'[a][i] = tour[a][i]
    BY <2>1, <2>2, SizeNat
  <2>4. Posted(a)' = <<>> /\ Len(<<>>) = 0
    BY <2>1, <2>2 DEF Posted
  <2>5. Len(tour'[a]) + Len(Posted(a)') = Size /\ 1..Len(Posted(a)') = {}
    BY <2>3, <2>4, SizeNat
  <2>6. /\ phase'[a] = 5 /\ phase'[a] \notin {3, 4}
        /\ Len(path'[a]) = Size + 1
        /\ \A i \in 1..Len(tour'[a]) : tour'[a][i] = path'[a][i]
        /\ at'[a] = path'[a][Len(tour'[a]) + 1]
    BY <2>1, <2>2, <2>3
  <2> QED
    BY <2>5, <2>6, Zenon DEF WayOf
<1>6. CASE Backtrack(a)
  <2> DEFINE k == Len(tour[a])
             j == Len(trail[a])
  <2>1. tour[a] \in Seq(Nodes) /\ trail[a] \in Seq(Nodes \X Nodes) /\ k \in Nat /\ j \in Nat
    BY <1>0
  <2>2. /\ phase[a] = 5 /\ phase'[a] = 5 /\ tour[a] # <<>>
        /\ tour'[a] = SubSeq(tour[a], 1, k - 1)
        /\ at'[a] = tour[a][k]
        /\ update[a] = None
        /\ update'[a] = <<at[a], tour[a][k]>>
        /\ path'[a] = path[a] /\ trail'[a] = trail[a]
        /\ UNCHANGED <<running, lost>>
    BY <1>0, <1>6 DEF Backtrack, Handles, Front, Last, mapVars
  <2>3. k > 0 /\ tour[a][k] \in Nodes
    BY <2>1, <2>2
  <2>4. /\ Len(path[a]) = Size + 1
        /\ \A i \in 1..k : tour[a][i] = path[a][i]
        /\ at[a] = path[a][k + 1]
    BY <2>2 DEF WayOf
  <2>5. Len(tour'[a]) = k - 1 /\ \A i \in 1..k - 1 : tour'[a][i] = tour[a][i]
    BY <2>1, <2>2, <2>3
  <2>6. Posted(a)' = Append(trail[a], <<at[a], tour[a][k]>>)
    BY <2>2 DEF Posted
  <2>7. /\ Len(Posted(a)') = j + 1
        /\ Posted(a)'[j + 1] = <<at[a], tour[a][k]>>
        /\ \A i \in 1..j : Posted(a)'[i] = trail[a][i]
    <3>1. <<at[a], tour[a][k]>> \in Nodes \X Nodes
      BY <1>0, <2>3
    <3> QED
      BY <2>1, <2>6, <3>1
  <2>8. Posted(a) = trail[a]
    BY <2>2 DEF Posted
  <2> HIDE DEF k, j
  <2>9. at'[a] = path[a][k] /\ tour[a][k] = path[a][k]
    BY <2>1, <2>2, <2>3, <2>4
  <2>10. \A i \in 1..k - 1 : tour'[a][i] = path[a][i]
    <3> TAKE i \in 1..k - 1
    <3>1. i \in 1..k
      BY <2>1
    <3> QED
      BY <3>1, <2>4, <2>5
  <2>11. (k - 1) + 1 = k
    BY <2>1
  <2>12. /\ phase'[a] = 5 /\ phase'[a] \notin {3, 4} /\ Len(path'[a]) = Size + 1
         /\ at'[a] = path'[a][Len(tour'[a]) + 1]
         /\ \A i \in 1..Len(tour'[a]) : tour'[a][i] = path'[a][i]
    <3>1. phase'[a] = 5 /\ phase'[a] \notin {3, 4} /\ Len(path'[a]) = Size + 1
      BY <2>2, <2>4
    <3>2. at'[a] = path'[a][Len(tour'[a]) + 1]
      BY <2>2, <2>5, <2>9, <2>11
    <3>3. \A i \in 1..Len(tour'[a]) : tour'[a][i] = path'[a][i]
      BY <2>2, <2>5, <2>10
    <3> QED
      BY <3>1, <3>2, <3>3
  <2>13. ASSUME Heard(a)'
         PROVE  /\ Len(tour'[a]) + Len(Posted(a)') = Size
                /\ \A i \in 1..Len(Posted(a)') :
                     Posted(a)'[i] = <<path'[a][Size + 2 - i], path'[a][Size + 1 - i]>>
    <3>1. Heard(a)
      BY <2>2, <2>13, Zenon DEF Heard
    <3>2. /\ k + j = Size
          /\ \A i \in 1..j : trail[a][i] = <<path[a][Size + 2 - i], path[a][Size + 1 - i]>>
      BY <2>2, <2>8, <3>1 DEF WayOf, k, j
    <3>3. k = Size + 1 - (j + 1) /\ k + 1 = Size + 2 - (j + 1) /\ (k - 1) + (j + 1) = Size
      BY <2>1, <3>2, SizeNat
    <3>4. Posted(a)'[j + 1] = <<path[a][Size + 2 - (j + 1)], path[a][Size + 1 - (j + 1)]>>
      BY <2>4, <2>7, <2>9, <3>3
    <3>5. \A i \in 1..j + 1 : Posted(a)'[i] = <<path[a][Size + 2 - i], path[a][Size + 1 - i]>>
      <4> TAKE i \in 1..j + 1
      <4>1. i \in 1..j \/ i = j + 1
        BY <2>1
      <4> QED
        BY <4>1, <2>7, <3>2, <3>4
    <3> QED
      BY <2>2, <2>5, <2>7, <3>3, <3>5
  <2> QED
    BY <2>12, <2>13, Zenon DEF WayOf
<1>7. CASE Replace(a)
  <2>1. /\ phase'[a] # 5 /\ phase'[a] \notin {3, 4}
        /\ trail'[a] = <<>> /\ update'[a] = None /\ report'[a] = None
    BY <1>0, <1>7 DEF Replace
  <2> QED
    BY <2>1, Zenon DEF WayOf
<1> QED
  BY <1>1, <1>2, <1>3, <1>4, <1>5, <1>6, <1>7 DEF AntStep

LEMMA WalkedStep == Typed /\ Walked /\ [Next]_vars => Walked'
<1> SUFFICES ASSUME Typed, Walked, [Next]_vars
             PROVE  Walked'
  OBVIOUS
<1>0. /\ phase \in [Ants -> 0..6] /\ tour \in [Ants -> Seq(Nodes)] /\ at \in [Ants -> Nodes]
      /\ path \in [Ants -> Seq(Nodes)] /\ trail \in [Ants -> Seq(Nodes \X Nodes)]
      /\ update \in [Ants -> {None} \union (Nodes \X Nodes)]
      /\ report \in [Ants -> {None} \union Reports]
      /\ mail \in [Ants -> Mails]
  BY DEF Typed, AntTypes, OtherTypes
<1>1. ASSUME NEW b \in Ants,
             phase'[b] = phase[b], tour'[b] = tour[b], at'[b] = at[b], path'[b] = path[b],
             report'[b] \in {None, report[b]},
             Heard(b)' => Heard(b) /\ Posted(b)' = Posted(b),
             phase[b] # 5 => trail'[b] = trail[b] /\ update'[b] = update[b]
      PROVE  WayOf(b)'
  <2>1. WayOf(b)
    BY DEF Walked
  <2>2. phase'[b] # 5 => trail'[b] = <<>> /\ update'[b] = None /\ report'[b] = None
    BY <1>1, <2>1 DEF WayOf
  <2> QED
    BY <1>1, <2>1, <2>2, Zenon DEF WayOf
<1>2. ASSUME NEW a \in Ants, AntStep(a)
      PROVE  Walked'
  <2>1. ASSUME NEW b \in Ants, b # a
        PROVE  /\ phase'[b] = phase[b] /\ tour'[b] = tour[b] /\ at'[b] = at[b]
               /\ path'[b] = path[b] /\ trail'[b] = trail[b] /\ mail'[b] = mail[b]
               /\ update'[b] = update[b] /\ report'[b] = report[b]
    <3>1. phase'[b] = phase[b] /\ mail'[b] = mail[b]
      BY <1>0, <1>2, <2>1
         DEF AntStep, TurnAway, Begin, AskLevels, ChooseNode, CloseTour, ReportTour, Backtrack,
             Replace, antVars, Send
    <3>2. tour'[b] = tour[b] /\ at'[b] = at[b]
      BY <1>0, <1>2, <2>1
         DEF AntStep, TurnAway, Begin, AskLevels, ChooseNode, CloseTour, ReportTour, Backtrack,
             Replace, antVars
    <3>3. path'[b] = path[b] /\ trail'[b] = trail[b]
      BY <1>0, <1>2, <2>1
         DEF AntStep, TurnAway, Begin, AskLevels, ChooseNode, CloseTour, ReportTour, Backtrack,
             Replace, walk
    <3>4. update'[b] = update[b] /\ report'[b] = report[b]
      BY <1>0, <1>2, <2>1
         DEF AntStep, TurnAway, Begin, AskLevels, ChooseNode, CloseTour, ReportTour, Backtrack,
             Replace, walk
    <3> QED
      BY <3>1, <3>2, <3>3, <3>4
  <2>2. WayOf(a)'
    BY <1>2, WalkerStep DEF Walked
  <2>3. started' = started
    BY <1>2 DEF AntStep, TurnAway, Begin, AskLevels, ChooseNode, CloseTour, ReportTour, Backtrack,
                Replace
  <2>4. mail'[a] \in {"MapSize?", "MapSize"} => phase'[a] = 0
    BY <1>0, <1>2 DEF AntStep, TurnAway, Begin, AskLevels, ChooseNode, CloseTour, ReportTour,
                      Backtrack, Replace, Send
  <2>5. a \in started
    BY <1>2 DEF Walked, NotBegun, AntStep, TurnAway, Begin, AskLevels, ChooseNode, CloseTour,
                ReportTour, Backtrack, Replace, Handles
  <2>6. \A b \in Ants : NotBegun(b)'
    BY <2>1, <2>3, <2>4, <2>5 DEF Walked, NotBegun
  <2>7. ASSUME NEW b \in Ants, b # a
        PROVE  Heard(b)' => Heard(b) /\ Posted(b)' = Posted(b)
    <3>1. UNCHANGED running /\ lost \ {<<a, "update">>} \subseteq lost'
      BY <1>2 DEF AntStep, TurnAway, Begin, AskLevels, ChooseNode, CloseTour, ReportTour, Backtrack,
                  Replace, mapVars
    <3>2. <<b, "update">> # <<a, "update">>
      BY <2>7
    <3>3. Posted(b)' = Posted(b)
      BY <2>1, <2>7 DEF Posted
    <3> QED
      BY <3>1, <3>2, <3>3 DEF Heard
  <2>8. ASSUME NEW b \in Ants, b # a
        PROVE  WayOf(b)'
    BY <1>1, <2>1, <2>7, <2>8
  <2> QED
    BY <2>2, <2>6, <2>8 DEF Walked
<1>3. ASSUME NEW a \in Ants, UpdatePheromone(a) \/ LoseUpdate(a)
      PROVE  Walked'
  <2>1. /\ UNCHANGED <<antVars, started, mail, report, path, running>>
        /\ \A b \in Ants : b # a => trail'[b] = trail[b] /\ update'[b] = update[b]
        /\ lost \subseteq lost'
        /\ update[a] # None
    BY <1>0, <1>3 DEF UpdatePheromone, LoseUpdate, mapVars
  <2>2. phase[a] = 5
    BY <2>1 DEF Walked, WayOf
  <2>3. Heard(a)' => Posted(a)' = Posted(a)
    <3>1. CASE UpdatePheromone(a) /\ running
      <4>1. update'[a] = None /\ trail'[a] = Append(trail[a], update[a])
        BY <1>0, <3>1 DEF UpdatePheromone
      <4> QED
        BY <2>1, <4>1 DEF Posted
    <3>2. CASE LoseUpdate(a)
      BY <3>2 DEF LoseUpdate, Heard
    <3>3. CASE ~running
      BY <2>1, <3>3 DEF Heard
    <3> QED
      BY <1>3, <3>1, <3>2, <3>3
  <2>4. \A b \in Ants : Heard(b)' => Heard(b)
    BY <2>1 DEF Heard
  <2>5. \A b \in Ants : b # a => Posted(b)' = Posted(b)
    BY <2>1 DEF Posted
  <2>6. \A b \in Ants : WayOf(b)'
    BY <1>1, <2>1, <2>2, <2>3, <2>4, <2>5 DEF antVars
  <2>7. \A b \in Ants : NotBegun(b)'
    BY <2>1 DEF Walked, NotBegun, antVars
  <2> QED
    BY <2>6, <2>7 DEF Walked
<1>4. CASE \/ \E a \in Ants : \/ Reply(a) \/ UpdateBestTour(a) \/ StartAnt(a)
                             \/ LoseMail(a) \/ LoseReport(a)
           \/ Cancel \/ StopMap \/ UNCHANGED vars
  <2>1. UNCHANGED <<antVars, walk>> /\ (running' => running) /\ lost \subseteq lost'
    BY <1>4 DEF Reply, UpdateBestTour, StartAnt, LoseMail, LoseReport, Cancel, StopMap, vars, mapVars
  <2>2. \A b \in Ants : report'[b] \in {None, report[b]}
    BY <1>0, <1>4 DEF Reply, UpdateBestTour, StartAnt, LoseMail, LoseReport, Cancel, StopMap, vars
  <2>3. \A b \in Ants : Heard(b)' => Heard(b) /\ Posted(b)' = Posted(b)
    BY <2>1 DEF Heard, Posted, walk
  <2>4. \A b \in Ants : WayOf(b)'
    BY <1>1, <2>1, <2>2, <2>3 DEF antVars, walk
  <2>5. \A b \in Ants : NotBegun(b)'
    BY <1>0, <1>4, <2>1
       DEF Walked, NotBegun, Reply, ReplyTo, UpdateBestTour, StartAnt, LoseMail, LoseReport,
           Cancel, StopMap, vars, antVars, Send, Questions
  <2> QED
    BY <2>4, <2>5 DEF Walked
<1> QED
  BY <1>2, <1>3, <1>4 DEF Next, MapStep

LEMMA WalkedInit == Init => Walked
<1> SUFFICES ASSUME Init, NEW a \in Ants
             PROVE  NotBegun(a) /\ WayOf(a)
  BY DEF Walked
<1>1. /\ mail[a] = "none" /\ phase[a] = 0
      /\ trail[a] = <<>> /\ update[a] = None /\ report[a] = None
      /\ phase[a] # 5 /\ phase[a] \notin {3, 4}
  BY DEF Init
<1>2. mail[a] \notin {"MapSize?", "MapSize"}
  BY <1>1
<1> QED
  BY <1>1, <1>2, Zenon DEF NotBegun, WayOf

\* For any lines and map: once an ant is back and its updates have arrived, the
\* map has put pheromone exactly once on each edge of its tour, unless one was
\* lost or the map is gone (Ant.onMessage, Map.onMessage).
THEOREM PheromoneOnEveryEdge == Spec => []EveryEdgeOnce
<1>1. Typed /\ Walked => EveryEdgeOnce
  <2> SUFFICES ASSUME Typed, Walked, NEW a \in Ants, phase[a] = 5, tour[a] = <<>>, update[a] = None,
                      running, <<a, "update">> \notin lost
               PROVE  /\ Len(trail[a]) = Size
                      /\ ToSet(trail[a]) = {<<path[a][i + 1], path[a][i]>> : i \in 1..Size}
    BY DEF EveryEdgeOnce
  <2>1. trail[a] \in Seq(Nodes \X Nodes)
    BY DEF Typed, OtherTypes
  <2>2. WayOf(a) /\ Len(tour[a]) = 0 /\ Heard(a) /\ Posted(a) = trail[a]
    BY DEF Walked, Heard, Posted
  <2>3. /\ Len(trail[a]) = Size
        /\ \A i \in 1..Size :
             trail[a][i] = <<path[a][Size + 2 - i], path[a][Size + 1 - i]>>
    BY <2>1, <2>2, SizeNat DEF WayOf
  <2>4. ToSet(trail[a]) = {trail[a][i] : i \in 1..Size}
    BY <2>1, <2>3 DEF ToSet
  <2>5. ASSUME NEW i \in 1..Size
        PROVE  /\ Size + 1 - i \in 1..Size
               /\ trail[a][i] = <<path[a][(Size + 1 - i) + 1], path[a][Size + 1 - i]>>
               /\ trail[a][Size + 1 - i] = <<path[a][i + 1], path[a][i]>>
    <3>1. /\ Size + 1 - i \in 1..Size
          /\ Size + 2 - i = (Size + 1 - i) + 1
          /\ Size + 2 - (Size + 1 - i) = i + 1 /\ Size + 1 - (Size + 1 - i) = i
      BY SizeNat
    <3> QED
      BY <2>3, <3>1
  <2>6. {trail[a][i] : i \in 1..Size} = {<<path[a][i + 1], path[a][i]>> : i \in 1..Size}
    <3>1. ASSUME NEW i \in 1..Size
          PROVE  trail[a][i] \in {<<path[a][j + 1], path[a][j]>> : j \in 1..Size}
      BY <2>5
    <3>2. ASSUME NEW i \in 1..Size
          PROVE  <<path[a][i + 1], path[a][i]>> \in {trail[a][j] : j \in 1..Size}
      BY <2>5
    <3> QED
      BY <3>1, <3>2
  <2> QED
    BY <2>3, <2>4, <2>6
<1>2. (Typed /\ Walked) /\ [Next]_vars => (Typed /\ Walked)'
  BY TypedStep, WalkedStep
<1> QED
  BY TypedInit, WalkedInit, <1>1, <1>2, PTL DEF Spec

-----------------------------------------------------------------------------
(* The best tour *)

Listening == running /\ ~done /\ \A a \in Ants : <<a, "report">> \notin lost

\* The least weight reported is known to the map or on its way there.
Kept ==
  /\ shortest <= bestTourWeight
  /\ \A a \in Ants : report[a] \in Reports => shortest <= report[a].weight
  /\ Listening => \/ bestTourWeight = shortest
                  \/ \E a \in Ants : report[a] \in Reports /\ report[a].weight = shortest

LEMMA NoReport == None \notin Reports
  BY DEF Reports

LEMMA KeptStep == Typed /\ Walked /\ Kept /\ [Next]_vars => Kept'
<1> SUFFICES ASSUME Typed, Walked, Kept, [Next]_vars
             PROVE  Kept'
  OBVIOUS
<1>0. /\ report \in [Ants -> {None} \union Reports]
      /\ shortest \in Nat /\ bestTourWeight \in Nat
      /\ \A a \in Ants : weight[a] \in Nat
      /\ \A r \in Reports : r.weight \in Nat
  BY DEF Typed, OtherTypes, MapTypes, AntTypes, Reports
<1>1. ASSUME NEW a \in Ants, UpdateBestTour(a)
      PROVE  Kept'
  <2>1. report[a] \in Reports
    BY <1>0, <1>1 DEF UpdateBestTour
  <2>2. UNCHANGED <<shortest, lost, running>> /\ report' = [report EXCEPT ![a] = None]
    BY <1>1 DEF UpdateBestTour
  <2>3. \A b \in Ants : report'[b] \in Reports => b # a /\ report'[b] = report[b]
    BY <1>0, <2>2, NoReport
  <2>4. \A b \in Ants : b # a /\ report[b] \in Reports => report'[b] \in Reports /\ report'[b] = report[b]
    BY <1>0, <2>2
  <2>5. CASE ~running
    <3>1. UNCHANGED <<bestTourWeight, done>> /\ ~Listening'
      BY <1>1, <2>2, <2>5 DEF UpdateBestTour, Listening
    <3> QED
      BY <2>2, <2>3, <3>1 DEF Kept
  <2>6. CASE running /\ stationary >= MaxStationary
    <3>1. UNCHANGED bestTourWeight /\ ~Listening'
      BY <1>1, <2>6 DEF UpdateBestTour, HandleReport, KeepTour, Listening
    <3> QED
      BY <2>2, <2>3, <3>1 DEF Kept
  <2>7. CASE running /\ ~(stationary >= MaxStationary)
    <3>1. done' = done
          /\ bestTourWeight' = IF bestTourWeight > report[a].weight THEN report[a].weight
                                ELSE bestTourWeight
      BY <1>1, <2>7 DEF UpdateBestTour, HandleReport, TakeTour, KeepTour
    <3>2. shortest' <= bestTourWeight'
      BY <1>0, <2>1, <2>2, <3>1 DEF Kept
    <3>3. Listening' => Listening
      BY <2>2, <3>1 DEF Listening
    <3>4. ASSUME Listening, bestTourWeight = shortest
          PROVE  bestTourWeight' = shortest'
      BY <1>0, <2>1, <2>2, <3>1, <3>4 DEF Kept
    <3>5. ASSUME report[a].weight = shortest
          PROVE  bestTourWeight' = shortest'
      BY <1>0, <2>1, <2>2, <3>1, <3>5 DEF Kept
    <3>6. ASSUME NEW b \in Ants, b # a, report[b] \in Reports, report[b].weight = shortest
          PROVE  report'[b] \in Reports /\ report'[b].weight = shortest'
      BY <2>2, <2>4, <3>6
    <3> QED
      BY <2>2, <2>3, <3>2, <3>3, <3>4, <3>5, <3>6 DEF Kept
  <2> QED
    BY <2>5, <2>6, <2>7
<1>2. ASSUME NEW a \in Ants, ReportTour(a)
      PROVE  Kept'
  <2> DEFINE r == [tour |-> tour[a], weight |-> weight[a]]
  <2>1. r \in Reports /\ r.weight = weight[a]
    BY DEF Typed, AntTypes, Reports
  <2> HIDE DEF r
  <2>2. /\ report[a] = None
        /\ report' = [report EXCEPT ![a] = r]
        /\ shortest' = IF weight[a] < shortest THEN weight[a] ELSE shortest
        /\ UNCHANGED <<bestTourWeight, running, done, lost>>
    BY <1>2 DEF ReportTour, Handles, Walked, WayOf, mapVars, r
  <2>3. report'[a] = r /\ \A b \in Ants : b # a => report'[b] = report[b]
    BY <1>0, <2>2
  <2>4. Listening' = Listening
    BY <2>2 DEF Listening
  <2>5. report[a] \notin Reports
    BY <2>2, NoReport
  <2>6. shortest' <= bestTourWeight' /\ shortest' \in Nat
    BY <1>0, <2>2 DEF Kept
  <2>7. \A b \in Ants : report'[b] \in Reports => shortest' <= report'[b].weight
    BY <1>0, <2>1, <2>2, <2>3 DEF Kept
  <2>8. ASSUME Listening
        PROVE  \/ bestTourWeight' = shortest'
               \/ \E b \in Ants : report'[b] \in Reports /\ report'[b].weight = shortest'
    <3>1. CASE weight[a] < shortest
      BY <2>1, <2>2, <2>3, <3>1
    <3>2. CASE ~(weight[a] < shortest)
      BY <2>2, <2>3, <2>5, <2>8, <3>2 DEF Kept
    <3> QED
      BY <3>1, <3>2
  <2> QED
    BY <2>4, <2>6, <2>7, <2>8 DEF Kept
<1>3. ASSUME NEW a \in Ants, LoseReport(a)
      PROVE  Kept'
  <2>1. UNCHANGED <<shortest, bestTourWeight>> /\ <<a, "report">> \in lost'
        /\ report' = [report EXCEPT ![a] = None]
    BY <1>3 DEF LoseReport, mapVars
  <2>2. \A b \in Ants : report'[b] \in Reports => report'[b] = report[b]
    BY <1>0, <2>1, NoReport
  <2>3. ~Listening'
    BY <2>1 DEF Listening
  <2> QED
    BY <2>1, <2>2, <2>3 DEF Kept
<1>4. ASSUME UNCHANGED <<shortest, bestTourWeight, report>>, Listening' => Listening
      PROVE  Kept'
  BY <1>4 DEF Kept
<1>5. ASSUME NEW a \in Ants,
             \/ Reply(a) \/ StartAnt(a) \/ LoseMail(a) \/ UpdatePheromone(a) \/ LoseUpdate(a)
             \/ TurnAway(a) \/ Begin(a) \/ AskLevels(a) \/ ChooseNode(a) \/ CloseTour(a)
             \/ Backtrack(a) \/ Replace(a)
      PROVE  Kept'
  <2>1. UNCHANGED <<mapVars, report, shortest>> /\ lost \ {<<a, "update">>} \subseteq lost'
    BY <1>5 DEF Reply, StartAnt, LoseMail, UpdatePheromone, LoseUpdate, TurnAway, Begin, AskLevels,
                ChooseNode, CloseTour, Backtrack, Replace
  <2>2. \A b \in Ants : <<b, "report">> # <<a, "update">>
    OBVIOUS
  <2>3. Listening' => Listening
    BY <2>1, <2>2 DEF Listening, mapVars
  <2> QED
    BY <1>4, <2>1, <2>3 DEF mapVars
<1>6. CASE Cancel \/ StopMap \/ UNCHANGED vars
  BY <1>4, <1>6 DEF Cancel, StopMap, vars, mapVars, Listening
<1> QED
  BY <1>1, <1>2, <1>3, <1>5, <1>6 DEF Next, MapStep, AntStep

\* For any lines, map and bounds: while the search is on and all reports have
\* arrived, the best tour is the shortest one reported (Map.onMessage).
THEOREM BestIsShortest == Spec => []BestOfReported
<1>1. Init => Kept
  BY NoReport, BoundsNat DEF Init, Kept
<1>2. Typed /\ Kept => BestOfReported
  BY NoReport DEF Kept, Listening, BestOfReported
<1>3. (Typed /\ Walked /\ Kept) /\ [Next]_vars => (Typed /\ Walked /\ Kept)'
  BY TypedStep, WalkedStep, KeptStep
<1> QED
  BY TypedInit, WalkedInit, <1>1, <1>2, <1>3, PTL DEF Spec

-----------------------------------------------------------------------------
(* What the best tour weighs *)

\* A set of numbers has a least one: what the inductions below rest on.
LEMMA NatMinimum ==
  ASSUME NEW T, T \subseteq Nat, T # {}
  PROVE  \E x \in T : \A y \in T : x <= y
<1> DEFINE R == {pair \in Nat \X Nat : pair[1] < pair[2]}
<1>1. IsWellFoundedOn(R, Nat)
  BY NatLessThanWellFounded DEF OpToRel
<1> HIDE DEF R
<1>2. PICK x \in T : \A y \in T : ~(<<y, x>> \in R)
  BY <1>1, WFMin
<1>3. \A y \in T : x <= y
  <2> TAKE y \in T
  <2>1. x \in Nat /\ y \in Nat /\ <<y, x>> \in Nat \X Nat
    OBVIOUS
  <2>2. ~(y < x)
    BY <1>2, <2>1 DEF R
  <2> QED
    BY <2>1, <2>2
<1> QED
  BY <1>3

\* What a fold computes for the subsets of S, each from a smaller one.
Pick(s) == CHOOSE x \in s : TRUE
Sums(g, w, s) == g[s] = IF s = {} THEN 0 ELSE w[Pick(s)] + g[s \ {Pick(s)}]
IsSum(g, w, S) == \A s \in SUBSET S : Sums(g, w, s)

LEMMA PickIn == ASSUME NEW s, s # {} PROVE Pick(s) \in s
  BY DEF Pick

LEMMA Smaller ==
  ASSUME NEW S, IsFiniteSet(S), NEW s \in SUBSET S, NEW x \in s
  PROVE  /\ s \ {x} \in SUBSET S
         /\ Cardinality(s) \in Nat
         /\ Cardinality(s \ {x}) \in Nat
         /\ Cardinality(s \ {x}) = Cardinality(s) - 1
<1>1. IsFiniteSet(s)
  BY FS_Subset
<1> QED
  BY <1>1, FS_RemoveElement, FS_CardinalityType

\* Of the sets with a property one has no smaller one with it.
LEMMA SmallestSubset ==
  ASSUME NEW S, IsFiniteSet(S), NEW B, B \subseteq SUBSET S, B # {}
  PROVE  \E s \in B : \A x \in s : s \ {x} \notin B
<1> DEFINE sizes == {Cardinality(s) : s \in B}
<1>1. \A s \in B : Cardinality(s) \in Nat
  BY FS_Subset, FS_CardinalityType
<1>2. sizes \subseteq Nat /\ sizes # {}
  BY <1>1
<1>3. PICK k \in sizes : \A n \in sizes : k <= n
  BY <1>2, NatMinimum
<1>4. PICK s \in B : Cardinality(s) = k
  BY <1>3
<1>5. ASSUME NEW x \in s, s \ {x} \in B
      PROVE  FALSE
  <2>1. s \in SUBSET S /\ k \in Nat
    BY <1>2
  <2>2. Cardinality(s \ {x}) = k - 1
    BY <1>4, <2>1, Smaller
  <2>3. k <= k - 1
    BY <1>3, <1>5, <2>2
  <2> QED
    BY <2>1, <2>3
<1> QED
  BY <1>5

\* Two sums of the same values are the same.
LEMMA SumUnique ==
  ASSUME NEW S, IsFiniteSet(S), NEW w, NEW v, \A i \in S : w[i] = v[i],
         NEW g, NEW h, IsSum(g, w, S), IsSum(h, v, S)
  PROVE  g[S] = h[S]
<1> DEFINE B == {s \in SUBSET S : g[s] # h[s]}
<1>1. B = {}
  <2> SUFFICES ASSUME B # {}
               PROVE  FALSE
    OBVIOUS
  <2>1. PICK s \in B : \A x \in s : s \ {x} \notin B
    <3> HIDE DEF B
    <3>1. B \subseteq SUBSET S
      BY DEF B
    <3> QED
      BY <3>1, SmallestSubset
  <2>2. s \in SUBSET S /\ g[s] # h[s]
    OBVIOUS
  <2>3. Sums(g, w, s) /\ Sums(h, v, s)
    BY <2>2 DEF IsSum
  <2>4. s # {}
    BY <2>2, <2>3 DEF Sums
  <2>5. Pick(s) \in s
    BY <2>4, PickIn
  <2>6. g[s \ {Pick(s)}] = h[s \ {Pick(s)}]
    BY <2>1, <2>2, <2>5
  <2>7. w[Pick(s)] = v[Pick(s)]
    BY <2>2, <2>5
  <2> QED
    BY <2>2, <2>3, <2>4, <2>6, <2>7 DEF Sums
<1> QED
  BY <1>1

\* Whichever element is taken first, the sum is the same.
TakesAny(g, w, S) == \A x \in S : g[S] = w[x] + g[S \ {x}]

LEMMA SumTakes ==
  ASSUME NEW S, IsFiniteSet(S), NEW w, \A i \in S : w[i] \in Nat,
         NEW g \in [SUBSET S -> Nat], IsSum(g, w, S)
  PROVE  TakesAny(g, w, S)
<1> USE DEF TakesAny
<1> DEFINE B == {s \in SUBSET S : \E y \in s : g[s] # w[y] + g[s \ {y}]}
<1>1. B = {}
  <2> SUFFICES ASSUME B # {}
               PROVE  FALSE
    OBVIOUS
  <2>1. PICK s \in B : \A y \in s : s \ {y} \notin B
    <3>1. B \subseteq SUBSET S
      OBVIOUS
    <3> HIDE DEF B
    <3> QED
      BY <3>1, SmallestSubset
  <2>2. PICK y \in s : g[s] # w[y] + g[s \ {y}]
    OBVIOUS
  <2>3. s \in SUBSET S
    OBVIOUS
  <2> DEFINE z == Pick(s)
  <2>4. z \in s
    BY <2>2, PickIn
  <2>5. g[s] = w[z] + g[s \ {z}]
    BY <2>2, <2>3, <2>4 DEF IsSum, Sums
  <2>6. z # y
    BY <2>2, <2>5
  <2> HIDE DEF z
  <2>7. s \ {y} \notin B /\ s \ {z} \notin B
    BY <2>1, <2>4
  <2>8. g[s \ {y}] = w[z] + g[(s \ {y}) \ {z}]
    BY <2>3, <2>4, <2>6, <2>7
  <2>9. g[s \ {z}] = w[y] + g[(s \ {z}) \ {y}]
    BY <2>2, <2>3, <2>6, <2>7
  <2>10. (s \ {y}) \ {z} = (s \ {z}) \ {y} /\ (s \ {y}) \ {z} \in SUBSET S
    BY <2>3
  <2> DEFINE rest == g[(s \ {y}) \ {z}]
  <2>11. rest \in Nat /\ w[y] \in Nat /\ w[z] \in Nat
    BY <2>2, <2>3, <2>4, <2>10
  <2>12. g[s \ {y}] = w[z] + rest /\ g[s \ {z}] = w[y] + rest
    BY <2>8, <2>9, <2>10
  <2> HIDE DEF rest, B
  <2>13. w[z] + (w[y] + rest) = w[y] + (w[z] + rest)
    BY <2>11
  <2> QED
    BY <2>2, <2>5, <2>12, <2>13
<1> QED
  BY <1>1

\* There is such a sum: of the sets of at most k elements for every k.
LEMMA SumExists ==
  ASSUME NEW S, IsFiniteSet(S), NEW w, \A i \in S : w[i] \in Nat
  PROVE  \E g \in [SUBSET S -> Nat] : IsSum(g, w, S)
<1> DEFINE Upto(k) == {s \in SUBSET S : Cardinality(s) <= k}
           P(k) == \E g \in [Upto(k) -> Nat] : \A s \in Upto(k) : Sums(g, w, s)
           B == {k \in Nat : ~P(k)}
<1>1. \A s \in SUBSET S : IsFiniteSet(s) /\ Cardinality(s) \in Nat
  BY FS_Subset, FS_CardinalityType
<1>2. P(0)
  <2> DEFINE g == [s \in Upto(0) |-> 0]
  <2>1. \A s \in Upto(0) : s = {}
    BY <1>1, FS_EmptySet
  <2>2. \A s \in Upto(0) : Sums(g, w, s)
    BY <2>1 DEF Sums
  <2> QED
    BY <2>2
<1>3. ASSUME NEW k \in Nat, P(k)
      PROVE  P(k + 1)
  <2>1. PICK g \in [Upto(k) -> Nat] : \A s \in Upto(k) : Sums(g, w, s)
    BY <1>3
  <2> DEFINE h == [s \in Upto(k + 1) |-> IF s \in Upto(k) THEN g[s] ELSE w[Pick(s)] + g[s \ {Pick(s)}]]
  <2>2. Upto(k) \subseteq Upto(k + 1)
    BY <1>1
  <2>3. ASSUME NEW s \in Upto(k + 1), s # {}
        PROVE  Pick(s) \in s /\ s \ {Pick(s)} \in Upto(k)
    <3>1. Pick(s) \in s
      BY <2>3, PickIn
    <3>2. s \in SUBSET S /\ Cardinality(s) <= k + 1
      OBVIOUS
    <3>3. Cardinality(s \ {Pick(s)}) = Cardinality(s) - 1 /\ Cardinality(s) \in Nat
      BY <3>1, <3>2, Smaller
    <3> QED
      BY <3>1, <3>2, <3>3
  <2>4. {} \in Upto(k)
    BY FS_EmptySet
  <2> HIDE DEF Upto
  <2>5. h \in [Upto(k + 1) -> Nat]
    <3> SUFFICES ASSUME NEW s \in Upto(k + 1)
                 PROVE  h[s] \in Nat
      OBVIOUS
    <3>1. CASE s \in Upto(k)
      BY <3>1
    <3>2. CASE s \notin Upto(k)
      <4>1. s # {} /\ s \in SUBSET S
        BY <2>4, <3>2 DEF Upto
      <4>2. w[Pick(s)] \in Nat /\ g[s \ {Pick(s)}] \in Nat
        BY <2>3, <4>1
      <4> QED
        BY <3>2, <4>2
    <3> QED
      BY <3>1, <3>2
  <2>6. ASSUME NEW s \in Upto(k + 1)
        PROVE  Sums(h, w, s)
    <3>1. s # {} => h[s \ {Pick(s)}] = g[s \ {Pick(s)}]
      BY <2>2, <2>3
    <3>2. CASE s \in Upto(k)
      <4>1. Sums(g, w, s) /\ h[s] = g[s]
        BY <2>1, <3>2
      <4> QED
        BY <3>1, <4>1 DEF Sums
    <3>3. CASE s \notin Upto(k)
      <4>1. s # {} /\ h[s] = w[Pick(s)] + g[s \ {Pick(s)}]
        BY <2>4, <3>3
      <4> QED
        BY <3>1, <4>1 DEF Sums
    <3> QED
      BY <3>2, <3>3
  <2> QED
    BY <2>5, <2>6
<1>4. B = {}
  <2> SUFFICES ASSUME B # {}
               PROVE  FALSE
    OBVIOUS
  <2>1. PICK k \in B : \A n \in B : k <= n
    <3>1. B \subseteq Nat
      OBVIOUS
    <3> HIDE DEF B
    <3> QED
      BY <3>1, NatMinimum
  <2> HIDE DEF P
  <2>2. k \in Nat /\ ~P(k)
    OBVIOUS
  <2>3. k # 0
    BY <1>2, <2>2
  <2>4. k - 1 \in Nat /\ k - 1 \notin B
    BY <2>1, <2>2, <2>3
  <2>5. P(k - 1)
    BY <2>4
  <2>6. P((k - 1) + 1)
    BY <1>3, <2>4, <2>5
  <2>7. (k - 1) + 1 = k
    BY <2>2
  <2> QED
    BY <2>2, <2>6, <2>7
<1>5. Upto(Cardinality(S)) = SUBSET S
  BY FS_Subset
<1>6. P(Cardinality(S))
  <2>1. Cardinality(S) \in Nat
    BY FS_CardinalityType
  <2> HIDE DEF P
  <2> QED
    BY <1>4, <2>1
<1> QED
  BY <1>5, <1>6 DEF IsSum

\* The fold that WeightOf takes from the community modules.
LEMMA FoldSums ==
  ASSUME NEW w, IsFiniteSet(DOMAIN w), \A i \in DOMAIN w : w[i] \in Nat
  PROVE  \E g \in [SUBSET DOMAIN w -> Nat] : IsSum(g, w, DOMAIN w) /\ FoldFunction(+, 0, w) = g[DOMAIN w]
<1> DEFINE S == DOMAIN w
           step(g) == [s \in SUBSET S |-> IF s = {} THEN 0 ELSE w[Pick(s)] + g[s \ {Pick(s)}]]
           iter == CHOOSE g : g = step(g)
<1>1. PICK g \in [SUBSET S -> Nat] : IsSum(g, w, S)
  BY SumExists
<1>2. g = step(g)
  BY <1>1 DEF IsSum, Sums
<1>3. iter = step(iter)
  BY <1>2
<1>4. FoldFunction(+, 0, w) = iter[S]
  BY DEF FoldFunction, FoldFunctionOnSet, MapThenFoldSet, Pick
<1>5. IsSum(iter, w, S)
  <2> HIDE DEF iter
  <2>1. ASSUME NEW s \in SUBSET S
        PROVE  iter[s] = IF s = {} THEN 0 ELSE w[Pick(s)] + iter[s \ {Pick(s)}]
    BY <1>3
  <2> QED
    BY <2>1 DEF IsSum, Sums
<1>6. iter[S] = g[S]
  <2> HIDE DEF iter
  <2> QED
    BY <1>1, <1>5, SumUnique
<1> QED
  BY <1>1, <1>4, <1>6

-----------------------------------------------------------------------------
\* A tour of one node takes no edge.
LEMMA WeightOfOne == \A n \in Nodes : WeightOf(<<n>>) = 0
<1> TAKE n \in Nodes
<1> DEFINE w == [i \in 1..Len(<<n>>) - 1 |-> Dist[<<<<n>>[i], <<n>>[i + 1]>>]]
<1>1. DOMAIN w = {}
  OBVIOUS
<1> HIDE DEF w
<1>2. PICK g \in [SUBSET DOMAIN w -> Nat] : IsSum(g, w, DOMAIN w) /\ FoldFunction(+, 0, w) = g[DOMAIN w]
  BY <1>1, FS_EmptySet, FoldSums
<1>3. g[{}] = 0
  BY <1>1, <1>2 DEF IsSum, Sums
<1> QED
  BY <1>1, <1>2, <1>3 DEF WeightOf, w

\* A node more makes a tour longer by the edge to it.
LEMMA WeightOfLonger ==
  ASSUME NEW s \in Seq(Nodes), s # <<>>, NEW n \in Nodes
  PROVE  WeightOf(Append(s, n)) = WeightOf(s) + Dist[<<s[Len(s)], n>>]
<1> DEFINE k == Len(s)
           longer == Append(s, n)
           fewer == 1..k - 1
           all == 1..k
           w == [i \in fewer |-> Dist[<<s[i], s[i + 1]>>]]
           v == [i \in all |-> Dist[<<longer[i], longer[i + 1]>>]]
<1>1. k \in Nat /\ k > 0 /\ Len(longer) - 1 = k
  OBVIOUS
<1>2. \A i \in all : longer[i] = s[i] /\ s[i] \in Nodes
  OBVIOUS
<1>3. longer[k + 1] = n
  OBVIOUS
<1>4. WeightOf(s) = FoldFunction(+, 0, w) /\ WeightOf(longer) = FoldFunction(+, 0, v)
  BY <1>1 DEF WeightOf
<1> HIDE DEF k, longer
<1>5. all \ {k} = fewer /\ k \in all /\ fewer \subseteq all
  BY <1>1
<1>6. IsFiniteSet(fewer) /\ IsFiniteSet(all)
  BY <1>1, FS_Interval
<1>7. \A i \in fewer : w[i] = v[i]
  BY <1>1, <1>2
<1>8. \A i \in all : v[i] \in Nat
  BY <1>1, <1>2, <1>3, DistSymmetric
<1>9. v[k] = Dist[<<s[k], n>>]
  BY <1>1, <1>2, <1>3
<1>10. DOMAIN w = fewer /\ DOMAIN v = all
  OBVIOUS
<1> HIDE DEF w, v, fewer, all
<1>11. \A i \in fewer : w[i] \in Nat
  BY <1>5, <1>7, <1>8
<1>12. PICK g \in [SUBSET fewer -> Nat] : IsSum(g, w, fewer) /\ WeightOf(s) = g[fewer]
  BY <1>4, <1>6, <1>10, <1>11, FoldSums
<1>13. PICK h \in [SUBSET all -> Nat] : IsSum(h, v, all) /\ WeightOf(longer) = h[all]
  BY <1>4, <1>6, <1>8, <1>10, FoldSums
<1>14. h[all] = v[k] + h[fewer]
  <2>1. k \in all /\ IsSum(h, v, all)
    BY <1>5, <1>13
  <2>2. TakesAny(h, v, all)
    BY <1>6, <1>8, <2>1, SumTakes
  <2> QED
    BY <1>5, <2>1, <2>2 DEF TakesAny
<1>15. IsSum(h, v, fewer)
  BY <1>5, <1>13 DEF IsSum
<1>16. g[fewer] = h[fewer]
  BY <1>6, <1>7, <1>12, <1>15, SumUnique
<1>17. v[k] \in Nat /\ g[fewer] \in Nat
  BY <1>5, <1>8, <1>12
<1>18. WeightOf(longer) = WeightOf(s) + v[k]
  BY <1>12, <1>13, <1>14, <1>16, <1>17
<1> QED
  BY <1>9, <1>18 DEF k, longer

\* What an ant knows of the tour it makes.
Measures(a) ==
  /\ phase[a] = 0 => weight[a] = 0
  /\ phase[a] \in {1, 2} =>
       tour[a] # <<>> /\ at[a] = tour[a][Len(tour[a])] /\ weight[a] = WeightOf(tour[a])
  /\ phase[a] = 3 =>
       /\ IsTour(tour[a])
       /\ weight[a] + Dist[<<tour[a][Size], tour[a][Size + 1]>>] = WeightOf(tour[a])
  /\ phase[a] = 4 => IsTour(tour[a]) /\ weight[a] = WeightOf(tour[a])

RightReport(r) == IsTour(r.tour) /\ r.weight = WeightOf(r.tour)

Measured ==
  /\ BestIsTour
  /\ \A a \in Ants : Measures(a)
  /\ \A a \in Ants : report[a] \in Reports => RightReport(report[a])

\* The ant that takes a step.
LEMMA MeasuresStep ==
  ASSUME Typed, NEW a \in Ants, NotBegun(a), Measures(a), AntStep(a)
  PROVE  Measures(a)'
<1>0. /\ phase \in [Ants -> 0..6] /\ tour \in [Ants -> Seq(Nodes)] /\ at \in [Ants -> Nodes]
      /\ weight \in [Ants -> Nat]
      /\ phase[a] \in {3, 4} => Len(tour[a]) = Size + 1
  BY DEF Typed, AntTypes, Closed
<1>1. CASE TurnAway(a)
  BY <1>1 DEF TurnAway, antVars, Measures
<1>2. CASE Begin(a)
  <2>1. PICK n \in {order[1] : order \in Tours} :
          tour' = [tour EXCEPT ![a] = <<n>>] /\ at' = [at EXCEPT ![a] = n]
    BY <1>2 DEF Begin
  <2>2. n \in Nodes
    <3>1. PICK order \in Tours : n = order[1]
      BY <2>1
    <3>2. order \in [1..Size -> Nodes]
      BY ToursVisitAll DEF Size
    <3> QED
      BY <3>1, <3>2, SizeNat
  <2>3. phase[a] = 0 /\ phase'[a] = 1 /\ UNCHANGED weight
    BY <1>0, <1>2 DEF Begin, NotBegun
  <2>4. weight'[a] = 0
    BY <2>3 DEF Measures
  <2>5. tour'[a] = <<n>> /\ at'[a] = n
    BY <1>0, <2>1
  <2>6. WeightOf(<<n>>) = 0
    BY <2>2, WeightOfOne
  <2>7. tour'[a] # <<>> /\ at'[a] = tour'[a][Len(tour'[a])] /\ weight'[a] = WeightOf(tour'[a])
    BY <2>4, <2>5, <2>6
  <2>8. phase'[a] # 0 /\ phase'[a] # 3 /\ phase'[a] # 4
    BY <2>3
  <2> QED
    BY <2>7, <2>8, Zenon DEF Measures
<1>3. CASE AskLevels(a)
  <2>1. phase[a] = 1 /\ phase'[a] = 2 /\ UNCHANGED <<tour, weight, at>>
    BY <1>0, <1>3 DEF AskLevels, Handles
  <2> QED
    BY <2>1 DEF Measures
<1>4. CASE ChooseNode(a)
  <2>1. PICK n \in Nodes :
          LET longer == Append(tour[a], n) IN
          /\ \E order \in Tours : IsPrefix(longer, order)
          /\ weight' = [weight EXCEPT ![a] = @ + Dist[<<at[a], n>>]]
          /\ IF Len(longer) = Size
             THEN /\ tour' = [tour EXCEPT ![a] = Append(longer, longer[1])]
                  /\ at' = [at EXCEPT ![a] = longer[1]]
                  /\ phase' = [phase EXCEPT ![a] = 3]
             ELSE /\ tour' = [tour EXCEPT ![a] = longer]
                  /\ at' = [at EXCEPT ![a] = n]
                  /\ phase' = [phase EXCEPT ![a] = 1]
    BY <1>4 DEF ChooseNode
  <2>2. phase[a] = 2
    BY <1>4 DEF ChooseNode, Handles
  <2>3. tour[a] # <<>> /\ at[a] = tour[a][Len(tour[a])] /\ weight[a] = WeightOf(tour[a])
    BY <2>2 DEF Measures
  <2> DEFINE longer == Append(tour[a], n)
  <2>4. longer \in Seq(Nodes) /\ Len(longer) > 0 /\ longer[Len(longer)] = n /\ longer # <<>>
    <3>1. tour[a] \in Seq(Nodes)
      BY <1>0
    <3>2. longer \in Seq(Nodes) /\ Len(longer) = Len(tour[a]) + 1 /\ longer[Len(tour[a]) + 1] = n
      BY <3>1
    <3>3. Len(longer) > 0 /\ longer # <<>>
      BY <3>1, <3>2
    <3> QED
      BY <3>2, <3>3
  <2>5. PICK order \in Tours : IsPrefix(longer, order)
    BY <2>1
  <2>6. WeightOf(longer) = WeightOf(tour[a]) + Dist[<<tour[a][Len(tour[a])], n>>]
    BY <1>0, <2>3, WeightOfLonger
  <2>7. weight'[a] = WeightOf(longer)
    BY <1>0, <2>1, <2>3, <2>6
  <2>8. CASE Len(longer) = Size
    <3>1. /\ tour'[a] = Append(longer, longer[1])
          /\ phase'[a] = 3
      BY <1>0, <2>1, <2>8
    <3> HIDE DEF longer
    <3>2. order \in [1..Size -> Nodes] /\ ToSet(order) = Nodes
      BY ToursVisitAll DEF Size
    <3>3. order \in Seq(Nodes) /\ Len(order) = Size
      BY <3>2, SizeNat
    <3>4. longer = order
      BY <2>4, <2>5, <2>8, <3>3 DEF IsPrefix
    <3>5. longer[1] \in Nodes /\ Len(tour'[a]) = Size + 1 /\ tour'[a] \in Seq(Nodes)
      BY <2>4, <2>8, <3>1, SizeNat
    <3>6. /\ tour'[a][1] = longer[1] /\ tour'[a][Size] = longer[Size]
          /\ tour'[a][Size + 1] = longer[1]
          /\ \A i \in 1..Size : tour'[a][i] = longer[i]
      BY <2>4, <2>8, <3>1, <3>5, SizeNat
    <3>7. ToSet(tour'[a]) = Nodes
      <4>1. \A m \in Nodes : \E i \in 1..Size : longer[i] = m
        BY <3>2, <3>4 DEF ToSet
      <4>2. DOMAIN tour'[a] = 1..Size + 1
        BY <3>5
      <4>3. \A i \in 1..Size + 1 : tour'[a][i] \in Nodes
        BY <3>5
      <4>4. \A m \in Nodes : \E i \in 1..Size + 1 : tour'[a][i] = m
        BY <3>6, <4>1, SizeNat
      <4> QED
        BY <4>2, <4>3, <4>4 DEF ToSet
    <3>8. WeightOf(tour'[a]) = WeightOf(longer) + Dist[<<longer[Size], longer[1]>>]
      BY <2>4, <2>8, <3>1, <3>5, WeightOfLonger
    <3>9. weight'[a] + Dist[<<tour'[a][Size], tour'[a][Size + 1]>>] = WeightOf(tour'[a])
      BY <2>7, <3>6, <3>8
    <3>10. IsTour(tour'[a])
      BY <3>5, <3>6, <3>7 DEF IsTour
    <3>11. phase'[a] # 0 /\ phase'[a] \notin {1, 2} /\ phase'[a] # 4
      BY <3>1
    <3> QED
      BY <3>9, <3>10, <3>11, Zenon DEF Measures, IsTour
  <2>9. CASE Len(longer) # Size
    <3>1. tour'[a] = longer /\ at'[a] = n /\ phase'[a] = 1
      BY <1>0, <2>1, <2>9
    <3> HIDE DEF longer
    <3>2. tour'[a] # <<>> /\ at'[a] = tour'[a][Len(tour'[a])] /\ weight'[a] = WeightOf(tour'[a])
      BY <2>4, <2>7, <3>1
    <3>3. phase'[a] # 0 /\ phase'[a] # 3 /\ phase'[a] # 4
      BY <3>1
    <3> QED
      BY <3>2, <3>3, Zenon DEF Measures
  <2> QED
    BY <2>8, <2>9
<1>5. CASE CloseTour(a)
  <2>1. /\ phase[a] = 3 /\ phase'[a] = 4 /\ UNCHANGED tour
        /\ weight'[a] = weight[a] + Dist[<<tour[a][Size], tour[a][Size + 1]>>]
    BY <1>0, <1>5 DEF CloseTour, Handles
  <2>2. IsTour(tour[a]) /\ weight'[a] = WeightOf(tour[a])
    BY <2>1 DEF Measures
  <2>3. IsTour(tour[a])' /\ weight'[a] = WeightOf(tour'[a])
    BY <2>1, <2>2 DEF IsTour
  <2>4. phase'[a] # 0 /\ phase'[a] \notin {1, 2} /\ phase'[a] # 3
    BY <2>1
  <2> QED
    BY <2>3, <2>4, Zenon DEF Measures
<1>6. CASE ReportTour(a) \/ Backtrack(a)
  <2>1. phase'[a] = 5
    BY <1>0, <1>6 DEF ReportTour, Backtrack, Handles
  <2>2. phase'[a] # 0 /\ phase'[a] \notin {1, 2} /\ phase'[a] # 3 /\ phase'[a] # 4
    BY <2>1
  <2> QED
    BY <2>2, Zenon DEF Measures
<1>7. CASE Replace(a)
  <2>1. phase'[a] \in {0, 6} /\ (phase'[a] = 0 => weight'[a] = 0)
    BY <1>0, <1>7 DEF Replace
  <2>2. phase'[a] \notin {1, 2} /\ phase'[a] # 3 /\ phase'[a] # 4
    BY <2>1
  <2> QED
    BY <2>1, <2>2, Zenon DEF Measures
<1> QED
  BY <1>1, <1>2, <1>3, <1>4, <1>5, <1>6, <1>7 DEF AntStep

LEMMA MeasuredStep == Typed /\ Walked /\ Measured /\ [Next]_vars => Measured'
<1> SUFFICES ASSUME Typed, Walked, Measured, [Next]_vars
             PROVE  Measured'
  OBVIOUS
<1>0. /\ phase \in [Ants -> 0..6] /\ tour \in [Ants -> Seq(Nodes)] /\ at \in [Ants -> Nodes]
      /\ weight \in [Ants -> Nat] /\ report \in [Ants -> {None} \union Reports]
  BY DEF Typed, AntTypes, OtherTypes
<1>1. ASSUME NEW b \in Ants,
             phase'[b] = phase[b], tour'[b] = tour[b], at'[b] = at[b], weight'[b] = weight[b]
      PROVE  Measures(b)'
  <2>1. Measures(b)
    BY DEF Measured
  <2> QED
    BY <1>1, <2>1, Zenon DEF Measures, IsTour
<1>2. ASSUME UNCHANGED <<bestTour, bestTourWeight>>
      PROVE  BestIsTour'
  BY <1>2 DEF Measured, BestIsTour, IsTour
<1>3. ASSUME NEW a \in Ants, AntStep(a)
      PROVE  Measured'
  <2>1. \A b \in Ants : b # a =>
          phase'[b] = phase[b] /\ tour'[b] = tour[b] /\ at'[b] = at[b] /\ weight'[b] = weight[b]
    <3> SUFFICES ASSUME NEW b \in Ants, b # a
                 PROVE  /\ phase'[b] = phase[b] /\ tour'[b] = tour[b]
                        /\ at'[b] = at[b] /\ weight'[b] = weight[b]
      OBVIOUS
    <3>1. phase'[b] = phase[b] /\ weight'[b] = weight[b]
      BY <1>0, <1>3 DEF AntStep, TurnAway, Begin, AskLevels, ChooseNode, CloseTour, ReportTour,
                        Backtrack, Replace, antVars
    <3>2. tour'[b] = tour[b] /\ at'[b] = at[b]
      BY <1>0, <1>3 DEF AntStep, TurnAway, Begin, AskLevels, ChooseNode, CloseTour, ReportTour,
                        Backtrack, Replace, antVars
    <3> QED
      BY <3>1, <3>2
  <2>2. Measures(a)'
    <3>1. NotBegun(a) /\ Measures(a)
      BY DEF Walked, Measured
    <3> QED
      BY <1>3, <3>1, MeasuresStep
  <2>3. \A b \in Ants : Measures(b)'
    BY <1>1, <2>1, <2>2
  <2>4. BestIsTour'
    <3>1. UNCHANGED mapVars
      BY <1>3 DEF AntStep, TurnAway, Begin, AskLevels, ChooseNode, CloseTour, ReportTour,
                  Backtrack, Replace
    <3> QED
      BY <1>2, <3>1 DEF mapVars
  <2>5. \A b \in Ants : (report[b] \in Reports => RightReport(report[b]))'
    <3>1. CASE ReportTour(a)
      <4>1. /\ report' = [report EXCEPT ![a] = [tour |-> tour[a], weight |-> weight[a]]]
            /\ phase[a] = 4
        BY <3>1 DEF ReportTour, Handles
      <4>2. IsTour(tour[a]) /\ weight[a] = WeightOf(tour[a])
        BY <4>1 DEF Measured, Measures
      <4>3. \A b \in Ants : b # a => report'[b] = report[b]
        BY <1>0, <4>1
      <4>4. report'[a].tour = tour[a] /\ report'[a].weight = weight[a]
        BY <1>0, <4>1
      <4>5. RightReport(report'[a])
        BY <4>2, <4>4, Zenon DEF RightReport
      <4>6. ASSUME NEW b \in Ants, report'[b] \in Reports
            PROVE  RightReport(report'[b])
        BY <4>3, <4>5, <4>6, Zenon DEF Measured
      <4> QED
        BY <4>6 DEF RightReport, IsTour, Reports
    <3>2. CASE ~ReportTour(a)
      <4>1. UNCHANGED report
        BY <1>3, <3>2 DEF AntStep, TurnAway, Begin, AskLevels, ChooseNode, CloseTour,
                          Backtrack, Replace
      <4> QED
        BY <4>1 DEF Measured, RightReport, IsTour, Reports
    <3> QED
      BY <3>1, <3>2
  <2> QED
    BY <2>3, <2>4, <2>5 DEF Measured
<1>4. ASSUME UNCHANGED antVars,
             \A b \in Ants : report'[b] = report[b] \/ report'[b] = None,
             BestIsTour'
      PROVE  Measured'
  <2>1. \A b \in Ants : Measures(b)'
    BY <1>1, <1>4 DEF antVars
  <2>2. ASSUME NEW b \in Ants, report'[b] \in Reports
        PROVE  RightReport(report'[b])
    BY <1>4, <2>2, NoReport DEF Measured
  <2> QED
    BY <1>4, <2>1, <2>2 DEF Measured, RightReport, IsTour, Reports
<1>5. ASSUME NEW a \in Ants, UpdateBestTour(a)
      PROVE  Measured'
  <2>1. report[a] \in Reports /\ report' = [report EXCEPT ![a] = None] /\ UNCHANGED antVars
    BY <1>0, <1>5 DEF UpdateBestTour
  <2>2. IsTour(report[a].tour) /\ report[a].weight = WeightOf(report[a].tour)
    BY <2>1 DEF Measured, RightReport
  <2>3. \/ UNCHANGED <<bestTour, bestTourWeight>>
        \/ bestTour' = report[a].tour /\ bestTourWeight' = report[a].weight
    BY <1>5 DEF UpdateBestTour, HandleReport, TakeTour, KeepTour
  <2>4. CASE bestTour' = report[a].tour /\ bestTourWeight' = report[a].weight
    <3>1. IsTour(bestTour') /\ bestTourWeight' = WeightOf(bestTour')
      BY <2>2, <2>4, Zenon
    <3>2. BestIsTour'
      BY <3>1 DEF BestIsTour, IsTour
    <3> QED
      BY <1>0, <1>4, <2>1, <3>2
  <2>5. CASE UNCHANGED <<bestTour, bestTourWeight>>
    BY <1>0, <1>2, <1>4, <2>1, <2>5
  <2> QED
    BY <2>3, <2>4, <2>5
<1>6. CASE \/ \E a \in Ants : \/ Reply(a) \/ StartAnt(a) \/ LoseMail(a) \/ LoseReport(a)
                             \/ UpdatePheromone(a) \/ LoseUpdate(a)
           \/ Cancel \/ StopMap \/ UNCHANGED vars
  <2>1. UNCHANGED antVars /\ UNCHANGED <<bestTour, bestTourWeight>>
    BY <1>6 DEF Reply, StartAnt, LoseMail, LoseReport, UpdatePheromone, LoseUpdate, Cancel, StopMap,
                vars, mapVars
  <2>2. \A b \in Ants : report'[b] = report[b] \/ report'[b] = None
    BY <1>0, <1>6 DEF Reply, StartAnt, LoseMail, LoseReport, UpdatePheromone, LoseUpdate, Cancel,
                      StopMap, vars
  <2> QED
    BY <1>2, <1>4, <2>1, <2>2
<1> QED
  BY <1>3, <1>5, <1>6 DEF Next, MapStep

\* For any lines, map and bounds: the best tour visits every node once and
\* returns to its first one, and weighs what its edges weigh (Map.onMessage,
\* Ant.onMessage).
THEOREM BestTourWeighsItsEdges == Spec => []BestIsTour
<1>1. Init => Measured
  <2> SUFFICES ASSUME Init
               PROVE  Measured
    OBVIOUS
  <2>1. BestIsTour
    BY DEF Init, BestIsTour
  <2>2. ASSUME NEW a \in Ants
        PROVE  Measures(a) /\ report[a] \notin Reports
    <3>1. phase[a] = 0 /\ weight[a] = 0 /\ report[a] = None
      BY DEF Init
    <3>2. phase[a] \notin {1, 2} /\ phase[a] # 3 /\ phase[a] # 4
      BY <3>1
    <3> QED
      BY <3>1, <3>2, NoReport, Zenon DEF Measures
  <2> QED
    BY <2>1, <2>2 DEF Measured
<1>2. Measured => BestIsTour
  BY DEF Measured
<1>3. (Typed /\ Walked /\ Measured) /\ [Next]_vars => (Typed /\ Walked /\ Measured)'
  BY TypedStep, WalkedStep, MeasuredStep
<1> QED
  BY TypedInit, WalkedInit, <1>1, <1>2, <1>3, PTL DEF Spec
=============================================================================
