--------------------------- MODULE UserEnvironment ---------------------------
(***************************************************************************)
(* The percepts of a Jason environment: UserEnvironment is called by the   *)
(* threads of the executor, on which actions change the percepts, while    *)
(* EnvironmentBean (stateful, so one call at a time) hands percepts out to *)
(* the agents.  Every list, map and set is synchronised by itself; what is *)
(* done to two of them is not.                                             *)
(*                                                                         *)
(* A method is the sequence of its synchronised statements; a statement    *)
(* may end the method early.                                               *)
(***************************************************************************)
EXTENDS Naturals, Sequences

CONSTANTS
  Agents,    \* names of the agents of the application
  Literals,  \* ground literals: the percepts
  Workers,   \* threads of the executor, which run the actions
  Methods    \* the methods that the actions call

None == "none"

ASSUME MethodsKnown ==
  Methods \subseteq {"addPercept", "removePercept", "removePerceptsByUnif", "clearPercepts",
                     "addAgPercept", "removeAgPercept", "removeAgPerceptsByUnif",
                     "clearAgPercepts", "clearAllPercepts"}
ASSUME NoneIsNobody == None \notin Workers \union Agents

Lists == Agents \X Workers   \* the personal lists of an agent, by their creator
Contents == [Literals -> Nat]   \* a list: how often each literal is in it
EmptyList == [p \in Literals |-> 0]

VARIABLES
  percepts,    \* UserEnvironment.percepts
  agPercepts,  \* UserEnvironment.agPercepts: who created the agent's list, or None
  lists,       \* the contents of the personal lists
  uptodateAgs, \* UserEnvironment.uptodateAgs
  work,        \* what each executor thread is doing
  read,        \* the getPercepts call in progress
  believes,    \* history: the percepts that an agent was given last
  overtaken    \* history: agents that were given theirs ahead of an announced change

store == <<percepts, agPercepts, lists>>
vars == <<store, uptodateAgs, work, read, believes, overtaken>>

\* A method in progress: the statements that are left, the literals it is
\* about, the agent it is about, who created the list it works on, and the
\* agents that clearAllPercepts has not come to.
Idle == [rest |-> <<>>, per |-> {}, ag |-> None, list |-> None, todo |-> {}]
NotReading == [rest |-> <<>>, ag |-> None, list |-> None, got |-> {}]

Init ==
  /\ percepts = EmptyList
  /\ agPercepts = [a \in Agents |-> None]
  /\ lists = [l \in Lists |-> EmptyList]
  /\ uptodateAgs = {}
  /\ work = [w \in Workers |-> Idle]
  /\ read = NotReading
  /\ believes = [a \in Agents |-> {}]
  /\ overtaken = {}

-----------------------------------------------------------------------------
(* The methods *)

\* Mutant: addPercept marks the agents before it adds.
MutAddPercept == <<"contains", "stale", "add">>

AddPercept == <<"contains", "add", "stale">>
RemovePercept == <<"stale", "remove">>

\* Mutant: removePerceptsByUnif forgets to mark the agents.
MutRemoveByUnif == <<"removeUnif">>

RemovePerceptsByUnif == <<"removeUnif", "stale">>
ClearPercepts == <<"notEmpty", "stale", "clear">>
AddAgPercept == <<"getOrCreate", "put", "containsOwn", "staleOwn", "addOwn">>
RemoveAgPercept == <<"get", "staleOwn", "removeOwn">>
RemoveAgPerceptsByUnif == <<"get", "removeUnifOwn", "staleOwn">>
ClearAgPercepts == <<"get", "staleOwn", "clearOwn">>
ClearAllPercepts == ClearPercepts \o <<"eachAgent">>

Program(method) ==
  CASE method = "addPercept" -> AddPercept
    [] method = "removePercept" -> RemovePercept
    [] method = "removePerceptsByUnif" -> RemovePerceptsByUnif
    [] method = "clearPercepts" -> ClearPercepts
    [] method = "addAgPercept" -> AddAgPercept
    [] method = "removeAgPercept" -> RemoveAgPercept
    [] method = "removeAgPerceptsByUnif" -> RemoveAgPerceptsByUnif
    [] method = "clearAgPercepts" -> ClearAgPercepts
    [] method = "clearAllPercepts" -> ClearAllPercepts

\* The literals in a list; a list after one of its methods.
In(l) == {p \in Literals : l[p] > 0}
Plus(l, ps) == [p \in Literals |-> IF p \in ps THEN l[p] + 1 ELSE l[p]]

\* Mutant: a literal is taken out of a list that does not hold it.
MutMinus(l, ps) == [p \in Literals |-> IF p \in ps THEN l[p] - 1 ELSE l[p]]

Minus(l, ps) == [p \in Literals |-> IF p \in ps /\ l[p] > 0 THEN l[p] - 1 ELSE l[p]]
Without(l, ps) == [p \in Literals |-> IF p \in ps THEN 0 ELSE l[p]]

-----------------------------------------------------------------------------
(* The executor's threads *)

\* An action calls a method.  One literal is added or removed at a time; a
\* literal with variables unifies with any set of them.
Call(w, method, a, ps) ==
  /\ work[w].rest = <<>>
  /\ method \notin {"removePerceptsByUnif", "removeAgPerceptsByUnif"} => \E p \in Literals : ps = {p}
  /\ work' = [work EXCEPT ![w] = [Idle EXCEPT !.rest = Program(method), !.ag = a,
                                              !.per = ps, !.todo = Agents]]
  /\ UNCHANGED <<store, uptodateAgs, read, believes, overtaken>>

At(w, statement) == work[w].rest # <<>> /\ Head(work[w].rest) = statement
GoOn(w) == work' = [work EXCEPT ![w].rest = Tail(@)]
Return(w) == work' = [work EXCEPT ![w] = Idle]
OwnList(w) == lists[<<work[w].ag, work[w].list>>]

\* percepts.contains, percepts.isEmpty and agl.contains.
Look(w) ==
  /\ \/ At(w, "contains") /\ IF work[w].per \subseteq In(percepts) THEN Return(w) ELSE GoOn(w)
     \/ At(w, "containsOwn") /\ IF work[w].per \subseteq In(OwnList(w)) THEN Return(w) ELSE GoOn(w)
     \/ /\ At(w, "notEmpty")
        /\ IF In(percepts) # {} THEN GoOn(w)
           ELSE work' = [work EXCEPT ![w].rest = SubSeq(@, 4, Len(@))]
  /\ UNCHANGED <<store, uptodateAgs, read, believes, overtaken>>

\* The synchronised block of removePerceptsByUnif counts what it removes.
ChangeGlobal(w) ==
  /\ \/ At(w, "add") /\ percepts' = Plus(percepts, work[w].per) /\ GoOn(w)
     \/ At(w, "remove") /\ percepts' = Minus(percepts, work[w].per) /\ GoOn(w)
     \/ At(w, "clear") /\ percepts' = EmptyList /\ GoOn(w)
     \/ /\ At(w, "removeUnif")
        /\ percepts' = Without(percepts, work[w].per)
        /\ IF percepts' = percepts THEN Return(w) ELSE GoOn(w)
  /\ UNCHANGED <<agPercepts, lists, uptodateAgs, read, believes, overtaken>>

SetOwn(w, l) ==
  /\ lists' = [lists EXCEPT ![<<work[w].ag, work[w].list>>] = l]
  /\ UNCHANGED <<percepts, agPercepts, uptodateAgs, read, believes, overtaken>>

ChangeOwn(w) ==
  \/ At(w, "addOwn") /\ SetOwn(w, Plus(OwnList(w), work[w].per)) /\ GoOn(w)
  \/ At(w, "removeOwn") /\ SetOwn(w, Minus(OwnList(w), work[w].per)) /\ GoOn(w)
  \/ At(w, "clearOwn") /\ SetOwn(w, EmptyList) /\ GoOn(w)
  \/ /\ At(w, "removeUnifOwn")
     /\ SetOwn(w, Without(OwnList(w), work[w].per))
     /\ IF lists' = lists THEN Return(w) ELSE GoOn(w)

\* agPercepts.get; addPercept creates the list that is missing.
FindList(w) ==
  /\ LET found == agPercepts[work[w].ag]
         next == Tail(work[w].rest)
     IN  \/ /\ At(w, "get")
            /\ IF found # None
               THEN work' = [work EXCEPT ![w].list = found, ![w].rest = next]
               ELSE Return(w)
         \/ /\ At(w, "getOrCreate")
            /\ IF found # None
               THEN work' = [work EXCEPT ![w].list = found, ![w].rest = Tail(next)]
               ELSE work' = [work EXCEPT ![w].list = w, ![w].rest = next]
  /\ UNCHANGED <<store, uptodateAgs, read, believes, overtaken>>

PutList(w) ==
  /\ At(w, "put")
  /\ agPercepts' = [agPercepts EXCEPT ![work[w].ag] = w]
  /\ GoOn(w)
  /\ UNCHANGED <<percepts, lists, uptodateAgs, read, believes, overtaken>>

MarkStale(w) ==
  /\ \/ At(w, "stale") /\ uptodateAgs' = {}
     \/ At(w, "staleOwn") /\ uptodateAgs' = uptodateAgs \ {work[w].ag}
  /\ GoOn(w)
  /\ UNCHANGED <<store, read, believes, overtaken>>

\* clearAllPercepts calls clearPercepts for the agents in the map.
NextAgent(w) ==
  /\ At(w, "eachAgent")
  /\ \/ work[w].todo = {} /\ Return(w)
     \/ \E a \in work[w].todo :
          LET listed == agPercepts[a] # None
          IN  work' = [work EXCEPT ![w].todo = @ \ {a}, ![w].ag = a, ![w].list = agPercepts[a],
                         ![w].rest = IF listed THEN Tail(ClearAgPercepts) \o @ ELSE @]
  /\ UNCHANGED <<store, uptodateAgs, read, believes, overtaken>>

-----------------------------------------------------------------------------
(* EnvironmentBean.getPercepts *)

\* An agent that is up to date is given null.
GetPercepts(a) ==
  /\ read.rest = <<>>
  /\ a \notin uptodateAgs
  /\ read' = [NotReading EXCEPT !.rest = <<"mark", "getOwn", "copy", "copyOwn">>, !.ag = a]
  /\ UNCHANGED <<store, uptodateAgs, work, believes, overtaken>>

Reading(statement) == read.rest # <<>> /\ Head(read.rest) = statement

\* A method has marked agent a and is still to change what a perceives.
Announced(a) ==
  \E w \in Workers :
    \/ At(w, "remove") \/ At(w, "clear")
    \/ (At(w, "addOwn") \/ At(w, "removeOwn") \/ At(w, "clearOwn")) /\ work[w].ag = a

MarkUpToDate ==
  /\ Reading("mark")
  /\ uptodateAgs' = uptodateAgs \union {read.ag}
  /\ overtaken' = IF Announced(read.ag) THEN overtaken \union {read.ag} ELSE overtaken \ {read.ag}
  /\ read' = [read EXCEPT !.rest = Tail(@)]
  /\ UNCHANGED <<store, work, believes>>

GetOwn ==
  /\ Reading("getOwn")
  /\ read' = [read EXCEPT !.rest = Tail(@), !.list = agPercepts[read.ag]]
  /\ UNCHANGED <<store, uptodateAgs, work, believes, overtaken>>

CopyGlobal ==
  /\ Reading("copy")
  /\ read' = [read EXCEPT !.rest = Tail(@), !.got = In(percepts)]
  /\ UNCHANGED <<store, uptodateAgs, work, believes, overtaken>>

CopyOwn ==
  /\ Reading("copyOwn")
  /\ LET own == IF read.list = None THEN {} ELSE In(lists[<<read.ag, read.list>>])
     IN  believes' = [believes EXCEPT ![read.ag] = read.got \union own]
  /\ read' = NotReading
  /\ UNCHANGED <<store, uptodateAgs, work, overtaken>>

-----------------------------------------------------------------------------
Step(w) ==
  \/ Look(w) \/ ChangeGlobal(w) \/ ChangeOwn(w)
  \/ FindList(w) \/ PutList(w) \/ MarkStale(w) \/ NextAgent(w)

Next ==
  \/ \E w \in Workers, m \in Methods, a \in Agents, ps \in SUBSET Literals : Call(w, m, a, ps)
  \/ \E w \in Workers : Step(w)
  \/ \E a \in Agents : GetPercepts(a)
  \/ MarkUpToDate \/ GetOwn \/ CopyGlobal \/ CopyOwn

Spec == Init /\ [][Next]_vars

-----------------------------------------------------------------------------
(* Properties *)

\* The lists, the map and the calls in progress keep their types; a list
\* never holds a negative number of a literal.
TypeOK ==
  /\ percepts \in Contents
  /\ agPercepts \in [Agents -> Workers \union {None}]
  /\ lists \in [Lists -> Contents]
  /\ uptodateAgs \subseteq Agents
  /\ \A w \in Workers : /\ work[w].per \subseteq Literals
                        /\ work[w].ag \in Agents \union {None}
                        /\ work[w].list \in Workers \union {None}
                        /\ work[w].todo \subseteq Agents
  /\ read.ag \in Agents \union {None}
  /\ read.list \in Workers \union {None}
  /\ read.got \subseteq Literals
  /\ believes \in [Agents -> SUBSET Literals]
  /\ overtaken \subseteq Agents

\* A thread has added literal p to the common list and not yet marked the
\* agents.
Announcing(p) == \E w \in Workers : At(w, "stale") /\ p \in work[w].per /\ Len(work[w].rest) = 1

\* No common percept is missed: an agent that is up to date and is not being
\* given its percepts knows of every common percept, whatever methods run
\* (addPercept adds first and marks afterwards).
NothingMissed ==
  \A a \in uptodateAgs : read.ag # a =>
    \A p \in In(percepts) : p \in believes[a] \/ Announcing(p)

\* What the agent's lists hold.
Perception(a) ==
  In(percepts) \union (IF agPercepts[a] = None THEN {} ELSE In(lists[<<a, agPercepts[a]>>]))

\* No call is in progress.
Quiet == read = NotReading /\ \A w \in Workers : work[w].rest = <<>>

\* When no call is in progress, an agent that is up to date was given exactly
\* what the environment holds for it: the comment on uptodateAgs.
UptodateIsLatest == Quiet => \A a \in uptodateAgs : believes[a] = Perception(a)

\* There is one way only to lose an update: the agent was given its percepts
\* after a method had marked it and before that method made its change.
StaleOnlyIfOvertaken ==
  Quiet => \A a \in uptodateAgs \ overtaken : believes[a] = Perception(a)
=============================================================================
