------------------------ MODULE UserEnvironmentProofs ------------------------
(* What holds of UserEnvironment for any agents, literals and threads.      *)
EXTENDS UserEnvironment, TLAPS

-----------------------------------------------------------------------------
(* The statements that a method has left *)

Statements ==
  {"contains", "add", "stale", "remove", "removeUnif", "notEmpty", "clear", "getOrCreate", "put",
   "containsOwn", "staleOwn", "addOwn", "get", "removeOwn", "removeUnifOwn", "clearOwn", "eachAgent"}

GlobalChanges == {"remove", "clear"}
OwnChanges == {"addOwn", "removeOwn", "clearOwn"}
OwnStatements == OwnChanges \union {"put", "containsOwn", "staleOwn", "removeUnifOwn"}

\* What comes after statement i of r, and what came before it.
Ahead(r, i) ==
  /\ r[i] = "add" => Len(r) = i + 1
  /\ r[i] \in {"add", "removeUnif"} => i < Len(r) /\ r[i + 1] = "stale"
  /\ r[i] = "getOrCreate" => i + 1 < Len(r) /\ r[i + 1] = "put"
  /\ r[i] = "put" => i < Len(r) /\ r[i + 1] = "containsOwn"
  /\ r[i] \in {"containsOwn", "removeUnifOwn"} => i < Len(r) /\ r[i + 1] = "staleOwn"
  /\ r[i] = "eachAgent" => i = Len(r)
Behind(r, i) ==
  /\ r[i] \in GlobalChanges => r[i - 1] = "stale"
  /\ r[i] \in OwnChanges => r[i - 1] = "staleOwn"
  /\ r[i] \in OwnStatements => r[i - 1] \in OwnStatements \union {"get", "getOrCreate"}
  /\ r[i] = "put" => r[i - 1] = "getOrCreate"
  /\ r[i] \notin {"getOrCreate", "notEmpty"}

Shape(r) ==
  /\ r \in Seq(Statements)
  /\ \A i \in 1..Len(r) : Ahead(r, i) /\ (i > 1 => Behind(r, i))
  /\ r # <<>> /\ r[1] = "notEmpty" => Len(r) = 3 \/ (Len(r) = 4 /\ r[4] = "eachAgent")

LEMMA TailShape ==
  ASSUME NEW r, Shape(r), r # <<>>
  PROVE  /\ Shape(Tail(r))
         /\ Len(Tail(r)) = Len(r) - 1
         /\ \A i \in 1..Len(Tail(r)) : Tail(r)[i] = r[i + 1]
<1> DEFINE t == Tail(r)
<1>1. /\ t \in Seq(Statements) /\ Len(t) = Len(r) - 1
      /\ \A i \in 1..Len(t) : t[i] = r[i + 1]
      /\ Len(r) \in Nat \ {0}
  BY DEF Shape
<1>2. t # <<>> => Len(t) > 0
  BY <1>1
<1> HIDE DEF t
<1>3. ASSUME NEW i \in 1..Len(t)
      PROVE  Ahead(t, i) /\ (i > 1 => Behind(t, i))
  <2>1. i + 1 \in 1..Len(r) /\ i + 1 > 1 /\ t[i] = r[i + 1] /\ i \in Nat \ {0}
    BY <1>1
  <2>2. Ahead(r, i + 1) /\ Behind(r, i + 1)
    BY <2>1 DEF Shape
  <2>3. i < Len(t) => t[i + 1] = r[i + 2]
    BY <1>1, <2>1
  <2>4. i > 1 => t[i - 1] = r[i]
    BY <1>1, <2>1
  <2>5. Ahead(t, i)
    BY <1>1, <2>1, <2>2, <2>3 DEF Ahead
  <2>6. i > 1 => Behind(t, i)
    BY <2>1, <2>2, <2>4 DEF Behind
  <2> QED
    BY <2>5, <2>6
<1>4. t # <<>> => t[1] # "notEmpty"
  <2>1. SUFFICES ASSUME t # <<>>
                 PROVE  t[1] # "notEmpty"
    OBVIOUS
  <2>2. 2 \in 1..Len(r) /\ t[1] = r[2]
    BY <1>1, <1>2, <2>1
  <2> QED
    BY <2>2 DEF Shape, Behind
<1>5. Shape(t)
  BY <1>1, <1>3, <1>4 DEF Shape
<1> QED
  BY <1>1, <1>5 DEF t

LEMMA ProgramShape ==
  ASSUME NEW m \in Methods
  PROVE  /\ Shape(Program(m)) /\ Program(m) # <<>>
         /\ Program(m)[1] \notin GlobalChanges \union OwnStatements
<1> DEFINE r == Program(m)
<1> SUFFICES Shape(r) /\ r # <<>> /\ r[1] \notin GlobalChanges \union OwnStatements
  OBVIOUS
<1>1. CASE m = "addPercept"
  <2>1. /\ r \in Seq(Statements) /\ Len(r) = 3
        /\ r[1] = "contains" /\ r[2] = "add" /\ r[3] = "stale"
    BY <1>1 DEF Program, AddPercept, Statements
  <2> HIDE DEF r
  <2>2. Ahead(r, 1) /\ Ahead(r, 2) /\ Behind(r, 2) /\ Ahead(r, 3) /\ Behind(r, 3)
    BY <2>1 DEF Ahead, Behind, GlobalChanges, OwnChanges, OwnStatements
  <2>3. \A i \in 1..Len(r) : i = 1 \/ i = 2 \/ i = 3
    BY <2>1
  <2> QED
    BY <2>1, <2>2, <2>3 DEF Shape, GlobalChanges, OwnChanges, OwnStatements
<1>2. CASE m = "removePercept"
  <2>1. /\ r \in Seq(Statements) /\ Len(r) = 2
        /\ r[1] = "stale" /\ r[2] = "remove"
    BY <1>2 DEF Program, RemovePercept, Statements
  <2> HIDE DEF r
  <2>2. Ahead(r, 1) /\ Ahead(r, 2) /\ Behind(r, 2)
    BY <2>1 DEF Ahead, Behind, GlobalChanges, OwnChanges, OwnStatements
  <2>3. \A i \in 1..Len(r) : i = 1 \/ i = 2
    BY <2>1
  <2> QED
    BY <2>1, <2>2, <2>3 DEF Shape, GlobalChanges, OwnChanges, OwnStatements
<1>3. CASE m = "removePerceptsByUnif"
  <2>1. /\ r \in Seq(Statements) /\ Len(r) = 2
        /\ r[1] = "removeUnif" /\ r[2] = "stale"
    BY <1>3 DEF Program, RemovePerceptsByUnif, Statements
  <2> HIDE DEF r
  <2>2. Ahead(r, 1) /\ Ahead(r, 2) /\ Behind(r, 2)
    BY <2>1 DEF Ahead, Behind, GlobalChanges, OwnChanges, OwnStatements
  <2>3. \A i \in 1..Len(r) : i = 1 \/ i = 2
    BY <2>1
  <2> QED
    BY <2>1, <2>2, <2>3 DEF Shape, GlobalChanges, OwnChanges, OwnStatements
<1>4. CASE m = "clearPercepts"
  <2>1. /\ r \in Seq(Statements) /\ Len(r) = 3
        /\ r[1] = "notEmpty" /\ r[2] = "stale" /\ r[3] = "clear"
    BY <1>4 DEF Program, ClearPercepts, Statements
  <2> HIDE DEF r
  <2>2. Ahead(r, 1) /\ Ahead(r, 2) /\ Behind(r, 2) /\ Ahead(r, 3) /\ Behind(r, 3)
    BY <2>1 DEF Ahead, Behind, GlobalChanges, OwnChanges, OwnStatements
  <2>3. \A i \in 1..Len(r) : i = 1 \/ i = 2 \/ i = 3
    BY <2>1
  <2> QED
    BY <2>1, <2>2, <2>3 DEF Shape, GlobalChanges, OwnChanges, OwnStatements
<1>5. CASE m = "addAgPercept"
  <2>1. /\ r \in Seq(Statements) /\ Len(r) = 5
        /\ r[1] = "getOrCreate" /\ r[2] = "put" /\ r[3] = "containsOwn" /\ r[4] = "staleOwn" /\ r[5] = "addOwn"
    BY <1>5 DEF Program, AddAgPercept, Statements
  <2> HIDE DEF r
  <2>2. Ahead(r, 1) /\ Ahead(r, 2) /\ Behind(r, 2) /\ Ahead(r, 3) /\ Behind(r, 3) /\ Ahead(r, 4) /\ Behind(r, 4) /\ Ahead(r, 5) /\ Behind(r, 5)
    BY <2>1 DEF Ahead, Behind, GlobalChanges, OwnChanges, OwnStatements
  <2>3. \A i \in 1..Len(r) : i = 1 \/ i = 2 \/ i = 3 \/ i = 4 \/ i = 5
    BY <2>1
  <2> QED
    BY <2>1, <2>2, <2>3 DEF Shape, GlobalChanges, OwnChanges, OwnStatements
<1>6. CASE m = "removeAgPercept"
  <2>1. /\ r \in Seq(Statements) /\ Len(r) = 3
        /\ r[1] = "get" /\ r[2] = "staleOwn" /\ r[3] = "removeOwn"
    BY <1>6 DEF Program, RemoveAgPercept, Statements
  <2> HIDE DEF r
  <2>2. Ahead(r, 1) /\ Ahead(r, 2) /\ Behind(r, 2) /\ Ahead(r, 3) /\ Behind(r, 3)
    BY <2>1 DEF Ahead, Behind, GlobalChanges, OwnChanges, OwnStatements
  <2>3. \A i \in 1..Len(r) : i = 1 \/ i = 2 \/ i = 3
    BY <2>1
  <2> QED
    BY <2>1, <2>2, <2>3 DEF Shape, GlobalChanges, OwnChanges, OwnStatements
<1>7. CASE m = "removeAgPerceptsByUnif"
  <2>1. /\ r \in Seq(Statements) /\ Len(r) = 3
        /\ r[1] = "get" /\ r[2] = "removeUnifOwn" /\ r[3] = "staleOwn"
    BY <1>7 DEF Program, RemoveAgPerceptsByUnif, Statements
  <2> HIDE DEF r
  <2>2. Ahead(r, 1) /\ Ahead(r, 2) /\ Behind(r, 2) /\ Ahead(r, 3) /\ Behind(r, 3)
    BY <2>1 DEF Ahead, Behind, GlobalChanges, OwnChanges, OwnStatements
  <2>3. \A i \in 1..Len(r) : i = 1 \/ i = 2 \/ i = 3
    BY <2>1
  <2> QED
    BY <2>1, <2>2, <2>3 DEF Shape, GlobalChanges, OwnChanges, OwnStatements
<1>8. CASE m = "clearAgPercepts"
  <2>1. /\ r \in Seq(Statements) /\ Len(r) = 3
        /\ r[1] = "get" /\ r[2] = "staleOwn" /\ r[3] = "clearOwn"
    BY <1>8 DEF Program, ClearAgPercepts, Statements
  <2> HIDE DEF r
  <2>2. Ahead(r, 1) /\ Ahead(r, 2) /\ Behind(r, 2) /\ Ahead(r, 3) /\ Behind(r, 3)
    BY <2>1 DEF Ahead, Behind, GlobalChanges, OwnChanges, OwnStatements
  <2>3. \A i \in 1..Len(r) : i = 1 \/ i = 2 \/ i = 3
    BY <2>1
  <2> QED
    BY <2>1, <2>2, <2>3 DEF Shape, GlobalChanges, OwnChanges, OwnStatements
<1>9. CASE m = "clearAllPercepts"
  <2>1. /\ r \in Seq(Statements) /\ Len(r) = 4
        /\ r[1] = "notEmpty" /\ r[2] = "stale" /\ r[3] = "clear" /\ r[4] = "eachAgent"
    BY <1>9 DEF Program, ClearAllPercepts, ClearPercepts, Statements
  <2> HIDE DEF r
  <2>2. Ahead(r, 1) /\ Ahead(r, 2) /\ Behind(r, 2) /\ Ahead(r, 3) /\ Behind(r, 3) /\ Ahead(r, 4) /\ Behind(r, 4)
    BY <2>1 DEF Ahead, Behind, GlobalChanges, OwnChanges, OwnStatements
  <2>3. \A i \in 1..Len(r) : i = 1 \/ i = 2 \/ i = 3 \/ i = 4
    BY <2>1
  <2> QED
    BY <2>1, <2>2, <2>3 DEF Shape, GlobalChanges, OwnChanges, OwnStatements
<1> QED
  BY <1>1, <1>2, <1>3, <1>4, <1>5, <1>6, <1>7, <1>8, <1>9, MethodsKnown

-----------------------------------------------------------------------------
(* The invariants *)

Active(w) == work[w].rest # <<>>

\* A thread's method: it is about an agent, and has the agent's list where the
\* next statement is about that.
WorkOK(t) ==
  /\ t \in [rest : Seq(Statements), per : SUBSET Literals, ag : Agents \union {None},
            list : Workers \union {None}, todo : SUBSET Agents]
  /\ Shape(t.rest)
  /\ t.rest # <<>> =>
       /\ t.ag \in Agents
       /\ t.rest[1] \in OwnStatements => t.list \in Workers
       /\ t.rest[1] \in {"getOrCreate", "put"} => t.per # {}

ReadOK ==
  /\ read \in [rest : {<<>>, <<"mark", "getOwn", "copy", "copyOwn">>, <<"getOwn", "copy", "copyOwn">>,
                        <<"copy", "copyOwn">>, <<"copyOwn">>},
               ag : Agents \union {None}, list : Workers \union {None}, got : SUBSET Literals]
  /\ read.rest = <<>> => read = NotReading
  /\ read.rest # <<>> => read.ag \in Agents
  /\ Reading("mark") => read.ag \notin uptodateAgs

StoreOK ==
  /\ percepts \in Contents
  /\ agPercepts \in [Agents -> Workers \union {None}]
  /\ lists \in [Lists -> Contents]
  /\ uptodateAgs \subseteq Agents
  /\ believes \in [Agents -> SUBSET Literals]
  /\ overtaken \subseteq Agents

Typed ==
  /\ StoreOK
  /\ ReadOK
  /\ DOMAIN work = Workers
  /\ \A w \in Workers : WorkOK(work[w])

\* The common percepts that agent a, up to date, was given or is given now.
Known(a) == IF read.ag = a THEN read.got ELSE believes[a]
Informed ==
  \A a \in uptodateAgs : read.ag # a \/ Reading("copyOwn") =>
    \A p \in In(percepts) : p \in Known(a) \/ Announcing(p)

\* A list that agPercepts does not refer to yet is empty, and nobody else
\* works on it.
Unused(a, v) ==
  /\ lists[<<a, v>>] = EmptyList
  /\ agPercepts[a] # v
  /\ \A w \in Workers \ {v} : Active(w) => ~(work[w].ag = a /\ work[w].list = v)
ListsOK ==
  /\ \A a \in Agents : agPercepts[a] = None =>
       \A v \in Workers :
         /\ Unused(a, v)
         /\ Active(v) /\ work[v].ag = a /\ work[v].list = v => At(v, "put")
  /\ \A v \in Workers : At(v, "put") => work[v].list = v /\ Unused(work[v].ag, v)

\* Between a mark and the change that it announces, an agent is up to date
\* only if it was given its percepts in between.
AnnouncedOK == \A a \in uptodateAgs : Announced(a) => a \in overtaken

\* The next statement of thread w, or the one after it, marks agent a.
Marks(w, a) ==
  \/ At(w, "stale")
  \/ /\ work[w].ag = a
     /\ \/ At(w, "staleOwn")
        \/ At(w, "containsOwn") /\ ~(work[w].per \subseteq In(OwnList(w)))
Due(a) == \E w \in Workers : Marks(w, a)

\* What an agent that is up to date was given, or is given now, is what the
\* environment holds, or it is about to be marked.
Latest ==
  \A a \in uptodateAgs \ overtaken :
    \/ Due(a)
    \/ read.ag # a /\ believes[a] = Perception(a)
    \/ /\ read.ag = a
       /\ Reading("copy") \/ Reading("copyOwn") => read.list = agPercepts[a]
       /\ Reading("copyOwn") => read.got = In(percepts)

Inv == Typed /\ Informed /\ ListsOK /\ AnnouncedOK /\ Latest
-----------------------------------------------------------------------------
(* What a statement leaves behind *)

LEMMA AfterHead ==
  ASSUME NEW r, Shape(r), r # <<>>
  PROVE  /\ Head(r) \in {"add", "removeUnif"} => Tail(r) # <<>> /\ Head(Tail(r)) = "stale"
         /\ Head(r) = "add" => Len(Tail(r)) = 1
         /\ Head(r) = "getOrCreate" =>
              /\ Tail(r) # <<>> /\ Head(Tail(r)) = "put"
              /\ Tail(Tail(r)) # <<>> /\ Head(Tail(Tail(r))) = "containsOwn"
         /\ Head(r) = "put" => Tail(r) # <<>> /\ Head(Tail(r)) = "containsOwn"
         /\ Head(r) \in {"containsOwn", "removeUnifOwn"} => Tail(r) # <<>> /\ Head(Tail(r)) = "staleOwn"
         /\ Head(r) = "eachAgent" => r = <<"eachAgent">> /\ Tail(r) = <<>>
<1>1. r \in Seq(Statements) /\ Len(r) \in Nat \ {0} /\ 1 \in 1..Len(r) /\ Head(r) = r[1]
  BY DEF Shape
<1>2. /\ Len(Tail(r)) = Len(r) - 1 /\ Tail(r) \in Seq(Statements)
      /\ \A i \in 1..Len(Tail(r)) : Tail(r)[i] = r[i + 1]
  BY TailShape DEF Shape
<1>3. Ahead(r, 1)
  BY <1>1 DEF Shape
<1>4. Len(r) > 1 => Tail(r) # <<>> /\ Head(Tail(r)) = r[2]
  <2> DEFINE t == Tail(r)
  <2>1. /\ Len(t) = Len(r) - 1 /\ t \in Seq(Statements)
        /\ \A i \in 1..Len(t) : t[i] = r[i + 1]
    BY <1>2
  <2> HIDE DEF t
  <2>2. Len(r) > 1 => t[1] = r[2]
    BY <1>1, <2>1
  <2>3. Len(r) > 1 => t # <<>> /\ Head(t) = t[1]
    BY <1>1, <2>1
  <2> QED
    BY <2>2, <2>3 DEF t
<1>5. CASE Head(r) = "getOrCreate"
  <2>1. Tail(r) # <<>> /\ Head(Tail(r)) = "put" /\ Len(r) > 2
    BY <1>1, <1>3, <1>4, <1>5 DEF Ahead
  <2>2. Ahead(r, 2)
    BY <2>1, <1>1 DEF Shape
  <2>3. r[3] = "containsOwn"
    BY <1>1, <1>3, <1>5, <2>2 DEF Ahead
  <2>4. Tail(Tail(r)) # <<>> /\ Head(Tail(Tail(r))) = Tail(r)[2]
    BY <1>2, <2>1
  <2> QED
    BY <1>1, <1>2, <1>5, <2>1, <2>3, <2>4
<1>6. CASE Head(r) = "eachAgent"
  <2>1. Len(r) = 1 /\ r[1] = "eachAgent"
    BY <1>1, <1>3, <1>6 DEF Ahead
  <2>2. r = <<"eachAgent">>
    BY <1>1, <2>1
  <2> QED
    BY <1>6, <2>2
<1>7. CASE Head(r) \notin {"getOrCreate", "eachAgent"}
  <2>1. /\ r[1] \in {"add", "removeUnif"} => Len(r) > 1 /\ r[2] = "stale"
        /\ r[1] = "put" => Len(r) > 1 /\ r[2] = "containsOwn"
        /\ r[1] \in {"containsOwn", "removeUnifOwn"} => Len(r) > 1 /\ r[2] = "staleOwn"
        /\ r[1] = "add" => Len(r) = 2
    BY <1>1, <1>3 DEF Ahead
  <2>2. Len(r) = 2 => Len(Tail(r)) = 1
    BY <1>2
  <2> HIDE <1>2, <1>3
  <2> QED
    BY <1>1, <1>4, <1>7, <2>1, <2>2
<1> QED
  BY <1>5, <1>6, <1>7

LEMMA BeforeHead ==
  ASSUME NEW r, Shape(r), r # <<>>, Tail(r) # <<>>
  PROVE  /\ Head(Tail(r)) \in GlobalChanges => Head(r) = "stale"
         /\ Head(Tail(r)) \in OwnChanges => Head(r) = "staleOwn"
         /\ Head(Tail(r)) \in OwnStatements => Head(r) \in OwnStatements \union {"get", "getOrCreate"}
         /\ Head(Tail(r)) = "put" => Head(r) = "getOrCreate"
         /\ Head(Tail(r)) \notin {"getOrCreate", "notEmpty"}
<1>1. r \in Seq(Statements) /\ Len(r) \in Nat \ {0} /\ Head(r) = r[1]
  BY DEF Shape
<1>2. 2 \in 1..Len(r) /\ Head(Tail(r)) = r[2]
  <2>1. /\ Len(Tail(r)) = Len(r) - 1 /\ Tail(r) \in Seq(Statements)
        /\ \A i \in 1..Len(Tail(r)) : Tail(r)[i] = r[i + 1]
    BY TailShape DEF Shape
  <2>2. Len(Tail(r)) > 0
    BY <2>1
  <2> QED
    BY <1>1, <2>1, <2>2
<1>3. Behind(r, 2)
  BY <1>2 DEF Shape
<1> QED
  BY <1>1, <1>2, <1>3 DEF Behind

\* clearPercepts returns when there are no common percepts, clearAllPercepts
\* goes on with the agents.
LEMMA NothingToClear ==
  ASSUME NEW r, Shape(r), r # <<>>, Head(r) = "notEmpty"
  PROVE  LET s == SubSeq(r, 4, Len(r)) IN
         Shape(s) /\ (s # <<>> => Head(s) = "eachAgent")
<1> DEFINE s == SubSeq(r, 4, Len(r))
<1>1. r \in Seq(Statements) /\ r[1] = "notEmpty"
  BY DEF Shape
<1>2. CASE Len(r) = 3
  <2>1. s \in Seq(Statements) /\ Len(s) = 0
    BY <1>1, <1>2
  <2> HIDE DEF s
  <2>2. Shape(s) /\ s = <<>>
    BY <2>1 DEF Shape
  <2> QED
    BY <2>2 DEF s
<1>3. CASE Len(r) = 4 /\ r[4] = "eachAgent"
  <2>1. s \in Seq(Statements) /\ Len(s) = 1 /\ s[1] = "eachAgent"
    BY <1>1, <1>3
  <2> HIDE DEF s
  <2>2. Ahead(s, 1)
    BY <2>1 DEF Ahead
  <2>3. Shape(s)
    BY <2>1, <2>2 DEF Shape
  <2> QED
    BY <2>1, <2>3 DEF s
<1> QED
  BY <1>1, <1>2, <1>3 DEF Shape

LEMMA ClearFirst ==
  LET s == Tail(ClearAgPercepts) \o <<"eachAgent">> IN
  Shape(s) /\ s # <<>> /\ Head(s) = "staleOwn"
<1> DEFINE s == Tail(ClearAgPercepts) \o <<"eachAgent">>
<1>1. /\ s \in Seq(Statements) /\ Len(s) = 3
      /\ s[1] = "staleOwn" /\ s[2] = "clearOwn" /\ s[3] = "eachAgent"
  BY DEF ClearAgPercepts, Statements
<1> HIDE DEF s
<1>2. Ahead(s, 1) /\ Ahead(s, 2) /\ Behind(s, 2) /\ Ahead(s, 3) /\ Behind(s, 3)
  BY <1>1 DEF Ahead, Behind, GlobalChanges, OwnChanges, OwnStatements
<1>3. \A i \in 1..Len(s) : i = 1 \/ i = 2 \/ i = 3
  BY <1>1
<1>4. Shape(s)
  BY <1>1, <1>2, <1>3 DEF Shape
<1> QED
  BY <1>1, <1>4 DEF s

LEMMA IdleOK == WorkOK(Idle)
BY DEF WorkOK, Idle, Shape

LEMMA GoOnOK ==
  ASSUME NEW t, WorkOK(t), t.rest # <<>>, Head(t.rest) \notin {"get", "getOrCreate"}
  PROVE  WorkOK([t EXCEPT !.rest = Tail(@)])
<1>1. Shape(t.rest) /\ t.rest \in Seq(Statements) /\ Head(t.rest) = t.rest[1]
  BY DEF WorkOK
<1>2. Shape(Tail(t.rest)) /\ Tail(t.rest) \in Seq(Statements)
  BY <1>1, TailShape DEF Shape
<1>3. Tail(t.rest) # <<>> => /\ Tail(t.rest)[1] \in OwnStatements => t.rest[1] \in OwnStatements
                            /\ Tail(t.rest)[1] \notin {"getOrCreate", "put"}
  BY <1>1, <1>2, BeforeHead
<1> QED
  BY <1>1, <1>2, <1>3 DEF WorkOK
LEMMA ListTypes ==
  ASSUME NEW l \in Contents, NEW ps \in SUBSET Literals
  PROVE  /\ EmptyList \in Contents /\ Plus(l, ps) \in Contents
         /\ Minus(l, ps) \in Contents /\ Without(l, ps) \in Contents
         /\ In(EmptyList) = {} /\ In(Plus(l, ps)) = In(l) \union ps
BY DEF Contents, EmptyList, Plus, Minus, Without, In

LEMMA OwnListType ==
  ASSUME Typed, NEW w \in Workers, Active(w), Head(work[w].rest) \in OwnStatements
  PROVE  /\ work[w].ag \in Agents /\ work[w].list \in Workers /\ OwnList(w) \in Contents
         /\ work[w].per \in SUBSET Literals
BY DEF Typed, WorkOK, StoreOK, Active, OwnList, Lists

\* A step of thread w moves this thread only.
Alone(w) ==
  /\ DOMAIN work' = Workers
  /\ \A v \in Workers \ {w} : work'[v] = work[v]
  /\ WorkOK(work'[w])
  /\ StoreOK'
  /\ uptodateAgs' \subseteq uptodateAgs
  /\ UNCHANGED <<read, believes, overtaken>>

LEMMA Going ==
  ASSUME Typed, NEW w \in Workers, Active(w), GoOn(w),
         Head(work[w].rest) \notin {"get", "getOrCreate"}
  PROVE  /\ work' = [work EXCEPT ![w] = [work[w] EXCEPT !.rest = Tail(@)]]
         /\ WorkOK(work'[w]) /\ DOMAIN work' = Workers
         /\ \A v \in Workers \ {w} : work'[v] = work[v]
         /\ work'[w].rest = Tail(work[w].rest)
         /\ work'[w].ag = work[w].ag /\ work'[w].per = work[w].per /\ work'[w].list = work[w].list
<1>1. WorkOK(work[w]) /\ work[w].rest # <<>> /\ DOMAIN work = Workers
  BY DEF Typed, Active
<1>2. WorkOK([work[w] EXCEPT !.rest = Tail(@)])
  BY <1>1, GoOnOK
<1>3. work' = [work EXCEPT ![w] = [work[w] EXCEPT !.rest = Tail(@)]]
  BY DEF GoOn
<1> QED
  BY <1>1, <1>2, <1>3 DEF WorkOK

LEMMA Returning ==
  ASSUME Typed, NEW w \in Workers, Return(w)
  PROVE  /\ WorkOK(work'[w]) /\ DOMAIN work' = Workers
         /\ \A v \in Workers \ {w} : work'[v] = work[v]
         /\ work'[w] = Idle /\ work'[w].rest = <<>>
BY IdleOK DEF Typed, Return, Idle

LEMMA LookAlone ==
  ASSUME Typed, NEW w \in Workers, Look(w)
  PROVE  Alone(w)
<1>1. UNCHANGED <<store, uptodateAgs, read, believes, overtaken>> /\ StoreOK
  BY DEF Look, Typed
<1>2. StoreOK'
  BY <1>1 DEF StoreOK, store, Contents, Lists
<1>3. CASE Return(w)
  BY <1>1, <1>2, <1>3, Returning DEF Alone
<1>4. CASE GoOn(w) /\ Active(w) /\ Head(work[w].rest) \notin {"get", "getOrCreate"}
  BY <1>1, <1>2, <1>4, Going DEF Alone
<1>5. CASE At(w, "notEmpty") /\ work' = [work EXCEPT ![w].rest = SubSeq(@, 4, Len(@))]
  <2> DEFINE s == SubSeq(work[w].rest, 4, Len(work[w].rest))
  <2>1. WorkOK(work[w]) /\ DOMAIN work = Workers
    BY DEF Typed
  <2>2. Shape(s) /\ (s # <<>> => Head(s) = "eachAgent")
    BY <1>5, <2>1, NothingToClear DEF At, WorkOK
  <2>3. s \in Seq(Statements) /\ (s # <<>> => s[1] = "eachAgent")
    BY <2>2 DEF Shape
  <2>4. work' = [work EXCEPT ![w] = [work[w] EXCEPT !.rest = s]]
    BY <1>5
  <2> HIDE DEF s
  <2>5. WorkOK([work[w] EXCEPT !.rest = s])
    BY <1>5, <2>1, <2>2, <2>3 DEF WorkOK, OwnStatements, OwnChanges, At
  <2>6. work'[w] = [work[w] EXCEPT !.rest = s] /\ DOMAIN work' = Workers
        /\ \A v \in Workers \ {w} : work'[v] = work[v]
    BY <2>1, <2>4
  <2> QED
    BY <1>1, <1>2, <2>5, <2>6 DEF Alone
<1> QED
  BY <1>3, <1>4, <1>5 DEF Look, At, Active

LEMMA GlobalAlone ==
  ASSUME Typed, NEW w \in Workers, ChangeGlobal(w)
  PROVE  Alone(w)
<1>1. UNCHANGED <<agPercepts, lists, uptodateAgs, read, believes, overtaken>> /\ StoreOK
  BY DEF ChangeGlobal, Typed
<1>2. percepts' \in Contents
  <2>1. percepts \in Contents /\ work[w].per \in SUBSET Literals
    BY DEF Typed, StoreOK, WorkOK
  <2> QED
    BY <2>1, ListTypes DEF ChangeGlobal
<1>3. StoreOK'
  BY <1>1, <1>2 DEF StoreOK, Contents, Lists
<1>4. CASE Return(w)
  BY <1>1, <1>3, <1>4, Returning DEF Alone
<1>5. CASE GoOn(w)
  <2>1. Active(w) /\ Head(work[w].rest) \notin {"get", "getOrCreate"}
    BY DEF ChangeGlobal, At, Active
  <2> QED
    BY <1>1, <1>3, <1>5, <2>1, Going DEF Alone
<1> QED
  BY <1>4, <1>5 DEF ChangeGlobal

LEMMA OwnAlone ==
  ASSUME Typed, NEW w \in Workers, ChangeOwn(w)
  PROVE  Alone(w)
<1>1. UNCHANGED <<percepts, agPercepts, uptodateAgs, read, believes, overtaken>> /\ StoreOK
  BY DEF ChangeOwn, SetOwn, Typed
<1>2. /\ Active(w) /\ Head(work[w].rest) \in OwnStatements
      /\ Head(work[w].rest) \notin {"get", "getOrCreate"}
  BY DEF ChangeOwn, At, Active, OwnStatements, OwnChanges
<1>3. lists' \in [Lists -> Contents]
  <2>1. /\ work[w].ag \in Agents /\ work[w].list \in Workers /\ OwnList(w) \in Contents
        /\ work[w].per \in SUBSET Literals
    BY <1>2, OwnListType
  <2>2. \E l \in Contents : lists' = [lists EXCEPT ![<<work[w].ag, work[w].list>>] = l]
    BY <2>1, ListTypes DEF ChangeOwn, SetOwn
  <2> QED
    BY <1>1, <2>1, <2>2 DEF StoreOK, Lists
<1>4. StoreOK'
  BY <1>1, <1>3 DEF StoreOK, Contents, Lists
<1>5. CASE Return(w)
  BY <1>1, <1>4, <1>5, Returning DEF Alone
<1>6. CASE GoOn(w)
  BY <1>1, <1>2, <1>4, <1>6, Going DEF Alone
<1> QED
  BY <1>5, <1>6 DEF ChangeOwn
\* The thread has found the agent's list, or creates it, or there is none.
LEMMA FindEffect ==
  ASSUME Typed, NEW w \in Workers, FindList(w)
  PROVE  LET found == agPercepts[work[w].ag] IN
         /\ Alone(w)
         /\ UNCHANGED <<percepts, agPercepts, lists, uptodateAgs>>
         /\ work[w].ag \in Agents
         /\ \/ work'[w] = Idle
            \/ /\ work'[w].ag = work[w].ag /\ work'[w].list = found /\ found # None
               /\ ~At(w, "put")'
            \/ /\ work'[w].ag = work[w].ag /\ work'[w].list = w /\ found = None
               /\ At(w, "put")'
         /\ \A st \in GlobalChanges \union OwnChanges : ~At(w, st)'
<1> DEFINE found == agPercepts[work[w].ag]
           r == work[w].rest
<1>1. /\ WorkOK(work[w]) /\ DOMAIN work = Workers /\ StoreOK
      /\ r # <<>> /\ Head(r) = r[1] /\ Head(r) \in {"get", "getOrCreate"} /\ Shape(r)
      /\ work[w].ag \in Agents /\ found \in Workers \union {None}
  BY DEF Typed, WorkOK, StoreOK, FindList, At, Shape
<1>2. UNCHANGED <<store, uptodateAgs, read, believes, overtaken>>
  BY DEF FindList
<1>3. StoreOK'
  BY <1>1, <1>2 DEF StoreOK, store, Contents, Lists
<1>4. Shape(Tail(r)) /\ (Tail(r) # <<>> => Shape(Tail(Tail(r))))
  BY <1>1, TailShape
<1>5. CASE Return(w)
  <2>1. Alone(w)
    BY <1>2, <1>3, <1>5, Returning DEF Alone
  <2>2. work'[w] = Idle /\ \A st \in GlobalChanges \union OwnChanges : ~At(w, st)'
    BY <1>5, Returning DEF At
  <2> QED
    BY <1>1, <1>2, <2>1, <2>2 DEF store
<1>6. CASE At(w, "get") /\ found # None /\ work' = [work EXCEPT ![w].list = found, ![w].rest = Tail(r)]
  <2>1. /\ work'[w] = [work[w] EXCEPT !.list = found, !.rest = Tail(r)]
        /\ DOMAIN work' = Workers /\ \A v \in Workers \ {w} : work'[v] = work[v]
    BY <1>1, <1>6
  <2>2. Tail(r) # <<>> =>
          /\ Head(Tail(r)) = Tail(r)[1]
          /\ Head(Tail(r)) \notin GlobalChanges \union OwnChanges \union {"put", "getOrCreate"}
    BY <1>1, <1>4, <1>6, BeforeHead DEF At, Shape
  <2>3. /\ work'[w].rest = Tail(r) /\ work'[w].ag = work[w].ag /\ work'[w].list = found
        /\ WorkOK(work'[w])
    BY <1>1, <1>4, <1>6, <2>1, <2>2 DEF WorkOK, Shape
  <2>4. ~At(w, "put")' /\ \A st \in GlobalChanges \union OwnChanges : ~At(w, st)'
    BY <2>2, <2>3 DEF At
  <2> QED
    BY <1>1, <1>2, <1>3, <1>6, <2>1, <2>3, <2>4 DEF Alone, store
<1>7. CASE At(w, "getOrCreate") /\ found # None
           /\ work' = [work EXCEPT ![w].list = found, ![w].rest = Tail(Tail(r))]
  <2>1. /\ work'[w] = [work[w] EXCEPT !.list = found, !.rest = Tail(Tail(r))]
        /\ DOMAIN work' = Workers /\ \A v \in Workers \ {w} : work'[v] = work[v]
    BY <1>1, <1>7
  <2>2. Tail(r) # <<>> /\ Tail(Tail(r)) # <<>> /\ Head(Tail(Tail(r))) = "containsOwn"
    BY <1>1, <1>7, AfterHead DEF At
  <2>3. Shape(Tail(Tail(r))) /\ Tail(Tail(r))[1] = "containsOwn"
    <3> DEFINE s == Tail(Tail(r))
    <3>1. Shape(s) /\ Head(s) = "containsOwn"
      BY <1>4, <2>2
    <3> HIDE DEF s
    <3>2. s \in Seq(Statements) /\ Head(s) = s[1]
      BY <3>1 DEF Shape
    <3> QED
      BY <3>1, <3>2 DEF s
  <2>4. /\ work'[w].rest = Tail(Tail(r)) /\ work'[w].ag = work[w].ag /\ work'[w].list = found
        /\ WorkOK(work'[w])
    BY <1>1, <1>7, <2>1, <2>2, <2>3 DEF WorkOK, Shape
  <2>5. ~At(w, "put")' /\ \A st \in GlobalChanges \union OwnChanges : ~At(w, st)'
    BY <2>2, <2>4 DEF At, GlobalChanges, OwnChanges
  <2> QED
    BY <1>1, <1>2, <1>3, <1>7, <2>1, <2>4, <2>5 DEF Alone, store
<1>8. CASE At(w, "getOrCreate") /\ found = None
           /\ work' = [work EXCEPT ![w].list = w, ![w].rest = Tail(r)]
  <2>1. /\ work'[w] = [work[w] EXCEPT !.list = w, !.rest = Tail(r)]
        /\ DOMAIN work' = Workers /\ \A v \in Workers \ {w} : work'[v] = work[v]
    BY <1>1, <1>8
  <2>2. Tail(r) # <<>> /\ Head(Tail(r)) = "put" /\ Tail(r)[1] = "put"
    BY <1>1, <1>4, <1>8, AfterHead DEF At, Shape
  <2>3. /\ work'[w].rest = Tail(r) /\ work'[w].ag = work[w].ag /\ work'[w].list = w
        /\ WorkOK(work'[w])
    <3>1. work[w].per # {}
      BY <1>1, <1>8 DEF WorkOK, At
    <3> QED
      BY <1>1, <1>4, <1>8, <2>1, <2>2, <3>1 DEF WorkOK, Shape
  <2>4. At(w, "put")' /\ \A st \in GlobalChanges \union OwnChanges : ~At(w, st)'
    BY <2>2, <2>3 DEF At, GlobalChanges, OwnChanges
  <2> QED
    BY <1>1, <1>2, <1>3, <1>8, <2>1, <2>3, <2>4 DEF Alone, store
<1> QED
  BY <1>5, <1>6, <1>7, <1>8 DEF FindList

LEMMA PutAlone ==
  ASSUME Typed, NEW w \in Workers, PutList(w)
  PROVE  Alone(w)
<1>1. Active(w) /\ Head(work[w].rest) = "put" /\ GoOn(w) /\ StoreOK
  BY DEF PutList, At, Active, Typed
<1>2. /\ UNCHANGED <<percepts, lists, uptodateAgs, read, believes, overtaken>>
      /\ agPercepts' \in [Agents -> Workers \union {None}]
  BY <1>1 DEF PutList, StoreOK
<1>3. StoreOK'
  BY <1>1, <1>2 DEF StoreOK, Contents, Lists
<1> QED
  BY <1>1, <1>2, <1>3, Going DEF Alone

LEMMA MarkAlone ==
  ASSUME Typed, NEW w \in Workers, MarkStale(w)
  PROVE  Alone(w)
<1>1. Active(w) /\ Head(work[w].rest) \in {"stale", "staleOwn"} /\ GoOn(w) /\ StoreOK
  BY DEF MarkStale, At, Active, Typed
<1>2. UNCHANGED <<store, read, believes, overtaken>> /\ uptodateAgs' \subseteq uptodateAgs
  BY DEF MarkStale
<1>3. StoreOK'
  BY <1>1, <1>2 DEF StoreOK, store, Contents, Lists
<1> QED
  BY <1>1, <1>2, <1>3, Going DEF Alone

LEMMA NextAgentEffect ==
  ASSUME Typed, NEW w \in Workers, NextAgent(w)
  PROVE  /\ Alone(w)
         /\ UNCHANGED <<percepts, agPercepts, lists, uptodateAgs>>
         /\ \/ work'[w] = Idle
            \/ work'[w].ag \in Agents /\ work'[w].list = agPercepts[work'[w].ag]
         /\ ~At(w, "put")'
         /\ \A st \in GlobalChanges \union OwnChanges : ~At(w, st)'
<1>1. /\ WorkOK(work[w]) /\ DOMAIN work = Workers /\ StoreOK
      /\ work[w].rest # <<>> /\ Head(work[w].rest) = "eachAgent"
      /\ work[w].rest = <<"eachAgent">>
  BY AfterHead DEF Typed, WorkOK, NextAgent, At
<1>2. UNCHANGED <<store, uptodateAgs, read, believes, overtaken>>
  BY DEF NextAgent
<1>3. StoreOK'
  BY <1>1, <1>2 DEF StoreOK, store, Contents, Lists
<1>4. CASE Return(w)
  <2>1. Alone(w)
    BY <1>2, <1>3, <1>4, Returning DEF Alone
  <2>2. work'[w] = Idle /\ ~At(w, "put")' /\ \A st \in GlobalChanges \union OwnChanges : ~At(w, st)'
    BY <1>4, Returning DEF At
  <2> QED
    BY <1>2, <2>1, <2>2 DEF store
<1> DEFINE more == Tail(ClearAgPercepts) \o <<"eachAgent">>
<1>5. ASSUME NEW a \in work[w].todo,
             work' = [work EXCEPT ![w].todo = @ \ {a}, ![w].ag = a, ![w].list = agPercepts[a],
                        ![w].rest = IF agPercepts[a] # None THEN Tail(ClearAgPercepts) \o @ ELSE @]
      PROVE  /\ Alone(w) /\ work'[w].ag = a /\ a \in Agents /\ work'[w].list = agPercepts[a]
             /\ work'[w].rest # <<>> /\ Head(work'[w].rest) \in {"staleOwn", "eachAgent"}
  <2> DEFINE t == [work[w] EXCEPT !.todo = @ \ {a}, !.ag = a, !.list = agPercepts[a],
                                  !.rest = IF agPercepts[a] # None THEN more ELSE @]
  <2>1. /\ work'[w] = t /\ DOMAIN work' = Workers
        /\ \A v \in Workers \ {w} : work'[v] = work[v]
    <3>1. work' = [work EXCEPT ![w] =
            [work[w] EXCEPT !.todo = @ \ {a}, !.ag = a, !.list = agPercepts[a],
              !.rest = IF agPercepts[a] # None THEN Tail(ClearAgPercepts) \o work[w].rest ELSE @]]
      BY <1>1, <1>5
    <3>2. Tail(ClearAgPercepts) \o work[w].rest = more
      BY <1>1
    <3> QED
      BY <1>1, <3>1, <3>2
  <2>2. a \in Agents /\ agPercepts[a] \in Workers \union {None}
    BY <1>1 DEF WorkOK, StoreOK
  <2>3. /\ Shape(more) /\ more # <<>> /\ Head(more) = "staleOwn" /\ more[1] = "staleOwn"
        /\ more \in Seq(Statements)
    BY ClearFirst DEF Shape
  <2> HIDE DEF more
  <2>4. /\ t.ag = a /\ t.list = agPercepts[a]
        /\ t.rest = IF agPercepts[a] # None THEN more ELSE work[w].rest
    BY <1>1 DEF WorkOK
  <2>5. CASE agPercepts[a] # None
    <3>1. WorkOK(t)
      BY <1>1, <2>2, <2>3, <2>4, <2>5 DEF WorkOK
    <3> QED
      BY <1>2, <1>3, <2>1, <2>2, <2>3, <2>4, <2>5, <3>1 DEF Alone
  <2>6. CASE agPercepts[a] = None
    <3>1. work[w].rest[1] = "eachAgent"
      BY <1>1
    <3>2. WorkOK(t)
      BY <1>1, <2>2, <2>4, <2>6, <3>1 DEF WorkOK, OwnStatements, OwnChanges
    <3> QED
      BY <1>1, <1>2, <1>3, <2>1, <2>2, <2>4, <2>6, <3>2 DEF Alone
  <2> QED
    BY <2>5, <2>6
<1> QED
  BY <1>2, <1>4, <1>5 DEF NextAgent, store, At, GlobalChanges, OwnChanges
LEMMA StepAlone ==
  ASSUME Typed, NEW w \in Workers, Step(w)
  PROVE  Alone(w)
BY LookAlone, GlobalAlone, OwnAlone, FindEffect, PutAlone, MarkAlone, NextAgentEffect DEF Step

LEMMA AloneTyped ==
  ASSUME Typed, NEW w \in Workers, Alone(w)
  PROVE  Typed'
<1>1. \A v \in Workers : WorkOK(work'[v]) /\ DOMAIN work' = Workers
  BY DEF Typed, Alone
<1>2. ReadOK'
  BY DEF Typed, ReadOK, Alone, Reading
<1> QED
  BY <1>1, <1>2 DEF Typed, Alone, WorkOK

\* Where a thread that goes on may get to.
LEMMA GoingWhere ==
  ASSUME Typed, NEW w \in Workers, Active(w), GoOn(w),
         Head(work[w].rest) \notin {"get", "getOrCreate"}
  PROVE  /\ ~At(w, "put")'
         /\ Head(work[w].rest) # "stale" => \A st \in GlobalChanges : ~At(w, st)'
         /\ Head(work[w].rest) # "staleOwn" => \A st \in OwnChanges : ~At(w, st)'
<1> DEFINE r == work[w].rest
<1>1. Shape(r) /\ r # <<>> /\ work'[w].rest = Tail(r)
  BY Going DEF Typed, WorkOK, Active
<1> QED
  BY <1>1, BeforeHead DEF At

\* Only a mark is followed by a change that it announces.
LEMMA NoNewChange ==
  ASSUME Typed, NEW w \in Workers, Step(w)
  PROVE  /\ ~At(w, "stale") => \A st \in GlobalChanges : ~At(w, st)'
         /\ ~At(w, "staleOwn") => \A st \in OwnChanges : ~At(w, st)'
<1>1. CASE Return(w)
  BY <1>1, Returning DEF At
<1>2. CASE /\ GoOn(w) /\ Active(w)
           /\ Head(work[w].rest) \notin {"get", "getOrCreate"}
  BY <1>2, GoingWhere DEF At, Active
<1>3. CASE At(w, "notEmpty") /\ work' = [work EXCEPT ![w].rest = SubSeq(@, 4, Len(@))]
  <2>1. work'[w].rest = SubSeq(work[w].rest, 4, Len(work[w].rest))
    BY <1>3 DEF Typed, WorkOK
  <2>2. WorkOK(work[w])
    BY DEF Typed
  <2>3. work'[w].rest # <<>> => Head(work'[w].rest) = "eachAgent"
    BY <1>3, <2>1, <2>2, NothingToClear DEF At, WorkOK
  <2> QED
    BY <2>3 DEF At, GlobalChanges, OwnChanges
<1>4. CASE FindList(w) \/ NextAgent(w)
  BY <1>4, FindEffect, NextAgentEffect
<1> QED
  BY <1>1, <1>2, <1>3, <1>4 DEF Step, Look, ChangeGlobal, ChangeOwn, PutList, MarkStale, At, Active

-----------------------------------------------------------------------------
(* The common percepts *)

LEMMA AnnouncingKept ==
  ASSUME Typed, NEW w \in Workers, Alone(w), ~At(w, "stale"), NEW p, Announcing(p)
  PROVE  Announcing(p)'
BY DEF Announcing, Alone, At

LEMMA AddedAnnounced ==
  ASSUME Typed, NEW w \in Workers, At(w, "add"), GoOn(w), NEW p \in work[w].per
  PROVE  Announcing(p)'
<1>1. WorkOK(work[w]) /\ Shape(work[w].rest) /\ work[w].rest # <<>>
  BY DEF Typed, WorkOK, At
<1>2. work'[w].rest = Tail(work[w].rest) /\ work'[w].per = work[w].per
  BY Going DEF At, Active
<1>3. Tail(work[w].rest) # <<>> /\ Head(Tail(work[w].rest)) = "stale" /\ Len(Tail(work[w].rest)) = 1
  BY <1>1, AfterHead DEF At
<1> QED
  BY <1>2, <1>3 DEF Announcing, At

LEMMA PerceptsStep ==
  ASSUME Typed, NEW w \in Workers, Step(w), NEW p \in In(percepts')
  PROVE  p \in In(percepts) \/ Announcing(p)'
<1>1. percepts \in Contents /\ work[w].per \in SUBSET Literals
  BY DEF Typed, StoreOK, WorkOK
<1>2. CASE percepts' = percepts
  BY <1>2
<1>3. CASE percepts' = Minus(percepts, work[w].per) \/ percepts' = EmptyList
           \/ percepts' = Without(percepts, work[w].per)
  BY <1>1, <1>3 DEF Minus, Without, EmptyList, In, Contents
<1>4. CASE At(w, "add") /\ percepts' = Plus(percepts, work[w].per) /\ GoOn(w)
  <2>1. p \in In(percepts) \union work[w].per
    BY <1>1, <1>4, ListTypes
  <2> QED
    BY <2>1, <1>4, AddedAnnounced
<1> QED
  BY <1>2, <1>3, <1>4
     DEF Step, Look, ChangeGlobal, ChangeOwn, SetOwn, FindList, PutList, MarkStale, NextAgent, store

LEMMA InformedStep ==
  ASSUME Typed, Informed, NEW w \in Workers, Step(w)
  PROVE  Informed'
<1>1. Alone(w)
  BY StepAlone
<1>2. CASE At(w, "stale")
  <2>1. uptodateAgs' = {}
    BY <1>2 DEF Step, Look, ChangeGlobal, ChangeOwn, FindList, PutList, MarkStale, NextAgent, At
  <2> QED
    BY <2>1 DEF Informed
<1>3. CASE ~At(w, "stale")
  <2>1. \A p : Announcing(p) => Announcing(p)'
    BY <1>1, <1>3, AnnouncingKept
  <2>2. \A p \in In(percepts') : p \in In(percepts) \/ Announcing(p)'
    BY PerceptsStep
  <2>3. uptodateAgs' \subseteq uptodateAgs /\ read' = read /\ believes' = believes
    BY <1>1 DEF Alone
  <2>4. SUFFICES ASSUME NEW a \in uptodateAgs', read.ag # a \/ Reading("copyOwn"),
                        NEW p \in In(percepts')
                 PROVE  p \in Known(a) \/ Announcing(p)'
    BY <2>3 DEF Informed, Known, Reading, In
  <2> QED
    BY <2>1, <2>2, <2>3, <2>4 DEF Informed
<1> QED
  BY <1>2, <1>3
-----------------------------------------------------------------------------
(* The personal lists *)

\* A thread has no list, the one that agPercepts refers to, or the one it had.
Holds(w) ==
  /\ ~At(w, "put")'
  /\ \/ ~Active(w)'
     \/ work'[w].ag \in Agents /\ work'[w].list = agPercepts[work'[w].ag]
     \/ /\ Active(w) /\ ~At(w, "put")
        /\ work'[w].ag = work[w].ag /\ work'[w].list = work[w].list

LEMMA SameLists ==
  ASSUME Typed, ListsOK, NEW w \in Workers, Alone(w), Holds(w), UNCHANGED <<agPercepts, lists>>
  PROVE  ListsOK'
<1>1. ASSUME NEW a \in Agents, NEW v \in Workers, Unused(a, v)
      PROVE  w = v \/ Unused(a, v)'
  BY <1>1 DEF Unused, Alone, Holds, Active
<1>2. ASSUME NEW a \in Agents, agPercepts[a] = None, NEW v \in Workers
      PROVE  /\ Unused(a, v)'
             /\ Active(v)' /\ work'[v].ag = a /\ work'[v].list = v => At(v, "put")'
  <2>1. /\ Unused(a, v)
        /\ Active(v) /\ work[v].ag = a /\ work[v].list = v => At(v, "put")
    BY <1>2 DEF ListsOK
  <2>2. CASE v # w
    BY <1>1, <2>1, <2>2 DEF Alone, At, Active
  <2>3. CASE v = w
    <3>1. Unused(a, v)'
      BY <2>1, <2>3 DEF Unused, Alone, Active
    <3>2. ~(Active(v)' /\ work'[v].ag = a /\ work'[v].list = v)
      BY <1>2, <2>1, <2>3, NoneIsNobody DEF Holds
    <3> QED
      BY <3>1, <3>2
  <2> QED
    BY <2>2, <2>3
<1>3. ASSUME NEW v \in Workers, At(v, "put")'
      PROVE  (work[v].list = v /\ Unused(work[v].ag, v))'
  <2>1. v # w /\ work'[v] = work[v] /\ At(v, "put")
    BY <1>3 DEF Holds, Alone, At
  <2>2. PICK a \in Agents : a = work[v].ag /\ work[v].list = v /\ Unused(a, v)
    BY <2>1 DEF ListsOK, Typed, WorkOK, At
  <2>3. Unused(a, v)'
    BY <1>1, <2>1, <2>2
  <2> QED
    BY <2>1, <2>2, <2>3
<1> QED
  BY <1>2, <1>3 DEF ListsOK, Alone

LEMMA GoingHolds ==
  ASSUME Typed, NEW w \in Workers, Active(w), GoOn(w),
         Head(work[w].rest) \notin {"get", "getOrCreate", "put"}
  PROVE  Holds(w)
BY Going, GoingWhere DEF Holds, At

LEMMA OwnKeepsLists ==
  ASSUME Typed, ListsOK, NEW w \in Workers, ChangeOwn(w)
  PROVE  ListsOK'
<1> DEFINE b == work[w].ag
           u == work[w].list
<1>1. /\ Active(w) /\ Head(work[w].rest) \in OwnStatements /\ ~At(w, "put")
      /\ Head(work[w].rest) \notin {"get", "getOrCreate", "put"}
  BY DEF ChangeOwn, At, Active, OwnStatements, OwnChanges
<1>2. Alone(w) /\ b \in Agents /\ u \in Workers
  BY <1>1, OwnAlone, OwnListType
<1>3. ~At(w, "put")' /\ (Active(w)' => work'[w].ag = b /\ work'[w].list = u)
  <2>1. CASE GoOn(w)
    BY <1>1, <2>1, Going, GoingWhere
  <2>2. CASE Return(w)
    BY <2>2, Returning DEF At, Active
  <2> QED
    BY <2>1, <2>2 DEF ChangeOwn
<1>4. /\ agPercepts' = agPercepts
      /\ \A l \in Lists : l # <<b, u>> => lists'[l] = lists[l]
  BY DEF ChangeOwn, SetOwn, Typed, StoreOK
<1>5. agPercepts[b] # None
  BY <1>1, <1>2 DEF ListsOK, Unused
<1>6. ASSUME NEW v \in Workers, At(v, "put"), work[v].ag = b
      PROVE  v # u
  <2>1. Unused(work[v].ag, v) /\ v # w
    BY <1>1, <1>6 DEF ListsOK
  <2> QED
    BY <1>1, <1>6, <2>1 DEF Unused
<1>7. ASSUME NEW a \in Agents, NEW v \in Workers, Unused(a, v), ~(a = b /\ v = u)
      PROVE  Unused(a, v)'
  BY <1>2, <1>3, <1>4, <1>7, <1>1 DEF Unused, Alone, Active, Lists
<1>8. ASSUME NEW a \in Agents, agPercepts[a] = None, NEW v \in Workers
      PROVE  /\ Unused(a, v)'
             /\ Active(v)' /\ work'[v].ag = a /\ work'[v].list = v => At(v, "put")'
  <2>1. Unused(a, v)'
    BY <1>5, <1>7, <1>8 DEF ListsOK
  <2>2. v # w => work'[v] = work[v]
    BY <1>2 DEF Alone
  <2> QED
    BY <1>3, <1>5, <1>8, <2>1, <2>2 DEF ListsOK, At, Active
<1>9. ASSUME NEW v \in Workers, At(v, "put")'
      PROVE  (work[v].list = v /\ Unused(work[v].ag, v))'
  <2>1. v # w /\ work'[v] = work[v] /\ At(v, "put")
    BY <1>2, <1>3, <1>9 DEF Alone, At
  <2>2. PICK a \in Agents : a = work[v].ag /\ work[v].list = v /\ Unused(a, v)
    BY <2>1 DEF ListsOK, Typed, WorkOK, At
  <2>3. Unused(a, v)'
    BY <1>6, <1>7, <2>1, <2>2
  <2> QED
    BY <2>1, <2>2, <2>3
<1> QED
  BY <1>4, <1>8, <1>9 DEF ListsOK

LEMMA PutKeepsLists ==
  ASSUME Typed, ListsOK, NEW w \in Workers, PutList(w)
  PROVE  ListsOK'
<1> DEFINE b == work[w].ag
<1>1. Alone(w) /\ Active(w) /\ Head(work[w].rest) = "put" /\ b \in Agents /\ At(w, "put")
  BY PutAlone DEF PutList, At, Active, Typed, WorkOK
<1>2. work'[w].ag = b /\ work'[w].list = work[w].list /\ work[w].list = w /\ ~At(w, "put")'
  BY <1>1, Going, GoingWhere DEF PutList, ListsOK
<1>3. /\ lists' = lists
      /\ \A a \in Agents : agPercepts'[a] = IF a = b THEN w ELSE agPercepts[a]
  BY <1>1 DEF PutList, Typed, StoreOK
<1>4. ASSUME NEW a \in Agents, NEW v \in Workers, Unused(a, v), ~(a = b /\ v = w)
      PROVE  Unused(a, v)'
  BY <1>1, <1>2, <1>3, <1>4 DEF Unused, Alone, Active
<1>5. ASSUME NEW a \in Agents, agPercepts'[a] = None, NEW v \in Workers
      PROVE  /\ Unused(a, v)'
             /\ Active(v)' /\ work'[v].ag = a /\ work'[v].list = v => At(v, "put")'
  <2>1. a # b /\ agPercepts[a] = None
    BY <1>3, <1>5, NoneIsNobody
  <2>2. v # w => work'[v] = work[v]
    BY <1>1 DEF Alone
  <2> QED
    BY <1>2, <1>4, <2>1, <2>2 DEF ListsOK, At, Active
<1>6. ASSUME NEW v \in Workers, At(v, "put")'
      PROVE  (work[v].list = v /\ Unused(work[v].ag, v))'
  <2>1. v # w /\ work'[v] = work[v] /\ At(v, "put")
    BY <1>1, <1>2, <1>6 DEF Alone, At
  <2>2. PICK a \in Agents : a = work[v].ag /\ work[v].list = v /\ Unused(a, v)
    BY <2>1 DEF ListsOK, Typed, WorkOK, At
  <2>3. Unused(a, v)'
    BY <1>4, <2>1, <2>2
  <2> QED
    BY <2>1, <2>2, <2>3
<1> QED
  BY <1>5, <1>6 DEF ListsOK

LEMMA FindKeepsLists ==
  ASSUME Typed, ListsOK, NEW w \in Workers, FindList(w)
  PROVE  ListsOK'
<1> DEFINE b == work[w].ag
<1>1. /\ Alone(w) /\ UNCHANGED <<agPercepts, lists>> /\ b \in Agents
      /\ Active(w) /\ ~At(w, "put")
  BY FindEffect DEF FindList, At, Active
<1>2. CASE Holds(w)
  BY <1>1, <1>2, SameLists
<1>3. CASE /\ work'[w].ag = b /\ work'[w].list = w /\ agPercepts[b] = None
           /\ At(w, "put")'
  <2>1. ASSUME NEW a \in Agents, NEW v \in Workers, Unused(a, v)
        PROVE  Unused(a, v)'
    BY <1>1, <1>3, <2>1 DEF Unused, Alone, Active
  <2>2. ASSUME NEW v \in Workers, v # w
        PROVE  work'[v] = work[v]
    BY <1>1, <2>2 DEF Alone
  <2>3. ASSUME NEW a \in Agents, agPercepts[a] = None, NEW v \in Workers
        PROVE  /\ Unused(a, v)'
               /\ Active(v)' /\ work'[v].ag = a /\ work'[v].list = v => At(v, "put")'
    BY <1>3, <2>1, <2>2, <2>3 DEF ListsOK, At, Active
  <2>4. ASSUME NEW v \in Workers, At(v, "put")'
        PROVE  (work[v].list = v /\ Unused(work[v].ag, v))'
    <3>1. CASE v = w
      <4>1. PICK a \in Agents : a = b
        BY <1>1
      <4>2. Unused(a, v)'
        BY <1>3, <2>3, <4>1
      <4> QED
        BY <1>3, <3>1, <4>1, <4>2
    <3>2. CASE v # w
      <4>1. At(v, "put") /\ work'[v] = work[v]
        BY <2>2, <2>4, <3>2 DEF At
      <4>2. PICK a \in Agents : a = work[v].ag /\ work[v].list = v /\ Unused(a, v)
        BY <4>1 DEF ListsOK, Typed, WorkOK, At
      <4>3. Unused(a, v)'
        BY <2>1, <4>2
      <4> QED
        BY <4>1, <4>2, <4>3
    <3> QED
      BY <3>1, <3>2
  <2> QED
    BY <1>1, <2>3, <2>4 DEF ListsOK
<1>4. CASE work'[w] = Idle
  BY <1>2, <1>4 DEF Holds, At, Active, Idle
<1>5. CASE work'[w].ag = b /\ work'[w].list = agPercepts[b] /\ ~At(w, "put")'
  BY <1>1, <1>2, <1>5 DEF Holds
<1> QED
  BY <1>3, <1>4, <1>5, FindEffect

LEMMA ListsStep ==
  ASSUME Typed, ListsOK, NEW w \in Workers, Step(w)
  PROVE  ListsOK'
<1>1. Alone(w)
  BY StepAlone
<1>2. CASE Look(w) \/ ChangeGlobal(w) \/ MarkStale(w)
  <2>1. UNCHANGED <<agPercepts, lists>>
    BY <1>2 DEF Look, ChangeGlobal, MarkStale, store
  <2>2. CASE Return(w)
    BY <1>1, <2>1, <2>2, Returning, SameLists DEF Holds, At, Active
  <2>3. CASE /\ GoOn(w) /\ Active(w)
             /\ Head(work[w].rest) \notin {"get", "getOrCreate", "put"}
    BY <1>1, <2>1, <2>3, GoingHolds, SameLists
  <2>4. CASE At(w, "notEmpty") /\ work' = [work EXCEPT ![w].rest = SubSeq(@, 4, Len(@))]
    <3>1. /\ work'[w].rest = SubSeq(work[w].rest, 4, Len(work[w].rest))
          /\ work'[w].ag = work[w].ag /\ work'[w].list = work[w].list
      BY <2>4 DEF Typed, WorkOK
    <3>2. WorkOK(work[w])
      BY DEF Typed
    <3>3. work'[w].rest # <<>> => Head(work'[w].rest) = "eachAgent"
      BY <2>4, <3>1, <3>2, NothingToClear DEF At, WorkOK
    <3>4. Holds(w)
      BY <2>4, <3>1, <3>3 DEF Holds, At, Active
    <3> QED
      BY <1>1, <2>1, <3>4, SameLists
  <2> QED
    BY <1>2, <2>2, <2>3, <2>4 DEF Look, ChangeGlobal, MarkStale, At, Active
<1>3. CASE NextAgent(w)
  <2>1. Holds(w)
    BY <1>3, NextAgentEffect DEF Holds, Active, Idle
  <2> QED
    BY <1>1, <1>3, <2>1, NextAgentEffect, SameLists
<1> QED
  BY <1>2, <1>3, OwnKeepsLists, PutKeepsLists, FindKeepsLists DEF Step
-----------------------------------------------------------------------------
(* The agents that are up to date *)

\* A mark takes agents out.
LEMMA Marked ==
  ASSUME Typed, NEW w \in Workers, Step(w)
  PROVE  /\ At(w, "stale") => uptodateAgs' = {}
         /\ At(w, "staleOwn") => work[w].ag \notin uptodateAgs' /\ work'[w].ag = work[w].ag
<1>1. CASE At(w, "stale") \/ At(w, "staleOwn")
  <2>1. /\ Active(w) /\ Head(work[w].rest) \notin {"get", "getOrCreate"}
        /\ MarkStale(w)
    BY <1>1 DEF Step, Look, ChangeGlobal, ChangeOwn, FindList, PutList, NextAgent, At, Active
  <2>2. work'[w].ag = work[w].ag
    BY <2>1, Going DEF MarkStale
  <2> QED
    BY <2>1, <2>2 DEF MarkStale, At
<1> QED
  BY <1>1

LEMMA AnnouncedStep ==
  ASSUME Typed, AnnouncedOK, NEW w \in Workers, Step(w)
  PROVE  AnnouncedOK'
<1>1. Alone(w)
  BY StepAlone
<1>2. SUFFICES ASSUME NEW a \in uptodateAgs', Announced(a)'
               PROVE  a \in overtaken
  BY <1>1 DEF AnnouncedOK, Alone
<1>3. PICK v \in Workers :
        \/ \E st \in GlobalChanges : At(v, st)'
        \/ \E st \in OwnChanges : At(v, st)' /\ work'[v].ag = a
  BY <1>2 DEF Announced, GlobalChanges, OwnChanges
<1>4. CASE v # w
  <2>1. Announced(a) /\ a \in uptodateAgs
    BY <1>1, <1>3, <1>4 DEF Announced, Alone, At, GlobalChanges, OwnChanges
  <2> QED
    BY <2>1 DEF AnnouncedOK
<1>5. CASE v = w
  BY <1>3, <1>5, NoNewChange, Marked
<1> QED
  BY <1>4, <1>5

\* What holds of an agent in Latest is kept.
SameView(a) ==
  /\ Perception(a)' = Perception(a)
  /\ agPercepts'[a] = agPercepts[a]
  /\ In(percepts)' = In(percepts)

Kept(a) == Due(a)' \/ (~Due(a) /\ SameView(a))

\* The marks of the other threads, as long as no list gets fuller.
LEMMA OthersMark ==
  ASSUME NEW w \in Workers, Alone(w), NEW v \in Workers \ {w}, NEW a, Marks(v, a),
         In(OwnList(v))' \subseteq In(OwnList(v))
  PROVE  Marks(v, a)'
BY DEF Marks, Alone, At

LEMMA OthersSame ==
  ASSUME NEW w \in Workers, Alone(w), UNCHANGED lists, NEW v \in Workers \ {w}
  PROVE  In(OwnList(v))' \subseteq In(OwnList(v))
BY DEF Alone, OwnList, In

LEMMA KeptIfSame ==
  ASSUME NEW w \in Workers, Alone(w), UNCHANGED store, NEW a \in Agents,
         Marks(w, a) => Marks(w, a)'
  PROVE  Kept(a)
<1>1. Due(a) => Due(a)'
  BY OthersMark, OthersSame DEF Due, store
<1> QED
  BY <1>1 DEF Kept, SameView, Perception, In, store

LEMMA LookKeeps ==
  ASSUME Typed, NEW w \in Workers, Look(w), NEW a \in Agents
  PROVE  Kept(a)
<1>1. Alone(w) /\ UNCHANGED store
  BY LookAlone DEF Look
<1>2. ASSUME Marks(w, a)
      PROVE  Marks(w, a)'
  <2>1. At(w, "containsOwn") /\ work[w].ag = a /\ GoOn(w)
    BY <1>2 DEF Look, Marks, At
  <2>2. WorkOK(work[w]) /\ work[w].rest # <<>>
    BY <2>1 DEF Typed, At
  <2>3. Tail(work[w].rest) # <<>> /\ Head(Tail(work[w].rest)) = "staleOwn"
    BY <2>1, <2>2, AfterHead DEF WorkOK, At
  <2>4. work'[w].rest = Tail(work[w].rest) /\ work'[w].ag = work[w].ag
    BY <2>1, Going DEF At, Active
  <2> QED
    BY <2>1, <2>3, <2>4 DEF Marks, At
<1> QED
  BY <1>1, <1>2, KeptIfSame

LEMMA GlobalKeeps ==
  ASSUME Typed, AnnouncedOK, NEW w \in Workers, ChangeGlobal(w),
         NEW a \in uptodateAgs \ overtaken, a \in Agents
  PROVE  Kept(a)
<1>1. Alone(w) /\ UNCHANGED <<agPercepts, lists, uptodateAgs>>
  BY GlobalAlone DEF ChangeGlobal
<1>2. ~At(w, "remove") /\ ~At(w, "clear")
  BY DEF AnnouncedOK, Announced
<1>3. CASE percepts' = percepts
  BY <1>1, <1>3, KeptIfSame DEF store, ChangeGlobal, Marks, At
<1>4. CASE (At(w, "add") \/ At(w, "removeUnif")) /\ GoOn(w)
  <2>1. WorkOK(work[w]) /\ work[w].rest # <<>>
    BY <1>4 DEF Typed, At
  <2>2. Tail(work[w].rest) # <<>> /\ Head(Tail(work[w].rest)) = "stale"
    BY <1>4, <2>1, AfterHead DEF WorkOK, At
  <2>3. work'[w].rest = Tail(work[w].rest)
    BY <1>4, Going DEF At, Active
  <2>4. At(w, "stale")'
    BY <2>2, <2>3 DEF At
  <2> QED
    BY <2>4 DEF Kept, Due, Marks
<1> QED
  BY <1>2, <1>3, <1>4 DEF ChangeGlobal

LEMMA OwnKeeps ==
  ASSUME Typed, AnnouncedOK, NEW w \in Workers, ChangeOwn(w),
         NEW a \in uptodateAgs \ overtaken, a \in Agents
  PROVE  Kept(a)
<1> DEFINE b == work[w].ag
           u == work[w].list
<1>1. Alone(w) /\ UNCHANGED <<percepts, agPercepts, uptodateAgs>>
  BY OwnAlone DEF ChangeOwn, SetOwn
<1>2. /\ b \in Agents /\ u \in Workers /\ OwnList(w) \in Contents /\ work[w].per \in SUBSET Literals
      /\ Active(w)
  <2>1. Active(w) /\ Head(work[w].rest) \in OwnStatements
    BY DEF ChangeOwn, At, Active, OwnStatements, OwnChanges
  <2> QED
    BY <2>1, OwnListType
<1>3. \A l \in Lists : l # <<b, u>> => lists'[l] = lists[l]
  BY DEF ChangeOwn, SetOwn, Typed, StoreOK
<1>4. ~Marks(w, a)
  BY DEF Marks, ChangeOwn, At
<1>5. CASE a # b
  <2>1. \A v \in Workers : lists'[<<a, v>>] = lists[<<a, v>>]
    BY <1>3, <1>5 DEF Lists
  <2>2. SameView(a)
    BY <1>1, <2>1 DEF SameView, Perception, In, Typed, StoreOK
  <2>3. ASSUME NEW v \in Workers, Marks(v, a)
        PROVE  Marks(v, a)'
    <3>1. v # w /\ work'[v] = work[v]
      BY <1>1, <1>4, <2>3 DEF Alone
    <3>2. At(v, "containsOwn") /\ work[v].ag = a => work[v].list \in Workers
      BY DEF Typed, WorkOK, At, Shape, OwnStatements
    <3>3. At(v, "containsOwn") /\ work[v].ag = a => In(OwnList(v))' = In(OwnList(v))
      BY <2>1, <3>1, <3>2 DEF OwnList, In
    <3> QED
      BY <2>3, <3>1, <3>3 DEF Marks, At
  <2> QED
    BY <2>2, <2>3 DEF Kept, Due
<1>6. CASE a = b
  <2>1. \A st \in OwnChanges : ~At(w, st)
    BY <1>6 DEF AnnouncedOK, Announced, OwnChanges
  <2>2. At(w, "removeUnifOwn")
    BY <2>1 DEF ChangeOwn, OwnChanges
  <2>3. CASE GoOn(w)
    <3>1. WorkOK(work[w]) /\ work[w].rest # <<>>
      BY <1>2 DEF Typed, Active
    <3>2. Tail(work[w].rest) # <<>> /\ Head(Tail(work[w].rest)) = "staleOwn"
      BY <2>2, <3>1, AfterHead DEF WorkOK, At
    <3>3. work'[w].rest = Tail(work[w].rest) /\ work'[w].ag = b
      BY <2>2, <2>3, Going DEF At, Active
    <3>4. At(w, "staleOwn")'
      BY <3>2, <3>3 DEF At
    <3> QED
      BY <1>6, <3>3, <3>4 DEF Kept, Due, Marks
  <2>4. CASE lists' = lists
    BY <1>1, <1>4, <2>4, KeptIfSame DEF store
  <2> QED
    BY <2>2, <2>3, <2>4 DEF ChangeOwn, At
<1> QED
  BY <1>5, <1>6

LEMMA FindKeeps ==
  ASSUME Typed, NEW w \in Workers, FindList(w) \/ NextAgent(w), NEW a \in Agents
  PROVE  Kept(a)
<1>1. Alone(w) /\ UNCHANGED store
  BY FindEffect, NextAgentEffect DEF store
<1>2. ~Marks(w, a)
  BY DEF Marks, FindList, NextAgent, At
<1> QED
  BY <1>1, <1>2, KeptIfSame

LEMMA PutKeeps ==
  ASSUME Typed, ListsOK, NEW w \in Workers, PutList(w), NEW a \in Agents
  PROVE  Kept(a)
<1> DEFINE b == work[w].ag
<1>1. Alone(w) /\ UNCHANGED <<percepts, lists>>
  BY PutAlone DEF PutList
<1>2. /\ WorkOK(work[w]) /\ work[w].rest # <<>> /\ work[w].rest[1] = "put" /\ Head(work[w].rest) = "put"
      /\ work[w].per # {} /\ work[w].per \subseteq Literals /\ b \in Agents /\ work[w].list = w
      /\ At(w, "put") /\ GoOn(w)
  BY DEF PutList, Typed, WorkOK, At, Shape, ListsOK
<1>3. CASE a # b
  <2>1. agPercepts'[a] = agPercepts[a]
    BY <1>3 DEF PutList, Typed, StoreOK
  <2>2. SameView(a)
    BY <1>1, <2>1 DEF SameView, Perception, In
  <2>3. Due(a) => Due(a)'
    BY <1>1, <1>2, OthersMark, OthersSame DEF Due, Marks, At
  <2> QED
    BY <2>2, <2>3 DEF Kept
<1>4. CASE a = b
  <2>1. /\ work'[w].rest = Tail(work[w].rest) /\ work'[w].ag = b /\ work'[w].list = w
        /\ work'[w].per = work[w].per
    BY <1>2, Going DEF Active
  <2>2. Tail(work[w].rest) # <<>> /\ Head(Tail(work[w].rest)) = "containsOwn"
    BY <1>2, AfterHead DEF WorkOK
  <2>3. At(w, "containsOwn")'
    BY <2>1, <2>2 DEF At
  <2>4. lists'[<<b, w>>] = EmptyList
    BY <1>1, <1>2 DEF ListsOK, Unused
  <2>5. In(OwnList(w))' = {}
    BY <2>1, <2>4 DEF OwnList, In, EmptyList
  <2>6. Marks(w, a)'
    BY <1>2, <1>4, <2>1, <2>3, <2>5 DEF Marks
  <2> QED
    BY <2>6 DEF Kept, Due
<1> QED
  BY <1>3, <1>4

LEMMA MarkKeeps ==
  ASSUME Typed, NEW w \in Workers, MarkStale(w), NEW a \in uptodateAgs', a \in Agents
  PROVE  Kept(a)
<1>1. Alone(w) /\ UNCHANGED store
  BY MarkAlone DEF MarkStale
<1>2. ~Marks(w, a)
  BY DEF MarkStale, Marks, At
<1> QED
  BY <1>1, <1>2, KeptIfSame

LEMMA LatestStep ==
  ASSUME Typed, ListsOK, AnnouncedOK, Latest, NEW w \in Workers, Step(w)
  PROVE  Latest'
<1>1. Alone(w) /\ uptodateAgs \subseteq Agents
  BY StepAlone DEF Typed, StoreOK
<1>2. ASSUME NEW a \in uptodateAgs', a \notin overtaken
      PROVE  Kept(a)
  BY <1>1, <1>2, LookKeeps, GlobalKeeps, OwnKeeps, FindKeeps, PutKeeps, MarkKeeps DEF Step, Alone
<1>3. SUFFICES ASSUME NEW a \in uptodateAgs', a \notin overtaken
               PROVE  \/ Due(a)'
                      \/ read.ag # a /\ believes[a] = Perception(a)'
                      \/ /\ read.ag = a
                         /\ Reading("copy") \/ Reading("copyOwn") => read.list = agPercepts'[a]
                         /\ Reading("copyOwn") => read.got = In(percepts)'
  BY <1>1 DEF Latest, Alone, Reading
<1>4. Due(a)' \/ (~Due(a) /\ SameView(a))
  BY <1>2, <1>3 DEF Kept
<1>5. a \in uptodateAgs \ overtaken
  BY <1>1, <1>3 DEF Alone
<1> QED
  BY <1>4, <1>5 DEF Latest, SameView
-----------------------------------------------------------------------------
(* getPercepts *)

LEMMA ReadingWhat ==
  ASSUME ReadOK
  PROVE  /\ Reading("mark") => /\ read.rest = <<"mark", "getOwn", "copy", "copyOwn">>
                               /\ Tail(read.rest) = <<"getOwn", "copy", "copyOwn">>
         /\ Reading("getOwn") => /\ read.rest = <<"getOwn", "copy", "copyOwn">>
                                 /\ Tail(read.rest) = <<"copy", "copyOwn">>
         /\ Reading("copy") => read.rest = <<"copy", "copyOwn">> /\ Tail(read.rest) = <<"copyOwn">>
         /\ Reading("copyOwn") => read.rest = <<"copyOwn">>
<1>1. /\ Reading("mark") => read.rest = <<"mark", "getOwn", "copy", "copyOwn">>
      /\ Reading("getOwn") => read.rest = <<"getOwn", "copy", "copyOwn">>
      /\ Reading("copy") => read.rest = <<"copy", "copyOwn">>
      /\ Reading("copyOwn") => read.rest = <<"copyOwn">>
  BY DEF ReadOK, Reading
<1>2. /\ Tail(<<"mark", "getOwn", "copy", "copyOwn">>) = <<"getOwn", "copy", "copyOwn">>
      /\ Tail(<<"getOwn", "copy", "copyOwn">>) = <<"copy", "copyOwn">>
      /\ Tail(<<"copy", "copyOwn">>) = <<"copyOwn">>
  OBVIOUS
<1> QED
  BY <1>1, <1>2

\* The invariants speak of the store, the threads and the agents; what the
\* reader does is local to its agent.
LEMMA ReaderFrame ==
  ASSUME Inv, UNCHANGED <<store, work>>, uptodateAgs' \subseteq Agents,
         believes' \in [Agents -> SUBSET Literals], overtaken' \subseteq Agents, ReadOK'
  PROVE  /\ Typed' /\ ListsOK'
         /\ \A p : Announcing(p)' = Announcing(p)
         /\ \A a : /\ Announced(a)' = Announced(a)
                   /\ Due(a)' = Due(a)
                   /\ Perception(a)' = Perception(a)
<1>1. StoreOK'
  BY DEF Inv, Typed, StoreOK, store, Contents, Lists
<1>2. Typed'
  BY <1>1 DEF Inv, Typed, WorkOK
<1>3. ListsOK'
  BY DEF Inv, ListsOK, Unused, At, Active, store
<1>4. \A p : Announcing(p)' = Announcing(p)
  BY DEF Announcing, At
<1>5. \A a : Announced(a)' = Announced(a)
  BY DEF Announced, At
<1>6. \A a : Due(a)' = Due(a)
  BY DEF Due, Marks, At, OwnList, In, store
<1>7. \A a : Perception(a)' = Perception(a)
  BY DEF Perception, In, store
<1> QED
  BY <1>2, <1>3, <1>4, <1>5, <1>6, <1>7

LEMMA GetPerceptsInv ==
  ASSUME Inv, NEW a \in Agents, GetPercepts(a)
  PROVE  Inv'
<1>1. /\ read = NotReading /\ read.ag = None
      /\ read'.rest = <<"mark", "getOwn", "copy", "copyOwn">> /\ read'.ag = a
      /\ read' = [rest |-> <<"mark", "getOwn", "copy", "copyOwn">>, ag |-> a, list |-> None, got |-> {}]
  <2>1. read = NotReading /\ read.ag = None
    BY DEF GetPercepts, Inv, Typed, ReadOK, NotReading
  <2>2. read' = [rest |-> <<"mark", "getOwn", "copy", "copyOwn">>, ag |-> a, list |-> None, got |-> {}]
    BY DEF GetPercepts, NotReading
  <2> QED
    BY <2>1, <2>2
<1>2. /\ a \notin uptodateAgs
      /\ UNCHANGED <<store, uptodateAgs, work, believes, overtaken>>
  BY DEF GetPercepts
<1>3. uptodateAgs \subseteq Agents /\ believes \in [Agents -> SUBSET Literals] /\ overtaken \subseteq Agents
  BY DEF Inv, Typed, StoreOK
<1>4. ReadOK'
  BY <1>1, <1>2 DEF ReadOK, Reading
<1>5. /\ Typed' /\ ListsOK'
      /\ \A p : Announcing(p)' = Announcing(p)
      /\ \A b : /\ Announced(b)' = Announced(b)
                /\ Due(b)' = Due(b)
                /\ Perception(b)' = Perception(b)
  BY <1>2, <1>3, <1>4, ReaderFrame
<1>6. \A b \in uptodateAgs : b # a /\ b # None
  BY <1>2, <1>3, NoneIsNobody
<1>7. Informed'
  BY <1>1, <1>2, <1>5, <1>6 DEF Inv, Informed, Known, In, store
<1>8. AnnouncedOK'
  BY <1>2, <1>5 DEF Inv, AnnouncedOK
<1>9. Latest'
  BY <1>1, <1>2, <1>5, <1>6 DEF Inv, Latest, store
<1> QED
  BY <1>5, <1>7, <1>8, <1>9 DEF Inv

LEMMA MarkUpToDateInv ==
  ASSUME Inv, MarkUpToDate
  PROVE  Inv'
<1> DEFINE a == read.ag
<1>1. /\ ReadOK /\ Reading("mark") /\ a \in Agents
      /\ read' = [read EXCEPT !.rest = <<"getOwn", "copy", "copyOwn">>]
  BY ReadingWhat DEF MarkUpToDate, Inv, Typed, ReadOK, Reading
<1>2. /\ read'.rest = <<"getOwn", "copy", "copyOwn">> /\ read'.ag = a
      /\ ~Reading("copy")' /\ ~Reading("copyOwn")' /\ ~Reading("mark")'
      /\ ~Reading("copyOwn")
  BY <1>1 DEF ReadOK, Reading
<1>3. /\ uptodateAgs' = uptodateAgs \union {a}
      /\ overtaken' = IF Announced(a) THEN overtaken \union {a} ELSE overtaken \ {a}
      /\ UNCHANGED <<store, work, believes>>
  BY DEF MarkUpToDate
<1>4. /\ uptodateAgs' \subseteq Agents /\ believes' \in [Agents -> SUBSET Literals]
      /\ overtaken' \subseteq Agents
  BY <1>1, <1>3 DEF Inv, Typed, StoreOK
<1>5. ReadOK'
  BY <1>1, <1>2 DEF ReadOK, Reading
<1>6. /\ Typed' /\ ListsOK'
      /\ \A p : Announcing(p)' = Announcing(p)
      /\ \A b : /\ Announced(b)' = Announced(b)
                /\ Due(b)' = Due(b)
                /\ Perception(b)' = Perception(b)
  BY <1>3, <1>4, <1>5, ReaderFrame
<1>7. Informed'
  BY <1>2, <1>3, <1>6 DEF Inv, Informed, Known, In, store
<1>8. AnnouncedOK'
  BY <1>3, <1>6 DEF Inv, AnnouncedOK
<1>9. Latest'
  BY <1>2, <1>3, <1>6 DEF Inv, Latest
<1> QED
  BY <1>6, <1>7, <1>8, <1>9 DEF Inv

LEMMA GetOwnInv ==
  ASSUME Inv, GetOwn
  PROVE  Inv'
<1> DEFINE a == read.ag
<1>1. /\ ReadOK /\ Reading("getOwn") /\ a \in Agents /\ agPercepts[a] \in Workers \union {None}
      /\ read' = [read EXCEPT !.rest = <<"copy", "copyOwn">>, !.list = agPercepts[a]]
      /\ ~Reading("copyOwn")
  BY ReadingWhat DEF GetOwn, Inv, Typed, StoreOK, ReadOK, Reading
<1>2. /\ read'.rest = <<"copy", "copyOwn">> /\ read'.ag = a /\ read'.list = agPercepts[a]
      /\ ~Reading("copyOwn")' /\ ~Reading("mark")'
  BY <1>1 DEF ReadOK, Reading
<1>3. UNCHANGED <<store, uptodateAgs, work, believes, overtaken>>
  BY DEF GetOwn
<1>4. /\ uptodateAgs' \subseteq Agents /\ believes' \in [Agents -> SUBSET Literals]
      /\ overtaken' \subseteq Agents
  BY <1>3 DEF Inv, Typed, StoreOK
<1>5. ReadOK'
  BY <1>1, <1>2 DEF ReadOK, Reading
<1>6. /\ Typed' /\ ListsOK'
      /\ \A p : Announcing(p)' = Announcing(p)
      /\ \A b : /\ Announced(b)' = Announced(b)
                /\ Due(b)' = Due(b)
                /\ Perception(b)' = Perception(b)
  BY <1>3, <1>4, <1>5, ReaderFrame
<1>7. Informed'
  BY <1>1, <1>2, <1>3, <1>6 DEF Inv, Informed, Known, In, store
<1>8. AnnouncedOK'
  BY <1>3, <1>6 DEF Inv, AnnouncedOK
<1>9. Latest'
  BY <1>2, <1>3, <1>6 DEF Inv, Latest, store
<1> QED
  BY <1>6, <1>7, <1>8, <1>9 DEF Inv

LEMMA CopyGlobalInv ==
  ASSUME Inv, CopyGlobal
  PROVE  Inv'
<1> DEFINE a == read.ag
<1>1. /\ ReadOK /\ Reading("copy") /\ a \in Agents /\ In(percepts) \subseteq Literals
      /\ read' = [read EXCEPT !.rest = <<"copyOwn">>, !.got = In(percepts)]
  BY ReadingWhat DEF CopyGlobal, Inv, Typed, ReadOK, Reading, In
<1>2. /\ read'.rest = <<"copyOwn">> /\ read'.ag = a /\ read'.list = read.list
      /\ read'.got = In(percepts) /\ ~Reading("copy")' /\ ~Reading("mark")'
  BY <1>1 DEF ReadOK, Reading
<1>3. UNCHANGED <<store, uptodateAgs, work, believes, overtaken>>
  BY DEF CopyGlobal
<1>4. /\ uptodateAgs' \subseteq Agents /\ believes' \in [Agents -> SUBSET Literals]
      /\ overtaken' \subseteq Agents
  BY <1>3 DEF Inv, Typed, StoreOK
<1>5. ReadOK'
  BY <1>1, <1>2 DEF ReadOK, Reading
<1>6. /\ Typed' /\ ListsOK'
      /\ \A p : Announcing(p)' = Announcing(p)
      /\ \A b : /\ Announced(b)' = Announced(b)
                /\ Due(b)' = Due(b)
                /\ Perception(b)' = Perception(b)
  BY <1>3, <1>4, <1>5, ReaderFrame
<1>7. Informed'
  BY <1>2, <1>3, <1>6 DEF Inv, Informed, Known, In, store
<1>8. AnnouncedOK'
  BY <1>3, <1>6 DEF Inv, AnnouncedOK
<1>9. Latest'
  BY <1>1, <1>2, <1>3, <1>6 DEF Inv, Latest, store, In
<1> QED
  BY <1>6, <1>7, <1>8, <1>9 DEF Inv

LEMMA CopyOwnInv ==
  ASSUME Inv, CopyOwn
  PROVE  Inv'
<1> DEFINE a == read.ag
           own == IF read.list = None THEN {} ELSE In(lists[<<a, read.list>>])
<1>1. /\ ReadOK /\ Reading("copyOwn") /\ a \in Agents /\ own \subseteq Literals
      /\ read' = NotReading /\ read'.ag = None /\ read'.rest = <<>>
      /\ believes' = [believes EXCEPT ![a] = read.got \union own]
  BY DEF CopyOwn, Inv, Typed, ReadOK, Reading, In, NotReading
<1>2. UNCHANGED <<store, uptodateAgs, work, overtaken>>
  BY DEF CopyOwn
<1>3. /\ uptodateAgs' \subseteq Agents /\ believes \in [Agents -> SUBSET Literals]
      /\ overtaken' \subseteq Agents /\ read.got \subseteq Literals
  BY <1>1, <1>2 DEF Inv, Typed, StoreOK, ReadOK
<1> HIDE DEF own
<1>4. /\ believes' \in [Agents -> SUBSET Literals]
      /\ believes'[a] = read.got \union own
      /\ \A b \in Agents : b # a => believes'[b] = believes[b]
  BY <1>1, <1>3
<1>5. ReadOK'
  BY <1>1 DEF ReadOK, Reading, NotReading
<1>6. /\ Typed' /\ ListsOK'
      /\ \A p : Announcing(p)' = Announcing(p)
      /\ \A b : /\ Announced(b)' = Announced(b)
                /\ Due(b)' = Due(b)
                /\ Perception(b)' = Perception(b)
  BY <1>2, <1>3, <1>4, <1>5, ReaderFrame
<1>7. Informed'
  <2>1. SUFFICES ASSUME NEW b \in uptodateAgs, NEW p \in In(percepts)
                 PROVE  p \in believes'[b] \/ Announcing(p)
    BY <1>1, <1>2, <1>3, <1>6, NoneIsNobody DEF Informed, Known, In, store
  <2>2. CASE b = a
    BY <1>1, <1>4, <2>2 DEF Inv, Informed, Known
  <2>3. CASE b # a
    BY <1>2, <1>3, <1>4, <2>3 DEF Inv, Informed, Known
  <2> QED
    BY <2>2, <2>3
<1>8. AnnouncedOK'
  BY <1>2, <1>6 DEF Inv, AnnouncedOK
<1>9. Latest'
  <2>1. SUFFICES ASSUME NEW b \in uptodateAgs, b \notin overtaken, ~Due(b)
                 PROVE  believes'[b] = Perception(b)
    BY <1>1, <1>2, <1>3, <1>6, NoneIsNobody DEF Latest
  <2>2. CASE b = a
    <3>1. read.list = agPercepts[a] /\ read.got = In(percepts)
      BY <1>1, <2>1, <2>2 DEF Inv, Latest
    <3> QED
      BY <1>4, <2>2, <3>1 DEF Perception, own
  <2>3. CASE b # a
    BY <1>2, <1>3, <1>4, <2>1, <2>3 DEF Inv, Latest
  <2> QED
    BY <2>2, <2>3
<1> QED
  BY <1>6, <1>7, <1>8, <1>9 DEF Inv

-----------------------------------------------------------------------------
(* The theorems *)

LEMMA CallInv ==
  ASSUME Inv, NEW w \in Workers, NEW m \in Methods, NEW a \in Agents, NEW ps \in SUBSET Literals,
         Call(w, m, a, ps)
  PROVE  Inv'
<1>1. /\ work[w].rest = <<>> /\ UNCHANGED <<store, uptodateAgs, read, believes, overtaken>>
      /\ Typed /\ DOMAIN work = Workers
  BY DEF Call, Inv, Typed
<1>2. /\ Shape(Program(m)) /\ Program(m) # <<>> /\ Program(m) \in Seq(Statements)
      /\ Head(Program(m)) = Program(m)[1]
      /\ Program(m)[1] \notin GlobalChanges \union OwnStatements
  BY ProgramShape DEF Shape
<1>3. m # "addAgPercept" => Program(m)[1] \notin {"getOrCreate", "put"}
  BY MethodsKnown DEF Program, AddPercept, RemovePercept, RemovePerceptsByUnif, ClearPercepts,
     RemoveAgPercept, RemoveAgPerceptsByUnif, ClearAgPercepts, ClearAllPercepts
<1>4. m = "addAgPercept" => ps # {}
  BY DEF Call
<1> DEFINE r == Program(m)
<1>5. /\ work'[w].rest = r /\ work'[w].per = ps /\ work'[w].ag = a /\ work'[w].list = None
      /\ work'[w] = [rest |-> r, per |-> ps, ag |-> a, list |-> None, todo |-> Agents]
      /\ DOMAIN work' = Workers /\ \A v \in Workers \ {w} : work'[v] = work[v]
  BY <1>1 DEF Call, Idle
<1> HIDE DEF r
<1>6. WorkOK(work'[w])
  BY <1>2, <1>3, <1>4, <1>5 DEF WorkOK, r
<1>7. Alone(w)
  BY <1>1, <1>5, <1>6 DEF Alone, Typed, StoreOK, store, Contents, Lists
<1>8. /\ ~At(w, "put")' /\ ~At(w, "put") /\ ~At(w, "stale")
      /\ \A st \in GlobalChanges \union OwnChanges : ~At(w, st)'
      /\ \A b : ~Marks(w, b)
  BY <1>1, <1>2, <1>5 DEF At, Marks, OwnStatements, r
<1>9. Typed'
  BY <1>1, <1>7, AloneTyped
<1>10. Informed'
  <2>1. \A p : Announcing(p) => Announcing(p)'
    BY <1>1, <1>7, <1>8, AnnouncingKept
  <2> QED
    BY <1>1, <2>1 DEF Inv, Informed, Known, Reading, In, store
<1>11. ListsOK'
  <2>1. ASSUME NEW b \in Agents, NEW v \in Workers, Unused(b, v)
        PROVE  Unused(b, v)'
    BY <1>1, <1>5, <2>1, NoneIsNobody DEF Unused, Active, store
  <2>2. ASSUME NEW v \in Workers, At(v, "put")'
        PROVE  (work[v].list = v /\ Unused(work[v].ag, v))'
    <3>1. v # w /\ work'[v] = work[v] /\ At(v, "put")
      BY <1>5, <1>8, <2>2 DEF At
    <3>2. PICK b \in Agents : b = work[v].ag /\ work[v].list = v /\ Unused(b, v)
      BY <1>1, <3>1 DEF Inv, ListsOK, Typed, WorkOK, At
    <3>3. Unused(b, v)'
      BY <2>1, <3>2
    <3> QED
      BY <3>1, <3>2, <3>3
  <2>3. ASSUME NEW b \in Agents, agPercepts[b] = None, NEW v \in Workers
        PROVE  /\ Unused(b, v)'
               /\ Active(v)' /\ work'[v].ag = b /\ work'[v].list = v => At(v, "put")'
    BY <1>5, <2>1, <2>3, NoneIsNobody DEF Inv, ListsOK, At, Active
  <2> QED
    BY <1>1, <2>2, <2>3 DEF ListsOK, store
<1>12. AnnouncedOK'
  BY <1>1, <1>5, <1>8 DEF Inv, AnnouncedOK, Announced, At, GlobalChanges, OwnChanges
<1>13. Latest'
  <2>1. ASSUME NEW b \in Agents
        PROVE  Kept(b)
    BY <1>1, <1>7, <1>8, KeptIfSame
  <2>2. uptodateAgs \subseteq Agents
    BY <1>1 DEF Typed, StoreOK
  <2> QED
    BY <1>1, <2>1, <2>2 DEF Inv, Latest, Kept, SameView, Reading
<1> QED
  BY <1>9, <1>10, <1>11, <1>12, <1>13 DEF Inv

LEMMA InitInv == Init => Inv
<1> SUFFICES ASSUME Init PROVE Inv
  OBVIOUS
<1>1. StoreOK
  BY DEF Init, StoreOK, Contents, EmptyList
<1>2. ReadOK
  BY DEF Init, ReadOK, NotReading, Reading
<1>3. \A w \in Workers : work[w] = Idle
  BY DEF Init
<1>4. Typed
  BY <1>1, <1>2, <1>3, IdleOK DEF Init, Typed
<1>5. ListsOK
  BY <1>3, NoneIsNobody DEF Init, ListsOK, Unused, At, Active, Idle, Lists
<1>6. Informed /\ AnnouncedOK /\ Latest
  BY DEF Init, Informed, AnnouncedOK, Latest
<1> QED
  BY <1>4, <1>5, <1>6 DEF Inv

LEMMA NextInv == Inv /\ [Next]_vars => Inv'
<1> SUFFICES ASSUME Inv, [Next]_vars PROVE Inv'
  OBVIOUS
<1>1. ASSUME NEW w \in Workers, Step(w)
      PROVE  Inv'
  BY <1>1, StepAlone, AloneTyped, InformedStep, ListsStep, AnnouncedStep, LatestStep DEF Inv
<1>2. CASE UNCHANGED vars
  <2>1. ReadOK'
    BY <1>2 DEF Inv, Typed, ReadOK, Reading, vars
  <2>2. /\ Typed' /\ ListsOK'
        /\ \A p : Announcing(p)' = Announcing(p)
        /\ \A b : /\ Announced(b)' = Announced(b)
                  /\ Due(b)' = Due(b)
                  /\ Perception(b)' = Perception(b)
    BY <1>2, <2>1, ReaderFrame DEF vars, Inv, Typed, StoreOK
  <2>3. Informed' /\ AnnouncedOK'
    BY <1>2, <2>2 DEF Inv, Informed, AnnouncedOK, Known, Reading, In, vars, store
  <2>4. Latest'
    BY <1>2, <2>2 DEF Inv, Latest, Reading, In, vars, store
  <2> QED
    BY <2>2, <2>3, <2>4 DEF Inv
<1> QED
  BY <1>1, <1>2, CallInv, GetPerceptsInv, MarkUpToDateInv, GetOwnInv, CopyGlobalInv, CopyOwnInv DEF Next

LEMMA Invariant == Spec => []Inv
BY InitInv, NextInv, PTL DEF Spec

\* The lists, the map, the methods in progress and the call of getPercepts
\* keep their types, for any agents, literals and threads.
THEOREM TypeCorrect == Spec => []TypeOK
<1>1. Inv => TypeOK
  BY DEF Inv, Typed, StoreOK, ReadOK, WorkOK, TypeOK
<1> QED
  BY <1>1, Invariant, PTL

\* No agent that is up to date misses a percept of the common list but one that
\* a thread is about to announce, however many threads change the percepts while
\* the agents are given theirs: addPercept adds before it marks, and getPercepts
\* enters the agent before it copies.
THEOREM NoPerceptMissed == Spec => []NothingMissed
<1>1. Inv => NothingMissed
  BY DEF Inv, Informed, NothingMissed, Known
<1> QED
  BY <1>1, Invariant, PTL

\* For any number of threads: when all methods have ended, an agent that is up
\* to date and was given something else than the environment holds was given
\* it between a mark and the change that it announces.
THEOREM OnlyOvertakenAreStale == Spec => []StaleOnlyIfOvertaken
<1>1. Inv => StaleOnlyIfOvertaken
  <2>1. SUFFICES ASSUME Inv, Quiet, NEW a \in uptodateAgs \ overtaken
                 PROVE  believes[a] = Perception(a)
    BY DEF StaleOnlyIfOvertaken
  <2>2. ~Due(a)
    BY <2>1 DEF Quiet, Due, Marks, At
  <2>3. read.ag # a
    BY <2>1, NoneIsNobody DEF Quiet, NotReading, Inv, Typed, StoreOK
  <2> QED
    BY <2>1, <2>2, <2>3 DEF Inv, Latest
<1> QED
  BY <1>1, Invariant, PTL
=============================================================================
