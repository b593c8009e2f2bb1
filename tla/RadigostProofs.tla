---------------------------- MODULE RadigostProofs ----------------------------
(***************************************************************************)
(* Proofs about Radigost, for any number of pages, agents, messages and    *)
(* workers.  Inv adds to the types that a session is that of its host, and *)
(* that running names workers of the page and of the name.  Places says    *)
(* that a message to one client-side agent is in one place at a time.      *)
(***************************************************************************)
EXTENDS Radigost, FiniteSetTheorems, SequenceTheorems, TLAPS

-----------------------------------------------------------------------------
(* Sequences *)

\* SetToSeq lists every element of a finite set once.
LEMMA SetToSeqFacts ==
  ASSUME NEW S, IsFiniteSet(S)
  PROVE  /\ Cardinality(S) \in Nat
         /\ SetToSeq(S) \in [1..Cardinality(S) -> S]
         /\ SetToSeq(S) \in Seq(S)
         /\ Len(SetToSeq(S)) = Cardinality(S)
         /\ \A x \in S : \E i \in DOMAIN SetToSeq(S) : SetToSeq(S)[i] = x
<1> DEFINE n == Cardinality(S)
           f == SetToSeq(S)
<1>1. n \in Nat /\ ExistsBijection(1..n, S)
  BY FS_CardinalityType
<1>2. f \in [1..n -> S] /\ IsInjective(f)
  <2>1. \E g : g \in [1..n -> S] /\ IsInjective(g)
    BY <1>1 DEF ExistsBijection, Bijection, Injection
  <2> QED
    BY <2>1 DEF SetToSeq
<1>3. f \in Injection(1..n, S)
  BY <1>2 DEF Injection
<1>4. IsFiniteSet(1..n) /\ Cardinality(1..n) = n
  BY <1>1, FS_Interval
<1>5. f \in Surjection(1..n, S)
  BY <1>3, <1>4, FS_Injection
<1>6. \A x \in S : \E i \in 1..n : f[i] = x
  BY <1>5 DEF Surjection
<1> HIDE DEF f
<1>7. f \in Seq(S) /\ Len(f) = n /\ DOMAIN f = 1..n
  BY <1>1, <1>2
<1> QED
  BY <1>1, <1>2, <1>6, <1>7 DEF f

\* Taking the head off.
LEMMA TailFacts ==
  ASSUME NEW S, NEW s \in Seq(S), s # <<>>
  PROVE  /\ Head(s) \in S /\ Head(s) = s[1] /\ 1 \in 1..Len(s)
         /\ Tail(s) \in Seq(S)
         /\ Len(Tail(s)) = Len(s) - 1
         /\ \A k \in 1..Len(Tail(s)) : Tail(s)[k] = s[k + 1]
<1>1. Len(s) \in Nat \ {0}
  BY EmptySeq
<1> QED
  BY <1>1, HeadTailProperties

\* As many copies of x as ws has entries w.
Copies(ws, w, x) == [k \in 1..Cardinality({i \in DOMAIN ws : ws[i] = w}) |-> x]

LEMMA CopiesFacts ==
  ASSUME NEW S, NEW x \in S, NEW R, NEW ws \in Seq(R), NEW w
  PROVE  /\ Copies(ws, w, x) \in Seq(S)
         /\ \A k \in 1..Len(Copies(ws, w, x)) : Copies(ws, w, x)[k] = x
         /\ (\E i \in DOMAIN ws : ws[i] = w) <=> Len(Copies(ws, w, x)) > 0
         /\ (\A i, j \in DOMAIN ws : ws[i] = w /\ ws[j] = w => i = j)
            => Len(Copies(ws, w, x)) <= 1
<1> DEFINE I == {i \in DOMAIN ws : ws[i] = w}
           n == Cardinality(I)
<1>1. IsFiniteSet(I) /\ n \in Nat
  <2>1. IsFiniteSet(DOMAIN ws)
    <3>1. Len(ws) \in Int /\ DOMAIN ws = 1..Len(ws)
      BY LenProperties
    <3> QED
      BY <3>1, FS_Interval
  <2>2. I \in SUBSET DOMAIN ws
    OBVIOUS
  <2>3. IsFiniteSet(I)
    BY <2>1, <2>2, FS_Subset
  <2> QED
    BY <2>3, FS_CardinalityType
<1>2. n = 0 <=> I = {}
  BY <1>1, FS_EmptySet
<1>3. (\A i, j \in I : i = j) => n <= 1
  <2>1. CASE I = {}
    BY <2>1, <1>2
  <2>2. CASE I # {} /\ \A i, j \in I : i = j
    <3>1. PICK i : I = {i}
      BY <2>2
    <3>2. Cardinality({i}) = 1
      BY FS_Singleton
    <3>3. n = 1
      BY <3>1, <3>2
    <3> QED
      BY <3>3
  <2> QED
    BY <2>1, <2>2
<1>4. /\ Copies(ws, w, x) \in Seq(S)
      /\ Len(Copies(ws, w, x)) = n
      /\ \A k \in 1..n : Copies(ws, w, x)[k] = x
  <2> HIDE DEF n
  <2>1. [k \in 1..n |-> x] \in Seq(S) /\ Len([k \in 1..n |-> x]) = n
    BY <1>1
  <2> QED
    BY <2>1 DEF Copies, n
<1> HIDE DEF n
<1>5. (\E i \in DOMAIN ws : ws[i] = w) <=> n > 0
  BY <1>1, <1>2
<1>6. (\A i, j \in DOMAIN ws : ws[i] = w /\ ws[j] = w => i = j) => n <= 1
  BY <1>3
<1> QED
  BY <1>4, <1>5, <1>6

-----------------------------------------------------------------------------
(* Types *)

PlatformTypes ==
  /\ socket \in [Platforms -> {"none", "connecting", "open", "closed"}]
  /\ options \in [Platforms -> Hosts \X BOOLEAN]
  /\ listing \in [Platforms -> [state : {"none", "asked", "answered"}, names : SUBSET Names]]
  /\ sessions \in [Hosts -> Platforms \union {NoPlatform}]

WorkerTypes ==
  /\ running \in [Platforms -> [Names -> 0..Len(workers)]]
  /\ workers \in Seq([platform : Platforms, name : Names]) /\ Len(workers) <= MaxWorkers
  /\ inbox \in [Workers -> Seq(Messages \union {"init"})]
  /\ outbox \in [Workers -> Seq(Messages \union {"move"})]

ServerTypes ==
  /\ cache \in [ClientAids -> Calls \union {NoCall}]
  /\ stage \in [Calls -> Stages]

MessageTypes ==
  /\ wire \in [Platforms -> Seq(Messages)]
  /\ posted \in [Messages -> ReceiverLists \union {<<>>}]
  /\ queue \subseteq {c \in Messages \X Nat : c[2] \in DOMAIN posted[c[1]]}
  /\ handled \in [Messages -> [Aids -> Nat]]

\* A session is that of a platform that has registered for this host.
SessionsOK ==
  \A h \in Hosts : sessions[h] \in Platforms =>
    socket[sessions[h]] \in {"open", "closed"} /\ Host(sessions[h]) = h

\* The worker that runs a name is one of this page and this name.
RunningOK ==
  \A p \in Platforms, n \in Names : running[p][n] # 0 =>
    workers[running[p][n]] = [platform |-> p, name |-> n]

Inv == PlatformTypes /\ WorkerTypes /\ ServerTypes /\ MessageTypes /\ SessionsOK /\ RunningOK

LEMMA WorkersRange ==
  ASSUME WorkerTypes
  PROVE  /\ Len(workers) \in Nat
         /\ DOMAIN workers = 1..Len(workers)
         /\ DOMAIN workers \subseteq Workers
         /\ \A w \in DOMAIN workers : /\ workers[w].platform \in Platforms
                                      /\ workers[w].name \in Names
                                      /\ workers[w] = [platform |-> workers[w].platform,
                                                       name |-> workers[w].name]
<1>1. /\ Len(workers) \in Nat
      /\ DOMAIN workers = 1..Len(workers)
      /\ workers \in [1..Len(workers) -> [platform : Platforms, name : Names]]
  BY LenProperties DEF WorkerTypes
<1>2. \A w \in DOMAIN workers : workers[w] \in [platform : Platforms, name : Names]
  BY <1>1
<1>3. DOMAIN workers \subseteq Workers
  BY <1>1, WorkersNat DEF WorkerTypes, Workers
<1> QED
  BY <1>1, <1>2, <1>3

\* What is posted has receivers.
LEMMA ReceiversFacts ==
  ASSUME NEW rs \in ReceiverLists
  PROVE  /\ rs \in Seq(Aids) /\ rs # <<>>
         /\ Len(rs) \in Nat /\ DOMAIN rs = 1..Len(rs) /\ 1 \in DOMAIN rs
         /\ \A i \in DOMAIN rs : rs[i] \in Aids
<1>1. rs \in Seq(Aids) /\ rs # <<>>
  BY Receivers
<1>2. Len(rs) \in Nat /\ DOMAIN rs = 1..Len(rs) /\ rs \in [1..Len(rs) -> Aids]
  BY <1>1, LenProperties
<1>3. Len(rs) \in Nat \ {0}
  BY <1>1, EmptySeq
<1> QED
  BY <1>1, <1>2, <1>3

LEMMA PostedFacts ==
  ASSUME MessageTypes, NEW m \in Messages
  PROVE  /\ posted[m] \in Seq(Aids)
         /\ DOMAIN posted[m] = 1..Len(posted[m]) /\ Len(posted[m]) \in Nat
         /\ \A i \in DOMAIN posted[m] : posted[m][i] \in Aids
<1>1. CASE posted[m] = <<>>
  BY <1>1
<1>2. CASE posted[m] \in ReceiverLists
  BY <1>2, ReceiversFacts
<1> QED
  BY <1>1, <1>2 DEF MessageTypes

\* Local delivery reaches workers that run a receiver here.
LEMMA LocalFacts ==
  ASSUME Inv, NEW p \in Platforms, NEW rs \in Seq(Aids)
  PROVE  /\ LocalWorkers(p, rs) \in Seq(Nat)
         /\ DOMAIN LocalWorkers(p, rs) = DOMAIN rs
         /\ \A i \in DOMAIN rs : LocalWorkers(p, rs)[i] = GetAgent(p, rs[i])
<1>1. Len(rs) \in Nat /\ DOMAIN rs = 1..Len(rs) /\ rs \in [1..Len(rs) -> Aids]
  BY LenProperties
<1>2. \A i \in DOMAIN rs : GetAgent(p, rs[i]) \in Nat
  <2> SUFFICES ASSUME NEW i \in DOMAIN rs
               PROVE  GetAgent(p, rs[i]) \in Nat
    OBVIOUS
  <2>1. \A n \in Names : running[p][n] \in Nat
    BY WorkersRange DEF Inv, WorkerTypes
  <2>2. CASE rs[i] \in ClientAids /\ rs[i][2] = Host(p)
    <3>1. rs[i][1] \in Names
      BY <2>2 DEF ClientAids
    <3> QED
      BY <2>1, <2>2, <3>1 DEF GetAgent
  <2>3. CASE ~(rs[i] \in ClientAids /\ rs[i][2] = Host(p))
    BY <2>3 DEF GetAgent
  <2> QED
    BY <2>2, <2>3
<1>3. LocalWorkers(p, rs) \in [1..Len(rs) -> Nat]
  BY <1>1, <1>2 DEF LocalWorkers
<1> QED
  BY <1>1, <1>3 DEF LocalWorkers

LEMMA DeliveredIs ==
  ASSUME NEW ws, NEW m
  PROVE  Delivered(ws, m) = [w \in Workers |-> inbox[w] \o Copies(ws, w, m)]
  BY DEF Delivered, Copies

LEMMA DeliveredType ==
  ASSUME Inv, NEW p \in Platforms, NEW rs \in Seq(Aids), NEW m \in Messages
  PROVE  Delivered(LocalWorkers(p, rs), m) \in [Workers -> Seq(Messages \union {"init"})]
<1> DEFINE ws == LocalWorkers(p, rs)
<1>1. ws \in Seq(Nat)
  BY LocalFacts
<1> HIDE DEF ws
<1>2. \A w \in Workers : Copies(ws, w, m) \in Seq(Messages \union {"init"})
  BY <1>1, CopiesFacts
<1>3. \A w \in Workers : inbox[w] \o Copies(ws, w, m) \in Seq(Messages \union {"init"})
  BY <1>2, ConcatProperties DEF Inv, WorkerTypes
<1>4. Delivered(ws, m) \in [Workers -> Seq(Messages \union {"init"})]
  BY <1>3, DeliveredIs
<1> QED
  BY <1>4 DEF ws

-----------------------------------------------------------------------------
(* What new workers leave alone *)

LEMMA SpawnFacts ==
  ASSUME Inv, NEW p \in Platforms, NEW ns \in SUBSET Names, Spawn(p, ns)
  PROVE  /\ WorkerTypes' /\ RunningOK'
         /\ \A w \in DOMAIN workers : /\ w \in DOMAIN workers'
                                      /\ workers'[w] = workers[w]
                                      /\ inbox'[w] = inbox[w]
         /\ \A w \in Workers : inbox'[w] \in {inbox[w], <<"init">>}
         /\ outbox' = outbox
         /\ \A q \in Platforms, n \in Names : running[q][n] # 0 => running'[q][n] # 0
<1> DEFINE order == SetToSeq(ns)
           c == Cardinality(ns)
           number(n) == CHOOSE i \in DOMAIN order : order[i] = n
           added == [i \in DOMAIN order |-> [platform |-> p, name |-> order[i]]]
<1>1. IsFiniteSet(ns)
  BY NamesFinite, FS_Subset
<1>2. /\ c \in Nat /\ order \in [1..c -> ns] /\ Len(order) = c
      /\ \A n \in ns : number(n) \in 1..c /\ order[number(n)] = n
  <2>1. /\ c \in Nat /\ order \in [1..c -> ns] /\ Len(order) = c
        /\ \A n \in ns : \E i \in DOMAIN order : order[i] = n
    BY <1>1, SetToSeqFacts
  <2> HIDE DEF order, c
  <2>2. DOMAIN order = 1..c
    BY <2>1
  <2>3. \A n \in ns : number(n) \in DOMAIN order /\ order[number(n)] = n
    BY <2>1
  <2> QED
    BY <2>1, <2>2, <2>3
<1>3. /\ Len(workers) + c <= MaxWorkers
      /\ workers' = workers \o added
      /\ running' = [running EXCEPT ![p] = [n \in Names |->
           IF n \in ns THEN Len(workers) + number(n) ELSE running[p][n]]]
      /\ inbox' = [w \in Workers |->
           IF w \in (Len(workers) + 1)..(Len(workers) + c) THEN <<"init">> ELSE inbox[w]]
      /\ outbox' = outbox
  BY DEF Spawn, InitPosted
<1>4. DOMAIN order = 1..c
  BY <1>2
<1> HIDE DEF order, c, number
<1>5. added \in Seq([platform : Platforms, name : Names]) /\ Len(added) = c
      /\ \A i \in 1..c : added[i] = [platform |-> p, name |-> order[i]]
  <2>1. added \in [1..c -> [platform : Platforms, name : Names]]
    BY <1>2, <1>4
  <2> QED
    BY <2>1, <1>2, <1>4
<1> HIDE DEF added
<1>6. /\ workers' \in Seq([platform : Platforms, name : Names])
      /\ Len(workers') = Len(workers) + c
      /\ \A i \in 1..Len(workers) + c : workers'[i] =
           IF i <= Len(workers) THEN workers[i] ELSE added[i - Len(workers)]
  BY <1>3, <1>5, ConcatProperties DEF Inv, WorkerTypes
<1>7. Len(workers) \in Nat /\ DOMAIN workers = 1..Len(workers) /\ DOMAIN workers \subseteq Workers
      /\ DOMAIN workers' = 1..Len(workers')
  BY <1>6, WorkersRange, LenProperties DEF Inv
<1>8. \A w \in DOMAIN workers : /\ w \in DOMAIN workers'
                                /\ workers'[w] = workers[w]
                                /\ inbox'[w] = inbox[w]
  <2> TAKE w \in DOMAIN workers
  <2>1. w \in 1..Len(workers) /\ w \in Workers
    BY <1>7
  <2>2. w \in 1..Len(workers') /\ workers'[w] = workers[w]
    BY <2>1, <1>2, <1>6, <1>7
  <2>3. w \notin (Len(workers) + 1)..(Len(workers) + c)
    BY <2>1, <1>2, <1>7
  <2> QED
    BY <2>1, <2>2, <2>3, <1>3, <1>7
<1>9. \A n \in ns : /\ Len(workers) + number(n) \in 1..Len(workers')
                    /\ workers'[Len(workers) + number(n)] = [platform |-> p, name |-> n]
                    /\ Len(workers) + number(n) # 0
  <2> TAKE n \in ns
  <2>1. number(n) \in 1..c
    BY <1>2
  <2>2. added[number(n)] = [platform |-> p, name |-> n]
    BY <2>1, <1>2, <1>5
  <2> HIDE DEF c
  <2>3. (Len(workers) + number(n)) - Len(workers) = number(n)
    BY <2>1, <1>2, <1>7
  <2>4. Len(workers) + number(n) \in 1..Len(workers) + c /\ ~(Len(workers) + number(n) <= Len(workers))
    BY <2>1, <1>2, <1>7
  <2> QED
    BY <2>2, <2>3, <2>4, <1>6, <1>7, <1>2
<1>10. running \in [Platforms -> [Names -> 0..Len(workers)]]
  BY DEF Inv, WorkerTypes
<1>11. /\ \A n \in Names : running'[p][n] =
            IF n \in ns THEN Len(workers) + number(n) ELSE running[p][n]
       /\ \A q \in Platforms \ {p} : running'[q] = running[q]
  BY <1>3, <1>10
<1>12. \A q \in Platforms, n \in Names : \/ running'[q][n] = running[q][n]
                                         \/ q = p /\ n \in ns /\ running'[q][n] = Len(workers) + number(n)
  BY <1>11
<1>13. running' \in [Platforms -> [Names -> 0..Len(workers')]]
  <2>1. \A n \in Names : running'[p][n] \in 0..Len(workers')
    <3> TAKE n \in Names
    <3>1. CASE n \in ns
      <4>1. running'[p][n] = Len(workers) + number(n)
        BY <3>1, <1>11
      <4>2. Len(workers) + number(n) \in 1..Len(workers')
        BY <3>1, <1>9
      <4> QED
        BY <4>1, <4>2
    <3>2. CASE n \notin ns
      <4>1. running'[p][n] = running[p][n] /\ running[p][n] \in 0..Len(workers)
        BY <3>2, <1>10, <1>11
      <4> QED
        BY <4>1, <1>2, <1>6, <1>7
    <3> QED
      BY <3>1, <3>2
  <2>2. \A q \in Platforms \ {p}, n \in Names : running'[q][n] \in 0..Len(workers')
    BY <1>2, <1>6, <1>7, <1>10, <1>11
  <2>3. running' \in [Platforms -> [Names -> Nat]]
    <3>1. \A n \in Names : (IF n \in ns THEN Len(workers) + number(n) ELSE running[p][n]) \in Nat
      BY <1>2, <1>7, <1>10
    <3>2. running \in [Platforms -> [Names -> Nat]]
      BY <1>10, <1>7
    <3> QED
      BY <3>1, <3>2, <1>3
  <2>4. \A q \in Platforms, n \in Names : running'[q][n] \in 0..Len(workers')
    BY <2>1, <2>2
  <2> QED
    BY <2>3, <2>4
<1>14. WorkerTypes'
  <2>1. inbox' \in [Workers -> Seq(Messages \union {"init"})]
    <3>1. <<"init">> \in Seq(Messages \union {"init"})
      OBVIOUS
    <3> QED
      BY <3>1, <1>3 DEF Inv, WorkerTypes
  <2> QED
    BY <2>1, <1>3, <1>6, <1>13 DEF Inv, WorkerTypes
<1>15. RunningOK'
  <2> SUFFICES ASSUME NEW q \in Platforms, NEW n \in Names, running'[q][n] # 0
               PROVE  workers'[running'[q][n]] = [platform |-> q, name |-> n]
    BY DEF RunningOK
  <2>1. CASE running'[q][n] = running[q][n]
    <3>1. running[q][n] \in DOMAIN workers
      BY <2>1, <1>7, <1>10
    <3>2. workers[running[q][n]] = [platform |-> q, name |-> n]
      BY <2>1 DEF Inv, RunningOK
    <3> QED
      BY <3>1, <3>2, <2>1, <1>8
  <2>2. CASE q = p /\ n \in ns /\ running'[q][n] = Len(workers) + number(n)
    BY <2>2, <1>9
  <2> QED
    BY <2>1, <2>2, <1>12
<1>16. ASSUME NEW q \in Platforms, NEW n \in Names, running[q][n] # 0
       PROVE  running'[q][n] # 0
  <2>1. CASE q = p /\ n \in ns /\ running'[q][n] = Len(workers) + number(n)
    <3>1. Len(workers) + number(n) \in 1..Len(workers')
      BY <2>1, <1>9
    <3> QED
      BY <2>1, <3>1, <1>6, <1>7
  <2> QED
    BY <1>12, <1>16, <2>1
<1>17. \A w \in Workers : inbox'[w] \in {inbox[w], <<"init">>}
  BY <1>3
<1> QED
  BY <1>3, <1>8, <1>14, <1>15, <1>16, <1>17

-----------------------------------------------------------------------------
(* Inv is inductive *)

LEMMA InitInv == Init => Inv
<1> SUFFICES ASSUME Init
             PROVE  Inv
  OBVIOUS
<1>1. PlatformTypes /\ SessionsOK
  BY SomeHost, PlatformsApart DEF Init, PlatformTypes, SessionsOK
<1>2. WorkerTypes /\ RunningOK
  <2>1. workers = <<>> /\ Len(workers) = 0
    BY DEF Init
  <2> QED
    BY <2>1, WorkersNat DEF Init, WorkerTypes, RunningOK
<1>3. ServerTypes
  BY DEF Init, ServerTypes, Stages
<1>4. MessageTypes
  BY DEF Init, MessageTypes
<1> QED
  BY <1>1, <1>2, <1>3, <1>4 DEF Inv

LEMMA AidFacts ==
  ASSUME Inv, NEW w \in DOMAIN workers
  PROVE  AidOf(w) \in ClientAids /\ w \in Workers /\ workers[w].platform \in Platforms
<1>1. /\ workers[w].platform \in Platforms /\ workers[w].name \in Names /\ w \in Workers
  BY WorkersRange DEF Inv
<1>2. Host(workers[w].platform) \in Hosts
  BY <1>1 DEF Inv, PlatformTypes, Host
<1> QED
  BY <1>1, <1>2 DEF AidOf, ClientAids

LEMMA PlatformsInv ==
  ASSUME Inv, NEW p \in Platforms, CreateRadigost(p) \/ Register(p) \/ ClosePage(p)
  PROVE  Inv'
<1>1. CASE CreateRadigost(p)
  <2>1. UNCHANGED <<workerVars, wire, sessions, cache, stage, posted, queue, handled>>
    BY <1>1 DEF CreateRadigost
  <2>2. PICK o \in Options : /\ socket' = [socket EXCEPT ![p] = "connecting"]
                             /\ options' = [options EXCEPT ![p] = o]
                             /\ listing' = [listing EXCEPT ![p].state = IF o[2] THEN "asked" ELSE "none"]
    BY <1>1 DEF CreateRadigost
  <2>3. PlatformTypes'
    BY <2>1, <2>2, SomeHost DEF Inv, PlatformTypes
  <2>4. SessionsOK'
    <3> SUFFICES ASSUME NEW h \in Hosts, sessions[h] \in Platforms
                 PROVE  socket'[sessions[h]] \in {"open", "closed"} /\ options'[sessions[h]][1] = h
      BY <2>1 DEF SessionsOK, Host
    <3>1. sessions[h] # p
      BY <1>1 DEF CreateRadigost, Inv, SessionsOK
    <3> QED
      BY <2>1, <2>2, <3>1 DEF Inv, SessionsOK, PlatformTypes, Host
  <2> QED
    BY <2>1, <2>3, <2>4 DEF workerVars, Inv, WorkerTypes, ServerTypes, MessageTypes, RunningOK
<1>2. CASE Register(p)
  <2>1. /\ UNCHANGED <<options, listing, workerVars, wire, cache, stage, posted, queue, handled>>
        /\ socket' = [socket EXCEPT ![p] = "open"]
        /\ sessions' = [sessions EXCEPT ![Host(p)] = p]
    BY <1>2 DEF Register
  <2>2. PlatformTypes'
    BY <2>1 DEF Inv, PlatformTypes
  <2>3. SessionsOK'
    <3> SUFFICES ASSUME NEW h \in Hosts, sessions'[h] \in Platforms
                 PROVE  socket'[sessions'[h]] \in {"open", "closed"} /\ options'[sessions'[h]][1] = h
      BY DEF SessionsOK, Host
    <3>1. CASE h = Host(p)
      BY <2>1, <3>1 DEF Inv, PlatformTypes, Host
    <3>2. CASE h # Host(p)
      BY <2>1, <3>2 DEF Inv, PlatformTypes, SessionsOK, Host
    <3> QED
      BY <3>1, <3>2
  <2> QED
    BY <2>1, <2>2, <2>3 DEF workerVars, Inv, WorkerTypes, ServerTypes, MessageTypes, RunningOK
<1>3. CASE ClosePage(p)
  <2>1. /\ UNCHANGED <<options, workers, sessions, cache, stage, posted, queue, handled>>
        /\ socket' = [socket EXCEPT ![p] = "closed"]
        /\ listing' = [listing EXCEPT ![p] = [state |-> "none", names |-> {}]]
        /\ wire' = [wire EXCEPT ![p] = <<>>]
        /\ running' = [running EXCEPT ![p] = [n \in Names |-> 0]]
        /\ inbox' = [w \in Workers |->
             IF w \in DOMAIN workers /\ workers[w].platform = p THEN <<>> ELSE inbox[w]]
        /\ outbox' = [w \in Workers |->
             IF w \in DOMAIN workers /\ workers[w].platform = p THEN <<>> ELSE outbox[w]]
    BY <1>3 DEF ClosePage
  <2>2. PlatformTypes' /\ SessionsOK'
    BY <2>1 DEF Inv, PlatformTypes, SessionsOK, Host
  <2>3. WorkerTypes'
    <3>1. Len(workers) \in Nat
      BY WorkersRange DEF Inv
    <3>2. running' \in [Platforms -> [Names -> 0..Len(workers)]]
      BY <2>1, <3>1 DEF Inv, WorkerTypes
    <3>3. /\ inbox' \in [Workers -> Seq(Messages \union {"init"})]
          /\ outbox' \in [Workers -> Seq(Messages \union {"move"})]
      BY <2>1 DEF Inv, WorkerTypes
    <3> QED
      BY <2>1, <3>2, <3>3 DEF Inv, WorkerTypes
  <2>4. RunningOK'
    BY <2>1 DEF Inv, WorkerTypes, RunningOK
  <2>5. ServerTypes' /\ MessageTypes'
    BY <2>1 DEF Inv, ServerTypes, MessageTypes
  <2> QED
    BY <2>2, <2>3, <2>4, <2>5 DEF Inv
<1> QED
  BY <1>1, <1>2, <1>3

LEMMA StartsInv ==
  ASSUME Inv, NEW p \in Platforms,
         (\E n \in Names : Start(p, n)) \/ GetRunning(p) \/ RecreateAgents(p)
  PROVE  Inv'
<1>1. ASSUME NEW n \in Names, Start(p, n)
      PROVE  Inv'
  <2>1. WorkerTypes' /\ RunningOK'
    <3>1. Spawn(p, {n})
      BY <1>1 DEF Start
    <3> QED
      BY <3>1, SpawnFacts
  <2>2. /\ UNCHANGED <<platformVars, wire, sessions, cache, posted, queue, handled>>
        /\ \/ stage' = [stage EXCEPT ![<<Len(workers) + 1, "stub">>] = "sent"]
           \/ UNCHANGED stage
    BY <1>1 DEF Start, SendCall
  <2>3. ServerTypes'
    BY <2>2 DEF Inv, ServerTypes, Stages
  <2> QED
    BY <2>1, <2>2, <2>3 DEF platformVars, Inv, PlatformTypes, MessageTypes, SessionsOK, Host
<1>2. CASE GetRunning(p)
  <2>1. /\ UNCHANGED <<socket, options, workerVars, wire, sessions, cache, stage, posted, queue, handled>>
        /\ listing' = [listing EXCEPT ![p] =
             [state |-> "answered", names |-> {a[1] : a \in {b \in ClientAids : cache[b] # NoCall}}]]
    BY <1>2 DEF GetRunning
  <2>2. {a[1] : a \in {b \in ClientAids : cache[b] # NoCall}} \in SUBSET Names
    BY DEF ClientAids
  <2>3. PlatformTypes'
    BY <2>1, <2>2 DEF Inv, PlatformTypes
  <2> QED
    BY <2>1, <2>3 DEF workerVars, Inv, WorkerTypes, ServerTypes, MessageTypes, SessionsOK, RunningOK, Host
<1>3. CASE RecreateAgents(p)
  <2>1. WorkerTypes' /\ RunningOK'
    <3>1. Spawn(p, listing[p].names \ Mobile)
      BY <1>3 DEF RecreateAgents
    <3>2. listing[p].names \ Mobile \in SUBSET Names
      BY DEF Inv, PlatformTypes
    <3> QED
      BY <3>1, <3>2, SpawnFacts
  <2>2. /\ UNCHANGED <<socket, options, wire, sessions, cache, stage, posted, queue, handled>>
        /\ listing' = [listing EXCEPT ![p].state = "none"]
    BY <1>3 DEF RecreateAgents
  <2>3. PlatformTypes'
    BY <2>2 DEF Inv, PlatformTypes
  <2> QED
    BY <2>1, <2>2, <2>3 DEF Inv, ServerTypes, MessageTypes, SessionsOK, Host
<1> QED
  BY <1>1, <1>2, <1>3

\* Posting sets the receivers of a message that had none.
LEMMA NewMessageFacts ==
  ASSUME Inv, NEW m \in Messages, NEW rs \in ReceiverLists, NewMessage(m, rs)
  PROVE  /\ posted' = [posted EXCEPT ![m] = rs] /\ posted[m] = <<>> /\ posted'[m] = rs
         /\ posted' \in [Messages -> ReceiverLists \union {<<>>}]
         /\ \A c \in queue : c[1] # m /\ posted'[c[1]] = posted[c[1]]
<1>1. posted' = [posted EXCEPT ![m] = rs] /\ posted[m] = <<>>
  BY DEF NewMessage
<1>2. posted \in [Messages -> ReceiverLists \union {<<>>}]
  BY DEF Inv, MessageTypes
<1>3. \A c \in queue : c[1] # m
  <2> SUFFICES ASSUME NEW c \in queue, c[1] = m
               PROVE  FALSE
    OBVIOUS
  <2>1. c[2] \in DOMAIN posted[m]
    BY DEF Inv, MessageTypes
  <2>2. DOMAIN posted[m] = 1..0
    BY <1>1
  <2> QED
    BY <2>1, <2>2
<1>4. \A c \in queue : c[1] \in Messages
  BY DEF Inv, MessageTypes
<1> QED
  BY <1>1, <1>2, <1>3, <1>4

LEMMA PostsInv ==
  ASSUME Inv, NEW m \in Messages,
         (\E p \in Platforms : Post(p, m)) \/ PostToServer(m) \/ (\E w \in DOMAIN workers : AgentPosts(w, m))
  PROVE  Inv'
<1>1. ASSUME NEW p \in Platforms, Post(p, m)
      PROVE  Inv'
  <2>1. /\ UNCHANGED <<platformVars, running, workers, outbox, wire, sessions, cache, stage, queue, handled>>
        /\ \E rs \in ReceiverLists : NewMessage(m, rs) /\ inbox' = Delivered(LocalWorkers(p, rs), m)
    BY <1>1 DEF Post
  <2>2. PICK rs \in ReceiverLists : NewMessage(m, rs) /\ inbox' = Delivered(LocalWorkers(p, rs), m)
    BY <2>1
  <2>3. inbox' \in [Workers -> Seq(Messages \union {"init"})]
    BY <2>2, ReceiversFacts, DeliveredType
  <2>4. MessageTypes'
    BY <2>1, <2>2, NewMessageFacts DEF Inv, MessageTypes
  <2> QED
    BY <2>1, <2>3, <2>4 DEF platformVars, Inv, PlatformTypes, WorkerTypes, ServerTypes, SessionsOK, RunningOK, Host
<1>2. CASE PostToServer(m)
  <2>1. /\ UNCHANGED <<platformVars, workerVars, wire, sessions, cache, stage, handled>>
        /\ \E rs \in ReceiverLists : NewMessage(m, rs) /\ queue' = queue \union Queued(m, rs)
    BY <1>2 DEF PostToServer
  <2>2. PICK rs \in ReceiverLists : NewMessage(m, rs) /\ queue' = queue \union Queued(m, rs)
    BY <2>1
  <2>3. \A c \in Queued(m, rs) : c \in Messages \X Nat /\ c[2] \in DOMAIN posted'[c[1]]
    BY <2>2, NewMessageFacts, ReceiversFacts DEF Queued
  <2>4. MessageTypes'
    BY <2>1, <2>2, <2>3, NewMessageFacts DEF Inv, MessageTypes
  <2> QED
    BY <2>1, <2>4 DEF platformVars, workerVars, Inv, PlatformTypes, WorkerTypes, ServerTypes, SessionsOK, RunningOK, Host
<1>3. ASSUME NEW w \in DOMAIN workers, AgentPosts(w, m)
      PROVE  Inv'
  <2>1. /\ UNCHANGED <<platformVars, running, workers, inbox, wire, sessions, cache, stage, queue, handled>>
        /\ \E rs \in ReceiverLists : NewMessage(m, rs)
        /\ outbox' = [outbox EXCEPT ![w] = Append(@, m)]
    BY <1>3 DEF AgentPosts
  <2>2. PICK rs \in ReceiverLists : NewMessage(m, rs)
    BY <2>1
  <2>3. outbox' \in [Workers -> Seq(Messages \union {"move"})]
    <3>1. w \in Workers /\ Append(outbox[w], m) \in Seq(Messages \union {"move"})
      BY WorkersRange DEF Inv, WorkerTypes
    <3> QED
      BY <2>1, <3>1 DEF Inv, WorkerTypes
  <2>4. MessageTypes'
    BY <2>1, <2>2, NewMessageFacts DEF Inv, MessageTypes
  <2> QED
    BY <2>1, <2>3, <2>4 DEF platformVars, Inv, PlatformTypes, WorkerTypes, ServerTypes, SessionsOK, RunningOK, Host
<1> QED
  BY <1>1, <1>2, <1>3

LEMMA WorkersInv ==
  ASSUME Inv, NEW w \in DOMAIN workers,
         InitAgent(w) \/ HandleMessage(w) \/ MoveToServer(w) \/ PostOfWorker(w)
  PROVE  Inv'
<1> w \in Workers /\ workers[w].platform \in Platforms
  BY AidFacts
<1>1. inbox[w] \in Seq(Messages \union {"init"}) /\ outbox[w] \in Seq(Messages \union {"move"})
  BY DEF Inv, WorkerTypes
<1>2. CASE InitAgent(w)
  <2>1. /\ UNCHANGED <<platformVars, running, workers, wire, sessions, cache, stage, posted, queue, handled>>
        /\ inbox[w] # <<>>
        /\ inbox' = [inbox EXCEPT ![w] = Tail(@)]
        /\ outbox' \in {outbox, [outbox EXCEPT ![w] = Append(@, "move")]}
    BY <1>2 DEF InitAgent, Inv, WorkerTypes
  <2>2. Tail(inbox[w]) \in Seq(Messages \union {"init"})
    BY <1>1, <2>1, TailFacts
  <2>3. Append(outbox[w], "move") \in Seq(Messages \union {"move"})
    BY <1>1
  <2>4. inbox' \in [Workers -> Seq(Messages \union {"init"})]
    BY <2>1, <2>2 DEF Inv, WorkerTypes
  <2>5. outbox' \in [Workers -> Seq(Messages \union {"move"})]
    BY <2>1, <2>3 DEF Inv, WorkerTypes
  <2> QED
    BY <2>1, <2>4, <2>5 DEF platformVars, Inv, PlatformTypes, WorkerTypes, ServerTypes, MessageTypes,
                            SessionsOK, RunningOK, Host
<1>3. CASE HandleMessage(w)
  <2>1. /\ UNCHANGED <<platformVars, running, workers, outbox, wire, sessions, cache, stage, posted, queue>>
        /\ inbox[w] # <<>> /\ Head(inbox[w]) # "init"
        /\ inbox' = [inbox EXCEPT ![w] = Tail(@)]
        /\ handled' = [handled EXCEPT ![Head(inbox[w])][AidOf(w)] = @ + 1]
    BY <1>3 DEF HandleMessage
  <2>2. Head(inbox[w]) \in Messages /\ Tail(inbox[w]) \in Seq(Messages \union {"init"})
    BY <1>1, <2>1, TailFacts
  <2>3. AidOf(w) \in Aids
    BY AidFacts DEF Aids
  <2>4. handled' \in [Messages -> [Aids -> Nat]]
    BY <2>1, <2>2, <2>3 DEF Inv, MessageTypes
  <2>5. inbox' \in [Workers -> Seq(Messages \union {"init"})]
    BY <2>1, <2>2 DEF Inv, WorkerTypes
  <2> QED
    BY <2>1, <2>4, <2>5 DEF platformVars, Inv, PlatformTypes, WorkerTypes, ServerTypes, MessageTypes,
                            SessionsOK, RunningOK, Host
<1>4. CASE MoveToServer(w)
  <2>1. /\ UNCHANGED <<platformVars, running, workers, inbox, wire, sessions, cache, posted, queue, handled>>
        /\ outbox[w] # <<>>
        /\ outbox' = [outbox EXCEPT ![w] = Tail(@)]
        /\ stage' \in {stage, [stage EXCEPT ![<<w, "move">>] = "sent"]}
    BY <1>4 DEF MoveToServer, SendCall
  <2>2. Tail(outbox[w]) \in Seq(Messages \union {"move"})
    BY <1>1, <2>1, TailFacts
  <2>3. outbox' \in [Workers -> Seq(Messages \union {"move"})]
    BY <2>1, <2>2 DEF Inv, WorkerTypes
  <2>4. ServerTypes'
    BY <2>1 DEF Inv, ServerTypes, Stages
  <2> QED
    BY <2>1, <2>3, <2>4 DEF platformVars, Inv, PlatformTypes, WorkerTypes, MessageTypes,
                            SessionsOK, RunningOK, Host
<1>5. CASE PostOfWorker(w)
  <2> DEFINE m == Head(outbox[w])
  <2>1. /\ UNCHANGED <<platformVars, running, workers, wire, sessions, cache, stage, posted, queue, handled>>
        /\ outbox[w] # <<>> /\ m # "move"
        /\ inbox' = Delivered(LocalWorkers(workers[w].platform, posted[m]), m)
        /\ outbox' = [outbox EXCEPT ![w] = Tail(@)]
    BY <1>5 DEF PostOfWorker
  <2>2. m \in Messages /\ Tail(outbox[w]) \in Seq(Messages \union {"move"})
    BY <1>1, <2>1, TailFacts
  <2>3. inbox' \in [Workers -> Seq(Messages \union {"init"})]
    BY <2>1, <2>2, PostedFacts, DeliveredType DEF Inv
  <2>4. outbox' \in [Workers -> Seq(Messages \union {"move"})]
    BY <2>1, <2>2 DEF Inv, WorkerTypes
  <2> QED
    BY <2>1, <2>3, <2>4 DEF platformVars, Inv, PlatformTypes, WorkerTypes, ServerTypes, MessageTypes,
                            SessionsOK, RunningOK, Host
<1> QED
  BY <1>2, <1>3, <1>4, <1>5

LEMMA ServerInv ==
  ASSUME Inv,
         \/ \E c \in Calls : StartStub(c)
         \/ \E m \in Messages : \E i \in DOMAIN posted[m] : Deliver(m, i)
         \/ \E p \in Platforms : PostToClient(p)
  PROVE  Inv'
<1>1. ASSUME NEW c \in Calls, StartStub(c)
      PROVE  Inv'
  <2>1. /\ UNCHANGED <<platformVars, workerVars, wire, sessions, posted, queue, handled>>
        /\ cache' = [cache EXCEPT ![ServerAid(c)] = c]
        /\ stage' \in {[stage EXCEPT ![c] = "ready"], [stage EXCEPT ![c] = "failed"]}
    BY <1>1 DEF StartStub
  <2>2. ServerTypes'
    BY <2>1 DEF Inv, ServerTypes, Stages
  <2> QED
    BY <2>1, <2>2 DEF platformVars, workerVars, Inv, PlatformTypes, WorkerTypes, MessageTypes,
                      SessionsOK, RunningOK, Host
<1>2. ASSUME NEW m \in Messages, NEW i \in DOMAIN posted[m], Deliver(m, i)
      PROVE  Inv'
  <2>1. /\ UNCHANGED <<platformVars, workerVars, sessions, cache, stage, posted>>
        /\ queue' \subseteq queue
        /\ \/ handled' = [handled EXCEPT ![m][posted[m][i]] = @ + 1] /\ UNCHANGED wire
           \/ Forward(m) /\ UNCHANGED handled
           \/ UNCHANGED <<wire, handled>>
    BY <1>2 DEF Deliver
  <2>2. posted[m][i] \in Aids
    BY PostedFacts DEF Inv
  <2>3. handled' \in [Messages -> [Aids -> Nat]]
    <3>1. PICK aid \in Aids : aid = posted[m][i]
      BY <2>2
    <3>2. handled' \in {handled, [handled EXCEPT ![m][aid] = @ + 1]}
      BY <2>1, <3>1
    <3>3. handled \in [Messages -> [Aids -> Nat]]
      BY DEF Inv, MessageTypes
    <3> QED
      BY <3>2, <3>3
  <2>4. wire' \in [Platforms -> Seq(Messages)]
    <3>1. wire \in [Platforms -> Seq(Messages)]
      BY DEF Inv, MessageTypes
    <3>2. \A p \in Platforms : Append(wire[p], m) \in Seq(Messages)
      BY <3>1
    <3>3. Forward(m) => wire' \in [Platforms -> Seq(Messages)]
      BY <3>1, <3>2 DEF Forward
    <3> QED
      BY <2>1, <3>1, <3>3
  <2> QED
    BY <2>1, <2>3, <2>4 DEF platformVars, workerVars, Inv, PlatformTypes, WorkerTypes, ServerTypes,
                            MessageTypes, SessionsOK, RunningOK, Host
<1>3. ASSUME NEW p \in Platforms, PostToClient(p)
      PROVE  Inv'
  <2> DEFINE m == Head(wire[p])
  <2>1. /\ UNCHANGED <<platformVars, running, workers, outbox, sessions, cache, stage, posted, queue, handled>>
        /\ wire[p] # <<>>
        /\ wire' = [wire EXCEPT ![p] = Tail(@)]
        /\ inbox' = Delivered(LocalWorkers(p, posted[m]), m)
    BY <1>3 DEF PostToClient
  <2>2. m \in Messages /\ Tail(wire[p]) \in Seq(Messages)
    <3>1. wire[p] \in Seq(Messages)
      BY DEF Inv, MessageTypes
    <3> QED
      BY <2>1, <3>1, TailFacts
  <2>3. inbox' \in [Workers -> Seq(Messages \union {"init"})]
    BY <2>1, <2>2, PostedFacts, DeliveredType DEF Inv
  <2>4. wire' \in [Platforms -> Seq(Messages)]
    BY <2>1, <2>2 DEF Inv, MessageTypes
  <2> QED
    BY <2>1, <2>3, <2>4 DEF platformVars, Inv, PlatformTypes, WorkerTypes, ServerTypes, MessageTypes,
                            SessionsOK, RunningOK, Host
<1> QED
  BY <1>1, <1>2, <1>3

LEMMA NextInv == Inv /\ [Next]_vars => Inv'
<1> SUFFICES ASSUME Inv, [Next]_vars
             PROVE  Inv'
  OBVIOUS
<1>1. CASE UNCHANGED vars
  BY <1>1 DEF vars, platformVars, workerVars, Inv, PlatformTypes, WorkerTypes, ServerTypes,
              MessageTypes, SessionsOK, RunningOK, Host
<1>2. ASSUME NEW p \in Platforms, PlatformStep(p)
      PROVE  Inv'
  BY <1>2, PlatformsInv, StartsInv, PostsInv, ServerInv DEF PlatformStep
<1>3. ASSUME NEW w \in DOMAIN workers, WorkerStep(w)
      PROVE  Inv'
  BY <1>3, WorkersInv, PostsInv DEF WorkerStep
<1>4. CASE ServerStep
  BY <1>4, PostsInv, ServerInv DEF ServerStep
<1> QED
  BY <1>1, <1>2, <1>3, <1>4 DEF Next

LEMMA Invariant == Spec => []Inv
BY InitInv, NextInv, PTL DEF Spec

\* For any pages, agents, messages and workers: the state of the platforms,
\* workers, calls and messages keeps its types.
THEOREM TypeCorrect == Spec => []TypeOK
<1>1. Inv => TypeOK
  BY DEF Inv, PlatformTypes, WorkerTypes, ServerTypes, MessageTypes, TypeOK
<1> QED
  BY <1>1, Invariant, PTL

-----------------------------------------------------------------------------
(* No message is lost while an agent is settled *)

LEMMA InConcat ==
  ASSUME NEW S, NEW s \in Seq(S), NEW t \in Seq(S)
  PROVE  ToSet(s \o t) = ToSet(s) \union ToSet(t)
<1>1. /\ Len(s) \in Nat /\ DOMAIN s = 1..Len(s) /\ Len(t) \in Nat /\ DOMAIN t = 1..Len(t)
      /\ DOMAIN (s \o t) = 1..(Len(s) + Len(t))
      /\ \A i \in 1..(Len(s) + Len(t)) : (s \o t)[i] = IF i <= Len(s) THEN s[i] ELSE t[i - Len(s)]
  BY ConcatProperties, LenProperties
<1> DEFINE u == s \o t
<1> HIDE DEF u
<1>2. /\ DOMAIN u = 1..(Len(s) + Len(t))
      /\ \A i \in 1..(Len(s) + Len(t)) : u[i] = IF i <= Len(s) THEN s[i] ELSE t[i - Len(s)]
  BY <1>1 DEF u
<1>3. ASSUME NEW i \in DOMAIN u
      PROVE  u[i] \in ToSet(s) \union ToSet(t)
  <2>1. CASE i <= Len(s)
    BY <2>1, <1>1, <1>2 DEF ToSet
  <2>2. CASE ~(i <= Len(s))
    <3>1. i - Len(s) \in 1..Len(t) /\ u[i] = t[i - Len(s)]
      BY <2>2, <1>1, <1>2
    <3> QED
      BY <3>1, <1>1 DEF ToSet
  <2> QED
    BY <2>1, <2>2
<1>4. \A i \in 1..Len(s) : s[i] \in ToSet(u)
  <2> TAKE i \in 1..Len(s)
  <2>1. i \in DOMAIN u /\ u[i] = s[i]
    BY <1>1, <1>2
  <2> QED
    BY <2>1 DEF ToSet
<1>5. \A i \in 1..Len(t) : t[i] \in ToSet(u)
  <2> TAKE i \in 1..Len(t)
  <2>1. Len(s) + i \in DOMAIN u /\ u[Len(s) + i] = t[i]
    BY <1>1, <1>2
  <2> QED
    BY <2>1 DEF ToSet
<1>6. ToSet(u) \subseteq ToSet(s) \union ToSet(t)
  BY <1>3 DEF ToSet
<1>7. ToSet(s) \subseteq ToSet(u) /\ ToSet(t) \subseteq ToSet(u)
  BY <1>1, <1>4, <1>5 DEF ToSet
<1> QED
  BY <1>6, <1>7 DEF u

LEMMA InAppend ==
  ASSUME NEW S, NEW s \in Seq(S), NEW x \in S
  PROVE  ToSet(Append(s, x)) = ToSet(s) \union {x}
<1>1. Append(s, x) = s \o <<x>> /\ <<x>> \in Seq(S)
  OBVIOUS
<1>2. ToSet(<<x>>) = {x}
  BY DEF ToSet
<1> DEFINE t == <<x>>
<1> HIDE DEF t
<1>3. ToSet(s \o t) = ToSet(s) \union ToSet(t)
  BY <1>1, InConcat DEF t
<1> QED
  BY <1>1, <1>2, <1>3 DEF t

LEMMA InTail ==
  ASSUME NEW S, NEW s \in Seq(S), s # <<>>
  PROVE  ToSet(s) = {Head(s)} \union ToSet(Tail(s))
<1>1. /\ Head(s) \in S /\ Tail(s) \in Seq(S) /\ <<Head(s)>> \in Seq(S)
      /\ s = <<Head(s)>> \o Tail(s)
  <2>1. Head(s) \in S /\ Tail(s) \in Seq(S)
    BY TailFacts
  <2> QED
    BY <2>1
<1>2. ToSet(<<Head(s)>>) = {Head(s)}
  BY DEF ToSet
<1> DEFINE t == <<Head(s)>>
           u == Tail(s)
<1> HIDE DEF t, u
<1>3. ToSet(t \o u) = ToSet(t) \union ToSet(u)
  BY <1>1, InConcat DEF t, u
<1> QED
  BY <1>1, <1>2, <1>3 DEF t, u

\* Which steps change which messages.
LEMMA PostedSteps ==
  ASSUME [Next]_vars
  PROVE  UNCHANGED posted \/ \E x \in Messages, rs \in ReceiverLists : NewMessage(x, rs)
<1>1. ASSUME NEW p \in Platforms, PlatformStep(p)
      PROVE  UNCHANGED posted \/ \E x \in Messages, rs \in ReceiverLists : NewMessage(x, rs)
  BY <1>1 DEF PlatformStep, CreateRadigost, Register, ClosePage, Start, GetRunning, RecreateAgents,
              Post, PostToClient
<1>2. ASSUME NEW w \in DOMAIN workers, WorkerStep(w)
      PROVE  UNCHANGED posted \/ \E x \in Messages, rs \in ReceiverLists : NewMessage(x, rs)
  BY <1>2 DEF WorkerStep, AgentPosts, InitAgent, HandleMessage, MoveToServer, PostOfWorker
<1>3. CASE ServerStep
  BY <1>3 DEF ServerStep, PostToServer, StartStub, Deliver
<1>4. CASE UNCHANGED vars
  BY <1>4 DEF vars
<1> QED
  BY <1>1, <1>2, <1>3, <1>4 DEF Next

\* A step neither changes the receivers of a message that was posted nor the
\* workers that exist.
LEMMA PostedKept ==
  ASSUME Inv, [Next]_vars, NEW m \in Messages, posted[m] # <<>>
  PROVE  posted'[m] = posted[m]
<1>1. ASSUME NEW x \in Messages, NEW rs \in ReceiverLists, NewMessage(x, rs)
      PROVE  posted'[m] = posted[m]
  BY <1>1, NewMessageFacts DEF Inv, MessageTypes
<1>2. CASE UNCHANGED posted
  BY <1>2
<1> QED
  BY <1>1, <1>2, PostedSteps

LEMMA WorkersKept ==
  ASSUME Inv, [Next]_vars, NEW w \in DOMAIN workers
  PROVE  w \in DOMAIN workers' /\ workers'[w] = workers[w]
<1>1. ASSUME NEW p \in Platforms, NEW n \in Names, Start(p, n)
      PROVE  w \in DOMAIN workers' /\ workers'[w] = workers[w]
  <2>1. Spawn(p, {n})
    BY <1>1 DEF Start
  <2> QED
    BY <2>1, SpawnFacts
<1>2. ASSUME NEW p \in Platforms, RecreateAgents(p)
      PROVE  w \in DOMAIN workers' /\ workers'[w] = workers[w]
  <2>1. Spawn(p, listing[p].names \ Mobile)
    BY <1>2 DEF RecreateAgents
  <2>2. listing[p].names \ Mobile \in SUBSET Names
    BY DEF Inv, PlatformTypes
  <2> QED
    BY <2>1, <2>2, SpawnFacts
<1>3. ASSUME NEW p \in Platforms, PlatformStep(p)
      PROVE  w \in DOMAIN workers' /\ workers'[w] = workers[w]
  BY <1>1, <1>2, <1>3 DEF PlatformStep, CreateRadigost, Register, ClosePage, GetRunning, Post,
                          PostToClient, workerVars
<1>4. ASSUME NEW v \in DOMAIN workers, WorkerStep(v)
      PROVE  UNCHANGED workers
  BY <1>4 DEF WorkerStep, AgentPosts, InitAgent, HandleMessage, MoveToServer, PostOfWorker
<1>5. CASE ServerStep
  BY <1>5 DEF ServerStep, PostToServer, StartStub, Deliver, workerVars
<1>6. CASE UNCHANGED vars
  BY <1>6 DEF vars, workerVars
<1> QED
  BY <1>3, <1>4, <1>5, <1>6 DEF Next

\* What is delivered locally joins what the workers have.
LEMMA DeliveredIn ==
  ASSUME Inv, NEW p \in Platforms, NEW rs \in Seq(Aids), NEW m \in Messages, NEW w \in Workers
  PROVE  /\ ToSet(inbox[w]) \subseteq ToSet(Delivered(LocalWorkers(p, rs), m)[w])
         /\ \A i \in DOMAIN rs : GetAgent(p, rs[i]) = w
              => m \in ToSet(Delivered(LocalWorkers(p, rs), m)[w])
<1> DEFINE ws == LocalWorkers(p, rs)
           c == Copies(ws, w, m)
           S == Messages \union {"init"}
<1>1. ws \in Seq(Nat) /\ DOMAIN ws = DOMAIN rs /\ \A i \in DOMAIN rs : ws[i] = GetAgent(p, rs[i])
  BY LocalFacts
<1> HIDE DEF ws
<1>2. c \in Seq(S) /\ (\A k \in 1..Len(c) : c[k] = m) /\ ((\E i \in DOMAIN ws : ws[i] = w) => Len(c) > 0)
  BY <1>1, CopiesFacts
<1>3. inbox[w] \in Seq(S)
  BY DEF Inv, WorkerTypes
<1>4. Delivered(ws, m)[w] = inbox[w] \o c
  BY DeliveredIs
<1> HIDE DEF c, S
<1>5. ToSet(Delivered(ws, m)[w]) = ToSet(inbox[w]) \union ToSet(c)
  BY <1>2, <1>3, <1>4, InConcat
<1>6. Len(c) > 0 => m \in ToSet(c)
  <2>1. Len(c) \in Nat /\ DOMAIN c = 1..Len(c)
    BY <1>2, LenProperties
  <2>2. Len(c) > 0 => 1 \in DOMAIN c /\ c[1] = m
    BY <1>2, <2>1
  <2> QED
    BY <2>2 DEF ToSet
<1>7. \A i \in DOMAIN rs : GetAgent(p, rs[i]) = w => m \in ToSet(c)
  BY <1>1, <1>2, <1>6
<1> QED
  BY <1>5, <1>7 DEF ws

\* A message leaves the queue only when it is delivered, the socket when the
\* frame arrives or the page goes, and a worker when it is handled or the page
\* goes.
LEMMA QueueKept ==
  ASSUME [Next]_vars, NEW m \in Messages, NEW i \in Nat, <<m, i>> \in queue
  PROVE  <<m, i>> \in queue' \/ Deliver(m, i)
<1>1. ASSUME NEW p \in Platforms, PlatformStep(p)
      PROVE  UNCHANGED queue
  BY <1>1 DEF PlatformStep, CreateRadigost, Register, ClosePage, Start, GetRunning, RecreateAgents,
              Post, PostToClient
<1>2. ASSUME NEW w \in DOMAIN workers, WorkerStep(w)
      PROVE  UNCHANGED queue
  BY <1>2 DEF WorkerStep, AgentPosts, InitAgent, HandleMessage, MoveToServer, PostOfWorker
<1>3. ASSUME NEW x \in Messages, NEW j \in DOMAIN posted[x], Deliver(x, j)
      PROVE  <<m, i>> \in queue' \/ Deliver(m, i)
  <2>1. queue' = queue \ {<<x, j>>}
    BY <1>3 DEF Deliver
  <2>2. CASE <<x, j>> = <<m, i>>
    BY <2>2, <1>3
  <2>3. CASE <<x, j>> # <<m, i>>
    BY <2>1, <2>3
  <2> QED
    BY <2>2, <2>3
<1>4. CASE ServerStep
  BY <1>3, <1>4 DEF ServerStep, PostToServer, StartStub
<1>5. CASE UNCHANGED vars
  BY <1>5 DEF vars
<1> QED
  BY <1>1, <1>2, <1>4, <1>5 DEF Next

LEMMA FrameKept ==
  ASSUME Inv, [Next]_vars, NEW m, NEW p \in Platforms, m \in ToSet(wire[p])
  PROVE  m \in ToSet(wire'[p]) \/ ClosePage(p) \/ (PostToClient(p) /\ m = Head(wire[p]))
<1> DEFINE Goal == m \in ToSet(wire'[p]) \/ ClosePage(p) \/ (PostToClient(p) /\ m = Head(wire[p]))
<1>1. wire \in [Platforms -> Seq(Messages)]
  BY DEF Inv, MessageTypes
<1>2. ASSUME NEW q \in Platforms, ClosePage(q)
      PROVE  Goal
  <2>1. wire' = [wire EXCEPT ![q] = <<>>]
    BY <1>2 DEF ClosePage
  <2> QED
    BY <1>1, <1>2, <2>1
<1>3. ASSUME NEW q \in Platforms, PostToClient(q)
      PROVE  Goal
  <2>1. wire[q] # <<>> /\ wire' = [wire EXCEPT ![q] = Tail(@)]
    BY <1>3 DEF PostToClient
  <2>2. CASE q # p
    <3>1. wire'[p] = wire[p]
      BY <1>1, <2>1, <2>2
    <3> QED
      BY <3>1
  <2>3. CASE q = p
    <3>1. wire'[p] = Tail(wire[p]) /\ wire[p] # <<>> /\ wire[p] \in Seq(Messages)
      BY <1>1, <2>1, <2>3
    <3>2. m = Head(wire[p]) \/ m \in ToSet(wire'[p])
      BY <3>1, InTail
    <3> QED
      BY <1>3, <2>3, <3>2
  <2> QED
    BY <2>2, <2>3
<1>4. ASSUME NEW p1 \in Platforms, PlatformStep(p1)
      PROVE  Goal
  BY <1>2, <1>3, <1>4 DEF PlatformStep, CreateRadigost, Register, Start, GetRunning, RecreateAgents, Post
<1>5. ASSUME NEW w \in DOMAIN workers, WorkerStep(w)
      PROVE  UNCHANGED wire
  BY <1>5 DEF WorkerStep, AgentPosts, InitAgent, HandleMessage, MoveToServer, PostOfWorker
<1>6. ASSUME NEW x \in Messages, Forward(x)
      PROVE  Goal
  <2>1. wire'[p] \in {wire[p], Append(wire[p], x)}
    BY <1>6 DEF Forward
  <2>2. ToSet(Append(wire[p], x)) = ToSet(wire[p]) \union {x}
    BY <1>1, InAppend
  <2> QED
    BY <2>1, <2>2
<1>7. CASE ServerStep
  <2>1. UNCHANGED wire \/ \E x \in Messages : Forward(x)
    BY <1>7 DEF ServerStep, PostToServer, StartStub, Deliver
  <2> QED
    BY <1>6, <2>1
<1>8. CASE UNCHANGED vars
  BY <1>8 DEF vars
<1> QED
  BY <1>4, <1>5, <1>7, <1>8 DEF Next

LEMMA InboxKept ==
  ASSUME Inv, [Next]_vars, NEW m \in Messages, NEW w \in DOMAIN workers, m \in ToSet(inbox[w])
  PROVE  m \in ToSet(inbox'[w]) \/ ClosePage(workers[w].platform)
         \/ (HandleMessage(w) /\ m = Head(inbox[w]))
<1> DEFINE Goal == m \in ToSet(inbox'[w]) \/ ClosePage(workers[w].platform)
                   \/ (HandleMessage(w) /\ m = Head(inbox[w]))
<1>1. w \in Workers /\ inbox \in [Workers -> Seq(Messages \union {"init"})]
  BY AidFacts DEF Inv, WorkerTypes
<1>2. ASSUME NEW p \in Platforms, NEW rs \in Seq(Aids), NEW x \in Messages,
             inbox' = Delivered(LocalWorkers(p, rs), x)
      PROVE  Goal
  BY <1>1, <1>2, DeliveredIn
<1>3. ASSUME NEW p \in Platforms, NEW ns \in SUBSET Names, Spawn(p, ns)
      PROVE  Goal
  <2>1. inbox'[w] = inbox[w]
    BY <1>3, SpawnFacts
  <2> QED
    BY <2>1
<1>4. ASSUME NEW v \in Workers, inbox[v] # <<>>, inbox' = [inbox EXCEPT ![v] = Tail(@)],
             v = w => m # Head(inbox[v])
      PROVE  Goal
  <2>1. CASE v = w
    <3>1. inbox'[w] = Tail(inbox[w]) /\ ToSet(inbox[w]) = {Head(inbox[w])} \union ToSet(Tail(inbox[w]))
      BY <1>1, <1>4, <2>1, InTail
    <3> QED
      BY <3>1, <1>4, <2>1
  <2>2. CASE v # w
    <3>1. inbox'[w] = inbox[w]
      BY <1>1, <1>4, <2>2
    <3> QED
      BY <3>1
  <2> QED
    BY <2>1, <2>2
<1>5. ASSUME NEW p \in Platforms, ClosePage(p)
      PROVE  Goal
  <2>1. inbox' = [v \in Workers |->
          IF v \in DOMAIN workers /\ workers[v].platform = p THEN <<>> ELSE inbox[v]]
    BY <1>5 DEF ClosePage
  <2>2. CASE workers[w].platform = p
    BY <1>5, <2>2
  <2>3. CASE workers[w].platform # p
    <3>1. inbox'[w] = inbox[w]
      BY <1>1, <2>1, <2>3
    <3> QED
      BY <3>1
  <2> QED
    BY <2>2, <2>3
<1>6. ASSUME NEW p \in Platforms, PlatformStep(p)
      PROVE  Goal
  <2>1. ASSUME NEW x \in Messages, Post(p, x)
        PROVE  Goal
    <3>1. PICK rs \in ReceiverLists : inbox' = Delivered(LocalWorkers(p, rs), x)
      BY <2>1 DEF Post
    <3> QED
      BY <3>1, <1>2, ReceiversFacts
  <2>2. CASE PostToClient(p)
    <3>1. wire[p] # <<>> /\ inbox' = Delivered(LocalWorkers(p, posted[Head(wire[p])]), Head(wire[p]))
      BY <2>2 DEF PostToClient
    <3>2. Head(wire[p]) \in Messages
      BY <3>1, TailFacts DEF Inv, MessageTypes
    <3>3. posted[Head(wire[p])] \in Seq(Aids)
      BY <3>2, PostedFacts DEF Inv
    <3> QED
      BY <3>1, <3>2, <3>3, <1>2
  <2>3. ASSUME NEW n \in Names, Start(p, n)
        PROVE  Goal
    BY <2>3, <1>3 DEF Start
  <2>4. CASE RecreateAgents(p)
    <3>1. Spawn(p, listing[p].names \ Mobile) /\ listing[p].names \ Mobile \in SUBSET Names
      BY <2>4 DEF RecreateAgents, Inv, PlatformTypes
    <3> QED
      BY <3>1, <1>3
  <2>5. CASE CreateRadigost(p) \/ Register(p) \/ GetRunning(p)
    BY <2>5 DEF CreateRadigost, Register, GetRunning, workerVars
  <2> QED
    BY <1>5, <1>6, <2>1, <2>2, <2>3, <2>4, <2>5 DEF PlatformStep
<1>7. ASSUME NEW v \in DOMAIN workers, WorkerStep(v)
      PROVE  Goal
  <2>0. v \in Workers /\ workers[v].platform \in Platforms
    BY AidFacts
  <2>1. CASE InitAgent(v)
    <3>1. inbox[v] # <<>> /\ inbox' = [inbox EXCEPT ![v] = Tail(@)] /\ Head(inbox[v]) = "init"
      BY <2>1 DEF InitAgent
    <3>2. m # "init"
      BY MessagesApart
    <3> QED
      BY <2>0, <3>1, <3>2, <1>4
  <2>2. CASE HandleMessage(v)
    <3>1. inbox[v] # <<>> /\ inbox' = [inbox EXCEPT ![v] = Tail(@)]
      BY <2>2 DEF HandleMessage
    <3>2. CASE v = w /\ m = Head(inbox[v])
      BY <2>2, <3>2
    <3>3. CASE ~(v = w /\ m = Head(inbox[v]))
      BY <2>0, <3>1, <3>3, <1>4
    <3> QED
      BY <3>2, <3>3
  <2>3. CASE PostOfWorker(v)
    <3>1. /\ outbox[v] # <<>> /\ Head(outbox[v]) # "move"
          /\ inbox' = Delivered(LocalWorkers(workers[v].platform, posted[Head(outbox[v])]), Head(outbox[v]))
      BY <2>3 DEF PostOfWorker
    <3>2. Head(outbox[v]) \in Messages
      <4>1. outbox[v] \in Seq(Messages \union {"move"})
        BY <2>0 DEF Inv, WorkerTypes
      <4> QED
        BY <4>1, <3>1, TailFacts
    <3>3. posted[Head(outbox[v])] \in Seq(Aids)
      BY <3>2, PostedFacts DEF Inv
    <3> QED
      BY <2>0, <3>1, <3>2, <3>3, <1>2
  <2>4. CASE (\E x \in Messages : AgentPosts(v, x)) \/ MoveToServer(v)
    BY <2>4 DEF AgentPosts, MoveToServer
  <2> QED
    BY <1>7, <2>1, <2>2, <2>3, <2>4 DEF WorkerStep
<1>8. CASE ServerStep
  BY <1>8 DEF ServerStep, PostToServer, StartStub, Deliver, workerVars
<1>9. CASE UNCHANGED vars
  BY <1>9 DEF vars, workerVars
<1> QED
  BY <1>6, <1>7, <1>8, <1>9 DEF Next

\* The session of a settled agent's host is that of the platform, which has
\* this host, is open and runs the agent.
LEMMA SettledFacts ==
  ASSUME Inv, NEW a \in ClientAids, NEW p \in Platforms, Settled(a, p)
  PROVE  /\ Host(p) = a[2] /\ a[1] \in Names /\ a[2] \in Hosts
         /\ GetAgent(p, a) \in DOMAIN workers /\ GetAgent(p, a) \in Workers
         /\ workers[GetAgent(p, a)] = [platform |-> p, name |-> a[1]]
         /\ ~ClosePage(p) \/ ~Settled(a, p)'
<1>1. a[1] \in Names /\ a[2] \in Hosts
  BY DEF ClientAids
<1>2. sessions[a[2]] = p /\ socket[p] = "open" /\ running[p][a[1]] # 0
  BY DEF Settled, SessionOf
<1>3. Host(p) = a[2]
  BY <1>1, <1>2 DEF Inv, SessionsOK
<1>4. GetAgent(p, a) = running[p][a[1]]
  BY <1>3 DEF GetAgent
<1>5. running[p][a[1]] \in DOMAIN workers /\ DOMAIN workers \subseteq Workers
  <2>1. running[p][a[1]] \in 0..Len(workers)
    BY <1>1 DEF Inv, WorkerTypes
  <2> QED
    BY <2>1, <1>2, WorkersRange DEF Inv
<1>6. workers[running[p][a[1]]] = [platform |-> p, name |-> a[1]]
  BY <1>1, <1>2 DEF Inv, RunningOK
<1>7. ClosePage(p) => ~Settled(a, p)'
  <2>1. ClosePage(p) => socket'[p] = "closed"
    BY DEF ClosePage, Inv, PlatformTypes
  <2>2. Settled(a, p)' => socket'[p] = "open"
    BY DEF Settled, SessionOf
  <2> QED
    BY <2>1, <2>2
<1> QED
  BY <1>1, <1>3, <1>4, <1>5, <1>6, <1>7

LEMMA SettledStep ==
  ASSUME Inv, [Next]_vars, NEW m \in Messages, NEW a \in ClientAids, NEW p \in Platforms,
         Settled(a, p), Pending(m, a, p), FirstHost(m, a), Settled(a, p)'
  PROVE  handled'[m][a] > 0 \/ Pending(m, a, p)'
<1>1. PICK r \in DOMAIN posted[m] : posted[m][r] = a
  BY DEF Pending
<1>2. posted[m] # <<>> /\ Head(posted[m])[2] = a[2]
  BY DEF FirstHost
<1>3. posted'[m] = posted[m]
  BY <1>2, PostedKept
<1>4. ~ClosePage(p) /\ Host(p) = a[2] /\ a[1] \in Names
  BY SettledFacts
<1>5. ASSUME NEW i \in DOMAIN posted[m], posted[m][i] = a, <<m, i>> \in queue
      PROVE  Pending(m, a, p)'
  <2>1. i \in Nat
    BY PostedFacts DEF Inv
  <2>2. CASE <<m, i>> \in queue'
    BY <1>3, <1>5, <2>2 DEF Pending
  <2>3. CASE Deliver(m, i)
    <3>1. a \notin ServerAgents /\ Runs(a, "stub") /\ ~Runs(a, "move")
      BY ServerAgentsApart DEF Settled, Runs
    <3>2. Forward(m)
      BY <2>3, <3>1, <1>5 DEF Deliver
    <3>3. p \in SessionOf(Head(posted[m])[2])
      BY <1>2 DEF Settled
    <3>4. wire'[p] = Append(wire[p], m)
      BY <3>2, <3>3 DEF Forward
    <3>5. m \in ToSet(wire'[p])
      BY <3>4, InAppend DEF Inv, MessageTypes
    <3> QED
      BY <1>1, <1>3, <3>5 DEF Pending
  <2> QED
    BY <1>5, <2>1, <2>2, <2>3, QueueKept
<1>6. CASE m \in ToSet(wire[p])
  <2>1. CASE m \in ToSet(wire'[p])
    BY <1>1, <1>3, <2>1 DEF Pending
  <2>2. CASE PostToClient(p) /\ m = Head(wire[p])
    <3> DEFINE w == GetAgent(p, a)
    <3>1. inbox' = Delivered(LocalWorkers(p, posted[m]), m) /\ UNCHANGED workers
      BY <2>2 DEF PostToClient
    <3>2. /\ w \in Workers /\ w \in DOMAIN workers
          /\ workers[w] = [platform |-> p, name |-> a[1]]
      BY SettledFacts
    <3>3. m \in ToSet(inbox'[w])
      BY <1>1, <3>1, <3>2, PostedFacts, DeliveredIn DEF Inv
    <3> HIDE DEF w
    <3> QED
      BY <1>1, <1>3, <3>1, <3>2, <3>3 DEF Pending
  <2> QED
    BY <1>4, <1>6, <2>1, <2>2, FrameKept
<1>7. ASSUME NEW w \in DOMAIN workers, workers[w] = [platform |-> p, name |-> a[1]],
             m \in ToSet(inbox[w])
      PROVE  handled'[m][a] > 0 \/ Pending(m, a, p)'
  <2>1. w \in DOMAIN workers' /\ workers'[w] = workers[w]
    BY WorkersKept
  <2>2. CASE m \in ToSet(inbox'[w])
    BY <1>1, <1>3, <1>7, <2>1, <2>2 DEF Pending
  <2>3. CASE HandleMessage(w) /\ m = Head(inbox[w])
    <3>1. AidOf(w) = a
      <4>1. AidOf(w) = <<a[1], a[2]>>
        BY <1>4, <1>7 DEF AidOf
      <4> QED
        BY <4>1 DEF ClientAids
    <3>2. handled' = [handled EXCEPT ![m][a] = @ + 1]
      BY <2>3, <3>1 DEF HandleMessage
    <3>3. handled \in [Messages -> [Aids -> Nat]] /\ a \in Aids
      BY DEF Inv, MessageTypes, Aids
    <3> QED
      BY <3>2, <3>3
  <2>4. workers[w].platform = p
    BY <1>7
  <2> QED
    BY <1>4, <1>7, <2>2, <2>3, <2>4, InboxKept
<1> QED
  BY <1>5, <1>6, <1>7 DEF Pending

\* For any pages, agents, messages and workers: as long as an agent is settled
\* no message on its way to it gets lost, unless the message's first receiver
\* has another host (RadigostStub, WebClientSocket, postToClient).
THEOREM NothingLostMeanwhile == Spec => NotLostWhileSettled
<1>1. Inv /\ [Next]_vars =>
        [\A m \in Messages, a \in ClientAids, p \in Platforms :
           Settled(a, p) /\ Pending(m, a, p) /\ FirstHost(m, a) =>
             \/ handled'[m][a] > 0
             \/ Pending(m, a, p)'
             \/ ~Settled(a, p)']_vars
  BY SettledStep
<1> QED
  BY <1>1, Invariant, PTL DEF Spec, NotLostWhileSettled

-----------------------------------------------------------------------------
(* A message to one client-side agent is in one place at a time *)

\* In a family of sequences, m does not occur, or occurs once at most.
Nowhere(f, m) == \A i \in DOMAIN f : \A k \in DOMAIN f[i] : f[i][k] # m

Once(f, m) ==
  \A i, j \in DOMAIN f : \A k \in DOMAIN f[i], l \in DOMAIN f[j] :
    f[i][k] = m /\ f[j][l] = m => i = j /\ k = l

\* g has no more of m than f.
NoMore(f, g, m) == (Nowhere(f, m) => Nowhere(g, m)) /\ (Once(f, m) => Once(g, m))

\* Every m of g was in f, d[i] places further on.
From(I, f, g, m, d) ==
  \A i \in I : \A k \in 1..Len(g[i]) :
    g[i][k] = m => k + d[i] \in 1..Len(f[i]) /\ f[i][k + d[i]] = m

LEMMA Shifted ==
  ASSUME NEW I, NEW S, NEW f \in [I -> Seq(S)], NEW g \in [I -> Seq(S)], NEW m, NEW d \in [I -> Nat],
         From(I, f, g, m, d)
  PROVE  NoMore(f, g, m)
<1>1. \A i \in I : DOMAIN f[i] = 1..Len(f[i]) /\ DOMAIN g[i] = 1..Len(g[i])
  BY LenProperties
<1>2. \A i \in I : Len(g[i]) \in Nat
  BY LenProperties
<1>3. Nowhere(f, m) => Nowhere(g, m)
  BY <1>1 DEF Nowhere, From
<1>4. ASSUME Once(f, m), NEW i \in I, NEW j \in I, NEW k \in DOMAIN g[i], NEW l \in DOMAIN g[j],
             g[i][k] = m, g[j][l] = m
      PROVE  i = j /\ k = l
  <2>1. /\ k + d[i] \in DOMAIN f[i] /\ f[i][k + d[i]] = m
        /\ l + d[j] \in DOMAIN f[j] /\ f[j][l + d[j]] = m
    BY <1>1, <1>4 DEF From
  <2>2. i = j /\ k + d[i] = l + d[j]
    BY <1>4, <2>1 DEF Once
  <2>3. k \in Nat /\ l \in Nat /\ d[i] \in Nat
    BY <1>1, <1>2, <1>4
  <2> QED
    BY <2>2, <2>3
<1>5. Once(f, m) => Once(g, m)
  BY <1>4 DEF Once
<1> QED
  BY <1>3, <1>5 DEF NoMore

\* Every m of g was there in f.
Within(I, f, g, m) ==
  \A i \in I : \A k \in 1..Len(g[i]) : g[i][k] = m => k \in 1..Len(f[i]) /\ f[i][k] = m

LEMMA FewerOf ==
  ASSUME NEW I, NEW S, NEW f \in [I -> Seq(S)], NEW g \in [I -> Seq(S)], NEW m, Within(I, f, g, m)
  PROVE  NoMore(f, g, m)
<1> DEFINE d == [i \in I |-> 0]
<1>1. \A i \in I : Len(g[i]) \in Nat
  BY LenProperties
<1>2. d \in [I -> Nat] /\ \A i \in I : \A k \in 1..Len(g[i]) : k + d[i] = k
  BY <1>1
<1> HIDE DEF d
<1>3. From(I, f, g, m, d)
  BY <1>2 DEF From, Within
<1> QED
  BY <1>2, <1>3, Shifted

\* The head of one of the sequences is taken off.
LEMMA HeadTaken ==
  ASSUME NEW I, NEW S, NEW f \in [I -> Seq(S)], NEW i \in I, f[i] # <<>>, NEW m
  PROVE  /\ NoMore(f, [f EXCEPT ![i] = Tail(@)], m)
         /\ Head(f[i]) = m /\ Once(f, m) => Nowhere([f EXCEPT ![i] = Tail(@)], m)
<1> DEFINE g == [f EXCEPT ![i] = Tail(@)]
           d == [j \in I |-> IF j = i THEN 1 ELSE 0]
<1>1. /\ Head(f[i]) = f[i][1] /\ 1 \in 1..Len(f[i]) /\ DOMAIN f[i] = 1..Len(f[i])
      /\ Tail(f[i]) \in Seq(S) /\ Len(Tail(f[i])) = Len(f[i]) - 1 /\ Len(f[i]) \in Nat
      /\ \A k \in 1..Len(Tail(f[i])) : Tail(f[i])[k] = f[i][k + 1]
  BY TailFacts, LenProperties
<1>2. /\ g \in [I -> Seq(S)] /\ d \in [I -> Nat] /\ g[i] = Tail(f[i]) /\ d[i] = 1
      /\ \A j \in I \ {i} : g[j] = f[j] /\ d[j] = 0
  BY <1>1
<1> HIDE DEF g, d
<1>3. ASSUME NEW j \in I, NEW k \in 1..Len(g[j])
      PROVE  k + d[j] \in 1..Len(f[j]) /\ g[j][k] = f[j][k + d[j]]
  <2>1. CASE j = i
    <3>1. k \in 1..Len(f[i]) - 1 /\ g[i][k] = f[i][k + 1]
      BY <1>1, <1>2, <1>3, <2>1
    <3>2. k + 1 \in 1..Len(f[i])
      BY <1>1, <3>1
    <3> QED
      BY <1>2, <2>1, <3>1, <3>2
  <2>2. CASE j # i
    <3>1. Len(g[j]) \in Nat
      BY <1>2, LenProperties
    <3> QED
      BY <1>2, <1>3, <2>2, <3>1
  <2> QED
    BY <2>1, <2>2
<1>4. NoMore(f, g, m)
  <2>1. From(I, f, g, m, d)
    BY <1>3 DEF From
  <2> QED
    BY <1>2, <2>1, Shifted
<1>5. ASSUME Head(f[i]) = m, Once(f, m), NEW j \in DOMAIN g, NEW k \in DOMAIN g[j], g[j][k] = m
      PROVE  FALSE
  <2>1. j \in I /\ k \in 1..Len(g[j]) /\ Len(g[j]) \in Nat
    BY <1>2, <1>5, LenProperties
  <2>2. k + d[j] \in 1..Len(f[j]) /\ f[j][k + d[j]] = m /\ DOMAIN f[j] = 1..Len(f[j])
    BY <1>3, <1>5, <2>1, LenProperties
  <2>3. j = i /\ k + d[j] = 1
    BY <1>1, <1>5, <2>1, <2>2 DEF Once
  <2> QED
    BY <1>2, <2>1, <2>3
<1>6. Head(f[i]) = m /\ Once(f, m) => Nowhere(g, m)
  BY <1>5 DEF Nowhere
<1> QED
  BY <1>4, <1>6 DEF g

\* Sequences are appended to.
LEMMA Joined ==
  ASSUME NEW I, NEW S, NEW f \in [I -> Seq(S)], NEW c \in [I -> Seq(S)], NEW g, NEW m,
         g = [i \in I |-> f[i] \o c[i]]
  PROVE  /\ g \in [I -> Seq(S)]
         /\ Nowhere(c, m) => NoMore(f, g, m)
         /\ Nowhere(f, m) /\ Once(c, m) => Once(g, m)
<1>1. \A i \in I : /\ g[i] \in Seq(S) /\ Len(g[i]) = Len(f[i]) + Len(c[i])
                   /\ Len(f[i]) \in Nat /\ Len(c[i]) \in Nat
                   /\ DOMAIN g[i] = 1..Len(g[i]) /\ DOMAIN f[i] = 1..Len(f[i])
                   /\ DOMAIN c[i] = 1..Len(c[i])
  <2> TAKE i \in I
  <2>1. f[i] \in Seq(S) /\ c[i] \in Seq(S) /\ g[i] = f[i] \o c[i]
    OBVIOUS
  <2> QED
    BY <2>1, ConcatProperties, LenProperties
<1>2. \A i \in I : \A k \in 1..Len(g[i]) :
        \/ k \in 1..Len(f[i]) /\ g[i][k] = f[i][k]
        \/ k - Len(f[i]) \in 1..Len(c[i]) /\ g[i][k] = c[i][k - Len(f[i])]
  <2> TAKE i \in I
  <2> TAKE k \in 1..Len(g[i])
  <2>1. f[i] \in Seq(S) /\ c[i] \in Seq(S) /\ g[i] = f[i] \o c[i]
    OBVIOUS
  <2>2. k \in 1..Len(f[i]) + Len(c[i])
    BY <1>1
  <2>3. g[i][k] = IF k <= Len(f[i]) THEN f[i][k] ELSE c[i][k - Len(f[i])]
    BY <2>1, <2>2, ConcatProperties
  <2> QED
    BY <1>1, <2>2, <2>3
<1>3. g \in [I -> Seq(S)]
  BY <1>1
<1>4. Nowhere(c, m) => NoMore(f, g, m)
  <2> HAVE Nowhere(c, m)
  <2>1. Within(I, f, g, m)
    BY <1>1, <1>2 DEF Nowhere, Within
  <2> QED
    BY <1>3, <2>1, FewerOf
<1>7. ASSUME Nowhere(f, m), NEW i \in I, NEW k \in 1..Len(g[i]), g[i][k] = m
      PROVE  k - Len(f[i]) \in DOMAIN c[i] /\ c[i][k - Len(f[i])] = m
  <2>1. ~(k \in 1..Len(f[i]) /\ g[i][k] = f[i][k])
    BY <1>1, <1>7 DEF Nowhere
  <2> QED
    BY <1>1, <1>2, <1>7, <2>1
<1>5. ASSUME Nowhere(f, m), Once(c, m), NEW i \in I, NEW j \in I,
             NEW k \in DOMAIN g[i], NEW l \in DOMAIN g[j], g[i][k] = m, g[j][l] = m
      PROVE  i = j /\ k = l
  <2>1. k \in 1..Len(g[i]) /\ l \in 1..Len(g[j])
    BY <1>1
  <2>2. /\ k - Len(f[i]) \in DOMAIN c[i] /\ c[i][k - Len(f[i])] = m
        /\ l - Len(f[j]) \in DOMAIN c[j] /\ c[j][l - Len(f[j])] = m
    BY <1>5, <1>7, <2>1
  <2>3. i = j /\ k - Len(f[i]) = l - Len(f[j])
    BY <1>5, <2>2 DEF Once
  <2>4. k \in Int /\ l \in Int /\ Len(f[i]) \in Nat
    BY <1>1, <2>1
  <2> QED
    BY <2>3, <2>4
<1>6. Nowhere(f, m) /\ Once(c, m) => Once(g, m)
  BY <1>3, <1>5 DEF Once
<1> QED
  BY <1>3, <1>4, <1>6

Single(A) == \A i, j \in A : i = j

\* x is appended to the sequences in A.
Appended(I, f, A, x) == [i \in I |-> IF i \in A THEN Append(f[i], x) ELSE f[i]]

LEMMA AppendedWhere ==
  ASSUME NEW I, NEW S, NEW f \in [I -> Seq(S)], NEW A \in SUBSET I, NEW x \in S, NEW m,
         NEW g, g = Appended(I, f, A, x)
  PROVE  /\ x # m => NoMore(f, g, m)
         /\ Nowhere(f, m) /\ Single(A) => Once(g, m)
<1> DEFINE c == [i \in I |-> IF i \in A THEN <<x>> ELSE <<>>]
<1>1. /\ c \in [I -> Seq(S)]
      /\ \A i \in I : Len(c[i]) = (IF i \in A THEN 1 ELSE 0) /\ DOMAIN c[i] = 1..Len(c[i])
      /\ \A i \in A : c[i][1] = x
  <2>1. <<x>> \in Seq(S) /\ <<>> \in Seq(S) /\ Len(<<x>>) = 1 /\ Len(<<>>) = 0
    OBVIOUS
  <2>2. c \in [I -> Seq(S)]
    BY <2>1
  <2>3. \A i \in I : c[i] = IF i \in A THEN <<x>> ELSE <<>>
    OBVIOUS
  <2> HIDE DEF c
  <2>4. \A i \in I : DOMAIN c[i] = 1..Len(c[i])
    BY <2>2, LenProperties
  <2>5. \A i \in I : Len(c[i]) = IF i \in A THEN 1 ELSE 0
    BY <2>1, <2>3
  <2>6. \A i \in A : c[i][1] = x
    BY <2>3
  <2> QED
    BY <2>2, <2>4, <2>5, <2>6
<1>2. g = [i \in I |-> f[i] \o c[i]]
  <2>1. ASSUME NEW i \in I
        PROVE  f[i] \o c[i] = IF i \in A THEN Append(f[i], x) ELSE f[i]
    <3>1. f[i] \in Seq(S) /\ f[i] \o <<x>> = Append(f[i], x) /\ f[i] \o <<>> = f[i]
      OBVIOUS
    <3> QED
      BY <3>1
  <2> QED
    BY <2>1 DEF Appended
<1> HIDE DEF c
<1>3. \A i \in I : \A k \in DOMAIN c[i] : i \in A /\ k = 1 /\ c[i][k] = x
  BY <1>1
<1>4. x # m => Nowhere(c, m)
  BY <1>1, <1>3 DEF Nowhere
<1>5. Single(A) => Once(c, m)
  BY <1>1, <1>3 DEF Once, Single
<1> QED
  BY <1>1, <1>2, <1>4, <1>5, Joined

OneClient(rs) == \A i, j \in DOMAIN rs : rs[i] \in ClientAids /\ rs[j] \in ClientAids => i = j

NotQueued(m) == \A i \in DOMAIN posted[m] : posted[m][i] \in ClientAids => <<m, i>> \notin queue
NotHandled(m) == \A a \in ClientAids : handled[m][a] = 0
HandledOnce(m) == \A a \in ClientAids : handled[m][a] <= 1

\* What is under way to the client-side receiver of m is in this place only.
Place(m, here) ==
  /\ IF here = "outbox" THEN Once(outbox, m) ELSE Nowhere(outbox, m)
  /\ here # "queue" => NotQueued(m)
  /\ IF here = "wire" THEN Once(wire, m) ELSE Nowhere(wire, m)
  /\ IF here = "inbox" THEN Once(inbox, m) ELSE Nowhere(inbox, m)
  /\ IF here = "handled" THEN HandledOnce(m) ELSE NotHandled(m)

InOnePlace(m) ==
  /\ posted[m] = <<>> => Place(m, "none")
  /\ OneClient(posted[m]) =>
       \E here \in {"none", "outbox", "queue", "wire", "inbox", "handled"} : Place(m, here)

\* A step that does not move m on.
LEMMA Undisturbed ==
  ASSUME NEW m \in Messages, InOnePlace(m), posted'[m] = posted[m],
         NoMore(outbox, outbox', m), NoMore(wire, wire', m), NoMore(inbox, inbox', m),
         \A i \in DOMAIN posted[m] :
           posted[m][i] \in ClientAids /\ <<m, i>> \in queue' => <<m, i>> \in queue,
         \A a \in ClientAids : handled'[m][a] = handled[m][a]
  PROVE  InOnePlace(m)'
<1>1. ASSUME NEW here, Place(m, here)
      PROVE  Place(m, here)'
  <2>1. NotQueued(m) => NotQueued(m)'
    BY DEF NotQueued
  <2>2. (NotHandled(m) => NotHandled(m)') /\ (HandledOnce(m) => HandledOnce(m)')
    BY DEF NotHandled, HandledOnce
  <2> QED
    BY <1>1, <2>1, <2>2 DEF Place, NoMore
<1> QED
  BY <1>1 DEF InOnePlace

LEMMA Unmoved == ASSUME NEW f, NEW m PROVE NoMore(f, f, m)
  BY DEF NoMore

\* Local delivery of x.
LEMMA LocalDelivery ==
  ASSUME Inv, NEW p \in Platforms, NEW rs \in Seq(Aids), NEW x \in Messages, NEW m,
         inbox' = Delivered(LocalWorkers(p, rs), x)
  PROVE  /\ x # m => NoMore(inbox, inbox', m)
         /\ Nowhere(inbox, x) /\ OneClient(rs) => Once(inbox', x)
<1> DEFINE ws == LocalWorkers(p, rs)
           S == Messages \union {"init"}
           c == [w \in Workers |-> Copies(ws, w, x)]
<1>1. ws \in Seq(Nat) /\ DOMAIN ws = DOMAIN rs /\ \A i \in DOMAIN rs : ws[i] = GetAgent(p, rs[i])
  BY LocalFacts
<1>2. inbox' = [w \in Workers |-> inbox[w] \o Copies(ws, w, x)]
  BY DeliveredIs
<1> HIDE DEF ws
<1>3. x \in S
  OBVIOUS
<1> HIDE DEF S
<1>4. ASSUME NEW w
      PROVE  /\ Copies(ws, w, x) \in Seq(S)
             /\ \A k \in DOMAIN Copies(ws, w, x) : Copies(ws, w, x)[k] = x
             /\ DOMAIN Copies(ws, w, x) # {} => \E i \in DOMAIN ws : ws[i] = w
             /\ (\A i, j \in DOMAIN ws : ws[i] = w /\ ws[j] = w => i = j)
                => \A k, l \in DOMAIN Copies(ws, w, x) : k = l
  <2> DEFINE t == Copies(ws, w, x)
  <2>1. /\ t \in Seq(S) /\ (\A k \in 1..Len(t) : t[k] = x)
        /\ (\E i \in DOMAIN ws : ws[i] = w) <=> Len(t) > 0
        /\ (\A i, j \in DOMAIN ws : ws[i] = w /\ ws[j] = w => i = j) => Len(t) <= 1
    BY <1>1, <1>3, CopiesFacts
  <2> HIDE DEF t
  <2>2. DOMAIN t = 1..Len(t) /\ Len(t) \in Nat
    BY <2>1, LenProperties
  <2>3. DOMAIN t # {} => Len(t) > 0
    BY <2>2
  <2>4. Len(t) <= 1 => \A k, l \in DOMAIN t : k = l
    BY <2>2
  <2> QED
    BY <2>1, <2>2, <2>3, <2>4 DEF t
<1>5. /\ c \in [Workers -> Seq(S)] /\ inbox \in [Workers -> Seq(S)]
      /\ inbox' = [w \in Workers |-> inbox[w] \o c[w]]
  BY <1>2, <1>4 DEF Inv, WorkerTypes, S
<1>6. x # m => Nowhere(c, m)
  BY <1>4 DEF Nowhere
<1>7. OneClient(rs) => Once(c, x)
  <2> SUFFICES ASSUME OneClient(rs), NEW v \in Workers, NEW w \in Workers,
                      NEW k \in DOMAIN Copies(ws, v, x), NEW l \in DOMAIN Copies(ws, w, x)
               PROVE  v = w /\ k = l
    BY DEF Once
  <2>1. \A i \in DOMAIN ws, u \in Workers : ws[i] = u => rs[i] \in ClientAids
    BY <1>1 DEF GetAgent, Workers
  <2>2. \A i, j \in DOMAIN ws : ws[i] \in Workers /\ ws[j] \in Workers => i = j
    BY <1>1, <2>1 DEF OneClient
  <2>3. PICK i \in DOMAIN ws : ws[i] = v
    BY <1>4
  <2>4. PICK j \in DOMAIN ws : ws[j] = w
    BY <1>4
  <2>5. i = j /\ v = w
    BY <2>2, <2>3, <2>4
  <2>6. k = l
    BY <1>4, <2>2, <2>5
  <2> QED
    BY <2>5, <2>6
<1> HIDE DEF c
<1> QED
  BY <1>5, <1>6, <1>7, Joined

LEMMA InitPlaces == Init => \A m \in Messages : InOnePlace(m)
<1> SUFFICES ASSUME Init, NEW m \in Messages
             PROVE  Place(m, "none")
  BY DEF InOnePlace
<1>1. Nowhere(outbox, m) /\ Nowhere(wire, m) /\ Nowhere(inbox, m)
  BY DEF Init, Nowhere
<1>2. NotQueued(m) /\ NotHandled(m)
  BY DEF Init, NotQueued, NotHandled, Aids
<1> QED
  BY <1>1, <1>2 DEF Place

\* Message m is posted and is where its step has put it.
LEMMA NewPlace ==
  ASSUME NEW m \in Messages, posted'[m] # <<>>,
         OneClient(posted[m])' =>
           \E here \in {"none", "outbox", "queue", "wire", "inbox", "handled"} : Place(m, here)'
  PROVE  InOnePlace(m)'
BY DEF InOnePlace

\* New workers have nothing but the order to start.
LEMMA SpawnPlaces ==
  ASSUME Inv, NEW p \in Platforms, NEW ns \in SUBSET Names, Spawn(p, ns), NEW m \in Messages
  PROVE  NoMore(outbox, outbox', m) /\ NoMore(inbox, inbox', m)
<1>1. /\ outbox' = outbox /\ inbox' \in [Workers -> Seq(Messages \union {"init"})]
      /\ \A w \in Workers : inbox'[w] \in {inbox[w], <<"init">>}
  BY SpawnFacts DEF WorkerTypes
<1>2. Within(Workers, inbox, inbox', m)
  <2> SUFFICES ASSUME NEW w \in Workers, NEW k \in 1..Len(inbox'[w]), inbox'[w][k] = m
               PROVE  inbox'[w] = inbox[w]
    BY DEF Within
  <2>1. CASE inbox'[w] = <<"init">>
    <3>1. k = 1 /\ m = "init"
      BY <2>1
    <3> QED
      BY <3>1, MessagesApart
  <2> QED
    BY <1>1, <2>1
<1>3. NoMore(inbox, inbox', m)
  BY <1>1, <1>2, FewerOf DEF Inv, WorkerTypes
<1> QED
  BY <1>1, <1>3, Unmoved

LEMMA PlatformPlaces ==
  ASSUME Inv, NEW p \in Platforms, PlatformStep(p), NEW m \in Messages, InOnePlace(m)
  PROVE  InOnePlace(m)'
<1>1. CASE CreateRadigost(p) \/ Register(p) \/ GetRunning(p)
  <2>1. UNCHANGED <<inbox, outbox, wire, posted, queue, handled>>
    BY <1>1 DEF CreateRadigost, Register, GetRunning, workerVars
  <2> QED
    BY <2>1, Unmoved, Undisturbed
<1>2. CASE ClosePage(p)
  <2>1. /\ UNCHANGED <<posted, queue, handled>>
        /\ wire' = [wire EXCEPT ![p] = <<>>]
        /\ inbox' = [w \in Workers |->
             IF w \in DOMAIN workers /\ workers[w].platform = p THEN <<>> ELSE inbox[w]]
        /\ outbox' = [w \in Workers |->
             IF w \in DOMAIN workers /\ workers[w].platform = p THEN <<>> ELSE outbox[w]]
    BY <1>2 DEF ClosePage
  <2>2. /\ wire' \in [Platforms -> Seq(Messages)]
        /\ inbox' \in [Workers -> Seq(Messages \union {"init"})]
        /\ outbox' \in [Workers -> Seq(Messages \union {"move"})]
    BY <2>1 DEF Inv, MessageTypes, WorkerTypes
  <2>3. Within(Platforms, wire, wire', m)
    <3>1. \A q \in Platforms : wire'[q] \in {<<>>, wire[q]}
      BY <2>1 DEF Inv, MessageTypes
    <3>2. \A q \in Platforms : \A k \in 1..Len(wire'[q]) : wire'[q] = wire[q]
      BY <3>1
    <3> QED
      BY <3>2 DEF Within
  <2>4. Within(Workers, inbox, inbox', m) /\ Within(Workers, outbox, outbox', m)
    <3>1. \A w \in Workers : inbox'[w] \in {<<>>, inbox[w]} /\ outbox'[w] \in {<<>>, outbox[w]}
      BY <2>1
    <3>2. \A w \in Workers : /\ \A k \in 1..Len(inbox'[w]) : inbox'[w] = inbox[w]
                             /\ \A k \in 1..Len(outbox'[w]) : outbox'[w] = outbox[w]
      BY <3>1
    <3> QED
      BY <3>2 DEF Within
  <2>5. NoMore(wire, wire', m)
    BY <2>2, <2>3, FewerOf DEF Inv, MessageTypes
  <2>6. NoMore(inbox, inbox', m)
    BY <2>2, <2>4, FewerOf DEF Inv, WorkerTypes
  <2>7. NoMore(outbox, outbox', m)
    BY <2>2, <2>4, FewerOf DEF Inv, WorkerTypes
  <2> QED
    BY <2>1, <2>5, <2>6, <2>7, Undisturbed
<1>3. ASSUME NEW ns \in SUBSET Names, Spawn(p, ns), UNCHANGED <<wire, posted, queue, handled>>
      PROVE  InOnePlace(m)'
  <2>1. NoMore(outbox, outbox', m) /\ NoMore(inbox, inbox', m)
    BY <1>3, SpawnPlaces
  <2> QED
    BY <1>3, <2>1, Unmoved, Undisturbed
<1>4. ASSUME NEW n \in Names, Start(p, n)
      PROVE  InOnePlace(m)'
  <2>1. Spawn(p, {n}) /\ UNCHANGED <<wire, posted, queue, handled>>
    BY <1>4 DEF Start
  <2> QED
    BY <1>3, <2>1
<1>5. CASE RecreateAgents(p)
  <2>1. /\ Spawn(p, listing[p].names \ Mobile) /\ UNCHANGED <<wire, posted, queue, handled>>
        /\ listing[p].names \ Mobile \in SUBSET Names
    BY <1>5 DEF RecreateAgents, Inv, PlatformTypes
  <2> QED
    BY <1>3, <2>1
<1>6. ASSUME NEW x \in Messages, Post(p, x)
      PROVE  InOnePlace(m)'
  <2>1. PICK rs \in ReceiverLists : NewMessage(x, rs) /\ inbox' = Delivered(LocalWorkers(p, rs), x)
    BY <1>6 DEF Post
  <2>2. UNCHANGED <<outbox, wire, queue, handled>>
    BY <1>6 DEF Post
  <2>3. rs \in Seq(Aids) /\ rs # <<>>
    BY ReceiversFacts
  <2>4. posted[x] = <<>> /\ posted'[x] = rs /\ (m # x => posted'[m] = posted[m])
    BY <2>1, NewMessageFacts DEF Inv, MessageTypes
  <2>5. /\ x # m => NoMore(inbox, inbox', m)
        /\ Nowhere(inbox, x) /\ OneClient(rs) => Once(inbox', x)
    BY <2>1, <2>3, LocalDelivery
  <2>6. CASE m # x
    BY <2>2, <2>4, <2>5, <2>6, Unmoved, Undisturbed
  <2>7. CASE m = x
    <3>1. Place(m, "none")
      BY <2>4, <2>7 DEF InOnePlace
    <3>2. ASSUME OneClient(posted[m])'
          PROVE  Place(m, "inbox")'
      <4>1. Once(inbox', m)
        BY <2>4, <2>5, <2>7, <3>1, <3>2 DEF Place
      <4>2. NotQueued(m)'
        <5>1. \A i : <<m, i>> \notin queue
          BY <2>1, <2>7, NewMessageFacts
        <5> QED
          BY <2>2, <5>1 DEF NotQueued
      <4> QED
        BY <2>2, <3>1, <4>1, <4>2 DEF Place, NotHandled
    <3> QED
      BY <2>3, <2>4, <2>7, <3>2, NewPlace
  <2> QED
    BY <2>6, <2>7
<1>7. CASE PostToClient(p)
  <2> DEFINE x == Head(wire[p])
  <2>1. /\ UNCHANGED <<outbox, posted, queue, handled>>
        /\ wire[p] # <<>>
        /\ wire' = [wire EXCEPT ![p] = Tail(@)]
        /\ inbox' = Delivered(LocalWorkers(p, posted[x]), x)
    BY <1>7 DEF PostToClient
  <2>2. wire \in [Platforms -> Seq(Messages)]
    BY DEF Inv, MessageTypes
  <2>3. /\ x \in Messages /\ x = wire[p][1] /\ 1 \in DOMAIN wire[p]
        /\ posted[x] \in Seq(Aids)
    <3>1. wire[p] \in Seq(Messages) /\ DOMAIN wire[p] = 1..Len(wire[p])
      BY <2>2, LenProperties
    <3>2. x \in Messages /\ x = wire[p][1] /\ 1 \in 1..Len(wire[p])
      BY <2>1, <3>1, TailFacts
    <3> QED
      BY <3>1, <3>2, PostedFacts DEF Inv
  <2>4. /\ NoMore(wire, wire', m)
        /\ x = m /\ Once(wire, m) => Nowhere(wire', m)
    BY <2>1, <2>2, HeadTaken
  <2>5. /\ x # m => NoMore(inbox, inbox', m)
        /\ Nowhere(inbox, x) /\ OneClient(posted[x]) => Once(inbox', x)
    BY <2>1, <2>3, LocalDelivery
  <2>6. CASE x # m
    BY <2>1, <2>4, <2>5, <2>6, Unmoved, Undisturbed
  <2>7. CASE x = m
    <3>1. ~Nowhere(wire, m)
      BY <2>2, <2>3, <2>7 DEF Nowhere
    <3>2. posted[m] # <<>>
      BY <3>1 DEF InOnePlace, Place
    <3>3. ASSUME OneClient(posted[m])
          PROVE  Place(m, "inbox")'
      <4>1. Place(m, "wire")
        BY <3>1, <3>3 DEF InOnePlace, Place
      <4>2. Once(inbox', m) /\ Nowhere(wire', m)
        BY <2>4, <2>5, <2>7, <3>3, <4>1 DEF Place
      <4> QED
        BY <2>1, <4>1, <4>2 DEF Place, NotQueued, NotHandled
    <3> QED
      BY <2>1, <3>2, <3>3, NewPlace
  <2> QED
    BY <2>6, <2>7
<1> QED
  BY <1>1, <1>2, <1>4, <1>5, <1>6, <1>7 DEF PlatformStep

LEMMA WorkerPlaces ==
  ASSUME Inv, NEW w \in DOMAIN workers, WorkerStep(w), NEW m \in Messages, InOnePlace(m)
  PROVE  InOnePlace(m)'
<1> DEFINE SI == Messages \union {"init"}
           SO == Messages \union {"move"}
<1>1. /\ w \in Workers /\ workers[w].platform \in Platforms
      /\ inbox \in [Workers -> Seq(SI)] /\ outbox \in [Workers -> Seq(SO)]
  BY AidFacts DEF Inv, WorkerTypes
<1>2. m # "init" /\ m # "move"
  BY MessagesApart
<1>3. ASSUME NEW x \in SO, outbox' = [outbox EXCEPT ![w] = Append(@, x)]
      PROVE  /\ x # m => NoMore(outbox, outbox', m)
             /\ Nowhere(outbox, m) => Once(outbox', m)
  <2> HIDE DEF SO
  <2>1. outbox' = Appended(Workers, outbox, {w}, x)
    BY <1>1, <1>3 DEF Appended
  <2>2. {w} \in SUBSET Workers /\ Single({w})
    BY <1>1 DEF Single
  <2> QED
    BY <1>1, <1>3, <2>1, <2>2, AppendedWhere
<1>4. CASE InitAgent(w)
  <2>1. /\ UNCHANGED <<wire, posted, queue, handled>>
        /\ inbox[w] # <<>>
        /\ inbox' = [inbox EXCEPT ![w] = Tail(@)]
    BY <1>4 DEF InitAgent
  <2>2. \/ outbox' = outbox
        \/ outbox' = [outbox EXCEPT ![w] = Append(@, "move")]
    BY <1>1, <1>4 DEF InitAgent
  <2>3. NoMore(inbox, inbox', m)
    BY <1>1, <2>1, HeadTaken
  <2>4. NoMore(outbox, outbox', m)
    BY <1>2, <1>3, <2>2, Unmoved
  <2> QED
    BY <2>1, <2>3, <2>4, Unmoved, Undisturbed
<1>5. CASE HandleMessage(w)
  <2> DEFINE x == Head(inbox[w])
             a == AidOf(w)
  <2>1. /\ UNCHANGED <<outbox, wire, posted, queue>>
        /\ inbox[w] # <<>> /\ x # "init"
        /\ inbox' = [inbox EXCEPT ![w] = Tail(@)]
        /\ handled' = [handled EXCEPT ![x][a] = @ + 1]
    BY <1>5 DEF HandleMessage
  <2>2. /\ x \in Messages /\ x = inbox[w][1] /\ 1 \in DOMAIN inbox[w]
    <3>1. inbox[w] \in Seq(SI) /\ DOMAIN inbox[w] = 1..Len(inbox[w])
      BY <1>1, LenProperties
    <3>2. x \in SI /\ x = inbox[w][1] /\ 1 \in 1..Len(inbox[w])
      BY <2>1, <3>1, TailFacts
    <3> QED
      BY <2>1, <3>1, <3>2
  <2>3. a \in ClientAids
    BY AidFacts
  <2>4. /\ NoMore(inbox, inbox', m)
        /\ x = m /\ Once(inbox, m) => Nowhere(inbox', m)
    BY <1>1, <2>1, HeadTaken
  <2>5. handled \in [Messages -> [Aids -> Nat]] /\ ClientAids \subseteq Aids
    BY DEF Inv, MessageTypes, Aids
  <2> HIDE DEF x, a
  <2>6. CASE x # m
    <3>1. handled'[m] = handled[m]
      BY <2>1, <2>2, <2>5, <2>6
    <3> QED
      BY <2>1, <2>4, <3>1, Unmoved, Undisturbed
  <2>7. CASE x = m
    <3>1. ~Nowhere(inbox, m)
      BY <1>1, <2>2, <2>7 DEF Nowhere
    <3>2. posted[m] # <<>>
      BY <3>1 DEF InOnePlace, Place
    <3>3. ASSUME OneClient(posted[m])
          PROVE  Place(m, "handled")'
      <4>1. Place(m, "inbox")
        BY <3>1, <3>3 DEF InOnePlace, Place
      <4>2. Nowhere(inbox', m)
        BY <2>4, <2>7, <4>1 DEF Place
      <4>3. HandledOnce(m)'
        <5>1. \A b \in ClientAids : handled[m][b] = 0
          BY <4>1 DEF Place, NotHandled
        <5>2. \A b \in ClientAids : handled'[m][b] = IF b = a THEN 1 ELSE 0
          BY <2>1, <2>3, <2>5, <2>7, <5>1
        <5> QED
          BY <5>2 DEF HandledOnce
      <4> QED
        BY <2>1, <4>1, <4>2, <4>3 DEF Place, NotQueued
    <3> QED
      BY <2>1, <3>2, <3>3, NewPlace
  <2> QED
    BY <2>6, <2>7
<1>6. ASSUME NEW x \in Messages, AgentPosts(w, x)
      PROVE  InOnePlace(m)'
  <2>1. PICK rs \in ReceiverLists : NewMessage(x, rs)
    BY <1>6 DEF AgentPosts
  <2>2. /\ UNCHANGED <<inbox, wire, queue, handled>>
        /\ outbox' = [outbox EXCEPT ![w] = Append(@, x)]
    BY <1>6 DEF AgentPosts
  <2>3. posted[x] = <<>> /\ posted'[x] = rs /\ rs # <<>> /\ (m # x => posted'[m] = posted[m])
    BY <2>1, NewMessageFacts, ReceiversFacts DEF Inv, MessageTypes
  <2>4. /\ x # m => NoMore(outbox, outbox', m)
        /\ Nowhere(outbox, m) => Once(outbox', m)
    BY <1>3, <2>2
  <2>5. CASE x # m
    BY <2>2, <2>3, <2>4, <2>5, Unmoved, Undisturbed
  <2>6. CASE x = m
    <3>1. Place(m, "none")
      BY <2>3, <2>6 DEF InOnePlace
    <3>2. NotQueued(m)'
      <4>1. \A i : <<m, i>> \notin queue
        BY <2>1, <2>6, NewMessageFacts
      <4> QED
        BY <2>2, <4>1 DEF NotQueued
    <3>3. Place(m, "outbox")'
      BY <2>2, <2>4, <3>1, <3>2 DEF Place, NotHandled
    <3> QED
      BY <2>3, <2>6, <3>3, NewPlace
  <2> QED
    BY <2>5, <2>6
<1>7. CASE MoveToServer(w)
  <2>1. /\ UNCHANGED <<inbox, wire, posted, queue, handled>>
        /\ outbox[w] # <<>>
        /\ outbox' = [outbox EXCEPT ![w] = Tail(@)]
    BY <1>7 DEF MoveToServer
  <2>2. NoMore(outbox, outbox', m)
    BY <1>1, <2>1, HeadTaken
  <2> QED
    BY <2>1, <2>2, Unmoved, Undisturbed
<1>8. CASE PostOfWorker(w)
  <2> DEFINE x == Head(outbox[w])
             p == workers[w].platform
  <2>1. /\ UNCHANGED <<wire, posted, queue, handled>>
        /\ outbox[w] # <<>> /\ x # "move"
        /\ inbox' = Delivered(LocalWorkers(p, posted[x]), x)
        /\ outbox' = [outbox EXCEPT ![w] = Tail(@)]
    BY <1>8 DEF PostOfWorker
  <2>2. /\ x \in Messages /\ x = outbox[w][1] /\ 1 \in DOMAIN outbox[w]
        /\ posted[x] \in Seq(Aids)
    <3>1. outbox[w] \in Seq(SO) /\ DOMAIN outbox[w] = 1..Len(outbox[w])
      BY <1>1, LenProperties
    <3>2. x \in SO /\ x = outbox[w][1] /\ 1 \in 1..Len(outbox[w])
      BY <2>1, <3>1, TailFacts
    <3>3. x \in Messages
      BY <2>1, <3>2
    <3> QED
      BY <3>1, <3>2, <3>3, PostedFacts DEF Inv
  <2>3. /\ NoMore(outbox, outbox', m)
        /\ x = m /\ Once(outbox, m) => Nowhere(outbox', m)
    BY <1>1, <2>1, HeadTaken
  <2>4. /\ x # m => NoMore(inbox, inbox', m)
        /\ Nowhere(inbox, x) /\ OneClient(posted[x]) => Once(inbox', x)
    BY <1>1, <2>1, <2>2, LocalDelivery
  <2> HIDE DEF x
  <2>5. CASE x # m
    BY <2>1, <2>3, <2>4, <2>5, Unmoved, Undisturbed
  <2>6. CASE x = m
    <3>1. ~Nowhere(outbox, m)
      BY <1>1, <2>2, <2>6 DEF Nowhere
    <3>2. posted[m] # <<>>
      BY <3>1 DEF InOnePlace, Place
    <3>3. ASSUME OneClient(posted[m])
          PROVE  Place(m, "inbox")'
      <4>1. Place(m, "outbox")
        BY <3>1, <3>3 DEF InOnePlace, Place
      <4>2. Once(inbox', m) /\ Nowhere(outbox', m)
        BY <2>3, <2>4, <2>6, <3>3, <4>1 DEF Place
      <4> QED
        BY <2>1, <4>1, <4>2 DEF Place, NotQueued, NotHandled
    <3> QED
      BY <2>1, <3>2, <3>3, NewPlace
  <2> QED
    BY <2>5, <2>6
<1> QED
  BY <1>4, <1>5, <1>6, <1>7, <1>8 DEF WorkerStep

LEMMA ServerPlaces ==
  ASSUME Inv, ServerStep, NEW m \in Messages, InOnePlace(m)
  PROVE  InOnePlace(m)'
<1>1. ASSUME NEW c \in Calls, StartStub(c)
      PROVE  InOnePlace(m)'
  <2>1. UNCHANGED <<inbox, outbox, wire, posted, queue, handled>>
    BY <1>1 DEF StartStub, workerVars
  <2> QED
    BY <2>1, Unmoved, Undisturbed
<1>2. ASSUME NEW x \in Messages, PostToServer(x)
      PROVE  InOnePlace(m)'
  <2>1. PICK rs \in ReceiverLists : NewMessage(x, rs) /\ queue' = queue \union Queued(x, rs)
    BY <1>2 DEF PostToServer
  <2>2. UNCHANGED <<inbox, outbox, wire, handled>>
    BY <1>2 DEF PostToServer, workerVars
  <2>3. posted[x] = <<>> /\ posted'[x] = rs /\ rs # <<>> /\ (m # x => posted'[m] = posted[m])
    BY <2>1, NewMessageFacts, ReceiversFacts DEF Inv, MessageTypes
  <2>4. CASE x # m
    <3>1. \A i : <<m, i>> \in queue' => <<m, i>> \in queue
      BY <2>1, <2>4 DEF Queued
    <3> QED
      BY <2>2, <2>3, <2>4, <3>1, Unmoved, Undisturbed
  <2>5. CASE x = m
    <3>1. Place(m, "none")
      BY <2>3, <2>5 DEF InOnePlace
    <3>2. Place(m, "queue")'
      BY <2>2, <3>1 DEF Place, NotHandled
    <3> QED
      BY <2>3, <2>5, <3>2, NewPlace
  <2> QED
    BY <2>4, <2>5
<1>3. ASSUME NEW x \in Messages, NEW i \in DOMAIN posted[x], Deliver(x, i)
      PROVE  InOnePlace(m)'
  <2>1. PICK aid \in Aids : aid = posted[x][i]
    BY PostedFacts DEF Inv
  <2>2. /\ <<x, i>> \in queue /\ queue' = queue \ {<<x, i>>}
        /\ UNCHANGED <<inbox, outbox, posted>>
    BY <1>3 DEF Deliver, workerVars
  <2>3. \/ /\ handled' = [handled EXCEPT ![x][aid] = @ + 1]
           /\ UNCHANGED wire
        \/ aid \in ClientAids /\ Forward(x) /\ UNCHANGED handled
        \/ UNCHANGED <<wire, handled>>
    BY <1>3, <2>1 DEF Deliver, Runs
  <2>4. /\ handled \in [Messages -> [Aids -> Nat]] /\ ClientAids \subseteq Aids
        /\ wire \in [Platforms -> Seq(Messages)]
    BY DEF Inv, MessageTypes, Aids
  <2>5. Forward(x) => /\ x # m => NoMore(wire, wire', m)
                      /\ Nowhere(wire, m) => Once(wire', m)
    <3> SUFFICES ASSUME Forward(x)
                 PROVE  /\ x # m => NoMore(wire, wire', m)
                        /\ Nowhere(wire, m) => Once(wire', m)
      OBVIOUS
    <3> DEFINE h == Head(posted[x])[2]
    <3>1. wire' = Appended(Platforms, wire, SessionOf(h), x)
      BY DEF Forward, Appended
    <3> DEFINE A == SessionOf(h)
    <3>2. A \in SUBSET Platforms /\ Single(A)
      BY DEF SessionOf, Single
    <3>3. wire' = Appended(Platforms, wire, A, x)
      BY <3>1
    <3>4. x \in Messages /\ wire \in [Platforms -> Seq(Messages)]
      BY <2>4
    <3> HIDE DEF A
    <3> QED
      BY <3>2, <3>3, <3>4, AppendedWhere
  <2>6. CASE x # m
    <3>1. NoMore(wire, wire', m)
      BY <2>3, <2>5, <2>6, Unmoved
    <3>2. handled'[m] = handled[m]
      BY <2>1, <2>3, <2>4, <2>6
    <3> QED
      BY <2>2, <3>1, <3>2, Unmoved, Undisturbed
  <2>7. CASE x = m /\ aid \notin ClientAids
    <3>1. UNCHANGED wire
      BY <2>3, <2>7, <1>3, <2>1 DEF Deliver, Runs
    <3>2. \A a \in ClientAids : handled'[m][a] = handled[m][a]
      BY <2>1, <2>3, <2>4, <2>7
    <3> QED
      BY <2>2, <3>1, <3>2, Unmoved, Undisturbed
  <2>8. CASE x = m /\ aid \in ClientAids
    <3>1. posted[m] # <<>>
      BY <1>3, <2>8
    <3>2. ASSUME OneClient(posted[m])
          PROVE  \E here \in {"none", "wire", "handled"} : Place(m, here)'
      <4>1. Place(m, "queue")
        <5>1. ~NotQueued(m)
          BY <1>3, <2>1, <2>2, <2>8 DEF NotQueued
        <5> QED
          BY <3>2, <5>1 DEF InOnePlace, Place
      <4>2. NotQueued(m)'
        <5>1. \A j \in DOMAIN posted[m] : posted[m][j] \in ClientAids => j = i
          BY <1>3, <2>1, <2>8, <3>2 DEF OneClient
        <5>2. \A j \in DOMAIN posted[m] : posted[m][j] \in ClientAids => <<m, j>> \notin queue'
          BY <2>2, <2>8, <5>1
        <5> QED
          BY <2>2, <5>2 DEF NotQueued
      <4>3. Nowhere(outbox, m)' /\ Nowhere(inbox, m)'
        BY <2>2, <4>1 DEF Place
      <4>4. Nowhere(wire, m) /\ NotHandled(m)
        BY <4>1 DEF Place
      <4>5. CASE handled' = [handled EXCEPT ![x][aid] = @ + 1] /\ UNCHANGED wire
        <5>1. \A b \in ClientAids : handled'[m][b] = IF b = aid THEN 1 ELSE 0
          BY <2>1, <2>4, <2>8, <4>4, <4>5 DEF NotHandled
        <5>2. HandledOnce(m)'
          BY <5>1 DEF HandledOnce
        <5>3. Place(m, "handled")'
          BY <4>2, <4>3, <4>4, <4>5, <5>2 DEF Place
        <5> QED
          BY <5>3
      <4>6. CASE Forward(x) /\ UNCHANGED handled
        <5>1. Place(m, "wire")'
          BY <2>5, <4>2, <4>3, <4>4, <4>6 DEF Place, NotHandled
        <5> QED
          BY <5>1
      <4>7. CASE UNCHANGED <<wire, handled>>
        <5>1. Place(m, "none")'
          BY <4>2, <4>3, <4>4, <4>7 DEF Place, NotHandled
        <5> QED
          BY <5>1
      <4> QED
        BY <2>3, <4>5, <4>6, <4>7
    <3>3. posted'[m] # <<>> /\ (OneClient(posted[m])' => OneClient(posted[m]))
      BY <2>2, <3>1
    <3> QED
      BY <3>2, <3>3, NewPlace
  <2> QED
    BY <2>6, <2>7, <2>8
<1> QED
  BY <1>1, <1>2, <1>3 DEF ServerStep

LEMMA PlacesStep ==
  Inv /\ (\A m \in Messages : InOnePlace(m)) /\ [Next]_vars => (\A m \in Messages : InOnePlace(m))'
<1> SUFFICES ASSUME Inv, [Next]_vars, NEW m \in Messages, InOnePlace(m)
             PROVE  InOnePlace(m)'
  OBVIOUS
<1>1. CASE UNCHANGED vars
  <2>1. UNCHANGED <<inbox, outbox, wire, posted, queue, handled>>
    BY <1>1 DEF vars, workerVars
  <2> QED
    BY <2>1, Unmoved, Undisturbed
<1> QED
  BY <1>1, PlatformPlaces, WorkerPlaces, ServerPlaces DEF Next

\* For any pages, agents, messages and workers: a message to one client-side
\* agent is handled at most once, although the agent may run on several pages
\* and on the server (post, RadigostStub, postToClient).
THEOREM HandledOncePerReceiver == Spec => []OncePerReceiver
<1>1. Inv /\ (\A m \in Messages : InOnePlace(m)) => OncePerReceiver
  <2> SUFFICES ASSUME Inv, NEW m \in Messages, InOnePlace(m), NEW a \in ClientAids, handled[m][a] > 1
               PROVE  Cardinality({i \in DOMAIN posted[m] : posted[m][i] \in ClientAids}) > 1
    BY DEF OncePerReceiver
  <2> DEFINE I == {i \in DOMAIN posted[m] : posted[m][i] \in ClientAids}
  <2>1. handled[m][a] \in Nat
    BY DEF Inv, MessageTypes, Aids
  <2>2. ~OneClient(posted[m])
    <3>1. ~(handled[m][a] <= 1) /\ handled[m][a] # 0
      BY <2>1
    <3>2. ~NotHandled(m) /\ ~HandledOnce(m)
      BY <3>1 DEF NotHandled, HandledOnce
    <3> QED
      BY <3>2 DEF InOnePlace, Place
  <2>3. PICK i \in I, j \in I : i # j
    BY <2>2 DEF OneClient
  <2>4. IsFiniteSet(I) /\ Cardinality(I) \in Nat
    <3>1. Len(posted[m]) \in Int /\ DOMAIN posted[m] = 1..Len(posted[m])
      BY PostedFacts DEF Inv
    <3>2. IsFiniteSet(DOMAIN posted[m]) /\ I \in SUBSET DOMAIN posted[m]
      BY <3>1, FS_Interval
    <3> QED
      BY <3>2, FS_Subset, FS_CardinalityType
  <2>5. Cardinality(I) # 0
    BY <2>3, <2>4, FS_EmptySet
  <2>6. Cardinality(I) # 1
    <3>1. ~\E x : I = {x}
      BY <2>3
    <3> HIDE DEF I
    <3> QED
      BY <2>4, <3>1, FS_Singleton
  <2> HIDE DEF I
  <2>7. Cardinality(I) > 1
    BY <2>4, <2>5, <2>6
  <2> QED
    BY <2>7 DEF I
<1> QED
  BY <1>1, InitPlaces, PlacesStep, Invariant, PTL DEF Spec
=============================================================================
