------------------------- MODULE AgentManagerProofs --------------------------
(***************************************************************************)
(* The order of statements in initAgent is right: whatever the other       *)
(* threads do, a reply to a request an agent sent from its init finds a    *)
(* registered agent, unless the one that asked left the registry.  Proved  *)
(* for any set of AIDs and threads and any number of instances.            *)
(*                                                                         *)
(* ReplyFindsAgent is not inductive: a reply is lost or not according to   *)
(* where its instance is when it arrives.  Registered follows an instance  *)
(* from the moment its init runs (and so may send), through the time its   *)
(* reply is awaited.                                                       *)
(*                                                                         *)
(* Then: nobody is displaced by a put, the types, and the console page,    *)
(* where calls on an AID do not overlap.                                   *)
(***************************************************************************)
EXTENDS AgentManager, TLAPS

\* Instance i was registered: it is still in the cache, or has left it.
Registered(i) == cache[info[i].aid] = i \/ i \in removed

\* The types the argument needs.
Types ==
  /\ created \in 0..MaxInstances
  /\ cache \in [Aids -> 0..MaxInstances]
  /\ info \in [Instances -> [aid : Aids, ui : BOOLEAN]]
  /\ call \in [Threads -> Calls]
  /\ awaiting \subseteq 1..created

\* A thread between lookup and the end of init owns a created instance.
OwnInstance ==
  \A t \in Threads : call[t].pc \in {"put", "init"} =>
    /\ call[t].inst \in 1..created
    /\ info[call[t].inst].aid = call[t].aid

\* An instance whose init runs or that awaits a reply was registered.
InitRegistered == \A t \in Threads : call[t].pc = "init" => Registered(call[t].inst)
AwaitingRegistered == \A i \in awaiting : Registered(i)

Inv == Types /\ OwnInstance /\ InitRegistered /\ AwaitingRegistered /\ ReplyFindsAgent

LEMMA IdleType == Idle \in Calls /\ Idle.pc = "idle"
<1>1. (CHOOSE a \in Aids : TRUE) \in Aids
  BY AidsNonEmpty
<1>2. None \in 0..MaxInstances
  BY MaxInstancesNat DEF None
<1>3. QED
  BY <1>1, <1>2 DEF Idle, Calls, Steps, AfterStop

\* A registered instance stays registered when every entry that changes was
\* recorded as removed.
LEMMA StaysRegistered ==
  ASSUME Inv, NEW i \in 1..created, Registered(i),
         info'[i] = info[i], removed \subseteq removed',
         \A a \in Aids : cache'[a] = cache[a] \/ cache[a] \in removed' \union {None}
  PROVE  Registered(i)'
<1>1. info[i].aid \in Aids
  BY MaxInstancesNat DEF Inv, Types, Instances
<1>2. CASE i \in removed
  BY <1>2 DEF Registered
<1>3. CASE cache[info[i].aid] = i
  BY <1>1, <1>3, MaxInstancesNat DEF Inv, Types, Registered, None
<1>4. QED
  BY <1>2, <1>3 DEF Registered

\* A step that leaves the registry and the messages alone, and takes no
\* thread to put or init, keeps the invariant.
LEMMA QuietStep ==
  ASSUME Inv, UNCHANGED <<registryVars, messageVars>>, NEW t \in Threads, NEW c \in Calls,
         call' = [call EXCEPT ![t] = c], c.pc \notin {"put", "init"}
  PROVE  Inv'
<1>1. Types'
  BY DEF Inv, Types, registryVars, messageVars
<1>2. \A u \in Threads : call'[u] = call[u] \/ call'[u].pc \notin {"put", "init"}
  BY DEF Inv, Types
<1>3. OwnInstance' /\ InitRegistered'
  BY <1>2 DEF Inv, OwnInstance, InitRegistered, Registered, registryVars, messageVars
<1>4. AwaitingRegistered' /\ ReplyFindsAgent'
  BY DEF Inv, AwaitingRegistered, Registered, ReplyFindsAgent, registryVars, messageVars
<1>5. QED
  BY <1>1, <1>3, <1>4 DEF Inv

\* Taking the thread to another statement gives a call again.
LEMMA GotoCall ==
  ASSUME Inv, NEW t \in Threads, NEW pc \in Steps, Goto(t, pc)
  PROVE  \E c \in Calls : c.pc = pc /\ call' = [call EXCEPT ![t] = c]
<1> DEFINE c == [call[t] EXCEPT !.pc = pc]
<1>1. c \in Calls /\ c.pc = pc
  BY DEF Inv, Types, Calls
<1>2. call' = [call EXCEPT ![t] = c]
  BY DEF Goto
<1>3. QED
  BY <1>1, <1>2

\* Entries leave the cache for removed, and no instance is created: stopAgent
\* and the clearing of the cache.
LEMMA RemovingStep ==
  ASSUME Inv, UNCHANGED <<created, info, messageVars>>, NEW t \in Threads, NEW c \in Calls,
         call' = [call EXCEPT ![t] = c], c.pc \notin {"put", "init"},
         cache' \in [Aids -> 0..MaxInstances], removed \subseteq removed',
         \A a \in Aids : cache'[a] = cache[a] \/ cache[a] \in removed' \union {None}
  PROVE  Inv'
<1>1. Types'
  BY DEF Inv, Types, messageVars
<1>2. \A u \in Threads : call'[u] = call[u] \/ call'[u].pc \notin {"put", "init"}
  BY DEF Inv, Types
<1>3. \A i \in 1..created : Registered(i) => Registered(i)'
  BY StaysRegistered
<1>4. OwnInstance'
  BY <1>2 DEF Inv, OwnInstance
<1>5. InitRegistered' /\ AwaitingRegistered'
  BY <1>2, <1>3 DEF Inv, Types, OwnInstance, InitRegistered, AwaitingRegistered, messageVars
<1>6. QED
  BY <1>1, <1>4, <1>5 DEF Inv, ReplyFindsAgent, messageVars

LEMMA InitInv == Init => Inv
<1> SUFFICES ASSUME Init PROVE Inv
  OBVIOUS
<1>1. Types
  BY IdleType, AidsNonEmpty, MaxInstancesNat DEF Init, Types, None
<1>2. OwnInstance /\ InitRegistered /\ AwaitingRegistered /\ ReplyFindsAgent
  BY IdleType DEF Init, OwnInstance, InitRegistered, AwaitingRegistered, ReplyFindsAgent
<1>3. QED
  BY <1>1, <1>2 DEF Inv

LEMMA BeginInv ==
  ASSUME Inv, NEW t \in Threads, NEW c \in Calls, c.pc \in {"check", "get"}, Begin(t, c)
  PROVE  Inv'
BY QuietStep DEF Begin

\* Lookup creates the next instance; those created before keep their info.
LEMMA LookupInv ==
  ASSUME Inv, NEW t \in Threads, Lookup(t) PROVE Inv'
<1>1. CASE ~deployed /\ Return(t) /\ UNCHANGED <<created, info>>
  BY <1>1, IdleType, QuietStep DEF Lookup, Return, registryVars
<1>2. CASE /\ created < MaxInstances
           /\ created' = created + 1
           /\ info' = [info EXCEPT ![created + 1] = [aid |-> call[t].aid, ui |-> call[t].ui]]
           /\ call' = [call EXCEPT ![t].pc = After("lookup"), ![t].inst = created + 1]
  <2>1. UNCHANGED <<cache, removed, awaiting, lost>>
    BY DEF Lookup, messageVars
  <2>2. /\ created \in Nat /\ created + 1 \in Instances /\ call[t] \in Calls
        /\ created + 1 \in 0..MaxInstances
    BY <1>2, MaxInstancesNat DEF Inv, Types, Instances
  <2>3. info' \in [Instances -> [aid : Aids, ui : BOOLEAN]]
    BY <1>2, <2>2 DEF Inv, Types, Calls
  <2>4. call' = [call EXCEPT ![t] = [call[t] EXCEPT !.pc = "put", !.inst = created + 1]]
    BY <1>2 DEF After, Inv, Types
  <2>5. [call[t] EXCEPT !.pc = "put", !.inst = created + 1] \in Calls
    BY <2>2 DEF Calls, Steps
  <2>6. call' \in [Threads -> Calls]
    BY <2>4, <2>5 DEF Inv, Types
  <2>7. Types'
    BY <1>2, <2>1, <2>2, <2>3, <2>6, MaxInstancesNat DEF Inv, Types, Instances
  <2>8. \A i \in 1..created : info'[i] = info[i] /\ i \in Instances /\ i # created + 1
    BY <1>2, <2>2, MaxInstancesNat DEF Inv, Types, Instances
  <2>9. \A i \in 1..created : Registered(i) => Registered(i)'
    BY <2>1, <2>8 DEF Registered
  <2>10. call'[t].pc = "put" /\ call'[t].inst = created + 1 /\ call'[t].aid = call[t].aid
    BY <2>2, <2>4 DEF Inv, Types, Calls
  <2>11. \A u \in Threads : u # t => call'[u] = call[u]
    BY <2>4 DEF Inv, Types
  <2>12. OwnInstance'
    <3> SUFFICES ASSUME NEW u \in Threads, call'[u].pc \in {"put", "init"}
                 PROVE  call'[u].inst \in 1..created' /\ info'[call'[u].inst].aid = call'[u].aid
      BY DEF OwnInstance
    <3>1. CASE u = t
      <4>1. info'[created + 1].aid = call[t].aid
        BY <1>2, <2>2 DEF Inv, Types
      <4>2. QED
        BY <1>2, <2>2, <2>10, <3>1, <4>1
    <3>2. CASE u # t
      <4>1. call[u].inst \in 1..created /\ info[call[u].inst].aid = call[u].aid
        BY <2>11, <3>2 DEF Inv, OwnInstance
      <4>2. QED
        <5>1. call'[u] = call[u]
          BY <2>11, <3>2
        <5>2. call[u].inst \in 1..created'
          BY <1>2, <2>2, <4>1
        <5>3. info'[call[u].inst] = info[call[u].inst]
          BY <2>8, <4>1
        <5>4. QED
          BY <4>1, <5>1, <5>2, <5>3
    <3>3. QED
      BY <3>1, <3>2
  <2>13. InitRegistered'
    BY <2>9, <2>10, <2>11 DEF Inv, OwnInstance, InitRegistered
  <2>14. AwaitingRegistered' /\ ReplyFindsAgent'
    BY <2>1, <2>9 DEF Inv, Types, AwaitingRegistered, ReplyFindsAgent
  <2>15. QED
    BY <2>7, <2>12, <2>13, <2>14 DEF Inv
<1>3. QED
  BY <1>1, <1>2 DEF Lookup

\* Put registers the thread's instance and records the one it displaces.
LEMMA PutInv ==
  ASSUME Inv, NEW t \in Threads, Put(t) PROVE Inv'
<1>0. PICK a \in Aids, i \in 1..created :
        a = call[t].aid /\ i = call[t].inst /\ info[i].aid = a
  BY DEF Put, At, Inv, Types, OwnInstance, Calls
<1>1. /\ At(t, "put") /\ Goto(t, "init")
      /\ cache' = [cache EXCEPT ![a] = i]
      /\ removed' = removed \union ({cache[a]} \ {None})
      /\ UNCHANGED <<created, info, awaiting, lost>>
  BY <1>0 DEF Put, After, messageVars
<1>2. a \in Aids /\ i \in 1..created /\ info[i].aid = a /\ i \in 0..MaxInstances
  BY <1>0, MaxInstancesNat DEF Inv, Types
<1>3. PICK c \in Calls : c.pc = "init" /\ call' = [call EXCEPT ![t] = c]
  BY <1>1, GotoCall DEF Steps
<1>4. Types'
  BY <1>1, <1>2, <1>3 DEF Inv, Types
<1>5. \A b \in Aids : cache'[b] = cache[b] \/ cache[b] \in removed' \union {None}
  BY <1>1, <1>2 DEF Inv, Types
<1>6. \A j \in 1..created : Registered(j) => Registered(j)'
  BY <1>1, <1>5, StaysRegistered
<1>7. cache'[a] = i
  BY <1>1, <1>2 DEF Inv, Types
<1>8. Registered(i)'
  BY <1>1, <1>2, <1>7 DEF Registered
<1>9. /\ call'[t].pc = "init" /\ call'[t].inst = i /\ call'[t].aid = a
      /\ \A u \in Threads : u # t => call'[u] = call[u]
  BY <1>0, <1>1 DEF Goto, Inv, Types, Calls
<1>10. OwnInstance'
  BY <1>1, <1>2, <1>9 DEF Inv, OwnInstance
<1>11. InitRegistered'
  BY <1>6, <1>8, <1>9 DEF Inv, OwnInstance, InitRegistered
<1>12. AwaitingRegistered' /\ ReplyFindsAgent'
  BY <1>1, <1>6 DEF Inv, Types, AwaitingRegistered, ReplyFindsAgent
<1>13. QED
  BY <1>4, <1>10, <1>11, <1>12 DEF Inv

\* Init may send a request for which the instance then awaits the reply.
LEMMA RunInitInv ==
  ASSUME Inv, NEW t \in Threads, RunInit(t) PROVE Inv'
<1>1. At(t, "init") /\ UNCHANGED <<registryVars, lost>>
  BY DEF RunInit
<1>2. CASE awaiting' = awaiting
  <2>1. PICK c \in Calls : c.pc \notin {"put", "init"} /\ call' = [call EXCEPT ![t] = c]
    <3>1. CASE Goto(t, After("init"))
      BY <3>1, GotoCall DEF After, Steps
    <3>2. CASE Return(t)
      BY <3>2, IdleType DEF Return
    <3>3. CASE call' = [call EXCEPT ![t].pc = "get", ![t].next = After("init")]
      <4> DEFINE c == [call[t] EXCEPT !.pc = "get", !.next = "logAdd"]
      <4>1. c \in Calls /\ c.pc = "get"
        BY DEF Inv, Types, Calls, Steps, AfterStop
      <4>2. call' = [call EXCEPT ![t] = c]
        BY <3>3 DEF After, Inv, Types
      <4>3. QED
        BY <4>1, <4>2
    <3>4. QED
      BY <3>1, <3>2, <3>3 DEF RunInit
  <2>2. QED
    BY <1>1, <1>2, <2>1, QuietStep DEF messageVars
<1>3. CASE awaiting' = awaiting \union {call[t].inst} /\ Goto(t, After("init"))
  <2>1. PICK c \in Calls : c.pc = "logAdd" /\ call' = [call EXCEPT ![t] = c]
    BY <1>3, GotoCall DEF After, Steps
  <2>2. call[t].inst \in 1..created /\ Registered(call[t].inst)
    BY <1>1 DEF At, Inv, OwnInstance, InitRegistered
  <2>3. Types'
    BY <1>1, <1>3, <2>1, <2>2 DEF Inv, Types, registryVars
  <2>4. \A u \in Threads : call'[u] = call[u] \/ call'[u].pc \notin {"put", "init"}
    BY <2>1 DEF Inv, Types
  <2>5. OwnInstance' /\ InitRegistered'
    BY <1>1, <2>4 DEF Inv, OwnInstance, InitRegistered, Registered, registryVars
  <2>6. AwaitingRegistered' /\ ReplyFindsAgent'
    BY <1>1, <1>3, <2>2 DEF Inv, AwaitingRegistered, ReplyFindsAgent, Registered, registryVars
  <2>7. QED
    BY <2>3, <2>5, <2>6 DEF Inv
<1>4. QED
  BY <1>2, <1>3 DEF RunInit

\* The consumer: an instance that awaits a reply is in the cache, so the
\* reply is delivered, or has left it.
LEMMA DeliverReplyInv ==
  ASSUME Inv, NEW i \in Instances, DeliverReply(i) PROVE Inv'
<1>1. /\ i \in awaiting /\ awaiting' = awaiting \ {i}
      /\ lost' = IF cache[info[i].aid] = None THEN lost \union {i} ELSE lost
      /\ UNCHANGED <<registryVars, call>>
  BY DEF DeliverReply
<1>2. Registered(i) /\ i \in 1..created
  BY <1>1 DEF Inv, Types, AwaitingRegistered
<1>3. cache[info[i].aid] = None => i \in removed
  BY <1>2, MaxInstancesNat DEF Registered, None
<1>4. Types' /\ OwnInstance' /\ InitRegistered'
  BY <1>1 DEF Inv, Types, OwnInstance, InitRegistered, Registered, registryVars
<1>5. AwaitingRegistered' /\ ReplyFindsAgent'
  BY <1>1, <1>3 DEF Inv, AwaitingRegistered, Registered, ReplyFindsAgent, registryVars
<1>6. QED
  BY <1>4, <1>5 DEF Inv

\* The steps of a call that change neither the registry nor the messages.
LEMMA QuietCalls ==
  ASSUME Inv, NEW t \in Threads,
         \/ GetRunningAgents(t) \/ Check(t) \/ Get(t) \/ LogRemove(t)
         \/ LogReplaced(t) \/ LogAdd(t) \/ List(t) \/ ReturnList(t)
  PROVE  Inv'
<1>1. UNCHANGED <<registryVars, messageVars>>
  BY DEF GetRunningAgents, Check, Get, LogRemove, LogReplaced, LogAdd, List, ReturnList
<1>2. call[t] \in Calls
  BY DEF Inv, Types
<1>3. \E c \in Calls : c.pc \notin {"put", "init"} /\ call' = [call EXCEPT ![t] = c]
  <2>1. CASE GetRunningAgents(t) \/ LogReplaced(t) \/ List(t)
    BY <2>1, GotoCall DEF GetRunningAgents, LogReplaced, List, Steps
  <2>2. CASE LogAdd(t) \/ ReturnList(t)
    BY <2>2, IdleType DEF LogAdd, ReturnList, Return
  <2>3. CASE Check(t)
    <3> DEFINE c == [call[t] EXCEPT !.pc = "get", !.next = "logReplaced"]
    <3>1. c \in Calls /\ c.pc = "get"
      BY <1>2 DEF Calls, Steps, AfterStop
    <3>2. CASE call' = [call EXCEPT ![t].pc = "get", ![t].next = "logReplaced"]
      <4>1. call' = [call EXCEPT ![t] = c]
        BY <3>2 DEF Inv, Types
      <4>2. QED
        BY <3>1, <4>1
    <3>3. CASE Goto(t, "lookup")
      BY <3>3, GotoCall DEF Steps
    <3>4. CASE Return(t)
      BY <3>4, IdleType DEF Return
    <3>5. QED
      BY <2>3, <3>2, <3>3, <3>4 DEF Check
  <2>4. CASE Get(t) \/ LogRemove(t)
    <3>1. CASE Return(t)
      BY <3>1, IdleType DEF Return
    <3>2. CASE Goto(t, "remove")
      BY <3>2, GotoCall DEF Steps
    <3>3. CASE Goto(t, call[t].next)
      BY <1>2, <3>3, GotoCall DEF Calls, AfterStop, Steps
    <3>4. QED
      BY <2>4, <3>1, <3>2, <3>3 DEF Get, LogRemove, ReturnFromStop
  <2>5. QED
    BY <2>1, <2>2, <2>3, <2>4
<1>4. QED
  BY <1>1, <1>3, QuietStep

LEMMA NextInv == Inv /\ [Next]_vars => Inv'
<1> SUFFICES ASSUME Inv, [Next]_vars PROVE Inv'
  OBVIOUS
<1>1. ASSUME NEW t \in Threads, NEW a \in Aids, NEW replace \in BOOLEAN, NEW ui \in BOOLEAN,
             StartAgent(t, a, replace, ui) \/ StartByName(t, a, ui)
      PROVE  Inv'
  <2> DEFINE c(flag) == [Idle EXCEPT !.pc = "check", !.aid = a, !.replace = flag, !.ui = ui]
  <2>0. \A flag \in BOOLEAN : c(flag) \in Calls /\ c(flag).pc = "check"
    BY IdleType DEF Calls, Steps
  <2>1. \E flag \in BOOLEAN : Begin(t, c(flag))
    BY <1>1 DEF StartAgent, StartByName
  <2>2. QED
    BY <2>0, <2>1, BeginInv
<1>2. ASSUME NEW t \in Threads, NEW a \in Aids, StopAgent(t, a) PROVE Inv'
  <2> DEFINE c == [Idle EXCEPT !.pc = "get", !.aid = a]
  <2>1. c \in Calls /\ c.pc = "get"
    BY IdleType DEF Calls, Steps
  <2>2. Begin(t, c)
    BY <1>2 DEF StopAgent
  <2>3. QED
    BY <2>1, <2>2, BeginInv
<1>3. ASSUME NEW t \in Threads, StartStep(t) PROVE Inv'
  BY <1>3, QuietCalls, LookupInv, PutInv, RunInitInv DEF StartStep
<1>4. ASSUME NEW t \in Threads, StopStep(t) PROVE Inv'
  <2>1. CASE Remove(t)
    <3>1. PICK c \in Calls : c.pc = "logRemove" /\ call' = [call EXCEPT ![t] = c]
      BY <2>1, GotoCall DEF Remove, Steps
    <3>2. call[t].aid \in Aids
      BY DEF Inv, Types, Calls
    <3>3. /\ cache' \in [Aids -> 0..MaxInstances]
          /\ removed \subseteq removed'
          /\ \A a \in Aids : cache'[a] = cache[a] \/ cache[a] \in removed' \union {None}
      BY <2>1, <3>2, MaxInstancesNat DEF Remove, Inv, Types, None
    <3>4. QED
      BY <2>1, <3>1, <3>3, RemovingStep DEF Remove
  <2>2. QED
    BY <1>4, <2>1, QuietCalls DEF StopStep
<1>5. ASSUME NEW t \in Threads, GetRunningAgents(t) \/ ListStep(t) PROVE Inv'
  <2>1. CASE Clear(t)
    <3>1. call' = [call EXCEPT ![t] = Idle]
      BY <2>1 DEF Clear, Return
    <3>2. /\ cache' \in [Aids -> 0..MaxInstances]
          /\ removed \subseteq removed'
          /\ \A a \in Aids : cache'[a] = cache[a] \/ cache[a] \in removed' \union {None}
      BY <2>1, MaxInstancesNat DEF Clear, Running, Inv, Types, None
    <3>3. QED
      BY <2>1, <3>1, <3>2, IdleType, RemovingStep DEF Clear
  <2>2. QED
    BY <1>5, <2>1, QuietCalls DEF ListStep
<1>6. ASSUME NEW i \in Instances, DeliverReply(i) PROVE Inv'
  BY <1>6, DeliverReplyInv
<1>7. CASE OpenSocket \/ ReopenPage \/ LoadList \/ Redeploy \/ UNCHANGED vars
  <2>1. UNCHANGED <<registryVars, messageVars, call>>
    BY <1>7 DEF OpenSocket, ReopenPage, LoadList, Redeploy, vars
  <2>2. QED
    BY <2>1 DEF registryVars, messageVars, Inv, Types, OwnInstance, InitRegistered,
                AwaitingRegistered, Registered, ReplyFindsAgent
<1>8. QED
  BY <1>1, <1>2, <1>3, <1>4, <1>5, <1>6, <1>7 DEF Next

\* A reply to a request sent from an agent's init is lost only if the agent
\* that sent it left the registry, whatever the other threads do (the order
\* of put and init in initAgent).
THEOREM RepliesFindAgents == Spec => []ReplyFindsAgent
<1>1. Inv => ReplyFindsAgent
  BY DEF Inv
<1>2. QED
  BY InitInv, NextInv, <1>1, PTL DEF Spec

-----------------------------------------------------------------------------
(* Nobody is displaced by a put, unless calls on one AID overlap. *)

\* Thread t is in the middle of a call on AID a.
BusyWith(t, a) == call[t].pc \notin {"idle", "list", "clear", "return"} /\ call[t].aid = a

\* Between the removal of an agent, or the check that there is none, and put.
Emptied == {"logRemove", "logReplaced", "lookup", "put"}

OneCaller ==
  \A t, u \in Threads : \A a \in Aids :
    t # u /\ BusyWith(t, a) /\ BusyWith(u, a) => a \in overlapped

EmptyFirst ==
  \A t \in Threads : call[t].pc \in Emptied =>
    call[t].aid \in overlapped \/ cache[call[t].aid] = None

OwnEntries == \A a \in Aids : cache[a] # None => cache[a] \in 1..created /\ info[cache[a]].aid = a

Displacing == OneCaller /\ EmptyFirst /\ OwnEntries /\ overwritten \subseteq 1..created /\ NoOverwrite

\* Call c follows the one that thread t is in.
Follows(c, t) ==
  /\ c \in Calls /\ call' = [call EXCEPT ![t] = c]
  /\ \A a \in Aids : c.pc \notin {"idle", "list", "clear", "return"} /\ c.aid = a => BusyWith(t, a)

\* A step that empties entries of the cache at most, and takes no thread to
\* put with an agent in its entry.
LEMMA EmptyingStep ==
  ASSUME Inv, Displacing, NEW t \in Threads, NEW c, Follows(c, t),
         \A a \in Aids : cache'[a] = cache[a] \/ cache'[a] = None,
         UNCHANGED <<overwritten, overlapped>>,
         created' \in {created, created + 1}, \A i \in 1..created : info'[i] = info[i],
         c.pc \in Emptied => call[t].pc \in Emptied \/ cache'[c.aid] = None
  PROVE  Displacing'
<1>1. created \in Nat
  BY MaxInstancesNat DEF Inv, Types
<1>2. \A u \in Threads : call'[u] = IF u = t THEN c ELSE call[u]
  BY DEF Follows, Inv, Types
<1>3. \A u \in Threads, a \in Aids : BusyWith(u, a)' => BusyWith(u, a)
  BY <1>2 DEF Follows, BusyWith
<1>4. OneCaller'
  BY <1>3 DEF Displacing, OneCaller
<1>5. EmptyFirst'
  <2> SUFFICES ASSUME NEW u \in Threads, call'[u].pc \in Emptied
               PROVE  call'[u].aid \in overlapped \/ cache'[call'[u].aid] = None
    BY DEF EmptyFirst
  <2>1. CASE u # t
    BY <1>2, <2>1 DEF Displacing, EmptyFirst, Inv, Types, Calls
  <2>2. CASE u = t
    <3>1. c.aid \in Aids /\ c.aid = call[t].aid
      BY <1>2, <2>2 DEF Follows, Calls, Emptied, BusyWith
    <3> QED
      BY <1>2, <2>2, <3>1 DEF Displacing, EmptyFirst
  <2> QED
    BY <2>1, <2>2
<1>6. OwnEntries'
  BY <1>1 DEF Displacing, OwnEntries
<1>7. overwritten' \subseteq 1..created' /\ NoOverwrite'
  BY <1>1 DEF Displacing, NoOverwrite
<1> QED
  BY <1>4, <1>5, <1>6, <1>7 DEF Displacing

LEMMA GotoFollows ==
  ASSUME Inv, NEW t \in Threads, NEW pc \in Steps, Goto(t, pc),
         call[t].pc \notin {"idle", "list", "clear", "return"} \/ pc \in {"idle", "list", "clear", "return"}
  PROVE  \E c : Follows(c, t) /\ c.pc = pc /\ c.aid = call[t].aid
<1> DEFINE c == [call[t] EXCEPT !.pc = pc]
<1>1. c \in Calls /\ c.pc = pc /\ c.aid = call[t].aid
  BY DEF Inv, Types, Calls
<1>2. call' = [call EXCEPT ![t] = c]
  BY DEF Goto
<1> QED
  BY <1>1, <1>2 DEF Follows, BusyWith

LEMMA ReturnFollows ==
  ASSUME Inv, NEW t \in Threads, Return(t)
  PROVE  \E c : Follows(c, t) /\ c.pc = "idle"
BY IdleType DEF Return, Follows

\* The steps that leave the cache alone.
LEMMA QuietDisplaces ==
  ASSUME Inv, Displacing, NEW t \in Threads,
         \/ GetRunningAgents(t) \/ Check(t) \/ Get(t) \/ LogRemove(t) \/ LogReplaced(t)
         \/ RunInit(t) \/ LogAdd(t) \/ List(t) \/ ReturnList(t)
  PROVE  Displacing'
<1>1. UNCHANGED <<registryVars, overlapped>>
  BY DEF GetRunningAgents, Check, Get, LogRemove, LogReplaced, RunInit, LogAdd, List, ReturnList,
         historyVars
<1>2. call[t] \in Calls
  BY DEF Inv, Types
<1>3. \E c : Follows(c, t) /\ (c.pc \in Emptied => call[t].pc \in Emptied \/ cache[c.aid] = None)
  <2>1. CASE GetRunningAgents(t) \/ List(t)
    BY <2>1, GotoFollows DEF GetRunningAgents, List, Steps, Emptied
  <2>2. CASE LogAdd(t) \/ ReturnList(t)
    BY <2>2, ReturnFollows DEF LogAdd, ReturnList, Emptied
  <2>3. CASE LogReplaced(t)
    BY <2>3, GotoFollows DEF LogReplaced, At, Steps, Emptied
  <2>4. CASE Check(t)
    <3>1. call[t].pc = "check"
      BY <2>4 DEF Check, At
    <3>2. CASE cache[call[t].aid] = None /\ Goto(t, "lookup")
      BY <3>1, <3>2, GotoFollows DEF Steps
    <3>3. CASE Return(t)
      BY <3>3, ReturnFollows DEF Emptied
    <3>4. CASE call' = [call EXCEPT ![t].pc = "get", ![t].next = "logReplaced"]
      <4> DEFINE c == [call[t] EXCEPT !.pc = "get", !.next = "logReplaced"]
      <4>1. c \in Calls /\ c.pc = "get" /\ c.aid = call[t].aid
        BY <1>2 DEF Calls, Steps, AfterStop
      <4>2. call' = [call EXCEPT ![t] = c]
        BY <3>4 DEF Inv, Types
      <4> QED
        BY <3>1, <4>1, <4>2 DEF Follows, BusyWith, Emptied
    <3> QED
      BY <2>4, <3>2, <3>3, <3>4 DEF Check
  <2>5. CASE RunInit(t)
    <3>1. call[t].pc = "init"
      BY <2>5 DEF RunInit, At
    <3>2. CASE Goto(t, "logAdd")
      BY <3>1, <3>2, GotoFollows DEF Steps, Emptied
    <3>3. CASE Return(t)
      BY <3>3, ReturnFollows DEF Emptied
    <3>4. CASE call' = [call EXCEPT ![t].pc = "get", ![t].next = "logAdd"]
      <4> DEFINE c == [call[t] EXCEPT !.pc = "get", !.next = "logAdd"]
      <4>1. c \in Calls /\ c.pc = "get" /\ c.aid = call[t].aid
        BY <1>2 DEF Calls, Steps, AfterStop
      <4>2. call' = [call EXCEPT ![t] = c]
        BY <3>4 DEF Inv, Types
      <4> QED
        BY <3>1, <4>1, <4>2 DEF Follows, BusyWith, Emptied
    <3> QED
      BY <2>5, <3>2, <3>3, <3>4 DEF RunInit, After
  <2>6. CASE Get(t) \/ LogRemove(t)
    <3>1. call[t].pc \in {"get", "logRemove"}
      BY <2>6 DEF Get, LogRemove, At
    <3>2. CASE Return(t)
      BY <3>2, ReturnFollows DEF Emptied
    <3>3. CASE Goto(t, "remove")
      BY <3>1, <3>3, GotoFollows DEF Steps, Emptied
    <3>4. CASE Goto(t, call[t].next) /\ ReturnFromStop(t)
      <4>1. call[t].pc \in Emptied \/ cache[call[t].aid] = None
        BY <2>6, <3>4, <1>2 DEF Get, LogRemove, At, Emptied, Goto, Calls, AfterStop, Inv, Types
      <4> QED
        BY <1>2, <3>1, <3>4, <4>1, GotoFollows DEF Calls, AfterStop, Steps
    <3> QED
      BY <2>6, <3>2, <3>3, <3>4 DEF Get, LogRemove, ReturnFromStop
  <2> QED
    BY <2>1, <2>2, <2>3, <2>4, <2>5, <2>6
<1> QED
  BY <1>1, <1>3, EmptyingStep DEF registryVars

LEMMA LookupDisplaces ==
  ASSUME Inv, Displacing, NEW t \in Threads, Lookup(t)
  PROVE  Displacing'
<1>1. call[t].pc = "lookup" /\ call[t] \in Calls
  BY DEF Lookup, At, Inv, Types
<1>2. UNCHANGED <<cache, overwritten, overlapped>>
  BY DEF Lookup, historyVars
<1>3. CASE ~deployed /\ Return(t) /\ UNCHANGED <<created, info>>
  BY <1>2, <1>3, ReturnFollows, EmptyingStep DEF Emptied
<1>4. CASE /\ created < MaxInstances
           /\ created' = created + 1
           /\ info' = [info EXCEPT ![created + 1] = [aid |-> call[t].aid, ui |-> call[t].ui]]
           /\ call' = [call EXCEPT ![t].pc = After("lookup"), ![t].inst = created + 1]
  <2> DEFINE c == [call[t] EXCEPT !.pc = "put", !.inst = created + 1]
  <2>1. created + 1 \in 0..MaxInstances /\ created \in Nat
    BY <1>4, MaxInstancesNat DEF Inv, Types
  <2>2. c \in Calls /\ c.pc = "put" /\ c.aid = call[t].aid
    BY <1>1, <2>1 DEF Calls, Steps
  <2>3. call' = [call EXCEPT ![t] = c]
    BY <1>4 DEF After, Inv, Types
  <2>4. Follows(c, t) /\ call[t].pc \in Emptied
    BY <1>1, <2>2, <2>3 DEF Follows, BusyWith, Emptied
  <2>5. \A i \in 1..created : info'[i] = info[i]
    BY <1>4, <2>1, MaxInstancesNat DEF Inv, Types, Instances
  <2> HIDE DEF c
  <2> QED
    BY <1>2, <1>4, <2>4, <2>5, EmptyingStep
<1> QED
  BY <1>3, <1>4 DEF Lookup

\* Put finds an agent only where calls on its AID overlapped.
LEMMA PutDisplaces ==
  ASSUME Inv, Displacing, NEW t \in Threads, Put(t)
  PROVE  Displacing'
<1>0. PICK a \in Aids, i \in 1..created :
        a = call[t].aid /\ i = call[t].inst /\ info[i].aid = a
  BY DEF Put, At, Inv, Types, OwnInstance, Calls
<1>1. /\ call[t].pc = "put" /\ Goto(t, "init")
      /\ cache' = [cache EXCEPT ![a] = i]
      /\ overwritten' = overwritten \union ({cache[a]} \ {None})
      /\ UNCHANGED <<created, info, overlapped>>
  BY <1>0 DEF Put, At, After, historyVars
<1>2. PICK c : Follows(c, t) /\ c.pc = "init" /\ c.aid = a
  BY <1>0, <1>1, GotoFollows DEF Steps
<1>3. \A u \in Threads : call'[u] = IF u = t THEN c ELSE call[u]
  BY <1>2 DEF Follows, Inv, Types
<1>4. \A u \in Threads, b \in Aids : BusyWith(u, b)' => BusyWith(u, b)
  BY <1>2, <1>3 DEF Follows, BusyWith
<1>5. OneCaller'
  BY <1>1, <1>4 DEF Displacing, OneCaller
<1>6. EmptyFirst'
  <2> SUFFICES ASSUME NEW u \in Threads, call'[u].pc \in Emptied
               PROVE  call'[u].aid \in overlapped \/ cache'[call'[u].aid] = None
    BY <1>1 DEF EmptyFirst
  <2>1. u # t /\ call'[u] = call[u] /\ call[u].aid \in Aids
    BY <1>2, <1>3 DEF Emptied, Inv, Types, Calls
  <2>2. CASE call[u].aid = a
    <3>1. BusyWith(u, a) /\ BusyWith(t, a)
      BY <1>0, <1>1, <2>1, <2>2 DEF BusyWith, Emptied
    <3> QED
      BY <2>1, <2>2, <3>1 DEF Displacing, OneCaller
  <2>3. CASE call[u].aid # a
    BY <1>1, <2>1, <2>3 DEF Displacing, EmptyFirst, Inv, Types
  <2> QED
    BY <2>2, <2>3
<1>7. OwnEntries'
  BY <1>0, <1>1 DEF Displacing, OwnEntries, Inv, Types
<1>8. overwritten' \subseteq 1..created' /\ NoOverwrite'
  <2>1. cache[a] # None => a \in overlapped
    BY <1>0, <1>1 DEF Displacing, EmptyFirst, Emptied
  <2>2. cache[a] # None => cache[a] \in 1..created /\ info[cache[a]].aid = a
    BY <1>0 DEF Displacing, OwnEntries
  <2> QED
    BY <1>1, <2>1, <2>2 DEF Displacing, NoOverwrite
<1> QED
  BY <1>5, <1>6, <1>7, <1>8 DEF Displacing

\* stopAgent and the clearing of the cache only take entries out.
LEMMA RemovalDisplaces ==
  ASSUME Inv, Displacing, NEW t \in Threads, Remove(t) \/ Clear(t)
  PROVE  Displacing'
<1>1. UNCHANGED <<created, info, overwritten, overlapped>>
  BY DEF Remove, Clear, historyVars
<1>2. CASE Remove(t)
  <2>1. PICK c : Follows(c, t) /\ c.aid = call[t].aid
    BY <1>2, GotoFollows DEF Remove, At, Steps
  <2>2. call[t].aid \in Aids /\ cache' = [cache EXCEPT ![call[t].aid] = None]
    BY <1>2 DEF Remove, Inv, Types, Calls
  <2> QED
    BY <1>1, <2>1, <2>2, EmptyingStep DEF Inv, Types
<1>3. CASE Clear(t)
  <2>1. PICK c : Follows(c, t) /\ c.pc = "idle"
    BY <1>3, ReturnFollows DEF Clear
  <2> QED
    BY <1>1, <1>3, <2>1, EmptyingStep DEF Clear, Emptied
<1> QED
  BY <1>2, <1>3

\* A call that begins on an AID that another call is about makes them overlap.
LEMMA BeginDisplaces ==
  ASSUME Inv, Displacing, NEW t \in Threads, NEW c \in Calls, c.pc \in {"check", "get"}, Begin(t, c)
  PROVE  Displacing'
<1>1. /\ call' = [call EXCEPT ![t] = c] /\ call[t].pc = "idle"
      /\ overlapped' = IF Busy(c.aid) THEN overlapped \union {c.aid} ELSE overlapped
      /\ UNCHANGED <<cache, created, info, overwritten>>
  BY DEF Begin, At, registryVars
<1>2. \A u \in Threads : call'[u] = IF u = t THEN c ELSE call[u]
  BY <1>1 DEF Inv, Types
<1>3. OneCaller'
  <2> SUFFICES ASSUME NEW u \in Threads, NEW v \in Threads, NEW a \in Aids,
                      u # v, BusyWith(u, a)', BusyWith(v, a)'
               PROVE  a \in overlapped'
    BY DEF OneCaller
  <2>1. CASE u # t /\ v # t
    BY <1>1, <1>2, <2>1 DEF Displacing, OneCaller, BusyWith
  <2>2. CASE u = t \/ v = t
    <3>1. a = c.aid
      BY <1>2, <2>2 DEF BusyWith
    <3>2. Busy(a)
      BY <1>2, <2>2 DEF BusyWith, Busy
    <3> QED
      BY <1>1, <3>1, <3>2
  <2> QED
    BY <2>1, <2>2
<1>4. EmptyFirst'
  BY <1>1, <1>2 DEF Displacing, EmptyFirst, Emptied
<1>5. OwnEntries' /\ overwritten' \subseteq 1..created' /\ NoOverwrite'
  BY <1>1 DEF Displacing, OwnEntries, NoOverwrite
<1> QED
  BY <1>3, <1>4, <1>5 DEF Displacing

LEMMA NextDisplaces ==
  ASSUME Inv, Displacing, [Next]_vars
  PROVE  Displacing'
<1>1. ASSUME NEW t \in Threads, NEW a \in Aids, NEW replace \in BOOLEAN, NEW ui \in BOOLEAN,
             StartAgent(t, a, replace, ui) \/ StartByName(t, a, ui)
      PROVE  Displacing'
  <2> DEFINE c(flag) == [Idle EXCEPT !.pc = "check", !.aid = a, !.replace = flag, !.ui = ui]
  <2>1. \A flag \in BOOLEAN : c(flag) \in Calls /\ c(flag).pc = "check"
    BY IdleType DEF Calls, Steps
  <2>2. \E flag \in BOOLEAN : Begin(t, c(flag))
    BY <1>1 DEF StartAgent, StartByName
  <2> QED
    BY <2>1, <2>2, BeginDisplaces
<1>2. ASSUME NEW t \in Threads, NEW a \in Aids, StopAgent(t, a)
      PROVE  Displacing'
  <2> DEFINE c == [Idle EXCEPT !.pc = "get", !.aid = a]
  <2>1. c \in Calls /\ c.pc = "get"
    BY IdleType DEF Calls, Steps
  <2>2. Begin(t, c)
    BY <1>2 DEF StopAgent
  <2> QED
    BY <2>1, <2>2, BeginDisplaces
<1>3. ASSUME NEW t \in Threads, GetRunningAgents(t) \/ StartStep(t) \/ StopStep(t) \/ ListStep(t)
      PROVE  Displacing'
  BY <1>3, QuietDisplaces, LookupDisplaces, PutDisplaces, RemovalDisplaces
     DEF StartStep, StopStep, ListStep
<1>4. CASE \/ \E i \in Instances : DeliverReply(i)
           \/ OpenSocket \/ ReopenPage \/ LoadList \/ Redeploy \/ UNCHANGED vars
  <2>1. UNCHANGED <<registryVars, call, overlapped>>
    BY <1>4 DEF DeliverReply, OpenSocket, ReopenPage, LoadList, Redeploy, vars, historyVars
  <2> QED
    BY <2>1 DEF registryVars, Displacing, OneCaller, EmptyFirst, OwnEntries, NoOverwrite, BusyWith
<1> QED
  BY <1>1, <1>2, <1>3, <1>4 DEF Next

\* For any number of threads and AIDs: a put displaces a running agent only
\* where two calls on its AID overlapped (startServerAgent, stopAgent).
THEOREM NobodyDisplaced == Spec => []NoOverwrite
<1>1. Init => Displacing
  BY IdleType DEF Init, Displacing, OneCaller, EmptyFirst, OwnEntries, NoOverwrite, BusyWith, Emptied
<1>2. Displacing => NoOverwrite
  BY DEF Displacing
<1>3. (Inv /\ Displacing) /\ [Next]_vars => (Inv /\ Displacing)'
  BY NextInv, NextDisplaces
<1> QED
  BY InitInv, <1>1, <1>2, <1>3, PTL DEF Spec

-----------------------------------------------------------------------------
(* Types *)

\* What the two invariants leave out.
OtherTypes ==
  /\ deployed \in BOOLEAN
  /\ rows \in [Aids -> Nat]
  /\ socket \in BOOLEAN
  /\ page \in {"requested", "answered", "loaded"}
  /\ snapshot \subseteq Aids
  /\ lost \subseteq Instances /\ removed \subseteq Instances
  /\ overlapped \subseteq Aids /\ spoiled \subseteq Aids

LEMMA OtherTypesKept ==
  ASSUME Inv, OtherTypes, [Next]_vars
  PROVE  OtherTypes'
<1>0. \A t \in Threads : call[t] \in Calls /\ call[t].aid \in Aids
  BY DEF Inv, Types, Calls
<1>1. ASSUME NEW a \in Aids, NEW change \in {"ADD", "REMOVE"}
      PROVE  RowsAfter(a, change) \in [Aids -> Nat]
  BY DEF OtherTypes, RowsAfter
<1>2. \A a \in Aids : {cache[a]} \ {None} \subseteq Instances
  BY MaxInstancesNat DEF Inv, Types, Instances, None
<1>3. ASSUME NEW t \in Threads, NEW c, c.aid \in Aids, Begin(t, c)
      PROVE  OtherTypes'
  BY <1>3 DEF Begin, OtherTypes, registryVars, consoleVars, messageVars
<1>4. ASSUME NEW t \in Threads, NEW a \in Aids
      PROVE  /\ StopAgent(t, a) => OtherTypes'
             /\ \A ui \in BOOLEAN : StartByName(t, a, ui) => OtherTypes'
             /\ \A ui, r \in BOOLEAN : StartAgent(t, a, r, ui) => OtherTypes'
  BY <1>3, IdleType DEF StopAgent, StartByName, StartAgent, Calls
<1>5. ASSUME NEW t \in Threads,
             LogRemove(t) \/ LogReplaced(t) \/ LogAdd(t)
      PROVE  OtherTypes'
  BY <1>0, <1>1, <1>5 DEF LogRemove, LogReplaced, LogAdd, Notify, OtherTypes, registryVars,
                          messageVars
<1>6. ASSUME NEW t \in Threads,
             GetRunningAgents(t) \/ Check(t) \/ Get(t) \/ Lookup(t) \/ List(t)
      PROVE  OtherTypes'
  BY <1>6 DEF GetRunningAgents, Check, Get, Lookup, List, OtherTypes, registryVars, consoleVars,
              messageVars, historyVars
<1>7. ASSUME NEW t \in Threads, Remove(t) \/ Put(t)
      PROVE  OtherTypes'
  BY <1>0, <1>2, <1>7 DEF Remove, Put, OtherTypes, consoleVars, messageVars, historyVars
<1>8. ASSUME NEW t \in Threads, RunInit(t)
      PROVE  OtherTypes'
  BY <1>0, <1>8 DEF RunInit, OtherTypes, registryVars, consoleVars
<1>9. ASSUME NEW t \in Threads, Clear(t)
      PROVE  OtherTypes'
  <2>1. {cache[a] : a \in Running} \subseteq Instances /\ Running \subseteq Aids
    BY MaxInstancesNat DEF Running, Inv, Types, Instances, None
  <2> QED
    BY <1>9, <2>1 DEF Clear, Answer, OtherTypes, messageVars
<1>10. ASSUME NEW t \in Threads, ReturnList(t)
       PROVE  OtherTypes'
  BY <1>10 DEF ReturnList, Answer, Running, OtherTypes, registryVars, messageVars, historyVars
<1>11. ASSUME NEW i \in Instances, DeliverReply(i)
       PROVE  OtherTypes'
  BY <1>11 DEF DeliverReply, OtherTypes, registryVars, consoleVars, historyVars
<1>12. CASE OpenSocket \/ ReopenPage \/ LoadList \/ Redeploy \/ UNCHANGED vars
  <2>1. ASSUME OpenSocket PROVE OtherTypes'
    BY <2>1 DEF OpenSocket, OtherTypes, registryVars, messageVars, historyVars
  <2>2. ASSUME LoadList PROVE OtherTypes'
    BY <2>2 DEF LoadList, OtherTypes, registryVars, messageVars, historyVars
  <2>3. ASSUME Redeploy PROVE OtherTypes'
    <3>1. (~deployed) \in BOOLEAN
      OBVIOUS
    <3>2. deployed' \in BOOLEAN
      BY <2>3, <3>1, Zenon DEF Redeploy
    <3> QED
      BY <2>3, <3>2 DEF Redeploy, OtherTypes, registryVars, consoleVars, messageVars, historyVars
  <2>4. ASSUME UNCHANGED vars PROVE OtherTypes'
    BY <2>4 DEF vars, OtherTypes, registryVars, consoleVars, messageVars, historyVars
  <2>5. ASSUME ReopenPage PROVE OtherTypes'
    BY <2>5 DEF ReopenPage, OtherTypes, registryVars, messageVars
  <2> QED
    BY <1>12, <2>1, <2>2, <2>3, <2>4, <2>5
<1>13. ASSUME NEW t \in Threads, StartStep(t) \/ StopStep(t) \/ ListStep(t)
       PROVE  OtherTypes'
  <2>1. ASSUME StartStep(t) PROVE OtherTypes'
    BY <2>1, <1>5, <1>6, <1>7, <1>8 DEF StartStep
  <2>2. ASSUME StopStep(t) PROVE OtherTypes'
    BY <2>2, <1>5, <1>6, <1>7 DEF StopStep
  <2>3. ASSUME ListStep(t) PROVE OtherTypes'
    BY <2>3, <1>6, <1>9, <1>10 DEF ListStep
  <2> QED
    BY <1>13, <2>1, <2>2, <2>3
<1>14. ASSUME NEW t \in Threads, NEW a \in Aids, NEW ui \in BOOLEAN,
              StartByName(t, a, ui) \/ \E replace \in BOOLEAN : StartAgent(t, a, replace, ui)
       PROVE  OtherTypes'
  BY <1>4, <1>14
<1>15. ASSUME NEW t \in Threads, NEW a \in Aids, StopAgent(t, a)
       PROVE  OtherTypes'
  BY <1>4, <1>15
<1> QED
  BY <1>6, <1>11, <1>12, <1>13, <1>14, <1>15 DEF Next

\* The registry, the calls, the console page and the histories keep their
\* types, and only created instances are registered, for any number of
\* threads and AIDs.
THEOREM TypeCorrect == Spec => []TypeOK
<1>1. Init => Displacing /\ OtherTypes
  BY IdleType, PagesKnown
     DEF Init, Displacing, OneCaller, EmptyFirst, OwnEntries, NoOverwrite, BusyWith, Emptied, OtherTypes
<1>2. Inv /\ Displacing /\ OtherTypes => TypeOK
  <2> SUFFICES ASSUME Inv, Displacing, OtherTypes
               PROVE  TypeOK
    OBVIOUS
  <2>1. cache \in [Aids -> 0..created]
    BY MaxInstancesNat DEF Inv, Types, Displacing, OwnEntries, None
  <2>2. awaiting \subseteq Instances /\ overwritten \subseteq Instances
    BY MaxInstancesNat DEF Inv, Types, Displacing, Instances
  <2> QED
    BY <2>1, <2>2 DEF Inv, Types, OtherTypes, TypeOK
<1>3. (Inv /\ Displacing /\ OtherTypes) /\ [Next]_vars => (Inv /\ Displacing /\ OtherTypes)'
  BY NextInv, NextDisplaces, OtherTypesKept
<1> QED
  BY InitInv, <1>1, <1>2, <1>3, PTL DEF Spec

-----------------------------------------------------------------------------
(* The console page, where calls on an AID do not overlap *)

Away == {"idle", "list", "clear", "return"}
Calm(a) == a \notin overlapped \union spoiled
Shown(a) == IF cache[a] # None /\ info[cache[a]].ui THEN 1 ELSE 0

\* The row of its AID while call c is in progress, and what c is about.
Expected(c) ==
  /\ c.pc \in {"check", "get", "remove"} => rows[c.aid] = Shown(c.aid)
  /\ c.pc = "logRemove" => rows[c.aid] \in {0, 1}
  /\ c.pc \in {"logReplaced", "lookup", "put", "init", "logAdd"} => rows[c.aid] = 0
  /\ c.pc \in {"put", "init", "logAdd"} => c.inst \in 1..created /\ info[c.inst].ui = c.ui
  /\ c.pc \in {"init", "logAdd"} => cache[c.aid] = c.inst
  /\ c.pc \in {"get", "remove", "logRemove"} => c.next \in {"idle", "logReplaced"}

\* Unless everything is spoiled, the page is loaded and gets the events.
Loaded == Aids \subseteq spoiled \/ (page = "loaded" /\ socket)

RowsOK ==
  /\ Loaded
  /\ \A a \in Aids : Calm(a) /\ ~Busy(a) => rows[a] = Shown(a)
  /\ \A t \in Threads : call[t].pc \notin Away /\ Calm(call[t].aid) => Expected(call[t])

\* What is registered stays what it is.
InfoKept == created' \in Nat /\ created <= created' /\ \A i \in 1..created : info'[i] = info[i]

LEMMA ShownKept ==
  ASSUME Inv, Displacing, InfoKept, NEW a \in Aids, cache'[a] = cache[a]
  PROVE  Shown(a)' = Shown(a)
  BY DEF Displacing, OwnEntries, InfoKept, Shown

\* A call whose AID has kept its row and its entry.
LEMMA ExpectedKept ==
  ASSUME Inv, Displacing, InfoKept, NEW c \in Calls, Expected(c),
         cache'[c.aid] = cache[c.aid], rows'[c.aid] = rows[c.aid]
  PROVE  Expected(c)'
<1>1. c.aid \in Aids /\ created \in Nat /\ created' \in Nat
  BY MaxInstancesNat DEF Calls, Inv, Types, InfoKept
<1>2. Shown(c.aid)' = Shown(c.aid)
  BY <1>1, ShownKept
<1> QED
  BY <1>1, <1>2 DEF Expected, InfoKept

\* RowsOK after a step, with the calls named.
LEMMA RowsNext ==
  ASSUME Loaded', \A a \in Aids : Calm(a)' /\ ~Busy(a)' => rows'[a] = Shown(a)',
         call' \in [Threads -> Calls],
         \A t \in Threads, c \in Calls :
           call'[t] = c /\ c.pc \notin Away /\ Calm(c.aid)' => Expected(c)'
  PROVE  RowsOK'
<1>1. ASSUME NEW t \in Threads, (call[t].pc \notin Away)', Calm(call[t].aid)'
      PROVE  Expected(call[t])'
  <2>1. PICK c \in Calls : call'[t] = c
    OBVIOUS
  <2>2. c.pc \notin Away /\ Calm(c.aid)'
    BY <1>1, <2>1 DEF Calm
  <2>3. Expected(c)'
    BY <2>1, <2>2
  <2> QED
    BY <2>1, <2>3 DEF Expected, Shown
<1> QED
  BY <1>1 DEF RowsOK

Becomes(t, c) == call' = [call EXCEPT ![t] = c]

\* Nothing changes but the entry and the row of AID a, and the call of t.
OnlyAt(a, t, c) ==
  /\ Becomes(t, c)
  /\ \A b \in Aids : b # a /\ Calm(b)' => cache'[b] = cache[b] /\ rows'[b] = rows[b]
  /\ InfoKept
  /\ overlapped \subseteq overlapped' /\ spoiled \subseteq spoiled'
  /\ UNCHANGED <<page, socket>>

\* What the call of t on a becomes, and what it leaves behind.
Goes(t, a, c) ==
  /\ c \in Calls
  /\ Becomes(t, c)
  /\ c.pc \in Away \/ c.aid = a
  /\ Calm(a)' => IF c.pc \in Away THEN rows'[a] = Shown(a)' ELSE Expected(c)'

\* A thread that is in the middle of a call on a goes on with it.
LEMMA OwnStep ==
  ASSUME Inv, Displacing, RowsOK, NEW t \in Threads, NEW a \in Aids, BusyWith(t, a),
         NEW c, Goes(t, a, c), OnlyAt(a, t, c)
  PROVE  RowsOK'
<1>0. c \in Calls
  BY DEF Goes
<1>1. \A u \in Threads : call'[u] = IF u = t THEN c ELSE call[u]
  BY DEF Goes, Becomes, Inv, Types
<1>2. \A b \in Aids : Calm(b)' => Calm(b)
  BY DEF Calm, OnlyAt
<1>3. Loaded'
  BY DEF RowsOK, Loaded, OnlyAt
<1>4. ASSUME NEW b \in Aids, Calm(b)', ~Busy(b)'
      PROVE  rows'[b] = Shown(b)'
  <2>1. CASE b = a
    <3>1. c.pc \in Away
      BY <1>1, <1>4, <2>1 DEF Goes, Busy, Away
    <3> QED
      BY <1>4, <2>1, <3>1 DEF Goes
  <2>2. CASE b # a
    <3>1. ~Busy(b)
      BY <1>1, <1>4, <2>2 DEF Busy, BusyWith
    <3>2. cache'[b] = cache[b] /\ rows'[b] = rows[b]
      BY <1>4, <2>2 DEF OnlyAt
    <3>3. Shown(b)' = Shown(b)
      BY <3>2, ShownKept DEF OnlyAt
    <3> QED
      BY <1>2, <1>4, <3>1, <3>2, <3>3 DEF RowsOK
  <2> QED
    BY <2>1, <2>2
<1>5. ASSUME NEW u \in Threads, NEW d \in Calls, call'[u] = d, d.pc \notin Away, Calm(d.aid)'
      PROVE  Expected(d)'
  <2>1. CASE u = t
    <3>1. d = c /\ d.aid = a
      BY <1>1, <1>5, <2>1 DEF Goes
    <3> QED
      BY <1>5, <3>1 DEF Goes
  <2>2. CASE u # t
    <3>1. d = call[u] /\ d.aid \in Aids
      BY <1>1, <1>5, <2>2 DEF Calls
    <3>2. BusyWith(u, d.aid) /\ Calm(d.aid)
      BY <1>2, <1>5, <3>1 DEF BusyWith, Away
    <3>3. d.aid # a
      BY <2>2, <3>1, <3>2 DEF Displacing, OneCaller, Calm
    <3>4. Expected(d)
      BY <1>5, <3>1, <3>2 DEF RowsOK
    <3>5. cache'[d.aid] = cache[d.aid] /\ rows'[d.aid] = rows[d.aid]
      BY <1>5, <3>1, <3>3 DEF OnlyAt
    <3> QED
      BY <3>4, <3>5, ExpectedKept DEF OnlyAt
  <2> QED
    BY <2>1, <2>2
<1>6. call' \in [Threads -> Calls]
  BY <1>0 DEF Goes, Becomes, Inv, Types
<1> QED
  BY <1>3, <1>4, <1>5, <1>6, RowsNext

\* A step in the middle of no call, or at the end of one.
LEMMA AsideStep ==
  ASSUME Inv, Displacing, RowsOK, InfoKept, Loaded',
         overlapped \subseteq overlapped', spoiled \subseteq spoiled',
         \A b \in Aids : Calm(b)' => cache'[b] = cache[b] /\ rows'[b] = rows[b],
         call' \in [Threads -> Calls],
         \A u \in Threads : call'[u] = call[u] \/ (call[u].pc \in Away /\ call'[u].pc \in Away)
  PROVE  RowsOK'
<1>1. \A b \in Aids : Calm(b)' => Calm(b)
  BY DEF Calm
<1>2. ASSUME NEW b \in Aids, Calm(b)', ~Busy(b)'
      PROVE  rows'[b] = Shown(b)'
  <2>1. ~Busy(b)
    BY <1>2 DEF Busy, Away
  <2>2. Shown(b)' = Shown(b)
    BY <1>2, ShownKept
  <2> QED
    BY <1>1, <1>2, <2>1, <2>2 DEF RowsOK
<1>3. ASSUME NEW u \in Threads, NEW d \in Calls, call'[u] = d, d.pc \notin Away, Calm(d.aid)'
      PROVE  Expected(d)'
  <2>1. d = call[u] /\ d.aid \in Aids
    BY <1>3 DEF Calls
  <2>2. Expected(d)
    BY <1>1, <1>3, <2>1 DEF RowsOK
  <2> QED
    BY <1>3, <2>1, <2>2, ExpectedKept
<1> QED
  BY <1>2, <1>3, RowsNext

\* A call begins.
LEMMA BeginRows ==
  ASSUME Inv, Displacing, RowsOK, NEW t \in Threads, NEW c \in Calls, Begin(t, c),
         c.pc = "check" \/ (c.pc = "get" /\ c.next = "idle")
  PROVE  RowsOK'
<1>1. /\ call' = [call EXCEPT ![t] = c] /\ call[t].pc = "idle"
      /\ overlapped' = IF Busy(c.aid) THEN overlapped \union {c.aid} ELSE overlapped
      /\ UNCHANGED <<cache, created, info, rows, page, socket, spoiled>>
  BY DEF Begin, At, registryVars, consoleVars
<1>2. call' \in [Threads -> Calls] /\ \A u \in Threads : call'[u] = IF u = t THEN c ELSE call[u]
  BY <1>1 DEF Inv, Types
<1>3. InfoKept /\ Loaded'
  BY <1>1, MaxInstancesNat DEF InfoKept, Inv, Types, RowsOK, Loaded
<1>4. \A b \in Aids : Shown(b)' = Shown(b)
  BY <1>1 DEF Shown
<1>5. \A b \in Aids : Calm(b)' => Calm(b)
  BY <1>1 DEF Calm
<1>6. \A b \in Aids : Calm(b)' /\ ~Busy(b)' => rows'[b] = Shown(b)'
  <2>1. \A b \in Aids : ~Busy(b)' => ~Busy(b)
    BY <1>1, <1>2 DEF Busy
  <2> QED
    BY <1>1, <1>4, <1>5, <2>1 DEF RowsOK
<1>7. ASSUME NEW u \in Threads, NEW d \in Calls, call'[u] = d, d.pc \notin Away, Calm(d.aid)'
      PROVE  Expected(d)'
  <2>1. CASE u = t
    <3>1. d = c /\ c.aid \in Aids
      BY <1>2, <1>7, <2>1 DEF Calls
    <3>2. ~Busy(c.aid) /\ Calm(c.aid)
      BY <1>1, <1>5, <1>7, <3>1 DEF Calm
    <3>3. rows'[c.aid] = Shown(c.aid)'
      BY <1>1, <1>4, <3>1, <3>2 DEF RowsOK
    <3> QED
      BY <3>1, <3>3 DEF Expected
  <2>2. CASE u # t
    <3>1. d = call[u] /\ d.aid \in Aids
      BY <1>2, <1>7, <2>2 DEF Calls
    <3>2. Expected(d)
      BY <1>5, <1>7, <3>1 DEF RowsOK
    <3> QED
      BY <1>1, <1>3, <3>2, ExpectedKept
  <2> QED
    BY <2>1, <2>2
<1> QED
  BY <1>2, <1>3, <1>6, <1>7, RowsNext

LEMMA GotoBecomes ==
  ASSUME Inv, NEW t \in Threads, NEW pc \in Steps, Goto(t, pc)
  PROVE  \E c \in Calls :
           /\ Becomes(t, c)
           /\ c.pc = pc /\ c.aid = call[t].aid /\ c.inst = call[t].inst
           /\ c.ui = call[t].ui /\ c.next = call[t].next
<1> DEFINE c == [call[t] EXCEPT !.pc = pc]
<1>1. /\ c \in Calls
      /\ c.pc = pc /\ c.aid = call[t].aid /\ c.inst = call[t].inst
      /\ c.ui = call[t].ui /\ c.next = call[t].next
  BY DEF Inv, Types, Calls
<1>2. Becomes(t, c)
  BY DEF Goto, Becomes
<1> HIDE DEF c
<1> QED
  BY <1>1, <1>2

LEMMA ReturnGoes ==
  ASSUME Inv, NEW t \in Threads, NEW a \in Aids, Return(t), Calm(a)' => rows'[a] = Shown(a)'
  PROVE  Goes(t, a, Idle)
<1>1. Idle \in Calls /\ Idle.pc \in Away /\ Becomes(t, Idle)
  BY IdleType DEF Return, Becomes, Away
<1> QED
  BY <1>1 DEF Goes

\* The call that a thread is in, and what holds of it.
LEMMA CallNow ==
  ASSUME Inv, RowsOK, NEW t \in Threads, call[t].pc \notin Away
  PROVE  \E d \in Calls : /\ d = call[t] /\ d.aid \in Aids /\ BusyWith(t, d.aid)
                          /\ Calm(d.aid) => Expected(d)
<1>1. call[t] \in Calls /\ call[t].aid \in Aids
  BY DEF Inv, Types, Calls
<1> QED
  BY <1>1 DEF RowsOK, BusyWith, Away

\* A step that changes neither entries nor rows.
Quiet ==
  /\ UNCHANGED <<cache, created, info, rows, page, socket, overlapped>>
  /\ spoiled \subseteq spoiled'

LEMMA QuietRows ==
  ASSUME Inv, Displacing, RowsOK, NEW t \in Threads, NEW a \in Aids, BusyWith(t, a),
         NEW c, Goes(t, a, c), Quiet
  PROVE  RowsOK'
<1>1. OnlyAt(a, t, c)
  BY MaxInstancesNat DEF Quiet, Goes, OnlyAt, InfoKept, Inv, Types
<1> QED
  BY <1>1, OwnStep

LEMMA CheckRows ==
  ASSUME Inv, Displacing, RowsOK, NEW t \in Threads, Check(t)
  PROVE  RowsOK'
<1>1. call[t].pc = "check" /\ Quiet /\ UNCHANGED <<rows, cache, info, spoiled, overlapped>>
  BY DEF Check, Quiet, At, registryVars, consoleVars, historyVars
<1>2. PICK d \in Calls : /\ d = call[t] /\ d.aid \in Aids /\ BusyWith(t, d.aid)
                         /\ Calm(d.aid) => Expected(d)
  BY <1>1, CallNow DEF Away
<1>3. Calm(d.aid)' => rows'[d.aid] = Shown(d.aid)'
  BY <1>1, <1>2 DEF Expected, Calm, Shown
<1>4. CASE cache[d.aid] = None /\ Goto(t, "lookup")
  <2>1. PICK c \in Calls : Becomes(t, c) /\ c.pc = "lookup" /\ c.aid = d.aid
    BY <1>2, <1>4, GotoBecomes DEF Steps
  <2>2. Shown(d.aid)' = 0
    BY <1>1, <1>4 DEF Shown
  <2>3. Calm(d.aid)' => Expected(c)'
    BY <1>3, <2>1, <2>2 DEF Expected
  <2>4. Goes(t, d.aid, c)
    BY <2>1, <2>3 DEF Goes, Away
  <2> QED
    BY <1>1, <1>2, <2>4, QuietRows
<1>5. CASE Return(t)
  BY <1>1, <1>2, <1>3, <1>5, ReturnGoes, QuietRows
<1>6. CASE call' = [call EXCEPT ![t].pc = "get", ![t].next = "logReplaced"]
  <2> DEFINE c == [d EXCEPT !.pc = "get", !.next = "logReplaced"]
  <2>1. c \in Calls /\ c.pc = "get" /\ c.aid = d.aid /\ c.next = "logReplaced"
    BY DEF Calls, Steps, AfterStop
  <2>2. Becomes(t, c)
    BY <1>2, <1>6 DEF Inv, Types, Becomes
  <2> HIDE DEF c
  <2>3. Calm(d.aid)' => Expected(c)'
    BY <1>3, <2>1 DEF Expected
  <2>4. Goes(t, d.aid, c)
    BY <2>1, <2>2, <2>3 DEF Goes, Away
  <2> QED
    BY <1>1, <1>2, <2>4, QuietRows
<1> QED
  BY <1>2, <1>4, <1>5, <1>6 DEF Check

\* The way back from stopAgent, with the row and the entry gone.
LEMMA ReturnFromStopGoes ==
  ASSUME Inv, NEW t \in Threads, NEW d \in Calls, d = call[t], d.aid \in Aids, ReturnFromStop(t),
         Calm(d.aid)' => /\ rows'[d.aid] = 0 /\ Shown(d.aid)' = 0
                         /\ d.next \in {"idle", "logReplaced"}
  PROVE  \E c \in Calls : Goes(t, d.aid, c)
<1>1. CASE Return(t)
  BY <1>1, ReturnGoes, IdleType
<1>2. CASE d.next # "idle" /\ Goto(t, d.next)
  <2>1. d.next \in Steps /\ d.next \notin Away
    BY <1>2 DEF Calls, AfterStop, Steps, Away
  <2>2. PICK c \in Calls : Becomes(t, c) /\ c.pc = d.next /\ c.aid = d.aid
    BY <1>2, <2>1, GotoBecomes
  <2>3. Calm(d.aid)' => Expected(c)'
    BY <1>2, <2>2 DEF Expected
  <2> QED
    BY <2>1, <2>2, <2>3 DEF Goes
<1> QED
  BY <1>1, <1>2 DEF ReturnFromStop

LEMMA GetRows ==
  ASSUME Inv, Displacing, RowsOK, NEW t \in Threads, Get(t)
  PROVE  RowsOK'
<1>1. call[t].pc = "get" /\ Quiet /\ UNCHANGED <<rows, cache, info, spoiled, overlapped>>
  BY DEF Get, Quiet, At, registryVars, consoleVars, historyVars
<1>2. PICK d \in Calls : /\ d = call[t] /\ d.aid \in Aids /\ BusyWith(t, d.aid)
                         /\ Calm(d.aid) => Expected(d)
  BY <1>1, CallNow DEF Away
<1>3. Calm(d.aid)' => rows'[d.aid] = Shown(d.aid)' /\ d.next \in {"idle", "logReplaced"}
  BY <1>1, <1>2 DEF Expected, Calm, Shown
<1>4. CASE cache[d.aid] = None /\ ReturnFromStop(t)
  <2>1. Shown(d.aid)' = 0
    BY <1>1, <1>4 DEF Shown
  <2>2. PICK c \in Calls : Goes(t, d.aid, c)
    BY <1>2, <1>3, <1>4, <2>1, ReturnFromStopGoes
  <2> QED
    BY <1>1, <1>2, <2>2, QuietRows
<1>5. CASE Goto(t, "remove")
  <2>1. PICK c \in Calls : Becomes(t, c) /\ c.pc = "remove" /\ c.aid = d.aid /\ c.next = d.next
    BY <1>2, <1>5, GotoBecomes DEF Steps
  <2>2. Calm(d.aid)' => Expected(c)'
    BY <1>3, <2>1 DEF Expected
  <2>3. Goes(t, d.aid, c)
    BY <2>1, <2>2 DEF Goes, Away
  <2> QED
    BY <1>1, <1>2, <2>3, QuietRows
<1> QED
  BY <1>2, <1>4, <1>5 DEF Get

LEMMA RemoveRows ==
  ASSUME Inv, Displacing, RowsOK, NEW t \in Threads, Remove(t)
  PROVE  RowsOK'
<1>1. /\ call[t].pc = "remove" /\ Goto(t, "logRemove")
      /\ cache' = [cache EXCEPT ![call[t].aid] = None]
      /\ UNCHANGED <<created, info, rows, page, socket, overlapped, spoiled>>
  BY DEF Remove, At, consoleVars, historyVars
<1>2. PICK d \in Calls : /\ d = call[t] /\ d.aid \in Aids /\ BusyWith(t, d.aid)
                         /\ Calm(d.aid) => Expected(d)
  BY <1>1, CallNow DEF Away
<1>3. PICK c \in Calls : Becomes(t, c) /\ c.pc = "logRemove" /\ c.aid = d.aid /\ c.next = d.next
  BY <1>1, <1>2, GotoBecomes DEF Steps
<1>4. Calm(d.aid)' => rows'[d.aid] \in {0, 1} /\ d.next \in {"idle", "logReplaced"}
  BY <1>1, <1>2 DEF Expected, Calm, Shown
<1>5. Goes(t, d.aid, c)
  <2>1. Calm(d.aid)' => Expected(c)'
    BY <1>3, <1>4 DEF Expected
  <2> QED
    BY <1>3, <2>1 DEF Goes, Away
<1>6. OnlyAt(d.aid, t, c)
  BY <1>1, <1>2, <1>3, MaxInstancesNat DEF OnlyAt, InfoKept, Inv, Types
<1> QED
  BY <1>2, <1>5, <1>6, OwnStep

\* An event reaches the page unless everything is spoiled, or its AID is from
\* now on.
LEMMA EventShown ==
  ASSUME RowsOK, OtherTypes, NEW a \in Aids, NEW change \in {"ADD", "REMOVE"},
         Notify(a, change), UNCHANGED overlapped
  PROVE  /\ \A b \in Aids : b # a => rows'[b] = rows[b]
         /\ spoiled \subseteq spoiled'
         /\ Calm(a)' => /\ Calm(a)
                        /\ rows'[a] = IF change = "ADD" THEN rows[a] + 1
                                      ELSE IF rows[a] > 0 THEN rows[a] - 1 ELSE 0
  BY DEF Notify, RowsAfter, OtherTypes, RowsOK, Loaded, Calm

LEMMA LogRemoveRows ==
  ASSUME Inv, Displacing, OtherTypes, RowsOK, NEW t \in Threads, LogRemove(t)
  PROVE  RowsOK'
<1>1. /\ call[t].pc = "logRemove" /\ ReturnFromStop(t)
      /\ Notify(call[t].aid, "REMOVE")
      /\ UNCHANGED <<cache, created, info, page, socket, overlapped>>
  BY DEF LogRemove, At, registryVars
<1>2. PICK d \in Calls : /\ d = call[t] /\ d.aid \in Aids /\ BusyWith(t, d.aid)
                         /\ Calm(d.aid) => Expected(d)
  BY <1>1, CallNow DEF Away
<1>3. spoiled \subseteq spoiled' /\ \A b \in Aids : b # d.aid => rows'[b] = rows[b]
  BY <1>1, <1>2, EventShown
<1>4. Calm(d.aid)' => /\ rows'[d.aid] = 0 /\ Shown(d.aid)' = 0
                      /\ d.next \in {"idle", "logReplaced"}
  <2>1. Calm(d.aid)' => /\ Calm(d.aid)
                        /\ rows'[d.aid] = IF rows[d.aid] > 0 THEN rows[d.aid] - 1 ELSE 0
    BY <1>1, <1>2, EventShown
  <2>2. Calm(d.aid) => cache[d.aid] = None
    BY <1>1, <1>2 DEF Displacing, EmptyFirst, Emptied, Calm
  <2> QED
    BY <1>1, <1>2, <2>1, <2>2 DEF Expected, Calm, Shown
<1>5. PICK c \in Calls : Goes(t, d.aid, c)
  BY <1>1, <1>2, <1>4, ReturnFromStopGoes
<1>6. OnlyAt(d.aid, t, c)
  BY <1>1, <1>3, <1>5, MaxInstancesNat DEF OnlyAt, Goes, InfoKept, Inv, Types
<1> QED
  BY <1>2, <1>5, <1>6, OwnStep

LEMMA LogReplacedRows ==
  ASSUME Inv, Displacing, OtherTypes, RowsOK, NEW t \in Threads, LogReplaced(t)
  PROVE  RowsOK'
<1>1. /\ call[t].pc = "logReplaced" /\ Goto(t, "lookup")
      /\ IF call[t].ui THEN Notify(call[t].aid, "REMOVE") ELSE UNCHANGED <<rows, spoiled>>
      /\ UNCHANGED <<cache, created, info, page, socket, overlapped>>
  BY DEF LogReplaced, At, registryVars
<1>2. PICK d \in Calls : /\ d = call[t] /\ d.aid \in Aids /\ BusyWith(t, d.aid)
                         /\ Calm(d.aid) => Expected(d)
  BY <1>1, CallNow DEF Away
<1>3. spoiled \subseteq spoiled' /\ \A b \in Aids : b # d.aid => rows'[b] = rows[b]
  BY <1>1, <1>2, EventShown
<1>4. Calm(d.aid)' => rows'[d.aid] = 0
  <2>1. CASE d.ui
    <3>1. Calm(d.aid)' => /\ Calm(d.aid)
                          /\ rows'[d.aid] = IF rows[d.aid] > 0 THEN rows[d.aid] - 1 ELSE 0
      BY <1>1, <1>2, <2>1, EventShown
    <3> QED
      BY <1>1, <1>2, <3>1 DEF Expected, Calm
  <2>2. CASE ~d.ui
    BY <1>1, <1>2, <2>2 DEF Expected, Calm
  <2> QED
    BY <2>1, <2>2
<1>5. PICK c \in Calls : Becomes(t, c) /\ c.pc = "lookup" /\ c.aid = d.aid
  BY <1>1, <1>2, GotoBecomes DEF Steps
<1>6. Goes(t, d.aid, c)
  <2>1. Calm(d.aid)' => Expected(c)'
    BY <1>4, <1>5 DEF Expected
  <2> QED
    BY <1>5, <2>1 DEF Goes, Away
<1>7. OnlyAt(d.aid, t, c)
  BY <1>1, <1>3, <1>5, MaxInstancesNat DEF OnlyAt, InfoKept, Inv, Types
<1> QED
  BY <1>2, <1>6, <1>7, OwnStep

LEMMA LookupRows ==
  ASSUME Inv, Displacing, RowsOK, NEW t \in Threads, Lookup(t)
  PROVE  RowsOK'
<1>1. call[t].pc = "lookup" /\ UNCHANGED <<cache, rows, page, socket, overlapped, spoiled>>
  BY DEF Lookup, At, consoleVars, historyVars
<1>2. PICK d \in Calls : /\ d = call[t] /\ d.aid \in Aids /\ BusyWith(t, d.aid)
                         /\ Calm(d.aid) => Expected(d)
  BY <1>1, CallNow DEF Away
<1>3. Calm(d.aid)' => rows'[d.aid] = 0 /\ cache[d.aid] = None
  BY <1>1, <1>2 DEF Expected, Calm, Displacing, EmptyFirst, Emptied
<1>4. CASE Return(t) /\ UNCHANGED <<created, info>>
  <2>1. Quiet
    BY <1>1, <1>4 DEF Quiet
  <2>2. Calm(d.aid)' => rows'[d.aid] = Shown(d.aid)'
    BY <1>1, <1>3 DEF Shown
  <2> QED
    BY <1>2, <1>4, <2>1, <2>2, ReturnGoes, IdleType, QuietRows
<1>5. CASE /\ created < MaxInstances /\ created' = created + 1
           /\ info' = [info EXCEPT ![created + 1] = [aid |-> d.aid, ui |-> d.ui]]
           /\ call' = [call EXCEPT ![t].pc = "put", ![t].inst = created + 1]
  <2>0. created \in Nat /\ created + 1 \in 0..MaxInstances /\ created + 1 \in Instances
    BY <1>5, MaxInstancesNat DEF Inv, Types, Instances
  <2>1. PICK n \in Nat : n = created + 1
    BY <2>0
  <2> DEFINE c == [d EXCEPT !.pc = "put", !.inst = n]
  <2>2. /\ c \in Calls /\ c.pc = "put" /\ c.aid = d.aid /\ c.inst = n /\ c.ui = d.ui
        /\ Becomes(t, c)
    BY <1>2, <1>5, <2>0, <2>1 DEF Calls, Steps, Inv, Types, Becomes
  <2> HIDE DEF c
  <2>3. InfoKept /\ info'[n].ui = d.ui /\ n \in 1..created'
    BY <1>5, <2>0, <2>1 DEF InfoKept, Inv, Types, Instances
  <2>4. Calm(d.aid)' => Expected(c)'
    BY <1>3, <2>2, <2>3 DEF Expected
  <2>5. Goes(t, d.aid, c)
    BY <2>2, <2>4 DEF Goes, Away
  <2>6. OnlyAt(d.aid, t, c)
    BY <1>1, <2>2, <2>3 DEF OnlyAt
  <2> QED
    BY <1>2, <2>5, <2>6, OwnStep
<1> QED
  BY <1>2, <1>4, <1>5 DEF Lookup, After

LEMMA PutRows ==
  ASSUME Inv, Displacing, RowsOK, NEW t \in Threads, Put(t)
  PROVE  RowsOK'
<1>1. /\ call[t].pc = "put" /\ Goto(t, "init")
      /\ cache' = [cache EXCEPT ![call[t].aid] = call[t].inst]
      /\ UNCHANGED <<created, info, rows, page, socket, overlapped, spoiled>>
  BY DEF Put, At, After, consoleVars, historyVars
<1>2. PICK d \in Calls : /\ d = call[t] /\ d.aid \in Aids /\ BusyWith(t, d.aid)
                         /\ Calm(d.aid) => Expected(d)
  BY <1>1, CallNow DEF Away
<1>3. PICK c \in Calls : /\ Becomes(t, c) /\ c.pc = "init" /\ c.aid = d.aid
                         /\ c.inst = d.inst /\ c.ui = d.ui
  BY <1>1, <1>2, GotoBecomes DEF Steps
<1>4. Calm(d.aid)' => Expected(c)'
  <2>1. cache'[d.aid] = d.inst
    BY <1>1, <1>2 DEF Inv, Types
  <2> QED
    BY <1>1, <1>2, <1>3, <2>1 DEF Expected, Calm
<1>5. Goes(t, d.aid, c)
  BY <1>3, <1>4 DEF Goes, Away
<1>6. OnlyAt(d.aid, t, c)
  BY <1>1, <1>2, <1>3, MaxInstancesNat DEF OnlyAt, InfoKept, Inv, Types
<1> QED
  BY <1>2, <1>5, <1>6, OwnStep

LEMMA RunInitRows ==
  ASSUME Inv, Displacing, RowsOK, NEW t \in Threads, RunInit(t)
  PROVE  RowsOK'
<1>1. call[t].pc = "init" /\ UNCHANGED <<cache, created, info, rows, page, socket, overlapped>>
  BY DEF RunInit, At, registryVars, consoleVars
<1>2. PICK d \in Calls : /\ d = call[t] /\ d.aid \in Aids /\ BusyWith(t, d.aid)
                         /\ Calm(d.aid) => Expected(d)
  BY <1>1, CallNow DEF Away
<1>3. CASE Goto(t, "logAdd") /\ UNCHANGED spoiled
  <2>1. PICK c \in Calls : /\ Becomes(t, c) /\ c.pc = "logAdd" /\ c.aid = d.aid
                           /\ c.inst = d.inst /\ c.ui = d.ui
    BY <1>2, <1>3, GotoBecomes DEF Steps
  <2>2. Calm(d.aid)' => Expected(c)'
    BY <1>1, <1>2, <1>3, <2>1 DEF Expected, Calm
  <2>3. Goes(t, d.aid, c)
    BY <2>1, <2>2 DEF Goes, Away
  <2>4. Quiet
    BY <1>1, <1>3 DEF Quiet
  <2> QED
    BY <1>2, <2>3, <2>4, QuietRows
<1>4. CASE spoiled' = spoiled \union {d.aid} /\ Return(t)
  <2>1. Quiet /\ ~Calm(d.aid)'
    BY <1>1, <1>4 DEF Quiet, Calm
  <2> QED
    BY <1>2, <1>4, <2>1, ReturnGoes, IdleType, QuietRows
<1>5. CASE /\ spoiled' = spoiled \union {d.aid}
           /\ call' = [call EXCEPT ![t].pc = "get", ![t].next = "logAdd"]
  <2> DEFINE c == [d EXCEPT !.pc = "get", !.next = "logAdd"]
  <2>1. c \in Calls /\ c.aid = d.aid
    BY DEF Calls, Steps, AfterStop
  <2>2. Becomes(t, c)
    BY <1>2, <1>5 DEF Inv, Types, Becomes
  <2>3. c.pc = "get"
    BY DEF Calls
  <2> HIDE DEF c
  <2>4. Quiet /\ ~Calm(d.aid)'
    BY <1>1, <1>5 DEF Quiet, Calm
  <2>5. Goes(t, d.aid, c)
    BY <2>1, <2>2, <2>4 DEF Goes
  <2> QED
    BY <1>2, <2>4, <2>5, QuietRows
<1> QED
  BY <1>2, <1>3, <1>4, <1>5 DEF RunInit, After

LEMMA LogAddRows ==
  ASSUME Inv, Displacing, OtherTypes, RowsOK, NEW t \in Threads, LogAdd(t)
  PROVE  RowsOK'
<1>1. /\ call[t].pc = "logAdd" /\ Return(t)
      /\ IF call[t].ui THEN Notify(call[t].aid, "ADD") ELSE UNCHANGED <<rows, spoiled>>
      /\ UNCHANGED <<cache, created, info, page, socket, overlapped>>
  BY DEF LogAdd, At, registryVars
<1>2. PICK d \in Calls : /\ d = call[t] /\ d.aid \in Aids /\ BusyWith(t, d.aid)
                         /\ Calm(d.aid) => Expected(d)
  BY <1>1, CallNow DEF Away
<1>3. spoiled \subseteq spoiled' /\ \A b \in Aids : b # d.aid => rows'[b] = rows[b]
  BY <1>1, <1>2, EventShown
<1>4. Calm(d.aid)' => rows'[d.aid] = Shown(d.aid)'
  <2>1. Calm(d.aid)' => Shown(d.aid)' = IF d.ui THEN 1 ELSE 0
    BY <1>1, <1>2, <1>3, MaxInstancesNat DEF Expected, Calm, Shown, None, Inv, Types
  <2>2. Calm(d.aid)' => Calm(d.aid) /\ rows[d.aid] = 0
    BY <1>1, <1>2, <1>3 DEF Expected, Calm
  <2>3. CASE d.ui
    <3>1. Calm(d.aid)' => rows'[d.aid] = rows[d.aid] + 1
      BY <1>1, <1>2, <2>3, EventShown
    <3> QED
      BY <2>1, <2>2, <2>3, <3>1
  <2>4. CASE ~d.ui
    BY <1>1, <1>2, <2>1, <2>2, <2>4
  <2> QED
    BY <2>3, <2>4
<1>5. Goes(t, d.aid, Idle)
  BY <1>1, <1>2, <1>4, ReturnGoes
<1>6. OnlyAt(d.aid, t, Idle)
  BY <1>1, <1>3, <1>5, MaxInstancesNat DEF OnlyAt, Goes, InfoKept, Inv, Types
<1> QED
  BY <1>2, <1>5, <1>6, OwnStep

LEMMA ListRows ==
  ASSUME Inv, Displacing, RowsOK, NEW t \in Threads,
         GetRunningAgents(t) \/ List(t) \/ ReturnList(t) \/ Clear(t)
  PROVE  RowsOK'
<1>1. /\ call[t].pc \in Away /\ UNCHANGED <<created, info, rows, socket, overlapped>>
      /\ \E pc \in Away : Goto(t, pc) \/ Return(t)
  BY DEF GetRunningAgents, List, ReturnList, Clear, At, registryVars, consoleVars, historyVars, Away
<1>2. /\ call' \in [Threads -> Calls]
      /\ \A u \in Threads : call'[u] = call[u] \/ (call[u].pc \in Away /\ call'[u].pc \in Away)
  <2>1. PICK c \in Calls : Becomes(t, c) /\ c.pc \in Away
    <3>1. CASE Return(t)
      BY <3>1, IdleType DEF Return, Becomes, Away
    <3>2. CASE \E pc \in Away : Goto(t, pc)
      BY <3>2, GotoBecomes DEF Away, Steps
    <3> QED
      BY <1>1, <3>1, <3>2
  <2> QED
    BY <1>1, <2>1 DEF Becomes, Inv, Types
<1>3. /\ spoiled \subseteq spoiled'
      /\ \A b \in Aids : Calm(b)' => cache'[b] = cache[b]
  <2>1. CASE Clear(t)
    BY <2>1 DEF Clear, Running, Calm, Inv, Types
  <2>2. CASE GetRunningAgents(t) \/ List(t) \/ ReturnList(t)
    BY <2>2 DEF GetRunningAgents, List, ReturnList, registryVars, historyVars
  <2> QED
    BY <2>1, <2>2
<1>4. Loaded'
  <2>1. page = "loaded" => page' = "loaded"
    BY DEF GetRunningAgents, List, ReturnList, Clear, Answer, consoleVars
  <2> QED
    BY <1>1, <1>3, <2>1 DEF RowsOK, Loaded
<1> QED
  BY <1>1, <1>2, <1>3, <1>4, MaxInstancesNat, AsideStep DEF InfoKept, Inv, Types

\* Replies, the page's own steps and the deployment.
LEMMA OtherRows ==
  ASSUME Inv, Displacing, OtherTypes, RowsOK,
         \/ \E i \in Instances : DeliverReply(i)
         \/ OpenSocket \/ ReopenPage \/ LoadList \/ Redeploy \/ UNCHANGED vars
  PROVE  RowsOK'
<1>1. UNCHANGED <<call, cache, created, info, overlapped>> /\ spoiled \subseteq spoiled'
  BY DEF DeliverReply, OpenSocket, ReopenPage, LoadList, Redeploy, vars, registryVars, historyVars,
         OtherTypes
<1>2. Loaded'
  BY DEF DeliverReply, OpenSocket, ReopenPage, LoadList, Redeploy, vars, consoleVars, historyVars,
         RowsOK, Loaded
<1>3. \A b \in Aids : Calm(b)' => rows'[b] = rows[b]
  BY DEF DeliverReply, OpenSocket, ReopenPage, LoadList, Redeploy, vars, consoleVars, historyVars,
         RowsOK, Loaded, Calm
<1> QED
  BY <1>1, <1>2, <1>3, MaxInstancesNat, AsideStep DEF InfoKept, Inv, Types

LEMMA NextRows == Inv /\ Displacing /\ OtherTypes /\ RowsOK /\ [Next]_vars => RowsOK'
<1> SUFFICES ASSUME Inv, Displacing, OtherTypes, RowsOK, [Next]_vars
             PROVE  RowsOK'
  OBVIOUS
<1>1. ASSUME NEW t \in Threads, NEW a \in Aids, NEW ui \in BOOLEAN, NEW replace \in BOOLEAN,
             StartByName(t, a, ui) \/ StartAgent(t, a, replace, ui)
      PROVE  RowsOK'
  <2> DEFINE c(flag) == [Idle EXCEPT !.pc = "check", !.aid = a, !.replace = flag, !.ui = ui]
  <2>1. \A flag \in BOOLEAN : c(flag) \in Calls /\ c(flag).pc = "check"
    BY IdleType DEF Calls, Steps
  <2>2. \E flag \in BOOLEAN : Begin(t, c(flag))
    BY <1>1 DEF StartAgent, StartByName
  <2> QED
    BY <2>1, <2>2, BeginRows
<1>2. ASSUME NEW t \in Threads, NEW a \in Aids, StopAgent(t, a)
      PROVE  RowsOK'
  <2> DEFINE c == [Idle EXCEPT !.pc = "get", !.aid = a]
  <2>1. c \in Calls /\ c.pc = "get" /\ c.next = "idle"
    BY IdleType DEF Calls, Steps, Idle
  <2>2. Begin(t, c)
    BY <1>2 DEF StopAgent
  <2> QED
    BY <2>1, <2>2, BeginRows
<1>3. ASSUME NEW t \in Threads, GetRunningAgents(t) \/ StartStep(t) \/ StopStep(t) \/ ListStep(t)
      PROVE  RowsOK'
  BY <1>3, CheckRows, LogReplacedRows, LookupRows, PutRows, RunInitRows, LogAddRows,
     GetRows, RemoveRows, LogRemoveRows, ListRows
     DEF StartStep, StopStep, ListStep
<1> QED
  BY <1>1, <1>2, <1>3, OtherRows DEF Next

\* On a page that was open from the start the rows of an AID are exact when no
\* call on it is in progress, unless two calls on it overlapped, an agent of it
\* failed or stopped itself in init, the cache was cleared, or one of its events
\* was lost (the events of startServerAgent and stopAgent, and what the page
\* does with them).
THEOREM ConsoleExactHere == Spec => []ConsoleExactOtherwise
<1>1. Init => Displacing /\ OtherTypes
  BY IdleType, PagesKnown
     DEF Init, Displacing, OneCaller, EmptyFirst, OwnEntries, NoOverwrite, BusyWith, Emptied, OtherTypes
<1>2. Init => RowsOK
  BY IdleType, PagesKnown DEF Init, RowsOK, Loaded, Calm, Shown, Away
<1>3. RowsOK => ConsoleExactOtherwise
  BY DEF RowsOK, ConsoleExactOtherwise, Calm, Shown
<1>4. /\ Inv /\ Displacing /\ OtherTypes /\ RowsOK
      /\ [Next]_vars
      => (Inv /\ Displacing /\ OtherTypes /\ RowsOK)'
  BY NextInv, NextDisplaces, OtherTypesKept, NextRows
<1> QED
  BY InitInv, <1>1, <1>2, <1>3, <1>4, PTL DEF Spec
=============================================================================
