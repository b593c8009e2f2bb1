---------------------------- MODULE AgentManager -----------------------------
(***************************************************************************)
(* The agent registry of Siebog: AgentManagerBean is a stateless bean, so  *)
(* its methods run on many threads at once over one replicated cache of    *)
(* running agents; every cache operation is atomic, nothing larger is.     *)
(* Around it: the messages that MDBConsumer delivers through the cache,    *)
(* and the console page, whose list of running agents is loaded once and   *)
(* then kept up to date by the ADD and REMOVE events of LoggerUtil.        *)
(***************************************************************************)
EXTENDS Naturals, FiniteSets

CONSTANTS
  Aids,          \* agent identifiers
  Threads,       \* server threads that serve calls of AgentManagerBean
  MaxInstances,  \* bound: agent instances created
  InitOutcomes,  \* what an agent's init may do: "ok", "fail", "stopSelf"
  Serial,        \* TRUE: callers do not overlap calls on the same AID
  MayUndeploy,   \* TRUE: the module of the agent classes may be undeployed
  MayLoseEvents, \* TRUE: events may fail on the way, and pages be closed
  FirstPages     \* states of the console page before the first call

ASSUME AidsNonEmpty == Aids # {}
ASSUME MaxInstancesNat == MaxInstances \in Nat
ASSUME OutcomesKnown == InitOutcomes \subseteq {"ok", "fail", "stopSelf"}
ASSUME FlagsBoolean == {Serial, MayUndeploy, MayLoseEvents} \subseteq BOOLEAN
ASSUME PagesKnown == FirstPages \subseteq {"requested", "loaded"}

Instances == 1..MaxInstances
None == 0    \* no such entry in the cache

VARIABLES
  cache,     \* AID -> running instance or None
  created,   \* number of instances created so far
  info,      \* the AID of an instance, and whether the console is told of it
  call,      \* what each thread is doing
  deployed,  \* the agent classes can be looked up
  rows,      \* the console page: how many rows show this AID
  socket,    \* the page's web socket is registered with LoggerUtil
  page,      \* the page's GET /running: "requested", "answered", "loaded"
  snapshot,  \* the answer to it
  awaiting,  \* instances whose init sent a request that is not answered yet
  lost,      \* history: instances whose reply found no agent
  removed,   \* history: instances taken out of the cache
  overwritten, \* history: instances displaced by a put, without a stop
  overlapped,  \* history: AIDs that two calls were about at once
  spoiled      \* history: AIDs whose start or removal the page may not know of

historyVars == <<overlapped, spoiled>>
registryVars == <<cache, created, info, removed, overwritten>>
consoleVars == <<rows, socket, page, snapshot>>
messageVars == <<awaiting, lost>>
vars == <<registryVars, call, deployed, consoleVars, messageVars, historyVars>>

\* A call in progress.  pc is the next statement, next what follows when a
\* nested stopAgent returns.
Steps == {"idle", "check", "get", "remove", "logRemove", "logReplaced",
          "lookup", "put", "init", "logAdd", "list", "clear", "return"}
AfterStop == {"idle", "logReplaced", "logAdd"}
Calls == [pc : Steps, aid : Aids, replace : BOOLEAN, ui : BOOLEAN,
          inst : 0..MaxInstances, next : AfterStop]

Idle == [pc |-> "idle", aid |-> CHOOSE a \in Aids : TRUE, replace |-> TRUE,
         ui |-> TRUE, inst |-> None, next |-> "idle"]

Init ==
  /\ cache = [a \in Aids |-> None]
  /\ created = 0
  /\ info = [i \in Instances |-> [aid |-> CHOOSE a \in Aids : TRUE, ui |-> TRUE]]
  /\ call = [t \in Threads |-> Idle]
  /\ deployed = TRUE
  /\ rows = [a \in Aids |-> 0]
  /\ page \in FirstPages
  /\ socket = (page = "loaded")
  /\ snapshot = {}
  /\ awaiting = {}
  /\ lost = {}
  /\ removed = {}
  /\ overwritten = {}
  /\ overlapped = {}
  /\ spoiled = IF page = "loaded" THEN {} ELSE Aids

Running == {a \in Aids : cache[a] # None}
Busy(a) == \E t \in Threads : call[t].pc \notin {"idle", "list", "clear", "return"}
                              /\ call[t].aid = a

At(t, pc) == call[t].pc = pc
Goto(t, pc) == call' = [call EXCEPT ![t].pc = pc]
Return(t) == call' = [call EXCEPT ![t] = Idle]
ReturnFromStop(t) == IF call[t].next = "idle" THEN Return(t) ELSE Goto(t, call[t].next)

-----------------------------------------------------------------------------
(* Calls of AgentManagerBean *)

Begin(t, c) ==
  /\ At(t, "idle")
  /\ Serial => ~Busy(c.aid)
  /\ call' = [call EXCEPT ![t] = c]
  /\ overlapped' = IF Busy(c.aid) THEN overlapped \union {c.aid} ELSE overlapped
  /\ UNCHANGED <<registryVars, deployed, consoleVars, messageVars, spoiled>>

\* startServerAgent(aid, args, replace); args may hold noUIUpdate.
StartAgent(t, a, replace, ui) ==
  Begin(t, [Idle EXCEPT !.pc = "check", !.aid = a, !.replace = replace, !.ui = ui])

\* PUT /running/{agClass}/{name}: the call is handed on to the method with
\* two arguments, which replaces a running agent whatever the caller asked.
StartByName(t, a, ui) ==
  Begin(t, [Idle EXCEPT !.pc = "check", !.aid = a, !.replace = TRUE, !.ui = ui])

StopAgent(t, a) == Begin(t, [Idle EXCEPT !.pc = "get", !.aid = a])

\* getRunningAgents, also the first half of getAIDByRuntimeName.
GetRunningAgents(t) ==
  /\ At(t, "idle")
  /\ Goto(t, "list")
  /\ UNCHANGED <<registryVars, deployed, consoleVars, messageVars, historyVars>>

\* Mutant: the check for a running agent is missing.
MutNoCheck(t) ==
  /\ At(t, "check")
  /\ Goto(t, "lookup")
  /\ UNCHANGED <<registryVars, deployed, consoleVars, messageVars, historyVars>>

Check(t) ==
  /\ At(t, "check")
  /\ LET c == call[t] IN
     \/ /\ cache[c.aid] = None
        /\ Goto(t, "lookup")
     \/ /\ cache[c.aid] # None /\ ~c.replace  \* "Agent already running"
        /\ Return(t)
     \/ /\ cache[c.aid] # None /\ c.replace
        /\ call' = [call EXCEPT ![t].pc = "get", ![t].next = "logReplaced"]
  /\ UNCHANGED <<registryVars, deployed, consoleVars, messageVars, historyVars>>

\* stopAgent: nothing happens when there is no such agent.
Get(t) ==
  /\ At(t, "get")
  /\ IF cache[call[t].aid] = None THEN ReturnFromStop(t) ELSE Goto(t, "remove")
  /\ UNCHANGED <<registryVars, deployed, consoleVars, messageVars, historyVars>>

Remove(t) ==
  /\ At(t, "remove")
  /\ LET a == call[t].aid IN
     /\ cache' = [cache EXCEPT ![a] = None]
     /\ removed' = removed \union ({cache[a]} \ {None})
  /\ Goto(t, "logRemove")
  /\ UNCHANGED <<created, info, overwritten, deployed, consoleVars, messageVars, historyVars>>

\* Mutant: the page removes a row without looking for one.
MutRemovesAnyway(a, change) ==
  [rows EXCEPT ![a] = IF change = "ADD" THEN @ + 1 ELSE @ - 1]

\* LoggerUtil.logAgent and what the page does with the event.  A REMOVE
\* deletes the first row with this AID, if there is one.
RowsAfter(a, change) ==
  IF ~socket THEN rows
  ELSE [rows EXCEPT ![a] = IF change = "ADD" THEN @ + 1
                           ELSE IF @ > 0 THEN @ - 1 ELSE 0]

\* A failing send to the page's session is only logged: the event is lost.
Notify(a, change) ==
  \/ /\ rows' = RowsAfter(a, change)
     /\ UNCHANGED spoiled
  \/ /\ MayLoseEvents /\ socket
     /\ spoiled' = spoiled \union {a}
     /\ UNCHANGED rows

LogRemove(t) ==
  /\ At(t, "logRemove")
  /\ Notify(call[t].aid, "REMOVE")
  /\ ReturnFromStop(t)
  /\ UNCHANGED <<registryVars, deployed, socket, page, snapshot, messageVars, overlapped>>

\* Back from the nested stopAgent, startServerAgent logs the removal again.
LogReplaced(t) ==
  /\ At(t, "logReplaced")
  /\ IF call[t].ui THEN Notify(call[t].aid, "REMOVE") ELSE UNCHANGED <<rows, spoiled>>
  /\ Goto(t, "lookup")
  /\ UNCHANGED <<registryVars, deployed, socket, page, snapshot, messageVars, overlapped>>

\* Mutant: the agent is initialised first and registered afterwards.
MutInitFirst(step) ==
  CASE step = "lookup" -> "init" [] step = "init" -> "put" [] step = "put" -> "logAdd"

\* The order of statements in startServerAgent and initAgent.
After(step) ==
  CASE step = "lookup" -> "put" [] step = "put" -> "init" [] step = "init" -> "logAdd"

\* The lookup creates the bean, or fails: the agent to be replaced is gone
\* by then.
Lookup(t) ==
  /\ At(t, "lookup")
  /\ \/ /\ deployed
        /\ created < MaxInstances
        /\ created' = created + 1
        /\ info' = [info EXCEPT ![created + 1] = [aid |-> call[t].aid, ui |-> call[t].ui]]
        /\ call' = [call EXCEPT ![t].pc = After("lookup"), ![t].inst = created + 1]
     \/ /\ ~deployed
        /\ Return(t)
        /\ UNCHANGED <<created, info>>
  /\ UNCHANGED <<cache, removed, overwritten, deployed, consoleVars, messageVars, historyVars>>

Put(t) ==
  /\ At(t, "put")
  /\ LET a == call[t].aid
         old == {cache[a]} \ {None}
     IN  /\ cache' = [cache EXCEPT ![a] = call[t].inst]
         /\ removed' = removed \union old
         /\ overwritten' = overwritten \union old
  /\ Goto(t, After("put"))
  /\ UNCHANGED <<created, info, deployed, consoleVars, messageVars, historyVars>>

\* The agent's init: it may send a request, throw, or stop the agent.
RunInit(t) ==
  /\ At(t, "init")
  /\ \/ /\ "ok" \in InitOutcomes
        /\ awaiting' \in {awaiting, awaiting \union {call[t].inst}}
        /\ Goto(t, After("init"))
        /\ UNCHANGED spoiled
     \/ /\ "fail" \in InitOutcomes
        /\ Return(t)
        /\ spoiled' = spoiled \union {call[t].aid}
        /\ UNCHANGED awaiting
     \/ /\ "stopSelf" \in InitOutcomes
        /\ call' = [call EXCEPT ![t].pc = "get", ![t].next = After("init")]
        /\ spoiled' = spoiled \union {call[t].aid}
        /\ UNCHANGED awaiting
  /\ UNCHANGED <<registryVars, deployed, consoleVars, lost, overlapped>>

\* Mutant: the ADD event is sent whether or not the caller wanted it.
MutAlwaysAdd(t) ==
  /\ At(t, "logAdd")
  /\ Notify(call[t].aid, "ADD")
  /\ Return(t)
  /\ UNCHANGED <<registryVars, deployed, socket, page, snapshot, messageVars, overlapped>>

LogAdd(t) ==
  /\ At(t, "logAdd")
  /\ IF call[t].ui THEN Notify(call[t].aid, "ADD") ELSE UNCHANGED <<rows, spoiled>>
  /\ Return(t)
  /\ UNCHANGED <<registryVars, deployed, socket, page, snapshot, messageVars, overlapped>>

\* getRunningAgents looks up the class of the first agent; when that fails
\* it takes the whole cache to be left over and clears it.
List(t) ==
  /\ At(t, "list")
  /\ Goto(t, IF Running # {} /\ ~deployed THEN "clear" ELSE "return")
  /\ UNCHANGED <<registryVars, deployed, consoleVars, messageVars, historyVars>>

\* The list goes to whoever asked; the page asks once.
Answer(aids) ==
  \/ /\ page = "requested"
     /\ page' = "answered"
     /\ snapshot' = aids
  \/ UNCHANGED <<page, snapshot>>

Clear(t) ==
  /\ At(t, "clear")
  /\ cache' = [a \in Aids |-> None]
  /\ removed' = removed \union {cache[a] : a \in Running}
  /\ Answer({})
  /\ Return(t)
  /\ spoiled' = spoiled \union Running
  /\ UNCHANGED <<created, info, overwritten, deployed, rows, socket, messageVars, overlapped>>

ReturnList(t) ==
  /\ At(t, "return")
  /\ Answer(Running)
  /\ Return(t)
  /\ UNCHANGED <<registryVars, deployed, rows, socket, messageVars, historyVars>>

-----------------------------------------------------------------------------
(* The message consumer, the page and the deployment *)

\* MDBConsumer.deliverMessage for the reply to a request sent from init.
DeliverReply(i) ==
  /\ i \in awaiting
  /\ awaiting' = awaiting \ {i}
  /\ lost' = IF cache[info[i].aid] = None THEN lost \union {i} ELSE lost
  /\ UNCHANGED <<registryVars, call, deployed, consoleVars, historyVars>>

OpenSocket ==
  /\ ~socket
  /\ socket' = TRUE
  /\ UNCHANGED <<registryVars, call, deployed, rows, page, snapshot, messageVars, historyVars>>

\* The page is closed (LoggerUtil.unRegister) and opened anew: it asks for the
\* list again, and knows of nothing before.
ReopenPage ==
  /\ MayLoseEvents /\ socket
  /\ socket' = FALSE
  /\ page' = "requested"
  /\ rows' = [a \in Aids |-> 0]
  /\ snapshot' = {}
  /\ spoiled' = Aids
  /\ UNCHANGED <<registryVars, call, deployed, messageVars, overlapped>>

\* xjaf.service.js: the list replaces whatever events have made of it.
LoadList ==
  /\ page = "answered"
  /\ page' = "loaded"
  /\ rows' = [a \in Aids |-> IF a \in snapshot THEN 1 ELSE 0]
  /\ snapshot' = {}
  /\ UNCHANGED <<registryVars, call, deployed, socket, messageVars, historyVars>>

Redeploy ==
  /\ MayUndeploy
  /\ deployed' = ~deployed
  /\ UNCHANGED <<registryVars, call, consoleVars, messageVars, historyVars>>

-----------------------------------------------------------------------------
StartStep(t) == Check(t) \/ LogReplaced(t) \/ Lookup(t) \/ Put(t) \/ RunInit(t) \/ LogAdd(t)
StopStep(t) == Get(t) \/ Remove(t) \/ LogRemove(t)
ListStep(t) == List(t) \/ Clear(t) \/ ReturnList(t)

Next ==
  \/ \E t \in Threads, a \in Aids, ui \in BOOLEAN :
        StartByName(t, a, ui) \/ \E replace \in BOOLEAN : StartAgent(t, a, replace, ui)
  \/ \E t \in Threads, a \in Aids : StopAgent(t, a)
  \/ \E t \in Threads : GetRunningAgents(t) \/ StartStep(t) \/ StopStep(t) \/ ListStep(t)
  \/ \E i \in Instances : DeliverReply(i)
  \/ OpenSocket
  \/ ReopenPage
  \/ LoadList
  \/ Redeploy

Spec == Init /\ [][Next]_vars

-----------------------------------------------------------------------------
(* Properties *)

\* The cache, the calls and the page keep their types; only created
\* instances are registered.
TypeOK ==
  /\ created \in 0..MaxInstances
  /\ cache \in [Aids -> 0..created]
  /\ info \in [Instances -> [aid : Aids, ui : BOOLEAN]]
  /\ call \in [Threads -> Calls]
  /\ deployed \in BOOLEAN
  /\ rows \in [Aids -> Nat]
  /\ socket \in BOOLEAN
  /\ page \in {"requested", "answered", "loaded"}
  /\ snapshot \subseteq Aids
  /\ {awaiting, lost, removed, overwritten} \subseteq SUBSET Instances
  /\ {overlapped, spoiled} \subseteq SUBSET Aids

\* A reply to a request that an agent sent from its init is delivered to a
\* registered agent, however early it arrives, unless the agent that asked
\* was taken out of the registry meanwhile (the comment in initAgent).
ReplyFindsAgent == lost \subseteq removed

\* A running agent is stopped before another one takes its place
\* (startServerAgent with replace): no instance is pushed out by a put, unless
\* two calls on its AID overlapped.
NoOverwrite == \A i \in overwritten : info[i].aid \in overlapped

\* While no call on an AID is in progress, the console page shows it exactly
\* when it is running and its start was reported (LoggerUtil.logAgent).
ConsoleExact ==
  \A a \in Aids : ~Busy(a) =>
    rows[a] = IF cache[a] # None /\ info[cache[a]].ui THEN 1 ELSE 0

\* The same for an AID that calls on it never overlapped, whose agents neither
\* failed nor stopped themselves in init, whose cache was not cleared, none of
\* whose events was lost, and on a page that was open from the start.
ConsoleExactOtherwise ==
  \A a \in Aids : ~Busy(a) /\ a \notin overlapped \union spoiled =>
    rows[a] = IF cache[a] # None /\ info[cache[a]].ui THEN 1 ELSE 0
=============================================================================
