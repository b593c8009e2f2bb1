------------------------------- MODULE Radigost -------------------------------
(***************************************************************************)
(* Radigost, the part of Siebog that runs agents in web browsers.  A page  *)
(* makes a platform (createRadigost) with a WebSocket to the server; every *)
(* agent of the platform is a Web Worker.  On the server a RadigostStub    *)
(* stands for the agent: an empty stub passes messages on to the platform  *)
(* registered for the agent's host; a stub that accepted a moved agent     *)
(* runs its script itself.                                                 *)
(*                                                                         *)
(* A turn of a JavaScript event loop is one step: a page and each worker   *)
(* take one event at a time.  What passes between them is asynchronous:    *)
(* worker messages and WebSocket frames in order, REST calls and messages  *)
(* of the message manager in any order.                                    *)
(***************************************************************************)
EXTENDS Naturals, Sequences, FiniteSets, SequencesExt

CONSTANTS
  Names,          \* runtime names of client-side agents
  Mobile,         \* those that run mobileAgent.js
  ServerAgents,   \* AIDs of ordinary server-side agents
  Hosts,          \* host names of platforms
  ServerHost,     \* AID.HOST_NAME, "xjaf"
  Platforms,      \* the platforms that pages make
  Options,        \* <<host, autoCreateStubs>> given to createRadigost
  Messages,       \* ACL messages
  ReceiverLists,  \* lists of receivers a message may have
  MaxWorkers      \* bound: Web Workers created

ClientAids == Names \X Hosts
Aids == ClientAids \union ServerAgents

ASSUME SomeHost == ServerHost \in Hosts /\ Options \subseteq Hosts \X BOOLEAN
ASSUME NamesFinite == IsFiniteSet(Names) /\ Mobile \subseteq Names
ASSUME ServerAgentsApart == ServerAgents \intersect ClientAids = {}
ASSUME MessagesApart == {"init", "move"} \intersect Messages = {}
ASSUME Receivers == \A rs \in ReceiverLists : rs \in Seq(Aids) /\ rs # <<>>
ASSUME WorkersNat == MaxWorkers \in Nat

Workers == 1..MaxWorkers

\* A REST call is named after the worker it is about and what it asks for: a
\* stub for the agent, or to accept the agent.  So is the stub it makes.
Calls == Workers \X {"stub", "move"}
NoCall == <<0, "none">>
NoPlatform == "no platform"
ASSUME PlatformsApart == NoPlatform \notin Platforms

VARIABLES
  socket,    \* a platform's WebSocket: "none", "connecting", "open", "closed"
  options,   \* host and autoCreateStubs of a platform
  listing,   \* its GET /running: [state, names answered]
  running,   \* radigost.running: the worker of a name, or 0
  workers,   \* every Worker created: its platform and the name of its agent
  inbox,     \* messages to a worker
  outbox,    \* messages of a worker to its page
  wire,      \* WebSocket frames on their way to a platform
  sessions,  \* WebClientSocket.sessions: the platform registered for a host
  cache,     \* running agents of the server: the stub of an AID
  stage,     \* how far a REST call has come
  posted,    \* receivers of a message; <<>> before it is posted
  queue,     \* <<m, i>>: message m waits for its i-th receiver on the server
  handled    \* history: how often a receiver handled a message

platformVars == <<socket, options, listing>>
workerVars == <<running, workers, inbox, outbox>>
vars == <<platformVars, workerVars, wire, sessions, cache, stage, posted, queue, handled>>

Init ==
  /\ socket = [p \in Platforms |-> "none"]
  /\ options = [p \in Platforms |-> <<ServerHost, FALSE>>]
  /\ listing = [p \in Platforms |-> [state |-> "none", names |-> {}]]
  /\ running = [p \in Platforms |-> [n \in Names |-> 0]]
  /\ workers = <<>>
  /\ inbox = [w \in Workers |-> <<>>]
  /\ outbox = [w \in Workers |-> <<>>]
  /\ wire = [p \in Platforms |-> <<>>]
  /\ sessions = [h \in Hosts |-> NoPlatform]
  /\ cache = [a \in ClientAids |-> NoCall]
  /\ stage = [c \in Calls |-> "none"]
  /\ posted = [m \in Messages |-> <<>>]
  /\ queue = {}
  /\ handled = [m \in Messages |-> [a \in Aids |-> 0]]

-----------------------------------------------------------------------------
Host(p) == options[p][1]
AutoCreateStubs(p) == options[p][2]
Open(p) == socket[p] \in {"connecting", "open"}

\* The AID of worker w, as createAid makes it.
AidOf(w) == <<workers[w].name, Host(workers[w].platform)>>

\* The worker of platform p for this AID, or 0 (getAgent looks up aid.str).
GetAgent(p, aid) ==
  IF aid \in ClientAids /\ aid[2] = Host(p) THEN running[p][aid[1]] ELSE 0

\* The AID the server uses.  The REST call that starts a stub has the name in
\* its path and no host, so that its agent gets AID.HOST_NAME; accept sends
\* the whole AID.
ServerAid(c) ==
  IF c[2] = "stub" THEN <<workers[c[1]].name, ServerHost>> ELSE AidOf(c[1])

BeingStarted(aid) == \E c \in Calls : stage[c] = "sent" /\ ServerAid(c) = aid

\* Message m is put into the inbox of those of these workers that exist.
Delivered(ws, m) ==
  [w \in Workers |-> inbox[w] \o [k \in 1..Cardinality({i \in DOMAIN ws : ws[i] = w}) |-> m]]

-----------------------------------------------------------------------------
(* Platforms *)

\* A page makes a platform.  The page of remote agents, whose platform makes
\* stubs, asks the server for the agents that are running.
CreateRadigost(p) ==
  /\ socket[p] = "none"
  /\ socket' = [socket EXCEPT ![p] = "connecting"]
  /\ \E o \in Options :
       /\ options' = [options EXCEPT ![p] = o]
       /\ listing' = [listing EXCEPT ![p].state = IF o[2] THEN "asked" ELSE "none"]
  /\ UNCHANGED <<workerVars, wire, sessions, cache, stage, posted, queue, handled>>

\* The socket opens and the server handles the REGISTER frame.
Register(p) ==
  /\ socket[p] = "connecting"
  /\ socket' = [socket EXCEPT ![p] = "open"]
  /\ sessions' = [sessions EXCEPT ![Host(p)] = p]
  /\ UNCHANGED <<options, listing, workerVars, wire, cache, stage, posted, queue, handled>>

\* The page goes away with its workers.  Nobody sends DEREGISTER, and onClose
\* leaves the session registered.
ClosePage(p) ==
  /\ Open(p)
  /\ socket' = [socket EXCEPT ![p] = "closed"]
  /\ listing' = [listing EXCEPT ![p] = [state |-> "none", names |-> {}]]
  /\ wire' = [wire EXCEPT ![p] = <<>>]
  /\ running' = [running EXCEPT ![p] = [n \in Names |-> 0]]
  /\ inbox' = [w \in Workers |->
       IF w \in DOMAIN workers /\ workers[w].platform = p THEN <<>> ELSE inbox[w]]
  /\ outbox' = [w \in Workers |->
       IF w \in DOMAIN workers /\ workers[w].platform = p THEN <<>> ELSE outbox[w]]
  /\ UNCHANGED <<options, workers, sessions, cache, stage, posted, queue, handled>>

\* Mutant: a worker that is displaced is terminated.
MutTerminates(p, ns) ==
  [w \in Workers |->
    IF w \in (Len(workers) + 1)..(Len(workers) + Cardinality(ns)) THEN <<"init">>
    ELSE IF \E n \in ns : w = running[p][n] THEN <<>> ELSE inbox[w]]

\* The new workers are told to initialise their agents.
InitPosted(p, ns) ==
  [w \in Workers |->
    IF w \in (Len(workers) + 1)..(Len(workers) + Cardinality(ns)) THEN <<"init">> ELSE inbox[w]]

\* A Worker for every name of ns (one after the other, in one turn).  A worker
\* of that name is displaced, but goes on.
Spawn(p, ns) ==
  LET order == SetToSeq(ns)
      number(n) == CHOOSE i \in DOMAIN order : order[i] = n
  IN /\ Len(workers) + Cardinality(ns) <= MaxWorkers
     /\ workers' = workers \o [i \in DOMAIN order |-> [platform |-> p, name |-> order[i]]]
     /\ running' = [running EXCEPT ![p] = [n \in Names |->
          IF n \in ns THEN Len(workers) + number(n) ELSE running[p][n]]]
     /\ inbox' = InitPosted(p, ns)
     /\ UNCHANGED outbox

\* xjaf.startAgent or xjaf.accept: a REST call is on its way to the server.
SendCall(c) == stage' = [stage EXCEPT ![c] = "sent"]

\* radigost.start(url, name, ...) of a user's agent, plain or mobile.  A stub is
\* asked for when the platform makes stubs.
Start(p, n) ==
  /\ Open(p)
  /\ Spawn(p, {n})
  /\ \/ /\ AutoCreateStubs(p)
        /\ SendCall(<<Len(workers) + 1, "stub">>)
     \/ /\ ~AutoCreateStubs(p)
        /\ UNCHANGED stage
  /\ UNCHANGED <<platformVars, wire, sessions, cache, posted, queue, handled>>

\* The server answers GET /running.
GetRunning(p) ==
  /\ listing[p].state = "asked"
  /\ listing' = [listing EXCEPT ![p] =
       [state |-> "answered", names |-> {a[1] : a \in {b \in ClientAids : cache[b] # NoCall}}]]
  /\ UNCHANGED <<socket, options, workerVars, wire, sessions, cache, stage, posted, queue, handled>>

\* The page starts a worker again for every stub that was listed, those of
\* mobileAgent.js aside.
RecreateAgents(p) ==
  /\ listing[p].state = "answered"
  /\ listing' = [listing EXCEPT ![p].state = "none"]
  /\ Spawn(p, listing[p].names \ Mobile)
  /\ UNCHANGED <<socket, options, wire, sessions, cache, stage, posted, queue, handled>>

-----------------------------------------------------------------------------
(* Posting *)

NewMessage(m, rs) ==
  /\ posted[m] = <<>>
  /\ posted' = [posted EXCEPT ![m] = rs]

\* radigost.post: client-side receivers of this platform are given the message
\* at once.  With a server-side receiver xjaf.post is called, which does not
\* exist: the turn ends in a TypeError and nothing else is sent.
LocalWorkers(p, rs) == [i \in DOMAIN rs |-> GetAgent(p, rs[i])]

Post(p, m) ==
  /\ Open(p)
  /\ \E rs \in ReceiverLists :
       /\ NewMessage(m, rs)
       /\ inbox' = Delivered(LocalWorkers(p, rs), m)
  /\ UNCHANGED <<platformVars, running, workers, outbox, wire, sessions, cache, stage, queue, handled>>

\* Mutant: the index of the receiver is one too high.
MutIndex(m, rs) == {<<m, i + 1>> : i \in DOMAIN rs}

Queued(m, rs) == {<<m, i>> : i \in DOMAIN rs}

\* postToServer, xjaf.sendMessage and MessageManagerBean.post: the message is
\* queued once for every receiver.  Server-side agents post in the same way.
PostToServer(m) ==
  /\ \E rs \in ReceiverLists :
       /\ NewMessage(m, rs)
       /\ queue' = queue \union Queued(m, rs)
  /\ UNCHANGED <<platformVars, workerVars, wire, sessions, cache, stage, handled>>

-----------------------------------------------------------------------------
(* Workers *)

\* self.onmessage with INIT: onInit of a mobile agent moves it to the server.
\* That the page is told of the start changes nothing there.
InitAgent(w) ==
  /\ inbox[w] # <<>> /\ Head(inbox[w]) = "init"
  /\ inbox' = [inbox EXCEPT ![w] = Tail(@)]
  /\ outbox' = [outbox EXCEPT ![w] = IF workers[w].name \in Mobile THEN Append(@, "move") ELSE @]
  /\ UNCHANGED <<platformVars, running, workers, wire, sessions, cache, stage, posted, queue, handled>>

\* self.onmessage with an ACL message: the agent handles it.
HandleMessage(w) ==
  /\ inbox[w] # <<>> /\ Head(inbox[w]) # "init"
  /\ inbox' = [inbox EXCEPT ![w] = Tail(@)]
  /\ handled' = [handled EXCEPT ![Head(inbox[w])][AidOf(w)] = @ + 1]
  /\ UNCHANGED <<platformVars, running, workers, outbox, wire, sessions, cache, stage, posted, queue>>

\* Agent.post: in any of its turns an agent may post a message.
AgentPosts(w, m) ==
  /\ Open(workers[w].platform)
  /\ "init" \notin ToSet(inbox[w])
  /\ \E rs \in ReceiverLists : NewMessage(m, rs)
  /\ outbox' = [outbox EXCEPT ![w] = Append(@, m)]
  /\ UNCHANGED <<platformVars, running, workers, inbox, wire, sessions, cache, stage, queue, handled>>

\* onWorkerMessage: MOVE_TO_SERVER is a REST call with the agent's state; the
\* worker is not stopped and stays in running.
MoveToServer(w) ==
  /\ outbox[w] # <<>> /\ Head(outbox[w]) = "move"
  /\ outbox' = [outbox EXCEPT ![w] = Tail(@)]
  /\ \/ /\ GetAgent(workers[w].platform, AidOf(w)) # 0
        /\ SendCall(<<w, "move">>)
     \/ /\ GetAgent(workers[w].platform, AidOf(w)) = 0
        /\ UNCHANGED stage
  /\ UNCHANGED <<platformVars, running, workers, inbox, wire, sessions, cache, posted, queue, handled>>

\* onWorkerMessage: a regular message is posted.
PostOfWorker(w) ==
  /\ outbox[w] # <<>> /\ Head(outbox[w]) # "move"
  /\ LET m == Head(outbox[w])
     IN  inbox' = Delivered(LocalWorkers(workers[w].platform, posted[m]), m)
  /\ outbox' = [outbox EXCEPT ![w] = Tail(@)]
  /\ UNCHANGED <<platformVars, running, workers, wire, sessions, cache, stage, posted, queue, handled>>

-----------------------------------------------------------------------------
(* The server *)

\* startServerAgent for call c (AgentManager has its steps): a running stub is
\* taken out, a new one is registered and initialised.  It is empty, or has the
\* script and the state of a moved agent, which may be missing or fail.
StartStub(c) ==
  /\ stage[c] = "sent"
  /\ cache' = [cache EXCEPT ![ServerAid(c)] = c]
  /\ \E s \in IF c[2] = "move" THEN {"ready", "failed"} ELSE {"ready"} :
       stage' = [stage EXCEPT ![c] = s]
  /\ UNCHANGED <<platformVars, workerVars, wire, sessions, posted, queue, handled>>

\* Mutant: every platform of the host is sent the message.
MutAllPlatforms(h) == {p \in Platforms : socket[p] = "open" /\ Host(p) = h}

\* WebClientSocket.sendMessageToClient: the session of that host; what is sent
\* to a closed one is lost.
SessionOf(h) == {p \in Platforms : sessions[h] = p /\ socket[p] = "open"}

\* The stub fires the message, and the host of its first receiver decides.
Forward(m) ==
  wire' = [p \in Platforms |->
    IF p \in SessionOf(Head(posted[m])[2]) THEN Append(wire[p], m) ELSE wire[p]]

Runs(aid, kind) == /\ aid \in ClientAids
                   /\ cache[aid] # NoCall
                   /\ stage[cache[aid]] = "ready"
                   /\ cache[aid][2] = kind

\* MDBConsumer gives message m to its i-th receiver: a server-side agent or a
\* moved one handles it, an empty stub passes it on.  If there is no agent, or
\* it is broken, that is logged.
Deliver(m, i) ==
  /\ <<m, i>> \in queue
  /\ queue' = queue \ {<<m, i>>}
  /\ LET aid == posted[m][i]
     IN  \/ /\ aid \in ServerAgents \/ Runs(aid, "move")
            /\ handled' = [handled EXCEPT ![m][aid] = @ + 1]
            /\ UNCHANGED wire
         \/ /\ Runs(aid, "stub")
            /\ Forward(m)
            /\ UNCHANGED handled
         \/ /\ aid \in ClientAids /\ ~Runs(aid, "move") /\ ~Runs(aid, "stub")
            /\ UNCHANGED <<wire, handled>>
  /\ UNCHANGED <<platformVars, workerVars, sessions, cache, stage, posted>>

\* A frame arrives: postToClient.
PostToClient(p) ==
  /\ wire[p] # <<>>
  /\ wire' = [wire EXCEPT ![p] = Tail(@)]
  /\ inbox' = Delivered(LocalWorkers(p, posted[Head(wire[p])]), Head(wire[p]))
  /\ UNCHANGED <<platformVars, running, workers, outbox, sessions, cache, stage, posted, queue, handled>>

-----------------------------------------------------------------------------
PlatformStep(p) ==
  \/ CreateRadigost(p)
  \/ Register(p)
  \/ ClosePage(p)
  \/ \E n \in Names : Start(p, n)
  \/ GetRunning(p)
  \/ RecreateAgents(p)
  \/ \E m \in Messages : Post(p, m)
  \/ PostToClient(p)

WorkerStep(w) ==
  \/ InitAgent(w)
  \/ HandleMessage(w)
  \/ \E m \in Messages : AgentPosts(w, m)
  \/ MoveToServer(w)
  \/ PostOfWorker(w)

ServerStep ==
  \/ \E c \in Calls : StartStub(c)
  \/ \E m \in Messages : PostToServer(m) \/ \E i \in DOMAIN posted[m] : Deliver(m, i)

Next ==
  \/ \E p \in Platforms : PlatformStep(p)
  \/ \E w \in DOMAIN workers : WorkerStep(w)
  \/ ServerStep

Spec == Init /\ [][Next]_vars

-----------------------------------------------------------------------------
(* Properties *)

Stages == {"none", "sent", "ready", "failed"}

\* The state of the platforms, workers, calls and messages keeps its types.
TypeOK ==
  /\ socket \in [Platforms -> {"none", "connecting", "open", "closed"}]
  /\ options \in [Platforms -> Hosts \X BOOLEAN]
  /\ listing \in [Platforms -> [state : {"none", "asked", "answered"}, names : SUBSET Names]]
  /\ running \in [Platforms -> [Names -> 0..Len(workers)]]
  /\ workers \in Seq([platform : Platforms, name : Names]) /\ Len(workers) <= MaxWorkers
  /\ inbox \in [Workers -> Seq(Messages \union {"init"})]
  /\ outbox \in [Workers -> Seq(Messages \union {"move"})]
  /\ wire \in [Platforms -> Seq(Messages)]
  /\ sessions \in [Hosts -> Platforms \union {NoPlatform}]
  /\ cache \in [ClientAids -> Calls \union {NoCall}]
  /\ stage \in [Calls -> Stages]
  /\ posted \in [Messages -> ReceiverLists \union {<<>>}]
  /\ queue \subseteq {c \in Messages \X Nat : c[2] \in DOMAIN posted[c[1]]}
  /\ handled \in [Messages -> [Aids -> Nat]]

\* A message to one client-side agent is handled at most once, although the
\* agent may run on several pages and on the server: post, the stub and
\* postToClient each pass it on to one place.  A message to several has a copy
\* sent for each of them, and postToClient gives every copy to all of them.
OncePerReceiver ==
  \A m \in Messages, a \in ClientAids :
    handled[m][a] > 1 => Cardinality({i \in DOMAIN posted[m] : posted[m][i] \in ClientAids}) > 1

\* Agent a has its empty stub on the server, nobody is replacing it, and
\* platform p is the one registered for its host, is open and runs the agent.
Settled(a, p) ==
  /\ Runs(a, "stub")
  /\ ~BeingStarted(a)
  /\ p \in SessionOf(a[2])
  /\ running[p][a[1]] # 0

\* Message m is on its way to client-side agent a: in the queue, in a frame to
\* platform p, or in the inbox of the agent there (a
\* worker that was displaced goes on with what it has).
Pending(m, a, p) ==
  /\ \E i \in DOMAIN posted[m] : posted[m][i] = a
  /\ \/ \E i \in DOMAIN posted[m] : posted[m][i] = a /\ <<m, i>> \in queue
     \/ m \in ToSet(wire[p])
     \/ \E w \in DOMAIN workers :
          workers[w] = [platform |-> p, name |-> a[1]] /\ m \in ToSet(inbox[w])

\* The first receiver, which decides on the socket, has the host of a.
FirstHost(m, a) == posted[m] # <<>> /\ Head(posted[m])[2] = a[2]

\* As long as an agent is settled no message to it is lost between the queue,
\* the stub, the socket, the page and the worker: what is pending stays so until
\* it is handled; unless the message's first receiver has another host.
NotLostWhileSettled ==
  [][\A m \in Messages, a \in ClientAids, p \in Platforms :
       Settled(a, p) /\ Pending(m, a, p) /\ FirstHost(m, a) =>
         \/ handled'[m][a] > 0
         \/ Pending(m, a, p)'
         \/ ~Settled(a, p)']_vars
=============================================================================
