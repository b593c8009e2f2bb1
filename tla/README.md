# A TLA+ verification of Siebog

Siebog is a multi-agent platform: agents are EJBs on a WildFly cluster that
exchange FIPA ACL messages over JMS. On top of it are a BSP barrier, the Jason
agent language (JasonEE), a contract net, a blackboard, ant colony and particle
swarm agents, agents in web browsers (Radigost), and DNARS, a reasoner over a
graph of statements. This directory holds TLA+ models of the parts where
several agents, threads, messages or nodes meet, the TLC runs that check them,
and the TLAPS proofs of what matters most.

## 1. Inventory

`PROJECT.json` lists every component with its source files; the table names the
state of each, what goes on there, and what makes it correct.

| component | state | operations and interactions | what is hard, and what is correct | module |
|---|---|---|---|---|
| BSP barrier (`interaction/bsp`, `agents/BSPAgent`) | `superstep`, `registered`, `processing` in one stateful bean | SUBSCRIBE, CANCEL, INFORM from agents; a delayed REQUEST to itself as timeout; a superstep message to every member | agents die without a CANCEL, messages are lost or overtake each other. Waits for members only, never stalls, one timeout armed, no agent released early, supersteps go on | `Barrier` |
| Agent manager (`agents/AgentManagerBean`), console list (`utils/LoggerUtil`, `xjaf.service.js`) | replicated cache AID -> agent; the page's list of running agents | start, replace, stop, list by any server thread; ADD and REMOVE events to the page, which may be lost; `MDBConsumer` delivers through the cache | many threads over single atomic cache calls. A reply to a request from `init` finds the agent, no instance is displaced without a stop, the list is exact | `AgentManager` |
| Jason execution control (`jasonee/control`, `JasonEEAgent`) | `cycleNum`, `registered`, `running`, `pending` in one stateful bean; timers; executor tasks | agents add and remove themselves as they wake and sleep and report finished cycles; tasks post a cycle and arm its timeout; the cluster view listener | agents come, sleep and die within a cycle; nodes take agents, timers and tasks along. Never stalls, always attended, lockstep, cycles go on | `ExecutionControl` |
| Jason environment (`jasonee/environment`) | common and personal lists of percepts, the set of agents that are up to date | nine methods called by executor threads; `getPercepts` | synchronised containers, unsynchronised sequences of calls. No percept missed, no stale percept held as current | `UserEnvironment` |
| DNARS graph events (`dnars/events`, `StatementAPI.add`) | list of events, `paused`, list of observers, the dispatch thread | writers queue events, pause and resume; observers come and go; the dispatch thread takes a batch | three monitors, wait and notify. A stream of batches to every observer: once, in order, none lost; no missed wake-up | `GraphEvents`, `EventStream` |
| Contract net (`interaction/contractnet`) | the initiator's status, proposals, best proposal, those to turn down | call, proposals, refusals, acceptance, result or failure; delayed messages for two timeouts | late and lost answers, failing participants. One participant at a time, one success, no mixed answers, the call ends | `ContractNet` |
| Message manager (`MessageManagerBean`, `MDBConsumer`) | none of its own: the JMS queue | post now or delayed, deliver | delivery unordered, a failed send to one receiver is logged and forgotten, unknown receivers are ignored | part of the modules with messages (table in section 2) |
| Barrier lookup (`BarrierManager`) | none | finds or starts the barrier agent | two nodes both start it | not modelled |
| Blackboard (`interaction/blackboard`) | triggers, estimates per event | events, proposals, a delayed choice after two seconds | estimates are never cleared and mix with those of a later event | not modelled |
| Jason agent architecture, project start (`JasonEEAgArch`, `JasonMessage`) | the agent's pending actions | actions are scheduled on the executor, feedback comes as a message | an action that throws never reports back | not modelled |
| Ant colony (`agents/xjaf/aco/tsp`) | the map's best tour, an ant's tour and phase | requests and answers between ants and the map; an ant starts its successor; on its way back it posts an update of pheromone per edge | a chain of messages in which none may be lost. The best tour is a tour and the shortest one reported, the map puts pheromone once on every edge, lines of ants go on, the search ends | `AntColony` |
| Particle swarm (`agents/xjaf/pso`) | swarm and particle positions | — | every message after the start fails in `PsoMessage.java:93` (a JSON array is cast to `double[]`): no behaviour beyond the start is reachable | not modelled |
| Radigost (`radigost`, `radigost.service.js`, `agent.js`) | workers, `radigost.running`, sockets, `WebClientSocket.sessions`, stubs | pages come and go, start agents, recreate those that are listed, move them to the server; messages pass page, queue, stub, socket and worker | three event loops and a server, nothing unregistered when a page goes. An agent handles a message once; none gets lost while the agent is settled | `Radigost` |
| DNARS statements, inference (`dnars/graph`, `base`, `inference`) | the graph | add with revision and compound terms, forward inference, answers | pure algorithms; the truth functions, structural transformations, uniqueness of statements | not modelled |
| DNARS web agents (`dnars-web`) | — | chains of requests to DBpedia and the graph | mostly I/O | not modelled |
| Node selectors (`RRClusterNodeSelector`, `RRDeploymentNodeSelector`) | one counter | round robin | the counter overflows to a negative index | not modelled |
| Executor, starter, console, vendored parsers | — | process start, configuration, third-party code | I/O, no protocol state | not modelled |

`PROJECT.json` also lists the hazards, each at its line, and the properties
that cover it; a hazard without one says why.

## 2. Modules

Each component is one module with its VARIABLES, one action per handler or per
atomic statement, the specification and its properties. `MC*` extends it for
TLC, `*Proofs` holds the theorems. Definitions named `Mut...` beside an action
are mistakes a maintainer might make there; no run uses them as they stand,
they are put in the action's place to see the property fail.

**Barrier.** A handler of the barrier bean is one action, because the bean is
`@Lock(WRITE)`: `RegisterAgent`, `DeregisterAgent`, `AgentCompletedSuperstep`,
`OnTimeout`. All end in `NextSuperstepIfPossible`, as in the code.
Messages in flight are counters per content, since a re-signal really puts
another copy into the queue; delivery is in any order. `FilterCopies`
summarises the loop of `filterUnavailableAgents`, in which each live agent has
the superstep message posted to everybody who is still in `processing`; the
order is that of a hash set and left open. Agents start (`onInit`
subscribes), terminate (`onTerminate` cancels), and are stopped or die in
silence, because `AgentManagerBean.stopAgent` does not call the agent's `stop`.
`twice` records that a timeout signalled an agent that may still answer, or more
than one live agent: `buildSuperstepMsg` ignores its `receivers` and posts to all
of `processing`, so that two agents whose signals were lost get two copies each.
A handler that would start superstep `MaxSuperstep + 1` stays disabled.

**Rounds.** What a coordinator of agents in rounds promises, with no messages,
timeouts or restarts: a round starts with all members for its team; who joins in
between waits; the next round starts with the step in which the last of the team
leaves or is let go; nobody is let go who has not worked, unless excused. Both
coordinators implement it (`ImplementsRounds` in each module):

| Rounds | Barrier | ExecutionControl |
|---|---|---|
| `round` | `superstep` | `cycleNum` |
| `members` | `registered` | `registered` and `pending` |
| `team` | `processing` | `running` |
| `worked` | those that have executed the superstep | those that perform the current cycle |
| `excused` | dead agents and ones started again; all, once `twice` holds | abandoned agents and ones started again |

**AgentManager.** The bean is stateless, so calls run on many threads, and the
unit of atomicity is one statement that touches the cache, the page or the
agent. A thread's `call` holds the next statement; a nested `stopAgent` returns
to the place in `next`. `Redeploy` is the deployment of the agents' module
(outside this repository), on which a lookup succeeds or fails.
`getRunningAgents` may clear the whole cache. `InitOutcomes` says what an
agent's `init` does: return, throw, or stop the agent itself; a request sent
from it is answered at any time from then on. `overlapped` records the AIDs that
two calls were about at once, `spoiled` those of which the page may not know a
start or a removal: all of them when the page was not loaded before the first
call or was closed and opened anew (`ReopenPage`), those whose `init` failed or
stopped its own agent, those that a clearing of the cache took out, and those of
which an event was lost (`Notify`: `logAgent` only logs a send that fails).

**ExecutionControl.** The bean's methods are operators (`AddAgent`,
`RemoveAgent`, `AgentCycleFinished`, `OnTimeout`) that the agents' actions and
the timer call, each within one step as the bean is `@Lock(WRITE)`. What
`informAllAgsToPerformCycle` gives to the executor is a member of `tasks` with
its two statements, `PostCycle` and `ArmTimeout`; the second one reads the
cycle number anew, as the code does. An agent wakes up, sleeps, performs a
cycle, terminates or is stopped, and an instance that is stopped in the middle
of a cycle carries on (`leftover`). `NodeFails` takes any agents, any tasks and
possibly the timers along, and `ViewReported` is what `ECViewListener` does
about it. `abandoned` records the agents that were stopped, or lost with a node
themselves or with the task that had a cycle for them. `PostCycle` sends to each
agent on its own, and any of the sends may fail, up to `MaxLosses`: `missed`
records which cycles never went to an agent. Such an agent stays in `running`,
nothing in the code sends the cycle again, and the cycles stop
(`CyclesGoOnOtherwise` names the case).

**UserEnvironment.** A method is the sequence of its synchronised statements
(`AddPercept == <<"contains", "add", "stale">>`), one of which is one step of
an executor thread; `Look`, `ChangeGlobal`, `ChangeOwn`, `FindList`, `PutList`,
`MarkStale` and `NextAgent` are the statements. `getPercepts` is four steps,
one call at a time, as `EnvironmentBean` is a stateful bean. `uptodateAgs` is
`UserEnvironment.uptodateAgs`; `believes` records what the agent was given.

**GraphEvents.** A step is what a thread does under one set of monitors.
`GraphFree`, `EventsFree` and `ObserversFree` say which monitor is held over
several steps: `addEvent` holds the list of events while it needs the graph's
monitor for `paused`, and the end of a pause holds the graph's while it needs
the list. `EventStream` is what an observer may rely on, with no threads,
monitors or pauses: consecutive batches of numbered events, each given once to
everybody registered then, unless one of them throws. `ImplementsStream` is the
refinement; its mapping counts the events that left the list as given, and
shows the batch and its observers while it is dispatched.

**ContractNet.** One initiator, one call. A handler is one action; an exception
in it leaves what was done before, since `XjafAgent` catches it, and the model
says so branch by branch. Which proposal is the best is open. The two delayed
messages are `replyBy` and `waiting`. `HandleCfp` covers participants that
propose, refuse, or say nothing. Every message that matters can be lost: the
acceptance, each answer, and the two delayed ones (`LoseReplyBy`,
`LoseWaiting`); a lost call is a participant that says nothing, a lost rejection
changes nothing. Without its deadline a call with a proposal in waits for the
silent participants for ever; `deadlineLost` records that case.

**AntColony.** The agent that keeps the map, and lines of ants: an ant and the
ones it starts after itself. An ant has one message of the chain on its way at a
time (`mail`), to the map (`Questions`), from it (`Answers`) or to itself, so an
action is what one message makes the map (`Reply`, `UpdateBestTour`,
`UpdatePheromone`) or the ant do; `Handles(a, p)` is `phase` in `Ant.onMessage`.
Besides the chain an ant has two kinds of messages to the map that nobody
answers: the tour (`report`) and, on the way back, an update of pheromone for
each edge (`update`). Each can be lost (`LoseMail`, `LoseReport`, `LoseUpdate`),
and a map that was stopped or is not running drops them; `trail` is what the map
has handled of the updates. `Replace` is the ant's last step, which starts its
successor and stops it. `Cancel` and `StopMap` end the search from outside.
Which unvisited node the ant chooses is open: the pheromone levels, numbers that
only weigh this choice, and the random choice are left out, and so are the
coordinates, of which only the distances are kept. An ant builds a message for
the local update of an edge (`Ant.java:191-194`) but never posts it, so that the
map's `UpdateLocalPheromone` branch is never reached and not modelled. Pheromone
goes onto the edges from the end of the tour to its begin, which is what
`EveryEdgeOnce` states: once the ant is back and its last update has arrived,
the map has put pheromone on each edge of the tour once, unless an update was
lost or the map is gone. The report that finds the counter at
`MAX_STATIONARY_ITERATIONS` ends the search and is not looked at, even if its
tour is better, which is why `BestOfReported` is about a search that is on. The
map keeps its best tour with nodes counted from 1, the model from their set.

**Radigost.** A turn of a JavaScript event loop is one step; pages and workers
have a loop each. `CreateRadigost`, `Register`, `ClosePage`, `Start`,
`GetRunning`, `RecreateAgents`, `Post` and `PostToClient` are steps of a page or
of its socket, `InitAgent`, `HandleMessage`, `AgentPosts`, `MoveToServer` and
`PostOfWorker` of a worker and of the page that listens to it, `StartStub` and
`Deliver` of the server. Worker messages (`inbox`, `outbox`) and frames (`wire`)
keep their order; REST calls (`stage`) and messages of the message manager
(`queue`) do not. Plain and mobile agents are started on platforms with and
without stubs alike. `sessions` is the map from hosts to sockets, which nobody
cleans; a worker stays when its name is taken by a new one. `StartStub` is one
step, `AgentManager` has what is inside. `xjaf.post`, which `radigost.post`
calls for server-side receivers (`radigost.service.js:153`), does not exist: the
turn ends in a TypeError after the client-side receivers were served, and so it
does in the model, although the comment at 136-137 and `home.html` promise
otherwise.

**Failed sends.** `postToReceiver` (`MessageManagerBean.java:116-125`) catches
and logs what goes wrong with one receiver, and neither the sender nor the other
receivers notice:

| module | what can be lost |
|---|---|
| `Barrier` | every kind of message (`Lossy`): subscriptions, cancellations, completions, signals, the timeout |
| `ExecutionControl` | the cycle message to any of its receivers (`PostCycle`); tasks and timers with a node |
| `ContractNet` | the acceptance, each answer, the deadline, the timeouts on participants; a lost call is a silent participant |
| `AntColony` | every message of the chain, the report, the updates of pheromone |
| `AgentManager` | an event for the page (`Notify`); a lost request or reply is one that is never delivered |
| `Radigost` | what goes to a page that was closed; a message whose send fails is one that was not posted, and the properties are about posted ones |

`UserEnvironment` and `GraphEvents` have threads and no messages.

**History variables** (`performed`, `twice`, `removed`, `overwritten`, `lost`,
`overlapped`, `spoiled`, `abandoned`, `overtaken`, `believes`, `delivered`,
`missed`, `deadlineLost`,
`since`, `skipped`, `awarded`, `turnedDown`, `successes`, `failed`, `late`,
`path`, `trail`, `shortest`, `handled`) are written and never read by guards,
except that losses and starts are counted against their bounds.

## 3. Runs

Passing runs finish with no error; a violation run is expected to find one
and is a finding about the code.

| run | instance | what it shows |
|---|---|---|
| `barrier_members` | 2 agents started once each, 2 supersteps, at most 2 copies of a message, one failed send of any kind | `NobodyForgotten` while nothing is lost; `TimerArmed`; `ImplementsRounds`; `SynchronousRelease` for agents started once, until a timeout signals an agent twice; `SuperstepsGoOn` unless the timeout itself is lost |
| `agents_calls` | 1 AID, 2 threads that may overlap, 2 instances, `init` may return, throw or stop the agent, the module comes and goes, the page loads meanwhile, is closed and opened anew and may miss events | `ReplyFindsAgent` with no restriction on the callers; `NoOverwrite` except for overlapping calls; `ConsoleExactOtherwise`: the page lists exactly what runs, except for AIDs in `overlapped` or `spoiled` |
| `agents_stop_self` (violation) | 1 thread, `init` may stop the agent, an open page that misses nothing | `ConsoleExact` fails: REMOVE is sent before ADD |
| `control_cycles` | 2 agents started twice, 2 cycles, stops, one change of the view that may be a node failure, one failed send of a cycle message | `NobodyForgotten` but for abandoned agents and those the current cycle could not be sent to; `Attended`, `Lockstep`, `ImplementsRounds`; `CyclesGoOnOtherwise`: cycles go on unless the bean waits for one of these |
| `control_failure` (violation) | 2 agents started once, no stops, no failed sends, one view change that may be a node failure, fair scheduling, timers and listener included | `CyclesGoOn` fails: `filterUnavailableAgents` has no body |
| `environment_methods` | 2 executor threads, all nine methods, one agent, one literal | `NothingMissed`, `StaleOnlyIfOvertaken` |
| `environment_stale` (violation) | 1 executor thread, `addPercept` and `removePercept` | `UptodateIsLatest` fails: marking comes before removing |
| `events_writers` | 2 writers, single statements and lists, 2 observers, 2 events, observers that throw | `OnceInOrder`, `NothingLost`, `NoMissedWakeup`, `AllDispatched`, `ImplementsStream` |
| `cnet_call` | 4 participants, 2 failed sends of any kind, both ways to have no optimal proposal | `NoMixedAnswers`, `OneAtATime`, `SuccessOnce`, `TaskInHand`, `TaskDone` |
| `cnet_skipped` (violation) | 2 participants, no loss | `AwaitsResponse` fails: the best remaining proposal is taken out and not used |
| `ants_search` | 2 lines of ants on the corners of a rectangle, the shortest and the longest tour, the search ends after one report without a better tour, one lost message of any kind, the map may be stopped at any time before the search is over | `BestIsTour`, `BestOfReported`, `EveryEdgeOnce`, `LinesGoOn`, `SearchEnds` |
| `radigost_pages` | 2 platforms, each of the page of remote agents (with stubs) or of the other examples (without), one plain and one mobile agent, one server-side agent, 2 workers, one message to the plain agent, or to the mobile and the server-side one | `OncePerReceiver`, `NotLostWhileSettled` |

That the barrier waits for members only and never for nobody
(`WaitsForMembersOnly`, `NeverStalls`), and the like for the execution control, is
part of what `ImplementsRounds` checks: a team is never left empty while there are
members. `NobodyForgotten` and `TaskInHand` are the safety side of the liveness
properties: as long as nothing goes wrong, what is waited for is on its way.

Where a hazard really bites, the property says under which condition it holds,
and the condition is a visible event of the model: `twice` (a timeout signalled an
agent twice for one superstep, whereupon the second completion is taken for the
next one), `overlapped` and `spoiled` (agent manager), `abandoned` (execution
control), `missed` (a cycle was never sent to the agent), `overtaken` (an agent
was given percepts between a mark and its change), `late` (a participant was
given up that was still at work), `deadlineLost` (the contract net's deadline was
not delivered), `skipped` (another observer threw), `Blocked` (two writers in
deadlock), a lost update of pheromone (`lost`), `Settled` (the agent's page, stub
and socket are in place), and an agent started again (`starts[a] > 1`), whose old
completions are taken for new ones. All of them are reachable in the runs, but for a second start of a barrier agent.

Such a condition says where the code goes wrong, and no property here excludes
it: the agent signalled twice, calls of the agent manager that overlap, the
starts, removals and failures of which the page does not know, the old
completions of an agent started again, the participant given up too early, the
deadlock of the writers, the page that is closed or taken over. Nor does any
property exclude that two threads enter a percept twice, so that one removal
leaves a copy (`UserEnvironment.java:168`), or that a message to several browser
agents is handled several times by each; `OncePerReceiver` does not speak of such
a message, and the run has none.
The hazards of `PROJECT.json` say of each what covers it and what does not.

**Bounds.** `MaxSuperstep`, `MaxCycle`, `MaxStarts`, `MaxViews`, `MaxCopies`,
`MaxLosses`, `MaxInstances`, `MaxEvents`, `MaxWorkers` and `MaxLost` cap what is
unbounded in the code, and each is a conjunct of a guard. `Tours` bounds the
orders in which ants walk, and `MaxStationary` is the code's limit of 500
scaled down. Two agents are enough for one to be waited for while the other
leaves, comes or finishes; two supersteps or cycles for a message of the first
to arrive in the second. One failed send is enough for every single loss, for the
barrier, the execution control and the ants; the contract net has two, so that an
acceptance can get lost after the timeout on another participant did. One
report and one update of each line of ants is on its way at a time, and the line
goes on when it has arrived or is lost; what this leaves out is two updates that
overtake each other, after which the same edges have their pheromone. One AID is
enough for races of the agent manager, since calls on two AIDs meet only in
`getRunningAgents`. Two threads and one literal suffice for the environment, since every statement is about one list and the
literals do not interact. Four participants allow an accepted, a failed, a
turned-down and a late one. Two platforms are enough for a second page to take a
host over, two workers for one to displace another or for an agent on each
side; the Radigost run has also been made with three workers, and with a message
to the plain and the mobile agent at once. Two tours, the
shortest and the longest, are enough for a report to be better, worse or as good
as the best. All safety properties are proved for all values of the bounds
(section 4).

**Deadlock** is not checked (`CHECK_DEADLOCK FALSE`) where the system stops:
the bounds on starts, cycles or instances are reached, the single call of the
contract net is over, the ants' search has ended, all workers and messages of
the Radigost pages are used up, or two writers block each other. It is checked
for the environment.

**Fairness.** Weak fairness, only for what the platform drives: the JMS server
delivers what is in a queue and what is scheduled, the timer service fires, the
executor runs its tasks, the listener is called, threads that hold or wait for a
monitor run, and a reasoning cycle ends. Nothing is assumed of agents that
start, stop, terminate, sleep or fail, nor of lost messages, nor of view changes.
`Barrier` has fairness per agent and message, as the queue delivers each message.
`ExecutionControl` distinguishes what drives the cycles (`WorkFairness`: the tasks,
each agent's delivery and the end of its cycle), which is all that
`CyclesGoOnOtherwise` takes, from what watches them (`WatchFairness`: the timers,
the listener, instances that were stopped). The violation run assumes both
(`FairSpec`), so that its counterexample is not a timer that never expires.
`GraphEvents` also assumes that a list of statements comes to its end, which is
the writer's loop over a finite list; that is why `AllDispatched` may hold for
events queued in a pause. `AntColony` has fairness per line of ants, for what the
line's messages make the map or the ant do. `Radigost` assumes none: a page may be
closed at any moment, and its properties are about what is lost or repeated.

## 4. Proofs

Checked by TLAPS for every set of agents, threads, writers, observers, ants or
pages and for all values of the bounds, from the named assumptions in the
modules (`BoundsNat`, `AgentsFinite`, `WritersFinite`, `DistSymmetric`,
`MessagesApart`, ...), which say that the constants have their types.

- **BarrierProofs**: `TypeCorrect`, `BarrierWaitsForMembers`,
  `BarrierNeverStalls`, `OneTimeout` (`TimerArmed`), `ReleaseIsSynchronous`
  (`SynchronousRelease`), `RoundsImplemented` (`ImplementsRounds`), `AwaitedAnswer`
  (`NobodyForgotten`). The first four invariants together
  are inductive (`Inv`): `NeverStalls` needs `processing \subseteq registered`
  for `deregisterAgent`, which calls `nextSuperstepIfPossible` only if the agent
  was in `processing`; `TimerArmed` needs the bound `superstep \in Supersteps`.
  The lemma `NextSuperstepFacts` says what the common last call of all handlers
  leaves behind. `SynchronousRelease` needs `AnswersOK`: the barrier waits for one
  answer at most of a live agent, to the signal for the current superstep
  (`OneAnswer`), and an AID that was never started has left no trace (`Fresh`). The
  small instance alone would not do: without the case of more than one live agent in
  `SignalsTwice` the property holds for two supersteps and
  one loss and fails for three supersteps and two losses. For the refinement
  (`RoundsInv`) it takes `NothingAhead` besides: nobody has executed, or is
  signalled for, a superstep that is still to come, so that a new round starts with
  nobody who has worked. Each handler is then a `Join`, `Leave`, `LetGo`, `Work` or
  `Fail` of the rounds (the `...Move` lemmas), and `ExcusedGrows` holds of every
  step. `NobodyForgotten` is inductive with `Inv` and `AnswersOK`: a first start finds
  an AID that nobody waits for, and a re-signal reaches whoever answers the ping.
- **AgentManagerProofs**: `TypeCorrect`, `RepliesFindAgents` (`ReplyFindsAgent`),
  `NobodyDisplaced` (`NoOverwrite`), `ConsoleExactHere` (`ConsoleExactOtherwise`).
  For replies the strengthening says that a
  thread between creation and registration has an instance of its own
  (`OwnInstance`); that an instance whose `init` runs is in the cache or was
  taken out (`InitRegistered`), and so is one that awaits an answer
  (`AwaitingRegistered`). This is the argument behind the comment in `initAgent`:
  the put comes before the `init`. `Displacing` says that two calls on an AID
  that never overlapped are one at a time (`OneCaller`), and that such a call
  has emptied the entry before it puts (`EmptyFirst`). `RowsOK` says what row and
  entry of its AID such a call finds at each statement (`Expected`): the row still
  shows what is registered up to the removal, is gone from there to the put, and
  comes back with `logAdd`. An event that gets lost spoils its AID
  (`EventShown`), and a page that is opened anew every AID.
- **ExecutionControlProofs**: `TypeCorrect`, `ControlWaitsForRegistered`,
  `ControlNeverStalls`, `AlwaysAttended` (`Attended`), `AgentsInStep`
  (`Lockstep`), `RoundsImplemented` (`ImplementsRounds`), `WaitsForTheBusy`
  (`NobodyForgotten`). The first two are inductive with types (`ControlOK`), also
  under node failures. `Attended` (`TimersOK`) follows since the only steps that
  take a timeout, a task or a report away, for the current cycle, are those that
  arm the next one, or a node failure, which causes a report. `Lockstep` needs
  `LockstepInv`: a cycle is handed out once (`HandedOutOnce`), and an agent in
  its first instance is unknown to the bean or at one definite place of its cycle
  (`AgentOK`): about to be told, performing, done, or asleep. The refinement adds
  `RoundsOK`: nobody performs a cycle that is still to come, the bean does not know
  an agent that sleeps, and only an abandoned agent leaves an instance behind that
  may finish in its name. For `NobodyForgotten` the invariant speaks of `pending`
  and `registered` too (`Served`): whoever the next cycle will be given to is
  up, and who is waited for performs the cycle, has it on its way, or is in
  `missed` for it.
- **UserEnvironmentProofs**: `TypeCorrect`, `NoPerceptMissed` (`NothingMissed`),
  `OnlyOvertakenAreStale` (`StaleOnlyIfOvertaken`). `Typed` says what is left of
  a method at each of its statements; `Informed`, that an agent has, or is about
  to be given, what it was read; `ListsOK`, that a list is personal to one agent or
  not yet put; `AnnouncedOK`, that between a mark and the change it announces an
  agent is up to date only if it was given its percepts in between; `Latest`, that
  an up-to-date agent that nobody is about to mark has the present lists. `NoPerceptMissed` is about the common list of
  percepts and about announcing its changes, `OnlyOvertakenAreStale` about what an
  agent has of both lists.
- **GraphEventsProofs**: `TypeCorrect`, `WakeupsNotMissed` (`NoMissedWakeup`), `EventsInOrder`
  (`OnceInOrder`), `EventsNotLost` (`NothingLost`), `StreamImplemented`
  (`ImplementsStream`). For wake-ups, `PauseEnds` says that while the graph is
  paused some writer is within its list and will resume. For the others,
  `StreamInv` says that the list and the batch are consecutive event numbers up to
  `emitted`, `DeliveredOK` that what an observer has is increasing and below what
  is still to come to it, `LostInv` adds the histories. The refinement maps every
  step to one of `EventStream` or to a stutter from `StreamInv` alone. That event
  numbers stay below the bound (`TypeCorrect`) takes `Room`: the writers still about
  to queue one are counted, for which there have to be finitely many.
- **ContractNetProofs**: `TypeCorrect`, `OneWinner` (`NoMixedAnswers`), `OneWorker`
  (`OneAtATime`), `OneSuccess` (`SuccessOnce`), `SomebodyHasIt` (`TaskInHand`), for
  any number of participants.
  The strengthening says that a participant proposes once and is given the task
  once (`Fresh`), that there is no award while the status is 0 and no further one
  by counting proposals afterwards (`BeforeAward`), that the task of a participant
  is one message at a time (`OneToken`), and that who has it is `bestProposal`
  with status 2 (`InStep`). The small instance alone would not do: without the
  condition on `late`, `NoMixedAnswers` holds for four participants and fails
  for five. `TaskInHand` adds that without faults no failure is reported and no
  participant is the best proposal once the task is done (`AtTask`), and that after
  the deadline no count of proposals comes to a choice, unless the deadline itself
  was lost (`NotOverlooked`).
- **AntColonyProofs**: `TypeCorrect`, `BestTourWeighsItsEdges` (`BestIsTour`),
  `BestIsShortest` (`BestOfReported`),
  `AntsGoOn` (`LinesGoOn`), `PheromoneOnEveryEdge` (`EveryEdgeOnce`), on maps of
  any size. `Onwards` says which message an ant has in which phase; `Kept`, that
  while the map listens and nothing is lost the least weight reported is known to
  it or in a report under way; `Walked`, that the tour an ant still has is a
  prefix of the one it reported, and that what the map has handled of its updates,
  with the one on its way (`Posted`), is the rest, reversed, as long as the map
  listens and lost none of them (`Heard`). For `BestIsTour`,
  `Measured` says that an ant's weight is that of the way behind it, and `WeightOf`
  is a fold over the edges: `NatMinimum` and `SmallestSubset` stand in for an
  induction, `SumExists`, `SumUnique` and `SumTakes` say that the fold is the one sum
  from which any summand may be taken first, and `WeightOfLonger` that a way that
  grows by a node grows by the weight of that edge.
- **RadigostProofs**: `TypeCorrect`, `NothingLostMeanwhile`
  (`NotLostWhileSettled`), `HandledOncePerReceiver` (`OncePerReceiver`).
  `SessionsOK` and `RunningOK` say that a session belongs to a platform of that
  host, and an entry of `running` to a worker of that platform and name. The
  second theorem looks at each step that takes a message out of a place and shows
  that it puts it into the next one. The third needs `InOnePlace`: a message with
  one client-side receiver is in one place at a time (the sender's outbox, the
  queue, one frame, one inbox) or handled; the lemmas on appending to and taking from
  families of sequences (`Once`, `NoMore`) carry it.

Only model-checked: the five liveness properties (`SuperstepsGoOn`,
`CyclesGoOnOtherwise`, `AllDispatched`, `TaskDone`, `SearchEnds`), since the prover
does not handle fairness and `ENABLED`. Their safety side is proved:
`NobodyForgotten` with `TimerArmed` and `Attended`, `NoMissedWakeup`, `TaskInHand`
and `LinesGoOn` say that in every state somebody is still to take the next step.

## 5. Findings

1. `agents_stop_self`: an agent that stops itself in `init` stays on the console's
   list (`AgentManagerBean.java:95`).
2. `control_failure`: after a node failure a Jason application waits for the dead
   agents for ever (`ECViewListener.java:47`, `ExecutionControlBean.java:170`).
3. `environment_stale`: `removePercept` marks the agents before it removes, and an
   agent that asks in between keeps the old percept (`UserEnvironment.java:178`).
4. `cnet_skipped`: after a failed task the best remaining proposal is dropped, and
   when it was the only one the status says for ever that a response is awaited
   (`Initiator.java:122`).

Met on the way and listed as hazards: `startServerAgent` by name drops the
caller's replace flag (`AgentManagerBean.java:117`); two writers of one DNARS
graph can block each other; a timeout of the barrier that signals agents twice,
because they are merely slow or because `buildSuperstepMsg` ignores its receivers
(`BarrierBean.java:114`), breaks the synchrony; a message to several browser agents is
handled several times by each; a closed page keeps its host's session. The call of
`xjaf.post` is described above, under Radigost.

## 6. What is left out, and the plan

Left out of the modules above: message bodies and texts, logging, the access
timeouts of beans, heartbeats (disabled in `XjafAgent`), the asynchronous mode and
user-defined execution controls of Jason, repeated calls of one contract net
initiator, the feedback of actions, the lookup of the barrier, several console
pages at once (`LoggerUtil` keeps a list of sessions), pheromone levels,
interceptors and saved state of browser agents, several server nodes with browser
agents.

**Not modelled.** The particle swarm, because no behaviour beyond its start is
reachable (above); the DNARS web agents, the starter and the console, which are
I/O; the executor service beyond its tasks; vendored code. Most of the
repository's JavaScript is a vendored `angular.js`, about 29000 of 30000 lines;
what is the project's own there, `radigost.service.js`, `xjaf.service.js`, `agent.js`, the
example agents and the controllers that start them, is what `Radigost` and the
console part of `AgentManager` model. The agents and services themselves are Java
and Scala.

In this order, next:

1. `Blackboard`: events, triggers, the delayed choice, estimates of two events with
   one name; that an estimate is accepted once and for its own event.
2. `BarrierLookup`: `BarrierManager` over `AgentManager`'s start, two nodes.
3. Jason actions with their feedback; repeated calls of the contract net, a
   restart of the participants.
4. DNARS: truth functions over bounded rationals against their definitions;
   statements and compound terms; one step of forward inference; uniqueness of a
   statement under revision.
5. The node selectors with their 32-bit counter.

Theorems next: those of the modules above, and for the agent manager an abstract
registry (an AID has one agent at a time) that it implements where no two calls on
the AID overlap.
