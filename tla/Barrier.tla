------------------------------- MODULE Barrier -------------------------------
(***************************************************************************)
(* The BSP barrier of Siebog: BarrierBean (a stateful agent whose handlers *)
(* run one at a time, @Lock(WRITE)), the BSPAgents it synchronises, and    *)
(* the JMS messages and delayed self-messages ("timeouts") between them.   *)
(*                                                                         *)
(* Messages in flight are counts per content, because a re-signal after a  *)
(* timeout really puts a second copy of the same message into the queue.   *)
(* Delivery is unordered: the grouping that would order it is not set up   *)
(* for a cluster (see the TODO in MessageManagerBean.setupJmsMsg).         *)
(***************************************************************************)
EXTENDS Naturals, FiniteSets

CONSTANTS
  Agents,        \* the AIDs of BSP agents
  MaxSuperstep,  \* bound: supersteps explored
  MaxCopies,     \* bound: copies of one message in flight
  MaxStarts,     \* bound: how often one AID is (re)started
  MaxLosses,     \* bound: failed sends (postToReceiver swallows them)
  Lossy          \* kinds of messages whose send may fail

MessageKinds == {"subscribe", "cancel", "inform", "superstep", "timeout"}

ASSUME AgentsFinite == IsFiniteSet(Agents)
ASSUME BoundsNat == /\ MaxSuperstep \in Nat
                    /\ MaxCopies \in Nat
                    /\ MaxStarts \in Nat
                    /\ MaxLosses \in Nat
ASSUME LossyKinds == Lossy \subseteq MessageKinds

Supersteps == 0..MaxSuperstep

VARIABLES
  superstep,    \* BarrierBean.superstep
  registered,   \* BarrierBean.registered
  processing,   \* BarrierBean.processing
  subscribes,   \* SUBSCRIBE(a) messages on their way to the barrier
  cancels,      \* CANCEL(a) messages on their way to the barrier
  informs,      \* INFORM(a) messages on their way to the barrier
  timers,       \* delayed REQUEST(s) messages of the barrier to itself
  signals,      \* INFORM(s) messages on their way to agent a
  alive,        \* agents that answer a ping
  performed,    \* history: <<a, s>> such that agent a executed superstep s
  starts,       \* how often an AID was started (bounded by MaxStarts)
  losses,       \* failed sends so far (bounded by MaxLosses)
  twice         \* history: an agent may have been signalled twice for a superstep

barrierVars == <<superstep, registered, processing>>
inboxVars == <<subscribes, cancels, informs>>
agentVars == <<alive, performed, starts>>
vars == <<barrierVars, inboxVars, timers, signals, agentVars, losses, twice>>

Init ==
  /\ superstep = 0
  /\ registered = {}
  /\ processing = {}
  /\ subscribes = [a \in Agents |-> 0]
  /\ cancels = [a \in Agents |-> 0]
  /\ informs = [a \in Agents |-> 0]
  /\ timers = [s \in Supersteps |-> 0]
  /\ signals = [a \in Agents |-> [s \in Supersteps |-> 0]]
  /\ alive = {}
  /\ performed = {}
  /\ starts = [a \in Agents |-> 0]
  /\ losses = 0
  /\ twice = FALSE

-----------------------------------------------------------------------------
(* Messages *)

One(box, m) == [box EXCEPT ![m] = @ + 1]
Taken(box, m) == [box EXCEPT ![m] = @ - 1]

\* The superstep message s posted copies[a] times to every agent a.
Signalled(s, copies) ==
  [a \in Agents |-> [signals[a] EXCEPT ![s] = @ + copies[a]]]

\* Agent a has a signal to come, or its completion is on its way.
Underway(a) == informs[a] > 0 \/ \E s \in Supersteps : signals[a][s] > 0

-----------------------------------------------------------------------------
(* BarrierBean *)

\* Mutant: the barrier does not look at processing any more.
MutIgnoresProcessing(reg, proc) == reg # {}

\* nextSuperstepIfPossible() returns true.
NextSuperstepPossible(reg, proc) == proc = {} /\ reg # {}

\* Mutant: no timeout is scheduled for the new superstep.
MutNoTimeout(reg, tmr) ==
  /\ superstep < MaxSuperstep
  /\ superstep' = superstep + 1
  /\ processing' = reg
  /\ signals' = Signalled(superstep + 1, [a \in Agents |-> IF a \in reg THEN 1 ELSE 0])
  /\ timers' = tmr

\* Mutant: the message is built before processing is filled, so for nobody.
MutSignalsFirst(reg, tmr) ==
  /\ superstep < MaxSuperstep
  /\ superstep' = superstep + 1
  /\ processing' = reg
  /\ signals' = signals
  /\ timers' = One(tmr, superstep + 1)

\* The body of its if: everyone registered is signalled and a timeout is
\* scheduled.  The first conjunct is the exploration bound.
StartSuperstep(reg, tmr) ==
  /\ superstep < MaxSuperstep
  /\ superstep' = superstep + 1
  /\ processing' = reg
  /\ signals' = Signalled(superstep + 1, [a \in Agents |-> IF a \in reg THEN 1 ELSE 0])
  /\ timers' = One(tmr, superstep + 1)

NextSuperstepIfPossible(reg, proc) ==
  \/ /\ NextSuperstepPossible(reg, proc)
     /\ StartSuperstep(reg, timers)
  \/ /\ ~NextSuperstepPossible(reg, proc)
     /\ processing' = proc
     /\ UNCHANGED <<superstep, signals, timers>>

\* Mutant: who joins in the middle of a superstep is waited for at once.
MutJoinsAtOnce(a) ==
  /\ subscribes[a] > 0
  /\ subscribes' = Taken(subscribes, a)
  /\ registered' = registered \union {a}
  /\ NextSuperstepIfPossible(registered \union {a}, IF processing = {} THEN {} ELSE processing \union {a})
  /\ UNCHANGED <<cancels, informs, agentVars, losses, twice>>

RegisterAgent(a) ==
  /\ subscribes[a] > 0
  /\ subscribes' = Taken(subscribes, a)
  /\ registered' = registered \union {a}
  /\ NextSuperstepIfPossible(registered \union {a}, processing)
  /\ UNCHANGED <<cancels, informs, agentVars, losses, twice>>

DeregisterAgent(a) ==
  /\ cancels[a] > 0
  /\ cancels' = Taken(cancels, a)
  /\ registered' = registered \ {a}
  /\ \/ /\ a \in processing
        /\ NextSuperstepIfPossible(registered \ {a}, processing \ {a})
     \/ /\ a \notin processing
        /\ UNCHANGED <<superstep, processing, signals, timers>>
  /\ UNCHANGED <<subscribes, informs, agentVars, losses, twice>>

\* Mutant: a completion is handled that no message announced.
MutUnannounced(a) ==
  /\ informs' = Taken(informs, a)
  /\ NextSuperstepIfPossible(registered, processing \ {a})
  /\ UNCHANGED <<registered, subscribes, cancels, agentVars, losses, twice>>

\* The INFORM carries the agent's AID only, not the superstep it completed.
AgentCompletedSuperstep(a) ==
  /\ informs[a] > 0
  /\ informs' = Taken(informs, a)
  /\ NextSuperstepIfPossible(registered, processing \ {a})
  /\ UNCHANGED <<registered, subscribes, cancels, agentVars, losses, twice>>

\* Mutant: live agents are kept but not signalled again.
MutNoResignal == {[a \in Agents |-> 0]}

\* filterUnavailableAgents visits processing in hash order.  For every agent
\* that answers the ping the superstep message is posted to all agents that
\* are in processing at that moment: each live agent gets one copy per live
\* agent, a dead one as many as there are live ones visited before it.
FilterCopies ==
  LET live == processing \intersect alive
      k == Cardinality(live)
  IN  {c \in [Agents -> 0..k] : \A a \in Agents :
         /\ a \in live => c[a] = k
         /\ a \notin processing => c[a] = 0}

\* An agent that filterUnavailableAgents signals now may complete the current
\* superstep twice: it is merely slow, or it gets a copy for another one too.
SignalsTwice ==
  LET live == processing \intersect alive
  IN  Cardinality(live) > 1 \/ \E a \in live : Underway(a)

\* An expired timeout of an earlier superstep is ignored; one of the current
\* superstep filters the dead agents and starts the next superstep or
\* schedules itself again.
OnTimeout(s) ==
  /\ timers[s] > 0
  /\ twice' = (twice \/ (s = superstep /\ SignalsTwice))
  /\ UNCHANGED <<registered, inboxVars, agentVars, losses>>
  /\ \/ /\ s # superstep
        /\ timers' = Taken(timers, s)
        /\ UNCHANGED <<superstep, processing, signals>>
     \/ /\ s = superstep
        /\ NextSuperstepPossible(registered, processing \intersect alive)
        /\ StartSuperstep(registered, Taken(timers, s))
     \/ /\ s = superstep
        /\ ~NextSuperstepPossible(registered, processing \intersect alive)
        /\ processing' = processing \intersect alive
        /\ \E c \in FilterCopies :
             /\ \A a \in Agents : signals[a][s] + c[a] <= MaxCopies
             /\ signals' = Signalled(s, c)
        /\ UNCHANGED <<superstep, timers>>  \* one taken, one scheduled

-----------------------------------------------------------------------------
(* BSPAgent, through BarrierManager *)

Register(a) ==
  /\ subscribes[a] < MaxCopies
  /\ subscribes' = One(subscribes, a)

Deregister(a) ==
  /\ cancels[a] < MaxCopies
  /\ cancels' = One(cancels, a)

ReportCompleted(a) ==
  /\ informs[a] < MaxCopies
  /\ informs' = One(informs, a)

\* AgentManager starts (or replaces) the agent; onInit subscribes it.
StartAgent(a) ==
  /\ starts[a] < MaxStarts
  /\ starts' = One(starts, a)
  /\ alive' = alive \union {a}
  /\ Register(a)
  /\ UNCHANGED <<barrierVars, cancels, informs, timers, signals, performed, losses, twice>>

\* AgentManager.stopAgent drops the agent without calling its stop().
StopAgent(a) ==
  /\ a \in alive
  /\ alive' = alive \ {a}
  /\ UNCHANGED <<barrierVars, inboxVars, timers, signals, performed, starts, losses, twice>>

\* Agent.stop() itself: onTerminate deregisters and the bean is removed.
TerminateAgent(a) ==
  /\ a \in alive
  /\ alive' = alive \ {a}
  /\ Deregister(a)
  /\ UNCHANGED <<barrierVars, subscribes, informs, timers, signals, performed, starts, losses, twice>>

\* BSPAgent.onMessage, or MDBConsumer finding no such agent.
DeliverSuperstep(a, s) ==
  /\ signals[a][s] > 0
  /\ signals' = [signals EXCEPT ![a] = Taken(@, s)]
  /\ \/ /\ a \in alive
        /\ performed' = performed \union {<<a, s>>}
        /\ ReportCompleted(a)
     \/ /\ a \notin alive
        /\ UNCHANGED <<performed, informs>>
  /\ UNCHANGED <<barrierVars, subscribes, cancels, timers, alive, starts, losses, twice>>

-----------------------------------------------------------------------------
(* A send that fails is logged and forgotten (postToReceiver). *)

Lose(kind) ==
  /\ kind \in Lossy
  /\ losses < MaxLosses
  /\ losses' = losses + 1
  /\ UNCHANGED <<barrierVars, agentVars, twice>>

LoseSubscribe(a) ==
  /\ subscribes[a] > 0
  /\ Lose("subscribe")
  /\ subscribes' = Taken(subscribes, a)
  /\ UNCHANGED <<cancels, informs, timers, signals>>

LoseCancel(a) ==
  /\ cancels[a] > 0
  /\ Lose("cancel")
  /\ cancels' = Taken(cancels, a)
  /\ UNCHANGED <<subscribes, informs, timers, signals>>

LoseInform(a) ==
  /\ informs[a] > 0
  /\ Lose("inform")
  /\ informs' = Taken(informs, a)
  /\ UNCHANGED <<subscribes, cancels, timers, signals>>

LoseSuperstep(a, s) ==
  /\ signals[a][s] > 0
  /\ Lose("superstep")
  /\ signals' = [signals EXCEPT ![a] = Taken(@, s)]
  /\ UNCHANGED <<inboxVars, timers>>

LoseTimeout(s) ==
  /\ timers[s] > 0
  /\ Lose("timeout")
  /\ timers' = Taken(timers, s)
  /\ UNCHANGED <<inboxVars, signals>>

-----------------------------------------------------------------------------
BarrierStep(a) ==
  \/ RegisterAgent(a)
  \/ DeregisterAgent(a)
  \/ AgentCompletedSuperstep(a)

AgentStep(a) == StartAgent(a) \/ StopAgent(a) \/ TerminateAgent(a)

Next ==
  \/ \E a \in Agents : BarrierStep(a)
  \/ \E s \in Supersteps : OnTimeout(s)
  \/ \E a \in Agents : AgentStep(a)
  \/ \E a \in Agents, s \in Supersteps : DeliverSuperstep(a, s)
  \/ \E a \in Agents : LoseSubscribe(a) \/ LoseCancel(a) \/ LoseInform(a)
  \/ \E a \in Agents, s \in Supersteps : LoseSuperstep(a, s)
  \/ \E s \in Supersteps : LoseTimeout(s)

Spec == Init /\ [][Next]_vars

\* The message server delivers what is in the queue and what is scheduled.
Fairness ==
  /\ \A a \in Agents : /\ WF_vars(RegisterAgent(a))
                       /\ WF_vars(DeregisterAgent(a))
                       /\ WF_vars(AgentCompletedSuperstep(a))
  /\ \A s \in Supersteps : WF_vars(OnTimeout(s))
  /\ \A a \in Agents, s \in Supersteps : WF_vars(DeliverSuperstep(a, s))

FairSpec == Spec /\ Fairness

-----------------------------------------------------------------------------
(* Properties *)

\* The fields of BarrierBean and the messages keep their types.
TypeOK ==
  /\ superstep \in Supersteps
  /\ registered \subseteq Agents
  /\ processing \subseteq Agents
  /\ subscribes \in [Agents -> Nat]
  /\ cancels \in [Agents -> Nat]
  /\ informs \in [Agents -> Nat]
  /\ timers \in [Supersteps -> Nat]
  /\ signals \in [Agents -> [Supersteps -> Nat]]
  /\ alive \subseteq Agents
  /\ performed \subseteq Agents \X Supersteps
  /\ starts \in [Agents -> Nat]
  /\ losses \in Nat
  /\ twice \in BOOLEAN

\* The barrier only waits for members: an agent that is deregistered in the
\* middle of a superstep is not waited for (deregisterAgent).
WaitsForMembersOnly == processing \subseteq registered

\* A barrier with members is always waiting for one of them.  Only a message
\* of an agent in processing, or a timeout, starts a superstep, so a barrier
\* that had members and an empty processing would have stalled.
NeverStalls == registered # {} => processing # {}

\* Nobody waits in vain for the timeout: while no send has failed, whoever the
\* barrier waits for and is up has a superstep message or its INFORM on the way,
\* however the signals, answers and re-signals overtake each other
\* (nextSuperstepIfPossible, buildSuperstepMsg).
NobodyForgotten ==
  losses = 0 => \A a \in processing : a \in alive /\ starts[a] = 1 => Underway(a)

\* The send of a timeout may have failed.
TimeoutLost == losses > 0 /\ "timeout" \in Lossy

\* From the first superstep on there is exactly one timeout for the current
\* superstep (at most one once the send of a timeout has failed), and none
\* for a later one: neither the re-scheduling in onTimeout nor the one in
\* nextSuperstepIfPossible ever arms a second one or forgets to arm one.
TimerArmed ==
  /\ \A s \in Supersteps : timers[s] <= (IF s = 0 \/ s > superstep THEN 0 ELSE 1)
  /\ superstep > 0 /\ ~TimeoutLost => timers[superstep] = 1

\* Agent a is released from the current superstep by this step.
Released(a) == a \in processing /\ (a \notin processing' \/ superstep' # superstep)

\* Bulk-synchronous execution: as long as no timeout signals an agent twice,
\* the barrier lets go of an agent only after the agent executed the current
\* superstep, or because it is dead or was deregistered
\* (agentCompletedSuperstep, filterUnavailableAgents).  Where one does, as an
\* agent is merely slow, or two agents wait for lost signals (buildSuperstepMsg
\* takes processing for its receivers), the second completion counts for the
\* next superstep, as an INFORM does not say which one it is about; so does a
\* completion, or a signal, from before the agent was started again.
SynchronousRelease ==
  [][\A a \in Agents : Released(a) =>
        \/ <<a, superstep>> \in performed
        \/ a \notin alive
        \/ a \notin registered'
        \/ starts[a] > 1
        \/ twice]_vars

\* As long as somebody is registered the supersteps go on, up to the bound,
\* whatever agents die and whatever signals and completions are lost:
\* onTimeout repairs it.  Only the loss of the timeout itself is final.
SuperstepsGoOn ==
  \A s \in 0..(MaxSuperstep - 1) :
     superstep = s /\ registered # {} ~>
       superstep > s \/ registered = {} \/ timers[superstep] = 0

-----------------------------------------------------------------------------
(* The supersteps as rounds *)

\* Agents that may be let go without the superstep: dead ones, ones that were
\* started again, and all as soon as one was signalled twice.
Excused ==
  IF twice THEN Agents
  ELSE {a \in Agents : starts[a] > 1 \/ (starts[a] = 1 /\ a \notin alive)}

\* The agents in processing that have executed the current superstep.
Executed == {a \in processing : <<a, superstep>> \in performed}

RoundsOf == INSTANCE Rounds WITH
  Workers <- Agents,
  round <- superstep,
  members <- registered,
  team <- processing,
  worked <- Executed,
  excused <- Excused

\* The barrier runs its members in rounds, whatever messages are lost, late or
\* repeated: who subscribes in the middle of a superstep is not waited for
\* before the next, which starts at once when the last of processing has
\* answered, has left or is found dead (nextSuperstepIfPossible, onTimeout).
ImplementsRounds == RoundsOf!Spec
=============================================================================
