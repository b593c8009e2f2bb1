-------------------------- MODULE ExecutionControl ---------------------------
(***************************************************************************)
(* Synchronous execution of Jason agents: ExecutionControlBean (one bean,  *)
(* its methods run one at a time, @Lock(WRITE)) hands out reasoning cycles *)
(* to JasonEEAgents and counts them back in.  Between the two are the      *)
(* executor task that posts the cycle messages and arms the timeout, the   *)
(* messages, the timer service and the cluster view listener.              *)
(*                                                                         *)
(* The user's execution control is absent or the default one, which has    *)
(* the bean go on with the next cycle as the bean itself would.            *)
(***************************************************************************)
EXTENDS Naturals, FiniteSets

CONSTANTS
  Agents,      \* the AIDs of the agents of one Jason application
  MaxCycle,    \* bound: reasoning cycles explored
  MaxStarts,   \* bound: how often an AID is started
  MaxViews,    \* bound: changes of the cluster view
  MaxLosses,   \* bound: ReasoningCycleMessages that fail to be sent
  MayStop,     \* TRUE: agents may be stopped through the agent manager
  MayCrash     \* TRUE: a view change may take agents, timers and tasks along

ASSUME BoundsNat == MaxCycle \in Nat /\ MaxStarts \in Nat /\ MaxViews \in Nat
                     /\ MaxLosses \in Nat
ASSUME FlagsBoolean == MayStop \in BOOLEAN /\ MayCrash \in BOOLEAN

Cycles == 0..MaxCycle
None == MaxCycle + 1    \* performing no cycle

\* What executes informAllAgsToPerformCycle.
Tasks == [cycle : Cycles, to : SUBSET Agents, posted : BOOLEAN]

VARIABLES
  cycleNum,    \* ExecutionControlBean.cycleNum
  registered,  \* ExecutionControlBean.registered
  running,     \* ExecutionControlBean.running
  pending,     \* ExecutionControlBean.pending
  tasks,       \* executor tasks: still to post a cycle, still to arm its timeout
  timers,      \* pending timeouts of ECTimerServiceImpl, by cycle number
  views,       \* view changes that ECViewListener has not reported yet
  inbox,       \* ReasoningCycleMessages on their way to an agent
  alive,       \* agents registered with the agent manager
  sleeping,    \* JasonEEAgent.sleeping
  doing,       \* the cycle an agent is performing, or None
  slept,       \* agents that fell asleep in the cycle they are performing
  leftover,    \* the cycle that a stopped instance of an agent still performs
  starts,      \* how often an AID was started (bounded by MaxStarts)
  abandoned,   \* history: agents stopped, or lost with a node or their cycle was
  viewChanges, \* view changes so far (bounded by MaxViews)
  missed       \* history: the cycles that could not be sent to an agent

controlVars == <<cycleNum, registered, running, pending>>
agentVars == <<alive, sleeping, doing, slept, leftover, starts, abandoned>>
vars == <<controlVars, tasks, timers, views, inbox, agentVars, viewChanges, missed>>

\* Right after init, which arms the first timeout.
Init ==
  /\ cycleNum = 0
  /\ registered = {}
  /\ running = {}
  /\ pending = {}
  /\ tasks = {}
  /\ timers = [n \in Cycles |-> IF n = 0 THEN 1 ELSE 0]
  /\ views = 0
  /\ inbox = [a \in Agents |-> {}]
  /\ alive = {}
  /\ sleeping = [a \in Agents |-> TRUE]
  /\ doing = [a \in Agents |-> None]
  /\ slept = {}
  /\ leftover = [a \in Agents |-> None]
  /\ starts = [a \in Agents |-> 0]
  /\ abandoned = {}
  /\ viewChanges = 0
  /\ missed = [a \in Agents |-> {}]

-----------------------------------------------------------------------------
(* ExecutionControlBean *)

\* Mutant: the agents that are still busy are not waited for.
MutCanProceed(reg, pen, run) == reg \union pen # {}

\* Mutant: the agents in pending do not count.
MutOnlyRegistered(reg, pen, run) == reg # {} /\ run = {}

CanProceed(reg, pen, run) == reg \union pen # {} /\ run = {}

\* Mutant: the agents in pending are only put to work, not registered.
MutInformAll(reg, pen) ==
  /\ cycleNum < MaxCycle
  /\ cycleNum' = cycleNum + 1
  /\ registered' = reg
  /\ pending' = {}
  /\ running' = reg \union pen
  /\ tasks' = tasks \union {[cycle |-> cycleNum + 1, to |-> reg \union pen, posted |-> FALSE]}

\* Mutant: the message is made before pending joins registered.
MutInformRegistered(reg, pen) ==
  /\ cycleNum < MaxCycle
  /\ cycleNum' = cycleNum + 1
  /\ registered' = reg \union pen
  /\ pending' = {}
  /\ running' = reg \union pen
  /\ tasks' = tasks \union {[cycle |-> cycleNum + 1, to |-> reg, posted |-> FALSE]}

\* Mutant: the number is incremented once more when the message is made.
MutWrongNumber(reg, pen) ==
  /\ cycleNum < MaxCycle
  /\ cycleNum' = cycleNum + 1
  /\ registered' = reg \union pen
  /\ pending' = {}
  /\ running' = reg \union pen
  /\ tasks' = tasks \union {[cycle |-> cycleNum + 2, to |-> reg \union pen, posted |-> FALSE]}

\* informAllAgsToPerformCycle(cycleNum + 1); the first conjunct is the bound.
InformAll(reg, pen) ==
  /\ cycleNum < MaxCycle
  /\ cycleNum' = cycleNum + 1
  /\ registered' = reg \union pen
  /\ pending' = {}
  /\ running' = reg \union pen
  /\ tasks' = tasks \union {[cycle |-> cycleNum + 1, to |-> reg \union pen, posted |-> FALSE]}

NextCycleIfPossible(reg, pen, run) ==
  \/ CanProceed(reg, pen, run) /\ InformAll(reg, pen)
  \/ /\ ~CanProceed(reg, pen, run)
     /\ registered' = reg
     /\ pending' = pen
     /\ running' = run
     /\ UNCHANGED <<cycleNum, tasks>>

AddAgent(a) == NextCycleIfPossible(registered, pending \union {a}, running)

RemoveAgent(a) ==
  \/ /\ a \in running
     /\ NextCycleIfPossible(registered \ {a}, pending \ {a}, running \ {a})
  \/ /\ a \notin running
     /\ registered' = registered \ {a}
     /\ pending' = pending \ {a}
     /\ UNCHANGED <<running, cycleNum, tasks>>

\* The cycle number that comes with the call is not looked at.
AgentCycleFinished(a) == NextCycleIfPossible(registered, pending, running \ {a})

\* ECTimerServiceImpl: a timeout that is armed, and one that has expired.
Scheduled(n) == [timers EXCEPT ![n] = @ + 1]
Expired(n) == [timers EXCEPT ![n] = @ - 1]

\* The timeout.  filterUnavailableAgents does nothing.  Where
\* no cycle can be started, the timeout that has just expired is armed again.
OnTimeout(n) ==
  /\ timers[n] > 0
  /\ \/ /\ n # cycleNum
        /\ timers' = Expired(n)
        /\ UNCHANGED controlVars /\ UNCHANGED tasks
     \/ /\ n = cycleNum
        /\ NextCycleIfPossible(registered, pending, running)
        /\ timers' = IF CanProceed(registered, pending, running)
                     THEN Expired(n)
                     ELSE timers
  /\ UNCHANGED <<views, inbox, agentVars, viewChanges, missed>>

\* Mutant: the view listener does not arm a timeout again.
MutViewReported ==
  /\ views > 0
  /\ views' = views - 1
  /\ UNCHANGED <<controlVars, tasks, timers, inbox, agentVars, viewChanges, missed>>

\* ECViewListener.viewChanged calls onTimeout(-1).
ViewReported ==
  /\ views > 0
  /\ views' = views - 1
  /\ NextCycleIfPossible(registered, pending, running)
  /\ timers' = IF CanProceed(registered, pending, running)
               THEN timers
               ELSE Scheduled(cycleNum)
  /\ UNCHANGED <<inbox, agentVars, viewChanges, missed>>

Losses == Cardinality({p \in Agents \X Cycles : p[2] \in missed[p[1]]})

\* Cycle n is put into the box of every agent of ags.
SentTo(box, ags, n) == [a \in Agents |-> IF a \in ags THEN box[a] \union {n} ELSE box[a]]

\* The task's two statements; the timeout is armed for the cycle that is
\* current by then.  MessageManagerBean sends to each receiver on its own and
\* only logs it when that fails: whoever is in unsent never hears of the cycle.
PostCycle(k) ==
  /\ k \in tasks /\ ~k.posted
  /\ \E unsent \in SUBSET k.to :
       /\ Losses + Cardinality(unsent) <= MaxLosses
       /\ inbox' = SentTo(inbox, k.to \ unsent, k.cycle)
       /\ missed' = SentTo(missed, unsent, k.cycle)
  /\ tasks' = (tasks \ {k}) \union {[k EXCEPT !.posted = TRUE]}
  /\ UNCHANGED <<controlVars, timers, views, agentVars, viewChanges>>

ArmTimeout(k) ==
  /\ k \in tasks /\ k.posted
  /\ timers' = Scheduled(cycleNum)
  /\ tasks' = tasks \ {k}
  /\ UNCHANGED <<controlVars, views, inbox, agentVars, viewChanges, missed>>

-----------------------------------------------------------------------------
(* JasonEEAgent, in synchronous mode *)

\* wakeUp(): a sleeping agent adds itself to the execution control.
WakeUp(a) ==
  /\ sleeping' = [sleeping EXCEPT ![a] = FALSE]
  /\ \/ sleeping[a] /\ AddAgent(a)
     \/ ~sleeping[a] /\ UNCHANGED <<controlVars, tasks>>

\* What a stopped instance is in the middle of, it carries on with.
LeaveBehind(a) ==
  /\ leftover[a] = None \/ doing[a] = None
  /\ leftover' = [leftover EXCEPT ![a] = IF doing[a] = None THEN @ ELSE doing[a]]
  /\ doing' = [doing EXCEPT ![a] = None]
  /\ slept' = IF doing[a] = None THEN slept ELSE slept \ {a}

\* The agent manager starts the agent; its onInit wakes it up.
StartAgent(a) ==
  /\ a \notin alive
  /\ starts[a] < MaxStarts
  /\ starts' = [starts EXCEPT ![a] = @ + 1]
  /\ alive' = alive \union {a}
  /\ sleeping' = [sleeping EXCEPT ![a] = FALSE]
  /\ AddAgent(a)
  /\ UNCHANGED <<timers, views, inbox, doing, slept, leftover, abandoned, viewChanges, missed>>

\* AgentManager.stopAgent, also when the agent stops itself (JasonEEAgArch):
\* nothing tells the execution control.
StopAgent(a) ==
  /\ MayStop
  /\ a \in alive
  /\ alive' = alive \ {a}
  /\ LeaveBehind(a)
  /\ abandoned' = abandoned \union {a}
  /\ UNCHANGED <<controlVars, tasks, timers, views, inbox, sleeping, starts, viewChanges, missed>>

\* Agent.stop(): onTerminate removes the agent from the execution control.
\* The call waits for the one in progress.
TerminateAgent(a) ==
  /\ a \in alive
  /\ doing[a] = None
  /\ alive' = alive \ {a}
  /\ RemoveAgent(a)
  /\ UNCHANGED <<timers, views, inbox, sleeping, doing, slept, leftover, starts, abandoned, viewChanges, missed>>

\* A ReasoningCycleMessage is delivered, or dropped by MDBConsumer.
PerformCycle(a, n) ==
  /\ n \in inbox[a]
  /\ inbox' = [inbox EXCEPT ![a] = @ \ {n}]
  /\ \/ /\ a \in alive
        /\ doing[a] = None
        /\ WakeUp(a)
        /\ doing' = [doing EXCEPT ![a] = n]
     \/ /\ a \notin alive
        /\ UNCHANGED <<controlVars, tasks, sleeping, doing>>
  /\ UNCHANGED <<timers, views, alive, slept, leftover, starts, abandoned, viewChanges, missed>>

\* Any other message, also one that says the environment changed.
OtherMessage(a) ==
  /\ a \in alive
  /\ doing[a] = None
  /\ sleeping[a]
  /\ WakeUp(a)
  /\ UNCHANGED <<timers, views, inbox, alive, doing, slept, leftover, starts, abandoned, viewChanges, missed>>

\* The reasoning cycle finds nothing to do: sleep().
Sleep(a) ==
  /\ doing[a] # None
  /\ ~sleeping[a]
  /\ sleeping' = [sleeping EXCEPT ![a] = TRUE]
  /\ slept' = slept \union {a}
  /\ RemoveAgent(a)
  /\ UNCHANGED <<timers, views, inbox, alive, doing, leftover, starts, abandoned, viewChanges, missed>>

FinishCycle(a) ==
  /\ doing[a] # None
  /\ AgentCycleFinished(a)
  /\ doing' = [doing EXCEPT ![a] = None]
  /\ slept' = slept \ {a}
  /\ UNCHANGED <<timers, views, inbox, alive, sleeping, leftover, starts, abandoned, viewChanges, missed>>

\* The same two calls from an instance that was stopped in its cycle.
LeftoverSleep(a) ==
  /\ leftover[a] # None
  /\ RemoveAgent(a)
  /\ UNCHANGED <<timers, views, inbox, agentVars, viewChanges, missed>>

LeftoverFinish(a) ==
  /\ leftover[a] # None
  /\ AgentCycleFinished(a)
  /\ leftover' = [leftover EXCEPT ![a] = None]
  /\ UNCHANGED <<timers, views, inbox, alive, sleeping, doing, slept, starts, abandoned, viewChanges, missed>>

-----------------------------------------------------------------------------
(* The cluster *)

\* A node joins, or one fails with some agents, timers (they are not
\* persistent) and executor tasks.
ViewChange(dead, lostTasks) ==
  /\ viewChanges < MaxViews
  /\ viewChanges' = viewChanges + 1
  /\ views' = views + 1
  /\ alive' = alive \ dead
  /\ doing' = [a \in Agents |-> IF a \in dead THEN None ELSE doing[a]]
  /\ slept' = slept \ dead
  /\ tasks' = tasks \ lostTasks
  /\ abandoned' = abandoned \union dead \union UNION {k.to : k \in lostTasks}
  /\ \/ UNCHANGED timers
     \/ MayCrash /\ timers' = [n \in Cycles |-> 0]
  /\ UNCHANGED <<controlVars, inbox, sleeping, leftover, starts, missed>>

NodeJoins == ViewChange({}, {})

NodeFails ==
  /\ MayCrash
  /\ \E dead \in SUBSET alive, lostTasks \in SUBSET tasks : ViewChange(dead, lostTasks)

-----------------------------------------------------------------------------
AgentStep(a) ==
  \/ StartAgent(a) \/ StopAgent(a) \/ TerminateAgent(a)
  \/ OtherMessage(a) \/ Sleep(a) \/ FinishCycle(a)
  \/ LeftoverSleep(a) \/ LeftoverFinish(a)

Next ==
  \/ \E n \in Cycles : OnTimeout(n)
  \/ ViewReported
  \/ \E k \in tasks : PostCycle(k) \/ ArmTimeout(k)
  \/ \E a \in Agents : AgentStep(a)
  \/ \E a \in Agents, n \in Cycles : PerformCycle(a, n)
  \/ NodeJoins
  \/ NodeFails

Spec == Init /\ [][Next]_vars

\* The executor runs its tasks, the queue delivers to each agent in its turn,
\* and a reasoning cycle ends.
WorkFairness ==
  /\ WF_vars(\E k \in tasks : PostCycle(k) \/ ArmTimeout(k))
  /\ \A a \in Agents :
       /\ WF_vars(\E n \in Cycles : PerformCycle(a, n))
       /\ WF_vars(FinishCycle(a))

WorkSpec == Spec /\ WorkFairness

\* The timers expire, the listener is called, and a stopped instance ends the
\* cycle it was in.
WatchFairness ==
  /\ \A n \in Cycles : WF_vars(OnTimeout(n))
  /\ WF_vars(ViewReported)
  /\ \A a \in Agents : WF_vars(LeftoverFinish(a))

FairSpec == WorkSpec /\ WatchFairness

-----------------------------------------------------------------------------
(* Properties *)

\* The bean's fields, the messages and the agents keep their types.
TypeOK ==
  /\ cycleNum \in Cycles
  /\ registered \subseteq Agents
  /\ running \subseteq Agents
  /\ pending \subseteq Agents
  /\ tasks \subseteq Tasks
  /\ timers \in [Cycles -> Nat]
  /\ views \in Nat
  /\ inbox \in [Agents -> SUBSET Cycles]
  /\ alive \subseteq Agents
  /\ sleeping \in [Agents -> BOOLEAN]
  /\ doing \in [Agents -> Cycles \union {None}]
  /\ slept \subseteq Agents
  /\ leftover \in [Agents -> Cycles \union {None}]
  /\ starts \in [Agents -> Nat]
  /\ abandoned \subseteq Agents
  /\ viewChanges \in Nat
  /\ missed \in [Agents -> SUBSET Cycles]

\* Only registered agents are waited for, also after agents went to sleep or
\* were terminated in the middle of a cycle (removeAgent).
WaitsForRegistered == running \subseteq registered

\* An execution control that has agents is waiting for one of them: agents
\* that come in the middle of a cycle wait in pending, and whoever leaves or
\* finishes last starts the next cycle (nextCycleIfPossible).
NeverStalls == registered \union pending # {} => running # {}

\* Agent a performs a cycle, or the current one is on its way to it.
AtWork(a) ==
  \/ doing[a] # None
  \/ cycleNum \in inbox[a]
  \/ \E k \in tasks : ~k.posted /\ k.cycle = cycleNum /\ a \in k.to

\* Nobody is waited for in vain: an agent in running is up, and it performs a
\* cycle or has the current one on its way, unless it was stopped or lost or the
\* cycle could not be sent to it, however agents sleep, wake, leave and return
\* and whatever failed before (informAllAgsToPerformCycle, addAgent, removeAgent).
NobodyForgotten ==
  \A a \in running \ abandoned : a \in alive /\ (AtWork(a) \/ cycleNum \in missed[a])

\* There is always a timeout armed for the current cycle, or something under
\* way that will arm one: an executor task, or a report of a view change.
Attended == timers[cycleNum] > 0 \/ tasks # {} \/ views > 0

\* The agents reason in step: an agent that was started once and is awake in a
\* cycle performs the current one, and the next cycle does not start before it
\* is finished, whichever nodes fail (agentCycleFinished, onTimeout).
Lockstep ==
  \A a \in Agents : starts[a] = 1 /\ doing[a] # None /\ a \notin slept =>
     doing[a] = cycleNum /\ a \in running

\* Those whom the control cannot hear of: agents that were stopped or lost, and
\* ones that the current cycle could not be sent to.
OutOfReach == abandoned \union {a \in Agents : cycleNum \in missed[a]}

\* The cycles go on, up to the bound, as long as there is an agent, unless the
\* control waits for one that was stopped or lost, or that the current cycle
\* could not be sent to (nextCycleIfPossible).  The timeouts are not needed.
CyclesGoOnOtherwise ==
  \A n \in 0..(MaxCycle - 1) :
    cycleNum = n /\ registered \union pending # {}
      ~> \/ cycleNum > n
         \/ registered \union pending = {}
         \/ running \intersect OutOfReach # {}

\* The same without that exception, as ECViewListener has it: it is to
\* kick-start the execution control when a node fails.
CyclesGoOn ==
  \A n \in 0..(MaxCycle - 1) :
    cycleNum = n /\ registered \union pending # {}
      ~> cycleNum > n \/ registered \union pending = {}

-----------------------------------------------------------------------------
(* The reasoning cycles as rounds *)

\* The agents in running that perform the current cycle.
Performing == {a \in running : doing[a] = cycleNum}

\* Agents that may be let go without the cycle: ones that were stopped or lost,
\* or whose cycle was, and ones that were started again.
Excused == abandoned \union {a \in Agents : starts[a] > 1}

RoundsOf == INSTANCE Rounds WITH
  Workers <- Agents,
  round <- cycleNum,
  members <- registered \union pending,
  team <- running,
  worked <- Performing,
  excused <- Excused

\* The bean hands out the cycles in rounds, whatever is stopped, lost or
\* started again: who joins in the middle of a cycle waits in pending, and is
\* told of the next cycle, which starts at once when the last of running has
\* finished, fallen asleep or been terminated (addAgent, removeAgent,
\* agentCycleFinished).  A finished cycle is the current one.
ImplementsRounds == RoundsOf!Spec
=============================================================================
