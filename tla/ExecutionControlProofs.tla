----------------------- MODULE ExecutionControlProofs ------------------------
(* What holds of ExecutionControl for every set of agents and every bound:  *)
(* whom it waits for, that it is attended, that agents reason in step,      *)
(* that it implements Rounds and forgets nobody.                            *)
EXTENDS ExecutionControl, TLAPS

\* What a method of the bean may rely on and has to leave behind: the types
\* of its fields and of the tasks it hands to the executor, and the two
\* properties of the sets of agents.
ControlOK ==
  /\ cycleNum \in Cycles
  /\ registered \subseteq Agents /\ pending \subseteq Agents /\ running \subseteq Agents
  /\ tasks \subseteq Tasks
  /\ WaitsForRegistered
  /\ NeverStalls

\* A new cycle number comes with a task that will arm its timeout, and no
\* method of the bean takes a task away.
TasksKept == tasks \subseteq tasks' /\ (cycleNum' # cycleNum => tasks' # {})

-----------------------------------------------------------------------------
(* The methods of the bean *)

\* nextCycleIfPossible, whatever the sets it is called with, leaves a control
\* that waits for registered agents only and does not stall.
LEMMA NextCycleLeavesOK ==
  ASSUME NEW reg \in SUBSET Agents, NEW pen \in SUBSET Agents, NEW run \in SUBSET Agents,
         run \subseteq reg, cycleNum \in Cycles, tasks \subseteq Tasks,
         NextCycleIfPossible(reg, pen, run)
  PROVE  ControlOK' /\ TasksKept
<1>1. CASE CanProceed(reg, pen, run) /\ InformAll(reg, pen)
  <2>1. cycleNum' \in Cycles
    BY <1>1, BoundsNat DEF InformAll, Cycles
  <2>2. tasks' \subseteq Tasks
    <3>1. cycleNum + 1 \in Cycles
      BY <1>1, <2>1 DEF InformAll
    <3>2. [cycle |-> cycleNum + 1, to |-> reg \union pen, posted |-> FALSE] \in Tasks
      BY <3>1 DEF Tasks
    <3> QED
      BY <1>1, <3>2 DEF InformAll
  <2> QED
    BY <1>1, <2>1, <2>2 DEF CanProceed, InformAll, ControlOK, TasksKept,
                            WaitsForRegistered, NeverStalls
<1>2. CASE ~CanProceed(reg, pen, run) /\ registered' = reg /\ pending' = pen
           /\ running' = run /\ UNCHANGED <<cycleNum, tasks>>
  BY <1>2 DEF CanProceed, ControlOK, TasksKept, WaitsForRegistered, NeverStalls
<1> QED
  BY <1>1, <1>2 DEF NextCycleIfPossible

\* addAgent.
LEMMA AddAgentLeavesOK ==
  ASSUME ControlOK, NEW a \in Agents, AddAgent(a)
  PROVE  ControlOK' /\ TasksKept
BY NextCycleLeavesOK DEF AddAgent, ControlOK, WaitsForRegistered

\* removeAgent: also when the agent is not the one that is waited for.
LEMMA RemoveAgentLeavesOK ==
  ASSUME ControlOK, NEW a \in Agents, RemoveAgent(a)
  PROVE  ControlOK' /\ TasksKept
<1>1. CASE a \in running /\ NextCycleIfPossible(registered \ {a}, pending \ {a}, running \ {a})
  <2>1. running \ {a} \subseteq registered \ {a}
    BY DEF ControlOK, WaitsForRegistered
  <2> QED
    BY <1>1, <2>1, NextCycleLeavesOK DEF ControlOK
<1>2. CASE a \notin running /\ registered' = registered \ {a} /\ pending' = pending \ {a}
           /\ UNCHANGED <<running, cycleNum, tasks>>
  BY <1>2 DEF ControlOK, TasksKept, WaitsForRegistered, NeverStalls
<1> QED
  BY <1>1, <1>2 DEF RemoveAgent

\* agentCycleFinished.
LEMMA FinishedLeavesOK ==
  ASSUME ControlOK, NEW a \in Agents, AgentCycleFinished(a)
  PROVE  ControlOK' /\ TasksKept
BY NextCycleLeavesOK DEF AgentCycleFinished, ControlOK, WaitsForRegistered

\* The part of onTimeout that is not about the timers.
LEMMA TimeoutLeavesOK ==
  ASSUME ControlOK, NextCycleIfPossible(registered, pending, running)
  PROVE  ControlOK' /\ TasksKept
BY NextCycleLeavesOK DEF ControlOK, WaitsForRegistered

\* Nothing else touches the fields of the bean.
LEMMA UntouchedOK ==
  ASSUME ControlOK, UNCHANGED controlVars, UNCHANGED tasks
  PROVE  ControlOK' /\ TasksKept
BY DEF ControlOK, TasksKept, controlVars, WaitsForRegistered, NeverStalls

\* wakeUp, of a sleeping agent and of one that is awake.
LEMMA WakeUpLeavesOK ==
  ASSUME ControlOK, NEW a \in Agents, WakeUp(a)
  PROVE  ControlOK' /\ TasksKept
BY AddAgentLeavesOK, UntouchedOK DEF WakeUp, controlVars

-----------------------------------------------------------------------------
(* The steps of the system *)

\* The actions that run a method of the bean, or leave the bean alone.
LEMMA BeanStep ==
  ASSUME ControlOK,
         \/ \E n \in Cycles : OnTimeout(n)
         \/ ViewReported
         \/ \E a \in Agents : AgentStep(a)
         \/ \E a \in Agents, n \in Cycles : PerformCycle(a, n)
         \/ UNCHANGED vars
  PROVE  ControlOK' /\ TasksKept
<1>1. ASSUME NEW n \in Cycles, OnTimeout(n)
      PROVE  ControlOK' /\ TasksKept
  BY <1>1, TimeoutLeavesOK, UntouchedOK DEF OnTimeout
<1>2. CASE ViewReported
  BY <1>2, TimeoutLeavesOK DEF ViewReported
<1>3. ASSUME NEW a \in Agents, AgentStep(a)
      PROVE  ControlOK' /\ TasksKept
  <2>1. CASE StartAgent(a)
    BY <2>1, AddAgentLeavesOK DEF StartAgent
  <2>2. CASE StopAgent(a)
    BY <2>2, UntouchedOK DEF StopAgent
  <2>3. CASE TerminateAgent(a)
    BY <2>3, RemoveAgentLeavesOK DEF TerminateAgent
  <2>4. CASE OtherMessage(a)
    BY <2>4, WakeUpLeavesOK DEF OtherMessage
  <2>5. CASE Sleep(a)
    BY <2>5, RemoveAgentLeavesOK DEF Sleep
  <2>6. CASE FinishCycle(a)
    BY <2>6, FinishedLeavesOK DEF FinishCycle
  <2>7. CASE LeftoverSleep(a)
    BY <2>7, RemoveAgentLeavesOK DEF LeftoverSleep
  <2>8. CASE LeftoverFinish(a)
    BY <2>8, FinishedLeavesOK DEF LeftoverFinish
  <2> QED
    BY <1>3, <2>1, <2>2, <2>3, <2>4, <2>5, <2>6, <2>7, <2>8 DEF AgentStep
<1>4. ASSUME NEW a \in Agents, NEW n \in Cycles, PerformCycle(a, n)
      PROVE  ControlOK' /\ TasksKept
  BY <1>4, WakeUpLeavesOK, UntouchedOK DEF PerformCycle, controlVars
<1>5. CASE UNCHANGED vars
  BY <1>5, UntouchedOK DEF vars
<1> QED
  BY <1>1, <1>2, <1>3, <1>4, <1>5

\* The executor and the cluster leave the fields of the bean alone.
LEMMA OutsideStep ==
  ASSUME ControlOK,
         \/ \E k \in tasks : PostCycle(k) \/ ArmTimeout(k)
         \/ NodeJoins
         \/ NodeFails
  PROVE  ControlOK' /\ UNCHANGED cycleNum
<1>1. UNCHANGED controlVars
  BY DEF PostCycle, ArmTimeout, NodeJoins, NodeFails, ViewChange
<1>2. tasks' \subseteq Tasks
  <2>1. ASSUME NEW k \in tasks, PostCycle(k)
        PROVE  tasks' \subseteq Tasks
    <3>1. [k EXCEPT !.posted = TRUE] \in Tasks
      BY DEF ControlOK, Tasks
    <3> QED
      BY <2>1, <3>1 DEF PostCycle, ControlOK
  <2>2. ASSUME NEW k \in tasks, ArmTimeout(k)
        PROVE  tasks' \subseteq Tasks
    BY <2>2 DEF ArmTimeout, ControlOK
  <2>3. CASE NodeJoins \/ NodeFails
    BY <2>3 DEF NodeJoins, NodeFails, ViewChange, ControlOK
  <2> QED
    BY <2>1, <2>2, <2>3
<1> QED
  BY <1>1, <1>2 DEF controlVars, ControlOK, WaitsForRegistered, NeverStalls

\* The bean never waits for an agent that is not registered, and never waits
\* for nobody while there are agents: ControlOK is inductive.
LEMMA ControlInductive ==
  ASSUME ControlOK, [Next]_vars
  PROVE  ControlOK'
BY BeanStep, OutsideStep DEF Next

-----------------------------------------------------------------------------
(* The timeouts *)

TimersOK == timers \in [Cycles -> Nat] /\ views \in Nat /\ Attended

\* A step that leaves the timers and the views alone keeps the control
\* attended if it runs a method of the bean.
LEMMA QuietStep ==
  ASSUME TimersOK, TasksKept, UNCHANGED <<timers, views>>
  PROVE  TimersOK'
BY DEF TimersOK, TasksKept, Attended

\* When a timeout expires for the current cycle, either the next cycle
\* starts, and with it a task, or the timeout is armed again.
LEMMA ExpiryKeepsAttended ==
  ASSUME ControlOK, TimersOK, NEW n \in Cycles, OnTimeout(n)
  PROVE  TimersOK'
<1> USE DEF TimersOK
<1>1. views' = views /\ timers[n] \in Nat /\ timers[n] > 0
  BY DEF OnTimeout
<1>2. TasksKept
  BY BeanStep
<1>3. CASE n # cycleNum
  <2>1. timers' = [timers EXCEPT ![n] = @ - 1] /\ UNCHANGED <<cycleNum, tasks>>
    BY <1>3 DEF OnTimeout, Expired, controlVars
  <2>2. timers' \in [Cycles -> Nat]
    BY <2>1, <1>1
  <2> QED
    BY <1>1, <1>3, <2>1, <2>2 DEF Attended, ControlOK
<1>4. CASE n = cycleNum /\ CanProceed(registered, pending, running)
  <2>1. timers' = [timers EXCEPT ![n] = @ - 1]
        /\ InformAll(registered, pending)
    BY <1>4 DEF OnTimeout, Expired, NextCycleIfPossible
  <2>2. timers' \in [Cycles -> Nat]
    BY <2>1, <1>1
  <2>3. tasks' # {}
    BY <2>1 DEF InformAll
  <2> QED
    BY <1>1, <2>2, <2>3 DEF Attended
<1>5. CASE n = cycleNum /\ ~CanProceed(registered, pending, running)
  BY <1>1, <1>2, <1>5, QuietStep DEF OnTimeout
<1> QED
  BY <1>3, <1>4, <1>5

\* A view change that is reported starts the next cycle or arms a timeout.
LEMMA ReportKeepsAttended ==
  ASSUME ControlOK, TimersOK, ViewReported
  PROVE  TimersOK'
<1> USE DEF TimersOK
<1>1. views' \in Nat
  BY DEF ViewReported
<1>2. CASE CanProceed(registered, pending, running)
  <2>1. timers' = timers /\ tasks' # {}
    BY <1>2 DEF ViewReported, NextCycleIfPossible, InformAll
  <2> QED
    BY <1>1, <2>1 DEF Attended
<1>3. CASE ~CanProceed(registered, pending, running)
  <2>1. timers' = [timers EXCEPT ![cycleNum] = @ + 1] /\ cycleNum' = cycleNum
    BY <1>3 DEF ViewReported, Scheduled, NextCycleIfPossible
  <2>2. timers' \in [Cycles -> Nat] /\ timers'[cycleNum'] > 0
    BY <2>1 DEF ControlOK
  <2> QED
    BY <1>1, <2>2 DEF Attended
<1> QED
  BY <1>2, <1>3

\* The executor's task does not end before it has armed a timeout, and a node
\* that fails takes timers and tasks along but is reported.
LEMMA OutsideKeepsAttended ==
  ASSUME ControlOK, TimersOK,
         \/ \E k \in tasks : PostCycle(k) \/ ArmTimeout(k)
         \/ NodeJoins
         \/ NodeFails
  PROVE  TimersOK'
<1> USE DEF TimersOK
<1>1. ASSUME NEW k \in tasks, PostCycle(k)
      PROVE  TimersOK'
  BY <1>1 DEF PostCycle, Attended
<1>2. ASSUME NEW k \in tasks, ArmTimeout(k)
      PROVE  TimersOK'
  <2>1. timers' = [timers EXCEPT ![cycleNum] = @ + 1]
        /\ cycleNum' = cycleNum /\ views' = views
    BY <1>2 DEF ArmTimeout, Scheduled, controlVars
  <2> QED
    BY <2>1 DEF Attended, ControlOK
<1>3. CASE NodeJoins \/ NodeFails
  <2>1. views' = views + 1 /\ (timers' = timers \/ timers' = [n \in Cycles |-> 0])
    BY <1>3 DEF NodeJoins, NodeFails, ViewChange
  <2> QED
    BY <2>1 DEF Attended
<1> QED
  BY <1>1, <1>2, <1>3

\* Every step keeps the current cycle attended.
LEMMA AttendedInductive ==
  ASSUME ControlOK, TimersOK, [Next]_vars
  PROVE  TimersOK'
<1>1. ASSUME NEW a \in Agents, AgentStep(a)
      PROVE  TimersOK'
  <2>1. UNCHANGED <<timers, views>>
    BY <1>1 DEF AgentStep, StartAgent, StopAgent, TerminateAgent, OtherMessage, Sleep,
                FinishCycle, LeftoverSleep, LeftoverFinish
  <2> QED
    BY <1>1, <2>1, BeanStep, QuietStep
<1>2. ASSUME NEW a \in Agents, NEW n \in Cycles, PerformCycle(a, n)
      PROVE  TimersOK'
  BY <1>2, BeanStep, QuietStep DEF PerformCycle
<1>3. CASE UNCHANGED vars
  BY <1>3, BeanStep, QuietStep DEF vars
<1> QED
  BY <1>1, <1>2, <1>3, ExpiryKeepsAttended, ReportKeepsAttended, OutsideKeepsAttended
     DEF Next

-----------------------------------------------------------------------------
(* The theorems *)

\* The control is sound and attended right after init.
LEMMA InitOK == Init => ControlOK /\ TimersOK
BY BoundsNat DEF Init, ControlOK, TimersOK, Attended, Cycles, WaitsForRegistered,
                 NeverStalls

\* For every set of agents, whatever the agents, the timers and the cluster
\* do: ExecutionControlBean waits only for agents that are registered.
THEOREM ControlWaitsForRegistered == Spec => []WaitsForRegistered
<1>1. ControlOK /\ [Next]_vars => ControlOK'
  BY ControlInductive
<1>2. ControlOK => WaitsForRegistered
  BY DEF ControlOK
<1> QED
  BY InitOK, <1>1, <1>2, PTL DEF Spec

\* For every set of agents: ExecutionControlBean never waits for nobody while
\* it has agents, registered or pending.
THEOREM ControlNeverStalls == Spec => []NeverStalls
<1>1. ControlOK /\ [Next]_vars => ControlOK'
  BY ControlInductive
<1>2. ControlOK => NeverStalls
  BY DEF ControlOK
<1> QED
  BY InitOK, <1>1, <1>2, PTL DEF Spec

\* For every set of agents: a timeout for the current cycle is armed, or a
\* task or a report that will arm one is under way, also when nodes fail.
THEOREM AlwaysAttended == Spec => []Attended
<1>1. (ControlOK /\ TimersOK) /\ [Next]_vars => (ControlOK /\ TimersOK)'
  BY ControlInductive, AttendedInductive
<1>2. TimersOK => Attended
  BY DEF TimersOK
<1> QED
  BY InitOK, <1>1, <1>2, PTL DEF Spec

-----------------------------------------------------------------------------
(* The types, and why the agents reason in step *)

\* The types that ControlOK and TimersOK leave out: what belongs to the agents.
AgentTypes ==
  /\ inbox \in [Agents -> SUBSET Cycles]
  /\ alive \subseteq Agents
  /\ sleeping \in [Agents -> BOOLEAN]
  /\ doing \in [Agents -> Cycles \union {None}]
  /\ slept \subseteq Agents
  /\ leftover \in [Agents -> Cycles \union {None}]
  /\ starts \in [Agents -> Nat]
  /\ abandoned \subseteq Agents
  /\ viewChanges \in Nat
  /\ missed \in [Agents -> SUBSET Cycles]

Typed == ControlOK /\ TimersOK /\ AgentTypes

\* The executor has still to post this task's messages.
Unposted == {k \in tasks : ~k.posted}

\* A message of cycle n is on its way to agent a, or still to be posted.
Due(a, n) == n \in inbox[a] \/ \E k \in Unposted : k.cycle = n /\ a \in k.to

\* A cycle is handed out once, by one task, and never ahead of its time.
HandedOutOnce ==
  /\ \A a \in Agents : \A n \in inbox[a] : n <= cycleNum
  /\ \A k \in Unposted : k.cycle <= cycleNum /\ \A a \in Agents : k.cycle \notin inbox[a]
  /\ \A k, l \in Unposted : k.cycle = l.cycle => k = l

Unknown(a) ==
  /\ a \notin alive \union registered \union pending \union running
  /\ doing[a] = None /\ leftover[a] = None
  /\ \A n \in Cycles : ~Due(a, n)

\* The first instance of an agent: at most the current cycle is on its way to
\* it, and then the control waits for it; asleep, the control does not know it.
InStep(a) ==
  /\ leftover[a] = None
  /\ \A n \in Cycles : Due(a, n) =>
       n = cycleNum /\ a \in running /\ doing[a] = None /\ ~sleeping[a]
  /\ sleeping[a] => a \notin registered \union pending \union running
  /\ doing[a] # None =>
       \/ sleeping[a] /\ a \in slept
       \/ ~sleeping[a] /\ doing[a] = cycleNum /\ a \in running

AgentOK(a) ==
  /\ doing[a] # None => a \in alive
  /\ starts[a] = 0 => Unknown(a)
  /\ starts[a] = 1 /\ a \in alive => InStep(a)

LockstepInv == HandedOutOnce /\ \A a \in Agents : AgentOK(a)

-----------------------------------------------------------------------------
(* Types *)

LEMMA AgentsTyped ==
  ASSUME Typed, [Next]_vars
  PROVE  AgentTypes'
<1> USE DEF AgentTypes, Typed
<1>1. ASSUME NEW a \in Agents, AgentStep(a)
      PROVE  AgentTypes'
  <2>1. CASE StartAgent(a)
    BY <2>1 DEF StartAgent
  <2>2. CASE StopAgent(a)
    BY <2>2 DEF StopAgent, LeaveBehind
  <2>3. CASE TerminateAgent(a)
    BY <2>3 DEF TerminateAgent
  <2>4. CASE OtherMessage(a)
    BY <2>4 DEF OtherMessage, WakeUp
  <2>5. CASE Sleep(a)
    BY <2>5 DEF Sleep
  <2>6. CASE FinishCycle(a)
    BY <2>6 DEF FinishCycle
  <2>7. CASE LeftoverSleep(a)
    BY <2>7 DEF LeftoverSleep, agentVars
  <2>8. CASE LeftoverFinish(a)
    BY <2>8 DEF LeftoverFinish
  <2> QED
    BY <1>1, <2>1, <2>2, <2>3, <2>4, <2>5, <2>6, <2>7, <2>8 DEF AgentStep
<1>2. ASSUME NEW a \in Agents, NEW n \in Cycles, PerformCycle(a, n)
      PROVE  AgentTypes'
  BY <1>2 DEF PerformCycle, WakeUp
<1>3. ASSUME NEW k \in tasks, PostCycle(k)
      PROVE  AgentTypes'
  BY <1>3 DEF PostCycle, SentTo, agentVars, ControlOK, Tasks
<1>4. CASE NodeJoins \/ NodeFails
  <2>1. ASSUME NEW dead \in SUBSET Agents, NEW lost \in SUBSET tasks, ViewChange(dead, lost)
        PROVE  AgentTypes'
    <3>1. UNION {k.to : k \in lost} \subseteq Agents
      BY DEF ControlOK, Tasks
    <3> QED
      BY <2>1, <3>1 DEF ViewChange
  <2> QED
    BY <1>4, <2>1 DEF NodeJoins, NodeFails
<1>5. CASE \/ \E n \in Cycles : OnTimeout(n)
           \/ ViewReported
           \/ \E k \in tasks : ArmTimeout(k)
           \/ UNCHANGED vars
  BY <1>5 DEF OnTimeout, ViewReported, ArmTimeout, vars, agentVars
<1> HIDE DEF AgentTypes, Typed
<1> QED
  BY <1>1, <1>2, <1>3, <1>4, <1>5 DEF Next

LEMMA TypesKept ==
  ASSUME Typed, [Next]_vars
  PROVE  Typed'
BY AgentsTyped, ControlInductive, AttendedInductive DEF Typed

LEMMA InitTyped == Init => Typed
BY InitOK DEF Init, Typed, AgentTypes

\* For every set of agents and every bound: the fields of the bean, its tasks,
\* the messages and the agents keep their types.
THEOREM TypeCorrect == Spec => []TypeOK
<1>1. Typed => TypeOK
  BY DEF Typed, AgentTypes, ControlOK, TimersOK, TypeOK
<1> QED
  BY InitTyped, TypesKept, <1>1, PTL DEF Spec

-----------------------------------------------------------------------------
(* The methods of the bean *)

\* What nextCycleIfPossible does: nothing, or, as nobody is waited for, it
\* starts the next cycle for everybody.
Started(reg, pen) ==
  /\ cycleNum' = cycleNum + 1
  /\ registered' = reg \union pen /\ pending' = {} /\ running' = reg \union pen
  /\ Unposted' = Unposted \union {[cycle |-> cycleNum + 1, to |-> reg \union pen, posted |-> FALSE]}

LEMMA NextCycleEffect ==
  ASSUME NEW reg, NEW pen, NEW run, NextCycleIfPossible(reg, pen, run)
  PROVE  \/ /\ registered' = reg /\ pending' = pen /\ running' = run
            /\ UNCHANGED <<cycleNum, tasks>>
         \/ run = {} /\ Started(reg, pen)
BY DEF NextCycleIfPossible, CanProceed, InformAll, Started, Unposted

LEMMA NextCycleOnce ==
  ASSUME Typed, HandedOutOnce, NEW reg, NEW pen, NEW run, NextCycleIfPossible(reg, pen, run),
         \A a \in Agents : inbox'[a] \subseteq inbox[a]
  PROVE  HandedOutOnce'
<1> USE DEF HandedOutOnce
<1>1. CASE UNCHANGED <<cycleNum, tasks>>
  BY <1>1 DEF Unposted
<1>2. CASE Started(reg, pen)
  <2>1. cycleNum \in Nat /\ cycleNum' = cycleNum + 1
    BY <1>2 DEF Started, Typed, ControlOK, Cycles
  <2>2. \A k \in Unposted : k.cycle \in Nat
    BY DEF Unposted, Typed, ControlOK, Tasks, Cycles
  <2>3. \A a \in Agents : \A n \in inbox[a] : n \in Nat
    BY DEF Typed, AgentTypes, Cycles
  <2>4. \A k \in Unposted' : k \in Unposted \/ (k.cycle = cycleNum + 1 /\
                               k = [cycle |-> cycleNum + 1, to |-> reg \union pen, posted |-> FALSE])
    BY <1>2 DEF Started
  <2>5. ASSUME NEW a \in Agents, NEW n \in inbox'[a]
        PROVE  n <= cycleNum' /\ n # cycleNum + 1
    BY <2>1, <2>3
  <2>6. \A k \in Unposted' : k.cycle <= cycleNum'
    BY <2>1, <2>2, <2>4
  <2>7. \A k \in Unposted : k.cycle # cycleNum + 1
    BY <2>1, <2>2
  <2>8. \A k \in Unposted' : \A a \in Agents : k.cycle \notin inbox'[a]
    BY <2>4, <2>5
  <2>9. \A k, l \in Unposted' : k.cycle = l.cycle => k = l
    BY <2>4, <2>7
  <2> QED
    BY <2>5, <2>6, <2>8, <2>9
<1> QED
  BY <1>1, <1>2, NextCycleEffect

\* Nothing about agent b changes but what the bean does with it.
Untouched(b) ==
  /\ starts'[b] = starts[b] /\ (b \in alive' <=> b \in alive)
  /\ sleeping'[b] = sleeping[b] /\ doing'[b] = doing[b] /\ leftover'[b] = leftover[b]
  /\ b \in slept' <=> b \in slept
  /\ inbox'[b] = inbox[b]

LEMMA NextCycleKeeps ==
  ASSUME Typed, NEW b \in Agents, AgentOK(b), Untouched(b),
         NEW reg, NEW pen, NEW run, NextCycleIfPossible(reg, pen, run),
         b \in reg <=> b \in registered, b \in pen <=> b \in pending, b \in run <=> b \in running
  PROVE  AgentOK(b)'
<1> USE DEF AgentOK, Untouched
<1>1. CASE /\ registered' = reg /\ pending' = pen /\ running' = run
           /\ UNCHANGED <<cycleNum, tasks>>
  BY <1>1 DEF Unknown, InStep, Due, Unposted
<1>2. CASE run = {} /\ Started(reg, pen)
  <2>1. b \notin running
    BY <1>2
  <2>2. \A n \in Cycles : Due(b, n)' => Due(b, n) \/ (n = cycleNum' /\ b \in reg \union pen)
    BY <1>2 DEF Started, Due
  <2>3. starts[b] = 0 => Unknown(b)'
    BY <1>2, <2>1, <2>2 DEF Unknown, Started
  <2>4. starts[b] = 1 /\ b \in alive => InStep(b)'
    BY <1>2, <2>1, <2>2 DEF InStep, Started
  <2> QED
    BY <2>3, <2>4
<1> QED
  BY <1>1, <1>2, NextCycleEffect

-----------------------------------------------------------------------------
(* The steps *)

\* Another agent is the one that calls the bean.
LEMMA OthersKept ==
  ASSUME Typed, NEW a \in Agents, NEW b \in Agents, a # b, AgentOK(b), Untouched(b),
         AddAgent(a) \/ RemoveAgent(a) \/ AgentCycleFinished(a)
  PROVE  AgentOK(b)'
<1>1. CASE AddAgent(a)
  BY <1>1, NextCycleKeeps DEF AddAgent
<1>2. CASE AgentCycleFinished(a)
  BY <1>2, NextCycleKeeps DEF AgentCycleFinished
<1>3. CASE RemoveAgent(a)
  <2>1. CASE a \in running /\ NextCycleIfPossible(registered \ {a}, pending \ {a}, running \ {a})
    BY <2>1, NextCycleKeeps
  <2>2. CASE /\ registered' = registered \ {a} /\ pending' = pending \ {a}
             /\ UNCHANGED <<running, cycleNum, tasks>>
    BY <2>2 DEF AgentOK, Untouched, Unknown, InStep, Due, Unposted
  <2> QED
    BY <1>3, <2>1, <2>2 DEF RemoveAgent
<1> QED
  BY <1>1, <1>2, <1>3

LEMMA MethodsOnce ==
  ASSUME Typed, HandedOutOnce, NEW a \in Agents,
         AddAgent(a) \/ RemoveAgent(a) \/ AgentCycleFinished(a),
         \A b \in Agents : inbox'[b] \subseteq inbox[b]
  PROVE  HandedOutOnce'
<1>1. CASE UNCHANGED <<cycleNum, tasks>>
  BY <1>1 DEF HandedOutOnce, Unposted
<1> QED
  BY <1>1, NextCycleOnce DEF AddAgent, RemoveAgent, AgentCycleFinished

\* The agent that is started was unknown, or is not the first of its AID.
LEMMA StartKeeps ==
  ASSUME Typed, LockstepInv, NEW a \in Agents, StartAgent(a)
  PROVE  LockstepInv'
<1>1. HandedOutOnce'
  BY MethodsOnce DEF StartAgent, LockstepInv
<1>2. ASSUME NEW b \in Agents, b # a
      PROVE  AgentOK(b)'
  BY <1>2, OthersKept DEF StartAgent, Untouched, LockstepInv, Typed, AgentTypes
<1>3. AgentOK(a)'
  <2>1. starts'[a] = starts[a] + 1 /\ starts[a] \in Nat /\ a \in alive' /\ ~sleeping'[a]
        /\ UNCHANGED <<inbox, doing, leftover, slept>>
    BY DEF StartAgent, Typed, AgentTypes
  <2>2. CASE starts[a] = 0
    <3>1. Unknown(a)
      BY <2>2 DEF LockstepInv, AgentOK
    <3>2. \A n \in Cycles : Due(a, n)' => n = cycleNum' /\ a \in running'
      <4>1. CASE UNCHANGED <<cycleNum, tasks>>
        BY <2>1, <3>1, <4>1 DEF Unknown, Due, Unposted
      <4>2. CASE Started(registered, pending \union {a})
        BY <2>1, <3>1, <4>2 DEF Unknown, Due, Started
      <4> QED
        BY <4>1, <4>2, NextCycleEffect DEF StartAgent, AddAgent
    <3> QED
      BY <2>1, <2>2, <3>1, <3>2 DEF AgentOK, Unknown, InStep
  <2>3. CASE starts[a] # 0
    BY <2>1, <2>3 DEF AgentOK
  <2> QED
    BY <2>2, <2>3
<1> QED
  BY <1>1, <1>2, <1>3 DEF LockstepInv

\* An agent that is stopped or terminated is not in step any more.
LEMMA EndKeeps ==
  ASSUME Typed, LockstepInv, NEW a \in Agents, StopAgent(a) \/ TerminateAgent(a)
  PROVE  LockstepInv'
<1>1. CASE StopAgent(a)
  <2>1. HandedOutOnce'
    BY <1>1 DEF StopAgent, LockstepInv, HandedOutOnce, Unposted, controlVars
  <2>2. ASSUME NEW b \in Agents
        PROVE  AgentOK(b)'
    <3>1. /\ alive' = alive \ {a} /\ UNCHANGED <<controlVars, tasks, inbox, sleeping, starts>>
          /\ doing' = [doing EXCEPT ![a] = None] /\ a \in alive
          /\ \A c \in Agents : c # a => leftover'[c] = leftover[c] /\ (c \in slept' <=> c \in slept)
      BY <1>1 DEF StopAgent, LeaveBehind, Typed, AgentTypes
    <3>2. doing'[a] = None /\ a \notin alive' /\ starts'[a] # 0
      BY <3>1 DEF Typed, AgentTypes, LockstepInv, AgentOK, Unknown
    <3>3. CASE b = a
      BY <3>2, <3>3 DEF AgentOK
    <3>4. CASE b # a
      BY <3>1, <3>4 DEF LockstepInv, AgentOK, Unknown, InStep, Due, Unposted, controlVars, Typed,
                        AgentTypes
    <3> QED
      BY <3>3, <3>4
  <2> QED
    BY <2>1, <2>2 DEF LockstepInv
<1>2. CASE TerminateAgent(a)
  <2>1. HandedOutOnce'
    BY <1>2, MethodsOnce DEF TerminateAgent, LockstepInv
  <2>2. ASSUME NEW b \in Agents, b # a
        PROVE  AgentOK(b)'
    BY <1>2, <2>2, OthersKept DEF TerminateAgent, Untouched, LockstepInv
  <2>3. AgentOK(a)'
    BY <1>2 DEF TerminateAgent, LockstepInv, AgentOK, Unknown
  <2> QED
    BY <2>1, <2>2, <2>3 DEF LockstepInv
<1> QED
  BY <1>1, <1>2

\* An agent wakes up: the control does not know it, nothing is due.
LEMMA OtherMessageKeeps ==
  ASSUME Typed, LockstepInv, NEW a \in Agents, OtherMessage(a)
  PROVE  LockstepInv'
<1>1. AddAgent(a) /\ sleeping' = [sleeping EXCEPT ![a] = FALSE] /\ sleeping[a] /\ doing[a] = None
      /\ a \in alive /\ UNCHANGED <<inbox, alive, doing, slept, leftover, starts>>
  BY DEF OtherMessage, WakeUp
<1>2. HandedOutOnce'
  BY <1>1, MethodsOnce DEF LockstepInv
<1>3. ASSUME NEW b \in Agents, b # a
      PROVE  AgentOK(b)'
  BY <1>1, <1>3, OthersKept DEF Untouched, LockstepInv, Typed, AgentTypes
<1>4. AgentOK(a)'
  <2>1. ~sleeping'[a] /\ starts[a] # 0
    BY <1>1 DEF Typed, AgentTypes, LockstepInv, AgentOK, Unknown
  <2>2. CASE starts[a] = 1
    <3>1. InStep(a)
      BY <1>1, <2>2 DEF LockstepInv, AgentOK
    <3>2. \A n \in Cycles : Due(a, n)' => n = cycleNum' /\ a \in running'
      <4>1. CASE UNCHANGED <<cycleNum, tasks>>
        BY <1>1, <3>1, <4>1 DEF InStep, Due, Unposted
      <4>2. CASE Started(registered, pending \union {a})
        BY <1>1, <3>1, <4>2 DEF InStep, Due, Started
      <4> QED
        BY <1>1, <4>1, <4>2, NextCycleEffect DEF AddAgent
    <3> QED
      BY <1>1, <2>1, <2>2, <3>1, <3>2 DEF AgentOK, InStep
  <2> QED
    BY <1>1, <2>1, <2>2 DEF AgentOK
<1> QED
  BY <1>2, <1>3, <1>4 DEF LockstepInv

\* An agent falls asleep in its cycle: the control forgets it, nothing is due.
LEMMA SleepKeeps ==
  ASSUME Typed, LockstepInv, NEW a \in Agents, Sleep(a)
  PROVE  LockstepInv'
<1>1. RemoveAgent(a) /\ sleeping' = [sleeping EXCEPT ![a] = TRUE] /\ doing[a] # None
      /\ slept' = slept \union {a} /\ UNCHANGED <<inbox, alive, doing, leftover, starts>>
  BY DEF Sleep
<1>2. HandedOutOnce'
  BY <1>1, MethodsOnce DEF LockstepInv
<1>3. ASSUME NEW b \in Agents, b # a
      PROVE  AgentOK(b)'
  BY <1>1, <1>3, OthersKept DEF Untouched, LockstepInv, Typed, AgentTypes
<1>4. AgentOK(a)'
  <2>1. sleeping'[a] /\ starts[a] # 0 /\ a \in alive
    BY <1>1 DEF Typed, AgentTypes, LockstepInv, AgentOK, Unknown
  <2>2. CASE starts[a] = 1
    <3>1. InStep(a)
      BY <2>1, <2>2 DEF LockstepInv, AgentOK
    <3>2. a \notin registered' \union pending' \union running'
      BY <1>1, NextCycleEffect DEF RemoveAgent, Started
    <3>3. \A n \in Cycles : ~Due(a, n)'
      <4>1. CASE UNCHANGED <<cycleNum, tasks>>
        BY <1>1, <3>1, <4>1 DEF InStep, Due, Unposted
      <4>2. CASE Started(registered \ {a}, pending \ {a})
        BY <1>1, <3>1, <4>2 DEF InStep, Due, Started
      <4> QED
        BY <1>1, <4>1, <4>2, NextCycleEffect DEF RemoveAgent
    <3> QED
      BY <1>1, <2>1, <2>2, <3>1, <3>2, <3>3 DEF AgentOK, InStep
  <2> QED
    BY <1>1, <2>1, <2>2 DEF AgentOK
<1> QED
  BY <1>2, <1>3, <1>4 DEF LockstepInv

\* An agent finishes its cycle, asleep or not, and is told of the next one.
LEMMA FinishKeeps ==
  ASSUME Typed, LockstepInv, NEW a \in Agents, FinishCycle(a)
  PROVE  LockstepInv'
<1>1. AgentCycleFinished(a) /\ doing[a] # None /\ doing' = [doing EXCEPT ![a] = None]
      /\ slept' = slept \ {a} /\ UNCHANGED <<inbox, alive, sleeping, leftover, starts>>
  BY DEF FinishCycle
<1>2. HandedOutOnce'
  BY <1>1, MethodsOnce DEF LockstepInv
<1>3. ASSUME NEW b \in Agents, b # a
      PROVE  AgentOK(b)'
  BY <1>1, <1>3, OthersKept DEF Untouched, LockstepInv, Typed, AgentTypes
<1>4. AgentOK(a)'
  <2>1. doing'[a] = None /\ starts[a] # 0 /\ a \in alive
    BY <1>1 DEF Typed, AgentTypes, LockstepInv, AgentOK, Unknown
  <2>2. CASE starts[a] = 1
    <3>1. InStep(a)
      BY <2>1, <2>2 DEF LockstepInv, AgentOK
    <3>2. /\ sleeping[a] => a \notin registered' \union pending' \union running'
          /\ \A n \in Cycles : Due(a, n)' => n = cycleNum' /\ a \in running'
      <4>1. CASE /\ registered' = registered /\ pending' = pending
                 /\ running' = running \ {a} /\ UNCHANGED <<cycleNum, tasks>>
        BY <1>1, <3>1, <4>1 DEF InStep, Due, Unposted
      <4>2. CASE Started(registered, pending)
        BY <1>1, <3>1, <4>2 DEF InStep, Due, Started
      <4> QED
        BY <1>1, <4>1, <4>2, NextCycleEffect DEF AgentCycleFinished
    <3> QED
      BY <1>1, <2>1, <2>2, <3>1, <3>2 DEF AgentOK, InStep
  <2> QED
    BY <1>1, <2>1, <2>2 DEF AgentOK
<1> QED
  BY <1>2, <1>3, <1>4 DEF LockstepInv

\* Only an AID that is not in its first instance leaves an instance behind.
LEMMA LeftoverKeeps ==
  ASSUME Typed, LockstepInv, NEW a \in Agents, LeftoverSleep(a) \/ LeftoverFinish(a)
  PROVE  LockstepInv'
<1>1. (RemoveAgent(a) \/ AgentCycleFinished(a)) /\ leftover[a] # None
      /\ UNCHANGED <<inbox, alive, sleeping, doing, slept, starts>>
      /\ \A b \in Agents : b # a => leftover'[b] = leftover[b]
  BY DEF LeftoverSleep, LeftoverFinish, agentVars, Typed, AgentTypes
<1>2. HandedOutOnce'
  BY <1>1, MethodsOnce DEF LockstepInv
<1>3. ASSUME NEW b \in Agents, b # a
      PROVE  AgentOK(b)'
  BY <1>1, <1>3, OthersKept DEF Untouched, LockstepInv
<1>4. AgentOK(a)'
  BY <1>1 DEF LockstepInv, AgentOK, Unknown, InStep
<1> QED
  BY <1>2, <1>3, <1>4 DEF LockstepInv

\* What is due to the first instance of an agent is its current cycle.
LEMMA PerformKeeps ==
  ASSUME Typed, LockstepInv, NEW a \in Agents, NEW n \in Cycles, PerformCycle(a, n)
  PROVE  LockstepInv'
<1>1. n \in inbox[a] /\ inbox' = [inbox EXCEPT ![a] = @ \ {n}]
      /\ UNCHANGED <<alive, slept, leftover, starts>>
  BY DEF PerformCycle
<1>2. \A b \in Agents : inbox'[b] \subseteq inbox[b]
  BY <1>1 DEF Typed, AgentTypes
<1>3. CASE a \notin alive
  <2>1. UNCHANGED <<controlVars, tasks, sleeping, doing>>
    BY <1>3 DEF PerformCycle
  <2>2. HandedOutOnce'
    BY <1>2, <2>1 DEF LockstepInv, HandedOutOnce, Unposted, controlVars
  <2>3. ASSUME NEW b \in Agents
        PROVE  AgentOK(b)'
    BY <1>1, <1>2, <2>1 DEF LockstepInv, AgentOK, Unknown, InStep, Due, Unposted, controlVars
  <2> QED
    BY <2>2, <2>3 DEF LockstepInv
<1>4. CASE a \in alive
  <2>1. doing[a] = None /\ doing' = [doing EXCEPT ![a] = n] /\ WakeUp(a)
        /\ sleeping' = [sleeping EXCEPT ![a] = FALSE] /\ n # None
    BY <1>4, BoundsNat DEF PerformCycle, WakeUp, Cycles, None
  <2>2. AddAgent(a) \/ UNCHANGED <<controlVars, tasks>>
    BY <2>1 DEF WakeUp
  <2>3. HandedOutOnce'
    <3>1. CASE UNCHANGED <<controlVars, tasks>>
      BY <1>2, <3>1 DEF LockstepInv, HandedOutOnce, Unposted, controlVars
    <3> QED
      BY <1>2, <2>2, <3>1, MethodsOnce DEF LockstepInv
  <2>4. ASSUME NEW b \in Agents, b # a
        PROVE  AgentOK(b)'
    <3>1. Untouched(b) /\ AgentOK(b)
      BY <1>1, <2>1, <2>4 DEF Untouched, LockstepInv, Typed, AgentTypes
    <3>2. CASE UNCHANGED <<controlVars, tasks>>
      BY <3>1, <3>2 DEF Untouched, AgentOK, Unknown, InStep, Due, Unposted, controlVars
    <3> QED
      BY <2>2, <2>4, <3>1, <3>2, OthersKept
  <2>5. AgentOK(a)'
    <3>1. doing'[a] = n /\ ~sleeping'[a] /\ starts'[a] # 0 /\ Due(a, n)
      BY <1>1, <1>4, <2>1 DEF Typed, AgentTypes, LockstepInv, AgentOK, Unknown, Due
    <3>2. CASE starts[a] = 1
      <4>1. InStep(a) /\ n = cycleNum /\ a \in running /\ ~sleeping[a]
        BY <1>4, <3>1, <3>2 DEF LockstepInv, AgentOK, InStep
      <4>2. UNCHANGED <<controlVars, tasks>>
        BY <2>1, <4>1 DEF WakeUp
      <4>3. \A m \in Cycles : ~Due(a, m)'
        BY <1>1, <4>1, <4>2 DEF InStep, Due, Unposted, LockstepInv, HandedOutOnce, Typed, AgentTypes
      <4> QED
        BY <1>1, <1>4, <2>1, <3>1, <4>1, <4>2, <4>3 DEF AgentOK, InStep, controlVars
    <3> QED
      BY <1>1, <1>4, <3>1, <3>2 DEF AgentOK
  <2> QED
    BY <2>3, <2>4, <2>5 DEF LockstepInv
<1> QED
  BY <1>3, <1>4

\* Timeouts and reports of view changes do to nobody more than the bean does.
LEMMA TimeoutKeeps ==
  ASSUME Typed, LockstepInv,
         NextCycleIfPossible(registered, pending, running) \/ UNCHANGED <<controlVars, tasks>>,
         UNCHANGED <<inbox, agentVars>>
  PROVE  LockstepInv'
<1>1. \A b \in Agents : Untouched(b) /\ AgentOK(b)
  BY DEF Untouched, agentVars, LockstepInv
<1>2. CASE NextCycleIfPossible(registered, pending, running)
  BY <1>1, <1>2, NextCycleKeeps, NextCycleOnce DEF LockstepInv, Untouched
<1>3. CASE UNCHANGED <<controlVars, tasks>>
  BY <1>1, <1>3 DEF LockstepInv, HandedOutOnce, AgentOK, Untouched, Unknown, InStep, Due, Unposted,
                    controlVars
<1> QED
  BY <1>2, <1>3

\* Posting a cycle makes nothing due that was not, and a node that fails
\* takes messages and agents away.
LEMMA OutsideKeeps ==
  ASSUME Typed, LockstepInv,
         \/ \E k \in tasks : PostCycle(k) \/ ArmTimeout(k)
         \/ NodeJoins
         \/ NodeFails
  PROVE  LockstepInv'
<1>1. ASSUME NEW k \in tasks, PostCycle(k)
      PROVE  LockstepInv'
  <2>1. /\ k \in Unposted /\ Unposted' = Unposted \ {k}
        /\ UNCHANGED <<controlVars, agentVars>>
        /\ \A b \in Agents : \A n : n \in inbox'[b] => n \in inbox[b] \/ (n = k.cycle /\ b \in k.to)
    <3>1. k \in Unposted /\ [k EXCEPT !.posted = TRUE].posted
      BY <1>1 DEF PostCycle, Unposted, Typed, ControlOK, Tasks
    <3>2. Unposted' = Unposted \ {k}
      BY <1>1, <3>1 DEF PostCycle, Unposted
    <3>3. \A b \in Agents : \A n : n \in inbox'[b] => n \in inbox[b] \/ (n = k.cycle /\ b \in k.to)
      BY <1>1 DEF PostCycle, SentTo
    <3> QED
      BY <1>1, <3>1, <3>2, <3>3 DEF PostCycle
  <2>2. HandedOutOnce'
    BY <2>1 DEF LockstepInv, HandedOutOnce, controlVars
  <2>3. ASSUME NEW b \in Agents
        PROVE  AgentOK(b)'
    <3>1. \A n \in Cycles : Due(b, n)' => Due(b, n)
      BY <2>1 DEF Due
    <3> QED
      BY <2>1, <3>1 DEF LockstepInv, AgentOK, Unknown, InStep, controlVars, agentVars
  <2> QED
    BY <2>2, <2>3 DEF LockstepInv
<1>2. ASSUME NEW k \in tasks, ArmTimeout(k)
      PROVE  LockstepInv'
  <2>1. Unposted' = Unposted /\ UNCHANGED <<controlVars, agentVars, inbox>>
    BY <1>2 DEF ArmTimeout, Unposted
  <2> QED
    BY <2>1 DEF LockstepInv, HandedOutOnce, AgentOK, Unknown, InStep, Due, controlVars, agentVars
<1>3. CASE NodeJoins \/ NodeFails
  <2>1. PICK dead \in SUBSET Agents, lost \in SUBSET tasks : ViewChange(dead, lost)
    BY <1>3 DEF NodeJoins, NodeFails, Typed, AgentTypes
  <2>2. /\ Unposted' \subseteq Unposted /\ alive' = alive \ dead
        /\ \A b \in Agents : doing'[b] = IF b \in dead THEN None ELSE doing[b]
        /\ slept' = slept \ dead
        /\ UNCHANGED <<controlVars, inbox, sleeping, leftover, starts>>
    BY <2>1 DEF ViewChange, Unposted
  <2>3. HandedOutOnce'
    BY <2>2 DEF LockstepInv, HandedOutOnce, controlVars
  <2>4. ASSUME NEW b \in Agents
        PROVE  AgentOK(b)'
    <3>1. \A n \in Cycles : Due(b, n)' => Due(b, n)
      BY <2>2 DEF Due
    <3> QED
      BY <2>2, <3>1 DEF LockstepInv, AgentOK, Unknown, InStep, controlVars
  <2> QED
    BY <2>3, <2>4 DEF LockstepInv
<1> QED
  BY <1>1, <1>2, <1>3

LEMMA LockstepInductive ==
  ASSUME Typed, LockstepInv, [Next]_vars
  PROVE  LockstepInv'
<1>1. ASSUME NEW n \in Cycles, OnTimeout(n)
      PROVE  LockstepInv'
  BY <1>1, TimeoutKeeps DEF OnTimeout
<1>2. CASE ViewReported
  BY <1>2, TimeoutKeeps DEF ViewReported
<1>3. CASE UNCHANGED vars
  BY <1>3, TimeoutKeeps DEF vars
<1>4. ASSUME NEW a \in Agents, AgentStep(a)
      PROVE  LockstepInv'
  BY <1>4, StartKeeps, EndKeeps, OtherMessageKeeps, SleepKeeps, FinishKeeps, LeftoverKeeps
     DEF AgentStep
<1> QED
  BY <1>1, <1>2, <1>3, <1>4, PerformKeeps, OutsideKeeps DEF Next

LEMMA InitLockstep == Init => LockstepInv
BY DEF Init, LockstepInv, HandedOutOnce, AgentOK, Unknown, Due, Unposted

-----------------------------------------------------------------------------
(* The theorem *)

\* For every set of agents, whatever is stopped, lost or started again: an
\* agent in its first instance that is awake in a cycle performs the current
\* one, and the bean waits for it (ExecutionControlBean, JasonEEAgent).
THEOREM AgentsInStep == Spec => []Lockstep
<1>1. LockstepInv => Lockstep
  BY DEF LockstepInv, AgentOK, InStep, Lockstep
<1>2. (Typed /\ LockstepInv) /\ [Next]_vars => (Typed /\ LockstepInv)'
  BY TypesKept, LockstepInductive
<1> QED
  BY InitTyped, InitLockstep, <1>1, <1>2, PTL DEF Spec

-----------------------------------------------------------------------------
(* The cycles are rounds. *)

Members == registered \union pending

\* Nobody performs a cycle that is still to come, the bean does not know an
\* agent that sleeps, and only a stopped agent leaves an instance behind.
RoundsOK ==
  /\ \A a \in Agents : doing[a] = None \/ doing[a] <= cycleNum
  /\ \A a \in Agents : sleeping[a] => a \notin Members \union running
  /\ \A a \in Agents : leftover[a] # None => a \in abandoned

RoundsInv == Typed /\ LockstepInv /\ RoundsOK

\* What the step shows of the rounds, Excused left aside.
RoundsMove ==
  \/ \E a \in Agents : RoundsOf!Join(a) \/ RoundsOf!Leave(a) \/ RoundsOf!Work(a)
  \/ \E ws \in SUBSET Agents : RoundsOf!LetGo(ws) \/ RoundsOf!Fail(ws)

\* nextCycleIfPossible is how the rounds go on, if nobody turns to another
\* cycle meanwhile but an agent that is not waited for.
LEMMA ProceedStep ==
  ASSUME RoundsInv, NEW reg \in SUBSET Agents, NEW pen \in SUBSET Agents,
         NEW run \in SUBSET running, NextCycleIfPossible(reg, pen, run),
         \A b \in Agents : \/ doing'[b] = doing[b]
                           \/ b \notin run /\ (doing'[b] = None \/ doing'[b] <= cycleNum)
  PROVE  /\ RoundsOf!Proceed(reg \union pen, run)
         /\ Members' = reg \union pen /\ running' \subseteq run \union Members'
         /\ cycleNum <= cycleNum'
<1>1. cycleNum \in Nat /\ running \subseteq Agents
  BY DEF RoundsInv, Typed, ControlOK, Cycles
<1>2. CASE CanProceed(reg, pen, run) /\ InformAll(reg, pen)
  <2>1. cycleNum' = cycleNum + 1 /\ cycleNum + 1 <= MaxCycle
    BY <1>1, <1>2, BoundsNat DEF InformAll
  <2>2. cycleNum + 1 # None
    BY <1>1, <2>1, BoundsNat DEF None
  <2>3. ASSUME NEW b \in Agents
        PROVE  doing'[b] # cycleNum + 1
    <3>1. doing'[b] = None \/ doing'[b] <= cycleNum
      BY <2>3 DEF RoundsInv, RoundsOK
    <3> QED
      BY <1>1, <2>2, <3>1
  <2>4. Performing' = {}
    BY <1>2, <2>1, <2>3 DEF Performing, InformAll
  <2> QED
    BY <1>1, <1>2, <2>1, <2>4 DEF CanProceed, InformAll, Members, RoundsOf!Proceed
<1>3. CASE /\ ~CanProceed(reg, pen, run)
           /\ registered' = reg /\ pending' = pen /\ running' = run
           /\ UNCHANGED <<cycleNum, tasks>>
  <2>1. Performing' = Performing \intersect run
    BY <1>1, <1>3 DEF Performing
  <2> QED
    BY <1>1, <1>3, <2>1 DEF CanProceed, Members, RoundsOf!Proceed
<1> QED
  BY <1>2, <1>3 DEF NextCycleIfPossible

\* Nothing a round is made of changes, but that some fail.
LEMMA FailMove ==
  ASSUME RoundsInv, UNCHANGED controlVars, NEW ws \in SUBSET Agents, ws \subseteq Excused',
         \A b \in Agents : doing'[b] = IF b \in ws THEN None ELSE doing[b]
  PROVE  RoundsMove /\ UNCHANGED <<Members, running, cycleNum>>
<1>1. cycleNum # None /\ running \subseteq Agents
  BY BoundsNat DEF RoundsInv, Typed, ControlOK, Cycles, None
<1>2. Performing' = Performing \ ws
  BY <1>1 DEF controlVars, Performing
<1>3. UNCHANGED <<cycleNum, Members, running>>
  BY DEF controlVars, Members
<1>4. RoundsOf!Fail(ws)
  BY <1>2, <1>3 DEF RoundsOf!Fail, Members
<1> QED
  BY <1>3, <1>4 DEF RoundsMove

LEMMA StutterMove ==
  ASSUME RoundsInv, UNCHANGED controlVars, UNCHANGED doing
  PROVE  RoundsMove /\ UNCHANGED <<Members, running, cycleNum>>
<1>1. /\ {} \in SUBSET Agents /\ {} \subseteq Excused'
      /\ \A b \in Agents : doing'[b] = IF b \in {} THEN None ELSE doing[b]
  OBVIOUS
<1> QED
  BY <1>1, FailMove

\* RoundsOK from what a step does to the agents and the sets.
LEMMA RoundsOKKept ==
  ASSUME RoundsInv, Typed', cycleNum <= cycleNum',
         \A b \in Agents : doing'[b] = doing[b] \/ doing'[b] = None \/ doing'[b] <= cycleNum,
         \A b \in Agents : sleeping'[b] => b \notin (Members \union running)',
         \A b \in Agents : leftover'[b] # None => leftover[b] # None \/ b \in abandoned',
         abandoned \subseteq abandoned'
  PROVE  RoundsOK'
<1>1. cycleNum \in Nat /\ cycleNum' \in Nat
  BY DEF RoundsInv, Typed, ControlOK, Cycles
<1>2. ASSUME NEW b \in Agents
      PROVE  doing'[b] = None \/ doing'[b] <= cycleNum'
  <2>1. doing'[b] \in Nat
    BY BoundsNat DEF Typed, AgentTypes, Cycles, None
  <2>2. doing'[b] = None \/ doing'[b] <= cycleNum
    BY DEF RoundsInv, RoundsOK
  <2> QED
    BY <1>1, <2>1, <2>2
<1>3. \A b \in Agents : leftover'[b] # None => b \in abandoned'
  BY DEF RoundsInv, RoundsOK
<1> QED
  BY <1>2, <1>3 DEF RoundsOK

-----------------------------------------------------------------------------
(* The methods of the bean as moves of the rounds *)

\* addAgent: the agent joins.
LEMMA AddMove ==
  ASSUME RoundsInv, NEW a \in Agents, AddAgent(a),
         \A b \in Agents : \/ doing'[b] = doing[b]
                           \/ b \notin running /\ (doing'[b] = None \/ doing'[b] <= cycleNum)
  PROVE  /\ RoundsMove /\ cycleNum <= cycleNum'
         /\ (Members \union running)' \subseteq Members \union running \union {a}
<1>1. /\ NextCycleIfPossible(registered, pending \union {a}, running)
      /\ registered \in SUBSET Agents /\ pending \union {a} \in SUBSET Agents
  BY DEF AddAgent, RoundsInv, Typed, ControlOK
<1>2. registered \union (pending \union {a}) = Members \union {a} /\ running \in SUBSET running
  BY DEF Members
<1>3. /\ RoundsOf!Proceed(Members \union {a}, running)
      /\ Members' = Members \union {a} /\ running' \subseteq running \union Members'
      /\ cycleNum <= cycleNum'
  BY <1>1, <1>2, ProceedStep
<1>4. RoundsOf!Join(a)
  BY <1>3 DEF RoundsOf!Join, Members
<1> QED
  BY <1>3, <1>4 DEF RoundsMove

\* removeAgent: the agent leaves.  Where it is not waited for somebody else
\* is, or nobody remains.
LEMMA RemoveMove ==
  ASSUME RoundsInv, NEW a \in Agents, RemoveAgent(a), UNCHANGED doing
  PROVE  /\ RoundsMove /\ cycleNum <= cycleNum'
         /\ (Members \union running)' \subseteq (Members \union running) \ {a}
<1>1. registered \subseteq Agents /\ pending \subseteq Agents /\ cycleNum \in Nat
  BY DEF RoundsInv, Typed, ControlOK, Cycles
<1>2. (registered \ {a}) \union (pending \ {a}) = Members \ {a}
  BY DEF Members
<1>3. CASE a \in running /\ NextCycleIfPossible(registered \ {a}, pending \ {a}, running \ {a})
  <2>1. registered \ {a} \in SUBSET Agents /\ pending \ {a} \in SUBSET Agents
        /\ running \ {a} \in SUBSET running
        /\ \A b \in Agents : doing'[b] = doing[b]
    BY <1>1
  <2>2. /\ RoundsOf!Proceed(Members \ {a}, running \ {a})
        /\ Members' = Members \ {a} /\ running' \subseteq (running \ {a}) \union Members'
        /\ cycleNum <= cycleNum'
    <3> DEFINE reg == registered \ {a}
               pen == pending \ {a}
               run == running \ {a}
    <3>1. /\ reg \in SUBSET Agents /\ pen \in SUBSET Agents /\ run \in SUBSET running
          /\ NextCycleIfPossible(reg, pen, run) /\ reg \union pen = Members \ {a}
      BY <1>2, <1>3, <2>1
    <3> HIDE DEF reg, pen, run
    <3>2. /\ RoundsOf!Proceed(reg \union pen, run)
          /\ Members' = reg \union pen /\ running' \subseteq run \union Members'
          /\ cycleNum <= cycleNum'
      BY <2>1, <3>1, ProceedStep
    <3> QED
      BY <3>1, <3>2 DEF run
  <2>3. RoundsOf!Leave(a)
    BY <2>2 DEF RoundsOf!Leave, Members
  <2> QED
    BY <2>2, <2>3 DEF RoundsMove
<1>4. CASE a \notin running /\ registered' = registered \ {a} /\ pending' = pending \ {a}
           /\ UNCHANGED <<running, cycleNum, tasks>>
  <2>1. Members' = Members \ {a} /\ running \ {a} = running
    BY <1>4 DEF Members
  <2>2. running # {} \/ Members \ {a} = {}
    BY DEF Members, RoundsInv, Typed, ControlOK, NeverStalls
  <2>3. Performing' = Performing \intersect running
    BY <1>4 DEF Performing
  <2>4. RoundsOf!Leave(a)
    BY <1>4, <2>1, <2>2, <2>3 DEF RoundsOf!Leave, RoundsOf!Proceed, Members
  <2> QED
    BY <1>1, <1>4, <2>1, <2>4 DEF RoundsMove
<1> QED
  BY <1>3, <1>4 DEF RemoveAgent

\* agentCycleFinished: the agent is let go, if it was waited for.
LEMMA FinishedMove ==
  ASSUME RoundsInv, NEW a \in Agents, AgentCycleFinished(a),
         a \in running => a \in Performing \union Excused,
         \A b \in Agents : doing'[b] = doing[b] \/ (b = a /\ doing'[b] = None)
  PROVE  /\ RoundsMove /\ cycleNum <= cycleNum'
         /\ (Members \union running)' \subseteq Members \union running
<1> DEFINE ws == {a} \intersect running
<1>1. /\ running \ {a} = running \ ws /\ running \ ws \in SUBSET running
      /\ ws \in SUBSET Agents /\ ws \subseteq running /\ ws \subseteq Performing \union Excused
  OBVIOUS
<1>2. \A b \in Agents : doing'[b] = doing[b] \/ (b \notin running \ ws /\ doing'[b] = None)
  OBVIOUS
<1> HIDE DEF ws
<1>3. /\ NextCycleIfPossible(registered, pending, running \ ws)
      /\ registered \in SUBSET Agents /\ pending \in SUBSET Agents
  BY <1>1 DEF AgentCycleFinished, RoundsInv, Typed, ControlOK
<1>4. /\ RoundsOf!Proceed(Members, running \ ws)
      /\ Members' = Members /\ running' \subseteq (running \ ws) \union Members'
      /\ cycleNum <= cycleNum'
  BY <1>1, <1>2, <1>3, ProceedStep DEF Members
<1>5. RoundsOf!LetGo(ws)
  BY <1>1, <1>4 DEF RoundsOf!LetGo, Members
<1> QED
  BY <1>1, <1>4, <1>5 DEF RoundsMove

\* onTimeout lets nobody go.
LEMMA NobodyMove ==
  ASSUME RoundsInv, NextCycleIfPossible(registered, pending, running), UNCHANGED doing
  PROVE  /\ RoundsMove /\ cycleNum <= cycleNum'
         /\ (Members \union running)' \subseteq Members \union running
<1>1. /\ registered \in SUBSET Agents /\ pending \in SUBSET Agents
      /\ running \ {} = running /\ running \in SUBSET running
  BY DEF RoundsInv, Typed, ControlOK
<1>2. /\ RoundsOf!Proceed(Members, running)
      /\ Members' = Members /\ running' \subseteq running \union Members'
      /\ cycleNum <= cycleNum'
  BY <1>1, ProceedStep DEF Members
<1>3. RoundsOf!LetGo({})
  BY <1>1, <1>2 DEF RoundsOf!LetGo, Members
<1> QED
  BY <1>2, <1>3 DEF RoundsMove

-----------------------------------------------------------------------------
(* The steps as moves of the rounds *)

RoundsStep == RoundsMove /\ RoundsOK' /\ Excused \subseteq Excused'

LEMMA ExcusedKept ==
  ASSUME RoundsInv, abandoned \subseteq abandoned',
         \A b \in Agents : starts'[b] = starts[b] \/ starts'[b] = starts[b] + 1
  PROVE  Excused \subseteq Excused'
<1>1. \A b \in Agents : starts[b] \in Nat
  BY DEF RoundsInv, Typed, AgentTypes
<1>2. \A b \in Agents : starts[b] > 1 => starts'[b] > 1
  BY <1>1
<1> QED
  BY <1>2 DEF Excused

LEMMA AwakeStep ==
  ASSUME RoundsInv, Typed', NEW a \in Agents,
         \/ StartAgent(a)
         \/ OtherMessage(a)
         \/ \E n \in Cycles : PerformCycle(a, n) /\ a \in alive /\ sleeping[a]
  PROVE  RoundsStep
<1>1. \A b \in Agents : doing'[b] = doing[b] \/ (b \notin running /\ doing'[b] <= cycleNum)
  <2>1. ASSUME NEW n \in Cycles, PerformCycle(a, n), a \in alive, sleeping[a]
        PROVE  <1>1
    <3>1. n <= cycleNum /\ a \notin running
      BY <2>1 DEF PerformCycle, RoundsInv, LockstepInv, HandedOutOnce, RoundsOK
    <3>2. doing' = [doing EXCEPT ![a] = n]
      BY <2>1 DEF PerformCycle
    <3> QED
      BY <3>1, <3>2 DEF RoundsInv, Typed, AgentTypes
  <2> QED
    BY <2>1 DEF StartAgent, OtherMessage
<1>2. AddAgent(a) /\ ~sleeping'[a]
      /\ \A b \in Agents : b # a => sleeping'[b] = sleeping[b]
  BY DEF StartAgent, OtherMessage, PerformCycle, WakeUp, RoundsInv, Typed, AgentTypes
<1>3. /\ UNCHANGED <<leftover, abandoned>>
      /\ \A b \in Agents : starts'[b] = starts[b] \/ starts'[b] = starts[b] + 1
  BY DEF StartAgent, OtherMessage, PerformCycle, RoundsInv, Typed, AgentTypes
<1>4. /\ RoundsMove /\ cycleNum <= cycleNum'
      /\ (Members \union running)' \subseteq Members \union running \union {a}
  BY <1>1, <1>2, AddMove
<1>5. \A b \in Agents : sleeping'[b] => b \notin (Members \union running)'
  BY <1>2, <1>4 DEF RoundsInv, RoundsOK
<1>6. RoundsOK'
  BY <1>1, <1>3, <1>4, <1>5, RoundsOKKept
<1> QED
  BY <1>3, <1>4, <1>6, ExcusedKept DEF RoundsStep

\* A message of the current cycle starts the work of an agent that is awake.
LEMMA PerformStep ==
  ASSUME RoundsInv, Typed', NEW a \in Agents, NEW n \in Cycles, PerformCycle(a, n)
  PROVE  RoundsStep
<1>1. n <= cycleNum /\ UNCHANGED <<leftover, abandoned, starts>>
  BY DEF PerformCycle, RoundsInv, LockstepInv, HandedOutOnce
<1>2. Excused \subseteq Excused'
  BY <1>1, ExcusedKept
<1>3. cycleNum \in Nat
  BY DEF RoundsInv, Typed, ControlOK, Cycles
<1>4. CASE a \in alive /\ sleeping[a]
  BY <1>4, AwakeStep
<1>5. CASE a \notin alive
  <2>1. UNCHANGED <<controlVars, sleeping, doing>>
    BY <1>5 DEF PerformCycle
  <2>2. RoundsMove /\ UNCHANGED <<Members, running, cycleNum>>
    BY <2>1, StutterMove
  <2>3. RoundsOK'
    BY <1>1, <2>1, <2>2 DEF RoundsInv, RoundsOK
  <2> QED
    BY <1>2, <2>2, <2>3 DEF RoundsStep
<1>6. CASE a \in alive /\ ~sleeping[a]
  <2>1. /\ UNCHANGED controlVars /\ doing' = [doing EXCEPT ![a] = n] /\ doing[a] = None
        /\ sleeping' = [sleeping EXCEPT ![a] = FALSE]
    BY <1>6 DEF PerformCycle, WakeUp
  <2>2. UNCHANGED <<Members, running, cycleNum>>
    BY <2>1 DEF controlVars, Members
  <2>3. /\ \A b \in Agents : doing'[b] = IF b = a THEN n ELSE doing[b]
        /\ \A b \in Agents : sleeping'[b] => sleeping[b]
    BY <2>1 DEF RoundsInv, Typed, AgentTypes
  <2>4. RoundsOK'
    BY <1>1, <2>2, <2>3 DEF RoundsInv, RoundsOK
  <2>5. cycleNum # None /\ running \subseteq Agents
    BY BoundsNat DEF RoundsInv, Typed, ControlOK, Cycles, None
  <2>6. CASE n = cycleNum /\ a \in running
    <3>1. Performing' = Performing \union {a}
      BY <2>2, <2>3, <2>5, <2>6 DEF Performing
    <3>2. RoundsOf!Work(a)
      BY <2>2, <2>6, <3>1 DEF RoundsOf!Work, Members
    <3> QED
      BY <1>2, <2>4, <3>2 DEF RoundsStep, RoundsMove
  <2>7. CASE ~(n = cycleNum /\ a \in running)
    <3>1. Performing' = Performing \ {}
      BY <2>1, <2>2, <2>3, <2>5, <2>7 DEF Performing
    <3>2. RoundsOf!Fail({})
      BY <2>2, <3>1 DEF RoundsOf!Fail, Members
    <3> QED
      BY <1>2, <2>4, <3>2 DEF RoundsStep, RoundsMove
  <2> QED
    BY <2>6, <2>7
<1> QED
  BY <1>4, <1>5, <1>6

\* An agent that goes to sleep or is terminated leaves.
LEMMA LeaveStep ==
  ASSUME RoundsInv, Typed', NEW a \in Agents,
         TerminateAgent(a) \/ Sleep(a) \/ LeftoverSleep(a)
  PROVE  RoundsStep
<1>1. /\ RemoveAgent(a) /\ UNCHANGED <<doing, leftover, abandoned, starts>>
      /\ \A b \in Agents : b # a => sleeping'[b] = sleeping[b]
  BY DEF TerminateAgent, Sleep, LeftoverSleep, agentVars, RoundsInv, Typed, AgentTypes
<1>2. /\ RoundsMove /\ cycleNum <= cycleNum'
      /\ (Members \union running)' \subseteq (Members \union running) \ {a}
  BY <1>1, RemoveMove
<1>3. \A b \in Agents : sleeping'[b] => b \notin (Members \union running)'
  BY <1>1, <1>2 DEF RoundsInv, RoundsOK
<1>4. RoundsOK'
  BY <1>1, <1>2, <1>3, RoundsOKKept
<1> QED
  BY <1>1, <1>2, <1>4, ExcusedKept DEF RoundsStep

\* An agent that finishes a cycle and is waited for has performed the current
\* one, if it is in its first instance; one left behind is of a stopped agent.
LEMMA FinishStep ==
  ASSUME RoundsInv, Typed', NEW a \in Agents, FinishCycle(a) \/ LeftoverFinish(a)
  PROVE  RoundsStep
<1>1. /\ AgentCycleFinished(a) /\ UNCHANGED <<abandoned, starts, sleeping>>
      /\ \A b \in Agents : doing'[b] = doing[b] \/ (b = a /\ doing'[b] = None)
      /\ \A b \in Agents : leftover'[b] # None => leftover[b] # None
  BY DEF FinishCycle, LeftoverFinish, RoundsInv, Typed, AgentTypes
<1>2. ASSUME a \in running
      PROVE  a \in Performing \union Excused
  <2>1. CASE LeftoverFinish(a)
    BY <2>1 DEF LeftoverFinish, RoundsInv, RoundsOK, Excused
  <2>2. CASE FinishCycle(a)
    <3>1. doing[a] # None /\ a \in alive /\ starts[a] \in Nat /\ starts[a] # 0
      BY <2>2 DEF FinishCycle, RoundsInv, LockstepInv, AgentOK, Unknown, Typed, AgentTypes
    <3>2. starts[a] = 1 => InStep(a)
      BY <3>1 DEF RoundsInv, LockstepInv, AgentOK
    <3>3. starts[a] = 1 => a \in Performing
      BY <1>2, <3>1, <3>2 DEF InStep, Performing
    <3> QED
      BY <3>1, <3>3 DEF Excused
  <2> QED
    BY <2>1, <2>2
<1>3. /\ RoundsMove /\ cycleNum <= cycleNum'
      /\ (Members \union running)' \subseteq Members \union running
  BY <1>1, <1>2, FinishedMove
<1>4. \A b \in Agents : sleeping'[b] => b \notin (Members \union running)'
  BY <1>1, <1>3 DEF RoundsInv, RoundsOK
<1>5. RoundsOK'
  BY <1>1, <1>3, <1>4, RoundsOKKept
<1> QED
  BY <1>1, <1>3, <1>5, ExcusedKept DEF RoundsStep

\* Agents that are stopped or lost with their node are excused.
LEMMA FailStep ==
  ASSUME RoundsInv, Typed', NEW ws \in SUBSET Agents,
         UNCHANGED <<controlVars, sleeping, starts>>,
         \A b \in Agents : doing'[b] = IF b \in ws THEN None ELSE doing[b],
         \A b \in Agents : leftover'[b] # None => leftover[b] # None \/ b \in ws,
         abandoned \union ws \subseteq abandoned'
  PROVE  RoundsStep
<1>1. Excused \subseteq Excused' /\ ws \subseteq Excused'
  BY ExcusedKept DEF Excused
<1>2. RoundsMove /\ UNCHANGED <<Members, running, cycleNum>>
  BY <1>1, FailMove
<1>3. cycleNum <= cycleNum' /\ (Members \union running)' = Members \union running
  BY <1>2 DEF RoundsInv, Typed, ControlOK, Cycles
<1>4. \A b \in Agents : sleeping'[b] => b \notin (Members \union running)'
  BY <1>3 DEF RoundsInv, RoundsOK
<1>5. RoundsOK'
  BY <1>3, <1>4, RoundsOKKept
<1> QED
  BY <1>1, <1>2, <1>5 DEF RoundsStep

\* A timeout, or a report of a view change.
LEMMA TimeoutStep ==
  ASSUME RoundsInv, Typed', NextCycleIfPossible(registered, pending, running), UNCHANGED agentVars
  PROVE  RoundsStep
<1>1. UNCHANGED <<doing, sleeping, leftover, abandoned, starts>>
  BY DEF agentVars
<1>2. /\ RoundsMove /\ cycleNum <= cycleNum'
      /\ (Members \union running)' \subseteq Members \union running
  BY <1>1, NobodyMove
<1>3. \A b \in Agents : sleeping'[b] => b \notin (Members \union running)'
  BY <1>1, <1>2 DEF RoundsInv, RoundsOK
<1>4. RoundsOK'
  BY <1>1, <1>2, <1>3, RoundsOKKept
<1> QED
  BY <1>1, <1>2, <1>4, ExcusedKept DEF RoundsStep

LEMMA NextRounds ==
  ASSUME RoundsInv, Typed', [Next]_vars
  PROVE  RoundsStep
<1>1. ASSUME UNCHANGED <<controlVars, agentVars>>
      PROVE  RoundsStep
  <2>1. UNCHANGED <<controlVars, doing, sleeping, leftover, abandoned, starts>>
    BY <1>1 DEF agentVars
  <2> QED
    BY <2>1, FailStep, {} \in SUBSET Agents
<1>2. ASSUME NEW n \in Cycles, OnTimeout(n)
      PROVE  RoundsStep
  BY <1>1, <1>2, TimeoutStep DEF OnTimeout
<1>3. CASE ViewReported
  BY <1>3, TimeoutStep DEF ViewReported
<1>4. ASSUME NEW k \in tasks, PostCycle(k) \/ ArmTimeout(k)
      PROVE  RoundsStep
  BY <1>1, <1>4 DEF PostCycle, ArmTimeout
<1>5. ASSUME NEW a \in Agents, StopAgent(a)
      PROVE  RoundsStep
  <2>1. /\ UNCHANGED <<controlVars, sleeping, starts>> /\ abandoned' = abandoned \union {a}
        /\ \A b \in Agents : doing'[b] = IF b \in {a} THEN None ELSE doing[b]
        /\ \A b \in Agents : leftover'[b] # None => leftover[b] # None \/ b \in {a}
    BY <1>5 DEF StopAgent, LeaveBehind, RoundsInv, Typed, AgentTypes
  <2> QED
    BY <2>1, FailStep, {a} \in SUBSET Agents
<1>6. CASE NodeJoins \/ NodeFails
  <2>1. PICK dead \in SUBSET Agents, lost \in SUBSET tasks : ViewChange(dead, lost)
    BY <1>6 DEF NodeJoins, NodeFails, RoundsInv, Typed, AgentTypes
  <2>2. /\ UNCHANGED <<controlVars, sleeping, starts, leftover>>
        /\ \A b \in Agents : doing'[b] = IF b \in dead THEN None ELSE doing[b]
        /\ abandoned \union dead \subseteq abandoned'
    BY <2>1 DEF ViewChange
  <2> QED
    BY <2>2, FailStep
<1>7. ASSUME NEW a \in Agents, AgentStep(a)
      PROVE  RoundsStep
  BY <1>5, <1>7, AwakeStep, LeaveStep, FinishStep DEF AgentStep
<1>8. CASE UNCHANGED vars
  BY <1>1, <1>8 DEF vars
<1> QED
  BY <1>2, <1>3, <1>4, <1>6, <1>7, <1>8, PerformStep DEF Next

\* The bean implements Rounds: every step of its methods, of the agents, the
\* messages, the timeouts and the cluster is a step of the rounds, or shows
\* nothing, for any set of agents and any bounds.
THEOREM RoundsImplemented == Spec => ImplementsRounds
<1>1. Init => RoundsInv
  <2>1. Init => RoundsOK
    BY DEF Init, RoundsOK, Members
  <2> QED
    BY <2>1, InitTyped, InitLockstep DEF RoundsInv
<1>2. Init => RoundsOf!Init
  <2>1. Init => Excused = {} /\ Performing = {}
    BY DEF Init, Excused, Performing
  <2> QED
    BY <2>1 DEF Init, RoundsOf!Init
<1>3. RoundsInv /\ [Next]_vars => RoundsInv' /\ [RoundsOf!Next]_(RoundsOf!vars)
  <2> SUFFICES ASSUME RoundsInv, [Next]_vars PROVE RoundsInv' /\ RoundsOf!Next
    OBVIOUS
  <2>1. Typed' /\ LockstepInv'
    BY TypesKept, LockstepInductive DEF RoundsInv
  <2>2. RoundsStep
    BY <2>1, NextRounds
  <2>3. Excused' \subseteq Agents
    BY <2>1 DEF Excused, Typed, AgentTypes
  <2>4. RoundsOf!Next
    BY <2>2, <2>3 DEF RoundsStep, RoundsMove, RoundsOf!Next
  <2> QED
    BY <2>1, <2>2, <2>4 DEF RoundsInv, RoundsStep
<1> QED
  BY <1>1, <1>2, <1>3, PTL DEF Spec, ImplementsRounds, RoundsOf!Spec

-----------------------------------------------------------------------------
(* Nobody the control waits for is forgotten. *)

\* Agent b is at work, or the current cycle could not be sent to it.
Handed(b) == AtWork(b) \/ cycleNum \in missed[b]

\* An agent of the control is up, and was handed the cycle where it is waited
\* for, unless it was stopped or lost: the control is never told of that.
Served(b) ==
  \/ b \in abandoned
  \/ /\ b \in Members => b \in alive
     /\ b \in running => Handed(b)

ServedInv == Typed /\ \A b \in Agents : Served(b)

\* nextCycleIfPossible serves whoever it puts to work, and takes nothing from
\* the others.
LEMMA NextCycleServes ==
  ASSUME Typed, NEW reg \in SUBSET Agents, NEW pen \in SUBSET Agents, NEW run \in SUBSET running,
         NextCycleIfPossible(reg, pen, run), NEW b \in Agents,
         b \in reg \union pen => b \in alive',
         b \in run => \/ doing'[b] # None
                      \/ Handed(b) /\ doing'[b] = doing[b] /\ inbox'[b] = inbox[b] /\ missed' = missed
  PROVE  Served(b)'
<1>1. CASE CanProceed(reg, pen, run) /\ InformAll(reg, pen)
  <2> DEFINE t == [cycle |-> cycleNum + 1, to |-> reg \union pen, posted |-> FALSE]
  <2>1. /\ cycleNum' = cycleNum + 1 /\ registered' = reg \union pen /\ pending' = {}
        /\ running' = reg \union pen /\ t \in tasks'
    BY <1>1 DEF InformAll
  <2>2. t.cycle = cycleNum' /\ t.to = running' /\ ~t.posted
    BY <2>1
  <2>3. b \in running' => Handed(b)'
    BY <2>1, <2>2 DEF Handed, AtWork
  <2> QED
    BY <2>1, <2>3 DEF Served, Members
<1>2. CASE registered' = reg /\ pending' = pen /\ running' = run /\ UNCHANGED <<cycleNum, tasks>>
  <2>1. b \in running' => Handed(b)'
    BY <1>2 DEF Handed, AtWork, None
  <2> QED
    BY <1>2, <2>1 DEF Served, Members
<1> QED
  BY <1>1, <1>2 DEF NextCycleIfPossible

\* What leaves the fields of the bean, the tasks, and agent b alone.
LEMMA UntouchedServes ==
  ASSUME NEW b \in Agents, Served(b), UNCHANGED <<controlVars, tasks>>, abandoned \subseteq abandoned',
         b \in alive => b \in alive', doing'[b] = doing[b], inbox'[b] = inbox[b] /\ missed' = missed
  PROVE  Served(b)'
BY DEF Served, Members, Handed, AtWork, controlVars, None

\* The timeout, of the bean or of the view listener.
LEMMA TimeoutServes ==
  ASSUME Typed, NEW b \in Agents, Served(b), UNCHANGED <<inbox, agentVars, missed>>,
         \/ NextCycleIfPossible(registered, pending, running)
         \/ UNCHANGED controlVars /\ UNCHANGED tasks
  PROVE  Served(b)'
<1>1. UNCHANGED <<alive, doing, abandoned>> /\ inbox' = inbox
  BY DEF agentVars
<1>2. CASE b \in abandoned
  BY <1>1, <1>2 DEF Served
<1>3. CASE b \notin abandoned /\ NextCycleIfPossible(registered, pending, running)
  <2>1. /\ registered \in SUBSET Agents /\ pending \in SUBSET Agents /\ running \in SUBSET running
        /\ b \in registered \union pending => b \in alive'
        /\ b \in running => Handed(b) /\ doing'[b] = doing[b] /\ inbox'[b] = inbox[b] /\ missed' = missed
    BY <1>1, <1>3 DEF Served, Members, Typed, ControlOK
  <2> QED
    BY <1>3, <2>1, NextCycleServes
<1>4. CASE UNCHANGED <<controlVars, tasks>>
  BY <1>1, <1>4, UntouchedServes
<1> QED
  BY <1>2, <1>3, <1>4

\* addAgent, of an agent that is up.
LEMMA AddServes ==
  ASSUME Typed, NEW a \in Agents, AddAgent(a), NEW b \in Agents, Served(b), abandoned' = abandoned,
         a \in alive', alive \subseteq alive',
         \/ doing'[b] = doing[b] /\ inbox'[b] = inbox[b] /\ missed' = missed
         \/ doing'[b] # None
  PROVE  Served(b)'
<1>1. CASE b \in abandoned
  BY <1>1 DEF Served
<1>2. CASE b \notin abandoned
  <2>1. /\ registered \in SUBSET Agents /\ pending \union {a} \in SUBSET Agents
        /\ running \in SUBSET running
    BY DEF Typed, ControlOK
  <2>2. /\ b \in registered \union (pending \union {a}) => b \in alive'
        /\ b \in running => Handed(b)
    BY <1>2 DEF Served, Members
  <2>3. NextCycleIfPossible(registered, pending \union {a}, running)
    BY DEF AddAgent
  <2> QED
    BY <2>1, <2>2, <2>3, NextCycleServes
<1> QED
  BY <1>1, <1>2

\* removeAgent, after which nobody waits for the agent, and agentCycleFinished.
LEMMA RemoveServes ==
  ASSUME Typed, NEW a \in Agents, NEW b \in Agents, Served(b), abandoned' = abandoned,
         \/ RemoveAgent(a) /\ (b # a => (b \in alive => b \in alive'))
         \/ AgentCycleFinished(a) /\ alive' = alive,
         b # a => doing'[b] = doing[b],
         inbox'[b] = inbox[b] /\ missed' = missed
  PROVE  Served(b)'
<1>1. CASE b \in abandoned
  BY <1>1 DEF Served
<1>2. CASE b \notin abandoned
  <2>1. /\ b \in Members => b \in alive
        /\ b \in running => Handed(b)
    BY <1>2 DEF Served
  <2>2. /\ registered \ {a} \in SUBSET Agents /\ pending \ {a} \in SUBSET Agents
        /\ registered \in SUBSET Agents /\ pending \in SUBSET Agents
        /\ running \ {a} \in SUBSET running
    BY DEF Typed, ControlOK
  <2>3. b \in running \ {a} => Handed(b) /\ doing'[b] = doing[b] /\ inbox'[b] = inbox[b] /\ missed' = missed
    BY <2>1
  <2>4. CASE RemoveAgent(a) /\ a \in running /\ (b # a => (b \in alive => b \in alive'))
    <3>1. NextCycleIfPossible(registered \ {a}, pending \ {a}, running \ {a})
      BY <2>4 DEF RemoveAgent
    <3>2. b \in (registered \ {a}) \union (pending \ {a}) => b \in alive'
      BY <2>1, <2>4 DEF Members
    <3> QED
      BY <2>2, <2>3, <3>1, <3>2, NextCycleServes
  <2>5. CASE RemoveAgent(a) /\ a \notin running /\ (b # a => (b \in alive => b \in alive'))
    <3>1. /\ registered' = registered \ {a} /\ pending' = pending \ {a}
          /\ UNCHANGED <<running, cycleNum, tasks>>
      BY <2>5 DEF RemoveAgent
    <3>2. b \in Members' => b \in alive'
      BY <2>1, <2>5, <3>1 DEF Members
    <3>3. b \in running' => Handed(b)'
      BY <2>1, <2>3, <2>5, <3>1 DEF Handed, AtWork, None
    <3> QED
      BY <3>2, <3>3 DEF Served
  <2>6. CASE AgentCycleFinished(a) /\ alive' = alive
    <3>1. NextCycleIfPossible(registered, pending, running \ {a})
      BY <2>6 DEF AgentCycleFinished
    <3>2. b \in registered \union pending => b \in alive'
      BY <2>1, <2>6 DEF Members
    <3> QED
      BY <2>2, <2>3, <3>1, <3>2, NextCycleServes
  <2> QED
    BY <2>4, <2>5, <2>6
<1> QED
  BY <1>1, <1>2

LEMMA AgentServes ==
  ASSUME Typed, NEW a \in Agents, AgentStep(a), NEW b \in Agents, Served(b)
  PROVE  Served(b)'
<1>1. doing \in [Agents -> Cycles \union {None}]
  BY DEF Typed, AgentTypes
<1>2. CASE StartAgent(a)
  BY <1>2, AddServes DEF StartAgent
<1>3. CASE StopAgent(a)
  <2>1. CASE b = a
    BY <1>3, <2>1 DEF StopAgent, Served
  <2>2. CASE b # a
    <3>1. doing'[b] = doing[b]
      BY <1>1, <1>3, <2>2 DEF StopAgent, LeaveBehind
    <3> QED
      BY <1>3, <2>2, <3>1, UntouchedServes DEF StopAgent
  <2> QED
    BY <2>1, <2>2
<1>4. CASE TerminateAgent(a)
  BY <1>4, RemoveServes DEF TerminateAgent
<1>5. CASE OtherMessage(a)
  BY <1>5, AddServes, UntouchedServes DEF OtherMessage, WakeUp
<1>6. CASE Sleep(a)
  BY <1>6, RemoveServes DEF Sleep
<1>7. CASE FinishCycle(a)
  <2>1. b # a => doing'[b] = doing[b]
    BY <1>1, <1>7 DEF FinishCycle
  <2> QED
    BY <1>7, <2>1, RemoveServes DEF FinishCycle
<1>8. CASE LeftoverSleep(a)
  BY <1>8, RemoveServes DEF LeftoverSleep, agentVars
<1>9. CASE LeftoverFinish(a)
  BY <1>9, RemoveServes DEF LeftoverFinish
<1> QED
  BY <1>2, <1>3, <1>4, <1>5, <1>6, <1>7, <1>8, <1>9 DEF AgentStep

\* The cycle that an agent takes from its inbox it performs.
LEMMA PerformServes ==
  ASSUME Typed, NEW a \in Agents, NEW n \in Cycles, PerformCycle(a, n), NEW b \in Agents, Served(b)
  PROVE  Served(b)'
<1>1. /\ doing \in [Agents -> Cycles \union {None}] /\ inbox \in [Agents -> SUBSET Cycles]
      /\ n # None
  BY BoundsNat DEF Typed, AgentTypes, Cycles, None
<1>2. /\ UNCHANGED <<alive, abandoned>>
      /\ b # a => inbox'[b] = inbox[b] /\ missed' = missed
  BY <1>1 DEF PerformCycle
<1>3. CASE a \in alive /\ WakeUp(a) /\ doing' = [doing EXCEPT ![a] = n]
  <2>1. (doing'[b] = doing[b] /\ inbox'[b] = inbox[b] /\ missed' = missed) \/ doing'[b] # None
    BY <1>1, <1>2, <1>3 DEF None
  <2>2. CASE AddAgent(a)
    BY <1>2, <1>3, <2>1, <2>2, AddServes
  <2>3. CASE UNCHANGED <<controlVars, tasks>>
    BY <1>2, <2>1, <2>3 DEF Served, Members, Handed, AtWork, controlVars, None
  <2> QED
    BY <1>3, <2>2, <2>3 DEF WakeUp
<1>4. CASE a \notin alive /\ UNCHANGED <<controlVars, tasks, sleeping, doing>>
  <2>1. CASE b = a
    <3>1. b \in abandoned \/ b \notin Members
      BY <1>4, <2>1 DEF Served
    <3>2. running \subseteq Members
      BY DEF Typed, ControlOK, WaitsForRegistered, Members
    <3> QED
      BY <1>2, <1>4, <3>1, <3>2 DEF Served, Members, controlVars
  <2>2. CASE b # a
    BY <1>2, <1>4, <2>2, UntouchedServes
  <2> QED
    BY <2>1, <2>2
<1> QED
  BY <1>3, <1>4 DEF PerformCycle

\* The executor moves a message from its task to the inbox, or fails to.
LEMMA ExecutorServes ==
  ASSUME Typed, NEW k \in tasks, PostCycle(k) \/ ArmTimeout(k), NEW b \in Agents, Served(b)
  PROVE  Served(b)'
<1>1. UNCHANGED <<registered, pending, running, cycleNum, alive, doing, abandoned>>
  BY DEF PostCycle, ArmTimeout, controlVars, agentVars
<1>2. Handed(b) => Handed(b)'
  <2>1. CASE PostCycle(k)
    <3>1. /\ inbox[b] \subseteq inbox'[b] /\ missed[b] \subseteq missed'[b]
          /\ b \in k.to => k.cycle \in inbox'[b] \union missed'[b]
          /\ \A l \in tasks : l # k => l \in tasks'
      BY <2>1 DEF PostCycle, SentTo
    <3> QED
      BY <1>1, <3>1 DEF Handed, AtWork, None
  <2>2. CASE ArmTimeout(k)
    <3>1. inbox' = inbox /\ missed' = missed /\ \A l \in tasks : ~l.posted => l \in tasks'
      BY <2>2 DEF ArmTimeout
    <3> QED
      BY <1>1, <3>1 DEF Handed, AtWork, None
  <2> QED
    BY <2>1, <2>2
<1> QED
  BY <1>1, <1>2 DEF Served, Members

\* Whom a failed node takes along, or the cycle for whom, is abandoned.
LEMMA ViewServes ==
  ASSUME Typed, NEW dead \in SUBSET Agents, NEW lost \in SUBSET tasks, ViewChange(dead, lost),
         NEW b \in Agents, Served(b)
  PROVE  Served(b)'
<1>1. /\ UNCHANGED <<registered, pending, running, cycleNum, inbox, missed>>
      /\ alive' = alive \ dead /\ tasks' = tasks \ lost
      /\ doing'[b] = IF b \in dead THEN None ELSE doing[b]
      /\ abandoned' = abandoned \union dead \union UNION {k.to : k \in lost}
  BY DEF ViewChange, controlVars
<1> SUFFICES ASSUME b \notin abandoned' PROVE Served(b)'
  BY DEF Served
<1>2. b \notin abandoned /\ b \notin dead /\ \A k \in lost : b \notin k.to
  BY <1>1
<1>3. Handed(b) => Handed(b)'
  BY <1>1, <1>2 DEF Handed, AtWork, None
<1> QED
  BY <1>1, <1>2, <1>3 DEF Served, Members

LEMMA NextServes ==
  ASSUME Typed, [Next]_vars, NEW b \in Agents, Served(b)
  PROVE  Served(b)'
<1>1. ASSUME NEW n \in Cycles, OnTimeout(n)
      PROVE  Served(b)'
  BY <1>1, TimeoutServes DEF OnTimeout
<1>2. CASE ViewReported
  BY <1>2, TimeoutServes DEF ViewReported
<1>3. CASE NodeJoins \/ NodeFails
  <2>1. \E dead \in SUBSET Agents, lost \in SUBSET tasks : ViewChange(dead, lost)
    BY <1>3 DEF NodeJoins, NodeFails, Typed, AgentTypes
  <2> QED
    BY <2>1, ViewServes
<1>4. CASE UNCHANGED vars
  BY <1>4, UntouchedServes DEF vars, agentVars
<1> QED
  BY <1>1, <1>2, <1>3, <1>4, ExecutorServes, AgentServes, PerformServes DEF Next

\* Whoever the control waits for is at work, unless it was stopped or lost or the
\* cycle could not be sent to it, for any set of agents and any bounds.
THEOREM WaitsForTheBusy == Spec => []NobodyForgotten
<1>1. Init => ServedInv
  <2>1. Init => \A b \in Agents : Served(b)
    BY DEF Init, Served, Members
  <2> QED
    BY <2>1, InitTyped DEF ServedInv
<1>2. ServedInv /\ [Next]_vars => ServedInv'
  BY TypesKept, NextServes DEF ServedInv
<1>3. ServedInv => NobodyForgotten
  BY DEF ServedInv, Served, Handed, NobodyForgotten, Members, Typed, ControlOK, WaitsForRegistered
<1> QED
  BY <1>1, <1>2, <1>3, PTL DEF Spec
=============================================================================
