---------------------------- MODULE BarrierProofs ----------------------------
(***************************************************************************)
(* The safety invariants of Barrier, for any finite set of agents and any  *)
(* value of the bounds.  Their conjunction is inductive as it stands:      *)
(* NeverStalls needs WaitsForMembersOnly (a member that is deregistered    *)
(* while it is not in processing leaves processing as it was), and every   *)
(* part needs the types.  The second part adds what is on its way between  *)
(* the barrier and an agent, for SynchronousRelease; with both, the third  *)
(* one shows that the barrier implements Rounds, and the last one that it  *)
(* forgets nobody.                                                         *)
(***************************************************************************)
EXTENDS Barrier, FiniteSetTheorems, TLAPS

Inv == TypeOK /\ WaitsForMembersOnly /\ NeverStalls /\ TimerArmed

\* What one handler does with the barrier's own state, whichever handler it
\* is: the state is left alone, or a superstep is started.
SuperstepStarted ==
  /\ superstep < MaxSuperstep
  /\ superstep' = superstep + 1
  /\ processing' = registered'
  /\ registered' # {}

\* The superstep message posted to any agents keeps the type of signals.
LEMMA SignalledType ==
  ASSUME TypeOK, NEW s \in Supersteps, NEW c \in [Agents -> Nat]
  PROVE  Signalled(s, c) \in [Agents -> [Supersteps -> Nat]]
BY DEF TypeOK, Signalled

\* The copies that filterUnavailableAgents posts are finitely many.
LEMMA FilterCopiesType ==
  ASSUME TypeOK, NEW c \in FilterCopies
  PROVE  c \in [Agents -> Nat]
<1>1. IsFiniteSet(processing \intersect alive)
  BY AgentsFinite, FS_Subset DEF TypeOK
<1>2. Cardinality(processing \intersect alive) \in Nat
  BY <1>1, FS_CardinalityType
<1>3. QED
  BY <1>2 DEF FilterCopies

\* Starting a superstep: types, and the timeouts stay in order.
LEMMA StartSuperstepFacts ==
  ASSUME Inv, NEW reg \in SUBSET Agents, NEW tmr \in [Supersteps -> Nat],
         StartSuperstep(reg, tmr),
         \A s \in Supersteps : tmr[s] <= timers[s]
  PROVE  /\ superstep' \in Supersteps
         /\ superstep' = superstep + 1
         /\ processing' = reg
         /\ signals' \in [Agents -> [Supersteps -> Nat]]
         /\ timers' \in [Supersteps -> Nat]
         /\ TimerArmed'
<1>1. superstep' \in Supersteps /\ superstep' = superstep + 1 /\ processing' = reg
  BY BoundsNat DEF Inv, TypeOK, StartSuperstep, Supersteps
<1>2. signals' \in [Agents -> [Supersteps -> Nat]]
  BY <1>1, SignalledType DEF Inv, StartSuperstep
<1>3. timers' \in [Supersteps -> Nat]
  BY <1>1 DEF StartSuperstep, One
<1>4. TimerArmed'
  BY <1>1, <1>3, BoundsNat DEF Inv, TypeOK, TimerArmed, StartSuperstep, One, Supersteps
<1>5. QED
  BY <1>1, <1>2, <1>3, <1>4

\* nextSuperstepIfPossible establishes both set invariants again from any
\* registered set and any part of it.
LEMMA NextSuperstepFacts ==
  ASSUME Inv, NEW reg \in SUBSET Agents, NEW proc \in SUBSET reg,
         NextSuperstepIfPossible(reg, proc), registered' = reg, losses' = losses
  PROVE  /\ superstep' \in Supersteps
         /\ processing' \subseteq Agents
         /\ signals' \in [Agents -> [Supersteps -> Nat]]
         /\ timers' \in [Supersteps -> Nat]
         /\ WaitsForMembersOnly'
         /\ NeverStalls'
         /\ TimerArmed'
<1>1. CASE NextSuperstepPossible(reg, proc) /\ StartSuperstep(reg, timers)
  <2>1. /\ timers \in [Supersteps -> Nat]
        /\ \A s \in Supersteps : timers[s] <= timers[s]
    BY DEF Inv, TypeOK
  <2>2. QED
    BY <1>1, <2>1, StartSuperstepFacts
       DEF NextSuperstepPossible, WaitsForMembersOnly, NeverStalls
<1>2. CASE /\ ~NextSuperstepPossible(reg, proc)
           /\ processing' = proc
           /\ UNCHANGED <<superstep, signals, timers>>
  BY <1>2 DEF Inv, TypeOK, NextSuperstepPossible, WaitsForMembersOnly, NeverStalls, TimerArmed, TimeoutLost
<1>3. QED
  BY <1>1, <1>2 DEF NextSuperstepIfPossible

LEMMA InitInv == Init => Inv
<1>1. Init => twice \in BOOLEAN
  BY DEF Init
<1>2. QED
  BY <1>1, BoundsNat DEF Init, Inv, TypeOK, WaitsForMembersOnly, NeverStalls, TimerArmed, TimeoutLost, Supersteps

LEMMA NextInv == Inv /\ [Next]_vars => Inv'
<1> SUFFICES ASSUME Inv, [Next]_vars PROVE Inv'
  OBVIOUS
<1> USE DEF inboxVars, agentVars
<1>1. ASSUME NEW a \in Agents, RegisterAgent(a) PROVE Inv'
  <2>1. /\ registered \union {a} \in SUBSET Agents
        /\ processing \in SUBSET (registered \union {a})
    BY DEF Inv, TypeOK, WaitsForMembersOnly
  <2>2. subscribes' \in [Agents -> Nat]
    BY <1>1 DEF Inv, TypeOK, RegisterAgent, Taken
  <2>3. QED
    BY <1>1, <2>1, <2>2, NextSuperstepFacts DEF Inv, TypeOK, RegisterAgent
<1>2. ASSUME NEW a \in Agents, DeregisterAgent(a) PROVE Inv'
  <2>1. cancels' \in [Agents -> Nat]
    BY <1>2 DEF Inv, TypeOK, DeregisterAgent, Taken
  <2>2. CASE a \in processing
    <3>1. /\ registered \ {a} \in SUBSET Agents
          /\ processing \ {a} \in SUBSET (registered \ {a})
      BY DEF Inv, TypeOK, WaitsForMembersOnly
    <3>2. QED
      BY <1>2, <2>1, <2>2, <3>1, NextSuperstepFacts DEF Inv, TypeOK, DeregisterAgent
  <2>3. CASE a \notin processing
    BY <1>2, <2>1, <2>3
       DEF Inv, TypeOK, DeregisterAgent, WaitsForMembersOnly, NeverStalls, TimerArmed, TimeoutLost
  <2>4. QED
    BY <2>2, <2>3
<1>3. ASSUME NEW a \in Agents, AgentCompletedSuperstep(a) PROVE Inv'
  <2>1. /\ registered \in SUBSET Agents
        /\ processing \ {a} \in SUBSET registered
    BY DEF Inv, TypeOK, WaitsForMembersOnly
  <2>2. informs' \in [Agents -> Nat]
    BY <1>3 DEF Inv, TypeOK, AgentCompletedSuperstep, Taken
  <2>3. QED
    BY <1>3, <2>1, <2>2, NextSuperstepFacts DEF Inv, TypeOK, AgentCompletedSuperstep
<1>4. ASSUME NEW s \in Supersteps, OnTimeout(s) PROVE Inv'
  <2>0. /\ UNCHANGED <<registered, inboxVars, agentVars, losses>>
        /\ timers[s] > 0
        /\ twice' \in BOOLEAN
    BY <1>4 DEF OnTimeout
  <2>1. /\ Taken(timers, s) \in [Supersteps -> Nat]
        /\ \A r \in Supersteps : Taken(timers, s)[r] <= timers[r]
    BY <2>0 DEF Inv, TypeOK, Taken
  <2>2. CASE s # superstep /\ timers' = Taken(timers, s)
             /\ UNCHANGED <<superstep, processing, signals>>
    <3>1. TimerArmed'
      BY <2>0, <2>1, <2>2, BoundsNat DEF Inv, TypeOK, TimerArmed, TimeoutLost, Taken, Supersteps
    <3>2. QED
      BY <2>0, <2>1, <2>2, <3>1 DEF Inv, TypeOK, WaitsForMembersOnly, NeverStalls
  <2>3. CASE /\ NextSuperstepPossible(registered, processing \intersect alive)
             /\ StartSuperstep(registered, Taken(timers, s))
    <3>1. registered \in SUBSET Agents
      BY DEF Inv, TypeOK
    <3>2. QED
      BY <2>0, <2>1, <2>3, <3>1, StartSuperstepFacts
         DEF Inv, TypeOK, NextSuperstepPossible, WaitsForMembersOnly, NeverStalls
  <2>4. CASE /\ ~NextSuperstepPossible(registered, processing \intersect alive)
             /\ processing' = processing \intersect alive
             /\ \E c \in FilterCopies : signals' = Signalled(s, c)
             /\ UNCHANGED <<superstep, timers>>
    <3>1. signals' \in [Agents -> [Supersteps -> Nat]]
      BY <2>4, SignalledType, FilterCopiesType DEF Inv
    <3>2. QED
      BY <2>0, <2>4, <3>1
         DEF Inv, TypeOK, NextSuperstepPossible, WaitsForMembersOnly, NeverStalls, TimerArmed, TimeoutLost
  <2>5. QED
    BY <1>4, <2>2, <2>3, <2>4 DEF OnTimeout
<1>5. ASSUME NEW a \in Agents, AgentStep(a) PROVE Inv'
  <2>1. /\ UNCHANGED <<barrierVars, timers, signals>>
        /\ UNCHANGED <<informs, performed, losses, twice>>
    BY <1>5 DEF AgentStep, StartAgent, StopAgent, TerminateAgent, Register, Deregister
  <2>2. /\ subscribes' \in [Agents -> Nat]
        /\ cancels' \in [Agents -> Nat]
        /\ starts' \in [Agents -> Nat]
        /\ alive' \subseteq Agents
    <3>1. CASE StartAgent(a)
      BY <3>1 DEF StartAgent, Register, One, Inv, TypeOK
    <3>2. CASE StopAgent(a)
      BY <3>2 DEF StopAgent, Inv, TypeOK
    <3>3. CASE TerminateAgent(a)
      BY <3>3 DEF TerminateAgent, Deregister, One, Inv, TypeOK
    <3>4. QED
      BY <1>5, <3>1, <3>2, <3>3 DEF AgentStep
  <2>3. QED
    BY <2>1, <2>2 DEF barrierVars, Inv, TypeOK, WaitsForMembersOnly, NeverStalls, TimerArmed, TimeoutLost
<1>6. ASSUME NEW a \in Agents, NEW s \in Supersteps, DeliverSuperstep(a, s) PROVE Inv'
  <2>1. UNCHANGED <<barrierVars, timers, subscribes, cancels, alive, starts, losses, twice>>
    BY <1>6 DEF DeliverSuperstep
  <2>2. /\ signals' \in [Agents -> [Supersteps -> Nat]]
        /\ informs' \in [Agents -> Nat]
        /\ performed' \subseteq Agents \X Supersteps
    BY <1>6 DEF DeliverSuperstep, ReportCompleted, One, Taken, Inv, TypeOK
  <2>3. QED
    BY <2>1, <2>2 DEF barrierVars, Inv, TypeOK, WaitsForMembersOnly, NeverStalls, TimerArmed, TimeoutLost
<1>7. ASSUME NEW a \in Agents, LoseSubscribe(a) \/ LoseCancel(a) \/ LoseInform(a)
      PROVE  Inv'
  <2>1. UNCHANGED <<barrierVars, timers, signals, agentVars, twice>> /\ losses' \in Nat /\ losses' > 0
    BY <1>7 DEF LoseSubscribe, LoseCancel, LoseInform, Lose, Inv, TypeOK
  <2>2. /\ subscribes' \in [Agents -> Nat]
        /\ cancels' \in [Agents -> Nat]
        /\ informs' \in [Agents -> Nat]
    <3>1. CASE LoseSubscribe(a)
      BY <3>1 DEF LoseSubscribe, Taken, Inv, TypeOK
    <3>2. CASE LoseCancel(a)
      BY <3>2 DEF LoseCancel, Taken, Inv, TypeOK
    <3>3. CASE LoseInform(a)
      BY <3>3 DEF LoseInform, Taken, Inv, TypeOK
    <3>4. QED
      BY <1>7, <3>1, <3>2, <3>3
  <2>3. QED
    BY <2>1, <2>2 DEF barrierVars, Inv, TypeOK, WaitsForMembersOnly, NeverStalls, TimerArmed, TimeoutLost
<1>8. ASSUME NEW a \in Agents, NEW s \in Supersteps, LoseSuperstep(a, s) PROVE Inv'
  <2>1. UNCHANGED <<barrierVars, timers, inboxVars, agentVars, twice>> /\ losses' \in Nat /\ losses' > 0
    BY <1>8 DEF LoseSuperstep, Lose, Inv, TypeOK
  <2>2. signals' \in [Agents -> [Supersteps -> Nat]]
    BY <1>8 DEF LoseSuperstep, Taken, Inv, TypeOK
  <2>3. QED
    BY <2>1, <2>2 DEF barrierVars, Inv, TypeOK, WaitsForMembersOnly, NeverStalls, TimerArmed, TimeoutLost
<1>9. ASSUME NEW s \in Supersteps, LoseTimeout(s) PROVE Inv'
  <2>1. /\ UNCHANGED <<barrierVars, signals, inboxVars, agentVars, twice>>
        /\ losses' \in Nat
        /\ losses' > 0
        /\ "timeout" \in Lossy
    BY <1>9 DEF LoseTimeout, Lose, Inv, TypeOK
  <2>2. timers' \in [Supersteps -> Nat] /\ TimerArmed'
    BY <1>9, <2>1 DEF LoseTimeout, Taken, barrierVars, Inv, TypeOK, TimerArmed, TimeoutLost
  <2>3. QED
    BY <2>1, <2>2 DEF barrierVars, Inv, TypeOK, WaitsForMembersOnly, NeverStalls
<1>10. CASE UNCHANGED vars
  BY <1>10 DEF vars, barrierVars, Inv, TypeOK, WaitsForMembersOnly, NeverStalls, TimerArmed, TimeoutLost
<1>11. QED
  BY <1>1, <1>2, <1>3, <1>4, <1>5, <1>6, <1>7, <1>8, <1>9, <1>10 DEF Next, BarrierStep

\* In every reachable state the fields of the barrier and the messages have
\* their types, whatever is lost, restarted or delayed.
THEOREM TypeCorrect == Spec => []TypeOK
<1>1. Inv => TypeOK
  BY DEF Inv
<1>2. QED
  BY InitInv, NextInv, <1>1, PTL DEF Spec

\* The barrier never waits for an agent that is not (or no longer) a member,
\* also when agents come and go in the middle of a superstep.
THEOREM BarrierWaitsForMembers == Spec => []WaitsForMembersOnly
<1>1. Inv => WaitsForMembersOnly
  BY DEF Inv
<1>2. QED
  BY InitInv, NextInv, <1>1, PTL DEF Spec

\* The barrier never has members without waiting for one of them, so that a
\* message of an agent, or a timeout, can start the next superstep.
THEOREM BarrierNeverStalls == Spec => []NeverStalls
<1>1. Inv => NeverStalls
  BY DEF Inv
<1>2. QED
  BY InitInv, NextInv, <1>1, PTL DEF Spec

\* There is exactly one pending timeout for the current superstep (at most
\* one where a timeout's send may fail) and none for a later superstep.
THEOREM OneTimeout == Spec => []TimerArmed
<1>1. Inv => TimerArmed
  BY DEF Inv
<1>2. QED
  BY InitInv, NextInv, <1>1, PTL DEF Spec

-----------------------------------------------------------------------------
(* Nobody is released before having executed the superstep. *)

\* Nothing has been heard of agent a, and nothing is on its way to it.
Fresh(a) ==
  /\ a \notin alive \union registered
  /\ subscribes[a] = 0 /\ cancels[a] = 0
  /\ ~Underway(a)

\* The barrier waits for one answer of agent a, to the signal for the current
\* superstep; otherwise there is none, and none to come.
OneAnswer(a) ==
  /\ cancels[a] = 0
  /\ a \notin processing => ~Underway(a)
  /\ \A s \in Supersteps : signals[a][s] > 0 =>
       s = superstep /\ signals[a][s] = 1 /\ informs[a] = 0
  /\ informs[a] > 0 => informs[a] = 1 /\ <<a, superstep>> \in performed

StartedOnce(a) == a \in alive /\ starts[a] = 1

AnswersOK ==
  /\ \A a \in Agents : starts[a] = 0 => Fresh(a)
  /\ ~twice => \A a \in Agents : StartedOnce(a) => OneAnswer(a)

OnlyAnswered ==
  \A a \in Agents : Released(a) =>
    \/ <<a, superstep>> \in performed
    \/ a \notin alive
    \/ a \notin registered'
    \/ starts[a] > 1
    \/ twice

\* An agent in processing that is alive, unless it was started again.
LEMMA ReleasedOnce ==
  ASSUME Inv, AnswersOK,
         ASSUME NEW a \in Agents, ~twice, StartedOnce(a), OneAnswer(a), Released(a), a \in registered'
         PROVE  <<a, superstep>> \in performed
  PROVE  OnlyAnswered
<1> SUFFICES ASSUME NEW a \in Agents, Released(a), a \in alive, a \in registered', ~(starts[a] > 1), ~twice
             PROVE  <<a, superstep>> \in performed
  BY DEF OnlyAnswered
<1>1. starts[a] \in Nat
  BY DEF Inv, TypeOK
<1>2. starts[a] # 0
  BY DEF AnswersOK, Fresh
<1>3. StartedOnce(a)
  BY <1>1, <1>2 DEF StartedOnce
<1>4. OneAnswer(a)
  BY <1>3 DEF AnswersOK
<1> QED
  BY <1>3, <1>4

\* Nothing is on its way to or from agent a.
Silent(a) == informs[a] = 0 /\ \A s \in Supersteps : signals[a][s] = 0

LEMMA SilentNot == ASSUME Inv, NEW a \in Agents PROVE Silent(a) <=> ~Underway(a)
  BY DEF Inv, TypeOK, Silent, Underway

\* A superstep starts for reg: one signal for each of them.
LEMMA StartAnswers ==
  ASSUME Inv, NEW reg \in SUBSET Agents, NEW tmr, StartSuperstep(reg, tmr), NEW a \in Agents,
         \A s \in Supersteps : signals[a][s] = 0, informs'[a] = 0, cancels'[a] = 0
  PROVE  OneAnswer(a)' /\ (a \notin reg => ~Underway(a)')
<1>1. superstep' = superstep + 1 /\ superstep' \in Supersteps /\ processing' = reg
  BY BoundsNat DEF StartSuperstep, Inv, TypeOK, Supersteps
<1>2. \A s \in Supersteps :
        signals'[a][s] = IF s = superstep' /\ a \in reg THEN 1 ELSE 0
  BY <1>1 DEF StartSuperstep, Signalled, Inv, TypeOK
<1> QED
  BY <1>1, <1>2 DEF OneAnswer, Underway

\* The barrier goes on to the next superstep or waits for proc.
LEMMA NextAnswers ==
  ASSUME Inv, NEW reg \in SUBSET Agents, NEW proc \in SUBSET processing,
         NextSuperstepIfPossible(reg, proc), NEW a \in Agents, OneAnswer(a),
         cancels'[a] = 0, performed' = performed,
         a \in proc => informs'[a] = informs[a],
         a \notin proc => informs'[a] = 0 /\ \A s \in Supersteps : signals[a][s] = 0
  PROVE  OneAnswer(a)'
<1>1. CASE NextSuperstepPossible(reg, proc) /\ StartSuperstep(reg, timers)
  BY <1>1, StartAnswers DEF NextSuperstepPossible
<1>2. CASE processing' = proc /\ UNCHANGED <<superstep, signals, timers>>
  BY <1>2 DEF OneAnswer, Underway
<1> QED
  BY <1>1, <1>2 DEF NextSuperstepIfPossible

\* An agent that was not heard of is not signalled.
LEMMA StartFresh ==
  ASSUME Inv, NEW reg \in SUBSET Agents, NEW tmr, StartSuperstep(reg, tmr),
         NEW a \in Agents, a \notin reg
  PROVE  \A s \in Supersteps : signals'[a][s] = signals[a][s]
  BY DEF StartSuperstep, Signalled, Inv, TypeOK, Supersteps

LEMMA NextFresh ==
  ASSUME Inv, NEW reg \in SUBSET Agents, NEW proc, NextSuperstepIfPossible(reg, proc),
         NEW a \in Agents, a \notin reg
  PROVE  \A s \in Supersteps : signals'[a][s] = signals[a][s]
  BY StartFresh DEF NextSuperstepIfPossible

LEMMA RegisterAnswers ==
  ASSUME Inv, AnswersOK, NEW a \in Agents, RegisterAgent(a)
  PROVE  AnswersOK' /\ OnlyAnswered
<1>1. /\ subscribes[a] > 0 /\ subscribes' = Taken(subscribes, a)
      /\ registered' = registered \union {a}
      /\ NextSuperstepIfPossible(registered \union {a}, processing)
      /\ UNCHANGED <<cancels, informs, alive, performed, starts, twice>>
      /\ registered \union {a} \in SUBSET Agents
  BY DEF RegisterAgent, agentVars, Inv, TypeOK
<1>2. ASSUME NEW b \in Agents, starts'[b] = 0
      PROVE  Fresh(b)'
  <2>1. Fresh(b) /\ b # a
    BY <1>1, <1>2 DEF AnswersOK, Fresh
  <2>2. \A s \in Supersteps : signals'[b][s] = signals[b][s]
    BY <1>1, <2>1, NextFresh DEF Fresh
  <2> QED
    BY <1>1, <2>1, <2>2 DEF Fresh, Underway, Taken, Inv, TypeOK
<1>3. ASSUME ~twice', NEW b \in Agents, StartedOnce(b)'
      PROVE  OneAnswer(b)'
  <2>1. OneAnswer(b)
    BY <1>1, <1>3 DEF AnswersOK, StartedOnce
  <2>2. b \notin processing => Silent(b)
    BY <2>1, SilentNot DEF OneAnswer
  <2> QED
    BY <1>1, <2>1, <2>2, NextAnswers DEF OneAnswer, Silent
<1>4. OnlyAnswered
  <2>1. ASSUME NEW b \in Agents, b \in processing
        PROVE  ~Released(b)
    BY <1>1, <2>1 DEF NextSuperstepIfPossible, NextSuperstepPossible, Released
  <2> QED
    BY <2>1 DEF OnlyAnswered, Released
<1> QED
  BY <1>2, <1>3, <1>4 DEF AnswersOK

LEMMA DeregisterAnswers ==
  ASSUME Inv, AnswersOK, NEW a \in Agents, DeregisterAgent(a)
  PROVE  AnswersOK' /\ OnlyAnswered
<1>1. /\ cancels[a] > 0 /\ cancels' = Taken(cancels, a)
      /\ registered' = registered \ {a} /\ registered \ {a} \in SUBSET Agents
      /\ UNCHANGED <<subscribes, informs, alive, performed, starts, twice>>
      /\ \/ NextSuperstepIfPossible(registered \ {a}, processing \ {a})
         \/ UNCHANGED <<superstep, processing, signals>>
  BY DEF DeregisterAgent, agentVars, Inv, TypeOK
<1>2. ASSUME NEW b \in Agents, starts'[b] = 0
      PROVE  Fresh(b)'
  <2>1. Fresh(b) /\ b # a
    BY <1>1, <1>2 DEF AnswersOK, Fresh
  <2>2. \A s \in Supersteps : signals'[b][s] = signals[b][s]
    BY <1>1, <2>1, NextFresh DEF Fresh
  <2> QED
    BY <1>1, <2>1, <2>2 DEF Fresh, Underway, Taken, Inv, TypeOK
<1>3. ASSUME ~twice', NEW b \in Agents, StartedOnce(b)'
      PROVE  OneAnswer(b)'
  <2>1. OneAnswer(b) /\ b # a
    BY <1>1, <1>3 DEF AnswersOK, StartedOnce, OneAnswer
  <2>2. b \notin processing => Silent(b)
    BY <2>1, SilentNot DEF OneAnswer
  <2>3. cancels'[b] = 0
    BY <1>1, <2>1 DEF OneAnswer, Taken, Inv, TypeOK
  <2>4. CASE NextSuperstepIfPossible(registered \ {a}, processing \ {a})
    BY <1>1, <2>1, <2>2, <2>3, <2>4, NextAnswers DEF Silent
  <2>5. CASE UNCHANGED <<superstep, processing, signals>>
    BY <1>1, <2>1, <2>3, <2>5 DEF OneAnswer, Underway
  <2> QED
    BY <1>1, <2>4, <2>5
<1>4. OnlyAnswered
  <2>1. ASSUME NEW b \in Agents, b # a
        PROVE  ~Released(b)
    BY <1>1, <2>1 DEF NextSuperstepIfPossible, NextSuperstepPossible, Released
  <2> QED
    BY <1>1, <2>1 DEF OnlyAnswered
<1> QED
  BY <1>2, <1>3, <1>4 DEF AnswersOK

LEMMA CompletedAnswers ==
  ASSUME Inv, AnswersOK, NEW a \in Agents, AgentCompletedSuperstep(a)
  PROVE  AnswersOK' /\ OnlyAnswered
<1>1. /\ informs[a] > 0 /\ informs' = Taken(informs, a)
      /\ NextSuperstepIfPossible(registered, processing \ {a})
      /\ registered \in SUBSET Agents
      /\ UNCHANGED <<registered, subscribes, cancels, alive, performed, starts, twice>>
  BY DEF AgentCompletedSuperstep, agentVars, Inv, TypeOK
<1>2. ASSUME NEW b \in Agents, starts'[b] = 0
      PROVE  Fresh(b)'
  <2>1. Fresh(b) /\ b # a
    BY <1>1, <1>2 DEF AnswersOK, Fresh, Underway
  <2>2. \A s \in Supersteps : signals'[b][s] = signals[b][s]
    BY <1>1, <2>1, NextFresh DEF Fresh
  <2> QED
    BY <1>1, <2>1, <2>2 DEF Fresh, Underway, Taken, Inv, TypeOK
<1>3. ASSUME ~twice', NEW b \in Agents, StartedOnce(b)'
      PROVE  OneAnswer(b)'
  <2>1. OneAnswer(b)
    BY <1>1, <1>3 DEF AnswersOK, StartedOnce
  <2>2. b \notin processing => Silent(b)
    BY <2>1, SilentNot DEF OneAnswer
  <2>3. cancels'[b] = 0
    BY <1>1, <2>1 DEF OneAnswer
  <2>4. informs'[b] = IF b = a THEN informs[b] - 1 ELSE informs[b]
    BY <1>1 DEF Taken, Inv, TypeOK
  <2>5. b = a => informs[b] = 1 /\ \A s \in Supersteps : signals[b][s] = 0
    BY <1>1, <2>1 DEF OneAnswer, Inv, TypeOK
  <2> QED
    BY <1>1, <2>1, <2>2, <2>3, <2>4, <2>5, NextAnswers DEF Silent
<1>4. OnlyAnswered
  <2>1. ASSUME NEW b \in Agents, b # a
        PROVE  ~Released(b)
    BY <1>1, <2>1 DEF NextSuperstepIfPossible, NextSuperstepPossible, Released
  <2>2. ASSUME NEW b \in Agents, OneAnswer(b), Released(b)
        PROVE  <<b, superstep>> \in performed
    BY <1>1, <2>1, <2>2 DEF OneAnswer
  <2> QED
    BY <2>2, ReleasedOnce
<1> QED
  BY <1>2, <1>3, <1>4 DEF AnswersOK

LEMMA TimeoutAnswers ==
  ASSUME Inv, AnswersOK, NEW s \in Supersteps, OnTimeout(s)
  PROVE  AnswersOK' /\ OnlyAnswered
<1>1. /\ UNCHANGED <<registered, subscribes, cancels, informs, alive, performed, starts>>
      /\ twice' = (twice \/ (s = superstep /\ SignalsTwice))
      /\ registered \in SUBSET Agents /\ processing \subseteq registered
  BY DEF OnTimeout, inboxVars, agentVars, Inv, TypeOK, WaitsForMembersOnly
<1>2. CASE UNCHANGED <<superstep, processing, signals>>
  BY <1>1, <1>2 DEF AnswersOK, Fresh, OneAnswer, StartedOnce, Underway, OnlyAnswered, Released
<1>3. CASE /\ processing \intersect alive = {}
           /\ StartSuperstep(registered, Taken(timers, s))
  <2>1. ASSUME NEW b \in Agents, starts'[b] = 0
        PROVE  Fresh(b)'
    <3>1. Fresh(b)
      BY <1>1, <2>1 DEF AnswersOK
    <3>2. \A r \in Supersteps : signals'[b][r] = signals[b][r]
      BY <1>1, <1>3, <3>1, StartFresh DEF Fresh
    <3> QED
      BY <1>1, <3>1, <3>2 DEF Fresh, Underway
  <2>2. ASSUME ~twice', NEW b \in Agents, StartedOnce(b)'
        PROVE  OneAnswer(b)'
    <3>1. OneAnswer(b) /\ b \notin processing
      BY <1>1, <1>3, <2>2 DEF AnswersOK, StartedOnce
    <3>2. Silent(b) /\ cancels'[b] = 0
      BY <1>1, <3>1, SilentNot DEF OneAnswer
    <3> QED
      BY <1>1, <1>3, <3>2, StartAnswers DEF Silent
  <2>3. OnlyAnswered
    BY <1>3 DEF OnlyAnswered, Released
  <2> QED
    BY <2>1, <2>2, <2>3 DEF AnswersOK
<1>4. CASE /\ s = superstep
           /\ processing' = processing \intersect alive
           /\ \E c \in FilterCopies : signals' = Signalled(s, c)
           /\ UNCHANGED superstep
  <2>1. PICK c \in FilterCopies : signals' = Signalled(s, c)
    BY <1>4
  <2> DEFINE live == processing \intersect alive
  <2>2. /\ c \in [Agents -> Nat]
        /\ \A b \in Agents : /\ b \in live => c[b] = Cardinality(live)
                             /\ b \notin processing => c[b] = 0
    BY FilterCopiesType DEF FilterCopies
  <2>3. \A b \in Agents, r \in Supersteps :
          signals'[b][r] = IF r = s THEN signals[b][r] + c[b] ELSE signals[b][r]
    BY <2>1, <2>2 DEF Signalled, Inv, TypeOK
  <2>4. ASSUME NEW b \in Agents, b \notin processing
        PROVE  \A r \in Supersteps : signals'[b][r] = signals[b][r]
    BY <2>2, <2>3, <2>4 DEF Inv, TypeOK
  <2>5. ASSUME NEW b \in Agents, starts'[b] = 0
        PROVE  Fresh(b)'
    <3>1. Fresh(b) /\ b \notin processing
      BY <1>1, <2>5 DEF AnswersOK, Fresh
    <3> QED
      BY <1>1, <2>4, <3>1 DEF Fresh, Underway
  <2>6. ASSUME ~twice', NEW b \in Agents, StartedOnce(b)'
        PROVE  OneAnswer(b)'
    <3>1. OneAnswer(b)
      BY <1>1, <2>6 DEF AnswersOK, StartedOnce
    <3>2. CASE b \notin processing
      BY <1>1, <1>4, <2>4, <3>1, <3>2 DEF OneAnswer, Underway
    <3>3. CASE b \in processing
      <4>1. b \in live
        BY <1>1, <2>6, <3>3 DEF StartedOnce
      <4>2. ~Underway(b) /\ ~(Cardinality(live) > 1)
        BY <1>1, <1>4, <2>6, <4>1 DEF SignalsTwice
      <4>3. Cardinality(live) \in Nat
        BY AgentsFinite, FS_Subset, FS_CardinalityType DEF Inv, TypeOK
      <4>4. c[b] \in 0..1
        BY <2>2, <4>1, <4>2, <4>3
      <4>5. Silent(b)
        BY <4>2, SilentNot
      <4> HIDE DEF live
      <4>6. \A r \in Supersteps : signals'[b][r] > 0 => r = superstep /\ signals'[b][r] = 1
        BY <1>4, <2>3, <4>4, <4>5 DEF Silent
      <4> QED
        BY <1>1, <1>4, <3>1, <3>3, <4>1, <4>5, <4>6 DEF OneAnswer, Silent, live
    <3> QED
      BY <3>2, <3>3
  <2>7. OnlyAnswered
    BY <1>4 DEF OnlyAnswered, Released
  <2> QED
    BY <2>5, <2>6, <2>7 DEF AnswersOK
<1> QED
  BY <1>2, <1>3, <1>4 DEF OnTimeout, NextSuperstepPossible

\* A step that releases nobody.
LEMMA NobodyReleased ==
  ASSUME UNCHANGED <<superstep, processing>>
  PROVE  OnlyAnswered
  BY DEF OnlyAnswered, Released

LEMMA AgentAnswers ==
  ASSUME Inv, AnswersOK, NEW a \in Agents, AgentStep(a)
  PROVE  AnswersOK'
<1>1. UNCHANGED <<superstep, registered, processing, signals, informs, performed, twice>>
  BY DEF AgentStep, StartAgent, StopAgent, TerminateAgent, Register, Deregister, barrierVars, inboxVars
<1>2. ASSUME NEW b \in Agents, b # a
      PROVE  /\ starts'[b] = starts[b] /\ (b \in alive' <=> b \in alive)
             /\ subscribes'[b] = subscribes[b] /\ cancels'[b] = cancels[b]
  BY <1>2 DEF AgentStep, StartAgent, StopAgent, TerminateAgent, Register, Deregister, One,
              inboxVars, Inv, TypeOK
<1>3. ASSUME NEW b \in Agents, b # a
      PROVE  /\ starts'[b] = 0 => Fresh(b)'
             /\ ~twice' /\ StartedOnce(b)' => OneAnswer(b)'
  BY <1>1, <1>2, <1>3 DEF AnswersOK, Fresh, StartedOnce, OneAnswer, Underway
<1>4. CASE StartAgent(a)
  <2>1. /\ starts'[a] = starts[a] + 1 /\ starts[a] \in Nat
        /\ UNCHANGED cancels /\ processing \subseteq registered
    BY <1>4 DEF StartAgent, One, Inv, TypeOK, WaitsForMembersOnly
  <2>2. ASSUME StartedOnce(a)'
        PROVE  OneAnswer(a)'
    <3>1. Fresh(a)
      BY <2>1, <2>2 DEF AnswersOK, StartedOnce
    <3>2. Silent(a) /\ a \notin processing
      BY <2>1, <3>1, SilentNot DEF Fresh
    <3> QED
      BY <1>1, <2>1, <3>1, <3>2 DEF Fresh, OneAnswer, Underway, Silent
  <2> QED
    BY <1>3, <2>1, <2>2 DEF AnswersOK
<1>5. CASE StopAgent(a) \/ TerminateAgent(a)
  <2>1. a \in alive /\ a \notin alive' /\ starts' = starts
    BY <1>5 DEF StopAgent, TerminateAgent
  <2>2. starts[a] # 0
    BY <2>1 DEF AnswersOK, Fresh
  <2> QED
    BY <1>3, <2>1, <2>2 DEF AnswersOK, StartedOnce
<1> QED
  BY <1>4, <1>5 DEF AgentStep

LEMMA DeliverAnswers ==
  ASSUME Inv, AnswersOK, NEW a \in Agents, NEW s \in Supersteps, DeliverSuperstep(a, s)
  PROVE  AnswersOK'
<1>1. /\ signals[a][s] > 0
      /\ UNCHANGED <<superstep, registered, processing, subscribes, cancels, alive, starts, twice>>
      /\ \A b \in Agents, r \in Supersteps :
           signals'[b][r] = IF b = a /\ r = s THEN signals[b][r] - 1 ELSE signals[b][r]
      /\ \A b \in Agents : informs'[b] = IF b = a /\ a \in alive THEN informs[b] + 1 ELSE informs[b]
      /\ performed' = IF a \in alive THEN performed \union {<<a, s>>} ELSE performed
  BY DEF DeliverSuperstep, barrierVars, ReportCompleted, One, Taken, Inv, TypeOK
<1>2. ASSUME NEW b \in Agents, starts'[b] = 0
      PROVE  Fresh(b)'
  <2>1. Fresh(b) /\ b # a
    BY <1>1, <1>2 DEF AnswersOK, Fresh, Underway
  <2> QED
    BY <1>1, <2>1 DEF Fresh, Underway
<1>3. ASSUME ~twice', NEW b \in Agents, StartedOnce(b)'
      PROVE  OneAnswer(b)'
  <2>1. OneAnswer(b)
    BY <1>1, <1>3 DEF AnswersOK, StartedOnce
  <2>2. CASE b # a
    BY <1>1, <2>1, <2>2 DEF OneAnswer, Underway
  <2>3. CASE b = a
    <3>1. a \in alive /\ a \in processing /\ s = superstep /\ signals[a][s] = 1 /\ informs[a] = 0
      BY <1>1, <1>3, <2>1, <2>3 DEF OneAnswer, Underway, StartedOnce
    <3>2. \A r \in Supersteps : ~(signals'[a][r] > 0)
      BY <1>1, <2>1, <2>3, <3>1 DEF OneAnswer
    <3> QED
      BY <1>1, <2>1, <2>3, <3>1, <3>2 DEF OneAnswer
  <2> QED
    BY <2>2, <2>3
<1> QED
  BY <1>2, <1>3 DEF AnswersOK

\* A lost message is one that no longer has to be answered.
LEMMA LossAnswers ==
  ASSUME Inv, AnswersOK, Inv',
         UNCHANGED <<superstep, registered, processing, alive, performed, starts, twice>>,
         \A a \in Agents :
           /\ subscribes'[a] <= subscribes[a] /\ cancels'[a] <= cancels[a]
           /\ informs'[a] <= informs[a]
           /\ \A s \in Supersteps : signals'[a][s] <= signals[a][s]
  PROVE  AnswersOK'
<1>1. \A a \in Agents : /\ {subscribes[a], cancels[a], informs[a]} \subseteq Nat
                        /\ {subscribes'[a], cancels'[a], informs'[a]} \subseteq Nat
                        /\ \A s \in Supersteps : signals[a][s] \in Nat /\ signals'[a][s] \in Nat
  BY DEF Inv, TypeOK
<1>2. ASSUME NEW b \in Agents, starts'[b] = 0
      PROVE  Fresh(b)'
  BY <1>1, <1>2 DEF AnswersOK, Fresh, Underway
<1>3. ASSUME ~twice', NEW b \in Agents, StartedOnce(b)'
      PROVE  OneAnswer(b)'
  <2>1. OneAnswer(b)
    BY <1>3 DEF AnswersOK, StartedOnce
  <2> QED
    BY <1>1, <2>1 DEF OneAnswer, Underway
<1> QED
  BY <1>2, <1>3 DEF AnswersOK

LEMMA NextAnswersOK == Inv /\ AnswersOK /\ [Next]_vars => AnswersOK' /\ OnlyAnswered
<1> SUFFICES ASSUME Inv, AnswersOK, [Next]_vars PROVE AnswersOK' /\ OnlyAnswered
  OBVIOUS
<1>1. ASSUME NEW a \in Agents, BarrierStep(a) PROVE AnswersOK' /\ OnlyAnswered
  BY <1>1, RegisterAnswers, DeregisterAnswers, CompletedAnswers DEF BarrierStep
<1>2. ASSUME NEW s \in Supersteps, OnTimeout(s) PROVE AnswersOK' /\ OnlyAnswered
  BY <1>2, TimeoutAnswers
<1>3. ASSUME NEW a \in Agents, AgentStep(a) PROVE AnswersOK' /\ OnlyAnswered
  BY <1>3, AgentAnswers, NobodyReleased
     DEF AgentStep, StartAgent, StopAgent, TerminateAgent, barrierVars
<1>4. ASSUME NEW a \in Agents, NEW s \in Supersteps, DeliverSuperstep(a, s)
      PROVE  AnswersOK' /\ OnlyAnswered
  BY <1>4, DeliverAnswers, NobodyReleased DEF DeliverSuperstep, barrierVars
<1>5. CASE \/ \E a \in Agents : LoseSubscribe(a) \/ LoseCancel(a) \/ LoseInform(a)
           \/ \E a \in Agents, s \in Supersteps : LoseSuperstep(a, s)
           \/ \E s \in Supersteps : LoseTimeout(s)
           \/ UNCHANGED vars
  <2>1. UNCHANGED <<superstep, registered, processing, alive, performed, starts, twice>>
    BY <1>5 DEF LoseSubscribe, LoseCancel, LoseInform, LoseSuperstep, LoseTimeout, Lose,
                vars, barrierVars, agentVars
  <2>2. ASSUME NEW b \in Agents
        PROVE  /\ subscribes'[b] <= subscribes[b] /\ cancels'[b] <= cancels[b]
               /\ informs'[b] <= informs[b]
               /\ \A r \in Supersteps : signals'[b][r] <= signals[b][r]
    <3>1. ASSUME NEW a \in Agents, LoseSubscribe(a) \/ LoseCancel(a) \/ LoseInform(a)
          PROVE  /\ subscribes'[b] <= subscribes[b] /\ cancels'[b] <= cancels[b]
                 /\ informs'[b] <= informs[b] /\ UNCHANGED signals
      BY <3>1 DEF LoseSubscribe, LoseCancel, LoseInform, Taken, Inv, TypeOK
    <3>2. ASSUME NEW a \in Agents, NEW s \in Supersteps, LoseSuperstep(a, s)
          PROVE  /\ UNCHANGED <<subscribes, cancels, informs>>
                 /\ \A r \in Supersteps : signals'[b][r] <= signals[b][r]
      BY <3>2 DEF LoseSuperstep, Taken, inboxVars, Inv, TypeOK
    <3>3. CASE (\E s \in Supersteps : LoseTimeout(s)) \/ UNCHANGED vars
      BY <3>3 DEF LoseTimeout, inboxVars, vars, Inv, TypeOK
    <3>4. {subscribes[b], cancels[b], informs[b]} \subseteq Nat /\ \A r \in Supersteps : signals[b][r] \in Nat
      BY DEF Inv, TypeOK
    <3> QED
      BY <1>5, <3>1, <3>2, <3>3, <3>4
  <2> QED
    BY <2>1, <2>2, NextInv, LossAnswers, NobodyReleased
<1> QED
  BY <1>1, <1>2, <1>3, <1>4, <1>5 DEF Next

\* Until a timeout signals an agent twice nobody is released from a superstep
\* it has not executed, unless it is dead, has left or was started again, for
\* any number of agents, supersteps, copies and losses.
THEOREM ReleaseIsSynchronous == Spec => SynchronousRelease
<1>1. Init => AnswersOK
  BY DEF Init, AnswersOK, Fresh, StartedOnce, Underway, Supersteps
<1>2. (Inv /\ AnswersOK) /\ [Next]_vars => (Inv /\ AnswersOK)' /\ OnlyAnswered
  BY NextInv, NextAnswersOK
<1>3. OnlyAnswered => [\A a \in Agents : Released(a) =>
                      \/ <<a, superstep>> \in performed
                      \/ a \notin alive
                      \/ a \notin registered'
                      \/ starts[a] > 1
                      \/ twice]_vars
  BY DEF OnlyAnswered
<1> QED
  BY InitInv, <1>1, <1>2, <1>3, PTL DEF Spec, SynchronousRelease

-----------------------------------------------------------------------------
(* The supersteps are rounds. *)

\* No agent was signalled for, or executed, a superstep that is still to come.
NothingAhead ==
  \A a \in Agents, s \in Supersteps :
    signals[a][s] > 0 \/ <<a, s>> \in performed => s <= superstep

RoundsInv == Inv /\ AnswersOK /\ NothingAhead

\* A superstep starts: its signals are for the current superstep.
LEMMA StartAhead ==
  ASSUME Inv, NothingAhead, NEW reg \in SUBSET Agents, NEW tmr, StartSuperstep(reg, tmr),
         performed' = performed
  PROVE  NothingAhead' /\ Executed' = {}
<1>1. superstep' = superstep + 1 /\ superstep \in Nat /\ superstep' \in Supersteps
  BY BoundsNat DEF StartSuperstep, Inv, TypeOK, Supersteps
<1>2. \A a \in Agents, s \in Supersteps : signals'[a][s] > 0 => s = superstep' \/ signals[a][s] > 0
  BY <1>1 DEF StartSuperstep, Signalled, Inv, TypeOK
<1>3. \A a \in Agents, s \in Supersteps : s \in Nat
  BY DEF Supersteps
<1>4. NothingAhead'
  BY <1>1, <1>2, <1>3 DEF NothingAhead
<1>5. processing' \subseteq Agents /\ \A a \in Agents : <<a, superstep'>> \notin performed
  BY <1>1 DEF NothingAhead, StartSuperstep
<1> QED
  BY <1>4, <1>5 DEF Executed

\* nextSuperstepIfPossible is how the rounds go on.
LEMMA ProceedStep ==
  ASSUME Inv, NothingAhead, NEW reg \in SUBSET Agents, NEW proc \in SUBSET processing,
         NextSuperstepIfPossible(reg, proc), registered' = reg, performed' = performed
  PROVE  NothingAhead' /\ RoundsOf!Proceed(reg, proc)
<1>1. CASE NextSuperstepPossible(reg, proc) /\ StartSuperstep(reg, timers)
  BY <1>1, StartAhead DEF NextSuperstepPossible, StartSuperstep, RoundsOf!Proceed
<1>2. CASE /\ ~NextSuperstepPossible(reg, proc)
           /\ processing' = proc
           /\ UNCHANGED <<superstep, signals, timers>>
  <2>1. Executed' = Executed \intersect proc
    BY <1>2 DEF Executed
  <2> QED
    BY <1>2, <2>1 DEF NothingAhead, NextSuperstepPossible, RoundsOf!Proceed
<1> QED
  BY <1>1, <1>2 DEF NextSuperstepIfPossible

\* A step that changes nothing that a round is made of.
RoundsStutter == UNCHANGED <<superstep, registered, processing, Executed>>

\* What the step shows of the rounds, Excused left aside.
RoundsMove ==
  \/ \E a \in Agents : RoundsOf!Join(a) \/ RoundsOf!Leave(a) \/ RoundsOf!Work(a)
  \/ \E ws \in SUBSET Agents : RoundsOf!LetGo(ws) \/ RoundsOf!Fail(ws)

LEMMA StutterMove == RoundsStutter => RoundsMove
<1>1. Executed \ {} = Executed
  BY DEF Executed
<1>2. RoundsStutter => RoundsOf!Fail({})
  BY <1>1 DEF RoundsStutter, RoundsOf!Fail
<1>3. {} \in SUBSET Agents
  OBVIOUS
<1> QED
  BY <1>2, <1>3 DEF RoundsMove

\* As long as somebody is registered, somebody is waited for, so that a step
\* that takes nobody out of processing starts no superstep.
LEMMA RegisterMove ==
  ASSUME RoundsInv, NEW a \in Agents, RegisterAgent(a)
  PROVE  NothingAhead' /\ RoundsMove
<1>1. /\ registered' = registered \union {a} /\ registered \union {a} \in SUBSET Agents
      /\ NextSuperstepIfPossible(registered \union {a}, processing)
      /\ performed' = performed
  BY DEF RegisterAgent, agentVars, RoundsInv, Inv, TypeOK
<1> QED
  BY <1>1, ProceedStep DEF RoundsInv, RoundsMove, RoundsOf!Join

LEMMA DeregisterMove ==
  ASSUME RoundsInv, NEW a \in Agents, DeregisterAgent(a)
  PROVE  NothingAhead' /\ RoundsMove
<1>1. registered' = registered \ {a} /\ registered \ {a} \in SUBSET Agents /\ performed' = performed
  BY DEF DeregisterAgent, agentVars, RoundsInv, Inv, TypeOK
<1>2. CASE NextSuperstepIfPossible(registered \ {a}, processing \ {a})
  BY <1>1, <1>2, ProceedStep DEF RoundsInv, RoundsMove, RoundsOf!Leave
<1>3. CASE a \notin processing /\ UNCHANGED <<superstep, processing, signals>>
  <2>1. UNCHANGED Executed /\ Executed \intersect processing = Executed
    BY <1>1, <1>3 DEF Executed
  <2>2. processing \ {a} = processing
    BY <1>3
  <2>3. processing # {} \/ registered \ {a} = {}
    BY DEF RoundsInv, Inv, NeverStalls
  <2>4. RoundsOf!Leave(a)
    BY <1>1, <1>3, <2>1, <2>2, <2>3 DEF RoundsOf!Leave, RoundsOf!Proceed
  <2>5. NothingAhead'
    BY <1>1, <1>3 DEF RoundsInv, NothingAhead
  <2> QED
    BY <2>4, <2>5 DEF RoundsMove
<1> QED
  BY <1>2, <1>3 DEF DeregisterAgent

\* An agent that is known to the barrier has executed the current superstep
\* when its completion arrives, or is excused.
LEMMA AnswerCounts ==
  ASSUME RoundsInv, NEW a \in Agents, informs[a] > 0, a \in processing
  PROVE  a \in Executed \union Excused
<1>1. starts[a] \in Nat /\ starts[a] # 0
  BY DEF RoundsInv, Inv, TypeOK, AnswersOK, Fresh, Underway
<1>2. CASE twice \/ starts[a] > 1 \/ (starts[a] = 1 /\ a \notin alive)
  BY <1>2 DEF Excused
<1>3. CASE ~twice /\ StartedOnce(a)
  BY <1>3 DEF RoundsInv, AnswersOK, OneAnswer, Executed
<1> QED
  BY <1>1, <1>2, <1>3 DEF StartedOnce

LEMMA CompletedMove ==
  ASSUME RoundsInv, NEW a \in Agents, AgentCompletedSuperstep(a)
  PROVE  NothingAhead' /\ RoundsMove
<1>1. /\ registered' = registered /\ registered \in SUBSET Agents
      /\ NextSuperstepIfPossible(registered, processing \ {a})
      /\ performed' = performed /\ informs[a] > 0
  BY DEF AgentCompletedSuperstep, agentVars, RoundsInv, Inv, TypeOK
<1> DEFINE ws == {a} \intersect processing
<1>2. processing \ {a} = processing \ ws /\ processing \ {a} \in SUBSET processing
  OBVIOUS
<1>3. ws \in SUBSET Agents /\ ws \subseteq processing /\ ws \subseteq Executed \union Excused
  BY <1>1, AnswerCounts
<1>4. NothingAhead' /\ RoundsOf!Proceed(registered, processing \ ws)
  BY <1>1, <1>2, ProceedStep DEF RoundsInv
<1> HIDE DEF ws
<1>5. RoundsOf!LetGo(ws)
  BY <1>3, <1>4 DEF RoundsOf!LetGo
<1> QED
  BY <1>3, <1>4, <1>5 DEF RoundsMove

\* Who does not answer the ping is excused.
LEMMA DeadExcused ==
  ASSUME RoundsInv, NEW a \in processing, a \notin alive
  PROVE  a \in Excused
<1>1. a \in Agents /\ a \in registered
  BY DEF RoundsInv, Inv, TypeOK, WaitsForMembersOnly
<1>2. starts[a] \in Nat /\ starts[a] # 0
  BY <1>1 DEF RoundsInv, Inv, TypeOK, AnswersOK, Fresh
<1> QED
  BY <1>1, <1>2 DEF Excused

LEMMA TimeoutMove ==
  ASSUME RoundsInv, NEW s \in Supersteps, OnTimeout(s)
  PROVE  NothingAhead' /\ RoundsMove
<1> DEFINE ws == processing \ alive
<1>1. /\ registered' = registered /\ registered \in SUBSET Agents /\ performed' = performed
      /\ processing \intersect alive = processing \ ws /\ processing \subseteq Agents
  BY DEF OnTimeout, agentVars, RoundsInv, Inv, TypeOK
<1>2. /\ ws \in SUBSET Agents /\ ws \subseteq processing
      /\ ws \subseteq Executed \union Excused
  BY <1>1, DeadExcused
<1> HIDE DEF ws
<1>3. CASE UNCHANGED <<superstep, processing, signals>>
  <2>1. RoundsStutter
    BY <1>1, <1>3 DEF RoundsStutter, Executed
  <2> QED
    BY <1>1, <1>3, <2>1, StutterMove DEF RoundsInv, NothingAhead
<1>4. CASE /\ NextSuperstepPossible(registered, processing \intersect alive)
           /\ StartSuperstep(registered, Taken(timers, s))
  <2>1. NothingAhead' /\ Executed' = {}
    BY <1>1, <1>4, StartAhead DEF RoundsInv
  <2>2. RoundsOf!LetGo(ws)
    BY <1>1, <1>2, <1>4, <2>1
       DEF NextSuperstepPossible, StartSuperstep, RoundsOf!LetGo, RoundsOf!Proceed
  <2> QED
    BY <1>2, <2>1, <2>2 DEF RoundsMove
<1>5. CASE /\ s = superstep
           /\ ~NextSuperstepPossible(registered, processing \intersect alive)
           /\ processing' = processing \intersect alive
           /\ \E c \in FilterCopies : signals' = Signalled(s, c)
           /\ UNCHANGED superstep
  <2>1. Executed' = Executed \intersect (processing \ ws)
    BY <1>1, <1>5 DEF Executed
  <2>2. RoundsOf!LetGo(ws)
    BY <1>1, <1>2, <1>5, <2>1 DEF NextSuperstepPossible, RoundsOf!LetGo, RoundsOf!Proceed
  <2>3. ASSUME NEW a \in Agents, NEW r \in Supersteps, signals'[a][r] > 0
        PROVE  r = superstep \/ signals[a][r] > 0
    BY <1>5, <2>3 DEF Signalled, RoundsInv, Inv, TypeOK
  <2>4. superstep <= superstep
    BY DEF RoundsInv, Inv, TypeOK, Supersteps
  <2>5. NothingAhead'
    BY <1>1, <1>5, <2>3, <2>4 DEF RoundsInv, NothingAhead
  <2> QED
    BY <1>2, <2>2, <2>5 DEF RoundsMove
<1> QED
  BY <1>3, <1>4, <1>5 DEF OnTimeout

LEMMA DeliverMove ==
  ASSUME RoundsInv, NEW a \in Agents, NEW s \in Supersteps, DeliverSuperstep(a, s)
  PROVE  NothingAhead' /\ RoundsMove
<1>1. /\ signals[a][s] > 0 /\ UNCHANGED <<superstep, registered, processing>>
      /\ performed' = performed \/ performed' = performed \union {<<a, s>>}
  BY DEF DeliverSuperstep, barrierVars
<1>2. s <= superstep
  BY <1>1 DEF RoundsInv, NothingAhead
<1>3. \A b \in Agents, r \in Supersteps : signals'[b][r] > 0 => signals[b][r] > 0
  BY DEF DeliverSuperstep, Taken, RoundsInv, Inv, TypeOK
<1>4. NothingAhead'
  BY <1>1, <1>2, <1>3 DEF RoundsInv, NothingAhead
<1>5. CASE s = superstep /\ a \in processing /\ performed' = performed \union {<<a, s>>}
  <2>1. Executed' = Executed \union {a}
    BY <1>1, <1>5 DEF Executed
  <2> QED
    BY <1>1, <1>4, <1>5, <2>1 DEF RoundsMove, RoundsOf!Work
<1>6. CASE ~(s = superstep /\ a \in processing /\ performed' = performed \union {<<a, s>>})
  <2>1. Executed' = Executed
    BY <1>1, <1>6 DEF Executed
  <2> QED
    BY <1>1, <1>4, <2>1, StutterMove DEF RoundsStutter
<1> QED
  BY <1>5, <1>6

\* Agents that start or end, and messages that are lost, are no part of it.
LEMMA OutsideMove ==
  ASSUME RoundsInv,
         UNCHANGED <<superstep, registered, processing, performed>>,
         \A b \in Agents, r \in Supersteps : signals'[b][r] > 0 => signals[b][r] > 0
  PROVE  NothingAhead' /\ RoundsMove
<1>1. RoundsStutter
  BY DEF RoundsStutter, Executed
<1> QED
  BY <1>1, StutterMove DEF RoundsInv, NothingAhead

LEMMA NextMove ==
  ASSUME RoundsInv, [Next]_vars
  PROVE  NothingAhead' /\ RoundsMove
<1>1. ASSUME NEW a \in Agents, BarrierStep(a)
      PROVE  NothingAhead' /\ RoundsMove
  BY <1>1, RegisterMove, DeregisterMove, CompletedMove DEF BarrierStep
<1>2. ASSUME NEW a \in Agents, AgentStep(a)
      PROVE  NothingAhead' /\ RoundsMove
  <2>1. UNCHANGED <<superstep, registered, processing, performed, signals>>
    BY <1>2 DEF AgentStep, StartAgent, StopAgent, TerminateAgent, barrierVars
  <2> QED
    BY <2>1, OutsideMove
<1>3. ASSUME NEW a \in Agents, NEW s \in Supersteps, LoseSuperstep(a, s)
      PROVE  NothingAhead' /\ RoundsMove
  <2>1. UNCHANGED <<superstep, registered, processing, performed>>
    BY <1>3 DEF LoseSuperstep, Lose, barrierVars, agentVars
  <2>2. \A b \in Agents, r \in Supersteps : signals'[b][r] > 0 => signals[b][r] > 0
    BY <1>3 DEF LoseSuperstep, Taken, RoundsInv, Inv, TypeOK
  <2> QED
    BY <2>1, <2>2, OutsideMove
<1>4. CASE \/ \E a \in Agents : LoseSubscribe(a) \/ LoseCancel(a) \/ LoseInform(a)
           \/ \E s \in Supersteps : LoseTimeout(s)
           \/ UNCHANGED vars
  <2>1. UNCHANGED <<superstep, registered, processing, performed, signals>>
    BY <1>4 DEF LoseSubscribe, LoseCancel, LoseInform, LoseTimeout, Lose, vars, barrierVars, agentVars
  <2> QED
    BY <2>1, OutsideMove
<1> QED
  BY <1>1, <1>2, <1>3, <1>4, TimeoutMove, DeliverMove DEF Next

\* Nobody is excused and then is not: dead agents only come back by a start.
LEMMA ExcusedGrows ==
  ASSUME RoundsInv, [Next]_vars
  PROVE  Excused \subseteq Excused' /\ Excused' \subseteq Agents
<1>1. Excused' \subseteq Agents
  BY DEF Excused
<1>2. twice => twice'
  BY DEF Next, BarrierStep, RegisterAgent, DeregisterAgent, AgentCompletedSuperstep, OnTimeout,
         AgentStep, StartAgent, StopAgent, TerminateAgent, DeliverSuperstep, LoseSubscribe,
         LoseCancel, LoseInform, LoseSuperstep, LoseTimeout, Lose, vars
<1> DEFINE Kept(b) ==
      /\ starts[b] > 1 => starts'[b] > 1
      /\ starts[b] = 1 /\ b \notin alive =>
           starts'[b] > 1 \/ (starts'[b] = 1 /\ b \notin alive')
<1>3. \/ UNCHANGED <<alive, starts>>
      \/ \E a \in Agents : AgentStep(a)
  BY DEF Next, BarrierStep, RegisterAgent, DeregisterAgent, AgentCompletedSuperstep, OnTimeout,
         DeliverSuperstep, LoseSubscribe, LoseCancel, LoseInform, LoseSuperstep, LoseTimeout, Lose,
         agentVars, vars
<1>4. ASSUME NEW b \in Agents
      PROVE  Kept(b)
  <2>1. CASE UNCHANGED <<alive, starts>>
    BY <2>1
  <2>2. ASSUME NEW a \in Agents, StartAgent(a)
        PROVE  Kept(b)
    <3>1. /\ \A c \in Agents : starts'[c] = IF c = a THEN starts[c] + 1 ELSE starts[c]
          /\ alive' = alive \union {a} /\ starts[b] \in Nat
      BY <2>2 DEF StartAgent, One, RoundsInv, Inv, TypeOK
    <3> QED
      BY <3>1
  <2>3. ASSUME NEW a \in Agents, StopAgent(a) \/ TerminateAgent(a)
        PROVE  Kept(b)
    BY <2>3 DEF StopAgent, TerminateAgent
  <2> QED
    BY <1>3, <2>1, <2>2, <2>3 DEF AgentStep
<1> QED
  BY <1>1, <1>2, <1>4 DEF Excused

\* The barrier implements Rounds: every step of the handlers, the agents and
\* the messages is a step of the rounds, or shows nothing, for any number of
\* agents, supersteps, copies, starts and losses.
THEOREM RoundsImplemented == Spec => ImplementsRounds
<1>1. Init => RoundsInv
  <2>1. Init => AnswersOK
    BY DEF Init, AnswersOK, Fresh, StartedOnce, Underway, Supersteps
  <2>2. Init => NothingAhead
    BY DEF Init, NothingAhead
  <2> QED
    BY <2>1, <2>2, InitInv DEF RoundsInv
<1>2. Init => RoundsOf!Init
  <2>1. Init => Excused = {} /\ Executed = {}
    BY DEF Init, Excused, Executed
  <2> QED
    BY <2>1 DEF Init, RoundsOf!Init
<1>3. RoundsInv /\ [Next]_vars => RoundsInv' /\ [RoundsOf!Next]_(RoundsOf!vars)
  <2> SUFFICES ASSUME RoundsInv, [Next]_vars PROVE RoundsInv' /\ RoundsOf!Next
    OBVIOUS
  <2>1. RoundsInv'
    BY NextInv, NextAnswersOK, NextMove DEF RoundsInv
  <2>2. RoundsOf!Next
    BY NextMove, ExcusedGrows DEF RoundsMove, RoundsOf!Next
  <2> QED
    BY <2>1, <2>2
<1> QED
  BY <1>1, <1>2, <1>3, PTL DEF Spec, ImplementsRounds, RoundsOf!Spec

-----------------------------------------------------------------------------
(* Nobody the barrier waits for is forgotten. *)

\* NobodyForgotten, of one agent.
Awaited(a) == a \in processing /\ a \in alive /\ starts[a] = 1 => Underway(a)

ForgottenInv == Inv /\ AnswersOK /\ NobodyForgotten

\* Whoever a superstep starts for has a signal on the way.
LEMMA StartAwaited ==
  ASSUME Inv, NEW reg \in SUBSET Agents, NEW tmr, StartSuperstep(reg, tmr), NEW a \in Agents
  PROVE  Awaited(a)'
<1>1. superstep' = superstep + 1 /\ superstep' \in Supersteps /\ processing' = reg
  BY BoundsNat DEF StartSuperstep, Inv, TypeOK, Supersteps
<1>2. a \in reg => signals'[a][superstep'] = signals[a][superstep'] + 1
  BY <1>1 DEF StartSuperstep, Signalled, Inv, TypeOK
<1>3. signals[a][superstep'] \in Nat
  BY <1>1 DEF Inv, TypeOK
<1> QED
  BY <1>1, <1>2, <1>3 DEF Awaited, Underway

\* An answer, a departure or a newcomer takes nothing from whoever is still
\* waited for.
LEMMA NextAwaited ==
  ASSUME Inv, NEW reg \in SUBSET Agents, NEW proc \in SUBSET processing,
         NextSuperstepIfPossible(reg, proc), NEW a \in Agents, Awaited(a),
         UNCHANGED <<alive, starts>>, a \in proc => informs'[a] = informs[a]
  PROVE  Awaited(a)'
<1>1. CASE NextSuperstepPossible(reg, proc) /\ StartSuperstep(reg, timers)
  BY <1>1, StartAwaited
<1>2. CASE processing' = proc /\ UNCHANGED <<superstep, signals, timers>>
  BY <1>2 DEF Awaited, Underway
<1> QED
  BY <1>1, <1>2 DEF NextSuperstepIfPossible

\* A re-signal reaches every agent that answered the ping.
LEMMA ResignalAwaited ==
  ASSUME Inv, NEW s \in Supersteps, NEW c \in FilterCopies, signals' = Signalled(s, c),
         processing' = processing \intersect alive, UNCHANGED <<alive, starts>>, NEW a \in Agents
  PROVE  Awaited(a)'
<1> SUFFICES ASSUME a \in processing \intersect alive PROVE Underway(a)'
  BY DEF Awaited
<1>1. IsFiniteSet(processing \intersect alive)
  BY AgentsFinite, FS_Subset DEF Inv, TypeOK
<1>2. Cardinality(processing \intersect alive) \in Nat /\ Cardinality(processing \intersect alive) # 0
  BY <1>1, FS_CardinalityType, FS_EmptySet
<1>3. c[a] = Cardinality(processing \intersect alive)
  BY DEF FilterCopies
<1>4. signals'[a][s] = signals[a][s] + c[a] /\ signals[a][s] \in Nat
  BY DEF Signalled, Inv, TypeOK
<1>5. signals'[a][s] > 0
  BY <1>2, <1>3, <1>4
<1> QED
  BY <1>5 DEF Underway

LEMMA TimeoutAwaited ==
  ASSUME Inv, NEW s \in Supersteps, OnTimeout(s), NEW a \in Agents, Awaited(a)
  PROVE  Awaited(a)'
<1>1. UNCHANGED <<registered, informs, alive, starts>> /\ registered \in SUBSET Agents
  BY DEF OnTimeout, inboxVars, agentVars, Inv, TypeOK
<1>2. CASE UNCHANGED <<superstep, processing, signals>>
  BY <1>1, <1>2 DEF Awaited, Underway
<1>3. CASE StartSuperstep(registered, Taken(timers, s))
  BY <1>1, <1>3, StartAwaited
<1>4. CASE /\ processing' = processing \intersect alive
           /\ \E c \in FilterCopies : signals' = Signalled(s, c)
  BY <1>1, <1>4, ResignalAwaited
<1> QED
  BY <1>2, <1>3, <1>4 DEF OnTimeout

\* An agent that starts for the first time is not waited for yet.
LEMMA AgentAwaited ==
  ASSUME Inv, AnswersOK, NEW a \in Agents, AgentStep(a), NEW b \in Agents, Awaited(b)
  PROVE  Awaited(b)'
<1>1. /\ UNCHANGED <<registered, processing, informs, signals>>
      /\ processing \subseteq registered
  BY DEF AgentStep, StartAgent, StopAgent, TerminateAgent, Deregister, Register, barrierVars,
         inboxVars, Inv, WaitsForMembersOnly
<1>2. Underway(b)' = Underway(b)
  BY <1>1 DEF Underway
<1>3. CASE StartAgent(a)
  <2>1. /\ \A c \in Agents : starts'[c] = IF c = a THEN starts[c] + 1 ELSE starts[c]
        /\ alive' = alive \union {a} /\ starts[b] \in Nat
    BY <1>3 DEF StartAgent, One, Inv, TypeOK
  <2>2. starts[b] = 0 => b \notin processing
    BY <1>1 DEF AnswersOK, Fresh
  <2>3. CASE b = a
    BY <1>1, <2>1, <2>2, <2>3 DEF Awaited
  <2>4. CASE b # a
    BY <1>1, <1>2, <2>1, <2>4 DEF Awaited
  <2> QED
    BY <2>3, <2>4
<1>4. CASE StopAgent(a) \/ TerminateAgent(a)
  <2>1. alive' \subseteq alive /\ starts' = starts
    BY <1>4 DEF StopAgent, TerminateAgent
  <2> QED
    BY <1>1, <1>2, <2>1 DEF Awaited
<1> QED
  BY <1>3, <1>4 DEF AgentStep

\* An agent that is up answers the signal it is given.
LEMMA DeliverAwaited ==
  ASSUME Inv, NEW a \in Agents, NEW s \in Supersteps, DeliverSuperstep(a, s),
         NEW b \in Agents, Awaited(b)
  PROVE  Awaited(b)'
<1>1. /\ UNCHANGED <<processing, alive, starts>>
      /\ \A r \in Supersteps : b # a => signals'[b][r] = signals[b][r]
      /\ a \notin alive => informs' = informs
      /\ b # a => informs'[b] = informs[b]
      /\ a \in alive => informs'[a] = informs[a] + 1
      /\ informs[a] \in Nat
  BY DEF DeliverSuperstep, barrierVars, ReportCompleted, One, Inv, TypeOK
<1>2. CASE b # a
  BY <1>1, <1>2 DEF Awaited, Underway
<1>3. CASE b = a /\ a \in alive
  <2>1. informs'[b] > 0
    BY <1>1, <1>3
  <2> QED
    BY <2>1 DEF Awaited, Underway
<1>4. CASE b = a /\ a \notin alive
  BY <1>1, <1>4 DEF Awaited
<1> QED
  BY <1>2, <1>3, <1>4

LEMMA NextForgotten == ForgottenInv /\ [Next]_vars => NobodyForgotten'
<1> SUFFICES ASSUME ForgottenInv, [Next]_vars PROVE NobodyForgotten'
  OBVIOUS
<1> SUFFICES ASSUME losses' = 0, NEW b \in Agents PROVE Awaited(b)'
  <2>1. Inv'
    BY NextInv DEF ForgottenInv
  <2> QED
    BY <2>1 DEF Awaited, NobodyForgotten, Inv, TypeOK
<1>1. losses \in Nat /\ Inv /\ AnswersOK /\ registered \in SUBSET Agents /\ processing \in SUBSET Agents
  BY DEF ForgottenInv, Inv, TypeOK
<1>2. ASSUME losses = 0 PROVE Awaited(b)
  BY <1>1, <1>2 DEF ForgottenInv, NobodyForgotten, Awaited
<1>3. ASSUME NEW a \in Agents, BarrierStep(a) PROVE Awaited(b)'
  <2>1. UNCHANGED <<alive, starts>> /\ losses' = losses
    BY <1>3 DEF BarrierStep, RegisterAgent, DeregisterAgent, AgentCompletedSuperstep, agentVars
  <2>2. Awaited(b)
    BY <1>2, <2>1
  <2>3. CASE RegisterAgent(a)
    <3>1. NextSuperstepIfPossible(registered \union {a}, processing) /\ informs' = informs
      BY <2>3 DEF RegisterAgent
    <3>2. registered \union {a} \in SUBSET Agents /\ processing \in SUBSET processing
      BY <1>1
    <3> QED
      BY <1>1, <2>1, <2>2, <3>1, <3>2, NextAwaited
  <2>4. CASE DeregisterAgent(a)
    <3>1. informs' = informs
      BY <2>4 DEF DeregisterAgent
    <3>2. registered \ {a} \in SUBSET Agents /\ processing \ {a} \in SUBSET processing
      BY <1>1
    <3>3. CASE NextSuperstepIfPossible(registered \ {a}, processing \ {a})
      BY <1>1, <2>1, <2>2, <3>1, <3>2, <3>3, NextAwaited
    <3>4. CASE UNCHANGED <<superstep, processing, signals, timers>>
      BY <2>1, <2>2, <3>1, <3>4 DEF Awaited, Underway
    <3> QED
      BY <2>4, <3>3, <3>4 DEF DeregisterAgent
  <2>5. CASE AgentCompletedSuperstep(a)
    <3>1. /\ NextSuperstepIfPossible(registered, processing \ {a})
          /\ b \in processing \ {a} => informs'[b] = informs[b]
      BY <1>1, <2>5 DEF AgentCompletedSuperstep, Taken, Inv, TypeOK
    <3>2. processing \ {a} \in SUBSET processing
      OBVIOUS
    <3> QED
      BY <1>1, <2>1, <2>2, <3>1, <3>2, NextAwaited
  <2> QED
    BY <1>3, <2>3, <2>4, <2>5 DEF BarrierStep
<1>4. ASSUME NEW s \in Supersteps, OnTimeout(s) PROVE Awaited(b)'
  BY <1>1, <1>2, <1>4, TimeoutAwaited DEF OnTimeout
<1>5. ASSUME NEW a \in Agents, AgentStep(a) PROVE Awaited(b)'
  BY <1>1, <1>2, <1>5, AgentAwaited DEF AgentStep, StartAgent, StopAgent, TerminateAgent
<1>6. ASSUME NEW a \in Agents, NEW s \in Supersteps, DeliverSuperstep(a, s) PROVE Awaited(b)'
  BY <1>1, <1>2, <1>6, DeliverAwaited DEF DeliverSuperstep
<1>7. ASSUME NEW kind, Lose(kind) PROVE FALSE
  BY <1>1, <1>7 DEF Lose
<1>8. CASE UNCHANGED vars
  BY <1>2, <1>8 DEF vars, barrierVars, inboxVars, agentVars, Awaited, Underway
<1> QED
  BY <1>3, <1>4, <1>5, <1>6, <1>7, <1>8
     DEF Next, LoseSubscribe, LoseCancel, LoseInform, LoseSuperstep, LoseTimeout

\* While no send has failed, whoever the barrier waits for is on the way to
\* answer, for any number of agents, supersteps, copies and starts: the timeout
\* is needed for the dead only.
THEOREM AwaitedAnswer == Spec => []NobodyForgotten
<1>1. Init => ForgottenInv
  <2>1. Init => AnswersOK
    BY DEF Init, AnswersOK, Fresh, StartedOnce, Underway, Supersteps
  <2>2. Init => NobodyForgotten
    BY DEF Init, NobodyForgotten
  <2> QED
    BY <2>1, <2>2, InitInv DEF ForgottenInv
<1>2. ForgottenInv /\ [Next]_vars => ForgottenInv'
  BY NextInv, NextAnswersOK, NextForgotten DEF ForgottenInv
<1>3. ForgottenInv => NobodyForgotten
  BY DEF ForgottenInv
<1> QED
  BY <1>1, <1>2, <1>3, PTL DEF Spec
=============================================================================
